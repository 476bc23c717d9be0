----------------------------- MODULE MCGarmJobs -----------------------------
(* An instance of GarmJobs for TLC. *)
EXTENDS GarmJobs, TLC

Sym == Permutations(Entities)

\* Two managers are explored without faults and with one webhook at a time;
\* faults and overlapping webhooks with one manager.
TwoAreBrief == Cardinality(managed) = 2 => faults = 0 /\ Cardinality(threads) <= 1
=============================================================================
