----------------------------- MODULE MCScaleSet -----------------------------
(* An instance of ScaleSet for TLC. *)
EXTENDS ScaleSet

\* At most one of the workers has two changes on its way.  After a fault, and
\* once the second name is in use, each has at most one; the life of the second
\* name is explored up to its first removal.
Brief == /\ Cardinality(wev) + Cardinality(pev) <= 3
         /\ faults > 0 \/ fresh = {} => Cardinality(wev) <= 1 /\ Cardinality(pev) <= 1
         /\ fresh = {} => faults = 0 /\ \E n \in Names : row[n] \in {"pending_create", "creating", "running"} /\ msgs = <<>>
=============================================================================
