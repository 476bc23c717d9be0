---------------------------- MODULE MCRunnerPool ----------------------------
(* Instances of RunnerPool for TLC. *)
EXTENDS RunnerPool, TLC

\* One pool: every id carries its name.
OnePool == [i \in Inst |-> CHOOSE p \in Pools : TRUE]

NoTags == {}
Untagged == [p \in Pools |-> {}]
\* A job hook that asks for a runner and one that does not.
JobHooks == {[status |-> s, tags |-> {}] : s \in {"pending", "running"}}

PendingHooks == {e \in JobHooks : e.status = "pending"}

MinIdle0 == [p \in Pools |-> 0]
MinIdle1 == [p \in Pools |-> 1]
Max1 == [p \in Pools |-> 1]
Max2 == [p \in Pools |-> 2]

Sym == Permutations(Inst) \cup Permutations(Workers)
=============================================================================
