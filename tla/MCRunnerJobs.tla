---------------------------- MODULE MCRunnerJobs ----------------------------
(* Instances of RunnerJobs for TLC. *)
EXTENDS RunnerJobs

OnePool == [i \in Inst |-> CHOOSE p \in Pools : TRUE]
PoolTagged == [p \in Pools |-> Tags]
JobsTagged == [j \in Jobs |-> Tags]
JobsUntagged == [j \in Jobs |-> {}]
JobEvents == {[status |-> "pending", tags |-> JobTags[j]] : j \in Jobs}
TakesUntagged == [p \in Pools |-> TRUE]
OnlyTagged == [p \in Pools |-> FALSE]
MinIdle0 == [p \in Pools |-> 0]
MinIdle1 == [p \in Pools |-> 1]
Max2 == [p \in Pools |-> 2]
=============================================================================
