----------------------------- MODULE RunnerJobs -----------------------------
(***************************************************************************)
(* The pool manager together with what it works for: GitLab's job queue.   *)
(* GitLab is external.  It posts one job event when a job becomes pending, *)
(* once, to a listener that may be down or drop it; a runner polls for a   *)
(* job its tags allow, runs it, and takes it down with its container.      *)
(***************************************************************************)
EXTENDS RunnerPool

CONSTANTS
    Jobs,           \* CI jobs, each run at most once
    JobTags,        \* the tags of each job
    RunUntagged     \* PoolConfig.RunUntagged

ASSUME JobAssumption ==
    /\ JobTags \in [Jobs -> SUBSET Tags]
    /\ RunUntagged \in [Pools -> BOOLEAN]
    /\ NoInst \notin Inst
    /\ Events = {[status |-> "pending", tags |-> JobTags[j]] : j \in Jobs}

VARIABLES
    job,        \* "new", "pending", "running", "done" or "lost"
    on,         \* the runner a job runs on
    posted      \* the jobs whose event GitLab has posted

jobVars == <<job, on, posted>>
allVars == <<vars, jobVars>>

JobTypeOK ==
    /\ TypeOK
    /\ job \in [Jobs -> {"new", "pending", "running", "done", "lost"}]
    /\ on \in [Jobs -> Inst \cup {NoInst}]
    /\ \A j \in Jobs : IF job[j] = "running" THEN on[j] \in Inst /\ incus[on[j]] = "serving"
                                             ELSE on[j] = NoInst
    /\ posted \in SUBSET Jobs

Busy == {on[j] : j \in Jobs} \ {NoInst}

Submit(j) ==
    /\ job[j] = "new"
    /\ job' = [job EXCEPT ![j] = "pending"]
    /\ UNCHANGED <<vars, on, posted>>

\* The event reaches the listener, or is lost because nothing listens.
Post(j) ==
    /\ job[j] # "new" /\ j \notin posted
    /\ \/ Webhook([status |-> "pending", tags |-> JobTags[j]])
       \/ phase \notin {"up", "cancelled"} /\ UNCHANGED vars
    /\ posted' = posted \cup {j}
    /\ UNCHANGED <<job, on>>

\* RegisterRunner gave GitLab the pool's tag list and its run_untagged flag.
MayRun(i, j) ==
    IF JobTags[j] = {} THEN RunUntagged[PoolOf[i]]
                       ELSE JobTags[j] \subseteq PoolTags[PoolOf[i]]

Take(i, j) ==
    /\ job[j] = "pending"
    /\ Ready(i) /\ i \notin Busy /\ MayRun(i, j)
    /\ job' = [job EXCEPT ![j] = "running"]
    /\ on' = [on EXCEPT ![j] = i]
    /\ UNCHANGED <<vars, posted>>

Finish(j) ==
    /\ job[j] = "running"
    /\ job' = [job EXCEPT ![j] = "done"]
    /\ on' = [on EXCEPT ![j] = NoInst]
    /\ UNCHANGED <<vars, posted>>

\* A job whose container is stopped or deleted under it is lost.
Killed(j) == job[j] = "running" /\ incus'[on[j]] # "serving"

JobsFollow ==
    /\ job' = [j \in Jobs |-> IF Killed(j) THEN "lost" ELSE job[j]]
    /\ on' = [j \in Jobs |-> IF Killed(j) THEN NoInst ELSE on[j]]
    /\ UNCHANGED posted

PoolStep == ManagerNext /\ JobsFollow

JobInit ==
    /\ Init
    /\ job = [j \in Jobs |-> "new"]
    /\ on = [j \in Jobs |-> NoInst]
    /\ posted = {}

JobNext ==
    \/ \E j \in Jobs : Submit(j) \/ Post(j) \/ Finish(j)
    \/ \E i \in Inst, j \in Jobs : Take(i, j)
    \/ PoolStep

\* While a free runner and a job it may run are there, some job is taken in the end
\* (runners poll), and a job ends.  The rest is the manager's own fairness.
JobFairness ==
    /\ \A j \in Jobs : WF_allVars(Post(j)) /\ WF_allVars(Finish(j))
    /\ WF_allVars(\E i \in Inst, j \in Jobs : Take(i, j))
    /\ WF_allVars(Dispatch /\ JobsFollow) /\ WF_allVars(Recover /\ JobsFollow)
    /\ WF_allVars(ManagerStop /\ JobsFollow) /\ WF_allVars(Exit /\ JobsFollow)
    /\ \A t \in Threads : WF_allVars(CreateStep(t) /\ JobsFollow)
    /\ \A i \in Inst : WF_allVars(Sweep(i) /\ JobsFollow)
    /\ \A p \in Pools :
         /\ WF_allVars(ScaleUpStep(p) /\ JobsFollow)
         /\ WF_allVars(Tick(p) /\ JobsFollow) /\ WF_allVars(ReconcileStep(p) /\ JobsFollow)
         /\ WF_allVars(ReconcileReturn(p) /\ JobsFollow)

JobSpec == JobInit /\ [][JobNext]_allVars /\ JobFairness

-----------------------------------------------------------------------------
(* Properties.                                                             *)

\* With at least one warm instance per pool every job that a pool's runners may
\* run gets a runner in the end, even when its event is dropped or lost because the
\* process is down, and even though reconcile destroys runners regardless of what they
\* run.  It does not if the process stays stopped, or if what stands for the warm
\* instance is a row whose container is gone for ever.
JobsServed ==
    \/ \A j \in Jobs : job[j] = "pending" ~> (job[j] # "pending" \/ phase = "stopped")
    \/ \E i \in Inst : <>[](i \in Known /\ ~Ready(i))

\* "A background reconcile loop (30 s) enforces min_idle and scales down runners
\* that have been idle longer than idle_timeout": a runner in the middle of a job
\* is not picked for scale-down.
DestroysOnlyIdle ==
    [][\A p \in Pools : pc[p] = "pick" /\ pc'[p] = "deregister" => at'[p] \notin Busy]_allVars
=============================================================================
