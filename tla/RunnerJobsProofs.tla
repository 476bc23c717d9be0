-------------------------- MODULE RunnerJobsProofs --------------------------
(***************************************************************************)
(* A theorem about RunnerJobs: where in the manager a job can be lost.  It *)
(* rests on the invariants of RunnerPoolProofs, which hold beside the jobs *)
(* because the composition only adds to the pool manager.                  *)
(***************************************************************************)
EXTENDS RunnerJobs, RunnerPoolProofs

\* What jobs do, the pool manager does not see; what GitLab posts is a webhook.
LEMMA PoolStepSeen == [JobNext]_allVars => [Next]_vars
<1> SUFFICES ASSUME [JobNext]_allVars PROVE [Next]_vars
  OBVIOUS
<1>1. ASSUME NEW j \in Jobs, Post(j) PROVE [Next]_vars
  <2>1. [status |-> "pending", tags |-> JobTags[j]] \in Events
    BY JobAssumption
  <2>2. QED
    BY <1>1, <2>1 DEF Post, Next
<1>2. ASSUME NEW j \in Jobs, Submit(j) \/ Finish(j) PROVE UNCHANGED vars
  BY <1>2 DEF Submit, Finish
<1>3. ASSUME NEW i \in Inst, NEW j \in Jobs, Take(i, j) PROVE UNCHANGED vars
  BY <1>3 DEF Take
<1>4. CASE PoolStep
  BY <1>4 DEF PoolStep, Next
<1>5. CASE UNCHANGED allVars
  BY <1>5 DEF allVars
<1>6. QED
  BY <1>1, <1>2, <1>3, <1>4, <1>5 DEF JobNext

\* The pool manager with its jobs is the pool manager: every job step is a step of the
\* manager, an event from the listener, or nothing to it.
LEMMA PoolUndisturbed == JobSpec => Spec
<1>1. JobInit => Init
  BY DEF JobInit
<1>2. QED
  BY <1>1, PoolStepSeen, PTL DEF JobSpec, Spec

\* The pool's invariants hold beside the jobs.
LEMMA PoolInductive == JobSpec => [](IndInv /\ Upright)
BY PoolUndisturbed, WorldInductive, PTL

\* A runner works on one job at a time, and its container serves as long as it does.
OneJobEach == \A j, k \in Jobs : on[j] # NoInst /\ on[j] = on[k] => j = k

JobInv == JobTypeOK /\ OneJobEach

LEMMA JobInvInit == JobInit => JobInv
BY IndInit DEF JobInit, JobInv, JobTypeOK, OneJobEach, IndInv

\* A running job keeps its runner, whose container serves; only a free runner takes a job.
LEMMA JobInvNext == JobInv /\ TypeOK' /\ [JobNext]_allVars => JobInv'
<1> SUFFICES ASSUME JobInv, TypeOK', [JobNext]_allVars PROVE JobInv'
  OBVIOUS
<1>1. ASSUME NEW j \in Jobs, Submit(j) PROVE JobInv'
  BY <1>1 DEF Submit, JobInv, JobTypeOK, OneJobEach, vars, outside
<1>2. ASSUME NEW j \in Jobs, Post(j) PROVE JobInv'
  <2>1. incus' = incus
    BY <1>2 DEF Post, Webhook, vars, outside
  <2>2. QED
    BY <1>2, <2>1 DEF Post, JobInv, JobTypeOK, OneJobEach
<1>3. ASSUME NEW j \in Jobs, Finish(j) PROVE JobInv'
  BY <1>3 DEF Finish, JobInv, JobTypeOK, OneJobEach, vars, outside
<1>4. ASSUME NEW i \in Inst, NEW j \in Jobs, Take(i, j) PROVE JobInv'
  <2>1. incus[i] = "serving" /\ \A k \in Jobs : on[k] # i
    BY <1>4, JobAssumption DEF Take, Ready, Busy
  <2>2. JobTypeOK'
    BY <1>4, <2>1 DEF Take, JobInv, JobTypeOK, vars, outside
  <2>3. OneJobEach'
    BY <1>4, <2>1 DEF Take, JobInv, JobTypeOK, OneJobEach
  <2>4. QED
    BY <2>2, <2>3 DEF JobInv
<1>5. CASE PoolStep
  <2>1. JobsFollow
    BY <1>5 DEF PoolStep
  <2>2. JobTypeOK'
    BY <2>1 DEF JobsFollow, Killed, JobInv, JobTypeOK
  <2>3. OneJobEach'
    BY <2>1 DEF JobsFollow, Killed, JobInv, OneJobEach
  <2>4. QED
    BY <2>2, <2>3 DEF JobInv
<1>6. CASE UNCHANGED allVars
  BY <1>6 DEF allVars, jobVars, vars, outside, JobInv, JobTypeOK, OneJobEach
<1>7. QED
  BY <1>1, <1>2, <1>3, <1>4, <1>5, <1>6 DEF JobNext

LEMMA JobInductive == JobSpec => []JobInv
<1>1. JobSpec => []TypeOK
  BY PoolUndisturbed, TypeCorrect, PTL
<1>2. QED
  BY <1>1, JobInvInit, JobInvNext, PTL DEF JobSpec

\* A job on a runner that the pool tracks or has stored is lost only because its pool's
\* destroyInstance deletes the container: no other goroutine, no failed creation, no
\* crash and no restart of the manager takes a known runner from under its job.
LostToDestroyAlone ==
    [][\A j \in Jobs : job[j] = "running" /\ on[j] \in Known /\ job'[j] = "lost" =>
         \E p \in Pools : pc[p] = "delete" /\ at[p] = on[j]]_allVars

\* A known container that serves stops serving only in the deletion of its pool's thread.
LEMMA TakenDown ==
    ASSUME IndInv, Steps, NEW i \in Inst, i \in Known,
           incus[i] = "serving", incus'[i] # "serving"
    PROVE  \E p \in Pools : pc[p] = "delete" /\ at[p] = i
<1>1. i \in stored \/ i \in instances[PoolOf[i]]
  BY KnownTyped
<1>2. ASSUME NEW t \in Threads, OnlyAt(t), Moved(t)
      PROVE  \E p \in Pools : pc[p] = "delete" /\ at[p] = i
  <2>1. at[t] = i
    BY <1>2 DEF OnlyAt
  <2>2. pc[t] \notin CreatePC \ {"add"}
    BY <1>1, <2>1 DEF IndInv, Ownership
  <2>3. Deregistered(t) \/ Deleted(t)
    BY <1>2, <2>1, <2>2
       DEF Moved, Named, Built, Registered, Started, Dropped, Saved, Added, Turned, Chosen,
           Unstored, Forgotten, CreatePC, WorldKept
  <2>4. Deleted(t)
    BY <1>2, <2>1, <2>3 DEF Deregistered
  <2>5. QED
    BY <2>1, <2>4 DEF Deleted
<1>3. CASE Quiet \/ Halt \/ Restart
  BY <1>3 DEF Quiet, Halt, Restart, outside
<1>4. ASSUME NEW j \in Inst, Sweep(j) PROVE FALSE
  <2>1. i # j
    BY <1>1, <1>4, OrphanHands DEF Sweep
  <2>2. incus \in [Inst -> Containers]
    BY DEF IndInv, TypeOK
  <2>3. QED
    BY <1>4, <2>1, <2>2 DEF Sweep
<1>5. QED
  BY <1>2, <1>3, <1>4 DEF Steps

\* A job on a known runner is lost only in the deletion step of scale-down.
THEOREM JobsLostToScaleDown == JobSpec => LostToDestroyAlone
<1> DEFINE Lost == \A j \in Jobs : job[j] = "running" /\ on[j] \in Known /\ job'[j] = "lost" =>
                     \E p \in Pools : pc[p] = "delete" /\ at[p] = on[j]
<1>1. ASSUME IndInv, JobInv, [JobNext]_allVars PROVE Lost
  <2> SUFFICES ASSUME NEW j \in Jobs, job[j] = "running", on[j] \in Known, job'[j] = "lost"
               PROVE  \E p \in Pools : pc[p] = "delete" /\ at[p] = on[j]
    OBVIOUS
  <2>1. PoolStep
    BY <1>1 DEF JobNext, Submit, Post, Finish, Take, allVars, jobVars, JobInv, JobTypeOK
  <2>2. Killed(j)
    BY <2>1 DEF PoolStep, JobsFollow
  <2>3. on[j] \in Inst /\ incus[on[j]] = "serving" /\ incus'[on[j]] # "serving"
    BY <1>1, <2>2 DEF Killed, JobInv, JobTypeOK
  <2>4. Steps
    BY <1>1, PoolStepSeen, StepCases
  <2>5. QED
    BY <1>1, <2>3, <2>4, TakenDown
<1>2. QED
  BY <1>1, PoolInductive, JobInductive, PTL DEF JobSpec, LostToDestroyAlone
=============================================================================
