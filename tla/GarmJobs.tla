------------------------------ MODULE GarmJobs ------------------------------
(***************************************************************************)
(* How garm learns of workflow jobs and spawns runners for them: webhooks, *)
(* the job table with its per-entity locks, the database watcher that      *)
(* copies changes into every pool manager's map of jobs, and the loops     *)
(* consumeQueuedJobs and reconcileStaleJobs (ci/runners/garm/runner/pool,  *)
(* database/sql/jobs.go, database/watcher).                                *)
(*                                                                         *)
(* A repository and its organisation each get every webhook of a job and   *)
(* each run a pool manager; they share the row of the job.  So an event    *)
(* arrives once per manager, and each webhook is handled by a thread of    *)
(* its own, which first reads the row and later writes it.  The watcher    *)
(* passes each change to each manager in a new goroutine (go c.Send),      *)
(* which gives up after a second: changes arrive in any order, or not at   *)
(* all.                                                                    *)
(*                                                                         *)
(* Simplifications: every pool matches the labels of every job; a job is   *)
(* old once it passes whichever age the code compares it with; an entity   *)
(* has one pool; the backoff before a job is considered is zero; a job     *)
(* belongs to every manager from its first row on.  The unlock of an old   *)
(* entry that the map shows free is undone by the lock that follows it and *)
(* left out.  A deleted row is not created again: it would have a new id,  *)
(* and be another job to the maps, which are keyed by it.  Jobs outside    *)
(* Jobs show only as runners they take away; jobs of scale sets, whose     *)
(* webhooks are ignored, are among them.  MinIdleRunners is zero.  A loop  *)
(* that lists old queued rows deletes one in the step that lists it.       *)
(***************************************************************************)
EXTENDS Integers, FiniteSets

CONSTANTS
    Entities,       \* repositories and organisations with a pool manager
    Jobs,           \* workflow jobs
    NoOne,          \* uuid.Nil, "not locked"
    MaxRunners,     \* Pool.MaxRunners of each entity's pool
    MaxEvents,      \* bound: changes on their way to the managers
    MaxThreads,     \* bound: webhooks handled at once
    FaultKinds,     \* what may go wrong
    MaxFaults       \* bound: how often

AllFaults == {"lose", "again", "drop", "crash"}

ASSUME GarmJobsAssumption ==
    /\ IsFiniteSet(Entities) /\ IsFiniteSet(Jobs) /\ NoOne \notin Entities
    /\ MaxRunners \in Nat /\ MaxEvents \in Nat \ {0} /\ MaxThreads \in Nat \ {0} /\ MaxFaults \in Nat
    /\ FaultKinds \subseteq AllFaults

Actions == {"queued", "in_progress", "completed"}
Rank == [queued |-> 1, in_progress |-> 2, completed |-> 3]
Absent == [st |-> "absent", lock |-> NoOne]
Gone == [st |-> "deleted", lock |-> NoOne]

VARIABLES
    ghj,        \* the job in GitHub: "new", "queued", "running", "done"
    managed,    \* the entities with a pool manager
    hooks,      \* webhooks on their way: how many of each action
    threads,    \* webhook handlers between their read and their write
    row,        \* the row of a job: status (and action), LockedBy
    aged,       \* jobs whose row is old
    events,     \* per entity: changes on their way to its manager
    jobs,       \* per entity: basePoolManager.jobs
    old,        \* per entity: map entries not updated for 10 minutes
    todo,       \* per entity: consumeQueuedJobs' copy of the queued jobs
    at,         \* per entity: the job it has locked and spawns a runner for
    runners,    \* per entity: the jobs its idle runners were spawned for (labels)
    busy,       \* the jobs that run on garm's runners: their rows get an InstanceID
    strayed,    \* jobs whose runner took another job, which no webhook has told yet
    judged,     \* jobs reconcileStaleJobs has asked GitHub about and is to delete
    broken,     \* history: jobs whose lock was broken while a runner was spawned
    faults

vars == <<managed, ghj, hooks, threads, row, aged, events, jobs, old, todo, at, runners, busy,
          strayed, judged, broken, faults>>
github == <<managed, ghj, hooks>>
manager == <<jobs, old, todo, at>>

Rows == [st : Actions \cup {"absent", "deleted"}, lock : Entities \cup {NoOne}]
Todo == [j : Jobs, lock : Entities \cup {NoOne}, old : BOOLEAN]
Change == [op : {"update", "delete"}, j : Jobs, st : Actions, lock : Entities \cup {NoOne}]

TypeOK ==
    /\ managed \subseteq Entities
    /\ ghj \in [Jobs -> {"new", "queued", "running", "done"}]
    /\ hooks \in [Jobs -> [Actions -> 0..Cardinality(Entities)]]
    /\ threads \subseteq [j : Jobs, act : Actions, saw : Actions \cup {"absent"}]
    /\ row \in [Jobs -> Rows] /\ aged \subseteq Jobs
    /\ events \in [Entities -> SUBSET Change]
    /\ jobs \in [Entities -> [Jobs -> Rows]]
    /\ old \in [Entities -> SUBSET Jobs] /\ todo \in [Entities -> SUBSET Todo]
    /\ at \in [Entities -> SUBSET Jobs]
    /\ \A e \in Entities : \A j \in Jobs : jobs[e][j].st \notin {"completed", "deleted"}
    /\ strayed \subseteq Jobs /\ busy \subseteq Jobs /\ judged \subseteq Jobs
    /\ runners \in [Entities -> [Jobs -> 0..MaxRunners]]
    /\ \A e \in Entities : at[e] # {} => Cardinality(at[e]) = 1
    /\ broken \in [Entities -> SUBSET Jobs] /\ faults \in 0..MaxFaults

Fault(k) == k \in FaultKinds /\ faults < MaxFaults /\ faults' = faults + 1
NoFault == UNCHANGED faults

-----------------------------------------------------------------------------
(* The job table.  Every change is one transaction, then sendNotify.       *)

\* The watcher starts one goroutine per manager for a change.
Room == Cardinality(UNION {events[e] \X {e} : e \in managed}) + Cardinality(managed) <= MaxEvents
Notify(c) == Room /\ events' = [e \in Entities |-> IF e \in managed THEN events[e] \cup {c} ELSE {}]
Updated(j, r) == [op |-> "update", j |-> j, st |-> r.st, lock |-> r.lock]
Deleted(j) == [op |-> "delete", j |-> j, st |-> "queued", lock |-> NoOne]

SetRow(j, r) == row' = [row EXCEPT ![j] = r] /\ Notify(Updated(j, r))
NoChange == UNCHANGED <<row, events>>

\* Its callers have just read the row; one that is gone changes nothing.
DeleteJob(j) ==
    /\ row' = [row EXCEPT ![j] = Gone] /\ aged' = aged \ {j}
    /\ Notify(Deleted(j))

\* Mutant of MayLock: the lock of another entity does not count.
MayLockAny(e, j) == row[j].st \in Actions

\* LockJob succeeds on a free job and on one already locked by the same entity.
MayLock(e, j) == row[j].st \in Actions /\ row[j].lock \in {NoOne, e}

LockJob(e, j) ==
    IF row[j].lock = e THEN NoChange ELSE SetRow(j, [row[j] EXCEPT !.lock = e])

\* UnlockJob; unlocking a free job changes nothing and notifies nobody.
UnlockJob(e, j) ==
    IF row[j].lock = e THEN SetRow(j, [row[j] EXCEPT !.lock = NoOne]) ELSE NoChange

\* CreateOrUpdateJob keeps the lock.
CreateOrUpdateJob(j, act) == SetRow(j, [st |-> act, lock |-> row[j].lock])

\* A lock that goes while its holder spawns a runner.
Break(j) == broken' = [e \in Entities |-> IF j \in at[e] THEN broken[e] \cup {j} ELSE broken[e]]

-----------------------------------------------------------------------------
(* HandleWorkflowJob.                                                      *)

\* Mutant of Accepts: the status may go back.
AcceptsAny(j, act) == row[j].st \in Actions \/ act = "queued" \/ j \in busy

\* persistJobToDB and shouldRecordJob: a known job only moves forward; a new
\* one is recorded when it is queued or runs on an instance of garm.
Accepts(j, act) ==
    IF row[j].st \in Actions THEN Rank[act] >= Rank[row[j].st]
                       ELSE act = "queued" \/ j \in busy

HookRead(j, act) ==
    /\ hooks[j][act] > 0 /\ Cardinality(threads) < MaxThreads
    /\ \/ hooks' = [hooks EXCEPT ![j][act] = @ - 1] /\ NoFault
       \/ UNCHANGED hooks /\ Fault("again")            \* delivered once more later
    /\ threads' = IF row[j] # Gone /\ Accepts(j, act) THEN threads \cup {[j |-> j, act |-> act, saw |-> row[j].st]} ELSE threads
    /\ UNCHANGED <<managed, ghj, row, aged, events, manager, runners, busy, strayed, judged, broken>>

LoseHook(j, act) ==
    /\ hooks[j][act] > 0 /\ Fault("lose")
    /\ hooks' = [hooks EXCEPT ![j][act] = @ - 1]
    /\ UNCHANGED <<managed, ghj, threads, row, aged, events, manager, runners, busy, strayed, judged, broken>>

\* handleInProgressJob and handleCompletedJob act on the runner's instance,
\* which GarmPool models.
HookWrite(t) ==
    /\ IF row[t.j] = Gone THEN NoChange ELSE CreateOrUpdateJob(t.j, t.act)
    /\ threads' = threads \ {t}
    /\ UNCHANGED <<github, aged, manager, runners, busy, strayed, judged, broken, faults>>

\* Another job has taken a runner spawned for j (jobIDFromLabels): its
\* in_progress webhook breaks the lock of j if j is still queued.
BreakLockJobIsQueued(j) ==
    /\ j \in strayed /\ strayed' = strayed \ {j}
    /\ IF row[j].st = "queued" /\ row[j].lock # NoOne
         THEN SetRow(j, [row[j] EXCEPT !.lock = NoOne]) /\ Break(j)
         ELSE NoChange /\ UNCHANGED broken
    /\ UNCHANGED <<github, threads, aged, manager, runners, busy, judged, faults>>

-----------------------------------------------------------------------------
(* The watcher and the managers' maps.                                     *)

\* Mutant of Apply: completed jobs stay in the map.
ApplyKeeps(e, c) ==
    /\ c \in events[e]
    /\ events' = [events EXCEPT ![e] = @ \ {c}]
    /\ jobs' = [jobs EXCEPT ![e][c.j] = IF c.op = "delete" THEN Absent ELSE [st |-> c.st, lock |-> c.lock]]
    /\ old' = [old EXCEPT ![e] = @ \ {c.j}]
    /\ UNCHANGED <<github, threads, row, aged, todo, at, runners, busy, strayed, judged, broken, faults>>

\* handleWatcherEvent
Apply(e, c) ==
    /\ c \in events[e]
    /\ events' = [events EXCEPT ![e] = @ \ {c}]
    /\ jobs' = [jobs EXCEPT ![e][c.j] =
                  IF c.op = "delete" \/ c.st = "completed" THEN Absent
                  ELSE [st |-> c.st, lock |-> c.lock]]
    /\ old' = [old EXCEPT ![e] = @ \ {c.j}]
    /\ UNCHANGED <<github, threads, row, aged, todo, at, runners, busy, strayed, judged, broken, faults>>

\* consumer.Send gives up after a second.
DropEvent(e, c) ==
    /\ c \in events[e] /\ Fault("drop")
    /\ events' = [events EXCEPT ![e] = @ \ {c}]
    /\ UNCHANGED <<github, threads, row, aged, manager, runners, busy, strayed, judged, broken>>

-----------------------------------------------------------------------------
(* consumeQueuedJobs.                                                      *)

Queued(e) == {j \in Jobs : jobs[e][j].st = "queued"}

\* getQueuedJobs copies the map; a job locked by another entity is skipped.
ConsumeStart(e) ==
    /\ e \in managed /\ todo[e] = {} /\ at[e] = {}
    /\ LET mine == {j \in Queued(e) : jobs[e][j].lock \in {NoOne, e}}
       IN /\ mine # {}
          /\ todo' = [todo EXCEPT ![e] = {[j |-> j, lock |-> jobs[e][j].lock, old |-> j \in old[e]] : j \in mine}]
    /\ UNCHANGED <<github, threads, row, aged, events, jobs, old, at, runners, busy, strayed, judged, broken, faults>>

\* A job this entity has locked is skipped, after 10 minutes unlocked first.
ConsumeLocked(e, c) ==
    /\ c \in todo[e] /\ at[e] = {} /\ c.lock = e
    /\ todo' = [todo EXCEPT ![e] = @ \ {c}]
    /\ IF c.old THEN UnlockJob(e, c.j) ELSE NoChange
    /\ UNCHANGED <<github, threads, aged, jobs, old, at, runners, busy, strayed, judged, broken, faults>>

\* A free one is locked, unless somebody else was faster or the row is gone.
ConsumeFree(e, c) ==
    /\ c \in todo[e] /\ at[e] = {} /\ c.lock = NoOne
    /\ todo' = [todo EXCEPT ![e] = @ \ {c}]
    /\ IF MayLock(e, c.j)
         THEN LockJob(e, c.j) /\ at' = [at EXCEPT ![e] = {c.j}]
         ELSE NoChange /\ UNCHANGED at
    /\ UNCHANGED <<github, threads, aged, jobs, old, runners, busy, strayed, judged, broken, faults>>

\* The entity's idle runners: the i-th one spawned for job j is <<j, i>>.
Idle(e) == Cardinality({r \in Jobs \X (1..MaxRunners) : r[2] <= runners[e][r[1]]})

\* addRunnerToPool labels the runner with the job; without room the job is unlocked.
Spawn(e, j) ==
    /\ at[e] = {j}
    /\ at' = [at EXCEPT ![e] = {}]
    /\ broken' = [broken EXCEPT ![e] = {}]
    /\ IF Idle(e) < MaxRunners
         THEN runners' = [runners EXCEPT ![e][j] = @ + 1] /\ NoChange
         ELSE UnlockJob(e, j) /\ UNCHANGED runners
    /\ UNCHANGED <<github, threads, aged, jobs, old, todo, busy, strayed, judged, faults>>

\* DeleteInactionableJobs, deferred: old rows that are past queued without a
\* runner of garm's, and completed ones.
Inactionable(j) ==
    /\ j \in aged
    /\ row[j].st # "queued" /\ (row[j].st = "completed" \/ j \notin busy)

DeleteInactionable(j) ==
    /\ row[j].st \in Actions /\ Inactionable(j)
    /\ DeleteJob(j) /\ Break(j)
    /\ UNCHANGED <<github, threads, manager, runners, busy, strayed, judged, faults>>

\* Mutant of ReconcileStaleJobs: only the jobs in the manager's map are checked.
ReconcileMapped(j) ==
    /\ row[j].st = "queued" /\ j \in aged /\ ghj[j] # "queued"
    /\ \E e \in Entities : jobs[e][j].st = "queued"
    /\ judged' = judged \cup {j}
    /\ UNCHANGED <<github, threads, row, aged, events, manager, runners, busy, strayed, broken, faults>>

\* reconcileStaleJobs: GitHub says of an old queued row that the job is not in its
\* queue, or does not know it.
ReconcileStaleJobs(j) ==
    /\ row[j].st = "queued" /\ j \in aged /\ ghj[j] # "queued"
    /\ judged' = judged \cup {j}
    /\ UNCHANGED <<github, threads, row, aged, events, manager, runners, busy, strayed, broken, faults>>

\* And deletes it, whatever a webhook has made of the row meanwhile; a row that is
\* gone is no error.
ReconcileDelete(j) ==
    /\ j \in judged /\ judged' = judged \ {j}
    /\ IF row[j].st \in Actions THEN DeleteJob(j) /\ Break(j) ELSE UNCHANGED <<row, aged, events, broken>>
    /\ UNCHANGED <<github, threads, manager, runners, busy, strayed, faults>>

\* scaleDownOnePool: with more idle runners than queued jobs it takes old queued
\* rows for stale and deletes them, whatever GitHub says of them.
ScaleDown(e, j) ==
    /\ Idle(e) > Cardinality(Queued(e))
    /\ row[j].st = "queued" /\ j \in aged
    /\ DeleteJob(j) /\ Break(j)
    /\ UNCHANGED <<github, threads, manager, runners, busy, strayed, judged, faults>>

-----------------------------------------------------------------------------
(* GitHub, the runners, time.                                              *)

Post(j, act) == hooks' = [hooks EXCEPT ![j][act] = @ + Cardinality(managed)]

JobQueued(j) ==
    /\ ghj[j] = "new"
    /\ ghj' = [ghj EXCEPT ![j] = "queued"]
    /\ Post(j, "queued")
    /\ UNCHANGED <<managed, threads, row, aged, events, manager, runners, busy, strayed, judged, broken, faults>>

\* The job is taken by a runner of garm's, spawned for job k, or by a foreign one.
JobTaken(j, e, k) ==
    /\ ghj[j] = "queued" /\ runners[e][k] > 0
    /\ ghj' = [ghj EXCEPT ![j] = "running"]
    /\ Post(j, "in_progress")
    /\ runners' = [runners EXCEPT ![e][k] = @ - 1]
    /\ busy' = busy \cup {j} /\ strayed' = strayed \cup ({k} \ {j})
    /\ UNCHANGED <<managed, threads, row, aged, events, manager, judged, broken, faults>>

JobForeign(j) ==
    /\ ghj[j] = "queued"
    /\ ghj' = [ghj EXCEPT ![j] = "running"]
    /\ Post(j, "in_progress")
    /\ UNCHANGED <<managed, threads, row, aged, events, manager, runners, busy, strayed, judged, broken, faults>>

\* A runner spawned for j takes a job outside Jobs, or is scaled down.
RunnerGone(e, j) ==
    /\ runners[e][j] > 0
    /\ runners' = [runners EXCEPT ![e][j] = @ - 1]
    /\ strayed' \in {strayed, strayed \cup {j}}
    /\ UNCHANGED <<github, threads, row, aged, events, manager, busy, judged, broken, faults>>

JobDone(j) ==
    /\ ghj[j] = "running"
    /\ ghj' = [ghj EXCEPT ![j] = "done"]
    /\ Post(j, "completed")
    /\ UNCHANGED <<managed, threads, row, aged, events, manager, runners, busy, strayed, judged, broken, faults>>

\* Time passes for a row, and for an entry of a map.
AgeRow(j) ==
    /\ row[j].st \in Actions /\ j \notin aged
    /\ aged' = aged \cup {j}
    /\ UNCHANGED <<github, threads, row, events, manager, runners, busy, strayed, judged, broken, faults>>

AgeEntry(e, j) ==
    /\ jobs[e][j].lock = e /\ j \notin old[e]
    /\ old' = [old EXCEPT ![e] = @ \cup {j}]
    /\ UNCHANGED <<github, threads, row, aged, events, jobs, todo, at, runners, busy, strayed, judged, broken, faults>>

\* The process restarts: runWatcher fills the maps from the queued rows.
Crash ==
    /\ Fault("crash")
    /\ threads' = {} /\ events' = [e \in Entities |-> {}]
    /\ jobs' = [e \in Entities |-> [j \in Jobs |-> IF e \in managed /\ row[j].st = "queued" THEN row[j] ELSE Absent]]
    /\ old' = [e \in Entities |-> {}] /\ todo' = [e \in Entities |-> {}] /\ at' = [e \in Entities |-> {}]
    /\ judged' = {} /\ broken' = [e \in Entities |-> {}]
    /\ UNCHANGED <<github, row, aged, runners, busy, strayed>>

-----------------------------------------------------------------------------
Init ==
    /\ managed \in SUBSET Entities \ {{}}
    /\ ghj = [j \in Jobs |-> "new"] /\ hooks = [j \in Jobs |-> [act \in Actions |-> 0]] /\ threads = {}
    /\ row = [j \in Jobs |-> Absent] /\ aged = {}
    /\ events = [e \in Entities |-> {}]
    /\ jobs = [e \in Entities |-> [j \in Jobs |-> Absent]]
    /\ old = [e \in Entities |-> {}] /\ todo = [e \in Entities |-> {}] /\ at = [e \in Entities |-> {}]
    /\ runners = [e \in Entities |-> [j \in Jobs |-> 0]]
    /\ busy = {} /\ strayed = {} /\ judged = {} /\ broken = [e \in Entities |-> {}] /\ faults = 0

Consume(e) ==
    \/ ConsumeStart(e)
    \/ \E c \in todo[e] : ConsumeLocked(e, c) \/ ConsumeFree(e, c)
    \/ \E j \in at[e] : Spawn(e, j)

Next ==
    \/ \E e \in Entities, j \in Jobs :
         \/ RunnerGone(e, j) \/ AgeEntry(e, j) \/ ScaleDown(e, j)
         \/ \E k \in Jobs : JobTaken(j, e, k)
    \/ \E e \in Entities : Consume(e) \/ \E c \in events[e] : Apply(e, c) \/ DropEvent(e, c)
    \/ \E j \in Jobs :
         \/ JobQueued(j) \/ JobForeign(j) \/ JobDone(j) \/ AgeRow(j)
         \/ DeleteInactionable(j) \/ BreakLockJobIsQueued(j)
         \/ ReconcileStaleJobs(j) \/ ReconcileDelete(j)
         \/ \E act \in Actions : HookRead(j, act) \/ LoseHook(j, act)
    \/ \E t \in threads : HookWrite(t)
    \/ Crash

Spec == Init /\ [][Next]_vars

\* Handlers finish, changes arrive, the loops tick and time passes.  Fairness is
\* strong where the bound MaxEvents, which the code does not have, makes a step
\* wait again and again.  A stale row has its turn: reconcileStaleJobs asks about five
\* rows in a cycle and leaves alone for an hour those it got an answer for, so a row
\* waits for good only behind five whose request fails every time.
Fairness ==
    /\ \A e \in Entities :
         /\ WF_vars(Consume(e)) /\ WF_vars(\E c \in events[e] : Apply(e, c))
         /\ \A j \in Jobs : WF_vars(AgeEntry(e, j))
    /\ \A j \in Jobs :
         /\ WF_vars(AgeRow(j)) /\ SF_vars(ReconcileStaleJobs(j)) /\ SF_vars(ReconcileDelete(j))
         /\ SF_vars(\E t \in threads : t.j = j /\ HookWrite(t))
         /\ WF_vars(\E act \in Actions : HookRead(j, act))

FairSpec == Spec /\ Fairness

-----------------------------------------------------------------------------
(* Properties.                                                             *)

\* A row goes back to an earlier status only through a handler that checked the
\* row before another one wrote it: "only allow forward transitions" holds of
\* deliveries that do not overlap.
OnlyStaleGoesBack ==
    [][\A j \in Jobs : row[j].st \in Actions /\ row'[j].st \in Actions /\ Rank[row'[j].st] < Rank[row[j].st]
         => \E t \in threads : t.j = j /\ t.saw # row[j].st]_vars

\* While an entity spawns a runner for a job the lock of the job is its own,
\* unless it was broken or the row deleted meanwhile: two managers that got the
\* same webhook do not both spawn.
LockCovers ==
    \A e \in Entities : \A j \in at[e] : row[j].lock = e \/ j \in broken[e]

\* A row that says queued although GitHub's job is not does not stay, whatever
\* webhooks are lost, repeated or overtake each other.
StaleGoes ==
    \A j \in Jobs : row[j].st = "queued" /\ ghj[j] \in {"running", "done"} ~> row[j].st # "queued"

\* "the logic here should ensure that eventually, all known queued jobs will be
\* consumed sooner or later": a queued job that is not locked gets a runner, or
\* leaves the queue, or is locked again.
KnownConsumed ==
    \A j \in Jobs : row[j].st = "queued" /\ row[j].lock = NoOne
       ~> row[j].st # "queued" \/ row[j].lock # NoOne
=============================================================================
