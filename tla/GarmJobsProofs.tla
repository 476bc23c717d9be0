--------------------------- MODULE GarmJobsProofs ---------------------------
(***************************************************************************)
(* Proofs about GarmJobs, for every number of managers and jobs, every     *)
(* MaxRunners, and any number of webhooks, changes and faults.             *)
(***************************************************************************)
EXTENDS GarmJobs, FiniteSetTheorems, TLAPS

\* GitHub posts each webhook of a job once per manager, when the job gets there.
Posted ==
    \A j \in Jobs :
        /\ \A act \in Actions : hooks[j][act] <= Cardinality(managed)
        /\ ghj[j] = "new" => hooks[j]["queued"] = 0
        /\ ghj[j] \in {"new", "queued"} => hooks[j]["in_progress"] = 0
        /\ ghj[j] \in {"new", "queued", "running"} => hooks[j]["completed"] = 0

\* Only a row that is there is locked.
Held == \A j \in Jobs : row[j].lock # NoOne => row[j].st \in Actions

\* A handler does not write an action that is behind the row it read.
Checked == \A t \in threads : t.saw \in Actions => Rank[t.act] >= Rank[t.saw]

\* The job table, whose every change is announced.
TableOK ==
    /\ row \in [Jobs -> Rows] /\ events \in [Entities -> SUBSET Change]
    /\ Held

\* The webhooks on their way, and their handlers.
HooksOK ==
    /\ managed \subseteq Entities
    /\ ghj \in [Jobs -> {"new", "queued", "running", "done"}]
    /\ hooks \in [Jobs -> [Actions -> Nat]] /\ Posted
ThreadsOK ==
    /\ threads \subseteq [j : Jobs, act : Actions, saw : Actions \cup {"absent"}]
    /\ Checked

\* What the managers know, and the job each spawns a runner for.
MapsOK ==
    /\ jobs \in [Entities -> [Jobs -> Rows]]
    /\ \A e \in Entities : \A j \in Jobs : jobs[e][j].st \notin {"completed", "deleted"}
    /\ old \in [Entities -> SUBSET Jobs] /\ todo \in [Entities -> SUBSET Todo]
LocksOK ==
    /\ at \in [Entities -> SUBSET Jobs]
    /\ \A e \in Entities : at[e] = {} \/ \E j \in Jobs : at[e] = {j}
    /\ broken \in [Entities -> SUBSET Jobs]
    /\ LockCovers

\* The runners and the rest.
RestOK ==
    /\ runners \in [Entities -> [Jobs -> 0..MaxRunners]]
    /\ aged \subseteq Jobs /\ strayed \subseteq Jobs /\ busy \subseteq Jobs
    /\ judged \subseteq Jobs
    /\ faults \in 0..MaxFaults

JobsInv == TableOK /\ HooksOK /\ ThreadsOK /\ MapsOK /\ LocksOK /\ RestOK

-----------------------------------------------------------------------------
(* The job table.                                                          *)

\* A row written with an action and a lock: the other rows stay.
LEMMA SetRowTable ==
    ASSUME TableOK, NEW j \in Jobs, NEW r \in Rows, r.st \in Actions, SetRow(j, r)
    PROVE  TableOK' /\ row' = [row EXCEPT ![j] = r]
<1>1. Updated(j, r) \in Change
  BY DEF Updated, Change, Rows, Actions
<1>2. QED
  BY <1>1 DEF TableOK, Held, SetRow, Notify, Rows, Actions

\* A deleted row is not locked.
LEMMA DeleteTable ==
    ASSUME TableOK, aged \subseteq Jobs, NEW j \in Jobs, DeleteJob(j)
    PROVE  TableOK' /\ row' = [row EXCEPT ![j] = Gone] /\ aged' \subseteq Jobs
<1>1. Deleted(j) \in Change
  BY DEF Deleted, Change, Actions
<1>2. Gone \in Rows /\ Gone.lock = NoOne
  BY DEF Gone, Rows
<1>3. QED
  BY <1>1, <1>2 DEF TableOK, Held, DeleteJob, Notify

\* An entity that unlocks a job touches only a row that it has locked itself.
LEMMA UnlockTable ==
    ASSUME TableOK, NEW e \in Entities, NEW j \in Jobs, UnlockJob(e, j)
    PROVE  /\ TableOK'
           /\ \A k \in Jobs : row'[k].st = row[k].st
           /\ \A k \in Jobs : row[k].lock # e => row'[k] = row[k]
<1>1. CASE row[j].lock = e
  <2>1. row[j].st \in Actions /\ row[j] \in Rows
    BY <1>1, GarmJobsAssumption DEF TableOK, Held
  <2>2. /\ [row[j] EXCEPT !.lock = NoOne] \in Rows
        /\ [row[j] EXCEPT !.lock = NoOne].st = row[j].st
    BY <2>1 DEF Rows
  <2>3. SetRow(j, [row[j] EXCEPT !.lock = NoOne])
    BY <1>1 DEF UnlockJob
  <2>4. TableOK' /\ row' = [row EXCEPT ![j] = [row[j] EXCEPT !.lock = NoOne]]
    BY <2>1, <2>2, <2>3, SetRowTable
  <2>5. QED
    BY <1>1, <2>2, <2>4 DEF TableOK
<1>2. CASE row[j].lock # e
  BY <1>2 DEF UnlockJob, NoChange, TableOK, Held
<1>3. QED
  BY <1>1, <1>2

\* An entity locks a job that nobody else has locked.
LEMMA LockTable ==
    ASSUME TableOK, NEW e \in Entities, NEW j \in Jobs, MayLock(e, j), LockJob(e, j)
    PROVE  /\ TableOK' /\ row'[j].lock = e
           /\ \A k \in Jobs : row'[k].st = row[k].st
           /\ \A k \in Jobs \ {j} : row'[k] = row[k]
           /\ row[j].lock \in {NoOne, e}
<1>1. row[j].st \in Actions /\ row[j] \in Rows
  BY DEF TableOK, MayLock
<1>2. CASE row[j].lock = e
  BY <1>2 DEF LockJob, NoChange, TableOK, Held
<1>3. CASE row[j].lock # e
  <2>1. /\ [row[j] EXCEPT !.lock = e] \in Rows
        /\ [row[j] EXCEPT !.lock = e].st = row[j].st
        /\ [row[j] EXCEPT !.lock = e].lock = e
    BY <1>1 DEF Rows
  <2>2. TableOK' /\ row' = [row EXCEPT ![j] = [row[j] EXCEPT !.lock = e]]
    BY <1>1, <1>3, <2>1, SetRowTable DEF LockJob
  <2>3. QED
    BY <2>1, <2>2 DEF TableOK, MayLock
<1>4. QED
  BY <1>2, <1>3

\* A handler writes the status and keeps the lock.
LEMMA UpdateTable ==
    ASSUME TableOK, NEW j \in Jobs, NEW act \in Actions, CreateOrUpdateJob(j, act)
    PROVE  /\ TableOK' /\ row'[j].st = act /\ row'[j].lock = row[j].lock
           /\ \A k \in Jobs \ {j} : row'[k] = row[k]
<1>1. [st |-> act, lock |-> row[j].lock] \in Rows
  BY DEF TableOK, Rows
<1>2. TableOK' /\ row' = [row EXCEPT ![j] = [st |-> act, lock |-> row[j].lock]]
  BY <1>1, SetRowTable DEF CreateOrUpdateJob
<1>3. QED
  BY <1>2 DEF TableOK

-----------------------------------------------------------------------------
(* The invariant, its start and its consequences.                          *)

\* The invariant gives the types; the counts are of finite sets.
LEMMA JobsInvTypes == JobsInv => TypeOK /\ LockCovers
<1> SUFFICES ASSUME JobsInv PROVE TypeOK /\ LockCovers
  OBVIOUS
<1>1. /\ Cardinality(managed) \in Nat /\ Cardinality(Entities) \in Nat
      /\ Cardinality(managed) <= Cardinality(Entities)
  BY GarmJobsAssumption, FS_Subset, FS_CardinalityType DEF JobsInv, HooksOK
<1>2. hooks \in [Jobs -> [Actions -> 0..Cardinality(Entities)]]
  <2>1. \A j \in Jobs : \A act \in Actions : hooks[j][act] \in 0..Cardinality(Entities)
    BY <1>1 DEF JobsInv, HooksOK, Posted
  <2>2. QED
    BY <2>1 DEF JobsInv, HooksOK
<1>3. \A e \in Entities : at[e] # {} => Cardinality(at[e]) = 1
  BY FS_Singleton DEF JobsInv, LocksOK
<1>4. QED
  BY <1>2, <1>3 DEF JobsInv, TypeOK, TableOK, HooksOK, ThreadsOK, MapsOK, LocksOK, RestOK

\* Nothing has happened.
LEMMA JobsInit == Init => JobsInv
<1> SUFFICES ASSUME Init PROVE JobsInv
  OBVIOUS
<1>1. Absent \in Rows /\ Absent.lock = NoOne /\ Absent.st = "absent"
  BY DEF Absent, Rows
<1>2. TableOK /\ MapsOK
  BY <1>1 DEF Init, TableOK, Held, MapsOK
<1>3. HooksOK
  <2>1. managed \subseteq Entities /\ Cardinality(managed) \in Nat
    BY GarmJobsAssumption, FS_Subset, FS_CardinalityType DEF Init
  <2>2. QED
    BY <2>1 DEF Init, HooksOK, Posted, Actions
<1>4. ThreadsOK /\ LocksOK /\ RestOK
  BY GarmJobsAssumption DEF Init, ThreadsOK, Checked, LocksOK, LockCovers, RestOK
<1>5. QED
  BY <1>2, <1>3, <1>4 DEF JobsInv

\* The lock of a job whose runner is being spawned stays, or is noted as broken.
LEMMA CoverKept ==
    ASSUME LocksOK, UNCHANGED at, broken' \in [Entities -> SUBSET Jobs],
           \A e \in Entities : broken[e] \subseteq broken'[e],
           \A e \in Entities : \A j \in at[e] :
               row[j].lock = e => row'[j].lock = e \/ j \in broken'[e]
    PROVE  LocksOK'
BY DEF LocksOK, LockCovers

\* A fault is counted, up to the bound.
LEMMA FaultCount ==
    ASSUME faults \in 0..MaxFaults, (\E k \in AllFaults : Fault(k)) \/ UNCHANGED faults
    PROVE  faults' \in 0..MaxFaults
BY GarmJobsAssumption DEF Fault

\* A step that leaves a part alone keeps it.
LEMMA JobsFrame ==
    /\ TableOK /\ UNCHANGED <<row, events>> => TableOK'
    /\ HooksOK /\ UNCHANGED github => HooksOK'
    /\ ThreadsOK /\ UNCHANGED threads => ThreadsOK'
    /\ MapsOK /\ UNCHANGED <<jobs, old, todo>> => MapsOK'
    /\ LocksOK /\ UNCHANGED <<row, at, broken>> => LocksOK'
    /\ RestOK /\ UNCHANGED <<runners, aged, strayed, judged, busy, faults>> => RestOK'
BY DEF TableOK, Held, HooksOK, Posted, github, ThreadsOK, Checked, MapsOK, LocksOK, LockCovers, RestOK

-----------------------------------------------------------------------------
(* Steps back.                                                             *)

\* The step takes a row back only through a handler that read an older one.
StaleStep ==
    \A j \in Jobs : row[j].st \in Actions /\ row'[j].st \in Actions /\ Rank[row'[j].st] < Rank[row[j].st]
        => \E t \in threads : t.j = j /\ t.saw # row[j].st

\* Most steps move no row between actions.
Calm == \A j \in Jobs : row'[j].st \in {row[j].st, "deleted"}

\* Ranks are numbers.
LEMMA RankType == \A act \in Actions : Rank[act] \in Nat
BY DEF Rank, Actions

\* A step that moves no row between actions takes none back.
LEMMA CalmIsNotBack == Calm => StaleStep
BY RankType DEF Calm, StaleStep, Actions

\* A step that leaves the table alone is calm.
LEMMA SameRowsCalm == UNCHANGED row => Calm
BY DEF Calm

-----------------------------------------------------------------------------
(* Webhooks.                                                               *)

\* A webhook is read, and its handler goes on if the row is not ahead of it.
LEMMA HookReadStep ==
    ASSUME JobsInv, NEW j \in Jobs, NEW act \in Actions, HookRead(j, act)
    PROVE  JobsInv' /\ Calm
<1>1. TableOK' /\ MapsOK' /\ LocksOK' /\ Calm
  BY JobsFrame, SameRowsCalm DEF JobsInv, HookRead, manager
<1>2. RestOK'
  BY FaultCount DEF JobsInv, RestOK, HookRead, manager, Fault, NoFault, AllFaults
<1>3. HooksOK'
  <2>1. CASE UNCHANGED hooks
    BY <2>1, JobsFrame DEF JobsInv, HookRead, github
  <2>2. CASE hooks' = [hooks EXCEPT ![j][act] = @ - 1]
    <3>1. hooks[j][act] \in Nat /\ hooks[j][act] > 0
      BY DEF JobsInv, HooksOK, HookRead
    <3>2. hooks' \in [Jobs -> [Actions -> Nat]]
      BY <2>2, <3>1 DEF JobsInv, HooksOK
    <3>3. \A k \in Jobs : \A a \in Actions : hooks'[k][a] <= hooks[k][a]
      BY <2>2, <3>1 DEF JobsInv, HooksOK
    <3>4. Cardinality(managed) \in Nat
      BY GarmJobsAssumption, FS_Subset, FS_CardinalityType DEF JobsInv, HooksOK
    <3>5. Posted'
      BY <3>2, <3>3, <3>4 DEF JobsInv, HooksOK, Posted, HookRead, Actions
    <3>6. QED
      BY <3>2, <3>5 DEF JobsInv, HooksOK, HookRead
  <2>3. QED
    BY <2>1, <2>2 DEF HookRead
<1>4. ThreadsOK'
  <2>1. row[j] \in Rows
    BY DEF JobsInv, TableOK
  <2>2. CASE row[j] # Gone /\ Accepts(j, act)
    <3>1. row[j].st # "deleted"
      BY <2>1, <2>2 DEF Gone, Rows, JobsInv, TableOK, Held, Actions
    <3>2. row[j].st \in Actions \cup {"absent"}
      BY <2>1, <3>1 DEF Rows
    <3>3. row[j].st \in Actions => Rank[act] >= Rank[row[j].st]
      BY <2>2 DEF Accepts
    <3>4. QED
      BY <2>2, <3>2, <3>3 DEF JobsInv, ThreadsOK, Checked, HookRead
  <2>3. CASE ~(row[j] # Gone /\ Accepts(j, act))
    BY <2>3, JobsFrame DEF JobsInv, HookRead
  <2>4. QED
    BY <2>2, <2>3
<1>5. QED
  BY <1>1, <1>2, <1>3, <1>4 DEF JobsInv

\* A webhook is lost.
LEMMA LoseHookStep ==
    ASSUME JobsInv, NEW j \in Jobs, NEW act \in Actions, LoseHook(j, act)
    PROVE  JobsInv' /\ Calm
<1>1. TableOK' /\ ThreadsOK' /\ MapsOK' /\ LocksOK' /\ Calm
  BY JobsFrame, SameRowsCalm DEF JobsInv, LoseHook, manager
<1>2. RestOK'
  BY FaultCount DEF JobsInv, RestOK, LoseHook, manager, Fault, AllFaults
<1>3. hooks[j][act] \in Nat /\ hooks[j][act] > 0
  BY DEF JobsInv, HooksOK, LoseHook
<1>4. /\ hooks' \in [Jobs -> [Actions -> Nat]]
      /\ \A k \in Jobs : \A a \in Actions : hooks'[k][a] <= hooks[k][a]
  BY <1>3 DEF JobsInv, HooksOK, LoseHook
<1>5. Cardinality(managed) \in Nat
  BY GarmJobsAssumption, FS_Subset, FS_CardinalityType DEF JobsInv, HooksOK
<1>6. Posted'
  BY <1>4, <1>5 DEF JobsInv, HooksOK, Posted, LoseHook, Actions
<1>7. QED
  BY <1>1, <1>2, <1>4, <1>6 DEF JobsInv, HooksOK, LoseHook

\* A handler writes the row; if that takes it back, the handler read an older one.
LEMMA HookWriteStep ==
    ASSUME JobsInv, NEW t \in threads, HookWrite(t)
    PROVE  JobsInv' /\ StaleStep
<1>1. t.j \in Jobs /\ t.act \in Actions /\ t.saw \in Actions \cup {"absent"}
  BY DEF JobsInv, ThreadsOK
<1>2. HooksOK' /\ MapsOK' /\ RestOK'
  BY JobsFrame DEF JobsInv, HookWrite, manager
<1>3. ThreadsOK'
  BY DEF JobsInv, ThreadsOK, Checked, HookWrite
<1>4. CASE row[t.j] = Gone
  <2>1. UNCHANGED <<row, events>>
    BY <1>4 DEF HookWrite, NoChange
  <2>2. TableOK' /\ LocksOK' /\ Calm
    BY <2>1, JobsFrame, SameRowsCalm DEF JobsInv, HookWrite, manager
  <2>3. QED
    BY <1>2, <1>3, <2>2, CalmIsNotBack DEF JobsInv
<1>5. CASE row[t.j] # Gone
  <2>1. /\ TableOK' /\ row'[t.j].st = t.act /\ row'[t.j].lock = row[t.j].lock
        /\ \A k \in Jobs \ {t.j} : row'[k] = row[k]
    BY <1>1, <1>5, UpdateTable DEF JobsInv, HookWrite
  <2>2. LocksOK'
    BY <2>1, CoverKept DEF JobsInv, HookWrite, manager, LocksOK
  <2>3. StaleStep
    <3> SUFFICES ASSUME NEW j \in Jobs, row[j].st \in Actions,
                        Rank[row'[j].st] < Rank[row[j].st]
                 PROVE  \E u \in threads : u.j = j /\ u.saw # row[j].st
      BY DEF StaleStep
    <3>1. j = t.j
      BY <2>1, RankType
    <3>2. Rank[t.act] < Rank[row[j].st]
      BY <2>1, <3>1
    <3>3. t.saw # row[j].st
      BY <1>1, <3>2, RankType DEF JobsInv, ThreadsOK, Checked
    <3>4. QED
      BY <3>1, <3>3
  <2>4. QED
    BY <1>2, <1>3, <2>1, <2>2, <2>3 DEF JobsInv
<1>6. QED
  BY <1>4, <1>5

\* A broken lock is noted for the entity that spawns a runner for the job.
LEMMA BreakNotes ==
    ASSUME LocksOK, NEW j \in Jobs, Break(j)
    PROVE  /\ broken' \in [Entities -> SUBSET Jobs]
           /\ \A e \in Entities : broken[e] \subseteq broken'[e]
           /\ \A e \in Entities : j \in at[e] => j \in broken'[e]
BY DEF LocksOK, Break

\* The lock of a job whose runner took another job is broken.
LEMMA BreakLockStep ==
    ASSUME JobsInv, NEW j \in Jobs, BreakLockJobIsQueued(j)
    PROVE  JobsInv' /\ Calm
<1>1. HooksOK' /\ ThreadsOK' /\ MapsOK'
  BY JobsFrame DEF JobsInv, BreakLockJobIsQueued, manager
<1>2. RestOK'
  BY DEF JobsInv, RestOK, BreakLockJobIsQueued
<1>3. CASE row[j].st = "queued" /\ row[j].lock # NoOne
  <2>1. row[j] \in Rows /\ row[j].st \in Actions
    BY <1>3 DEF JobsInv, TableOK, Actions
  <2>2. /\ [row[j] EXCEPT !.lock = NoOne] \in Rows
        /\ [row[j] EXCEPT !.lock = NoOne].st = row[j].st
    BY <2>1 DEF Rows
  <2>3. SetRow(j, [row[j] EXCEPT !.lock = NoOne]) /\ Break(j)
    BY <1>3 DEF BreakLockJobIsQueued
  <2>4. TableOK' /\ row' = [row EXCEPT ![j] = [row[j] EXCEPT !.lock = NoOne]]
    BY <2>1, <2>2, <2>3, SetRowTable DEF JobsInv
  <2>5. Calm /\ \A k \in Jobs \ {j} : row'[k] = row[k]
    BY <2>2, <2>4 DEF Calm, JobsInv, TableOK
  <2>6. LocksOK'
    BY <2>3, <2>5, BreakNotes, CoverKept DEF JobsInv, LocksOK, BreakLockJobIsQueued, manager
  <2>7. QED
    BY <1>1, <1>2, <2>4, <2>5, <2>6 DEF JobsInv
<1>4. CASE ~(row[j].st = "queued" /\ row[j].lock # NoOne)
  BY <1>1, <1>2, <1>4, JobsFrame, SameRowsCalm DEF JobsInv, BreakLockJobIsQueued, NoChange, manager
<1>5. QED
  BY <1>3, <1>4

-----------------------------------------------------------------------------
(* Changes.                                                                *)

\* A manager copies a change into its map.
LEMMA ApplyStep ==
    ASSUME JobsInv, NEW e \in Entities, NEW c \in events[e], Apply(e, c)
    PROVE  JobsInv' /\ Calm
<1>1. HooksOK' /\ ThreadsOK' /\ LocksOK' /\ RestOK' /\ Calm
  BY JobsFrame, SameRowsCalm DEF JobsInv, Apply
<1>2. TableOK'
  BY DEF JobsInv, TableOK, Held, Apply
<1>3. MapsOK'
  <2>1. c \in Change
    BY DEF JobsInv, TableOK
  <2>2. Absent \in Rows /\ Absent.st = "absent"
    BY DEF Absent, Rows
  <2>3. /\ c.j \in Jobs
        /\ [st |-> c.st, lock |-> c.lock] \in Rows /\ c.st \in Actions
    BY <2>1 DEF Change, Rows
  <2>4. QED
    BY <2>2, <2>3 DEF JobsInv, MapsOK, Apply, Actions
<1>4. QED
  BY <1>1, <1>2, <1>3 DEF JobsInv

\* A change does not reach a manager in time.
LEMMA DropEventStep ==
    ASSUME JobsInv, NEW e \in Entities, NEW c \in events[e], DropEvent(e, c)
    PROVE  JobsInv' /\ Calm
<1>1. HooksOK' /\ ThreadsOK' /\ MapsOK' /\ LocksOK' /\ Calm
  BY JobsFrame, SameRowsCalm DEF JobsInv, DropEvent, manager
<1>2. TableOK'
  BY DEF JobsInv, TableOK, Held, DropEvent
<1>3. RestOK'
  BY FaultCount DEF JobsInv, RestOK, DropEvent, Fault, AllFaults
<1>4. QED
  BY <1>1, <1>2, <1>3 DEF JobsInv

\* An entry of a map, or a row, gets old.
LEMMA AgeStep ==
    ASSUME JobsInv, NEW j \in Jobs, AgeRow(j) \/ \E e \in Entities : AgeEntry(e, j)
    PROVE  JobsInv' /\ Calm
<1>1. TableOK' /\ HooksOK' /\ ThreadsOK' /\ LocksOK' /\ Calm
  BY JobsFrame, SameRowsCalm DEF JobsInv, AgeRow, AgeEntry, manager
<1>2. MapsOK' /\ RestOK'
  BY DEF JobsInv, MapsOK, RestOK, AgeRow, AgeEntry, manager
<1>3. QED
  BY <1>1, <1>2 DEF JobsInv

-----------------------------------------------------------------------------
(* consumeQueuedJobs.                                                      *)

\* The queued jobs are copied.
LEMMA ConsumeStartStep ==
    ASSUME JobsInv, NEW e \in Entities, ConsumeStart(e)
    PROVE  JobsInv' /\ Calm
<1>1. TableOK' /\ HooksOK' /\ ThreadsOK' /\ LocksOK' /\ RestOK' /\ Calm
  BY JobsFrame, SameRowsCalm DEF JobsInv, ConsumeStart
<1>2. \A j \in Jobs : [j |-> j, lock |-> jobs[e][j].lock, old |-> j \in old[e]] \in Todo
  BY DEF JobsInv, MapsOK, Rows, Todo
<1>3. MapsOK'
  BY <1>2 DEF JobsInv, MapsOK, ConsumeStart, Queued
<1>4. QED
  BY <1>1, <1>3 DEF JobsInv

\* A job this entity has locked is passed over, or unlocked: it spawns no runner then.
LEMMA ConsumeLockedStep ==
    ASSUME JobsInv, NEW e \in Entities, NEW c \in todo[e], ConsumeLocked(e, c)
    PROVE  JobsInv' /\ Calm
<1>1. c.j \in Jobs
  BY DEF JobsInv, MapsOK, Todo
<1>2. HooksOK' /\ ThreadsOK' /\ RestOK'
  BY JobsFrame DEF JobsInv, ConsumeLocked
<1>3. MapsOK'
  BY DEF JobsInv, MapsOK, ConsumeLocked
<1>4. CASE c.old
  <2>1. /\ TableOK' /\ Calm
        /\ \A k \in Jobs : row[k].lock # e => row'[k] = row[k]
    BY <1>1, <1>4, UnlockTable DEF JobsInv, ConsumeLocked, Calm
  <2>2. \A d \in Entities : \A k \in at[d] : row[k].lock = d => row'[k].lock = d
    BY <2>1 DEF ConsumeLocked, JobsInv, LocksOK
  <2>3. LocksOK'
    BY <2>2, CoverKept DEF JobsInv, LocksOK, ConsumeLocked
  <2>4. QED
    BY <1>2, <1>3, <2>1, <2>3 DEF JobsInv
<1>5. CASE ~c.old
  BY <1>2, <1>3, <1>5, JobsFrame, SameRowsCalm DEF JobsInv, ConsumeLocked, NoChange
<1>6. QED
  BY <1>4, <1>5

\* A free job is locked, and a runner is spawned for it under that lock.
LEMMA ConsumeFreeStep ==
    ASSUME JobsInv, NEW e \in Entities, NEW c \in todo[e], ConsumeFree(e, c)
    PROVE  JobsInv' /\ Calm
<1>1. c.j \in Jobs
  BY DEF JobsInv, MapsOK, Todo
<1>2. HooksOK' /\ ThreadsOK' /\ RestOK'
  BY JobsFrame DEF JobsInv, ConsumeFree
<1>3. MapsOK'
  BY DEF JobsInv, MapsOK, ConsumeFree
<1>4. CASE MayLock(e, c.j)
  <2>1. LockJob(e, c.j) /\ at' = [at EXCEPT ![e] = {c.j}]
    BY <1>4 DEF ConsumeFree
  <2>2. /\ TableOK' /\ row'[c.j].lock = e /\ Calm
        /\ \A k \in Jobs \ {c.j} : row'[k] = row[k]
        /\ row[c.j].lock \in {NoOne, e}
    BY <1>1, <1>4, <2>1, LockTable DEF JobsInv, Calm
  <2>3. at' \in [Entities -> SUBSET Jobs]
        /\ \A d \in Entities : at'[d] = {} \/ \E j \in Jobs : at'[d] = {j}
    BY <1>1, <2>1 DEF JobsInv, LocksOK
  <2>4. \A d \in Entities \ {e} : \A k \in at[d] : row[k].lock = d => row'[k].lock = d
    BY <2>2, GarmJobsAssumption DEF JobsInv, LocksOK
  <2>5. LockCovers'
    <3> SUFFICES ASSUME NEW d \in Entities, NEW k \in at'[d]
                 PROVE  row'[k].lock = d \/ k \in broken'[d]
      BY DEF LockCovers
    <3>1. CASE d = e
      BY <2>1, <2>2, <3>1 DEF JobsInv, LocksOK
    <3>2. CASE d # e
      BY <2>1, <2>4, <3>2 DEF JobsInv, LocksOK, LockCovers, ConsumeFree
    <3>3. QED
      BY <3>1, <3>2
  <2>6. LocksOK'
    BY <2>3, <2>5 DEF JobsInv, LocksOK, ConsumeFree
  <2>7. QED
    BY <1>2, <1>3, <2>2, <2>6 DEF JobsInv
<1>5. CASE ~MayLock(e, c.j)
  BY <1>2, <1>3, <1>5, JobsFrame, SameRowsCalm DEF JobsInv, ConsumeFree, NoChange
<1>6. QED
  BY <1>4, <1>5

\* A pool with room has a free place for a runner of every job: the runners of
\* one job alone are no more than the idle ones.
LEMMA IdleCounts ==
    ASSUME RestOK, NEW e \in Entities, NEW j \in Jobs, Idle(e) < MaxRunners
    PROVE  runners[e][j] < MaxRunners
<1> SUFFICES ASSUME ~(runners[e][j] < MaxRunners) PROVE FALSE
  OBVIOUS
<1> DEFINE S == {r \in Jobs \X (1..MaxRunners) : r[2] <= runners[e][r[1]]}
           T == {j} \X (1..MaxRunners)
<1>1. runners[e][j] = MaxRunners
  BY GarmJobsAssumption DEF RestOK
<1>2. T \subseteq S
  BY <1>1
<1>3. IsFiniteSet(S)
  <2>1. IsFiniteSet(1..MaxRunners) /\ IsFiniteSet(Jobs)
    BY GarmJobsAssumption, FS_Interval
  <2>2. IsFiniteSet(Jobs \X (1..MaxRunners))
    BY <2>1, FS_Product
  <2>3. QED
    BY <2>2, FS_Subset
<1>4. Cardinality(T) = MaxRunners
  <2>1. IsFiniteSet({j}) /\ Cardinality({j}) = 1
    BY FS_Singleton
  <2>2. IsFiniteSet(1..MaxRunners) /\ Cardinality(1..MaxRunners) = MaxRunners
    BY GarmJobsAssumption, FS_Interval
  <2>3. Cardinality(T) = Cardinality({j}) * Cardinality(1..MaxRunners)
    BY <2>1, <2>2, FS_Product
  <2>4. QED
    BY <2>1, <2>2, <2>3, GarmJobsAssumption
<1>5. Cardinality(T) <= Cardinality(S) /\ Cardinality(S) \in Nat
  BY <1>2, <1>3, FS_Subset, FS_CardinalityType
<1>6. QED
  BY <1>4, <1>5, GarmJobsAssumption DEF Idle

\* The runner is added, or the job unlocked; either way none is being spawned.
LEMMA SpawnStep ==
    ASSUME JobsInv, NEW e \in Entities, NEW j \in at[e], Spawn(e, j)
    PROVE  JobsInv' /\ Calm
<1>1. j \in Jobs
  BY DEF JobsInv, LocksOK
<1>2. HooksOK' /\ ThreadsOK' /\ MapsOK'
  BY JobsFrame DEF JobsInv, Spawn
<1>3. /\ TableOK' /\ Calm
      /\ \A k \in Jobs : row[k].lock # e => row'[k] = row[k]
  <2>1. CASE UNCHANGED <<row, events>>
    BY <2>1, JobsFrame, SameRowsCalm DEF JobsInv
  <2>2. CASE UnlockJob(e, j)
    BY <1>1, <2>2, UnlockTable DEF JobsInv, Calm
  <2>3. QED
    BY <2>1, <2>2 DEF Spawn, NoChange
<1>4. RestOK'
  <2>1. CASE Idle(e) < MaxRunners
    <3>1. runners[e][j] < MaxRunners /\ runners[e][j] \in Nat
      BY <1>1, <2>1, IdleCounts DEF JobsInv, RestOK
    <3>2. QED
      BY <1>1, <2>1, <3>1, GarmJobsAssumption DEF JobsInv, RestOK, Spawn
  <2>2. CASE ~(Idle(e) < MaxRunners)
    BY <2>2, JobsFrame DEF JobsInv, Spawn
  <2>3. QED
    BY <2>1, <2>2
<1>5. LocksOK'
  <2>1. /\ at' \in [Entities -> SUBSET Jobs] /\ at'[e] = {}
        /\ broken' \in [Entities -> SUBSET Jobs]
        /\ \A d \in Entities \ {e} : at'[d] = at[d] /\ broken'[d] = broken[d]
    BY DEF JobsInv, LocksOK, Spawn
  <2>2. \A d \in Entities \ {e} : \A k \in at[d] : row[k].lock = d => row'[k].lock = d
    BY <1>3 DEF JobsInv, LocksOK
  <2>3. LockCovers'
    BY <2>1, <2>2 DEF JobsInv, LocksOK, LockCovers
  <2>4. QED
    BY <2>1, <2>3 DEF JobsInv, LocksOK
<1>6. QED
  BY <1>2, <1>3, <1>4, <1>5 DEF JobsInv

\* A row is deleted, and the lock of its job with it.
LEMMA DeleteStep ==
    ASSUME JobsInv, NEW j \in Jobs, DeleteJob(j), Break(j), judged' \subseteq Jobs,
           UNCHANGED <<github, threads, manager, runners, busy, strayed, faults>>
    PROVE  JobsInv' /\ Calm
<1>1. HooksOK' /\ ThreadsOK' /\ MapsOK'
  BY JobsFrame DEF JobsInv, manager
<1>2. TableOK' /\ row' = [row EXCEPT ![j] = Gone] /\ aged' \subseteq Jobs
  BY DeleteTable DEF JobsInv, RestOK
<1>3. RestOK'
  BY <1>2 DEF JobsInv, RestOK
<1>4. Calm
  BY <1>2 DEF Calm, Gone, JobsInv, TableOK
<1>5. \A k \in Jobs \ {j} : row'[k] = row[k]
  BY <1>2 DEF JobsInv, TableOK
<1>6. LocksOK'
  BY <1>5, BreakNotes, CoverKept DEF JobsInv, LocksOK, manager
<1>7. QED
  BY <1>1, <1>2, <1>3, <1>4, <1>6 DEF JobsInv

-----------------------------------------------------------------------------
(* GitHub and the runners.                                                 *)

\* GitHub moves a job on and tells every manager: it has not told them before.
LEMMA PostHooks ==
    ASSUME HooksOK, NEW j \in Jobs, UNCHANGED managed,
           NEW s \in {"queued", "running", "done"}, NEW act \in Actions,
           \/ ghj[j] = "new" /\ s = "queued" /\ act = "queued"
           \/ ghj[j] = "queued" /\ s = "running" /\ act = "in_progress"
           \/ ghj[j] = "running" /\ s = "done" /\ act = "completed",
           ghj' = [ghj EXCEPT ![j] = s], Post(j, act)
    PROVE  HooksOK'
<1>1. Cardinality(managed) \in Nat
  BY GarmJobsAssumption, FS_Subset, FS_CardinalityType DEF HooksOK
<1>2. hooks[j][act] = 0
  BY DEF HooksOK, Posted
<1>3. hooks' = [hooks EXCEPT ![j][act] = Cardinality(managed)]
  <2>1. hooks[j][act] + Cardinality(managed) = Cardinality(managed)
    BY <1>1, <1>2
  <2>2. QED
    BY <2>1 DEF Post
<1>4. hooks' \in [Jobs -> [Actions -> Nat]]
  BY <1>1, <1>3 DEF HooksOK
<1>5. ghj' \in [Jobs -> {"new", "queued", "running", "done"}]
  BY DEF HooksOK
<1>6. \A a \in Actions : hooks'[j][a] = IF a = act THEN Cardinality(managed) ELSE hooks[j][a]
  BY <1>3 DEF HooksOK
<1>7. \A k \in Jobs \ {j} : hooks'[k] = hooks[k] /\ ghj'[k] = ghj[k]
  BY <1>3 DEF HooksOK
<1>8. ghj'[j] = s
  BY DEF HooksOK
<1>9. Posted'
  <2> SUFFICES ASSUME NEW k \in Jobs
        PROVE  /\ \A a \in Actions : hooks'[k][a] <= Cardinality(managed)
               /\ ghj'[k] = "new" => hooks'[k]["queued"] = 0
               /\ ghj'[k] \in {"new", "queued"} => hooks'[k]["in_progress"] = 0
               /\ ghj'[k] \in {"new", "queued", "running"} => hooks'[k]["completed"] = 0
    BY DEF Posted
  <2>1. CASE k = j
    <3>1. \A a \in Actions : hooks'[k][a] <= Cardinality(managed)
      BY <1>1, <1>6, <2>1 DEF HooksOK, Posted
    <3>2. QED
      BY <1>6, <1>8, <2>1, <3>1 DEF HooksOK, Posted, Actions
  <2>2. CASE k # j
    BY <1>7, <2>2 DEF HooksOK, Posted
  <2>3. QED
    BY <2>1, <2>2
<1>10. QED
  BY <1>4, <1>5, <1>9 DEF HooksOK

\* The job is queued, taken or done; a runner may go with it, or alone.
LEMMA GithubStep ==
    ASSUME JobsInv, NEW j \in Jobs,
           \/ JobQueued(j) \/ JobForeign(j) \/ JobDone(j)
           \/ \E e \in Entities : RunnerGone(e, j) \/ \E k \in Jobs : JobTaken(j, e, k)
    PROVE  JobsInv' /\ Calm
<1>1. TableOK' /\ ThreadsOK' /\ MapsOK' /\ LocksOK' /\ Calm
  BY JobsFrame, SameRowsCalm
  DEF JobsInv, JobQueued, JobForeign, JobDone, RunnerGone, JobTaken, manager
<1>2. HooksOK'
  <2>1. CASE JobQueued(j)
    <3>1. "queued" \in Actions /\ HooksOK
      BY DEF JobsInv, Actions
    <3>2. QED
      BY <2>1, <3>1, PostHooks DEF JobQueued
  <2>2. CASE JobForeign(j) \/ \E e \in Entities, k \in Jobs : JobTaken(j, e, k)
    <3>1. "in_progress" \in Actions /\ HooksOK
      BY DEF JobsInv, Actions
    <3>2. QED
      BY <2>2, <3>1, PostHooks DEF JobForeign, JobTaken
  <2>3. CASE JobDone(j)
    <3>1. "completed" \in Actions /\ HooksOK
      BY DEF JobsInv, Actions
    <3>2. QED
      BY <2>3, <3>1, PostHooks DEF JobDone
  <2>4. CASE \E e \in Entities : RunnerGone(e, j)
    BY <2>4, JobsFrame DEF JobsInv, RunnerGone
  <2>5. QED
    BY <2>1, <2>2, <2>3, <2>4
<1>3. RestOK'
  <2>1. CASE JobQueued(j) \/ JobForeign(j) \/ JobDone(j)
    BY <2>1, JobsFrame DEF JobsInv, JobQueued, JobForeign, JobDone
  <2>2. ASSUME NEW e \in Entities, NEW k \in Jobs, runners[e][k] > 0,
               runners' = [runners EXCEPT ![e][k] = @ - 1]
        PROVE  runners' \in [Entities -> [Jobs -> 0..MaxRunners]]
    <3>1. runners[e][k] \in 0..MaxRunners /\ runners[e][k] - 1 \in 0..MaxRunners
      BY <2>2, GarmJobsAssumption DEF JobsInv, RestOK
    <3>2. QED
      BY <2>2, <3>1 DEF JobsInv, RestOK
  <2>3. CASE \E e \in Entities : RunnerGone(e, j)
    BY <2>2, <2>3 DEF JobsInv, RestOK, RunnerGone
  <2>4. CASE \E e \in Entities, k \in Jobs : JobTaken(j, e, k)
    BY <2>2, <2>4 DEF JobsInv, RestOK, JobTaken
  <2>5. QED
    BY <2>1, <2>3, <2>4
<1>4. QED
  BY <1>1, <1>2, <1>3 DEF JobsInv

\* The maps are filled from the queued rows.
LEMMA CrashStep ==
    ASSUME JobsInv, Crash
    PROVE  JobsInv' /\ Calm
<1>1. HooksOK' /\ Calm
  BY JobsFrame, SameRowsCalm DEF JobsInv, Crash
<1>2. TableOK'
  BY DEF JobsInv, TableOK, Held, Crash
<1>3. ThreadsOK' /\ LocksOK'
  BY DEF ThreadsOK, Checked, LocksOK, LockCovers, Crash
<1>4. MapsOK'
  <2>1. Absent \in Rows /\ Absent.st = "absent"
    BY DEF Absent, Rows
  <2>2. QED
    BY <2>1 DEF JobsInv, TableOK, MapsOK, Crash
<1>5. RestOK'
  BY FaultCount DEF JobsInv, RestOK, Crash, Fault, AllFaults
<1>6. QED
  BY <1>1, <1>2, <1>3, <1>4, <1>5 DEF JobsInv

-----------------------------------------------------------------------------
(* The theorems.                                                           *)

\* Every step keeps the invariant and takes a row back only through a late handler.
LEMMA JobsStep ==
    ASSUME JobsInv, [Next]_vars
    PROVE  JobsInv' /\ StaleStep
<1>1. CASE UNCHANGED vars
  <2>1. /\ UNCHANGED <<row, events>> /\ UNCHANGED github /\ UNCHANGED threads
        /\ UNCHANGED <<jobs, old, todo>> /\ UNCHANGED <<row, at, broken>>
        /\ UNCHANGED <<runners, aged, strayed, judged, busy, faults>> /\ UNCHANGED row
    BY <1>1 DEF vars, github
  <2>2. QED
    BY <2>1, JobsFrame, SameRowsCalm, CalmIsNotBack DEF JobsInv
<1>2. ASSUME NEW e \in Entities, NEW j \in Jobs,
             RunnerGone(e, j) \/ AgeEntry(e, j) \/ \E k \in Jobs : JobTaken(j, e, k)
      PROVE  JobsInv' /\ StaleStep
  BY <1>2, GithubStep, AgeStep, CalmIsNotBack
<1>3. ASSUME NEW j \in Jobs,
             \/ DeleteInactionable(j) \/ ReconcileStaleJobs(j) \/ ReconcileDelete(j)
             \/ \E e \in Entities : ScaleDown(e, j)
      PROVE  JobsInv' /\ StaleStep
  <2>1. judged' \subseteq Jobs
    BY <1>3 DEF JobsInv, RestOK, DeleteInactionable, ReconcileStaleJobs, ReconcileDelete, ScaleDown
  <2>2. CASE DeleteJob(j) /\ Break(j)
    BY <1>3, <2>1, <2>2, DeleteStep, CalmIsNotBack
    DEF DeleteInactionable, ReconcileStaleJobs, ReconcileDelete, ScaleDown
  <2>3. CASE ~(DeleteJob(j) /\ Break(j))
    <3>1. UNCHANGED <<github, threads, row, aged, events, manager, runners, busy, strayed, broken, faults>>
      BY <1>3, <2>3 DEF DeleteInactionable, ReconcileStaleJobs, ReconcileDelete, ScaleDown
    <3>2. RestOK'
      BY <2>1, <3>1 DEF JobsInv, RestOK
    <3>3. JobsInv'
      BY <3>1, <3>2, JobsFrame DEF JobsInv, manager
    <3>4. QED
      BY <3>1, <3>3, SameRowsCalm, CalmIsNotBack
  <2>4. QED
    BY <2>2, <2>3
<1>4. ASSUME NEW e \in Entities, Consume(e)
      PROVE  JobsInv' /\ StaleStep
  BY <1>4, ConsumeStartStep, ConsumeLockedStep, ConsumeFreeStep, SpawnStep, CalmIsNotBack DEF Consume
<1>5. ASSUME NEW e \in Entities, NEW c \in events[e], Apply(e, c) \/ DropEvent(e, c)
      PROVE  JobsInv' /\ StaleStep
  BY <1>5, ApplyStep, DropEventStep, CalmIsNotBack
<1>6. ASSUME NEW j \in Jobs,
             \/ JobQueued(j) \/ JobForeign(j) \/ JobDone(j) \/ AgeRow(j) \/ BreakLockJobIsQueued(j)
             \/ \E act \in Actions : HookRead(j, act) \/ LoseHook(j, act)
      PROVE  JobsInv' /\ StaleStep
  BY <1>6, GithubStep, AgeStep, BreakLockStep, HookReadStep, LoseHookStep, CalmIsNotBack
<1>7. ASSUME NEW t \in threads, HookWrite(t)
      PROVE  JobsInv' /\ StaleStep
  BY <1>7, HookWriteStep
<1>8. CASE Crash
  BY <1>8, CrashStep, CalmIsNotBack
<1>9. QED
  BY <1>1, <1>2, <1>3, <1>4, <1>5, <1>6, <1>7, <1>8 DEF Next

\* Tables, maps, webhooks and pools keep their types: no map holds a finished job and
\* no pool more runners than MaxRunners, whatever is lost, repeated or restarted.
THEOREM GarmJobsTypeCorrect == Spec => []TypeOK
<1>1. JobsInv /\ [Next]_vars => JobsInv'
  BY JobsStep
<1>2. QED
  BY <1>1, JobsInit, JobsInvTypes, PTL DEF Spec

\* An entity that spawns a runner for a job holds the job's lock, unless it was broken
\* or the row deleted: LockJob is refused while another entity holds it, an entity
\* unlocks only what it has locked and spawns nothing for, and writes keep the lock.
THEOREM SpawnsUnderLock == Spec => []LockCovers
<1>1. JobsInv /\ [Next]_vars => JobsInv'
  BY JobsStep
<1>2. QED
  BY <1>1, JobsInit, JobsInvTypes, PTL DEF Spec

\* A row goes back to an earlier status only through a webhook handler that read the
\* row before another one wrote it: what a handler writes is never behind what it read.
THEOREM ForwardUnlessStale == Spec => OnlyStaleGoesBack
<1>1. JobsInv /\ [Next]_vars => JobsInv' /\ StaleStep
  BY JobsStep
<1>2. Spec => [][StaleStep]_vars
  BY <1>1, JobsInit, PTL DEF Spec
<1>3. QED
  BY <1>2 DEF OnlyStaleGoesBack, StaleStep
=============================================================================
