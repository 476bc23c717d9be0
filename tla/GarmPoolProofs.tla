--------------------------- MODULE GarmPoolProofs ---------------------------
(***************************************************************************)
(* Proofs about GarmPool, for every number of runners, every MaxRunners,   *)
(* every number of passes in progress and every failure.                   *)
(***************************************************************************)
EXTENDS GarmPool, FiniteSetTheorems, TLAPS

\* What the goroutines carry: a caller, a status of a listing, or an outcome.
Notes == {"loop", "hook", "job", "creating", "running", "error", "failed", "done",
          "pending_delete", "pending_force_delete", "offline", "terminated"}
Kinds == {"add", "create", "retry", "delete", "orphan", "completed", "agent"}
Places == {"insert", "call", "record", "cleanup", "fail", "requeue", "mark", "drop",
           "restore", "remove", "start"}

Typed ==
    /\ row \in [Names -> Statuses \cup Notes \cup {"none"}]
    /\ gor \subseteq [kind : Kinds, n : Names, pc : Places, st : Notes]

Holds(g) == g.kind \in {"create", "delete", "retry", "orphan"}

\* A name has one holder, which holds its lock.
OneHolder == \A g, h \in gor : Holds(g) /\ Holds(h) /\ g.n = h.n => g = h
Locked == \A g \in gor : Holds(g) => g.n \in locks

\* The row is there as long as a creation or deletion needs it.
Present ==
    \A g \in gor : g.kind = "create" \/ (g.kind = "delete" /\ g.pc \in {"call", "drop"})
                      => row[g.n] # "none"

LockInv == Typed /\ OneHolder /\ Locked /\ Present

\* No row appears.
NoNewRow == \A n \in Names : row[n] = "none" => row'[n] = "none"

-----------------------------------------------------------------------------
(* What the parts of an action do to the locks and the goroutines.         *)

\* Nothing is held at the start.
LEMMA LockInit == Init => LockInv
BY DEF Init, LockInv, Typed, OneHolder, Locked, Present

\* An action that leaves the rows, the goroutines and the locks alone.
LEMMA Quiet ==
    ASSUME LockInv, UNCHANGED <<row, gor, locks>>
    PROVE  LockInv' /\ NoNewRow
BY DEF LockInv, Typed, OneHolder, Locked, Present, NoNewRow

\* An action that changes only statuses of rows that exist.
LEMMA StatusOnly ==
    ASSUME LockInv, UNCHANGED <<gor, locks>>,
           NEW n \in Names, NEW s \in Statuses \cup Notes,
           ForceStatus(n, s) \/ UNCHANGED row
    PROVE  LockInv' /\ NoNewRow
BY DEF LockInv, Typed, OneHolder, Locked, Present, NoNewRow, ForceStatus, Statuses, Notes

\* A goroutine that holds a name starts, with the name's lock.
LEMMA SpawnHolder ==
    ASSUME LockInv, NEW n \in Names, n \notin locks, locks' = locks \cup {n},
           NEW k \in Kinds, NEW pc \in Places, NEW st \in Notes,
           Spawn(Goroutine(k, n, pc, st)),
           \/ UNCHANGED row /\ k # "create" /\ (k = "delete" => pc \notin {"call", "drop"})
           \/ ForceStatus(n, "creating") /\ row[n] # "none"
    PROVE  LockInv' /\ NoNewRow
<1> DEFINE w == Goroutine(k, n, pc, st)
<1>1. gor' = gor \cup {w} /\ w \in [kind : Kinds, n : Names, pc : Places, st : Notes]
      /\ w.kind = k /\ w.n = n /\ w.pc = pc
  BY DEF Spawn, Goroutine
<1>2. Typed' /\ NoNewRow
  BY <1>1 DEF LockInv, Typed, ForceStatus, NoNewRow, Notes
<1>3. \A g \in gor : Holds(g) => g.n # n
  BY DEF LockInv, Locked
<1>4. OneHolder' /\ Locked'
  BY <1>1, <1>3 DEF LockInv, OneHolder, Locked, Holds
<1>5. Present'
  BY <1>1 DEF LockInv, Typed, Present, ForceStatus, Notes
<1> QED BY <1>2, <1>4, <1>5 DEF LockInv

\* A goroutine that holds nothing starts.
LEMMA SpawnOther ==
    ASSUME LockInv, UNCHANGED <<row, locks>>, NEW n \in Names,
           NEW k \in {"add", "completed", "agent"}, NEW pc \in Places, NEW st \in Notes,
           Spawn(Goroutine(k, n, pc, st))
    PROVE  LockInv' /\ NoNewRow
<1> DEFINE w == Goroutine(k, n, pc, st)
<1>1. gor' = gor \cup {w} /\ w \in [kind : Kinds, n : Names, pc : Places, st : Notes]
      /\ w.kind = k /\ ~Holds(w)
  BY DEF Spawn, Goroutine, Kinds, Holds
<1>2. Typed' /\ Present' /\ NoNewRow
  BY <1>1 DEF LockInv, Typed, Present, NoNewRow
<1> QED BY <1>1, <1>2 DEF LockInv, OneHolder, Locked, Holds

\* A holder goes on, perhaps with a change of its row's status.
LEMMA GoOn ==
    ASSUME LockInv, UNCHANGED locks, NEW g \in gor, Holds(g),
           NEW pc \in Places, NEW st \in Notes, Goto(g, pc, st),
           UNCHANGED row \/ \E s \in Statuses \cup Notes : ForceStatus(g.n, s),
           g.kind = "delete" /\ pc \in {"call", "drop"} => row[g.n] # "none"
    PROVE  LockInv' /\ NoNewRow
<1> DEFINE w == Goroutine(g.kind, g.n, pc, st)
<1>1. /\ gor' = (gor \ {g}) \cup {w} /\ w.kind = g.kind /\ w.n = g.n /\ w.pc = pc
      /\ w \in [kind : Kinds, n : Names, pc : Places, st : Notes]
  BY DEF Goto, Goroutine, LockInv, Typed
<1>2. Typed' /\ NoNewRow /\ \A n \in Names : row[n] # "none" => row'[n] # "none"
  BY <1>1 DEF LockInv, Typed, ForceStatus, NoNewRow, Notes, Statuses
<1>3. OneHolder' /\ Locked'
  BY <1>1 DEF LockInv, OneHolder, Locked, Holds
<1>4. \A h \in gor : h.n \in Names
  BY DEF LockInv, Typed
<1>5. Present'
  BY <1>1, <1>2, <1>4 DEF LockInv, Present
<1> QED BY <1>2, <1>3, <1>5 DEF LockInv

\* A holder ends: it unlocks its name, and may have dropped its row.
LEMMA HolderEnds ==
    ASSUME LockInv, NEW g \in gor, Holds(g), EndUnlock(g),
           \/ UNCHANGED row
           \/ \E s \in Statuses \cup Notes : ForceStatus(g.n, s)
           \/ DropRow(g.n)
    PROVE  LockInv' /\ NoNewRow
<1>1. gor' = gor \ {g} /\ locks' = locks \ {g.n} /\ g.n \in Names
  BY DEF EndUnlock, LockInv, Typed
<1>2. Typed' /\ NoNewRow /\ \A n \in Names : n # g.n => row'[n] = row[n]
  BY <1>1 DEF LockInv, Typed, ForceStatus, DropRow, NoNewRow
<1>3. \A h \in gor' : Holds(h) => h.n # g.n
  BY <1>1 DEF LockInv, OneHolder
<1>4. OneHolder' /\ Locked'
  BY <1>1, <1>3 DEF LockInv, OneHolder, Locked, Holds
<1>5. Present'
  BY <1>1, <1>2, <1>3 DEF LockInv, Typed, Present, Holds
<1> QED BY <1>2, <1>4, <1>5 DEF LockInv

-----------------------------------------------------------------------------
(* The actions.                                                            *)

\* Every step of a goroutine but the insertion of a row.
LEMMA GoroutineSteps ==
    ASSUME LockInv, NEW g \in gor, GorStep(g), ~CreateInstance(g)
    PROVE  LockInv' /\ NoNewRow
<1> USE DEF Notes, Places
<1>1. CASE CreateCall(g)
  BY <1>1, GoOn DEF CreateCall, Holds, mgr, db
<1>2. CASE CreateRecord(g)
  <2>1. Holds(g) /\ g.st \in Notes
    BY <1>2 DEF CreateRecord, Holds, LockInv, Typed
  <2>2. UNCHANGED row \/ \E s \in Statuses \cup Notes : ForceStatus(g.n, s)
    BY <1>2, <2>1 DEF CreateRecord, UpdateStatus
  <2>3. CASE g.st = "error"
    BY <1>2, <2>1, <2>2, <2>3, GoOn DEF CreateRecord
  <2>4. CASE g.st = "running" /\ MayBecome(g.n, "running")
    BY <1>2, <2>1, <2>2, <2>4, HolderEnds DEF CreateRecord
  <2>5. CASE g.st # "error" /\ ~(g.st = "running" /\ MayBecome(g.n, "running"))
    BY <1>2, <2>1, <2>2, <2>5, GoOn DEF CreateRecord
  <2> QED BY <2>3, <2>4, <2>5
<1>3. CASE CreateCleanup(g)
  BY <1>3, GoOn, HolderEnds DEF CreateCleanup, Holds, db
<1>4. CASE CreateFail(g)
  BY <1>4, HolderEnds DEF CreateFail, UpdateStatus, Holds
<1>5. CASE RetryCall(g)
  <2>1. g.st \in Notes
    BY DEF LockInv, Typed
  <2> QED BY <1>5, <2>1, GoOn, HolderEnds DEF RetryCall, Holds, db
<1>6. CASE RetryRequeue(g)
  <2>1. UNCHANGED row \/ ForceStatus(g.n, "pending_create")
    BY <1>6 DEF RetryRequeue
  <2>2. "pending_create" \in Statuses
    BY DEF Statuses
  <2> QED BY <1>6, <2>1, <2>2, HolderEnds DEF RetryRequeue, Holds
<1>7. CASE DelMark(g)
  <2>1. g.st \in Notes
    BY DEF LockInv, Typed
  <2>2. "deleting" \in Statuses
    BY DEF Statuses
  <2> QED BY <1>7, <2>1, <2>2, GoOn DEF DelMark, Holds
<1>8. CASE DelCall(g)
  <2>1. g.st \in Notes /\ row[g.n] # "none"
    BY <1>8 DEF DelCall, LockInv, Typed, Present
  <2> QED BY <1>8, <2>1, GoOn DEF DelCall, Holds, db, mgr
<1>9. CASE DelDrop(g)
  BY <1>9, HolderEnds DEF DelDrop, Holds
<1>10. CASE DelRestore(g)
  <2>1. g.st \in Notes
    BY DEF LockInv, Typed
  <2> QED BY <1>10, <2>1, HolderEnds DEF DelRestore, Holds
<1>11. CASE OrphanRemove(g)
  <2>1. g.st \in Notes
    BY DEF LockInv, Typed
  <2> QED BY <1>11, <2>1, GoOn, HolderEnds DEF OrphanRemove, Holds, db
<1>12. CASE OrphanDrop(g)
  BY <1>12, HolderEnds DEF OrphanDrop, Holds
<1>13. CASE OrphanStart(g)
  BY <1>13, HolderEnds DEF OrphanStart, Holds, db
<1>14. CASE CompletedMark(g) \/ AgentMark(g)
  <2>1. gor' = gor \ {g} /\ UNCHANGED locks /\ g.n \in Names
    BY <1>14 DEF CompletedMark, AgentMark, LockInv, Typed
  <2>2. UNCHANGED row \/ ForceStatus(g.n, "pending_delete")
    BY <1>14 DEF CompletedMark, AgentMark, UpdateStatus
  <2>3. Typed' /\ NoNewRow /\ \A n \in Names : row[n] # "none" => row'[n] # "none"
    BY <2>1, <2>2 DEF LockInv, Typed, ForceStatus, NoNewRow
  <2>4. \A h \in gor : h.n \in Names
    BY DEF LockInv, Typed
  <2> QED BY <2>1, <2>3, <2>4 DEF LockInv, OneHolder, Locked, Present
<1> QED
  BY <1>1, <1>2, <1>3, <1>4, <1>5, <1>6, <1>7, <1>8, <1>9, <1>10, <1>11, <1>12, <1>13, <1>14
  DEF GorStep

\* DeleteRunner marks the row of one instance, or does not.
LEMMA DeleteRunnerMarks ==
    ASSUME NEW n \in Names, NEW bypass,
           DeleteRunner(n, bypass) \/ DeleteRunnerDone(n) \/ DeleteRunnerFails(n)
             \/ DeleteRunnerUnauthorized(n, bypass)
    PROVE  UNCHANGED row \/ ForceStatus(n, "pending_delete")
BY DEF DeleteRunner, DeleteRunnerDone, DeleteRunnerFails, DeleteRunnerUnauthorized

\* The loops that list rows and start goroutines.
LEMMA LoopSteps ==
    ASSUME LockInv, AddLoop \/ DelLoop \/ RetryLoop \/ ScaleDownLoop \/ IdleLoop \/ Startup
    PROVE  LockInv' /\ NoNewRow
<1> USE DEF Notes, Places, Kinds
<1>1. CASE AddLoop
  <2>1. CASE AddList
    BY <2>1, Quiet DEF AddList, db
  <2>2. ASSUME NEW n \in Names, AddPending(n) PROVE LockInv' /\ NoNewRow
    <3>1. CASE n \notin locks /\ MayBecome(n, "creating")
      BY <2>2, <3>1, SpawnHolder DEF AddPending, MayBecome
    <3>2. CASE ~(n \notin locks /\ MayBecome(n, "creating"))
      BY <2>2, <3>2, Quiet DEF AddPending
    <3> QED BY <3>1, <3>2
  <2> QED BY <1>1, <2>1, <2>2 DEF AddLoop
<1>2. CASE DelLoop
  <2>1. CASE DelList
    BY <2>1, Quiet DEF DelList, db
  <2>2. ASSUME NEW n \in Names, NEW st \in Doomed, DelPending(n, st) PROVE LockInv' /\ NoNewRow
    <3>1. CASE n \in locks \/ n \in backoff
      BY <2>2, <3>1, Quiet DEF DelPending, db
    <3>2. CASE ~(n \in locks \/ n \in backoff)
      BY <2>2, <3>2, SpawnHolder DEF DelPending, Doomed, db
    <3> QED BY <3>1, <3>2
  <2> QED BY <1>2, <2>1, <2>2 DEF DelLoop
<1>3. CASE RetryLoop
  <2>1. CASE RetryList
    BY <2>1, Quiet DEF RetryList, db
  <2>2. ASSUME NEW n \in Names, RetryOne(n) PROVE LockInv' /\ NoNewRow
    <3>1. CASE n \in locks
      BY <2>2, <3>1, Quiet DEF RetryOne, db
    <3>2. CASE n \notin locks
      BY <2>2, <3>2, SpawnHolder DEF RetryOne, db
    <3> QED BY <3>1, <3>2
  <2> QED BY <1>3, <2>1, <2>2 DEF RetryLoop
<1>4. CASE ScaleDownLoop
  <2>1. ASSUME NEW queued \in 0..1, ScaleDownList(queued) PROVE LockInv' /\ NoNewRow
    BY <2>1, Quiet DEF ScaleDownList, db
  <2>2. ASSUME NEW n \in Names, ScaleDownOne(n) PROVE LockInv' /\ NoNewRow
    BY <2>2, DeleteRunnerMarks, StatusOnly DEF ScaleDownOne
  <2> QED BY <1>4, <2>1, <2>2 DEF ScaleDownLoop
<1>5. CASE IdleLoop
  <2>1. CASE EnsureMinIdle
    BY <2>1, Quiet DEF EnsureMinIdle, db
  <2>2. ASSUME NEW c \in Adders, AddRunnerRefused(c) PROVE LockInv' /\ NoNewRow
    BY <2>2, Quiet DEF AddRunnerRefused, db
  <2>3. ASSUME NEW c \in Adders, NEW n \in Names, AddRunner(c, n) PROVE LockInv' /\ NoNewRow
    BY <2>3, SpawnOther DEF AddRunner, Adders, db
  <2> QED BY <1>5, <2>1, <2>2, <2>3 DEF IdleLoop
<1>6. CASE Startup
  <2>1. CASE StartLoops \/ UpdateTools
    BY <2>1, Quiet DEF StartLoops, UpdateTools, db
  <2>2. ASSUME NEW n \in Names, StartOne(n) PROVE LockInv' /\ NoNewRow
    BY <2>2, DeleteRunnerMarks, StatusOnly DEF StartOne
  <2> QED BY <1>6, <2>1, <2>2 DEF Startup
<1> QED BY <1>1, <1>2, <1>3, <1>4, <1>5, <1>6

\* The three passes over GitHub's runners.
LEMMA CleanupSteps ==
    ASSUME LockInv, RunnerCleanup
    PROVE  LockInv' /\ NoNewRow
<1> USE DEF Notes, Places, Kinds
<1>1. CASE ListGithub \/ ReapList \/ ProviderList \/ GithubList \/ CleanupEnd
  BY <1>1, Quiet DEF ListGithub, ReapList, ProviderList, GithubList, CleanupEnd, db
<1>2. ASSUME NEW n \in Names, ReapOne(n) PROVE LockInv' /\ NoNewRow
  <2>1. UNCHANGED row \/ ForceStatus(n, "pending_delete")
    BY <1>2, DeleteRunnerMarks DEF ReapOne
  <2> QED BY <1>2, <2>1, StatusOnly DEF ReapOne
<1>3. ASSUME NEW n \in Names, ProviderOne(n) PROVE LockInv' /\ NoNewRow
  BY <1>3, StatusOnly DEF ProviderOne
<1>4. ASSUME NEW n \in Names, GithubCheck(n) PROVE LockInv' /\ NoNewRow
  BY <1>4, Quiet DEF GithubCheck, db
<1>5. ASSUME NEW n \in Names, GithubLock(n) PROVE LockInv' /\ NoNewRow
  <2>1. CASE n \in locks \/ n \in seen.pv \ seen.stopped
    BY <1>5, <2>1, Quiet DEF GithubLock, db
  <2>2. CASE ~(n \in locks \/ n \in seen.pv \ seen.stopped)
    BY <1>5, <2>2, SpawnHolder DEF GithubLock, db
  <2> QED BY <2>1, <2>2
<1> QED BY <1>1, <1>2, <1>3, <1>4, <1>5 DEF RunnerCleanup

\* Webhooks, callbacks, the administrator, GitHub, the machines and a restart.
LEMMA EnvironmentSteps ==
    ASSUME LockInv, Environment \/ \E n \in Names : Age(n) \/ BackoffOver(n)
    PROVE  LockInv' /\ NoNewRow
<1> USE DEF Notes, Places
<1>1. ASSUME NEW n \in Names, Age(n) \/ BackoffOver(n) \/ HookInProgress(n) PROVE LockInv' /\ NoNewRow
  BY <1>1, Quiet DEF Age, BackoffOver, HookInProgress, db
<1>2. ASSUME NEW n \in Names, HookCompleted(n) PROVE LockInv' /\ NoNewRow
  <2>1. CASE row[n] = "none"
    BY <1>2, <2>1, Quiet DEF HookCompleted
  <2>2. CASE row[n] # "none"
    BY <1>2, <2>2, SpawnOther DEF HookCompleted
  <2> QED BY <2>1, <2>2
<1>3. ASSUME NEW n \in Names, AgentTerminated(n) PROVE LockInv' /\ NoNewRow
  BY <1>3, SpawnOther DEF AgentTerminated
<1>4. ASSUME NEW n \in Names, NEW s \in {"installing", "idle", "failed"}, Callback(n, s)
      PROVE LockInv' /\ NoNewRow
  BY <1>4, Quiet DEF Callback
<1>5. ASSUME NEW n \in Names, NEW force \in BOOLEAN, NEW bypass \in BOOLEAN, ApiDelete(n, force, bypass)
      PROVE LockInv' /\ NoNewRow
  <2>1. UNCHANGED row \/ ForceStatus(n, "pending_delete") \/ ForceStatus(n, "pending_force_delete")
    BY <1>5 DEF ApiDelete, UpdateStatus
  <2> QED BY <1>5, <2>1, StatusOnly DEF ApiDelete
<1>6. ASSUME NEW n \in Names, RunnerOnline(n) \/ JobStart(n) \/ JobDone(n) \/ VmFault(n)
      PROVE LockInv' /\ NoNewRow
  BY <1>6, Quiet DEF RunnerOnline, JobStart, JobDone, VmFault, db
<1>7. ASSUME NEW h \in hooks, LoseHook(h) PROVE LockInv' /\ NoNewRow
  BY <1>7, Quiet DEF LoseHook, db
<1>8. ASSUME NEW m \in MinIdles, UpdatePool(m) PROVE LockInv' /\ NoNewRow
  BY <1>8, Quiet DEF UpdatePool, db
<1>9. CASE Crash
  BY <1>9 DEF Crash, db, LockInv, Typed, OneHolder, Locked, Present, NoNewRow
<1> QED BY <1>1, <1>2, <1>3, <1>4, <1>5, <1>6, <1>7, <1>8, <1>9 DEF Environment

\* The insertion of a row, which counts the rows in the same transaction.
LEMMA InsertStep ==
    ASSUME LockInv, NEW g \in gor, CreateInstance(g)
    PROVE  /\ LockInv'
           /\ NoNewRow \/ (Cardinality(Rows) < MaxRunners /\ row' = [row EXCEPT ![g.n] = "pending_create"])
<1>1. gor' = gor \ {g} /\ UNCHANGED locks /\ g.n \in Names
  BY DEF CreateInstance, LockInv, Typed
<1>2. UNCHANGED row \/ (Cardinality(Rows) < MaxRunners /\ row' = [row EXCEPT ![g.n] = "pending_create"])
  BY DEF CreateInstance
<1>3. Typed' /\ \A n \in Names : row[n] # "none" => row'[n] # "none"
  BY <1>1, <1>2 DEF LockInv, Typed, Statuses
<1>4. \A h \in gor : h.n \in Names
  BY DEF LockInv, Typed
<1> QED BY <1>1, <1>2, <1>3, <1>4 DEF LockInv, OneHolder, Locked, Present, NoNewRow

\* Every step keeps the locks, and a new row has passed the count.
LEMMA Steps ==
    ASSUME LockInv, [Next]_vars
    PROVE  /\ LockInv'
           /\ \/ NoNewRow
              \/ \E n \in Names : Cardinality(Rows) < MaxRunners /\ row' = [row EXCEPT ![n] = "pending_create"]
<1>1. ASSUME NEW g \in gor, GorStep(g), ~CreateInstance(g) PROVE LockInv' /\ NoNewRow
  BY <1>1, GoroutineSteps
<1>2. ASSUME NEW g \in gor, CreateInstance(g)
      PROVE  /\ LockInv' /\ g.n \in Names
             /\ NoNewRow \/ (Cardinality(Rows) < MaxRunners /\ row' = [row EXCEPT ![g.n] = "pending_create"])
  BY <1>2, InsertStep DEF LockInv, Typed
<1>3. CASE UNCHANGED vars
  BY <1>3, Quiet DEF vars, db
<1> QED BY <1>1, <1>2, <1>3, LoopSteps, CleanupSteps, EnvironmentSteps DEF Next

-----------------------------------------------------------------------------
(* The theorems.                                                           *)

\* The locks are kept in every reachable state.
LEMMA LockInvHolds == Spec => []LockInv
<1>1. LockInv /\ [Next]_vars => LockInv'
  BY Steps
<1> QED BY LockInit, <1>1, PTL DEF Spec

\* A set whose members are all the same has at most one.
LEMMA AtMostOne ==
    ASSUME NEW S, \A x, y \in S : x = y
    PROVE  Cardinality(S) <= 1
<1>1. CASE S = {}
  BY <1>1, FS_EmptySet
<1>2. CASE S # {}
  <2>1. PICK x \in S : TRUE
    BY <1>2
  <2>2. S = {x}
    BY <2>1
  <2> QED BY <2>2, FS_Singleton
<1> QED BY <1>1, <1>2

\* The keyMutex keeps the loops, the retries and the clean-up of every name
\* apart, however old the listings are that they work from.
THEOREM LoopsApart == Spec => []Exclusive
<1>1. LockInv => Exclusive
  <2> SUFFICES ASSUME LockInv, NEW n \in Names
               PROVE  /\ Cardinality(Holders(n)) <= 1
                      /\ Holders(n) # {} => n \in locks
                      /\ \A g \in Holders(n) :
                           g.kind = "create" \/ (g.kind = "delete" /\ g.pc \in {"call", "drop"}) => row[n] # "none"
    BY DEF Exclusive
  <2>1. \A g, h \in Holders(n) : g = h
    BY DEF Holders, LockInv, OneHolder, Holds
  <2>2. Cardinality(Holders(n)) <= 1
    BY <2>1, AtMostOne
  <2> QED BY <2>2 DEF Holders, LockInv, Locked, Present, Holds
<1> QED BY LockInvHolds, <1>1, PTL

\* A step that adds no row adds none to their number.
LEMMA FewerRows ==
    ASSUME RowCap, NoNewRow
    PROVE  RowCap'
<1>1. Rows' \subseteq Rows /\ IsFiniteSet(Rows)
  BY GarmPoolAssumption, FS_Subset DEF NoNewRow, Rows
<1>2. Cardinality(Rows') <= Cardinality(Rows) /\ IsFiniteSet(Rows')
  BY <1>1, FS_Subset
<1>3. Cardinality(Rows) \in Nat /\ Cardinality(Rows') \in Nat
  BY <1>1, <1>2, FS_CardinalityType
<1> QED BY <1>2, <1>3, GarmPoolAssumption DEF RowCap

\* The idle loop, the job consumer and the webhooks together never exceed
\* MaxRunners, since CreateInstance counts the rows in its own transaction.
THEOREM MaxRunnersKept == Spec => []RowCap
<1>1. Init => RowCap
  <2> SUFFICES ASSUME Init PROVE RowCap
    OBVIOUS
  <2>1. Rows = {}
    BY DEF Init, Rows
  <2> QED BY <2>1, FS_EmptySet, GarmPoolAssumption DEF RowCap
<1>2. LockInv /\ RowCap /\ [Next]_vars => RowCap'
  <2> SUFFICES ASSUME LockInv, RowCap, [Next]_vars PROVE RowCap'
    OBVIOUS
  <2>1. CASE NoNewRow
    BY <2>1, FewerRows
  <2>2. ASSUME NEW n \in Names, Cardinality(Rows) < MaxRunners, row' = [row EXCEPT ![n] = "pending_create"]
        PROVE  RowCap'
    <3>1. Rows' = Rows \cup {n}
      BY <2>2 DEF Rows, LockInv, Typed
    <3>2. IsFiniteSet(Rows)
      BY GarmPoolAssumption, FS_Subset DEF Rows
    <3>3. Cardinality(Rows) \in Nat /\ Cardinality(Rows') <= Cardinality(Rows) + 1 /\ Cardinality(Rows') \in Nat
      BY <3>1, <3>2, FS_AddElement, FS_CardinalityType
    <3> QED BY <2>2, <3>3, GarmPoolAssumption DEF RowCap
  <2> QED BY <2>1, <2>2, Steps
<1> QED BY <1>1, <1>2, LockInvHolds, PTL DEF Spec

-----------------------------------------------------------------------------
(* No machine is lost.                                                     *)

Entries == {<<n>> : n \in Names} \cup (Names \X (Notes \cup {"checked"}))

Lists ==
    /\ list \in [Loops -> SUBSET Entries] /\ seen.off \subseteq Names
    /\ vm \in [Names -> {"none", "running", "stopped"}]

\* A deletion is forced only when an administrator asked for it.
ForcedIsAsked ==
    /\ \A n \in Names : row[n] = "pending_force_delete" => n \in asked
    /\ \A n \in Names : <<n, "pending_force_delete">> \in list["delete"] => n \in asked
    /\ \A g \in gor : g.st = "pending_force_delete" => g.n \in asked

\* What is about to lose its row has no machine: a deletion has removed it, or the
\* clean-up has not seen it on the provider.
Unneeded(n) == vm[n] = "none" \/ n \in asked \cup unseen
Emptied ==
    \A g \in gor :
      /\ g.kind = "delete" /\ g.pc = "drop" => vm[g.n] = "none" \/ g.n \in asked
      /\ g.kind = "orphan" /\ g.pc \in {"remove", "drop"} => Unneeded(g.n)

\* The provider's list of a clean-up is out of date only about unseen machines.
ListedMachines ==
    /\ seen.read => \A n \in Names : n \notin seen.pv => Unneeded(n)
    /\ list["github"] # {} => rp = "github"
    /\ \A n \in Names : <<n, "checked">> \in list["github"] => seen.read

MachineInv == LockInv /\ Lists /\ ForcedIsAsked /\ Emptied /\ ListedMachines

\* A step that takes no machine from a row, and the three parts of a step that
\* endangers none: the rows and machines, the listings, the goroutines.
NoneLost ==
    \A n \in Names : vm'[n] # "none" /\ row'[n] = "none"
        => (vm[n] # "none" /\ row[n] = "none") \/ n \in asked \cup unseen
CalmRows ==
    /\ unseen' = unseen /\ seen' = seen /\ asked \subseteq asked'
    /\ vm' \in [Names -> {"none", "running", "stopped"}]
    /\ \A n \in Names : /\ vm[n] = "none" => vm'[n] = "none"
                        /\ row[n] # "none" => row'[n] # "none"
                        /\ row'[n] = "pending_force_delete" => row[n] = "pending_force_delete" \/ n \in asked'
CalmLists ==
    /\ list' \in [Loops -> SUBSET Entries]
    /\ \A n \in Names : <<n, "pending_force_delete">> \in list'["delete"] => n \in asked
    /\ list'["github"] \subseteq list["github"] /\ (list'["github"] # {} => rp' = rp)
CalmGoroutines ==
    \A g \in gor' : \/ g \in gor
                    \/ /\ g.st = "pending_force_delete" => g.n \in asked
                       /\ ~(g.kind = "delete" /\ g.pc = "drop")
                       /\ ~(g.kind = "orphan" /\ g.pc \in {"remove", "drop"})

\* There is no machine and no row at the start.
LEMMA MachineInit == Init => MachineInv
<1> SUFFICES ASSUME Init PROVE MachineInv
  OBVIOUS
<1>1. list \in [Loops -> SUBSET Entries] /\ \A l \in Loops : list[l] = {}
  BY DEF Init
<1>2. "delete" \in Loops /\ "github" \in Loops
  BY DEF Loops
<1> QED BY <1>1, <1>2, LockInit
  DEF Init, MachineInv, Lists, ForcedIsAsked, Emptied, ListedMachines, NothingSeen

\* A step whose parts are calm keeps the invariant and loses no machine.
LEMMA Undisturbed ==
    ASSUME MachineInv, LockInv', CalmRows, CalmLists, CalmGoroutines
    PROVE  MachineInv' /\ NoneLost
<1>1. \A g \in gor' : g.n \in Names
  BY DEF LockInv, Typed
<1>2. \A n \in Names : Unneeded(n) => Unneeded(n)'
  BY DEF CalmRows, Unneeded
<1>3. Lists'
  BY DEF MachineInv, CalmRows, CalmLists, Lists
<1>4. ForcedIsAsked'
  BY DEF MachineInv, ForcedIsAsked, CalmRows, CalmLists, CalmGoroutines
<1>5. Emptied'
  BY <1>1, <1>2 DEF MachineInv, Emptied, CalmRows, CalmGoroutines
<1>6. ListedMachines'
  BY <1>2 DEF MachineInv, ListedMachines, CalmRows, CalmLists
<1>7. NoneLost
  BY DEF CalmRows, NoneLost
<1> QED BY <1>3, <1>4, <1>5, <1>6, <1>7 DEF MachineInv

\* Listings that stay, shrink, or are taken anew.
LEMMA SameLists ==
    ASSUME MachineInv, UNCHANGED <<list, rp>>
    PROVE  CalmLists
BY DEF MachineInv, Lists, ForcedIsAsked, CalmLists

\* A loop is done with a name.
LEMMA DropCalm ==
    ASSUME MachineInv, NEW l \in Loops, NEW n, Drop(l, n), UNCHANGED rp
    PROVE  CalmLists
<1>1. list' \in [Loops -> SUBSET Entries] /\ \A m \in Loops : list'[m] \subseteq list[m]
  BY DEF Drop, MachineInv, Lists
<1>2. "delete" \in Loops /\ "github" \in Loops
  BY DEF Loops
<1> QED BY <1>1, <1>2 DEF MachineInv, ForcedIsAsked, CalmLists

\* A loop other than the delete loop and the clean-up of GitHub lists rows.
LEMMA ListingCalm ==
    ASSUME MachineInv, NEW l \in Loops \ {"delete", "github"}, NEW S \in SUBSET Names,
           list' = [list EXCEPT ![l] = {<<n>> : n \in S}], rp' = rp \/ rp # "github"
    PROVE  CalmLists
<1>1. {<<n>> : n \in S} \subseteq Entries
  BY DEF Entries
<1>2. list' \in [Loops -> SUBSET Entries]
      /\ list'["delete"] = list["delete"] /\ list'["github"] = list["github"]
  BY <1>1 DEF MachineInv, Lists, Loops
<1> QED BY <1>2 DEF MachineInv, ForcedIsAsked, ListedMachines, CalmLists

\* Rows that stay, or change to a status that forces nothing.
LEMMA SameRows ==
    ASSUME MachineInv, UNCHANGED <<row, vm, unseen, seen, asked>>
    PROVE  CalmRows
BY DEF MachineInv, Lists, CalmRows

\* A row that stays gets a status; only one asked for is forced.
LEMMA MarkCalm ==
    ASSUME MachineInv, UNCHANGED <<vm, unseen, seen, asked>>, NEW n \in Names, NEW s,
           s # "none", s = "pending_force_delete" => n \in asked,
           ForceStatus(n, s) \/ UNCHANGED row
    PROVE  CalmRows
BY DEF MachineInv, LockInv, Typed, Lists, CalmRows, ForceStatus

\* Goroutines that start, go on or end.
LEMMA SpawnCalm ==
    ASSUME NEW k, NEW n, NEW pc, NEW st, Spawn(Goroutine(k, n, pc, st)),
           st = "pending_force_delete" => n \in asked,
           ~(k = "delete" /\ pc = "drop"), ~(k = "orphan" /\ pc \in {"remove", "drop"})
    PROVE  CalmGoroutines
BY DEF Spawn, Goroutine, CalmGoroutines

\* A goroutine goes on, to no place where it drops a row.
LEMMA GotoCalm ==
    ASSUME MachineInv, NEW g \in gor, NEW pc, NEW st, Goto(g, pc, st),
           st = g.st \/ st # "pending_force_delete",
           ~(g.kind = "delete" /\ pc = "drop"), ~(g.kind = "orphan" /\ pc \in {"remove", "drop"})
    PROVE  CalmGoroutines
BY DEF Goto, Goroutine, CalmGoroutines, MachineInv, ForcedIsAsked

\* Goroutines end.
LEMMA FewerCalm ==
    ASSUME gor' \subseteq gor
    PROVE  CalmGoroutines
BY DEF CalmGoroutines

\* The calls of the provider and the ends of a deletion and of a clean-up: the steps
\* that add a machine, remove one, or drop a row.
LEMMA CallSteps ==
    ASSUME MachineInv, LockInv', NEW g \in gor,
           CreateCall(g) \/ DelCall(g) \/ DelDrop(g) \/ OrphanRemove(g) \/ OrphanDrop(g)
    PROVE  MachineInv' /\ NoneLost
<1> USE DEF MachineInv
<1>1. g.n \in Names /\ g.st \in Notes /\ \A h \in gor' : h.n \in Names
  BY DEF LockInv, Typed
<1>2. \A h \in gor : Holds(g) /\ Holds(h) /\ h.n = g.n => h = g
  BY DEF LockInv, OneHolder
<1>3. CASE CreateCall(g)
  <2>1. /\ UNCHANGED <<row, list, rp, seen, asked>> /\ \A n \in Names \ {g.n} : vm'[n] = vm[n]
        /\ vm' \in [Names -> {"none", "running", "stopped"}]
        /\ unseen' = IF seen.read /\ vm'[g.n] # "none" THEN unseen \cup {g.n} ELSE unseen
    BY <1>1, <1>3 DEF CreateCall, Lists, db, mgr
  <2>2. Holds(g) /\ row[g.n] # "none"
    BY <1>3 DEF CreateCall, Holds, LockInv, Present
  <2>3. \A h \in gor' : \/ h \in gor /\ h # g
                        \/ h.kind = "create" /\ h.n = g.n /\ h.st # "pending_force_delete"
    BY <1>3 DEF CreateCall, Goto, Goroutine
  <2>4. \A h \in gor' : h.kind \in {"delete", "orphan"} => h \in gor /\ h.n # g.n
    BY <1>2, <2>2, <2>3 DEF Holds
  <2>5. Emptied'
    BY <1>1, <2>1, <2>4 DEF Emptied, Unneeded
  <2>6. ListedMachines'
    BY <2>1 DEF ListedMachines, Unneeded
  <2>7. Lists' /\ ForcedIsAsked'
    BY <2>1, <2>3 DEF Lists, ForcedIsAsked
  <2>8. NoneLost
    BY <1>1, <2>1, <2>2 DEF NoneLost
  <2> QED BY <2>5, <2>6, <2>7, <2>8
<1>4. CASE DelCall(g)
  <2>1. /\ UNCHANGED <<row, list, rp, seen, asked, unseen>>
        /\ vm' \in [Names -> {"none", "running", "stopped"}]
        /\ \A n \in Names : vm[n] = "none" => vm'[n] = "none"
    BY <1>1, <1>4 DEF DelCall, Lists, db, mgr, hist
  <2>2. \A h \in gor' : \/ h \in gor
                        \/ /\ h.kind = "delete" /\ h.n = g.n /\ h.st = g.st
                           /\ h.pc = "drop" => vm'[g.n] = "none" \/ g.st = "pending_force_delete"
    BY <1>1, <1>4 DEF DelCall, Goto, Goroutine, Lists
  <2>3. g.st = "pending_force_delete" => g.n \in asked
    BY DEF ForcedIsAsked
  <2>4. Emptied'
    BY <1>1, <2>1, <2>2, <2>3 DEF Emptied, Unneeded
  <2>5. ListedMachines' /\ NoneLost
    BY <2>1 DEF ListedMachines, Unneeded, NoneLost
  <2>6. Lists' /\ ForcedIsAsked'
    BY <2>1, <2>2, <2>3 DEF Lists, ForcedIsAsked
  <2> QED BY <2>4, <2>5, <2>6
<1>5. CASE DelDrop(g) \/ OrphanDrop(g)
  <2>1. /\ UNCHANGED <<vm, list, rp, seen, asked, unseen>> /\ gor' = gor \ {g}
        /\ row' = [row EXCEPT ![g.n] = "none"]
    BY <1>5 DEF DelDrop, OrphanDrop, DropRow, EndUnlock, world, mgr, hist
  <2>2. vm[g.n] = "none" \/ g.n \in asked \cup unseen
    BY <1>5 DEF DelDrop, OrphanDrop, Emptied, Unneeded
  <2>3. Emptied' /\ ListedMachines'
    BY <2>1 DEF Emptied, ListedMachines, Unneeded
  <2>4. Lists' /\ ForcedIsAsked'
    BY <2>1 DEF Lists, ForcedIsAsked, LockInv, Typed
  <2>5. NoneLost
    BY <2>1, <2>2 DEF NoneLost, LockInv, Typed
  <2> QED BY <2>3, <2>4, <2>5
<1>6. CASE OrphanRemove(g)
  <2>1. UNCHANGED <<row, vm, list, rp, seen, asked, unseen>>
    BY <1>6 DEF OrphanRemove, db, mgr, hist
  <2>2. \A h \in gor' : \/ h \in gor
                        \/ h.kind = "orphan" /\ h.n = g.n /\ h.st = g.st
    BY <1>6 DEF OrphanRemove, Goto, Goroutine, EndUnlock
  <2>3. Unneeded(g.n)
    BY <1>6 DEF OrphanRemove, Emptied
  <2>4. Emptied'
    BY <2>1, <2>2, <2>3 DEF Emptied, Unneeded
  <2>5. ListedMachines' /\ NoneLost /\ Lists'
    BY <2>1 DEF ListedMachines, Unneeded, NoneLost, Lists
  <2>6. ForcedIsAsked'
    BY <2>1, <2>2 DEF ForcedIsAsked
  <2> QED BY <2>4, <2>5, <2>6
<1> QED BY <1>3, <1>4, <1>5, <1>6

\* The other steps of a goroutine.
LEMMA OtherGoroutineSteps ==
    ASSUME MachineInv, LockInv', NEW g \in gor, GorStep(g),
           ~(CreateCall(g) \/ DelCall(g) \/ DelDrop(g) \/ OrphanRemove(g) \/ OrphanDrop(g))
    PROVE  MachineInv' /\ NoneLost
<1>1. g.n \in Names /\ g.st \in Notes /\ g.st # "none"
      /\ (g.st = "pending_force_delete" => g.n \in asked)
  BY DEF MachineInv, LockInv, Typed, ForcedIsAsked, Notes
<1>2. UNCHANGED <<list, rp, seen, asked, unseen>>
  BY DEF GorStep, CreateInstance, CreateRecord, CreateCleanup, CreateFail, RetryCall, RetryRequeue,
         DelMark, DelRestore, OrphanStart, CompletedMark, AgentMark, mgr, hist
<1>3. CalmLists
  BY <1>2, SameLists
<1>4. CalmGoroutines
  <2>1. CASE gor' \subseteq gor
    BY <2>1, FewerCalm
  <2>2. ASSUME NEW pc, NEW st, Goto(g, pc, st), st = g.st \/ st # "pending_force_delete",
               g.kind \in {"create", "retry", "delete"}, g.kind = "delete" => pc # "drop"
        PROVE  CalmGoroutines
    BY <2>2, GotoCalm
  <2>3. CASE CreateInstance(g) \/ CreateFail(g) \/ RetryRequeue(g) \/ DelRestore(g)
               \/ OrphanStart(g) \/ CompletedMark(g) \/ AgentMark(g)
    BY <2>1, <2>3 DEF CreateInstance, CreateFail, RetryRequeue, DelRestore, OrphanStart, CompletedMark,
                      AgentMark, EndUnlock
  <2>4. CASE CreateRecord(g)
    <3>1. \/ \E pc, st : Goto(g, pc, st) /\ st \in {"done", "failed"}
          \/ EndUnlock(g)
      <4>1. CASE g.st = "error"
        BY <2>4, <4>1 DEF CreateRecord
      <4>2. CASE g.st = "running" /\ MayBecome(g.n, "running")
        BY <2>4, <4>2 DEF CreateRecord
      <4>3. CASE g.st # "error" /\ ~(g.st = "running" /\ MayBecome(g.n, "running"))
        BY <2>4, <4>3 DEF CreateRecord
      <4> QED BY <4>1, <4>2, <4>3
    <3>2. g.kind = "create"
      BY <2>4 DEF CreateRecord
    <3> QED BY <3>1, <3>2, <2>1, <2>2 DEF EndUnlock
  <2>5. CASE CreateCleanup(g)
    BY <2>1, <2>2, <2>5 DEF CreateCleanup, EndUnlock
  <2>6. CASE RetryCall(g)
    BY <2>1, <2>2, <2>6 DEF RetryCall, EndUnlock
  <2>7. CASE DelMark(g)
    BY <2>2, <2>7 DEF DelMark
  <2> QED BY <2>3, <2>4, <2>5, <2>6, <2>7 DEF GorStep
<1>5. CalmRows
  <2>1. CASE CreateInstance(g)
    BY <1>1, <1>2, <2>1 DEF CreateInstance, CalmRows, MachineInv, LockInv, Typed, Lists
  <2>2. CASE CreateRecord(g)
    BY <1>1, <1>2, <2>2, MarkCalm DEF CreateRecord, UpdateStatus, world
  <2>3. CASE CreateCleanup(g) \/ RetryCall(g) \/ OrphanStart(g)
    BY <1>1, <1>2, <2>3 DEF CreateCleanup, RetryCall, OrphanStart, db, CalmRows, MachineInv, Lists
  <2>4. CASE CreateFail(g) \/ CompletedMark(g) \/ AgentMark(g)
    BY <1>1, <1>2, <2>4, MarkCalm DEF CreateFail, CompletedMark, AgentMark, UpdateStatus, world
  <2>5. CASE RetryRequeue(g)
    BY <1>1, <1>2, <2>5, MarkCalm DEF RetryRequeue, world
  <2>6. CASE DelMark(g) \/ DelRestore(g)
    BY <1>1, <1>2, <2>6, MarkCalm DEF DelMark, DelRestore, world
  <2> QED BY <2>1, <2>2, <2>3, <2>4, <2>5, <2>6 DEF GorStep
<1> QED BY <1>3, <1>4, <1>5, Undisturbed

\* The loops: they start goroutines from listings and mark rows.
LEMMA OtherLoopSteps ==
    ASSUME MachineInv, LockInv', AddLoop \/ DelLoop \/ RetryLoop \/ ScaleDownLoop \/ IdleLoop \/ Startup
    PROVE  MachineInv' /\ NoneLost
<1> USE DEF Loops
<1>1. CASE AddLoop
  <2>1. CASE AddList
    BY <2>1, ListingCalm, SameRows, FewerCalm, Undisturbed DEF AddList, Listing, db, world, hist
  <2>2. ASSUME NEW n \in Names, AddPending(n) PROVE MachineInv' /\ NoneLost
    <3>1. CalmLists
      BY <2>2, DropCalm DEF AddPending
    <3>2. CalmRows
      BY <2>2, MarkCalm DEF AddPending, world, hist
    <3>3. CalmGoroutines
      BY <2>2, SpawnCalm, FewerCalm DEF AddPending
    <3> QED BY <3>1, <3>2, <3>3, Undisturbed
  <2> QED BY <1>1, <2>1, <2>2 DEF AddLoop
<1>2. CASE DelLoop
  <2>1. CASE DelList
    <3>1. list' = [list EXCEPT !["delete"] = {<<n, row[n]>> : n \in {m \in Names : row[m] \in Doomed}}]
          /\ UNCHANGED <<row, vm, gor, rp, unseen, seen, asked>>
      BY <2>1 DEF DelList, Listing, db, world, hist
    <3>2. {<<n, row[n]>> : n \in {m \in Names : row[m] \in Doomed}} \subseteq Entries
      BY DEF Entries, Doomed, Notes
    <3>3. CalmLists
      BY <3>1, <3>2 DEF CalmLists, MachineInv, Lists, ForcedIsAsked
    <3> QED BY <3>1, <3>3, SameRows, FewerCalm, Undisturbed
  <2>2. ASSUME NEW n \in Names, NEW st \in Doomed, DelPending(n, st) PROVE MachineInv' /\ NoneLost
    <3>1. CalmLists
      BY <2>2, DropCalm DEF DelPending
    <3>2. CalmRows
      BY <2>2, SameRows DEF DelPending, db, world, hist
    <3>3. st = "pending_force_delete" => n \in asked
      BY <2>2 DEF DelPending, MachineInv, ForcedIsAsked
    <3>4. CalmGoroutines
      BY <2>2, <3>3, SpawnCalm, FewerCalm DEF DelPending
    <3> QED BY <3>1, <3>2, <3>4, Undisturbed
  <2> QED BY <1>2, <2>1, <2>2 DEF DelLoop
<1>3. CASE RetryLoop
  <2>1. CASE RetryList
    BY <2>1, ListingCalm, SameRows, FewerCalm, Undisturbed DEF RetryList, Listing, db, world, hist
  <2>2. ASSUME NEW n \in Names, RetryOne(n) PROVE MachineInv' /\ NoneLost
    BY <2>2, DropCalm, SameRows, SpawnCalm, FewerCalm, Undisturbed DEF RetryOne, db, world, hist
  <2> QED BY <1>3, <2>1, <2>2 DEF RetryLoop
<1>4. CASE ScaleDownLoop
  <2>1. ASSUME NEW queued \in 0..1, ScaleDownList(queued) PROVE MachineInv' /\ NoneLost
    <3>1. PICK picked \in kSubset((Cardinality({n \in Names : rs[n] = "idle" /\ row[n] = "running"})
                                     - (minIdle + queued) + 1) \div 2,
                                  {n \in Names : rs[n] = "idle" /\ row[n] = "running"}) :
                 Listing("scaledown", {<<n>> : n \in picked})
      BY <2>1 DEF ScaleDownList
    <3>2. picked \subseteq Names
      BY <3>1 DEF kSubset
    <3> QED BY <2>1, <3>1, <3>2, ListingCalm, SameRows, FewerCalm, Undisturbed
            DEF ScaleDownList, Listing, db, world, hist
  <2>2. ASSUME NEW n \in Names, ScaleDownOne(n) PROVE MachineInv' /\ NoneLost
    <3>1. UNCHANGED row \/ ForceStatus(n, "pending_delete")
      BY <2>2, DeleteRunnerMarks DEF ScaleDownOne
    <3> QED BY <2>2, <3>1, DropCalm, MarkCalm, FewerCalm, Undisturbed DEF ScaleDownOne, hist
  <2> QED BY <1>4, <2>1, <2>2 DEF ScaleDownLoop
<1>5. CASE IdleLoop
  <2>1. CASE EnsureMinIdle \/ \E c \in Adders : AddRunnerRefused(c)
    BY <2>1, SameLists, SameRows, FewerCalm, Undisturbed DEF EnsureMinIdle, AddRunnerRefused, db, world, hist
  <2>2. ASSUME NEW c \in Adders, NEW n \in Names, AddRunner(c, n) PROVE MachineInv' /\ NoneLost
    <3>1. CalmGoroutines
      BY <2>2, SpawnCalm DEF AddRunner, Adders
    <3> QED BY <2>2, <3>1, SameLists, SameRows, Undisturbed DEF AddRunner, db
  <2> QED BY <1>5, <2>1, <2>2 DEF IdleLoop
<1>6. CASE Startup
  <2>1. CASE StartLoops \/ UpdateTools
    BY <2>1, SameLists, SameRows, FewerCalm, Undisturbed DEF StartLoops, UpdateTools, db, world, hist
  <2>2. ASSUME NEW n \in Names, StartOne(n) PROVE MachineInv' /\ NoneLost
    <3>1. UNCHANGED row \/ ForceStatus(n, "pending_delete")
      BY <2>2, DeleteRunnerMarks DEF StartOne
    <3> QED BY <2>2, <3>1, DropCalm, MarkCalm, FewerCalm, Undisturbed DEF StartOne, hist
  <2> QED BY <1>6, <2>1, <2>2 DEF Startup
<1> QED BY <1>1, <1>2, <1>3, <1>4, <1>5, <1>6

\* An error in a clean-up: what it has read and listed is forgotten; its goroutines
\* go on.
LEMMA AbortSafe ==
    ASSUME MachineInv, LockInv', Abort, UNCHANGED <<gor, vm, asked>>,
           \A n \in Names : row[n] # "none" => row'[n] # "none",
           \A n \in Names : row'[n] = "pending_force_delete" => row[n] = "pending_force_delete"
    PROVE  MachineInv' /\ NoneLost
<1>1. list' \in [Loops -> SUBSET Entries] /\ list'["delete"] = list["delete"] /\ list'["github"] = {}
  BY DEF Abort, MachineInv, Lists, Loops
<1>2. seen'.read = FALSE /\ seen'.off = {}
  BY DEF Abort, NothingSeen
<1>3. Emptied'
  BY DEF MachineInv, Emptied, Unneeded, Abort
<1>4. Lists' /\ ForcedIsAsked' /\ ListedMachines'
  BY <1>1, <1>2 DEF MachineInv, Lists, ForcedIsAsked, ListedMachines
<1>5. NoneLost
  BY DEF NoneLost
<1> QED BY <1>3, <1>4, <1>5 DEF MachineInv

\* The three passes over GitHub's runners.
LEMMA OtherCleanupSteps ==
    ASSUME MachineInv, LockInv', RunnerCleanup
    PROVE  MachineInv' /\ NoneLost
<1> USE DEF Loops
<1>1. CASE ListGithub \/ CleanupEnd
  <2>1. UNCHANGED <<row, vm, gor, list, asked>> /\ seen'.read = FALSE /\ seen'.off \subseteq Names
    <3>1. CASE ListGithub
      <4>1. seen' = [gh |-> {n \in Names : gh[n] # "none"}, off |-> {n \in Names : gh[n] = "offline"},
                     read |-> FALSE, pv |-> {}, stopped |-> {}]
        BY <3>1 DEF ListGithub, NothingSeen
      <4>2. seen'.read = FALSE /\ seen'.off \subseteq Names
        BY <4>1
      <4>3. UNCHANGED <<row, vm, gor, list, asked>>
        BY <3>1 DEF ListGithub, db, world, hist
      <4> QED BY <4>2, <4>3
    <3>2. CASE CleanupEnd
      BY <3>2 DEF CleanupEnd, NothingSeen, db, world
    <3> QED BY <1>1, <3>1, <3>2
  <2>2. list["github"] = {}
    BY <1>1 DEF ListGithub, CleanupEnd, Cleanup, MachineInv, ListedMachines
  <2>3. unseen' = unseen \/ (\A g \in gor : g.kind # "orphan")
    BY <1>1 DEF ListGithub, CleanupEnd, hist
  <2>4. Emptied'
    BY <2>1, <2>3 DEF MachineInv, Emptied, Unneeded
  <2>5. Lists' /\ ForcedIsAsked' /\ ListedMachines' /\ NoneLost
    BY <2>1, <2>2 DEF MachineInv, Lists, ForcedIsAsked, ListedMachines, NoneLost
  <2> QED BY <2>4, <2>5 DEF MachineInv
<1>2. CASE ReapList
  <2>1. {m \in Rows : age[m] = 2 /\ (m \notin seen.gh \/ m \in seen.off)} \subseteq Names
    BY DEF Rows
  <2> QED BY <1>2, <2>1, ListingCalm, SameRows, FewerCalm, Undisturbed DEF ReapList, Cleanup, db, world, hist
<1>3. CASE ProviderList
  <2>1. Unregistered \subseteq Names
    BY DEF Unregistered, Rows
  <2> QED BY <1>3, <2>1, ListingCalm, SameRows, FewerCalm, Undisturbed DEF ProviderList, Cleanup, db, world, hist
<1>4. CASE GithubList
  <2>1. {<<n>> : n \in seen.off} \subseteq Entries /\ \A n \in Names : <<n, "checked">> \notin {<<m>> : m \in seen.off}
    BY DEF MachineInv, Lists, Entries
  <2>2. UNCHANGED <<row, vm, gor, seen, asked, unseen>> /\ rp' = "github"
        /\ list' = [list EXCEPT !["github"] = {<<n>> : n \in seen.off}]
    BY <1>4 DEF GithubList, Cleanup, db, world, hist
  <2>3. Lists' /\ ForcedIsAsked' /\ NoneLost
    BY <2>1, <2>2 DEF MachineInv, Lists, ForcedIsAsked, NoneLost
  <2>4. Emptied' /\ ListedMachines'
    BY <2>1, <2>2 DEF MachineInv, Lists, Emptied, ListedMachines, Unneeded
  <2> QED BY <2>3, <2>4 DEF MachineInv
<1>5. ASSUME NEW n \in Names, ReapOne(n) PROVE MachineInv' /\ NoneLost
  <2>1. UNCHANGED row \/ ForceStatus(n, "pending_delete")
    BY <1>5, DeleteRunnerMarks DEF ReapOne
  <2>2. CASE Drop("reap", n) /\ UNCHANGED <<rp, seen, unseen>>
    BY <1>5, <2>1, <2>2, DropCalm, MarkCalm, FewerCalm, Undisturbed DEF ReapOne
  <2>3. CASE Abort
    <3>1. /\ \A m \in Names : row[m] # "none" => row'[m] # "none"
          /\ \A m \in Names : row'[m] = "pending_force_delete" => row[m] = "pending_force_delete"
      BY <2>1 DEF ForceStatus, MachineInv, LockInv, Typed
    <3> QED BY <1>5, <2>3, <3>1, AbortSafe DEF ReapOne
  <2> QED BY <1>5, <2>2, <2>3 DEF ReapOne
<1>6. ASSUME NEW n \in Names, ProviderOne(n) PROVE MachineInv' /\ NoneLost
  <2>1. UNCHANGED row \/ ForceStatus(n, "pending_delete")
    BY <1>6 DEF ProviderOne
  <2> QED BY <1>6, <2>1, DropCalm, MarkCalm, FewerCalm, Undisturbed DEF ProviderOne, world, hist
<1>7. ASSUME NEW n \in Names, GithubCheck(n) PROVE MachineInv' /\ NoneLost
  <2>1. UNCHANGED <<row, vm, gor, asked>>
    BY <1>7 DEF GithubCheck, db
  <2>2. CASE Drop("github", n) /\ UNCHANGED <<rp, seen, unseen>>
    BY <2>1, <2>2, DropCalm, SameRows, FewerCalm, Undisturbed
  <2>3. CASE Abort
    BY <2>1, <2>3, AbortSafe
  <2>4. CASE row[n] # "none" /\ ~LeaveBe(n) /\ ~Abort
    <3>1. /\ list' = [list EXCEPT !["github"] = (@ \ {<<n>>}) \cup {<<n, "checked">>}]
          /\ rp' = rp /\ unseen' = unseen
          /\ seen' = IF seen.read THEN seen
                     ELSE [seen EXCEPT !.read = TRUE, !.pv = {m \in Names : vm[m] # "none"},
                                       !.stopped = {m \in Names : vm[m] = "stopped"}]
      BY <1>7, <2>4 DEF GithubCheck
    <3>2. rp = "github" /\ <<n, "checked">> \in Entries
      BY <1>7, <2>4 DEF GithubCheck, MachineInv, ListedMachines, Entries
    <3>3. /\ list' \in [Loops -> SUBSET Entries] /\ list'["delete"] = list["delete"]
          /\ \A m \in Names : m \notin seen'.pv => Unneeded(m)
          /\ seen'.read
      <4>1. list' \in [Loops -> SUBSET Entries] /\ list'["delete"] = list["delete"]
        BY <3>1, <3>2 DEF MachineInv, Lists
      <4>2. CASE seen.read
        BY <3>1, <4>1, <4>2 DEF MachineInv, ListedMachines
      <4>3. CASE ~seen.read
        BY <3>1, <4>1, <4>3 DEF MachineInv, Lists, Unneeded
      <4> QED BY <4>2, <4>3
    <3>4. Emptied' /\ ListedMachines'
      BY <2>1, <3>1, <3>2, <3>3 DEF MachineInv, Emptied, ListedMachines, Unneeded
    <3>5. seen'.off = seen.off
      BY <3>1
    <3>6. Lists' /\ ForcedIsAsked' /\ NoneLost
      BY <2>1, <3>3, <3>5 DEF MachineInv, Lists, ForcedIsAsked, NoneLost
    <3> QED BY <3>4, <3>6 DEF MachineInv
  <2> QED BY <1>7, <2>2, <2>3, <2>4 DEF GithubCheck
<1>8. ASSUME NEW n \in Names, GithubLock(n) PROVE MachineInv' /\ NoneLost
  <2>1. CASE UNCHANGED gor
    BY <1>8, <2>1, DropCalm, SameRows, FewerCalm, Undisturbed DEF GithubLock, db, world, hist
  <2>2. CASE Spawn(Goroutine("orphan", n, IF n \in seen.pv THEN "start" ELSE "remove", "offline"))
    <3>1. UNCHANGED <<row, vm, rp, seen, asked, unseen>> /\ CalmLists
      BY <1>8, DropCalm DEF GithubLock, db, world, hist
    <3>2. n \notin seen.pv => Unneeded(n)
      BY <1>8 DEF GithubLock, MachineInv, ListedMachines
    <3>3. \A g \in gor' : g \in gor \/ (g.kind = "orphan" /\ g.n = n /\ g.st = "offline"
                                          /\ (g.pc \in {"remove", "drop"} => Unneeded(n)))
      BY <2>2, <3>2 DEF Spawn, Goroutine
    <3>4. Emptied'
      BY <3>1, <3>3 DEF MachineInv, Emptied, Unneeded
    <3>5. Lists' /\ ForcedIsAsked' /\ ListedMachines' /\ NoneLost
      BY <3>1, <3>3 DEF MachineInv, Lists, ForcedIsAsked, ListedMachines, NoneLost, CalmLists, Unneeded
    <3> QED BY <3>4, <3>5 DEF MachineInv
  <2> QED BY <1>8, <2>1, <2>2 DEF GithubLock
<1> QED BY <1>1, <1>2, <1>3, <1>4, <1>5, <1>6, <1>7, <1>8 DEF RunnerCleanup

\* Webhooks, callbacks, the administrator, GitHub, the machines and a restart.
LEMMA OtherEnvironmentSteps ==
    ASSUME MachineInv, LockInv', Environment \/ \E n \in Names : Age(n) \/ BackoffOver(n)
    PROVE  MachineInv' /\ NoneLost
<1>1. ASSUME NEW n \in Names, Age(n) \/ BackoffOver(n) \/ HookInProgress(n) PROVE MachineInv' /\ NoneLost
  BY <1>1, SameLists, SameRows, FewerCalm, Undisturbed DEF Age, BackoffOver, HookInProgress, db, world, mgr, hist
<1>2. ASSUME NEW n \in Names, HookCompleted(n) PROVE MachineInv' /\ NoneLost
  <2>1. CalmGoroutines
    BY <1>2, SpawnCalm, FewerCalm DEF HookCompleted
  <2> QED BY <1>2, <2>1, SameLists, SameRows, Undisturbed DEF HookCompleted, mgr, hist
<1>3. ASSUME NEW n \in Names, AgentTerminated(n) PROVE MachineInv' /\ NoneLost
  <2>1. CalmGoroutines
    BY <1>3, SpawnCalm DEF AgentTerminated
  <2> QED BY <1>3, <2>1, SameLists, SameRows, Undisturbed DEF AgentTerminated, world, mgr, hist
<1>4. ASSUME NEW n \in Names, NEW s \in {"installing", "idle", "failed"}, Callback(n, s)
      PROVE MachineInv' /\ NoneLost
  BY <1>4, SameLists, SameRows, FewerCalm, Undisturbed DEF Callback, world, mgr, hist
<1>5. ASSUME NEW n \in Names, NEW force \in BOOLEAN, NEW bypass \in BOOLEAN, ApiDelete(n, force, bypass)
      PROVE MachineInv' /\ NoneLost
  <2>1. \/ UNCHANGED row
        \/ ForceStatus(n, "pending_delete")
        \/ ForceStatus(n, "pending_force_delete") /\ n \in asked'
    BY <1>5 DEF ApiDelete, UpdateStatus
  <2>2. asked \subseteq asked' /\ UNCHANGED <<vm, unseen, seen, list, rp, gor>>
    BY <1>5 DEF ApiDelete, mgr
  <2>3. CalmRows
    BY <2>1, <2>2 DEF MachineInv, LockInv, Typed, Lists, CalmRows, ForceStatus
  <2> QED BY <2>2, <2>3, SameLists, FewerCalm, Undisturbed
<1>6. ASSUME NEW n \in Names, RunnerOnline(n) \/ JobStart(n) \/ JobDone(n) PROVE MachineInv' /\ NoneLost
  BY <1>6, SameLists, SameRows, FewerCalm, Undisturbed DEF RunnerOnline, JobStart, JobDone, db, mgr, hist
<1>7. ASSUME NEW n \in Names, VmFault(n) PROVE MachineInv' /\ NoneLost
  <2>1. UNCHANGED <<row, unseen, seen, asked, list, rp, gor>>
    BY <1>7 DEF VmFault, db, mgr, hist
  <2>2. CalmRows
    BY <1>7, <2>1 DEF VmFault, CalmRows, MachineInv, Lists
  <2> QED BY <2>1, <2>2, SameLists, FewerCalm, Undisturbed
<1>8. ASSUME NEW h \in hooks, LoseHook(h) PROVE MachineInv' /\ NoneLost
  BY <1>8, SameLists, SameRows, FewerCalm, Undisturbed DEF LoseHook, db, mgr, hist
<1>9. ASSUME NEW m \in MinIdles, UpdatePool(m) PROVE MachineInv' /\ NoneLost
  BY <1>9, SameLists, SameRows, FewerCalm, Undisturbed DEF UpdatePool, db, world, hist
<1>10. CASE Crash
  <2>1. UNCHANGED <<row, vm, asked>> /\ gor' = {} /\ seen'.read = FALSE /\ seen'.off = {}
    BY <1>10 DEF Crash, db, world, NothingSeen
  <2>2. /\ list' = [l \in Loops |-> IF l = "start" THEN {<<n>> : n \in {m \in Names : row[m] \in {"creating", "deleting"}}}
                                                   ELSE {}]
        /\ "delete" \in Loops /\ "github" \in Loops
    BY <1>10 DEF Crash, Loops
  <2>3. list' \in [Loops -> SUBSET Entries] /\ list'["delete"] = {} /\ list'["github"] = {}
    BY <2>2 DEF Entries
  <2> QED BY <2>1, <2>3
          DEF MachineInv, Lists, ForcedIsAsked, Emptied, ListedMachines, NoneLost
<1> QED BY <1>1, <1>2, <1>3, <1>4, <1>5, <1>6, <1>7, <1>8, <1>9, <1>10 DEF Environment

\* Every step keeps the invariant and takes no machine from a row.
LEMMA MachineStep ==
    ASSUME MachineInv, [Next]_vars
    PROVE  MachineInv' /\ NoneLost
<1>1. LockInv'
  BY Steps DEF MachineInv
<1>2. ASSUME NEW g \in gor, GorStep(g) PROVE MachineInv' /\ NoneLost
  BY <1>1, <1>2, CallSteps, OtherGoroutineSteps
<1>3. CASE UNCHANGED vars
  BY <1>1, <1>3, SameLists, SameRows, FewerCalm, Undisturbed DEF vars, db, world, mgr, hist
<1> QED BY <1>1, <1>2, <1>3, OtherLoopSteps, OtherCleanupSteps, OtherEnvironmentSteps DEF Next

\* No machine loses its row, whatever fails and whenever the process restarts, unless an
\* administrator forced the deletion or the clean-up had read the provider's list before
\* the machine was created.
THEOREM NoMachineLost == Spec => NoOrphanMachine
<1>1. MachineInv /\ [Next]_vars => MachineInv' /\ NoneLost
  BY MachineStep
<1>2. Spec => [][NoneLost]_vars
  BY MachineInit, <1>1, PTL DEF Spec
<1> QED BY <1>2 DEF NoOrphanMachine, NoneLost

-----------------------------------------------------------------------------
(* No busy runner is taken.                                                *)

NotNew(n) == n \notin fresh /\ \A g \in gor : g.kind = "add" => g.n # n

\* A name is registered once, and has no row before its insertion.
NewNames ==
    /\ gh \in [Names -> {"none", "offline", "online", "busy"}] /\ fresh \subseteq Names
    /\ \A n \in fresh : gh[n] = "none" /\ row[n] = "none"
    /\ \A g \in gor : g.kind = "add" =>
         /\ g.n \notin fresh /\ row[g.n] = "none"
         /\ \A h \in gor : h.kind = "add" /\ h.n = g.n => h = g

\* A deletion in progress keeps its row in deleting until it gives up.
Deletions ==
    /\ \A n \in Names, st \in Doomed : <<n, st>> \in list["delete"] => NotNew(n)
    /\ list["delete"] # {} => phase = "loops"
    /\ \A g \in gor : g.kind = "delete" =>
         /\ NotNew(g.n) /\ phase = "loops"
         /\ g.pc # "mark" => row[g.n] \in {"deleting", "none"}
    /\ \A g \in gor : g.kind = "create" => g.st \notin Doomed

\* Who is told that a job is over, or that GitHub has forgotten a runner, is told so
\* of a runner that will never be busy again.
Gone(n) == gh[n] = "none" /\ n \notin fresh
Finished ==
    /\ \A n \in Names : <<"completed", n>> \in hooks => Gone(n)
    /\ \A g \in gor : g.kind \in {"completed", "agent"} => Gone(g.n)

\* What the clean-up has not seen in GitHub has registered since, if at all.
Seen == [gh : SUBSET Names, off : SUBSET Names, read : BOOLEAN, pv : SUBSET Names, stopped : SUBSET Names]
Unseen ==
    /\ seen \in Seen
    /\ rp # "idle" => \A n \in Names : n \notin seen.gh => gh[n] = "none" \/ n \in late
    /\ list["provider"] # {} => rp = "provider"
    /\ \A n \in Names : <<n>> \in list["provider"] => n \notin seen.gh
    /\ list["start"] # {} => phase = "starting"

BusyInv == MachineInv /\ NewNames /\ Deletions /\ Finished /\ Unseen

\* A step that marks no busy runner, and the parts of a step that endanger none.
NoneTaken ==
    \A n \in Names : gh[n] = "busy" /\ row[n] \notin Doomed \cup {"deleting"} /\ row'[n] \in Doomed
        => n \in asked' \cup late \/ (phase = "starting" /\ faults' > faults)
QuietWorld ==
    /\ UNCHANGED <<fresh, seen, rp, late, phase>>
    /\ gh' \in [Names -> {"none", "offline", "online", "busy"}]
    /\ \A n \in Names : gh[n] = "none" => gh'[n] = "none"
    /\ \A n \in Names : <<"completed", n>> \in hooks' => <<"completed", n>> \in hooks \/ Gone(n)'
QuietRows ==
    /\ \A n \in Names : row[n] = "none" => row'[n] = "none"
    /\ \A g \in gor : g.kind = "delete" /\ g.pc # "mark" => row'[g.n] \in {"deleting", "none"}
QuietLists == \A l \in {"delete", "provider", "start"} : list'[l] \subseteq list[l]
QuietGoroutines ==
    \A g \in gor' : \/ g \in gor
                    \/ /\ g.kind # "add" /\ g.n \in Names
                       /\ g.kind \in {"completed", "agent"} => Gone(g.n)
                       /\ g.kind = "delete" => NotNew(g.n) /\ phase = "loops"
                            /\ (g.pc # "mark" => row'[g.n] \in {"deleting", "none"})
                       /\ g.kind = "create" => g.st \notin Doomed

\* No name is registered at the start.
LEMMA BusyInit == Init => BusyInv
<1> SUFFICES ASSUME Init PROVE BusyInv
  OBVIOUS
<1>1. \A l \in Loops : list[l] = {}
  BY DEF Init
<1>2. "delete" \in Loops /\ "provider" \in Loops /\ "start" \in Loops
  BY DEF Loops
<1>3. NewNames
  BY DEF Init, NewNames
<1> QED BY <1>1, <1>2, <1>3, MachineInit DEF Init, BusyInv, Deletions, Finished, Unseen, Seen, NothingSeen

\* A step whose parts are quiet keeps the invariant.
LEMMA Unthreatened ==
    ASSUME BusyInv, MachineInv', QuietWorld, QuietRows, QuietLists, QuietGoroutines
    PROVE  BusyInv'
<1> USE DEF BusyInv
<1>1. \A g \in gor : g.n \in Names
  BY DEF MachineInv, LockInv, Typed
<1>2. \A g \in gor' : g.kind = "add" => g \in gor
  BY DEF QuietGoroutines
<1>3. \A n \in Names : Gone(n) => Gone(n)'
  BY DEF Gone, QuietWorld
<1>4. \A n \in Names : NotNew(n) => NotNew(n)'
  BY <1>2 DEF NotNew, QuietWorld
<1>5. NewNames'
  BY <1>1, <1>2 DEF NewNames, QuietWorld, QuietRows
<1>6. Deletions'
  BY <1>1, <1>4 DEF Deletions, QuietWorld, QuietRows, QuietLists, QuietGoroutines
<1>7. Finished'
  BY <1>1, <1>3 DEF Finished, QuietWorld, QuietGoroutines
<1>8. Unseen'
  BY DEF Unseen, QuietWorld, QuietLists
<1> QED BY <1>5, <1>6, <1>7, <1>8

\* GitHub and the clean-up stay as they are; a webhook may be taken.
LEMMA SameWorld ==
    ASSUME BusyInv, UNCHANGED <<fresh, seen, rp, late, phase, gh>>, hooks' \subseteq hooks
    PROVE  QuietWorld
BY DEF BusyInv, NewNames, QuietWorld

\* A loop is done with a name.
LEMMA DropQuiet ==
    ASSUME BusyInv, NEW l \in Loops, NEW n, Drop(l, n)
    PROVE  QuietLists
<1>1. \A m \in Loops : list'[m] \subseteq list[m]
  BY DEF Drop, BusyInv, MachineInv, Lists
<1> QED BY <1>1 DEF QuietLists, Loops

\* A loop that deletes nothing by itself lists rows.
LEMMA ListingQuiet ==
    ASSUME BusyInv, NEW l \in Loops \ {"delete", "provider", "start"}, NEW S,
           list' = [list EXCEPT ![l] = S]
    PROVE  QuietLists
BY DEF QuietLists, Loops, BusyInv, MachineInv, Lists

\* The listings stay.
LEMMA SameListsQuiet ==
    ASSUME UNCHANGED list
    PROVE  QuietLists
BY DEF QuietLists

\* The rows stay.
LEMMA SameRowsQuiet ==
    ASSUME BusyInv, UNCHANGED row
    PROVE  QuietRows
BY DEF BusyInv, Deletions, QuietRows

\* A status of a row that no deletion is about.
LEMMA MarkQuiet ==
    ASSUME BusyInv, NEW n \in Names, NEW s, ForceStatus(n, s) \/ UNCHANGED row,
           \A g \in gor : g.kind = "delete" /\ g.pc # "mark" => g.n # n
    PROVE  QuietRows
BY DEF BusyInv, MachineInv, LockInv, Typed, Deletions, QuietRows, ForceStatus

\* Goroutines end.
LEMMA FewerQuiet ==
    ASSUME gor' \subseteq gor
    PROVE  QuietGoroutines
BY DEF QuietGoroutines

\* A goroutine starts: one that is told a job is over is told so of a gone runner.
LEMMA SpawnQuiet ==
    ASSUME NEW k \in Kinds \ {"add"}, NEW n \in Names, NEW pc, NEW st, Spawn(Goroutine(k, n, pc, st)),
           k \in {"completed", "agent"} => Gone(n),
           k = "delete" => NotNew(n) /\ phase = "loops" /\ pc = "mark",
           k = "create" => st \notin Doomed
    PROVE  QuietGoroutines
BY DEF Spawn, Goroutine, QuietGoroutines

\* A goroutine goes on with its instance.
LEMMA GotoQuiet ==
    ASSUME BusyInv, NEW g \in gor, NEW pc, NEW st, Goto(g, pc, st),
           g.kind \in {"create", "retry", "delete", "orphan"},
           g.kind = "delete" => row'[g.n] \in {"deleting", "none"},
           g.kind = "create" => st \notin Doomed
    PROVE  QuietGoroutines
BY DEF Goto, Goroutine, QuietGoroutines, BusyInv, MachineInv, LockInv, Typed, Deletions

\* A name that is not locked, or held by a creation, a retry or a clean-up, has no deletion.
LEMMA NoDeletion ==
    ASSUME BusyInv, NEW n, n \notin locks \/ \E h \in gor : Holds(h) /\ h.kind # "delete" /\ h.n = n
    PROVE  \A g \in gor : g.kind = "delete" => g.n # n
BY DEF BusyInv, MachineInv, LockInv, Locked, OneHolder, Holds

\* DeleteRunner marks no busy runner, but for a fault at startup.
LEMMA DeleteRunnerSpares ==
    ASSUME NEW n \in Names, NEW bypass \in BOOLEAN,
           DeleteRunner(n, bypass) \/ DeleteRunnerDone(n) \/ DeleteRunnerFails(n)
             \/ DeleteRunnerUnauthorized(n, bypass)
    PROVE  /\ gh' = gh \/ gh' = [gh EXCEPT ![n] = "none"]
           /\ \/ UNCHANGED row
              \/ ForceStatus(n, "pending_delete") /\ (gh[n] # "busy" \/ (bypass /\ faults' = faults + 1))
BY DEF DeleteRunner, DeleteRunnerDone, DeleteRunnerFails, DeleteRunnerUnauthorized, Fault

\* DeleteRunner removes at most one runner from GitHub.
LEMMA SparedWorld ==
    ASSUME BusyInv, NEW n \in Names, gh' = gh \/ gh' = [gh EXCEPT ![n] = "none"],
           UNCHANGED <<fresh, seen, rp, late, phase, hooks>>
    PROVE  QuietWorld
BY DEF BusyInv, NewNames, QuietWorld

\* The insertion of a row, which may give up a registration instead.
LEMMA InsertTakesNone ==
    ASSUME BusyInv, MachineInv', NEW g \in gor, CreateInstance(g)
    PROVE  BusyInv' /\ NoneTaken
<1> USE DEF BusyInv
<1>1. /\ g.kind = "add" /\ g.n \in Names /\ gor' = gor \ {g}
      /\ UNCHANGED <<fresh, seen, rp, late, phase, list, hooks>>
      /\ UNCHANGED row \/ row' = [row EXCEPT ![g.n] = "pending_create"]
      /\ gh' = gh \/ gh' = [gh EXCEPT ![g.n] = "none"]
  BY DEF CreateInstance, hist, MachineInv, LockInv, Typed
<1>2. /\ \A n \in Names : n # g.n => row'[n] = row[n]
      /\ \A n \in Names : gh[n] = "none" => gh'[n] = "none"
      /\ gh' \in [Names -> {"none", "offline", "online", "busy"}]
  BY <1>1 DEF NewNames, MachineInv, LockInv, Typed
<1>3. \A h \in gor : h.n \in Names /\ (h.kind = "add" /\ h # g => h.n # g.n)
  BY <1>1 DEF NewNames, MachineInv, LockInv, Typed
<1>4. \A h \in gor : h.kind = "delete" => h.n # g.n
  BY <1>1 DEF Deletions, NotNew
<1>5. NewNames'
  BY <1>1, <1>2, <1>3 DEF NewNames
<1>6. Deletions'
  BY <1>1, <1>2, <1>3, <1>4 DEF Deletions, NotNew
<1>7. Finished' /\ Unseen'
  BY <1>1, <1>2, <1>3 DEF Finished, Unseen, Gone
<1>8. NoneTaken
  BY <1>1 DEF NoneTaken, MachineInv, LockInv, Typed, Doomed
<1> QED BY <1>5, <1>6, <1>7, <1>8

\* The other steps of a goroutine.
LEMMA GoroutinesTakeNone ==
    ASSUME BusyInv, MachineInv', NEW g \in gor, GorStep(g), ~CreateInstance(g)
    PROVE  BusyInv' /\ NoneTaken
<1>1. g.n \in Names /\ g.st \in Notes
  BY DEF BusyInv, MachineInv, LockInv, Typed
<1>2. /\ UNCHANGED <<fresh, seen, rp, late, phase, list, hooks>>
      /\ gh' = gh \/ gh' = [gh EXCEPT ![g.n] = "none"]
  BY DEF GorStep, CreateCall, CreateRecord, CreateCleanup, CreateFail, RetryCall, RetryRequeue,
         DelMark, DelCall, DelDrop, DelRestore, OrphanRemove, OrphanDrop, OrphanStart,
         CompletedMark, AgentMark, world, mgr, hist
<1>3. QuietWorld /\ QuietLists
  BY <1>1, <1>2, SparedWorld, SameListsQuiet
<1>4. CASE CreateCall(g) \/ CreateRecord(g) \/ CreateCleanup(g) \/ CreateFail(g)
  <2>1. g.kind = "create" /\ g.st \notin Doomed /\ Holds(g)
    BY <1>4 DEF CreateCall, CreateRecord, CreateCleanup, CreateFail, BusyInv, Deletions, Holds
  <2>2. \/ UNCHANGED row
        \/ \E s \in {g.st, "error"} : ForceStatus(g.n, s)
    BY <1>4 DEF CreateCall, CreateRecord, CreateCleanup, CreateFail, UpdateStatus, db
  <2>3. QuietRows
    BY <1>1, <2>1, <2>2, NoDeletion, MarkQuiet
  <2>4. \/ gor' \subseteq gor
        \/ \E pc, st : Goto(g, pc, st) /\ st \notin Doomed
    <3>1. CASE CreateCall(g)
      BY <3>1 DEF CreateCall, Doomed
    <3>2. CASE CreateRecord(g)
      <4>1. CASE g.st = "error"
        BY <3>2, <4>1 DEF CreateRecord, Doomed
      <4>2. CASE g.st = "running" /\ MayBecome(g.n, "running")
        BY <3>2, <4>2 DEF CreateRecord, EndUnlock
      <4>3. CASE g.st # "error" /\ ~(g.st = "running" /\ MayBecome(g.n, "running"))
        BY <3>2, <4>3 DEF CreateRecord, Doomed
      <4> QED BY <4>1, <4>2, <4>3
    <3>3. CASE CreateCleanup(g) \/ CreateFail(g)
      BY <3>3 DEF CreateCleanup, CreateFail, EndUnlock, Doomed
    <3> QED BY <1>4, <3>1, <3>2, <3>3
  <2>5. QuietGoroutines
    BY <2>1, <2>4, GotoQuiet, FewerQuiet
  <2>6. NoneTaken
    BY <1>1, <2>1, <2>2 DEF NoneTaken, ForceStatus, Doomed, BusyInv, MachineInv, LockInv, Typed
  <2> QED BY <1>3, <2>3, <2>5, <2>6, Unthreatened
<1>5. CASE RetryCall(g) \/ RetryRequeue(g) \/ OrphanRemove(g) \/ OrphanDrop(g) \/ OrphanStart(g)
  <2>1. g.kind \in {"retry", "orphan"} /\ Holds(g)
    BY <1>5 DEF RetryCall, RetryRequeue, OrphanRemove, OrphanDrop, OrphanStart, Holds
  <2>2. UNCHANGED row \/ ForceStatus(g.n, "pending_create") \/ row' = [row EXCEPT ![g.n] = "none"]
    BY <1>5 DEF RetryCall, RetryRequeue, OrphanRemove, OrphanDrop, OrphanStart, DropRow, db
  <2>3. \A h \in gor : h.kind = "delete" => h.n # g.n
    BY <2>1, NoDeletion
  <2>4. QuietRows
    BY <1>1, <2>2, <2>3, MarkQuiet DEF QuietRows, BusyInv, MachineInv, LockInv, Typed, Deletions
  <2>5. gor' \subseteq gor \/ \E pc : Goto(g, pc, g.st)
    BY <1>5 DEF RetryCall, RetryRequeue, OrphanRemove, OrphanDrop, OrphanStart, EndUnlock
  <2>6. QuietGoroutines
    BY <2>1, <2>5, GotoQuiet, FewerQuiet
  <2>7. NoneTaken
    BY <1>1, <2>2 DEF NoneTaken, ForceStatus, Doomed, BusyInv, MachineInv, LockInv, Typed
  <2> QED BY <1>3, <2>4, <2>6, <2>7, Unthreatened
<1>6. CASE DelMark(g) \/ DelCall(g) \/ DelDrop(g) \/ DelRestore(g)
  <2>1. g.kind = "delete" /\ Holds(g) /\ (g.pc # "mark" => row[g.n] \in {"deleting", "none"})
    BY <1>6 DEF DelMark, DelCall, DelDrop, DelRestore, Holds, BusyInv, Deletions
  <2>2. \A h \in gor : h.kind = "delete" /\ h # g => h.n # g.n
    BY <2>1 DEF BusyInv, MachineInv, LockInv, OneHolder, Holds
  <2>3. \/ DelMark(g) /\ row' = [row EXCEPT ![g.n] = IF @ = "none" THEN @ ELSE "deleting"]
        \/ DelCall(g) /\ UNCHANGED row
        \/ gor' = gor \ {g} /\ g.pc # "mark"
             /\ (row' = [row EXCEPT ![g.n] = "none"] \/ ForceStatus(g.n, g.st))
    BY <1>6 DEF DelMark, DelCall, DelDrop, DelRestore, DropRow, ForceStatus, EndUnlock, db
  <2>4. /\ \A n \in Names : n # g.n => row'[n] = row[n]
        /\ \A n \in Names : row[n] = "none" => row'[n] = "none"
        /\ g \in gor' \/ gor' # gor \ {g} => row'[g.n] \in {"deleting", "none"}
    BY <1>1, <2>1, <2>3 DEF DelCall, BusyInv, MachineInv, LockInv, Typed, ForceStatus
  <2>5. \A h \in gor' : \/ h \in gor /\ h # g
                        \/ /\ h.kind = "delete" /\ h.n = g.n /\ row'[h.n] \in {"deleting", "none"}
    BY <2>1, <2>3, <2>4 DEF DelMark, DelCall, Goto, Goroutine
  <2>6. BusyInv'
    <3>1. \A h \in gor : h.n \in Names
      BY DEF BusyInv, MachineInv, LockInv, Typed
    <3>2. NewNames'
      BY <1>3, <2>1, <2>4, <2>5, <3>1 DEF BusyInv, NewNames, QuietWorld
    <3>3. \A n \in Names : NotNew(n) => NotNew(n)'
      BY <1>2, <2>1, <2>5 DEF NotNew
    <3>4. NotNew(g.n) /\ phase = "loops"
      BY <2>1 DEF BusyInv, Deletions
    <3>5. Deletions'
      BY <1>1, <1>2, <2>2, <2>4, <2>5, <3>1, <3>3, <3>4 DEF BusyInv, Deletions
    <3>6. Finished' /\ Unseen'
      BY <1>2, <1>3, <2>5, <3>1 DEF BusyInv, Finished, Unseen, Gone, QuietWorld
    <3> QED BY <3>2, <3>5, <3>6 DEF BusyInv
  <2>7. NoneTaken
    BY <1>1, <2>1, <2>3 DEF NoneTaken, ForceStatus, Doomed, BusyInv, MachineInv, LockInv, Typed
  <2> QED BY <2>6, <2>7
<1>7. CASE CompletedMark(g) \/ AgentMark(g)
  <2>1. gor' = gor \ {g} /\ gh[g.n] = "none"
    BY <1>7 DEF CompletedMark, AgentMark, BusyInv, Finished, Gone
  <2>2. \/ UNCHANGED row
        \/ /\ ForceStatus(g.n, "pending_delete")
           /\ row[g.n] \notin {"deleting", "none"} \/ g.n \notin locks
    <3>1. "pending_delete" \notin InstanceStatusTransitions["deleting"]
      BY DEF InstanceStatusTransitions
    <3> QED BY <1>7, <3>1 DEF CompletedMark, AgentMark, UpdateStatus, MayBecome
  <2>3. UNCHANGED row \/ \A h \in gor : h.kind = "delete" /\ h.pc # "mark" => h.n # g.n
    BY <2>2, NoDeletion DEF BusyInv, Deletions
  <2>4. QuietRows
    BY <1>1, <2>2, <2>3, MarkQuiet, SameRowsQuiet
  <2>5. NoneTaken
    BY <1>1, <2>1, <2>2 DEF NoneTaken, ForceStatus, BusyInv, MachineInv, LockInv, Typed
  <2> QED BY <1>3, <2>1, <2>4, <2>5, FewerQuiet, Unthreatened
<1> QED BY <1>4, <1>5, <1>6, <1>7 DEF GorStep

\* A new registration.
LEMMA RegistrationTakesNone ==
    ASSUME BusyInv, MachineInv', NEW c \in Adders, NEW n \in Names, AddRunner(c, n)
    PROVE  BusyInv' /\ NoneTaken
<1> USE DEF BusyInv
<1> DEFINE w == Goroutine("add", n, "insert", c)
<1>1. /\ n \in fresh /\ fresh' = fresh \ {n} /\ gh' = [gh EXCEPT ![n] = "offline"]
      /\ late' = IF rp = "idle" THEN late ELSE late \cup {n}
      /\ gor' = gor \cup {w} /\ w.kind = "add" /\ w.n = n
      /\ UNCHANGED <<row, seen, rp, phase, list, hooks>>
  BY DEF AddRunner, NextName, Spawn, Goroutine, db
<1>2. \A h \in gor : h.n \in Names
  BY DEF MachineInv, LockInv, Typed
<1>3. NewNames'
  BY <1>1, <1>2 DEF NewNames
<1>4. \A m \in Names : NotNew(m) => NotNew(m)'
  BY <1>1 DEF NotNew
<1>5. Deletions'
  BY <1>1, <1>2, <1>4 DEF Deletions
<1>6. \A m \in Names : Gone(m) => Gone(m)'
  BY <1>1 DEF Gone, NewNames
<1>7. Finished'
  BY <1>1, <1>2, <1>6 DEF Finished
<1>8. Unseen'
  BY <1>1 DEF Unseen, NewNames
<1>9. NoneTaken
  BY <1>1 DEF NoneTaken
<1> QED BY <1>3, <1>5, <1>7, <1>8, <1>9

\* The loops.
LEMMA LoopsTakeNone ==
    ASSUME BusyInv, MachineInv', faults \in Nat,
           AddLoop \/ DelLoop \/ RetryLoop \/ ScaleDownLoop \/ IdleLoop \/ Startup
    PROVE  BusyInv' /\ NoneTaken
<1> USE DEF Loops, Kinds
<1>1. ASSUME UNCHANGED row PROVE NoneTaken /\ QuietRows
  BY <1>1, SameRowsQuiet DEF NoneTaken
<1>2. CASE AddLoop
  <2>1. CASE AddList
    BY <1>1, <2>1, SameWorld, ListingQuiet, FewerQuiet, Unthreatened DEF AddList, Listing, db, world, hist
  <2>2. ASSUME NEW n \in Names, AddPending(n) PROVE BusyInv' /\ NoneTaken
    <3>1. QuietWorld /\ QuietLists
      BY <2>2, SameWorld, DropQuiet DEF AddPending, world, hist
    <3>2. UNCHANGED row \/ (ForceStatus(n, "creating") /\ n \notin locks)
      BY <2>2 DEF AddPending
    <3>3. QuietRows
      BY <1>1, <3>2, NoDeletion, MarkQuiet
    <3>4. QuietGoroutines
      BY <2>2, SpawnQuiet, FewerQuiet DEF AddPending, Doomed
    <3>5. NoneTaken
      BY <3>2 DEF NoneTaken, ForceStatus, Doomed, BusyInv, MachineInv, LockInv, Typed
    <3> QED BY <3>1, <3>3, <3>4, <3>5, Unthreatened
  <2> QED BY <1>2, <2>1, <2>2 DEF AddLoop
<1>3. CASE DelLoop
  <2>1. CASE DelList
    <3>1. /\ list' = [list EXCEPT !["delete"] = {<<n, row[n]>> : n \in {m \in Names : row[m] \in Doomed}}]
          /\ phase = "loops"
          /\ UNCHANGED <<row, gh, hooks, gor, fresh, seen, rp, late, phase>>
      BY <2>1 DEF DelList, Listing, Ticks, db, world, hist
    <3>2. list'["provider"] = list["provider"] /\ list'["start"] = list["start"]
          /\ \A n \in Names, st \in Doomed : <<n, st>> \in list'["delete"] => row[n] \in Doomed
      BY <3>1 DEF BusyInv, MachineInv, Lists
    <3>3. \A n \in Names : row[n] \in Doomed => NotNew(n)
      BY DEF NotNew, BusyInv, NewNames, Doomed
    <3>4. NewNames' /\ Finished' /\ Unseen'
      BY <3>1, <3>2 DEF BusyInv, NewNames, Finished, Unseen, Gone
    <3>5. Deletions'
      BY <3>1, <3>2, <3>3 DEF BusyInv, Deletions, NotNew
    <3> QED BY <1>1, <3>1, <3>4, <3>5 DEF BusyInv
  <2>2. ASSUME NEW n \in Names, NEW st \in Doomed, DelPending(n, st) PROVE BusyInv' /\ NoneTaken
    <3>1. UNCHANGED row /\ QuietWorld /\ QuietLists
      BY <2>2, SameWorld, DropQuiet DEF DelPending, db, world, hist
    <3>2. NotNew(n) /\ phase = "loops"
      BY <2>2 DEF DelPending, BusyInv, Deletions
    <3>3. QuietGoroutines
      BY <2>2, <3>2, SpawnQuiet, FewerQuiet DEF DelPending
    <3> QED BY <1>1, <3>1, <3>3, Unthreatened
  <2> QED BY <1>3, <2>1, <2>2 DEF DelLoop
<1>4. CASE RetryLoop
  <2>1. CASE RetryList
    BY <1>1, <2>1, SameWorld, ListingQuiet, FewerQuiet, Unthreatened DEF RetryList, Listing, db, world, hist
  <2>2. ASSUME NEW n \in Names, RetryOne(n) PROVE BusyInv' /\ NoneTaken
    <3>1. QuietGoroutines
      BY <2>2, SpawnQuiet, FewerQuiet DEF RetryOne
    <3> QED BY <1>1, <2>2, <3>1, SameWorld, DropQuiet, Unthreatened DEF RetryOne, db, world, hist
  <2> QED BY <1>4, <2>1, <2>2 DEF RetryLoop
<1>5. CASE ScaleDownLoop
  <2>1. ASSUME NEW queued \in 0..1, ScaleDownList(queued) PROVE BusyInv' /\ NoneTaken
    <3>1. \E S : list' = [list EXCEPT !["scaledown"] = S]
      BY <2>1 DEF ScaleDownList, Listing
    <3> QED BY <1>1, <2>1, <3>1, SameWorld, ListingQuiet, FewerQuiet, Unthreatened
            DEF ScaleDownList, db, world, hist
  <2>2. ASSUME NEW n \in Names, ScaleDownOne(n) PROVE BusyInv' /\ NoneTaken
    <3>1. /\ gh' = gh \/ gh' = [gh EXCEPT ![n] = "none"]
          /\ \/ UNCHANGED row
             \/ ForceStatus(n, "pending_delete") /\ gh[n] # "busy" /\ n \notin locks
      BY <2>2, DeleteRunnerSpares DEF ScaleDownOne
    <3>2. QuietWorld /\ QuietLists /\ QuietGoroutines
      BY <2>2, <3>1, SparedWorld, DropQuiet, FewerQuiet DEF ScaleDownOne, hist
    <3>3. QuietRows
      BY <1>1, <3>1, NoDeletion, MarkQuiet
    <3>4. NoneTaken
      BY <3>1 DEF NoneTaken, ForceStatus, BusyInv, MachineInv, LockInv, Typed
    <3> QED BY <3>2, <3>3, <3>4, Unthreatened
  <2> QED BY <1>5, <2>1, <2>2 DEF ScaleDownLoop
<1>6. CASE IdleLoop
  <2>1. CASE EnsureMinIdle \/ \E c \in Adders : AddRunnerRefused(c)
    BY <1>1, <2>1, SameWorld, SameListsQuiet, FewerQuiet, Unthreatened
    DEF EnsureMinIdle, AddRunnerRefused, db, world, hist
  <2>2. ASSUME NEW c \in Adders, NEW n \in Names, AddRunner(c, n) PROVE BusyInv' /\ NoneTaken
    BY <2>2, RegistrationTakesNone
  <2> QED BY <1>6, <2>1, <2>2 DEF IdleLoop
<1>7. CASE Startup
  <2>1. CASE StartLoops
    <3>1. /\ UNCHANGED <<row, gh, hooks, gor, list, fresh, seen, rp, late>>
          /\ phase' = "loops" /\ list["start"] = {}
      BY <2>1 DEF StartLoops, db, world, hist
    <3>2. NewNames' /\ Deletions' /\ Finished' /\ Unseen'
      BY <3>1 DEF BusyInv, NewNames, Deletions, NotNew, Finished, Unseen, Gone
    <3> QED BY <1>1, <3>1, <3>2 DEF BusyInv
  <2>2. CASE UpdateTools
    BY <1>1, <2>2, SameWorld, SameListsQuiet, FewerQuiet, Unthreatened DEF UpdateTools, db, world, hist
  <2>3. ASSUME NEW n \in Names, StartOne(n) PROVE BusyInv' /\ NoneTaken
    <3>1. /\ gh' = gh \/ gh' = [gh EXCEPT ![n] = "none"]
          /\ \/ UNCHANGED row
             \/ ForceStatus(n, "pending_delete") /\ (gh[n] # "busy" \/ faults' = faults + 1)
      BY <2>3, DeleteRunnerSpares DEF StartOne
    <3>2. phase = "starting"
      BY <2>3 DEF StartOne, BusyInv, Unseen
    <3>3. QuietWorld /\ QuietLists /\ QuietGoroutines
      BY <2>3, <3>1, SparedWorld, DropQuiet, FewerQuiet DEF StartOne, hist
    <3>4. QuietRows
      BY <3>1, <3>2, MarkQuiet DEF BusyInv, Deletions
    <3>5. faults' = faults + 1 => faults' > faults
      OBVIOUS
    <3>6. NoneTaken
      BY <3>1, <3>2, <3>5 DEF NoneTaken, ForceStatus, BusyInv, MachineInv, LockInv, Typed
    <3> QED BY <3>3, <3>4, <3>6, Unthreatened
  <2> QED BY <1>7, <2>1, <2>2, <2>3 DEF Startup
<1> QED BY <1>2, <1>3, <1>4, <1>5, <1>6, <1>7

\* A step of a pass of the clean-up, which may end the pass.
LEMMA PassQuiet ==
    ASSUME BusyInv, MachineInv', QuietRows, Unseen', UNCHANGED <<fresh, phase, hooks, gor>>,
           gh' = gh \/ \E n \in Names : gh' = [gh EXCEPT ![n] = "none"],
           UNCHANGED list \/ (list'["delete"] = list["delete"])
    PROVE  BusyInv'
<1> USE DEF BusyInv
<1>1. gh' \in [Names -> {"none", "offline", "online", "busy"}]
      /\ \A n \in Names : gh[n] = "none" => gh'[n] = "none"
  BY DEF NewNames
<1>2. \A g \in gor : g.n \in Names
  BY DEF MachineInv, LockInv, Typed
<1>3. NewNames'
  BY <1>1, <1>2 DEF NewNames, QuietRows
<1>4. Deletions'
  BY <1>1, <1>2 DEF Deletions, NotNew, QuietRows
<1>5. Finished'
  BY <1>1, <1>2 DEF Finished, Gone
<1> QED BY <1>3, <1>4, <1>5

\* A pass that is aborted has nothing left to look at.
LEMMA AbortSees ==
    ASSUME BusyInv, Abort, UNCHANGED phase
    PROVE  Unseen' /\ list'["delete"] = list["delete"]
<1>1. /\ rp' = "idle" /\ list'["provider"] = {}
      /\ list'["start"] = list["start"] /\ list'["delete"] = list["delete"]
  BY DEF Abort, BusyInv, MachineInv, Lists, Loops
<1>2. seen' \in Seen
  BY DEF Abort, NothingSeen, Seen
<1> QED BY <1>1, <1>2 DEF BusyInv, Unseen

\* The three passes over GitHub's runners.
LEMMA CleanupTakesNone ==
    ASSUME BusyInv, MachineInv', RunnerCleanup
    PROVE  BusyInv' /\ NoneTaken
<1>1. ASSUME UNCHANGED row PROVE NoneTaken /\ QuietRows
  BY <1>1, SameRowsQuiet DEF NoneTaken
<1>2. CASE ListGithub
  <2>1. /\ UNCHANGED <<row, gh, hooks, gor, fresh, phase, late>>
        /\ list' = [list EXCEPT !["reap"] = list'["reap"]] \/ UNCHANGED list
        /\ rp = "idle" /\ rp' = "reap" /\ seen'.gh = {n \in Names : gh[n] # "none"}
        /\ seen' \in Seen
    BY <1>2 DEF ListGithub, Cleanup, NothingSeen, Seen, db, world, hist
  <2>2. list' = list
    BY <1>2 DEF ListGithub
  <2>3. Unseen'
    BY <2>1, <2>2 DEF BusyInv, NewNames, Unseen
  <2> QED BY <1>1, <2>1, <2>2, <2>3, PassQuiet
<1>3. CASE ReapList
  <2>1. /\ UNCHANGED <<row, gh, hooks, gor, fresh, phase, late, seen>>
        /\ rp = "reap" /\ rp' = "reaping"
        /\ list'["delete"] = list["delete"] /\ list'["provider"] = list["provider"]
        /\ list'["start"] = list["start"]
    BY <1>3 DEF ReapList, Cleanup, db, world, hist, BusyInv, MachineInv, Lists, Loops
  <2>2. Unseen'
    BY <2>1 DEF BusyInv, Unseen
  <2> QED BY <1>1, <2>1, <2>2, PassQuiet
<1>4. CASE ProviderList
  <2>1. /\ UNCHANGED <<row, gh, hooks, gor, fresh, phase, late, seen>>
        /\ rp = "reaping" /\ rp' = "provider"
        /\ list'["delete"] = list["delete"] /\ list'["start"] = list["start"]
        /\ list'["provider"] = {<<n>> : n \in Unregistered}
    BY <1>4 DEF ProviderList, Cleanup, db, world, hist, BusyInv, MachineInv, Lists, Loops
  <2>2. \A n \in Names : <<n>> \in list'["provider"] => n \notin seen.gh
    BY <2>1 DEF Unregistered
  <2>3. Unseen'
    BY <2>1, <2>2 DEF BusyInv, Unseen
  <2> QED BY <1>1, <2>1, <2>3, PassQuiet
<1>5. CASE GithubList
  <2>1. /\ UNCHANGED <<row, gh, hooks, gor, fresh, phase, late, seen>>
        /\ rp = "provider" /\ rp' = "github" /\ list["provider"] = {}
        /\ list'["delete"] = list["delete"] /\ list'["provider"] = list["provider"]
        /\ list'["start"] = list["start"]
    BY <1>5 DEF GithubList, Cleanup, db, world, hist, BusyInv, MachineInv, Lists, Loops
  <2>2. Unseen'
    BY <2>1 DEF BusyInv, Unseen
  <2> QED BY <1>1, <2>1, <2>2, PassQuiet
<1>6. CASE CleanupEnd
  <2>1. /\ UNCHANGED <<row, gh, hooks, gor, fresh, phase, list>>
        /\ rp = "github" /\ rp' = "idle" /\ seen' \in Seen
    BY <1>6 DEF CleanupEnd, Cleanup, NothingSeen, Seen, db, world
  <2>2. Unseen'
    BY <2>1 DEF BusyInv, Unseen
  <2> QED BY <1>1, <2>1, <2>2, PassQuiet
<1>7. ASSUME NEW n \in Names, ReapOne(n) PROVE BusyInv' /\ NoneTaken
  <2>1. /\ UNCHANGED <<hooks, phase, gor, fresh>>
        /\ gh' = gh \/ gh' = [gh EXCEPT ![n] = "none"]
        /\ \/ UNCHANGED row
           \/ ForceStatus(n, "pending_delete") /\ gh[n] # "busy" /\ n \notin locks
    BY <1>7, DeleteRunnerSpares DEF ReapOne
  <2>2. QuietRows
    BY <1>1, <2>1, NoDeletion, MarkQuiet
  <2>3. NoneTaken
    BY <2>1 DEF NoneTaken, ForceStatus, BusyInv, MachineInv, LockInv, Typed
  <2>4. CASE Abort
    BY <2>1, <2>2, <2>3, <2>4, AbortSees, PassQuiet
  <2>5. CASE Drop("reap", n) /\ UNCHANGED <<rp, seen, late>>
    <3>1. QuietWorld /\ QuietLists /\ QuietGoroutines
      BY <2>1, <2>5, SparedWorld, DropQuiet, FewerQuiet DEF Loops
    <3> QED BY <2>2, <2>3, <3>1, Unthreatened
  <2> QED BY <1>7, <2>4, <2>5 DEF ReapOne
<1>8. ASSUME NEW n \in Names, ProviderOne(n) PROVE BusyInv' /\ NoneTaken
  <2>1. /\ Drop("provider", n) /\ UNCHANGED <<gh, hooks, gor, fresh, late, seen, rp, phase>>
        /\ UNCHANGED row \/ (ForceStatus(n, "pending_delete") /\ n \notin locks)
        /\ <<n>> \in list["provider"]
    BY <1>8 DEF ProviderOne, world, hist
  <2>2. QuietWorld /\ QuietLists /\ QuietGoroutines
    BY <2>1, SameWorld, DropQuiet, FewerQuiet DEF Loops
  <2>3. QuietRows
    BY <1>1, <2>1, NoDeletion, MarkQuiet
  <2>4. gh[n] = "none" \/ n \in late
    BY <2>1 DEF BusyInv, Unseen
  <2>5. NoneTaken
    BY <2>1, <2>4 DEF NoneTaken, ForceStatus, BusyInv, MachineInv, LockInv, Typed
  <2> QED BY <2>2, <2>3, <2>5, Unthreatened
<1>9. ASSUME NEW n \in Names, GithubCheck(n) PROVE BusyInv' /\ NoneTaken
  <2>1. /\ UNCHANGED <<row, hooks, phase, gor, fresh>>
        /\ gh' = gh \/ gh' = [gh EXCEPT ![n] = "none"]
    BY <1>9 DEF GithubCheck, db
  <2>2. CASE Abort
    BY <1>1, <2>1, <2>2, AbortSees, PassQuiet
  <2>3. CASE ~Abort
    <3>1. /\ UNCHANGED <<rp, late>>
          /\ \/ UNCHANGED seen
             \/ \E pv, stopped \in SUBSET Names : seen' = [seen EXCEPT !.read = TRUE, !.pv = pv, !.stopped = stopped]
          /\ \E S : list' = [list EXCEPT !["github"] = S]
      BY <1>9, <2>3 DEF GithubCheck, Drop
    <3>2. /\ list'["delete"] = list["delete"] /\ list'["provider"] = list["provider"]
          /\ list'["start"] = list["start"]
      BY <3>1 DEF BusyInv, MachineInv, Lists, Loops
    <3>3. seen' \in Seen /\ seen'.gh = seen.gh
      BY <3>1 DEF BusyInv, Unseen, Seen
    <3>4. Unseen'
      BY <2>1, <3>1, <3>2, <3>3 DEF BusyInv, NewNames, Unseen
    <3> QED BY <1>1, <2>1, <3>2, <3>4, PassQuiet
  <2> QED BY <2>2, <2>3
<1>10. ASSUME NEW n \in Names, GithubLock(n) PROVE BusyInv' /\ NoneTaken
  <2>1. QuietGoroutines
    BY <1>10, SpawnQuiet, FewerQuiet DEF GithubLock, Kinds
  <2> QED BY <1>1, <1>10, <2>1, SameWorld, DropQuiet, Unthreatened DEF GithubLock, db, world, hist, Loops
<1> QED BY <1>2, <1>3, <1>4, <1>5, <1>6, <1>7, <1>8, <1>9, <1>10 DEF RunnerCleanup

\* Webhooks, callbacks, the administrator, GitHub, the machines and a restart.
LEMMA EnvironmentTakesNone ==
    ASSUME BusyInv, MachineInv', Environment \/ \E n \in Names : Age(n) \/ BackoffOver(n)
    PROVE  BusyInv' /\ NoneTaken
<1>1. ASSUME UNCHANGED row PROVE NoneTaken /\ QuietRows
  BY <1>1, SameRowsQuiet DEF NoneTaken
<1>2. ASSUME NEW n \in Names, Age(n) \/ BackoffOver(n) \/ HookInProgress(n) PROVE BusyInv' /\ NoneTaken
  <2>1. UNCHANGED <<row, list, gor, fresh, seen, rp, late, phase, gh>> /\ hooks' \subseteq hooks
    BY <1>2 DEF Age, BackoffOver, HookInProgress, db, world, mgr, hist
  <2> QED BY <1>1, <2>1, SameWorld, SameListsQuiet, FewerQuiet, Unthreatened
<1>3. ASSUME NEW n \in Names, HookCompleted(n) PROVE BusyInv' /\ NoneTaken
  <2>1. UNCHANGED <<row, list, fresh, seen, rp, late, phase, gh>> /\ hooks' \subseteq hooks
    BY <1>3 DEF HookCompleted, mgr, hist
  <2>2. Gone(n)
    BY <1>3 DEF HookCompleted, BusyInv, Finished
  <2>3. QuietGoroutines
    BY <1>3, <2>2, SpawnQuiet, FewerQuiet DEF HookCompleted, Kinds
  <2> QED BY <1>1, <2>1, <2>3, SameWorld, SameListsQuiet, Unthreatened
<1>4. ASSUME NEW n \in Names, AgentTerminated(n) PROVE BusyInv' /\ NoneTaken
  <2>1. UNCHANGED <<row, list, fresh, seen, rp, late, phase, gh, hooks>>
    BY <1>4 DEF AgentTerminated, world, mgr, hist
  <2>2. Gone(n)
    BY <1>4 DEF AgentTerminated, BusyInv, NewNames, Gone
  <2>3. QuietGoroutines
    BY <1>4, <2>2, SpawnQuiet DEF AgentTerminated, Kinds
  <2> QED BY <1>1, <2>1, <2>3, SameWorld, SameListsQuiet, Unthreatened
<1>5. ASSUME NEW n \in Names, NEW s \in {"installing", "idle", "failed"}, Callback(n, s)
      PROVE BusyInv' /\ NoneTaken
  BY <1>1, <1>5, SameWorld, SameListsQuiet, FewerQuiet, Unthreatened DEF Callback, world, mgr, hist
<1>6. ASSUME NEW n \in Names, NEW force \in BOOLEAN, NEW bypass \in BOOLEAN, ApiDelete(n, force, bypass)
      PROVE BusyInv' /\ NoneTaken
  <2>1. /\ UNCHANGED <<list, gor, fresh, seen, rp, late, phase, hooks>>
        /\ gh' = gh \/ gh' = [gh EXCEPT ![n] = "none"]
        /\ gh[n] = "busy" => n \in asked'
        /\ UNCHANGED row \/ (row[n] # "deleting" /\ \E s : ForceStatus(n, s))
        /\ row[n] \in {"running", "error"} \cup Doomed
    <3>1. row[n] # "deleting" /\ row[n] # "none"
      BY <1>6 DEF ApiDelete, Doomed
    <3>2. gh' = gh \/ gh' = [gh EXCEPT ![n] = "none"]
      BY <1>6 DEF ApiDelete, BusyInv, NewNames
    <3> QED BY <1>6, <3>1, <3>2 DEF ApiDelete, UpdateStatus, mgr
  <2>2. UNCHANGED row \/ \A g \in gor : g.kind = "delete" /\ g.pc # "mark" => g.n # n
    BY <2>1 DEF BusyInv, Deletions, Doomed
  <2>3. QuietRows
    BY <1>1, <2>1, <2>2, MarkQuiet
  <2>4. NoneTaken
    BY <2>1 DEF NoneTaken, ForceStatus, BusyInv, MachineInv, LockInv, Typed
  <2> QED BY <2>1, <2>3, <2>4, SparedWorld, SameListsQuiet, FewerQuiet, Unthreatened
<1>7. ASSUME NEW n \in Names, RunnerOnline(n) \/ JobStart(n) \/ JobDone(n) \/ VmFault(n)
      PROVE BusyInv' /\ NoneTaken
  <2>1. UNCHANGED <<row, list, gor, fresh, seen, rp, late, phase>>
    BY <1>7 DEF RunnerOnline, JobStart, JobDone, VmFault, db, mgr, hist
  <2>2. /\ gh' \in [Names -> {"none", "offline", "online", "busy"}]
        /\ \A m \in Names : gh[m] = "none" => gh'[m] = "none"
    BY <1>7 DEF RunnerOnline, JobStart, JobDone, VmFault, BusyInv, NewNames
  <2>3. \A m \in Names : <<"completed", m>> \in hooks' => <<"completed", m>> \in hooks \/ Gone(m)'
    <3>1. CASE RunnerOnline(n) \/ VmFault(n)
      BY <3>1 DEF RunnerOnline, VmFault
    <3>2. CASE JobStart(n)
      BY <3>2 DEF JobStart
    <3>3. CASE JobDone(n)
      <4>1. gh'[n] = "none" /\ n \notin fresh' /\ hooks' = hooks \cup {<<"completed", n>>}
        BY <2>1, <3>3 DEF JobDone, BusyInv, NewNames
      <4> QED BY <4>1 DEF Gone
    <3> QED BY <1>7, <3>1, <3>2, <3>3
  <2>4. QuietWorld
    BY <2>1, <2>2, <2>3 DEF QuietWorld
  <2> QED BY <1>1, <2>1, <2>4, SameListsQuiet, FewerQuiet, Unthreatened
<1>8. ASSUME NEW h \in hooks, LoseHook(h) PROVE BusyInv' /\ NoneTaken
  BY <1>1, <1>8, SameWorld, SameListsQuiet, FewerQuiet, Unthreatened DEF LoseHook, db, mgr, hist
<1>9. ASSUME NEW m \in MinIdles, UpdatePool(m) PROVE BusyInv' /\ NoneTaken
  BY <1>1, <1>9, SameWorld, SameListsQuiet, FewerQuiet, Unthreatened DEF UpdatePool, db, world, hist
<1>10. CASE Crash
  <2>1. /\ UNCHANGED <<row, gh, hooks, fresh>>
        /\ phase' = "starting" /\ gor' = {} /\ rp' = "idle" /\ seen' \in Seen
    BY <1>10 DEF Crash, NothingSeen, Seen, db, world
  <2>2. list'["delete"] = {} /\ list'["provider"] = {}
    BY <1>10 DEF Crash, Loops
  <2>3. NewNames' /\ Deletions' /\ Finished' /\ Unseen'
    BY <2>1, <2>2 DEF BusyInv, NewNames, Deletions, Finished, Unseen, Gone
  <2> QED BY <1>1, <2>1, <2>3 DEF BusyInv
<1> QED BY <1>2, <1>3, <1>4, <1>5, <1>6, <1>7, <1>8, <1>9, <1>10 DEF Environment

\* The faults are counted.
LEMMA FaultsCounted ==
    ASSUME faults \in Nat, [Next]_vars
    PROVE  faults' \in Nat
<1>1. \A k : Fault(k) => faults' \in Nat
  BY DEF Fault
<1>2. ASSUME NEW g \in gor, GorStep(g) PROVE faults' \in Nat
  BY <1>1, <1>2 DEF GorStep, CreateInstance, CreateCall, CreateRecord, CreateCleanup, CreateFail, RetryCall,
     RetryRequeue, DelMark, DelCall, DelDrop, DelRestore, OrphanRemove, OrphanDrop, OrphanStart,
     CompletedMark, AgentMark, NoFault
<1>3. ASSUME NEW n \in Names, NEW bypass \in BOOLEAN,
             DeleteRunner(n, bypass) \/ DeleteRunnerDone(n) \/ DeleteRunnerFails(n)
               \/ DeleteRunnerUnauthorized(n, bypass)
      PROVE  faults' \in Nat
  BY <1>1, <1>3 DEF DeleteRunner, DeleteRunnerDone, DeleteRunnerFails, DeleteRunnerUnauthorized, NoFault
<1>4. CASE AddLoop \/ DelLoop \/ RetryLoop
  BY <1>4 DEF AddLoop, DelLoop, RetryLoop, AddList, AddPending, DelList, DelPending, RetryList, RetryOne
<1>5. CASE ScaleDownLoop
  BY <1>3, <1>5 DEF ScaleDownLoop, ScaleDownList, ScaleDownOne
<1>6. CASE IdleLoop
  BY <1>1, <1>6 DEF IdleLoop, EnsureMinIdle, AddRunnerRefused, AddRunner
<1>7. CASE Startup
  BY <1>3, <1>7 DEF Startup, StartLoops, UpdateTools, StartOne
<1>8. CASE RunnerCleanup
  <2>1. CASE ListGithub \/ ReapList \/ ProviderList \/ GithubList \/ CleanupEnd
    BY <2>1 DEF ListGithub, ReapList, ProviderList, GithubList, CleanupEnd
  <2>2. ASSUME NEW n \in Names, ReapOne(n) PROVE faults' \in Nat
    BY <1>3, <2>2 DEF ReapOne
  <2>3. ASSUME NEW n \in Names, ProviderOne(n) \/ GithubCheck(n) \/ GithubLock(n) PROVE faults' \in Nat
    BY <1>1, <2>3 DEF ProviderOne, GithubCheck, GithubLock
  <2> QED BY <1>8, <2>1, <2>2, <2>3 DEF RunnerCleanup
<1>9. CASE Environment \/ \E n \in Names : Age(n) \/ BackoffOver(n)
  BY <1>1, <1>9 DEF Environment, Age, BackoffOver, HookInProgress, HookCompleted, AgentTerminated, Callback,
     ApiDelete, RunnerOnline, JobStart, JobDone, VmFault, LoseHook, UpdatePool, Crash
<1> QED BY <1>2, <1>4, <1>5, <1>6, <1>7, <1>8, <1>9 DEF Next, vars

\* Every step keeps the invariant and takes no busy runner.
LEMMA BusyStep ==
    ASSUME BusyInv, faults \in Nat, [Next]_vars
    PROVE  BusyInv' /\ NoneTaken /\ faults' \in Nat
<1>1. MachineInv' /\ faults' \in Nat
  BY MachineStep, FaultsCounted DEF BusyInv
<1>2. ASSUME NEW g \in gor, GorStep(g) PROVE BusyInv' /\ NoneTaken
  BY <1>1, <1>2, InsertTakesNone, GoroutinesTakeNone
<1>3. CASE UNCHANGED vars
  BY <1>1, <1>3, SameWorld, SameListsQuiet, SameRowsQuiet, FewerQuiet, Unthreatened
  DEF vars, db, world, mgr, hist, NoneTaken
<1> QED BY <1>1, <1>2, <1>3, LoopsTakeNone, CleanupTakesNone, EnvironmentTakesNone DEF Next

\* No runner is marked for deletion while it runs a job, whatever the loops remember,
\* but for an administrator who bypasses GitHub, a restart that GitHub does not answer,
\* and a runner that registered after the clean-up listed GitHub's runners.
THEOREM BusyRunnersKept == Spec => BusyIsSafe
<1> DEFINE Inv == BusyInv /\ faults \in Nat
<1>1. Init => Inv
  BY BusyInit DEF Init
<1>2. Inv /\ [Next]_vars => Inv' /\ NoneTaken
  BY BusyStep
<1>3. Spec => [][NoneTaken]_vars
  BY <1>1, <1>2, PTL DEF Spec
<1> QED BY <1>3 DEF BusyIsSafe, NoneTaken

-----------------------------------------------------------------------------
(* The types, and why no failed creation is tried again.                   *)

\* Who adds a runner, what a creation ended with, and how a deletion was asked for.
Workers ==
    \A g \in gor : /\ g.kind = "add" => g.st \in Adders
                   /\ g.kind = "create" /\ g.pc = "record" => g.st \in {"running", "error"}
                   /\ g.kind = "delete" => g.st \in Doomed

\* What is retried has had its creation, and InstanceStatusTransitions leads nowhere
\* back to pending_create.
Retried ==
    /\ \A n \in Names : <<n>> \in list["retry"] => row[n] # "pending_create" /\ NotNew(n)
    /\ \A g \in gor : g.kind = "retry" => row[g.n] # "pending_create" /\ NotNew(g.n)

TypeInv == TypeOK /\ Workers /\ Retried

\* A goroutine that was there, or one like it, or one with nothing to retry or add.
Fits(g) ==
    \/ g \in gor
    \/ /\ g.kind # "add" /\ (g.kind = "retry" => \E h \in gor : h.kind = "retry" /\ h.n = g.n)
       /\ g.kind = "create" /\ g.pc = "record" => g.st \in {"running", "error"}
       /\ g.kind = "delete" => g.st \in Doomed

\* A step that begins no retry and no addition, and makes no row wait for its creation.
LEMMA NothingNew ==
    ASSUME BusyInv, TypeInv, fresh' = fresh, list'["retry"] \subseteq list["retry"],
           \A g \in gor' : Fits(g),
           \A n \in Names : row'[n] = "pending_create" => row[n] = "pending_create"
    PROVE  Workers' /\ Retried'
<1>1. \A g \in gor : g.n \in Names
  BY DEF BusyInv, MachineInv, LockInv, Typed
<1>2. Workers'
  BY DEF TypeInv, Workers, Fits
<1>3. \A n \in Names : NotNew(n) => NotNew(n)'
  BY DEF NotNew, Fits
<1>4. \A n \in Names : <<n>> \in list'["retry"] => row'[n] # "pending_create" /\ NotNew(n)'
  BY <1>3 DEF TypeInv, Retried
<1>5. ASSUME NEW g \in gor', g.kind = "retry"
      PROVE  row'[g.n] # "pending_create" /\ NotNew(g.n)'
  <2>1. PICK h \in gor : h.kind = "retry" /\ h.n = g.n
    BY <1>5 DEF Fits
  <2> QED BY <1>1, <1>3, <2>1 DEF TypeInv, Retried
<1> QED BY <1>2, <1>4, <1>5 DEF Retried

\* A status or a runner status is written with its time.
LEMMA Stamped ==
    ASSUME TypeOK, NEW n \in Names, NEW s,
           \/ s \in Statuses /\ (ForceStatus(n, s) \/ UpdateStatus(n, s))
           \/ UNCHANGED <<row, age>>
    PROVE  /\ row' \in [Names -> Statuses \cup {"none"}] /\ age' \in [Names -> 0..2]
           /\ s # "pending_create" =>
                \A m \in Names : row'[m] = "pending_create" => row[m] = "pending_create"
BY DEF TypeOK, ForceStatus, UpdateStatus

\* A row goes.
LEMMA Dropped ==
    ASSUME TypeOK, NEW n \in Names, DropRow(n)
    PROVE  /\ row' \in [Names -> Statuses \cup {"none"}] /\ rs' \in [Names -> RunnerStatuses]
           /\ attempt' \in [Names -> 0..MaxCreateAttempts] /\ age' \in [Names -> 0..2]
           /\ ripe' \subseteq Names
           /\ \A m \in Names : row'[m] = "pending_create" => row[m] = "pending_create"
BY GarmPoolAssumption DEF TypeOK, DropRow, RunnerStatuses

\* What a goroutine writes about itself.
LEMMA GotoFits ==
    ASSUME TypeInv, NEW g \in gor, NEW pc, NEW st, g.kind # "add",
           \/ Goto(g, pc, st)
           \/ EndUnlock(g)
           \/ gor' = gor \ {g},
           g.kind = "create" /\ pc = "record" => st \in {"running", "error"},
           g.kind = "delete" => st \in Doomed
    PROVE  \A h \in gor' : Fits(h)
BY DEF Goto, EndUnlock, Goroutine, Fits

\* The creation of a machine.
LEMMA CreateTypes ==
    ASSUME BusyInv, BusyInv', TypeInv, NEW g \in gor,
           CreateCall(g) \/ CreateRecord(g) \/ CreateCleanup(g) \/ CreateFail(g)
    PROVE  TypeInv'
<1>1. /\ g.n \in Names /\ g.kind = "create"
      /\ \A h \in gor' : h.n \in Names
  BY DEF BusyInv, MachineInv, LockInv, Typed, CreateCall, CreateRecord, CreateCleanup, CreateFail
<1>2. /\ row' \in [Names -> Statuses \cup {"none"}] /\ age' \in [Names -> 0..2]
      /\ \A m \in Names : row'[m] = "pending_create" => row[m] = "pending_create"
  <2>1. CASE CreateRecord(g)
    <3>1. g.st \in {"running", "error"}
      BY <2>1 DEF CreateRecord, TypeInv, Workers
    <3> QED BY <1>1, <2>1, <3>1, Stamped DEF CreateRecord, Statuses, TypeInv
  <2>2. CASE CreateFail(g)
    BY <1>1, <2>2, Stamped DEF CreateFail, Statuses, TypeInv
  <2>3. CASE CreateCall(g) \/ CreateCleanup(g)
    BY <2>3 DEF CreateCall, CreateCleanup, db, TypeInv, TypeOK
  <2> QED BY <2>1, <2>2, <2>3
<1>3. vm' \in [Names -> {"none", "running", "stopped"}] /\ locks' \subseteq Names
  BY <1>1 DEF CreateCall, CreateRecord, CreateCleanup, CreateFail, EndUnlock, world, TypeInv, TypeOK
<1>4. /\ UNCHANGED <<rs, attempt, ripe, gh, hooks, fresh, minIdle, phase, running, backoff, list, need>>
  BY DEF CreateCall, CreateRecord, CreateCleanup, CreateFail, db, world, mgr, hist
<1>5. TypeOK'
  BY <1>1, <1>2, <1>3, <1>4 DEF TypeInv, TypeOK
<1>6. \A h \in gor' : Fits(h)
  BY <1>1, GotoFits DEF CreateCall, CreateRecord, CreateCleanup, CreateFail
<1> QED BY <1>2, <1>4, <1>5, <1>6, NothingNew DEF TypeInv

\* The retry, which InstanceStatusTransitions refuses.
LEMMA RetryTypes ==
    ASSUME BusyInv, BusyInv', TypeInv, NEW g \in gor, RetryCall(g) \/ RetryRequeue(g)
    PROVE  TypeInv'
<1>1. /\ g.n \in Names /\ g.kind = "retry"
      /\ \A h \in gor' : h.n \in Names
  BY DEF BusyInv, MachineInv, LockInv, Typed, RetryCall, RetryRequeue
<1>2. ~MayBecome(g.n, "pending_create")
  <2>1. row[g.n] # "pending_create" /\ row[g.n] \in Statuses \cup {"none"}
    BY <1>1 DEF TypeInv, TypeOK, Retried
  <2> QED BY <2>1 DEF MayBecome, Statuses, InstanceStatusTransitions
<1>3. vm' \in [Names -> {"none", "running", "stopped"}] /\ locks' \subseteq Names
  BY <1>1 DEF RetryCall, RetryRequeue, EndUnlock, world, TypeInv, TypeOK
<1>4. UNCHANGED <<row, age, rs, attempt, ripe, gh, hooks, fresh, minIdle, phase, running, backoff, list, need>>
  BY <1>2 DEF RetryCall, RetryRequeue, db, world, mgr, hist
<1>5. TypeOK'
  BY <1>1, <1>3, <1>4 DEF TypeInv, TypeOK
<1>6. \A h \in gor' : Fits(h)
  <2>1. \/ Goto(g, "requeue", g.st)
        \/ EndUnlock(g)
    BY DEF RetryCall, RetryRequeue
  <2> QED BY <1>1, <2>1, GotoFits
<1> QED BY <1>4, <1>5, <1>6, NothingNew DEF TypeInv

\* The deletion of an instance.
LEMMA DeleteTypes ==
    ASSUME BusyInv, BusyInv', TypeInv, NEW g \in gor,
           DelMark(g) \/ DelCall(g) \/ DelDrop(g) \/ DelRestore(g)
    PROVE  TypeInv'
<1>1. /\ g.n \in Names /\ g.kind = "delete" /\ g.st \in Doomed
      /\ \A h \in gor' : h.n \in Names
  BY DEF BusyInv, MachineInv, LockInv, Typed, TypeInv, Workers, DelMark, DelCall, DelDrop, DelRestore
<1>2. /\ row' \in [Names -> Statuses \cup {"none"}] /\ age' \in [Names -> 0..2]
      /\ rs' \in [Names -> RunnerStatuses] /\ attempt' \in [Names -> 0..MaxCreateAttempts]
      /\ ripe' \subseteq Names
      /\ \A m \in Names : row'[m] = "pending_create" => row[m] = "pending_create"
  <2>1. CASE DelDrop(g)
    BY <1>1, <2>1, Dropped DEF DelDrop, TypeInv
  <2>2. CASE DelMark(g)
    <3>1. UNCHANGED <<rs, attempt, ripe>> /\ ForceStatus(g.n, "deleting")
      BY <2>2 DEF DelMark
    <3>2. "deleting" \in Statuses
      BY DEF Statuses
    <3> QED BY <1>1, <3>1, <3>2, Stamped DEF TypeInv, TypeOK
  <2>3. CASE DelRestore(g)
    <3>1. UNCHANGED <<rs, attempt, ripe>> /\ ForceStatus(g.n, g.st)
      BY <2>3 DEF DelRestore
    <3>2. g.st \in Statuses /\ g.st # "pending_create"
      BY <1>1 DEF Statuses, Doomed
    <3> QED BY <1>1, <3>1, <3>2, Stamped DEF TypeInv, TypeOK
  <2>4. CASE DelCall(g)
    BY <2>4 DEF DelCall, db, TypeInv, TypeOK
  <2> QED BY <2>1, <2>2, <2>3, <2>4
<1>3. /\ vm' \in [Names -> {"none", "running", "stopped"}]
      /\ locks' \subseteq Names /\ backoff' \subseteq Names
  BY <1>1 DEF DelMark, DelCall, DelDrop, DelRestore, EndUnlock, world, mgr, TypeInv, TypeOK
<1>4. UNCHANGED <<gh, hooks, fresh, minIdle, phase, running, list, need>>
  BY DEF DelMark, DelCall, DelDrop, DelRestore, world, mgr, hist
<1>5. TypeOK'
  BY <1>1, <1>2, <1>3, <1>4 DEF TypeInv, TypeOK
<1>6. \A h \in gor' : Fits(h)
  BY <1>1, GotoFits DEF DelMark, DelCall, DelDrop, DelRestore
<1> QED BY <1>2, <1>4, <1>5, <1>6, NothingNew DEF TypeInv

\* What the clean-up removes or starts, and what marks a finished runner.
LEMMA OtherTypes ==
    ASSUME BusyInv, BusyInv', TypeInv, NEW g \in gor,
           OrphanRemove(g) \/ OrphanDrop(g) \/ OrphanStart(g) \/ CompletedMark(g) \/ AgentMark(g)
    PROVE  TypeInv'
<1>1. /\ g.n \in Names /\ g.kind \in {"orphan", "completed", "agent"}
      /\ \A h \in gor' : h.n \in Names
  BY DEF BusyInv, MachineInv, LockInv, Typed, OrphanRemove, OrphanDrop, OrphanStart, CompletedMark, AgentMark
<1>2. /\ row' \in [Names -> Statuses \cup {"none"}] /\ age' \in [Names -> 0..2]
      /\ rs' \in [Names -> RunnerStatuses] /\ attempt' \in [Names -> 0..MaxCreateAttempts]
      /\ ripe' \subseteq Names
      /\ \A m \in Names : row'[m] = "pending_create" => row[m] = "pending_create"
  <2>1. CASE OrphanDrop(g)
    BY <1>1, <2>1, Dropped DEF OrphanDrop, TypeInv
  <2>2. CASE CompletedMark(g) \/ AgentMark(g)
    <3>1. /\ UNCHANGED <<rs, attempt, ripe>>
          /\ ForceStatus(g.n, "pending_delete") \/ UpdateStatus(g.n, "pending_delete")
      BY <2>2 DEF CompletedMark, AgentMark
    <3>2. "pending_delete" \in Statuses
      BY DEF Statuses
    <3> QED BY <1>1, <3>1, <3>2, Stamped DEF TypeInv, TypeOK
  <2>3. CASE OrphanRemove(g) \/ OrphanStart(g)
    BY <2>3 DEF OrphanRemove, OrphanStart, db, TypeInv, TypeOK
  <2> QED BY <2>1, <2>2, <2>3
<1>3. /\ vm' \in [Names -> {"none", "running", "stopped"}]
      /\ gh' \in [Names -> {"none", "offline", "online", "busy"}]
  BY DEF BusyInv, MachineInv, Lists, NewNames
<1>4. locks' \subseteq Names
  BY <1>1 DEF OrphanRemove, OrphanDrop, OrphanStart, CompletedMark, AgentMark, EndUnlock, TypeInv, TypeOK
<1>5. UNCHANGED <<hooks, fresh, minIdle, phase, running, backoff, list, need>>
  BY DEF OrphanRemove, OrphanDrop, OrphanStart, CompletedMark, AgentMark, world, mgr, hist
<1>6. TypeOK'
  BY <1>1, <1>2, <1>3, <1>4, <1>5 DEF TypeInv, TypeOK
<1>7. \A h \in gor' : Fits(h)
  <2>1. \/ Goto(g, "drop", g.st)
        \/ EndUnlock(g)
        \/ gor' = gor \ {g}
    BY DEF OrphanRemove, OrphanDrop, OrphanStart, CompletedMark, AgentMark
  <2> QED BY <1>1, <2>1, GotoFits
<1> QED BY <1>2, <1>5, <1>6, <1>7, NothingNew DEF TypeInv

\* A row is added for a name that was never retried.
LEMMA InsertTypes ==
    ASSUME BusyInv, BusyInv', TypeInv, NEW g \in gor, CreateInstance(g)
    PROVE  TypeInv'
<1>1. /\ g.n \in Names /\ g.kind = "add" /\ g.st \in Adders /\ gor' = gor \ {g}
      /\ \A h \in gor : h.n \in Names
      /\ UNCHANGED <<rs, attempt, age, ripe, hooks, fresh, minIdle, phase, running, backoff, list, locks>>
  BY DEF BusyInv, MachineInv, LockInv, Typed, TypeInv, Workers, CreateInstance, hist
<1>2. /\ vm' \in [Names -> {"none", "running", "stopped"}]
      /\ gh' \in [Names -> {"none", "offline", "online", "busy"}]
  BY DEF BusyInv, MachineInv, Lists, NewNames
<1>3. /\ row' \in [Names -> Statuses \cup {"none"}]
      /\ \A m \in Names : row'[m] = "pending_create" => row[m] = "pending_create" \/ m = g.n
  BY <1>1 DEF CreateInstance, TypeInv, TypeOK, Statuses
<1>4. need' \in [Adders -> 0..MaxRunners]
  BY <1>1, GarmPoolAssumption DEF CreateInstance, TypeInv, TypeOK
<1>5. TypeOK'
  BY <1>1, <1>2, <1>3, <1>4 DEF TypeInv, TypeOK
<1>6. Workers'
  BY <1>1 DEF TypeInv, Workers
<1>7. \A m \in Names : NotNew(m) => NotNew(m)' /\ m # g.n
  BY <1>1 DEF NotNew
<1>8. Retried'
  BY <1>1, <1>3, <1>7 DEF TypeInv, Retried
<1> QED BY <1>5, <1>6, <1>8 DEF TypeInv

\* One entry of a listing is done with.
LEMMA DropShrinks ==
    ASSUME BusyInv, NEW l \in Loops, NEW n, Drop(l, n)
    PROVE  \A m \in Loops : list'[m] \subseteq list[m]
BY DEF BusyInv, MachineInv, Lists, Drop

\* A listing of another loop says nothing of retries.
LEMMA ListingKeeps ==
    ASSUME BusyInv, NEW l \in Loops, NEW E, Listing(l, E), l # "retry"
    PROVE  list'["retry"] \subseteq list["retry"]
BY DEF BusyInv, MachineInv, Lists, Listing, Loops

\* A goroutine that neither retries nor adds starts.
LEMMA SpawnFits ==
    ASSUME NEW k, NEW n, NEW pc, NEW st, Spawn(Goroutine(k, n, pc, st)), k \notin {"add", "retry"},
           k = "create" => pc # "record", k = "delete" => st \in Doomed
    PROVE  \A h \in gor' : Fits(h)
BY DEF Spawn, Goroutine, Fits

\* The loops that create and delete.
LEMMA AddDelTypes ==
    ASSUME BusyInv, BusyInv', TypeInv, AddLoop \/ DelLoop
    PROVE  TypeInv'
<1>1. /\ UNCHANGED <<rs, attempt, ripe, vm, gh, hooks, fresh, minIdle, phase, running, backoff, need>>
      /\ "add" \in Loops /\ "delete" \in Loops /\ "retry" \in Loops
  BY DEF AddLoop, DelLoop, AddList, AddPending, DelList, DelPending, db, world, hist, Loops
<1>2. \A h \in gor' : h.n \in Names
  BY DEF BusyInv, MachineInv, LockInv, Typed
<1>3. /\ row' \in [Names -> Statuses \cup {"none"}] /\ age' \in [Names -> 0..2]
      /\ \A m \in Names : row'[m] = "pending_create" => row[m] = "pending_create"
  <2>1. ASSUME NEW n \in Names, AddPending(n)
        PROVE  ForceStatus(n, "creating") \/ UNCHANGED <<row, age>>
    BY <2>1 DEF AddPending
  <2>2. UNCHANGED <<row, age>> \/ \E n \in Names : ForceStatus(n, "creating")
    BY <2>1 DEF AddLoop, DelLoop, AddList, DelList, DelPending, db
  <2>3. "creating" \in Statuses
    BY DEF Statuses
  <2>4. CASE UNCHANGED <<row, age>>
    BY <2>4 DEF TypeInv, TypeOK
  <2> QED BY <2>2, <2>3, <2>4, Stamped DEF TypeInv
<1>4. locks' \subseteq Names
  BY DEF AddLoop, DelLoop, AddList, AddPending, DelList, DelPending, TypeInv, TypeOK
<1>5. TypeOK'
  BY <1>1, <1>2, <1>3, <1>4 DEF TypeInv, TypeOK
<1>6. list'["retry"] \subseteq list["retry"]
  BY <1>1, DropShrinks, ListingKeeps DEF AddLoop, DelLoop, AddList, AddPending, DelList, DelPending
<1>7. \A h \in gor' : Fits(h)
  <2>1. CASE AddList \/ DelList
    BY <2>1 DEF AddList, DelList, Fits
  <2>2. ASSUME NEW n \in Names, AddPending(n) PROVE \A h \in gor' : Fits(h)
    <3>1. gor' = gor \/ Spawn(Goroutine("create", n, "call", "creating"))
      BY <2>2 DEF AddPending
    <3>2. CASE gor' = gor
      BY <3>2 DEF Fits
    <3> QED BY <3>1, <3>2, SpawnFits
  <2>3. ASSUME NEW n \in Names, NEW st \in Doomed, DelPending(n, st) PROVE \A h \in gor' : Fits(h)
    <3>1. gor' = gor \/ Spawn(Goroutine("delete", n, "mark", st))
      BY <2>3 DEF DelPending
    <3>2. CASE gor' = gor
      BY <3>2 DEF Fits
    <3> QED BY <3>1, <3>2, SpawnFits
  <2> QED BY <2>1, <2>2, <2>3 DEF AddLoop, DelLoop
<1> QED BY <1>1, <1>3, <1>5, <1>6, <1>7, NothingNew DEF TypeInv

\* The retry loop lists what has failed, which is no new name.
LEMMA RetryLoopTypes ==
    ASSUME BusyInv, BusyInv', TypeInv, RetryLoop
    PROVE  TypeInv'
<1>1. /\ UNCHANGED <<row, age, rs, attempt, ripe, vm, gh, hooks, fresh, minIdle, phase, running, backoff, need>>
      /\ "retry" \in Loops
  BY DEF RetryLoop, RetryList, RetryOne, db, world, hist, Loops
<1>2. /\ \A h \in gor' : h.n \in Names
      /\ \A h \in gor : h.n \in Names
  BY DEF BusyInv, MachineInv, LockInv, Typed
<1>3. locks' \subseteq Names
  BY DEF RetryLoop, RetryList, RetryOne, TypeInv, TypeOK
<1>4. TypeOK'
  BY <1>1, <1>2, <1>3 DEF TypeInv, TypeOK
<1>5. /\ \A h \in gor' : h \in gor \/ (h.kind = "retry" /\ <<h.n>> \in list["retry"])
      /\ gor \subseteq gor'
  <2>1. CASE RetryList
    BY <2>1 DEF RetryList
  <2>2. ASSUME NEW n \in Names, RetryOne(n)
        PROVE  /\ \A h \in gor' : h \in gor \/ (h.kind = "retry" /\ <<h.n>> \in list["retry"])
               /\ gor \subseteq gor'
    <3> DEFINE w == Goroutine("retry", n, "call", "error")
    <3>1. w.kind = "retry" /\ w.n = n
      BY DEF Goroutine
    <3>2. <<n>> \in list["retry"] /\ (gor' = gor \/ gor' = gor \cup {w})
      BY <2>2 DEF RetryOne, Spawn
    <3> HIDE DEF w
    <3> QED BY <3>1, <3>2
  <2> QED BY <2>1, <2>2 DEF RetryLoop
<1>6. Workers'
  BY <1>5 DEF TypeInv, Workers
<1>7. \A n \in Names : NotNew(n) => NotNew(n)'
  BY <1>1, <1>5 DEF NotNew
<1>8. \A n \in Names : <<n>> \in list'["retry"] => <<n>> \in list["retry"] \/ row[n] = "error"
  <2>1. CASE RetryList
    <3>1. list'["retry"] \subseteq {<<n>> : n \in {m \in Names : row[m] = "error"}}
      BY <1>1, <2>1 DEF RetryList, Listing, BusyInv, MachineInv, Lists
    <3> QED BY <3>1
  <2>2. ASSUME NEW n \in Names, RetryOne(n) PROVE list'["retry"] \subseteq list["retry"]
    BY <1>1, <2>2, DropShrinks DEF RetryOne
  <2> QED BY <2>1, <2>2 DEF RetryLoop
<1>9. \A n \in Names : row[n] = "error" => NotNew(n)
  BY DEF BusyInv, NewNames, NotNew
<1>10. Retried'
  <2>1. \A n \in Names : <<n>> \in list'["retry"] => row'[n] # "pending_create" /\ NotNew(n)'
    BY <1>1, <1>7, <1>8, <1>9 DEF TypeInv, Retried
  <2>2. \A h \in gor' : h.kind = "retry" => row'[h.n] # "pending_create" /\ NotNew(h.n)'
    BY <1>1, <1>2, <1>5, <1>7 DEF TypeInv, Retried
  <2> QED BY <2>1, <2>2 DEF Retried
<1> QED BY <1>4, <1>6, <1>10 DEF TypeInv

\* DeleteRunner writes a status and may stop the manager.
LEMMA DeleteRunnerTypes ==
    ASSUME TypeOK, NEW n \in Names, NEW bypass,
           DeleteRunner(n, bypass) \/ DeleteRunnerDone(n) \/ DeleteRunnerFails(n)
             \/ DeleteRunnerUnauthorized(n, bypass)
    PROVE  /\ row' \in [Names -> Statuses \cup {"none"}] /\ age' \in [Names -> 0..2]
           /\ \A m \in Names : row'[m] = "pending_create" => row[m] = "pending_create"
           /\ running' \in BOOLEAN
<1>1. ForceStatus(n, "pending_delete") \/ UNCHANGED <<row, age>>
  BY DEF DeleteRunner, DeleteRunnerDone, DeleteRunnerFails, DeleteRunnerUnauthorized
<1>2. running' = running \/ running' = FALSE
  BY DEF DeleteRunner, DeleteRunnerDone, DeleteRunnerFails, DeleteRunnerUnauthorized
<1>3. "pending_delete" \in Statuses
  BY DEF Statuses
<1>4. running' \in BOOLEAN
  BY <1>2 DEF TypeOK
<1>5. CASE ForceStatus(n, "pending_delete")
  BY <1>3, <1>4, <1>5, Stamped
<1>6. CASE UNCHANGED <<row, age>>
  BY <1>4, <1>6 DEF TypeOK
<1> QED BY <1>1, <1>5, <1>6

\* The scale-down and the start.
LEMMA ScaleStartTypes ==
    ASSUME BusyInv, BusyInv', TypeInv, ScaleDownLoop \/ Startup
    PROVE  TypeInv'
<1>1. /\ UNCHANGED <<rs, attempt, ripe, vm, hooks, fresh, minIdle, backoff, need, locks, gor>>
      /\ phase' \in {"starting", "loops"}
      /\ "scaledown" \in Loops /\ "start" \in Loops /\ "retry" \in Loops
  BY DEF ScaleDownLoop, Startup, ScaleDownList, ScaleDownOne, StartLoops, UpdateTools, StartOne, db, world,
     hist, Loops, TypeInv, TypeOK
<1>2. gh' \in [Names -> {"none", "offline", "online", "busy"}]
  BY DEF BusyInv, NewNames
<1>3. /\ row' \in [Names -> Statuses \cup {"none"}] /\ age' \in [Names -> 0..2]
      /\ \A m \in Names : row'[m] = "pending_create" => row[m] = "pending_create"
      /\ running' \in BOOLEAN /\ list'["retry"] \subseteq list["retry"]
  <2>1. CASE \E queued \in 0..1 : ScaleDownList(queued)
    <3>1. UNCHANGED <<row, age, running>>
      BY <2>1 DEF ScaleDownList, db
    <3>2. list'["retry"] \subseteq list["retry"]
      BY <1>1, <2>1, ListingKeeps DEF ScaleDownList
    <3> QED BY <3>1, <3>2 DEF TypeInv, TypeOK
  <2>2. ASSUME NEW n \in Names, ScaleDownOne(n) PROVE <1>3!:
    <3>1. list'["retry"] \subseteq list["retry"]
      BY <1>1, <2>2, DropShrinks DEF ScaleDownOne
    <3>2. CASE UNCHANGED <<row, age, running>>
      BY <3>1, <3>2 DEF TypeInv, TypeOK
    <3> QED BY <2>2, <3>1, <3>2, DeleteRunnerTypes DEF ScaleDownOne, TypeInv
  <2>3. CASE StartLoops \/ UpdateTools
    BY <2>3 DEF StartLoops, UpdateTools, db, TypeInv, TypeOK
  <2>4. ASSUME NEW n \in Names, StartOne(n) PROVE <1>3!:
    <3>1. list'["retry"] \subseteq list["retry"]
      BY <1>1, <2>4, DropShrinks DEF StartOne
    <3> QED BY <2>4, <3>1, DeleteRunnerTypes DEF StartOne, TypeInv
  <2> QED BY <2>1, <2>2, <2>3, <2>4 DEF ScaleDownLoop, Startup
<1>4. TypeOK'
  BY <1>1, <1>2, <1>3 DEF TypeInv, TypeOK
<1>5. \A h \in gor' : Fits(h)
  BY <1>1 DEF Fits
<1> QED BY <1>1, <1>3, <1>4, <1>5, NothingNew DEF TypeInv

\* How many runners are missing, at most as many as there is room for.
LEMMA RequiredBounded ==
    ASSUME minIdle \in MinIdles, NEW r
    PROVE  RequiredFor(r) \in 0..MaxRunners
<1>1. MaxRunners \in Nat /\ minIdle \in Nat
  BY GarmPoolAssumption
<1> DEFINE S == {n \in Rows : r[n] \notin {"active", "terminated"}}
<1>2. IsFiniteSet(Rows) /\ IsFiniteSet(S)
  BY GarmPoolAssumption, FS_Subset DEF Rows
<1>3. Cardinality(Rows) \in Nat /\ Cardinality(S) \in Nat
  BY <1>2, FS_CardinalityType
<1> QED BY <1>1, <1>3 DEF RequiredFor

\* Runners are added under names that were never used.
LEMMA IdleTypes ==
    ASSUME BusyInv, BusyInv', TypeInv, IdleLoop
    PROVE  TypeInv'
<1>1. /\ UNCHANGED <<row, age, rs, attempt, ripe, vm, hooks, minIdle, phase, running, backoff, locks, list>>
      /\ "loop" \in Adders
  BY DEF IdleLoop, EnsureMinIdle, AddRunnerRefused, AddRunner, db, world, hist, Adders
<1>2. /\ gh' \in [Names -> {"none", "offline", "online", "busy"}]
      /\ \A h \in gor' : h.n \in Names
      /\ \A h \in gor : h.n \in Names
  BY DEF BusyInv, MachineInv, LockInv, Typed, NewNames
<1>3. need' \in [Adders -> 0..MaxRunners]
  <2>1. CASE EnsureMinIdle
    BY <2>1, RequiredBounded DEF EnsureMinIdle, TypeInv, TypeOK
  <2>2. ASSUME NEW c \in Adders, AddRunnerRefused(c) PROVE need' \in [Adders -> 0..MaxRunners]
    BY <2>2, GarmPoolAssumption DEF AddRunnerRefused, TypeInv, TypeOK
  <2>3. ASSUME NEW c \in Adders, NEW n \in Names, AddRunner(c, n) PROVE need' \in [Adders -> 0..MaxRunners]
    <3>1. c # "job" => need[c] > 0
      BY <2>3 DEF AddRunner
    <3>2. need[c] \in 0..MaxRunners /\ MaxRunners \in Nat
      BY GarmPoolAssumption DEF TypeInv, TypeOK
    <3>3. IF c = "job" THEN TRUE ELSE need[c] - 1 \in 0..MaxRunners
      BY <3>1, <3>2
    <3> QED BY <2>3, <3>2, <3>3 DEF AddRunner, TypeInv, TypeOK
  <2> QED BY <1>1, <2>1, <2>2, <2>3 DEF IdleLoop
<1>4. TypeOK'
  BY <1>1, <1>2, <1>3 DEF TypeInv, TypeOK
<1>5. CASE UNCHANGED <<gor, fresh>>
  <2>1. \A h \in gor' : Fits(h)
    BY <1>5 DEF Fits
  <2> QED BY <1>1, <1>4, <1>5, <2>1, NothingNew DEF TypeInv
<1>6. ASSUME NEW c \in Adders, NEW n \in Names, AddRunner(c, n) PROVE TypeInv'
  <2> DEFINE w == Goroutine("add", n, "insert", c)
  <2>1. w.kind = "add" /\ w.n = n /\ w.st = c
    BY DEF Goroutine
  <2>2. gor' = gor \cup {w} /\ fresh' = fresh \ {n} /\ n \in fresh
    BY <1>6 DEF AddRunner, NextName, Spawn
  <2> HIDE DEF w
  <2>3. Workers'
    BY <2>1, <2>2 DEF TypeInv, Workers
  <2>4. \A m \in Names : NotNew(m) => NotNew(m)'
    BY <2>1, <2>2 DEF NotNew
  <2>5. Retried'
    BY <1>1, <1>2, <2>1, <2>2, <2>4 DEF TypeInv, Retried
  <2> QED BY <1>4, <2>3, <2>5 DEF TypeInv
<1> QED BY <1>5, <1>6 DEF IdleLoop, EnsureMinIdle, AddRunnerRefused, hist

\* The clean-up of what GitHub and the provider do not know.
LEMMA CleanupTypes ==
    ASSUME BusyInv, BusyInv', TypeInv, RunnerCleanup
    PROVE  TypeInv'
<1>1. /\ UNCHANGED <<rs, attempt, ripe, vm, hooks, fresh, minIdle, phase, backoff, need>>
      /\ {"reap", "provider", "github", "retry"} \subseteq Loops
  BY DEF RunnerCleanup, ListGithub, ReapList, ProviderList, GithubList, CleanupEnd, ReapOne, ProviderOne,
     GithubCheck, GithubLock, db, world, hist, Loops
<1>2. /\ gh' \in [Names -> {"none", "offline", "online", "busy"}]
      /\ \A h \in gor' : h.n \in Names
      /\ list \in [Loops -> SUBSET Entries]
  BY DEF BusyInv, MachineInv, LockInv, Typed, NewNames, Lists
<1>3. list'["retry"] \subseteq list["retry"]
  <2>1. ASSUME NEW n \in Names, ReapOne(n) PROVE list'["retry"] \subseteq list["retry"]
    <3>1. Drop("reap", n) \/ Abort
      BY <2>1 DEF ReapOne
    <3>2. CASE Drop("reap", n)
      BY <1>1, <3>2, DropShrinks
    <3>3. CASE Abort
      BY <1>1, <1>2, <3>3 DEF Abort
    <3> QED BY <3>1, <3>2, <3>3
  <2>2. ASSUME NEW n \in Names, ProviderOne(n) \/ GithubLock(n) PROVE list'["retry"] \subseteq list["retry"]
    BY <1>1, <2>2, DropShrinks DEF ProviderOne, GithubLock
  <2>3. ASSUME NEW n \in Names, GithubCheck(n) PROVE list'["retry"] \subseteq list["retry"]
    <3>1. \/ Drop("github", n)
          \/ Abort
          \/ list' = [list EXCEPT !["github"] = (@ \ {<<n>>}) \cup {<<n, "checked">>}]
      BY <2>3 DEF GithubCheck
    <3>2. CASE Drop("github", n)
      BY <1>1, <3>2, DropShrinks
    <3>3. CASE Abort
      BY <1>1, <1>2, <3>3 DEF Abort
    <3>4. CASE list' = [list EXCEPT !["github"] = (@ \ {<<n>>}) \cup {<<n, "checked">>}]
      BY <1>1, <1>2, <3>4
    <3> QED BY <3>1, <3>2, <3>3, <3>4
  <2>4. CASE ListGithub \/ ReapList \/ ProviderList \/ GithubList \/ CleanupEnd
    BY <1>1, <1>2, <2>4 DEF ListGithub, ReapList, ProviderList, GithubList, CleanupEnd
  <2> QED BY <2>1, <2>2, <2>3, <2>4 DEF RunnerCleanup
<1>4. /\ row' \in [Names -> Statuses \cup {"none"}] /\ age' \in [Names -> 0..2]
      /\ \A m \in Names : row'[m] = "pending_create" => row[m] = "pending_create"
      /\ running' \in BOOLEAN
  <2>1. CASE UNCHANGED <<row, age, running>>
    BY <2>1 DEF TypeInv, TypeOK
  <2>2. ASSUME NEW n \in Names, ReapOne(n) PROVE <1>4!:
    BY <2>1, <2>2, DeleteRunnerTypes DEF ReapOne, TypeInv
  <2>3. ASSUME NEW n \in Names, ProviderOne(n) PROVE <1>4!:
    <3>1. UNCHANGED running /\ (ForceStatus(n, "pending_delete") \/ UNCHANGED <<row, age>>)
      BY <2>3 DEF ProviderOne
    <3>2. "pending_delete" \in Statuses
      BY DEF Statuses
    <3> QED BY <2>1, <3>1, <3>2, Stamped DEF TypeInv, TypeOK
  <2> QED BY <2>1, <2>2, <2>3
          DEF RunnerCleanup, ListGithub, ReapList, ProviderList, GithubList, CleanupEnd, GithubCheck, GithubLock, db
<1>5. locks' \subseteq Names /\ \A h \in gor' : Fits(h)
  <2>1. CASE UNCHANGED <<locks, gor>>
    BY <2>1 DEF Fits, TypeInv, TypeOK
  <2>2. ASSUME NEW n \in Names, GithubLock(n) PROVE <1>5!:
    <3>1. CASE locks' = locks \cup {n} /\ \E pc : Spawn(Goroutine("orphan", n, pc, "offline"))
      BY <3>1, SpawnFits DEF TypeInv, TypeOK
    <3> QED BY <2>1, <2>2, <3>1 DEF GithubLock
  <2> QED BY <2>1, <2>2
          DEF RunnerCleanup, ListGithub, ReapList, ProviderList, GithubList, CleanupEnd, ReapOne, ProviderOne, GithubCheck
<1>6. TypeOK'
  BY <1>1, <1>2, <1>4, <1>5 DEF TypeInv, TypeOK
<1> QED BY <1>1, <1>3, <1>4, <1>5, <1>6, NothingNew DEF TypeInv

\* Webhooks, callbacks, the administrator, the machines and time.
LEMMA EnvironmentTypes ==
    ASSUME BusyInv, BusyInv', TypeInv, ~Crash,
           \/ Environment
           \/ \E n \in Names : Age(n) \/ BackoffOver(n)
    PROVE  TypeInv'
<1>1. /\ UNCHANGED <<attempt, phase, running, list, fresh, locks>>
      /\ vm' \in [Names -> {"none", "running", "stopped"}]
      /\ gh' \in [Names -> {"none", "offline", "online", "busy"}]
      /\ \A h \in gor' : h.n \in Names
  <2>1. UNCHANGED <<attempt, phase, running, list, fresh, locks>>
    BY DEF Environment, Age, BackoffOver, HookInProgress, HookCompleted, AgentTerminated, Callback,
       ApiDelete, RunnerOnline, JobStart, JobDone, VmFault, LoseHook, UpdatePool, db, mgr, hist
  <2> QED BY <2>1 DEF BusyInv, MachineInv, LockInv, Typed, Lists, NewNames
<1>2. /\ row' \in [Names -> Statuses \cup {"none"}]
      /\ \A m \in Names : row'[m] = "pending_create" => row[m] = "pending_create"
  <2>1. CASE UNCHANGED row
    BY <2>1 DEF TypeInv, TypeOK
  <2>2. ASSUME NEW n \in Names, NEW force \in BOOLEAN, NEW bypass \in BOOLEAN, ApiDelete(n, force, bypass)
        PROVE <1>2!:
    <3>1. UpdateStatus(n, "pending_force_delete") \/ UpdateStatus(n, "pending_delete")
      BY <2>2 DEF ApiDelete
    <3>2. {"pending_delete", "pending_force_delete"} \subseteq Statuses
      BY DEF Statuses
    <3> QED BY <3>1, <3>2, Stamped DEF TypeInv
  <2> QED BY <2>1, <2>2
          DEF Environment, Age, BackoffOver, HookInProgress, HookCompleted, AgentTerminated, Callback,
              RunnerOnline, JobStart, JobDone, VmFault, LoseHook, UpdatePool, db
<1>3. /\ rs' \in [Names -> RunnerStatuses] /\ age' \in [Names -> 0..2] /\ ripe' \subseteq Names
  <2>1. CASE UNCHANGED <<rs, age, ripe>>
    BY <2>1 DEF TypeInv, TypeOK
  <2>2. ASSUME NEW n \in Names, NEW s \in RunnerStatuses, ForceRunner(n, s), UNCHANGED ripe PROVE <1>3!:
    BY <2>2 DEF ForceRunner, TypeInv, TypeOK
  <2>3. {"active", "terminated", "installing", "idle", "failed"} \subseteq RunnerStatuses
    BY DEF RunnerStatuses
  <2>4. ASSUME NEW n \in Names, HookInProgress(n) \/ HookCompleted(n) \/ AgentTerminated(n) PROVE <1>3!:
    BY <2>1, <2>2, <2>3, <2>4 DEF HookInProgress, HookCompleted, AgentTerminated
  <2>5. ASSUME NEW n \in Names, NEW s \in {"installing", "idle", "failed"}, Callback(n, s) PROVE <1>3!:
    BY <2>2, <2>3, <2>5 DEF Callback
  <2>6. ASSUME NEW n \in Names, NEW force \in BOOLEAN, NEW bypass \in BOOLEAN, ApiDelete(n, force, bypass)
        PROVE <1>3!:
    <3>1. /\ UNCHANGED <<rs, ripe>>
          /\ UpdateStatus(n, "pending_force_delete") \/ UpdateStatus(n, "pending_delete")
      BY <2>6 DEF ApiDelete
    <3>2. {"pending_delete", "pending_force_delete"} \subseteq Statuses
      BY DEF Statuses
    <3>3. age' \in [Names -> 0..2]
      BY <3>1, <3>2, Stamped DEF TypeInv
    <3> QED BY <3>1, <3>3 DEF TypeInv, TypeOK
  <2>7. ASSUME NEW n \in Names, Age(n) PROVE <1>3!:
    BY <2>7 DEF Age, TypeInv, TypeOK
  <2> QED BY <2>1, <2>4, <2>5, <2>6, <2>7
          DEF Environment, BackoffOver, RunnerOnline, JobStart, JobDone, VmFault, LoseHook, UpdatePool, db
<1>4. hooks' \subseteq {"in_progress", "completed"} \X Names
  <2>1. \/ hooks' \subseteq hooks
        \/ \E n \in Names, k \in {"in_progress", "completed"} : hooks' = hooks \cup {<<k, n>>}
    <3>1. ASSUME NEW n \in Names, JobStart(n) \/ JobDone(n)
          PROVE  \E k \in {"in_progress", "completed"} : hooks' = hooks \cup {<<k, n>>}
      BY <3>1 DEF JobStart, JobDone
    <3>2. CASE \E n \in Names : JobStart(n) \/ JobDone(n)
      BY <3>1, <3>2
    <3>3. CASE ~\E n \in Names : JobStart(n) \/ JobDone(n)
      <4>1. hooks' \subseteq hooks
        BY <3>3 DEF Environment, Age, BackoffOver, HookInProgress, HookCompleted, AgentTerminated, Callback,
           ApiDelete, RunnerOnline, VmFault, LoseHook, UpdatePool, world
      <4> QED BY <4>1
    <3> QED BY <3>2, <3>3
  <2> QED BY <2>1 DEF TypeInv, TypeOK
<1>5. backoff' \subseteq Names /\ minIdle' \in MinIdles
  BY DEF Environment, Age, BackoffOver, HookInProgress, HookCompleted, AgentTerminated, Callback,
     ApiDelete, RunnerOnline, JobStart, JobDone, VmFault, LoseHook, UpdatePool, mgr, TypeInv, TypeOK
<1>6. need' \in [Adders -> 0..MaxRunners]
  <2>1. CASE UNCHANGED need
    BY <2>1 DEF TypeInv, TypeOK
  <2>2. ASSUME NEW n \in Names, HookInProgress(n) PROVE need' \in [Adders -> 0..MaxRunners]
    <3>1. RequiredFor(rs') \in 0..MaxRunners /\ 0 \in 0..MaxRunners
      BY RequiredBounded, GarmPoolAssumption DEF TypeInv, TypeOK
    <3>2. need' = need \/ \E k \in 0..MaxRunners : need' = [need EXCEPT !["hook"] = k]
      BY <2>2, <3>1 DEF HookInProgress
    <3> QED BY <3>2 DEF TypeInv, TypeOK
  <2> QED BY <2>1, <2>2
          DEF Environment, Age, BackoffOver, HookCompleted, AgentTerminated, Callback,
              ApiDelete, RunnerOnline, JobStart, JobDone, VmFault, LoseHook, UpdatePool, mgr
<1>7. TypeOK'
  BY <1>1, <1>2, <1>3, <1>4, <1>5, <1>6 DEF TypeInv, TypeOK
<1>8. \A h \in gor' : Fits(h)
  <2>1. CASE UNCHANGED gor
    BY <2>1 DEF Fits
  <2>2. ASSUME NEW n \in Names, HookCompleted(n) \/ AgentTerminated(n) PROVE \A h \in gor' : Fits(h)
    <3>1. \/ UNCHANGED gor
          \/ Spawn(Goroutine("completed", n, "mark", "terminated"))
          \/ Spawn(Goroutine("agent", n, "mark", "terminated"))
      BY <2>2 DEF HookCompleted, AgentTerminated
    <3> QED BY <2>1, <3>1, SpawnFits
  <2> QED BY <2>1, <2>2
          DEF Environment, Age, BackoffOver, HookInProgress, Callback, ApiDelete, RunnerOnline,
              JobStart, JobDone, VmFault, LoseHook, UpdatePool
<1> QED BY <1>1, <1>2, <1>7, <1>8, NothingNew DEF TypeInv

\* The restart forgets every goroutine and listing.
LEMMA CrashTypes ==
    ASSUME BusyInv, TypeInv, Crash
    PROVE  TypeInv'
<1>1. /\ UNCHANGED <<row, rs, attempt, age, ripe, vm, gh, hooks, minIdle, fresh>>
      /\ phase' = "starting" /\ running' = FALSE /\ locks' = {} /\ backoff' = {} /\ gor' = {}
      /\ need' = [c \in Adders |-> 0]
  BY DEF Crash, db, world
<1>2. list'["retry"] = {}
  BY DEF Crash, Loops
<1>3. need' \in [Adders -> 0..MaxRunners]
  BY <1>1, GarmPoolAssumption
<1>4. TypeOK'
  BY <1>1, <1>3 DEF TypeInv, TypeOK
<1> QED BY <1>1, <1>2, <1>4 DEF TypeInv, Workers, Retried

\* Every row, list and counter keeps its type, whatever the loops interleave.  The
\* count of creation attempts stays within maxCreateAttempts because no failed creation
\* is ever tried again: the retry goes through a status update that
\* InstanceStatusTransitions refuses.
THEOREM PoolTypeCorrect == Spec => []TypeOK
<1> DEFINE Inv == BusyInv /\ faults \in Nat /\ TypeInv
<1>1. Init => Inv
  <2> SUFFICES ASSUME Init PROVE Inv
    OBVIOUS
  <2>1. TypeOK
    <3>1. attempt \in [Names -> 0..MaxCreateAttempts] /\ need \in [Adders -> 0..MaxRunners]
      BY GarmPoolAssumption DEF Init
    <3>2. row \in [Names -> Statuses \cup {"none"}] /\ rs \in [Names -> RunnerStatuses] /\ age \in [Names -> 0..2]
      BY DEF Init, RunnerStatuses
    <3> QED BY <3>1, <3>2 DEF Init, TypeOK
  <2>2. Workers /\ Retried
    BY DEF Init, Workers, Retried, Loops
  <2> QED BY <2>1, <2>2, BusyInit DEF Init, TypeInv
<1>2. Inv /\ [Next]_vars => Inv'
  <2> SUFFICES ASSUME Inv, [Next]_vars PROVE Inv'
    OBVIOUS
  <2>1. BusyInv' /\ faults' \in Nat
    BY BusyStep
  <2>2. CASE UNCHANGED vars
    <3>1. TypeOK'
      BY <2>2 DEF vars, db, world, mgr, TypeInv, TypeOK
    <3>2. Workers' /\ Retried'
      BY <2>2 DEF vars, db, mgr, hist, TypeInv, Workers, Retried, NotNew
    <3> QED BY <2>1, <3>1, <3>2 DEF TypeInv
  <2>3. ASSUME NEW g \in gor, GorStep(g) PROVE TypeInv'
    BY <2>1, <2>3, InsertTypes, CreateTypes, RetryTypes, DeleteTypes, OtherTypes DEF GorStep
  <2>4. CASE Crash
    BY <2>1, <2>4, CrashTypes
  <2> QED BY <2>1, <2>2, <2>3, <2>4, AddDelTypes, RetryLoopTypes, ScaleStartTypes, IdleTypes, CleanupTypes,
             EnvironmentTypes DEF Next
<1>3. Inv => TypeOK
  BY DEF TypeInv
<1> QED BY <1>1, <1>2, <1>3, PTL DEF Spec
=============================================================================
