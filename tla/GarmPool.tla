------------------------------ MODULE GarmPool ------------------------------
(***************************************************************************)
(* One pool of garm (ci/runners/garm/runner/pool): the life of its runner  *)
(* instances across the database rows, the machines of the provider, the   *)
(* runners registered in GitHub, the per-name locks (locking) and the      *)
(* loops and goroutines of basePoolManager.                                *)
(*                                                                         *)
(* A loop lists rows once and then works from that list, which may be      *)
(* stale; only the part of the list its filters keep is remembered.  A     *)
(* step is one database transaction, or one call of the provider or of     *)
(* GitHub, with the lock operation next to it.  Times are ages: 0 since    *)
(* less than 5 minutes, 1 since less than the bootstrap timeout, 2 longer. *)
(*                                                                         *)
(* Simplifications: runners use JIT configuration, so GitHub knows a       *)
(* runner before its row exists; the locks that the reaper and the         *)
(* scale-down keep to the end of their function are released when they     *)
(* are done with the instance; a provider call dies with the process;      *)
(* ProviderID and name denote the same machine.                            *)
(***************************************************************************)
EXTENDS Integers, FiniteSets, FiniteSetsExt

CONSTANTS
    Names,              \* runner names, each used once (bound on instances)
    MaxRunners,         \* Pool.MaxRunners
    MinIdles,           \* the values Pool.MinIdleRunners takes
    MaxCreateAttempts,  \* maxCreateAttempts (5)
    MaxPasses,          \* bound: passes of loops in progress at once
    FaultKinds,         \* what may go wrong
    MaxFaults           \* bound: how often something goes wrong

AllFaults == {"create", "delete", "github", "list", "unauthorized", "vm", "crash", "lose"}

ASSUME GarmPoolAssumption ==
    /\ IsFiniteSet(Names)
    /\ MaxRunners \in Nat /\ MinIdles \subseteq 0..MaxRunners /\ MaxCreateAttempts \in Nat
    /\ MaxPasses \in Nat \ {0} /\ MaxFaults \in Nat
    /\ FaultKinds \subseteq AllFaults

VARIABLES
    row,        \* Instance.Status of the row of a name, "none" without a row
    rs,         \* Instance.RunnerStatus
    attempt,    \* Instance.CreateAttempt
    age,        \* age of Instance.UpdatedAt
    ripe,       \* names whose CreatedAt is older than the bootstrap timeout
    vm,         \* the provider's machine: "none", "running", "stopped"
    gh,         \* the runner in GitHub: "none", "offline", "online", "busy"
    hooks,      \* workflow_job webhooks under way
    phase,      \* "starting" (cleanupRunnersInterruptedInFlight) or "loops"
    running,    \* managerIsRunning
    locks,      \* the names locked in the keyMutex
    backoff,    \* the names in delete backoff
    gor,        \* the goroutines that work on one instance
    list,       \* what each loop still has to do from its last listing
    need,       \* runners ensureIdleRunnersForOnePool still adds, per caller
    rp,         \* where runnerCleanup is
    seen,       \* its list of GitHub runners, and the provider's list
    fresh,      \* names never used
    late,       \* history: names registered since runnerCleanup listed GitHub
    asked,      \* history: names an administrator forced or bypassed GitHub for
    unseen,     \* history: machines created after the provider's list was read
    minIdle,    \* Pool.MinIdleRunners
    faults

db    == <<row, rs, attempt, age, ripe>>
world == <<vm, gh, hooks>>
mgr   == <<minIdle, phase, running, backoff, list, need, rp, seen>>
hist  == <<fresh, late, asked, unseen>>
vars  == <<db, world, mgr, locks, gor, hist, faults>>

Statuses == {"pending_create", "creating", "running", "error", "pending_delete",
             "pending_force_delete", "deleting"}
RunnerStatuses == {"pending", "installing", "idle", "active", "failed", "terminated"}
Loops == {"start", "add", "delete", "retry", "scaledown", "reap", "provider", "github"}
Adders == {"loop", "hook", "job"}
Rows == {n \in Names : row[n] # "none"}

\* InstanceStatusTransitions, for the statuses a pool instance can have.
InstanceStatusTransitions ==
    [pending_create       |-> {"pending_delete", "creating", "pending_force_delete"},
     creating             |-> {"error", "running"},
     running              |-> {"pending_delete", "pending_force_delete"},
     error                |-> {"pending_delete", "pending_force_delete", "deleting"},
     pending_delete       |-> {"deleting", "pending_force_delete"},
     pending_force_delete |-> {"deleting"},
     deleting             |-> {"error"}]

RunnerStatusTransitions ==
    [pending    |-> {"failed", "installing", "terminated"},
     installing |-> {"failed", "idle", "terminated"},
     idle       |-> {"active", "terminated"},
     active     |-> {"terminated"},
     failed     |-> {"terminated"},
     terminated |-> {}]

-----------------------------------------------------------------------------
(* The store.                                                              *)

\* validateInstanceStatusTransition
MayBecome(n, s) == row[n] # "none" /\ (s = row[n] \/ s \in InstanceStatusTransitions[row[n]])

\* ForceUpdateInstance with a status; a missing row is an error and changes nothing.
ForceStatus(n, s) ==
    /\ row' = [row EXCEPT ![n] = IF @ = "none" THEN @ ELSE s]
    /\ age' = [age EXCEPT ![n] = 0]

\* UpdateInstance with a status: refused unless the transition is allowed.
UpdateStatus(n, s) == IF MayBecome(n, s) THEN ForceStatus(n, s) ELSE UNCHANGED <<row, age>>

\* UpdateInstance / ForceUpdateInstance with a runner status.
ForceRunner(n, s) ==
    /\ rs' = [rs EXCEPT ![n] = IF row[n] = "none" THEN @ ELSE s]
    /\ age' = [age EXCEPT ![n] = 0]

\* DeleteInstance; it is no error when the row is gone.
DropRow(n) ==
    /\ row' = [row EXCEPT ![n] = "none"]
    /\ rs' = [rs EXCEPT ![n] = "pending"]
    /\ attempt' = [attempt EXCEPT ![n] = 0]
    /\ age' = [age EXCEPT ![n] = 0]
    /\ ripe' = ripe \ {n}

Fault(k) == k \in FaultKinds /\ faults < MaxFaults /\ faults' = faults + 1
NoFault == UNCHANGED faults

Goroutine(kind, n, pc, st) == [kind |-> kind, n |-> n, pc |-> pc, st |-> st]
Spawn(g) == gor' = gor \cup {g}
Goto(g, pc, st) == gor' = (gor \ {g}) \cup {Goroutine(g.kind, g.n, pc, st)}
\* The goroutine ends; its deferred Unlock releases the name.
EndUnlock(g) == gor' = gor \ {g} /\ locks' = locks \ {g.n}

Drop(loop, n) == list' = [list EXCEPT ![loop] = {e \in @ : e[1] # n}]
\* startLoopForFunction: only the delete loop runs while the manager does not.
Ticks(loop) ==
    /\ phase = "loops" /\ (running \/ loop = "delete") /\ list[loop] = {}
    /\ Cardinality({l \in Loops \ {"reap", "provider", "github"} : list[l] # {}})
         + (IF rp = "idle" THEN 0 ELSE 1) < MaxPasses
Listing(loop, entries) == Ticks(loop) /\ list' = [list EXCEPT ![loop] = entries]

-----------------------------------------------------------------------------
(* Adding runners.                                                         *)

\* ensureIdleRunnersForOnePool: how many runners to add, from one listing in
\* which the runner statuses are r.
RequiredFor(r) ==
    LET idleOrPending == {n \in Rows : r[n] \notin {"active", "terminated"}}
        missing == minIdle - Cardinality(idleOrPending)
        room == MaxRunners - Cardinality(Rows)
    IN IF room <= 0 \/ missing <= 0 THEN 0 ELSE IF missing < room THEN missing ELSE room

EnsureMinIdle ==
    /\ phase = "loops" /\ running /\ need["loop"] = 0
    /\ ~\E g \in gor : g.kind = "add" /\ g.st = "loop"
    /\ fresh # {} /\ RequiredFor(rs) > 0
    /\ need' = [need EXCEPT !["loop"] = RequiredFor(rs)]
    /\ UNCHANGED <<db, world, minIdle, phase, running, backoff, list, rp, seen, locks, gor, hist, faults>>

\* A new name; which of the unused ones does not matter.
NextName == IF fresh = {} THEN {} ELSE {CHOOSE n \in fresh : TRUE}

\* Mutant of AddRunner: the job consumer uses up an idle runner's turn as well.
AddRunnerMiscounts(c, n) ==
    /\ n \in NextName /\ ~\E g \in gor : g.kind = "add" /\ g.st = c
    /\ IF c = "job" THEN phase = "loops" /\ running /\ Cardinality(Rows) < MaxRunners
                    ELSE need[c] > 0
    /\ gh' = [gh EXCEPT ![n] = "offline"]
    /\ need' = [need EXCEPT ![c] = @ - 1]
    /\ fresh' = fresh \ {n}
    /\ Spawn(Goroutine("add", n, "insert", c))
    /\ UNCHANGED <<db, vm, hooks, minIdle, phase, running, backoff, list, rp, seen, locks, late, asked, unseen, faults>>

\* AddRunner, first half: GetEntityJITConfig registers the runner in GitHub.
\* The job consumer comes through addRunnerToPool, which counts the rows first.
AddRunner(c, n) ==
    /\ n \in NextName /\ ~\E g \in gor : g.kind = "add" /\ g.st = c
    /\ IF c = "job" THEN phase = "loops" /\ running /\ Cardinality(Rows) < MaxRunners
                    ELSE need[c] > 0
    /\ gh' = [gh EXCEPT ![n] = "offline"]
    /\ need' = IF fresh = {n} THEN [d \in Adders |-> 0]     \* bound: no name is left
               ELSE [need EXCEPT ![c] = IF c = "job" THEN @ ELSE @ - 1]
    /\ fresh' = fresh \ {n}
    /\ late' = IF rp = "idle" THEN late ELSE late \cup {n}
    /\ Spawn(Goroutine("add", n, "insert", c))
    /\ UNCHANGED <<db, vm, hooks, minIdle, phase, running, backoff, list, rp, seen, locks, asked, unseen, faults>>

\* GitHub gives no JIT configuration: ensureIdleRunnersForOnePool gives up.
AddRunnerRefused(c) ==
    /\ c # "job" /\ need[c] > 0 /\ ~\E g \in gor : g.kind = "add" /\ g.st = c
    /\ Fault("github")
    /\ need' = [need EXCEPT ![c] = 0]
    /\ UNCHANGED <<db, world, minIdle, phase, running, backoff, list, rp, seen, locks, gor, hist>>

\* Mutant of CreateInstance: the rows are not counted again.
CreateInstanceUncounted(g) ==
    /\ g.kind = "add"
    /\ row' = [row EXCEPT ![g.n] = "pending_create"]
    /\ gor' = gor \ {g}
    /\ UNCHANGED <<rs, attempt, age, ripe, world, mgr, locks, hist, faults>>

\* CreateInstance counts and inserts in one immediate transaction.  When it
\* refuses, AddRunner removes the registration and its caller gives up.
CreateInstance(g) ==
    /\ g.kind = "add"
    /\ IF Cardinality(Rows) < MaxRunners
         THEN row' = [row EXCEPT ![g.n] = "pending_create"] /\ UNCHANGED <<gh, need>>
         ELSE /\ gh' = [gh EXCEPT ![g.n] = "none"]
              /\ need' = [need EXCEPT ![g.st] = 0]
              /\ UNCHANGED row
    /\ gor' = gor \ {g}
    /\ UNCHANGED <<rs, attempt, age, ripe, vm, hooks, minIdle, phase, running, backoff, list, rp, seen,
                   locks, hist, faults>>

-----------------------------------------------------------------------------
(* addPendingInstances and the goroutine that creates a machine.           *)

AddList ==
    /\ {n \in Names : row[n] = "pending_create"} # {}
    /\ Listing("add", {<<n>> : n \in {m \in Names : row[m] = "pending_create"}})
    /\ UNCHANGED <<db, world, minIdle, phase, running, backoff, need, rp, seen, locks, gor, hist, faults>>

AddPending(n) ==
    /\ <<n>> \in list["add"]
    /\ Drop("add", n)
    /\ IF n \notin locks /\ MayBecome(n, "creating")
         THEN /\ ForceStatus(n, "creating")
              /\ locks' = locks \cup {n}
              /\ Spawn(Goroutine("create", n, "call", "creating"))
         ELSE UNCHANGED <<row, age, locks, gor>>
    /\ UNCHANGED <<rs, attempt, ripe, world, minIdle, phase, running, backoff, need, rp, seen, hist, faults>>

\* provider.CreateInstance succeeds, returns a machine in error, or fails and
\* may leave a machine behind.
CreateCall(g) ==
    /\ g.kind = "create" /\ g.pc = "call"
    /\ \/ vm' = [vm EXCEPT ![g.n] = "running"] /\ Goto(g, "record", "running") /\ NoFault
       \/ vm' = [vm EXCEPT ![g.n] = "stopped"] /\ Goto(g, "record", "error") /\ Fault("create")
       \/ \E left \in {"none", "stopped", "running"} :
            vm' = [vm EXCEPT ![g.n] = left] /\ Goto(g, "cleanup", "failed") /\ Fault("create")
    /\ unseen' = IF seen.read /\ vm'[g.n] # "none" THEN unseen \cup {g.n} ELSE unseen
    /\ UNCHANGED <<db, gh, hooks, mgr, locks, fresh, late, asked>>

\* UpdateInstance with the provider's answer.  When it is refused the caller
\* tries to set the status to error; a machine in error is cleaned up.
CreateRecord(g) ==
    /\ g.kind = "create" /\ g.pc = "record"
    /\ UpdateStatus(g.n, g.st)
    /\ CASE g.st = "error" -> Goto(g, "cleanup", IF MayBecome(g.n, "error") THEN "done" ELSE "failed") /\ UNCHANGED locks
         [] g.st = "running" /\ MayBecome(g.n, "running") -> EndUnlock(g)
         [] OTHER -> Goto(g, "fail", "failed") /\ UNCHANGED locks
    /\ UNCHANGED <<rs, attempt, ripe, world, mgr, hist, faults>>

\* The deferred provider.DeleteInstance by name; its errors are logged.
CreateCleanup(g) ==
    /\ g.kind = "create" /\ g.pc = "cleanup"
    /\ \/ vm' = [vm EXCEPT ![g.n] = "none"] /\ NoFault
       \/ UNCHANGED vm /\ Fault("delete")
    /\ IF g.st = "done" THEN EndUnlock(g) ELSE Goto(g, "fail", "failed") /\ UNCHANGED locks
    /\ UNCHANGED <<db, gh, hooks, mgr, hist>>

CreateFail(g) ==
    /\ g.kind = "create" /\ g.pc = "fail"
    /\ UpdateStatus(g.n, "error")
    /\ EndUnlock(g)
    /\ UNCHANGED <<rs, attempt, ripe, world, mgr, hist, faults>>

-----------------------------------------------------------------------------
(* retryFailedInstancesForOnePool.                                         *)

RetryList ==
    LET failed == {n \in Names : row[n] = "error" /\ attempt[n] < MaxCreateAttempts}
    IN /\ failed # {}
       /\ Listing("retry", {<<n>> : n \in failed})
       /\ UNCHANGED <<db, world, minIdle, phase, running, backoff, need, rp, seen, locks, gor, hist, faults>>

RetryOne(n) ==
    /\ <<n>> \in list["retry"]
    /\ Drop("retry", n)
    /\ IF n \in locks THEN UNCHANGED <<locks, gor>>
       ELSE locks' = locks \cup {n} /\ Spawn(Goroutine("retry", n, "call", "error"))
    /\ UNCHANGED <<db, world, minIdle, phase, running, backoff, need, rp, seen, hist, faults>>

\* Remove what the failed attempt left, else bail out.
RetryCall(g) ==
    /\ g.kind = "retry" /\ g.pc = "call"
    /\ \/ vm' = [vm EXCEPT ![g.n] = "none"] /\ Goto(g, "requeue", g.st) /\ UNCHANGED locks /\ NoFault
       \/ UNCHANGED vm /\ EndUnlock(g) /\ Fault("delete")
    /\ UNCHANGED <<db, gh, hooks, mgr, hist>>

\* UpdateInstance back to pending_create.  InstanceStatusTransitions has no such
\* transition from error: the update is refused, the error only logged.
RetryRequeue(g) ==
    /\ g.kind = "retry" /\ g.pc = "requeue"
    /\ IF MayBecome(g.n, "pending_create") /\ "pending" \in RunnerStatusTransitions[rs[g.n]] \cup {rs[g.n]}
         THEN /\ ForceStatus(g.n, "pending_create")
              /\ rs' = [rs EXCEPT ![g.n] = "pending"]
              /\ attempt' = [attempt EXCEPT ![g.n] = @ + 1]
         ELSE UNCHANGED <<row, age, rs, attempt>>
    /\ EndUnlock(g)
    /\ UNCHANGED <<ripe, world, mgr, hist, faults>>

-----------------------------------------------------------------------------
(* deletePendingInstances and the goroutine that deletes an instance.      *)

Doomed == {"pending_delete", "pending_force_delete"}

\* Mutant of DelList: the listing knows forced deletions only.
DelListForced ==
    /\ {n \in Names : row[n] = "pending_force_delete"} # {}
    /\ Listing("delete", {<<n, row[n]>> : n \in {m \in Names : row[m] = "pending_force_delete"}})
    /\ UNCHANGED <<db, world, minIdle, phase, running, backoff, need, rp, seen, locks, gor, hist, faults>>

DelList ==
    LET doomed == {n \in Names : row[n] \in Doomed}
    IN /\ doomed # {}
       /\ Listing("delete", {<<n, row[n]>> : n \in doomed})
       /\ UNCHANGED <<db, world, minIdle, phase, running, backoff, need, rp, seen, locks, gor, hist, faults>>

\* Mutant of DelPending: no TryLock.
DelPendingUnlocked(n, st) ==
    /\ <<n, st>> \in list["delete"]
    /\ Drop("delete", n)
    /\ locks' = locks \cup {n} /\ Spawn(Goroutine("delete", n, "mark", st))
    /\ UNCHANGED <<db, world, minIdle, phase, running, backoff, need, rp, seen, hist, faults>>

\* TryLock, then the backoff; st is the status in the listing.
DelPending(n, st) ==
    /\ <<n, st>> \in list["delete"]
    /\ Drop("delete", n)
    /\ IF n \in locks \/ n \in backoff THEN UNCHANGED <<locks, gor>>
       ELSE locks' = locks \cup {n} /\ Spawn(Goroutine("delete", n, "mark", st))
    /\ UNCHANGED <<db, world, minIdle, phase, running, backoff, need, rp, seen, hist, faults>>

DelMark(g) ==
    /\ g.kind = "delete" /\ g.pc = "mark"
    /\ ForceStatus(g.n, "deleting")
    /\ Goto(g, IF row[g.n] = "none" THEN "restore" ELSE "call", g.st)
    /\ UNCHANGED <<rs, attempt, ripe, world, mgr, locks, hist, faults>>

\* Mutant of DelCall: an error of the provider stops no deletion.
DelCallCareless(g) ==
    /\ g.kind = "delete" /\ g.pc = "call"
    /\ \/ vm' = [vm EXCEPT ![g.n] = "none"] /\ NoFault
       \/ UNCHANGED vm /\ Fault("delete")
    /\ Goto(g, "drop", g.st)
    /\ UNCHANGED <<db, gh, hooks, mgr, locks, hist>>

\* deleteInstanceFromProvider; an error stops the deletion unless it is forced.
DelCall(g) ==
    /\ g.kind = "delete" /\ g.pc = "call"
    /\ \/ vm' = [vm EXCEPT ![g.n] = "none"] /\ Goto(g, "drop", g.st) /\ NoFault
       \/ /\ UNCHANGED vm /\ Fault("delete")
          /\ Goto(g, IF g.st = "pending_force_delete" THEN "drop" ELSE "restore", g.st)
    /\ UNCHANGED <<db, gh, hooks, mgr, locks, hist>>

\* The row goes, then the lock and the backoff entry.
DelDrop(g) ==
    /\ g.kind = "delete" /\ g.pc = "drop"
    /\ DropRow(g.n)
    /\ EndUnlock(g)
    /\ backoff' = backoff \ {g.n}
    /\ UNCHANGED <<world, minIdle, phase, running, list, need, rp, seen, hist, faults>>

\* Mutant of DelRestore: the failed deletion keeps the lock.
DelRestoreLocked(g) ==
    /\ g.kind = "delete" /\ g.pc = "restore"
    /\ ForceStatus(g.n, g.st)
    /\ backoff' = backoff \cup {g.n} /\ gor' = gor \ {g}
    /\ UNCHANGED <<rs, attempt, ripe, world, minIdle, phase, running, list, need, rp, seen, locks, hist, faults>>

\* The deferred handler puts the status of the listing back and records the failure.
DelRestore(g) ==
    /\ g.kind = "delete" /\ g.pc = "restore"
    /\ ForceStatus(g.n, g.st)
    /\ backoff' = backoff \cup {g.n}
    /\ EndUnlock(g)
    /\ UNCHANGED <<rs, attempt, ripe, world, minIdle, phase, running, list, need, rp, seen, hist, faults>>

BackoffOver(n) ==
    /\ n \in backoff
    /\ backoff' = backoff \ {n}
    /\ UNCHANGED <<db, world, minIdle, phase, running, list, need, rp, seen, locks, gor, hist, faults>>

-----------------------------------------------------------------------------
(* DeleteRunner: remove the runner from GitHub, then mark the row.         *)

\* Mutant of DeleteRunnerDone: a runner that is busy is taken all the same.
DeleteRunnerDoneBusy(n) ==
    /\ gh' = [gh EXCEPT ![n] = "none"]
    /\ ForceStatus(n, "pending_delete")
    /\ UNCHANGED running /\ NoFault

\* GitHub does not remove a runner that runs a job.
DeleteRunnerDone(n) ==
    /\ gh[n] # "busy"
    /\ gh' = [gh EXCEPT ![n] = "none"]
    /\ ForceStatus(n, "pending_delete")
    /\ UNCHANGED running /\ NoFault

\* GitHub refuses, fails, or removes the runner and the row cannot be updated.
DeleteRunnerFails(n) ==
    /\ \/ gh[n] = "busy" /\ UNCHANGED gh /\ NoFault
       \/ gh[n] # "busy" /\ gh' \in {gh, [gh EXCEPT ![n] = "none"]} /\ Fault("github")
    /\ UNCHANGED <<row, age, running>>

\* ErrUnauthorized stops the manager; only a caller that bypasses it goes on.
DeleteRunnerUnauthorized(n, bypass) ==
    /\ Fault("unauthorized")
    /\ running' = FALSE
    /\ IF bypass THEN ForceStatus(n, "pending_delete") ELSE UNCHANGED <<row, age>>
    /\ UNCHANGED gh

DeleteRunner(n, bypass) ==
    /\ running \/ bypass
    /\ DeleteRunnerDone(n) \/ DeleteRunnerFails(n) \/ DeleteRunnerUnauthorized(n, bypass)

-----------------------------------------------------------------------------
(* scaleDownOnePool.                                                       *)

\* Half of the surplus over minIdle and the queued jobs, rounded up.
ScaleDownList(queued) ==
    LET idle == {n \in Names : rs[n] = "idle" /\ row[n] = "running"}
        surplus == Cardinality(idle) - (minIdle + queued)
    IN /\ surplus > 0
       /\ \E picked \in kSubset((surplus + 1) \div 2, idle) :
            Listing("scaledown", {<<n>> : n \in picked})
       /\ UNCHANGED <<db, world, minIdle, phase, running, backoff, need, rp, seen, locks, gor, hist, faults>>

ScaleDownOne(n) ==
    /\ <<n>> \in list["scaledown"]
    /\ Drop("scaledown", n)
    /\ IF n \in locks \/ ~running THEN UNCHANGED <<row, age, gh, running, faults>> ELSE DeleteRunner(n, FALSE)
    /\ UNCHANGED <<rs, attempt, ripe, vm, hooks, minIdle, phase, backoff, need, rp, seen, locks, gor, hist>>

-----------------------------------------------------------------------------
(* runnerCleanup: three passes over one list of GitHub's runners.          *)

NothingSeen == [gh |-> {}, off |-> {}, read |-> FALSE, pv |-> {}, stopped |-> {}]

Cleanup(from, to) == rp = from /\ rp' = to

ListGithub ==
    /\ Ticks("reap") /\ Cleanup("idle", "reap")
    /\ seen' = [NothingSeen EXCEPT !.gh = {n \in Names : gh[n] # "none"},
                                   !.off = {n \in Names : gh[n] = "offline"}]
    /\ UNCHANGED <<db, world, minIdle, phase, running, backoff, list, need, locks, gor, hist, faults>>

\* reapTimedOutRunners: no update within the timeout, and unknown or offline in GitHub.
ReapList ==
    /\ Cleanup("reap", "reaping")
    /\ list' = [list EXCEPT !["reap"] =
         {<<n>> : n \in {m \in Rows : age[m] = 2 /\ (m \notin seen.gh \/ m \in seen.off)}}]
    /\ UNCHANGED <<db, world, minIdle, phase, running, backoff, need, seen, locks, gor, hist, faults>>

\* An error ends runnerCleanup, but not the goroutines it has started.
Abort ==
    /\ rp' = "idle" /\ seen' = NothingSeen /\ late' = {}
    /\ unseen' = {n \in unseen : \E g \in gor : g.kind = "orphan" /\ g.n = n}
    /\ list' = [list EXCEPT !["reap"] = {}, !["provider"] = {}, !["github"] = {}]

ReapOne(n) ==
    /\ <<n>> \in list["reap"]
    /\ \/ n \in locks /\ Drop("reap", n) /\ UNCHANGED <<row, age, gh, running, faults, rp, seen, late, unseen>>
       \/ n \notin locks /\ running /\ DeleteRunnerDone(n) /\ Drop("reap", n) /\ UNCHANGED <<rp, seen, late, unseen>>
       \/ n \notin locks /\ running /\ (DeleteRunnerFails(n) \/ DeleteRunnerUnauthorized(n, FALSE)) /\ Abort
       \/ n \notin locks /\ ~running /\ Abort /\ UNCHANGED <<row, age, gh, running, faults>>
    /\ UNCHANGED <<rs, attempt, ripe, vm, hooks, minIdle, phase, backoff, need, locks, gor, fresh, asked>>

\* cleanupOrphanedProviderRunners: rows that GitHub does not know, except those
\* not created yet, already marked, or still installing within the timeout.
Unregistered ==
    {n \in Rows : /\ n \notin seen.gh
                  /\ row[n] \notin Doomed \cup {"pending_create"}
                  /\ rs[n] \in {"pending", "installing"} => n \in ripe}

ProviderList ==
    /\ list["reap"] = {} /\ Cleanup("reaping", "provider")
    /\ list' = [list EXCEPT !["provider"] = {<<n>> : n \in Unregistered}]
    /\ UNCHANGED <<db, world, minIdle, phase, running, backoff, need, seen, locks, gor, hist, faults>>

ProviderOne(n) ==
    /\ <<n>> \in list["provider"]
    /\ Drop("provider", n)
    /\ IF n \in locks THEN UNCHANGED <<row, age>> ELSE ForceStatus(n, "pending_delete")
    /\ UNCHANGED <<rs, attempt, ripe, world, minIdle, phase, running, backoff, need, rp, seen, locks, gor, hist, faults>>

\* cleanupOrphanedGithubRunners goes through the runners listed as offline.
GithubList ==
    /\ list["provider"] = {} /\ Cleanup("provider", "github")
    /\ list' = [list EXCEPT !["github"] = {<<n>> : n \in seen.off}]
    /\ UNCHANGED <<db, world, minIdle, phase, running, backoff, need, seen, locks, gor, hist, faults>>

\* Being created, being deleted, or running and updated within 5 minutes.
LeaveBe(n) ==
    \/ row[n] \in {"pending_delete", "deleting", "pending_create", "creating"}
    \/ row[n] = "running" /\ age[n] = 0

\* GetInstance: a runner without a row is removed from GitHub; otherwise read
\* the provider's list, once per pass.  An error of either ends the pass.
GithubCheck(n) ==
    /\ <<n>> \in list["github"]
    /\ \/ /\ row[n] = "none"
          /\ \/ gh[n] # "busy" /\ gh' = [gh EXCEPT ![n] = "none"] /\ Drop("github", n) /\ UNCHANGED <<rp, seen, late, unseen, faults>>
             \/ gh[n] = "busy" /\ Abort /\ UNCHANGED <<gh, faults>>
             \/ gh[n] # "busy" /\ Fault("github") /\ Abort /\ UNCHANGED gh
       \/ /\ row[n] # "none" /\ LeaveBe(n)
          /\ Drop("github", n) /\ UNCHANGED <<gh, rp, seen, late, unseen, faults>>
       \/ /\ row[n] # "none" /\ ~LeaveBe(n)
          /\ list' = [list EXCEPT !["github"] = (@ \ {<<n>>}) \cup {<<n, "checked">>}]
          /\ seen' = IF seen.read THEN seen
                     ELSE [seen EXCEPT !.read = TRUE, !.pv = {m \in Names : vm[m] # "none"},
                                       !.stopped = {m \in Names : vm[m] = "stopped"}]
          /\ UNCHANGED <<gh, rp, late, unseen, faults>>
       \/ row[n] # "none" /\ ~LeaveBe(n) /\ ~seen.read /\ Fault("list") /\ Abort /\ UNCHANGED gh
    /\ UNCHANGED <<db, vm, hooks, minIdle, phase, running, backoff, need, locks, gor, fresh, asked>>

\* TryLock; then a goroutine drops what is not on the provider and starts what is stopped.
GithubLock(n) ==
    /\ <<n, "checked">> \in list["github"]
    /\ Drop("github", n)
    /\ IF n \in locks \/ n \in seen.pv \ seen.stopped THEN UNCHANGED <<locks, gor>>
       ELSE /\ locks' = locks \cup {n}
            /\ Spawn(Goroutine("orphan", n, IF n \in seen.pv THEN "start" ELSE "remove", "offline"))
    /\ UNCHANGED <<db, world, minIdle, phase, running, backoff, need, rp, seen, hist, faults>>

OrphanRemove(g) ==
    /\ g.kind = "orphan" /\ g.pc = "remove"
    /\ \/ gh[g.n] # "busy" /\ gh' = [gh EXCEPT ![g.n] = "none"] /\ Goto(g, "drop", g.st) /\ UNCHANGED locks /\ NoFault
       \/ gh[g.n] = "busy" /\ UNCHANGED gh /\ EndUnlock(g) /\ NoFault
       \/ Fault("github") /\ UNCHANGED gh /\ EndUnlock(g)
    /\ UNCHANGED <<db, vm, hooks, mgr, hist>>

OrphanDrop(g) ==
    /\ g.kind = "orphan" /\ g.pc = "drop"
    /\ DropRow(g.n)
    /\ EndUnlock(g)
    /\ UNCHANGED <<world, mgr, hist, faults>>

OrphanStart(g) ==
    /\ g.kind = "orphan" /\ g.pc = "start"
    /\ vm' = [vm EXCEPT ![g.n] = IF @ = "stopped" THEN "running" ELSE @]
    /\ EndUnlock(g)
    /\ UNCHANGED <<db, gh, hooks, mgr, hist, faults>>

\* The pass waits for its goroutines.
CleanupEnd ==
    /\ list["github"] = {} /\ ~\E g \in gor : g.kind = "orphan"
    /\ Cleanup("github", "idle")
    /\ seen' = NothingSeen /\ late' = {} /\ unseen' = {}
    /\ UNCHANGED <<db, world, minIdle, phase, running, backoff, list, need, locks, gor, fresh, asked, faults>>

-----------------------------------------------------------------------------
(* Webhooks, the instance callbacks, the agent and the administrator.      *)

\* handleInProgressJob: the runner is active; the pool is topped up.
\* Bound: one webhook adds runners at a time.
HookInProgress(n) ==
    /\ <<"in_progress", n>> \in hooks
    /\ need["hook"] = 0 /\ ~\E g \in gor : g.kind = "add" /\ g.st = "hook"
    /\ hooks' = hooks \ {<<"in_progress", n>>}
    /\ IF row[n] = "none" THEN UNCHANGED <<rs, age, need>>
       ELSE /\ ForceRunner(n, "active")
            /\ need' = [need EXCEPT !["hook"] = IF fresh = {} THEN 0 ELSE RequiredFor(rs')]
    /\ UNCHANGED <<row, attempt, ripe, vm, gh, minIdle, phase, running, backoff, list, rp, seen, locks, gor, hist, faults>>

\* handleCompletedJob: force the runner status, then update the status, which
\* is refused while the instance is being created or deleted.
HookCompleted(n) ==
    /\ <<"completed", n>> \in hooks
    /\ hooks' = hooks \ {<<"completed", n>>}
    /\ IF row[n] = "none" THEN UNCHANGED <<rs, age, gor>>
       ELSE ForceRunner(n, "terminated") /\ Spawn(Goroutine("completed", n, "mark", "terminated"))
    /\ UNCHANGED <<row, attempt, ripe, vm, gh, mgr, locks, hist, faults>>

CompletedMark(g) ==
    /\ g.kind = "completed"
    /\ UpdateStatus(g.n, "pending_delete")
    /\ gor' = gor \ {g}
    /\ UNCHANGED <<rs, attempt, ripe, world, mgr, locks, hist, faults>>

\* AddInstanceStatusMessage from the installing machine: an ordinary update.
Callback(n, s) ==
    /\ vm[n] = "running" /\ row[n] # "none"
    /\ s = "idle" => gh[n] \in {"online", "busy"}
    /\ s \in RunnerStatusTransitions[rs[n]]
    /\ ForceRunner(n, s)
    /\ UNCHANGED <<row, attempt, ripe, world, mgr, locks, gor, hist, faults>>

\* The garm agent on the machine reports that the runner is done: the status
\* message, then, under the lock of the name, a forced pending_delete.
AgentTerminated(n) ==
    /\ vm[n] = "running" /\ gh[n] = "none" /\ row[n] # "none"
    /\ rs[n] \in {"idle", "active"}
    /\ ForceRunner(n, "terminated")
    /\ Spawn(Goroutine("agent", n, "mark", "terminated"))
    /\ UNCHANGED <<row, attempt, ripe, world, mgr, locks, hist, faults>>

AgentMark(g) ==
    /\ g.kind = "agent" /\ g.n \notin locks
    /\ ForceStatus(g.n, "pending_delete")
    /\ gor' = gor \ {g}
    /\ UNCHANGED <<rs, attempt, ripe, world, mgr, locks, hist, faults>>

\* Runner.DeleteRunner, the API call: no lock, an ordinary status update.
ApiDelete(n, force, bypass) ==
    /\ row[n] \in {"running", "error"} \cup Doomed
    /\ gh[n] = "busy" => bypass
    /\ gh' = [gh EXCEPT ![n] = IF @ = "busy" THEN @ ELSE "none"]
    /\ UpdateStatus(n, IF force THEN "pending_force_delete" ELSE "pending_delete")
    /\ asked' = IF force \/ bypass THEN asked \cup {n} ELSE asked
    /\ UNCHANGED <<rs, attempt, ripe, vm, hooks, mgr, locks, gor, fresh, late, unseen, faults>>

\* The administrator changes the pool.
UpdatePool(m) ==
    /\ m # minIdle
    /\ minIdle' = m
    /\ UNCHANGED <<db, world, phase, running, backoff, list, need, rp, seen, locks, gor, hist, faults>>

-----------------------------------------------------------------------------
(* The outside world and time.                                             *)

RunnerOnline(n) ==
    /\ vm[n] = "running" /\ gh[n] = "offline"
    /\ rs[n] # "terminated"
    /\ gh' = [gh EXCEPT ![n] = "online"]
    /\ UNCHANGED <<db, vm, hooks, mgr, locks, gor, hist, faults>>

JobStart(n) ==
    /\ gh[n] = "online"
    /\ gh' = [gh EXCEPT ![n] = "busy"]
    /\ hooks' = hooks \cup {<<"in_progress", n>>}
    /\ UNCHANGED <<db, vm, mgr, locks, gor, hist, faults>>

\* The runner is ephemeral: GitHub forgets it with its job.
JobDone(n) ==
    /\ gh[n] = "busy"
    /\ gh' = [gh EXCEPT ![n] = "none"]
    /\ hooks' = hooks \cup {<<"completed", n>>}
    /\ UNCHANGED <<db, vm, mgr, locks, gor, hist, faults>>

\* The machine stops or disappears, and its runner goes offline.
VmFault(n) ==
    /\ vm[n] = "running" /\ Fault("vm")
    /\ \E s \in {"none", "stopped"} : vm' = [vm EXCEPT ![n] = s]
    /\ gh' = [gh EXCEPT ![n] = IF @ = "none" THEN @ ELSE "offline"]
    /\ UNCHANGED <<db, hooks, mgr, locks, gor, hist>>

LoseHook(h) ==
    /\ h \in hooks /\ Fault("lose")
    /\ hooks' = hooks \ {h}
    /\ UNCHANGED <<db, vm, gh, mgr, locks, gor, hist>>

Age(n) ==
    /\ row[n] # "none" /\ age[n] < 2
    /\ age' = [age EXCEPT ![n] = @ + 1]
    /\ ripe' = IF age[n] = 1 THEN ripe \cup {n} ELSE ripe
    /\ UNCHANGED <<row, rs, attempt, world, mgr, locks, gor, hist, faults>>

-----------------------------------------------------------------------------
(* Restart.                                                                *)

\* The process ends and comes back; Start lists what was interrupted in flight.
Crash ==
    /\ Fault("crash")
    /\ phase' = "starting" /\ running' = FALSE
    /\ locks' = {} /\ backoff' = {} /\ gor' = {}
    /\ list' = [l \in Loops |-> IF l = "start" THEN {<<n>> : n \in {m \in Names : row[m] \in {"creating", "deleting"}}}
                                               ELSE {}]
    /\ need' = [c \in Adders |-> 0]
    /\ rp' = "idle" /\ seen' = NothingSeen /\ late' = {} /\ unseen' = {}
    /\ UNCHANGED <<db, world, minIdle, fresh, asked>>

\* cleanupRunnersInterruptedInFlight: DeleteRunner, bypassing ErrUnauthorized.
StartOne(n) ==
    /\ <<n>> \in list["start"]
    /\ Drop("start", n)
    /\ DeleteRunner(n, TRUE)
    /\ UNCHANGED <<rs, attempt, ripe, vm, hooks, minIdle, phase, backoff, need, rp, seen, locks, gor, hist>>

\* The tools are there: the manager runs and the loops start.
StartLoops ==
    /\ phase = "starting" /\ list["start"] = {}
    /\ phase' = "loops" /\ running' = TRUE
    /\ UNCHANGED <<db, world, minIdle, backoff, list, need, rp, seen, locks, gor, hist, faults>>

UpdateTools ==
    /\ phase = "loops" /\ ~running
    /\ running' = TRUE
    /\ UNCHANGED <<db, world, minIdle, phase, backoff, list, need, rp, seen, locks, gor, hist, faults>>

-----------------------------------------------------------------------------
Init ==
    /\ row = [n \in Names |-> "none"] /\ rs = [n \in Names |-> "pending"]
    /\ attempt = [n \in Names |-> 0] /\ age = [n \in Names |-> 0] /\ ripe = {}
    /\ vm = [n \in Names |-> "none"] /\ gh = [n \in Names |-> "none"] /\ hooks = {}
    /\ phase = "starting" /\ running = FALSE
    /\ locks = {} /\ backoff = {} /\ gor = {}
    /\ list = [l \in Loops |-> {}] /\ need = [c \in Adders |-> 0]
    /\ rp = "idle" /\ seen = NothingSeen
    /\ fresh = Names /\ late = {} /\ asked = {} /\ unseen = {} /\ minIdle \in MinIdles /\ faults = 0

GorStep(g) ==
    \/ CreateInstance(g)
    \/ CreateCall(g) \/ CreateRecord(g) \/ CreateCleanup(g) \/ CreateFail(g)
    \/ RetryCall(g) \/ RetryRequeue(g)
    \/ DelMark(g) \/ DelCall(g) \/ DelDrop(g) \/ DelRestore(g)
    \/ OrphanRemove(g) \/ OrphanDrop(g) \/ OrphanStart(g)
    \/ CompletedMark(g) \/ AgentMark(g)

AddLoop == AddList \/ \E n \in Names : AddPending(n)
DelLoop == DelList \/ \E n \in Names, st \in Doomed : DelPending(n, st)
RetryLoop == RetryList \/ \E n \in Names : RetryOne(n)
ScaleDownLoop == (\E queued \in 0..1 : ScaleDownList(queued)) \/ \E n \in Names : ScaleDownOne(n)
IdleLoop == EnsureMinIdle \/ \E c \in Adders : AddRunnerRefused(c) \/ \E n \in Names : AddRunner(c, n)
RunnerCleanup ==
    \/ ListGithub \/ ReapList \/ ProviderList \/ GithubList \/ CleanupEnd
    \/ \E n \in Names : ReapOne(n) \/ ProviderOne(n) \/ GithubCheck(n) \/ GithubLock(n)
Startup == StartLoops \/ UpdateTools \/ \E n \in Names : StartOne(n)

Environment ==
    \/ \E n \in Names :
         \/ HookInProgress(n) \/ HookCompleted(n) \/ AgentTerminated(n)
         \/ \E s \in {"installing", "idle", "failed"} : Callback(n, s)
         \/ \E force, bypass \in BOOLEAN : ApiDelete(n, force, bypass)
         \/ RunnerOnline(n) \/ JobStart(n) \/ JobDone(n) \/ VmFault(n)
    \/ \E h \in hooks : LoseHook(h)
    \/ \E m \in MinIdles : UpdatePool(m)
    \/ Crash

Next ==
    \/ \E g \in gor : GorStep(g)
    \/ AddLoop \/ DelLoop \/ RetryLoop \/ ScaleDownLoop \/ IdleLoop \/ RunnerCleanup \/ Startup
    \/ \E n \in Names : Age(n) \/ BackoffOver(n)
    \/ Environment

Spec == Init /\ [][Next]_vars

\* The goroutines and the loops go on, time passes.  The delete loop finds a
\* name unlocked in the end: it ticks every 5 seconds, and nobody keeps a lock.
Fairness ==
    /\ WF_vars(AddLoop) /\ WF_vars(DelLoop) /\ WF_vars(RunnerCleanup) /\ WF_vars(Startup)
    /\ WF_vars(RetryLoop) /\ WF_vars(ScaleDownLoop)
    /\ SF_vars(AddList) /\ SF_vars(DelList) /\ SF_vars(ListGithub)
    /\ \A n \in Names :
         /\ WF_vars(\E g \in gor : g.n = n /\ GorStep(g))
         /\ WF_vars(Age(n)) /\ WF_vars(BackoffOver(n))
         /\ SF_vars(\E st \in Doomed : DelPending(n, st) /\ n \in locks')

FairSpec == Spec /\ Fairness

-----------------------------------------------------------------------------
(* Properties.                                                             *)

TypeOK ==
    /\ row \in [Names -> Statuses \cup {"none"}] /\ rs \in [Names -> RunnerStatuses]
    /\ attempt \in [Names -> 0..MaxCreateAttempts] /\ age \in [Names -> 0..2] /\ ripe \subseteq Names
    /\ vm \in [Names -> {"none", "running", "stopped"}]
    /\ gh \in [Names -> {"none", "offline", "online", "busy"}]
    /\ hooks \subseteq {"in_progress", "completed"} \X Names
    /\ phase \in {"starting", "loops"} /\ running \in BOOLEAN
    /\ locks \subseteq Names /\ backoff \subseteq Names
    /\ \A g \in gor : g.n \in Names
    /\ need \in [Adders -> 0..MaxRunners] /\ minIdle \in MinIdles

\* The goroutines that hold the lock of a name.
Holders(n) == {g \in gor : g.n = n /\ g.kind \in {"create", "delete", "retry", "orphan"}}

\* The keyMutex keeps the loops apart: at most one goroutine works on the machine
\* and the row of a name, and the row of an instance being created or deleted
\* stays until that goroutine is done with it.
Exclusive ==
    \A n \in Names :
      /\ Cardinality(Holders(n)) <= 1
      /\ Holders(n) # {} => n \in locks
      /\ \A g \in Holders(n) : g.kind = "create" \/ (g.kind = "delete" /\ g.pc \in {"call", "drop"}) => row[n] # "none"

\* No machine loses its row, so none is lost sight of, whatever fails and whenever
\* the process restarts, unless an administrator forced the deletion or the machine
\* was created after runnerCleanup read the provider's list.
NoOrphanMachine ==
    [][\A n \in Names : vm'[n] # "none" /\ row'[n] = "none"
         => (vm[n] # "none" /\ row[n] = "none") \/ n \in asked \cup unseen]_vars

\* "The runner instance is no longer on the provider, and it appears offline in
\* github. It should be safe to force remove it."  (cleanupOrphanedGithubRunners)
SafeToRemove == \A n \in Names : vm[n] # "none" /\ row[n] = "none" => n \in asked

\* MaxRunners bounds the rows of the pool although the idle loop, the job
\* consumer and the webhooks add runners concurrently from stale counts.
RowCap == Cardinality(Rows) <= MaxRunners

\* A runner that runs a job is not marked for deletion, unless an administrator
\* bypassed GitHub, GitHub could not be asked at startup, or the runner
\* registered after the cleanup listed GitHub's runners.
BusyIsSafe ==
    [][\A n \in Names : gh[n] = "busy" /\ row[n] \notin Doomed \cup {"deleting"} /\ row'[n] \in Doomed
         => n \in asked' \cup late \/ (phase = "starting" /\ faults' > faults)]_vars

\* A row interrupted in flight by a restart is removed in the end, or its runner
\* has come up in GitHub.
InterruptedRecovers ==
    \A n \in Names : phase = "starting" /\ row[n] \in {"creating", "deleting"} ~> row[n] = "none" \/ gh[n] \in {"online", "busy"}

\* An instance whose runner GitHub no longer knows (its job is over, perhaps with
\* the webhook lost or refused) is removed in the end.
ForgottenGoes == \A n \in Names : row[n] # "none" /\ gh[n] = "none" ~> row[n] = "none"
=============================================================================
