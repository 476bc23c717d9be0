------------------------------ MODULE ScaleSet ------------------------------
(***************************************************************************)
(* One scale set of garm: the scale set worker with its map of runners     *)
(* (ci/runners/garm/workers/scaleset), the provider worker with an         *)
(* instance manager per runner (workers/provider), the job messages of the *)
(* listener, and the rows of the instances, whose changes the database     *)
(* watcher passes to both workers.                                         *)
(*                                                                         *)
(* The watcher sends each change in a goroutine of its own, which gives up *)
(* after a second, and the scale set worker handles each in another one:   *)
(* changes arrive in any order, or not at all.  A step is one database     *)
(* transaction, or one call of the provider or of GitHub, with the         *)
(* assignments next to it; consolidateRunnerState keeps the worker's mutex *)
(* over several of them.                                                   *)
(*                                                                         *)
(* Simplifications: the per-name locks are left out, since the provider    *)
(* worker takes none and the scale set worker holds them only inside its   *)
(* own mutex; the runner status pending stands for installing too; scale   *)
(* up creates one runner per tick; the deferred delete of a failed creation*)
(* and the status it sets are one step; any runner may have passed the     *)
(* bootstrap timeout; a provider call dies with the process.               *)
(***************************************************************************)
EXTENDS Integers, FiniteSets, Sequences

CONSTANTS
    Names,          \* runner names, each used once (bound on instances)
    MaxRunners,     \* ScaleSet.MaxRunners
    MaxEvents,      \* bound: changes on their way to one worker
    FaultKinds,     \* what may go wrong
    MaxFaults       \* bound: how often

AllFaults == {"create", "delete", "github", "vm", "crash", "drop", "again", "api", "list"}

ASSUME ScaleSetAssumption ==
    /\ IsFiniteSet(Names) /\ MaxRunners \in Nat
    /\ MaxEvents \in Nat \ {0} /\ MaxFaults \in Nat /\ FaultKinds \subseteq AllFaults

VARIABLES
    row,        \* Instance.Status of the row of a name, "none" without a row
    rs,         \* Instance.RunnerStatus
    fresh,      \* names never used
    gh,         \* the runner in GitHub: "none", "offline", "idle", "active"
    vm,         \* the machines of the provider
    msgs,       \* the listener's queue of job messages
    wpc,        \* the worker: "down", "starting" or "up"
    start,      \* the rows Start listed and has not handled yet
    target,     \* targetRunners()
    runners,    \* Worker.runners: the worker's copy of each instance
    zero,       \* whether Worker.runners has an entry under the empty ID
    cons,       \* consolidateRunnerState: where it is and what it listed
    wev,        \* changes on their way to the worker
    pev,        \* changes on their way to the provider worker
    entry,      \* runnerEntry.instance of the provider worker
    run,        \* names whose instance manager runs
    mgr,        \* instanceManager.instance, "none" without a manager
    held,       \* the update its updatesLoop holds while the mutex is taken
    call,       \* the provider call of the manager in progress
    late,       \* history: names listed as missing that GitHub registered later
    bypassed,   \* history: names an administrator removed past an error of GitHub
    forced,     \* history: names removed by force whose machine could not be deleted
    botched,    \* history: names whose creation failed, or was found half done by Start
                \* and not removed from GitHub
    acked,      \* history: names whose completed job was acknowledged
    faults

db     == <<row, rs>>
world  == <<gh, vm>>
worker == <<wpc, start, target, runners, zero, cons>>
prov   == <<entry, run, mgr, held, call>>
hist   == <<late, bypassed, forced, botched, acked>>
vars   == <<db, fresh, world, msgs, worker, wev, pev, prov, hist, faults>>

Doomed == {"pending_delete", "pending_force_delete", "deleting", "deleted"}
Statuses == {"pending_create", "creating", "running", "error"} \cup Doomed
RunnerStatuses == {"pending", "idle", "active", "terminated"}

InstanceStatusTransitions ==
    [pending_create       |-> {"pending_delete", "creating", "pending_force_delete"},
     creating             |-> {"error", "running"},
     running              |-> {"pending_delete", "pending_force_delete"},
     error                |-> {"pending_delete", "pending_force_delete", "deleting"},
     pending_delete       |-> {"deleting", "pending_force_delete"},
     pending_force_delete |-> {"deleting"},
     deleting             |-> {"error", "deleted"},
     deleted              |-> {}]

Copy(s, r) == [st |-> s, rs |-> r]
Out == Copy("out", "out")       \* no entry
Zero == Copy("zero", "zero")    \* an entry that is params.Instance{}
NoCons == [ph |-> "no", gh |-> {}, off |-> {}, todo |-> {}, vms |-> {}]
Message == [n : Names, kind : {"started", "completed"}]
Cons == [ph : {"no", "got", "reap", "missing", "gone"}, gh : SUBSET Names, off : SUBSET Names,
         todo : SUBSET Names, vms : SUBSET Names]
Event == [n : Names, op : {"create", "update", "delete"}, st : Statuses, rs : RunnerStatuses]

\* Nothing in a manager outlives it, and the worker's map never holds an
\* instance that is deleted: handleInstanceCleanup takes it out at once.
TypeOK ==
    /\ row \in [Names -> Statuses \cup {"none"}] /\ rs \in [Names -> RunnerStatuses]
    /\ fresh \subseteq Names /\ vm \subseteq Names
    /\ gh \in [Names -> {"none", "offline", "idle", "active"}]
    /\ msgs \in Seq(Message) /\ cons \in Cons
    /\ wpc \in {"down", "starting", "up"} /\ start \subseteq Names \X Statuses
    /\ target \in 0..MaxRunners /\ zero \in BOOLEAN
    /\ runners \in [Names -> {Out, Zero} \cup [st : Statuses \ {"deleted"}, rs : RunnerStatuses]]
    /\ wev \subseteq Event /\ pev \subseteq Event
    /\ entry \in [Names -> (Statuses \ {"deleted"}) \cup {"none"}]
    /\ mgr \in [Names -> Statuses \cup {"none"}] /\ held \in [Names -> Statuses \cup {"none"}]
    /\ call \in [Names -> {"no", "create", "created", "failed", "broken", "delete", "force"}]
    /\ \A n \in Names : n \notin run => call[n] = "no" /\ held[n] = "none"
    /\ run \subseteq {n \in Names : mgr[n] # "none"}
    /\ late \subseteq Names /\ bypassed \subseteq Names /\ forced \subseteq Names
    /\ botched \subseteq Names /\ acked \subseteq Names /\ faults \in 0..MaxFaults

Fault(k) == k \in FaultKinds /\ faults < MaxFaults /\ faults' = faults + 1
NoFault == UNCHANGED faults

-----------------------------------------------------------------------------
(* The store and the watcher.                                              *)

\* A change goes to both workers; to the scale set worker once it is registered.
Send(e, w, p) ==
    /\ pev' = p \cup {e} /\ Cardinality(pev') <= MaxEvents
    /\ IF wpc = "up" THEN wev' = w \cup {e} /\ Cardinality(wev') <= MaxEvents ELSE wev' = w
SendUpdate(n, w, p) == Send([n |-> n, op |-> "update", st |-> row'[n], rs |-> rs'[n]], w, p)

\* updateInstance, its validation done.
Write(n, s, r) ==
    /\ row' = [row EXCEPT ![n] = s] /\ rs' = [rs EXCEPT ![n] = r]
    /\ SendUpdate(n, wev, pev)
NoWrite == UNCHANGED <<db, wev, pev>>

\* validateInstanceStatusTransition
MayBecome(n, s) == row[n] # "none" /\ (s = row[n] \/ s \in InstanceStatusTransitions[row[n]])

\* ForceUpdateInstance and UpdateInstance; without a row nothing changes.
ForceStatus(n, s) == IF row[n] # "none" THEN Write(n, s, rs[n]) ELSE NoWrite
UpdateStatus(n, s) == IF MayBecome(n, s) THEN Write(n, s, rs[n]) ELSE NoWrite

\* DeleteInstanceByName; w and p are what else happens to the changes under way.
DropRow(n, w, p) ==
    IF row[n] = "none" THEN wev' = w /\ pev' = p /\ UNCHANGED db
    ELSE /\ row' = [row EXCEPT ![n] = "none"] /\ rs' = [rs EXCEPT ![n] = "pending"]
         /\ Send([n |-> n, op |-> "delete", st |-> "pending_create", rs |-> "pending"], w, p)

\* consumer.Send gives up.
DropEvent ==
    /\ Fault("drop")
    /\ \/ \E e \in wev : wev' = wev \ {e} /\ UNCHANGED pev
       \/ \E e \in pev : pev' = pev \ {e} /\ UNCHANGED wev
    /\ UNCHANGED <<db, fresh, world, msgs, worker, prov, hist>>

-----------------------------------------------------------------------------
(* The scale set worker: changes, scaling.                                 *)

MuxFree == wpc = "up" /\ cons.ph \in {"no", "got"}
Known == {n \in Names : runners[n] # Out}
RunnerCount == Cardinality(Known) + (IF zero THEN 1 ELSE 0)

\* Mutant of HandleEvent: a deleted instance leaves the map, its row stays.
HandleEventKeeps(e) ==
    /\ MuxFree /\ e \in wev
    /\ runners' = [runners EXCEPT ![e.n] = IF e.op = "delete" \/ e.st = "deleted" THEN Out ELSE Copy(e.st, e.rs)]
    /\ wev' = wev \ {e} /\ UNCHANGED <<db, pev>>
    /\ UNCHANGED <<fresh, world, msgs, wpc, start, target, zero, cons, prov, hist, faults>>

\* Mutant of HandleEvent: a deleted instance is stored like any other.
HandleEventStores(e) ==
    /\ MuxFree /\ e \in wev
    /\ runners' = [runners EXCEPT ![e.n] = IF e.op = "delete" THEN Out ELSE Copy(e.st, e.rs)]
    /\ wev' = wev \ {e} /\ UNCHANGED <<db, pev>>
    /\ UNCHANGED <<fresh, world, msgs, wpc, start, target, zero, cons, prov, hist, faults>>

\* handleInstanceEntityEvent
HandleEvent(e) ==
    /\ MuxFree /\ e \in wev
    /\ IF e.op = "update" /\ e.st = "deleted"
         THEN DropRow(e.n, wev \ {e}, pev) /\ runners' = [runners EXCEPT ![e.n] = Out]
         ELSE /\ runners' = [runners EXCEPT ![e.n] = IF e.op = "delete" THEN Out ELSE Copy(e.st, e.rs)]
              /\ wev' = wev \ {e} /\ UNCHANGED <<db, pev>>
    /\ UNCHANGED <<fresh, world, msgs, wpc, start, target, zero, cons, prov, hist, faults>>

NextName == IF fresh = {} THEN {} ELSE {CHOOSE n \in fresh : TRUE}

\* Mutant of ScaleUp: one runner too many.
ScaleUpOneMore(n) ==
    /\ MuxFree /\ RunnerCount <= target /\ n \in NextName
    /\ fresh' = fresh \ {n} /\ gh' = [gh EXCEPT ![n] = "offline"]
    /\ row' = [row EXCEPT ![n] = "pending_create"] /\ UNCHANGED rs
    /\ runners' = [runners EXCEPT ![n] = Copy("pending_create", "pending")]
    /\ Send([n |-> n, op |-> "create", st |-> "pending_create", rs |-> "pending"], wev, pev)
    /\ UNCHANGED <<vm, msgs, wpc, start, target, zero, cons, prov, hist, faults>>

\* handleScaleUp: GenerateJitRunnerConfig, CreateScaleSetInstance.
ScaleUp(n) ==
    /\ MuxFree /\ RunnerCount < target /\ n \in NextName
    /\ fresh' = fresh \ {n} /\ gh' = [gh EXCEPT ![n] = "offline"]
    /\ row' = [row EXCEPT ![n] = "pending_create"] /\ UNCHANGED rs
    /\ runners' = [runners EXCEPT ![n] = Copy("pending_create", "pending")]
    /\ Send([n |-> n, op |-> "create", st |-> "pending_create", rs |-> "pending"], wev, pev)
    /\ UNCHANGED <<vm, msgs, wpc, start, target, zero, cons, prov, hist, faults>>

\* The row could not be created, nor the runner in GitHub removed again.
ScaleUpFails(n) ==
    /\ MuxFree /\ RunnerCount < target /\ n \in NextName /\ Fault("github")
    /\ fresh' = fresh \ {n} /\ gh' = [gh EXCEPT ![n] = "offline"]
    /\ UNCHANGED <<db, vm, msgs, worker, wev, pev, prov, hist>>

\* GitHub lets go of a runner that does not run a job.
RemoveRunner(n) == gh' = [gh EXCEPT ![n] = IF @ = "active" THEN @ ELSE "none"]

\* handleScaleDown takes a runner out of service.  Its pass over the map may come
\* to doomed runners late, so all that counts is that there are too many.
ScaleDown(n) ==
    /\ MuxFree /\ RunnerCount > target
    /\ runners[n].st = "running" /\ runners[n].rs \notin {"terminated", "active"} /\ gh[n] # "active"
    /\ RemoveRunner(n)
    /\ UpdateStatus(n, "pending_delete")
    /\ runners' = [runners EXCEPT ![n] = IF row[n] = "none" THEN Out
                                         ELSE IF MayBecome(n, "pending_delete") THEN Copy("pending_delete", rs[n])
                                         ELSE @]
    /\ UNCHANGED <<fresh, vm, msgs, wpc, start, target, zero, cons, prov, hist, faults>>

\* handleScaleSetEvent: the listener or an administrator changes the numbers.
SetTarget ==
    /\ MuxFree /\ target' \in (0..MaxRunners) \ {target}
    /\ UNCHANGED <<db, fresh, world, msgs, wpc, start, runners, zero, cons, wev, pev, prov, hist, faults>>

-----------------------------------------------------------------------------
(* The scale set worker: consolidateRunnerState.                           *)

Registered == {n \in Names : gh[n] # "none"}
Idle == <<fresh, msgs, prov, bypassed, forced, botched, acked>>
InPhase(ph) == wpc = "up" /\ cons.ph = ph
Next1(n) == cons' = [cons EXCEPT !.todo = @ \ {n}]
Phase(ph, todo) == cons' = [cons EXCEPT !.ph = ph, !.todo = todo]

\* setRunnerDBStatus and the map entry that follows; a missing row gives the
\* zero Instance, stored under id, a refused change ends the consolidation.
SetPendingDelete(n, id) ==
    IF row[n] # "none" /\ ~MayBecome(n, "pending_delete")
      THEN cons' = NoCons /\ NoWrite /\ UNCHANGED <<runners, zero>>
      ELSE /\ UpdateStatus(n, "pending_delete") /\ Next1(n)
           /\ IF row[n] # "none"
                THEN runners' = [runners EXCEPT ![n] = Copy("pending_delete", rs[n])] /\ UNCHANGED zero
                ELSE IF id = "" THEN zero' = TRUE /\ UNCHANGED runners
                ELSE runners' = [runners EXCEPT ![n] = Zero] /\ UNCHANGED zero

\* ListAllRunners, before the worker's mutex is taken.
ConsolidateList ==
    /\ InPhase("no")
    /\ cons' = [NoCons EXCEPT !.ph = "got", !.gh = Registered, !.off = {n \in Names : gh[n] = "offline"}]
    /\ UNCHANGED <<db, world, wpc, start, target, runners, zero, wev, pev, late, faults, Idle>>

\* Runners of GitHub without an entry go, unless they are up.
ConsolidateUnknown ==
    /\ InPhase("got") /\ Phase("reap", Known)
    /\ gh' = [n \in Names |-> IF n \in cons.off \ Known /\ gh[n] # "active" THEN "none" ELSE gh[n]]
    /\ UNCHANGED <<db, vm, wpc, start, target, runners, zero, wev, pev, late, faults, Idle>>

Reapable(n) ==
    /\ runners[n].st \in Statuses \ Doomed /\ runners[n].rs = "pending"
    /\ n \notin cons.gh \/ n \in cons.off

\* reapTimedOutRunners, one runner: it is young, or it goes; GitHub refuses a busy one.
ReapOne(n) ==
    /\ InPhase("reap") /\ n \in cons.todo
    /\ \/ Next1(n) /\ NoWrite /\ UNCHANGED <<gh, runners, zero>>
       \/ Reapable(n) /\ gh[n] # "active" /\ RemoveRunner(n) /\ SetPendingDelete(n, "")
       \/ Reapable(n) /\ gh[n] = "active" /\ cons' = NoCons /\ NoWrite /\ UNCHANGED <<gh, runners, zero>>
    /\ UNCHANGED <<vm, wpc, start, target, late, faults, Idle>>

ReapDone ==
    /\ InPhase("reap") /\ cons.todo = {} /\ Phase("missing", Known)
    /\ UNCHANGED <<db, world, wpc, start, target, runners, zero, wev, pev, late, faults, Idle>>

\* Mutant of MissingOne: a runner that GitHub lists as offline is missing, too.
MissingOneOffline(n) ==
    /\ InPhase("missing") /\ n \in cons.todo
    /\ IF runners[n].st \in Statuses \ Doomed /\ (n \notin cons.gh \/ n \in cons.off)
         THEN /\ SetPendingDelete(n, n)
              /\ late' = IF n \notin cons.gh /\ gh[n] # "none" THEN late \cup {n} ELSE late
         ELSE Next1(n) /\ NoWrite /\ zero' = (zero \/ runners[n] = Zero) /\ UNCHANGED <<runners, late>>
    /\ UNCHANGED <<world, wpc, start, target, faults, Idle>>

\* A runner GitHub does not list goes.  A zero Instance has no name: no row is
\* found for it, and another zero Instance enters the map.
MissingOne(n) ==
    /\ InPhase("missing") /\ n \in cons.todo
    /\ IF runners[n].st \in Statuses \ Doomed /\ n \notin cons.gh
         THEN SetPendingDelete(n, n) /\ late' = IF gh[n] # "none" THEN late \cup {n} ELSE late
         ELSE Next1(n) /\ NoWrite /\ zero' = (zero \/ runners[n] = Zero) /\ UNCHANGED <<runners, late>>
    /\ UNCHANGED <<world, wpc, start, target, faults, Idle>>

\* The provider's list; machines without an entry are deleted.
ConsolidateProvider ==
    /\ InPhase("missing") /\ cons.todo = {}
    /\ \/ /\ cons' = [cons EXCEPT !.ph = "gone", !.todo = Known, !.vms = vm]
          /\ vm' = vm \cap {n \in Names : runners[n].st \in Statuses} /\ NoFault
       \/ Fault("list") /\ cons' = NoCons /\ UNCHANGED vm
    /\ UNCHANGED <<db, gh, wpc, start, target, runners, zero, wev, pev, late, Idle>>

\* A runner whose machine is gone goes; GitHub refuses a busy one.
GoneOne(n) ==
    /\ InPhase("gone") /\ n \in cons.todo
    /\ LET gone == runners[n].st \in {"running", "error"} /\ n \notin cons.vms
       IN \/ ~gone /\ Next1(n) /\ NoWrite /\ zero' = (zero \/ runners[n] = Zero) /\ UNCHANGED <<gh, runners>>
          \/ gone /\ gh[n] # "active" /\ RemoveRunner(n) /\ SetPendingDelete(n, "")
          \/ gone /\ gh[n] = "active" /\ cons' = NoCons /\ NoWrite /\ UNCHANGED <<gh, runners, zero>>
    /\ UNCHANGED <<vm, wpc, start, target, late, faults, Idle>>

ConsolidateDone ==
    /\ InPhase("gone") /\ cons.todo = {} /\ cons' = NoCons
    /\ UNCHANGED <<db, world, wpc, start, target, runners, zero, wev, pev, late, faults, Idle>>

-----------------------------------------------------------------------------
(* The job messages of the listener.                                       *)

Ack == \/ msgs' = Tail(msgs) /\ NoFault
       \/ UNCHANGED msgs /\ Fault("again")          \* crashed, or DeleteMessage failed

\* HandleJobsStarted: an error keeps the message in the queue.
HandleStarted ==
    /\ wpc = "up" /\ msgs # <<>> /\ Head(msgs).kind = "started"
    /\ LET n == Head(msgs).n
       IN /\ row[n] = "none" \/ rs[n] \in {"idle", "active"}
          /\ IF row[n] = "none" THEN NoWrite ELSE Write(n, row[n], "active")
    /\ Ack
    /\ UNCHANGED <<fresh, world, worker, prov, hist>>

\* Mutant of HandleCompleted: the message is acknowledged although the change
\* was refused.
HandleCompletedAnyway ==
    /\ wpc = "up" /\ msgs # <<>> /\ Head(msgs).kind = "completed"
    /\ LET n == Head(msgs).n
       IN /\ IF MayBecome(n, "pending_delete") THEN Write(n, "pending_delete", "terminated") ELSE NoWrite
          /\ acked' = acked \cup {n}
    /\ Ack
    /\ UNCHANGED <<fresh, world, worker, prov, late, bypassed, forced, botched>>

\* HandleJobsCompleted
HandleCompleted ==
    /\ wpc = "up" /\ msgs # <<>> /\ Head(msgs).kind = "completed"
    /\ LET n == Head(msgs).n
       IN /\ row[n] = "none" \/ MayBecome(n, "pending_delete")
          /\ IF row[n] = "none" THEN NoWrite ELSE Write(n, "pending_delete", "terminated")
          /\ acked' = acked \cup {n}
    /\ Ack
    /\ UNCHANGED <<fresh, world, worker, prov, late, bypassed, forced, botched>>

-----------------------------------------------------------------------------
(* The provider worker and its instance managers.                          *)

Outer == <<fresh, world, msgs, worker, hist>>
NoManager(n) ==
    /\ entry' = [entry EXCEPT ![n] = "none"] /\ run' = run \ {n}
    /\ mgr' = [mgr EXCEPT ![n] = "none"] /\ held' = [held EXCEPT ![n] = "none"]

\* handleInstanceAdded; it leaves a running manager alone, and a stopped one to
\* the retry loop.
Added(n, s) ==
    IF entry[n] = "none"
      THEN /\ entry' = [entry EXCEPT ![n] = s] /\ run' = run \cup {n}
           /\ mgr' = [mgr EXCEPT ![n] = s] /\ UNCHANGED held
      ELSE /\ entry' = [entry EXCEPT ![n] = IF n \in run THEN @ ELSE s]
           /\ UNCHANGED <<run, mgr, held>>

\* Update: the manager's updatesLoop takes one change and waits for the mutex;
\* while a provider call holds the mutex the next ones time out.
ManagerUpdate(n, s) ==
    /\ entry' = [entry EXCEPT ![n] = s] /\ UNCHANGED run
    /\ IF n \notin run THEN UNCHANGED <<mgr, held>>
       ELSE IF call[n] = "no" THEN held[n] = "none" /\ mgr' = [mgr EXCEPT ![n] = s] /\ UNCHANGED held
       ELSE held' = [held EXCEPT ![n] = IF @ = "none" THEN s ELSE @] /\ UNCHANGED mgr

\* handleInstanceEvent.  Stopping a manager waits for its mutex.  The payload of
\* a delete has no status, so stopAndDeleteInstance keeps the entry.
HandleInstanceEvent(e) ==
    /\ e \in pev /\ pev' = pev \ {e}
    /\ IF e.op = "create" THEN Added(e.n, e.st)
       ELSE IF e.op = "delete" \/ (e.st = "deleted" /\ entry[e.n] = "none") THEN UNCHANGED <<entry, run, mgr, held>>
       ELSE IF e.st = "deleted" THEN call[e.n] = "no" /\ NoManager(e.n)
       ELSE IF entry[e.n] = "none" THEN Added(e.n, e.st)
       ELSE ManagerUpdate(e.n, e.st)
    /\ UNCHANGED <<db, wev, call, faults, Outer>>

ApplyHeld(n) ==
    /\ n \in run /\ call[n] = "no" /\ held[n] # "none"
    /\ mgr' = [mgr EXCEPT ![n] = held[n]] /\ held' = [held EXCEPT ![n] = "none"]
    /\ UNCHANGED <<db, wev, pev, entry, run, call, faults, Outer>>

\* retryFailedRunners, for one entry without a running manager: a manager that
\* has stopped goes on with the instance it knew.
RetryOne(n) ==
    /\ entry[n] # "none" /\ n \notin run
    /\ IF entry[n] = "deleting" THEN NoManager(n)
       ELSE run' = run \cup {n} /\ UNCHANGED <<entry, mgr, held>>
    /\ UNCHANGED <<db, wev, pev, call, faults, Outer>>

Ready(n) == n \in run /\ call[n] = "no"
Calling(n, c) == call' = [call EXCEPT ![n] = c]
Unmanaged == <<entry, run, held>>

\* Mutant of CreateStart: the status is forced.
CreateStartForced(n) ==
    /\ Ready(n) /\ mgr[n] = "pending_create" /\ row[n] # "none"
    /\ ForceStatus(n, "creating") /\ Calling(n, "create")
    /\ UNCHANGED <<mgr, Unmanaged, faults, Outer>>

\* consolidateState of a manager: pending_create
CreateStart(n) ==
    /\ Ready(n) /\ mgr[n] = "pending_create" /\ MayBecome(n, "creating")
    /\ UpdateStatus(n, "creating") /\ Calling(n, "create")
    /\ UNCHANGED <<mgr, Unmanaged, faults, Outer>>

\* handleCreateInstanceInProvider: the call, then what it leaves.
CreateCall(n) ==
    /\ call[n] = "create" /\ vm' = vm \cup {n} /\ Calling(n, "created")
    /\ UNCHANGED <<db, fresh, gh, msgs, worker, wev, pev, mgr, Unmanaged, hist, faults>>

\* CreateInstance returns an error, or an instance in the state error; either way a
\* machine may be there.
CreateFail(n) ==
    /\ call[n] = "create" /\ Fault("create")
    /\ vm' \in {vm, vm \cup {n}} /\ botched' = botched \cup {n}
    /\ \E c \in {"failed", "broken"} : Calling(n, c)
    /\ UNCHANGED <<db, fresh, gh, msgs, worker, wev, pev, mgr, Unmanaged, late, bypassed, forced, acked>>

\* The deferred delete, which is only logged when it fails, and the status of the row,
\* which the manager learns from updateArgsFromProviderInstance but not after an error.
CreateClean(n) ==
    /\ call[n] \in {"failed", "broken"} /\ Calling(n, "no")
    /\ vm' \in {vm, vm \ {n}}
    /\ ForceStatus(n, "error")
    /\ mgr' = IF call[n] = "broken" /\ MayBecome(n, "error") THEN [mgr EXCEPT ![n] = "error"] ELSE mgr
    /\ UNCHANGED <<fresh, gh, msgs, worker, Unmanaged, hist, faults>>

\* updateArgsFromProviderInstance; when it is refused the row is set to error.
CreateRecord(n) ==
    /\ call[n] = "created" /\ Calling(n, "no")
    /\ IF MayBecome(n, "running")
         THEN UpdateStatus(n, "running") /\ mgr' = [mgr EXCEPT ![n] = "running"]
         ELSE ForceStatus(n, "error") /\ UNCHANGED mgr
    /\ UNCHANGED <<Unmanaged, faults, Outer>>

HandleError(n) ==
    /\ Ready(n) /\ mgr[n] = "error" /\ row[n] # "none"
    /\ ForceStatus(n, "pending_delete")
    /\ UNCHANGED <<mgr, call, Unmanaged, faults, Outer>>

\* pending_delete and pending_force_delete
DeleteStart(n) ==
    /\ Ready(n) /\ mgr[n] \in {"pending_delete", "pending_force_delete"} /\ row[n] # "none"
    /\ ForceStatus(n, "deleting")
    /\ Calling(n, IF mgr[n] = "pending_delete" THEN "delete" ELSE "force")
    /\ UNCHANGED <<mgr, Unmanaged, faults, Outer>>

\* The row becomes deleted, unless that is refused, and the manager ends.
Finish(n) ==
    /\ Calling(n, "no") /\ UpdateStatus(n, "deleted")
    /\ IF row[n] = "none" \/ MayBecome(n, "deleted")
         THEN run' = run \ {n} /\ held' = [held EXCEPT ![n] = "none"]
         ELSE UNCHANGED <<run, held>>
    /\ UNCHANGED <<mgr, entry>>

DeleteDone(n) ==
    /\ call[n] \in {"delete", "force"} /\ vm' = vm \ {n} /\ Finish(n)
    /\ UNCHANGED <<fresh, gh, msgs, worker, hist, faults>>

DeleteFail(n) ==
    /\ call[n] \in {"delete", "force"} /\ Fault("delete")
    /\ IF call[n] = "force" THEN Finish(n) /\ forced' = forced \cup {n}
       ELSE ForceStatus(n, "pending_delete") /\ Calling(n, "no") /\ UNCHANGED <<mgr, Unmanaged, forced>>
    /\ UNCHANGED <<fresh, world, msgs, worker, late, bypassed, botched, acked>>

-----------------------------------------------------------------------------
(* Start and restart.                                                      *)

\* The process ends and comes back: Provider.loadAllRunners starts a manager for
\* each row that was not in the middle of something.
Crash ==
    /\ Fault("crash")
    /\ LET load == {n \in Names : row[n] \in Statuses \ {"creating", "deleting", "deleted"}}
       IN /\ entry' = [n \in Names |-> IF n \in load THEN row[n] ELSE "none"]
          /\ mgr' = entry' /\ run' = load
    /\ held' = [n \in Names |-> "none"] /\ call' = [n \in Names |-> "no"]
    /\ wev' = {} /\ pev' = {}
    /\ wpc' = "down" /\ start' = {} /\ cons' = NoCons /\ zero' = FALSE
    /\ runners' = [n \in Names |-> Out]
    /\ UNCHANGED <<db, fresh, world, msgs, target, hist>>

\* Worker.Start, beside the managers: list the rows, ...
StartList ==
    /\ wpc = "down" /\ wpc' = "starting"
    /\ start' = {<<n, row[n]>> : n \in {m \in Names : row[m] # "none"}}
    /\ UNCHANGED <<db, fresh, world, msgs, target, runners, zero, cons, wev, pev, prov, hist, faults>>

Keep(n, s) == runners' = [runners EXCEPT ![n] = Copy(s, rs[n])]

\* ... put right what was interrupted, ...
\* A runner found in creating goes.  GitHub refuses to remove a busy one; Start then
\* compares its raw status, online or offline, with idle and active, which are the
\* results of GetStatus: it never spares it.
StartCreating(n) ==
    /\ wpc = "starting" /\ <<n, "creating">> \in start /\ start' = start \ {<<n, "creating">>}
    /\ \/ /\ (NoFault /\ RemoveRunner(n)) \/ (Fault("github") /\ UNCHANGED gh)
          /\ ForceStatus(n, "pending_delete") /\ Keep(n, "pending_delete")
          /\ botched' = IF gh'[n] # "none" THEN botched \cup {n} ELSE botched
       \/ Fault("github") /\ Keep(n, "creating") /\ NoWrite /\ UNCHANGED <<gh, botched>>
    /\ UNCHANGED <<fresh, vm, msgs, wpc, target, zero, cons, prov, late, bypassed, forced, acked>>

StartOne(n, s) ==
    /\ wpc = "starting" /\ <<n, s>> \in start /\ s # "creating" /\ start' = start \ {<<n, s>>}
    /\ CASE s = "deleting" -> ForceStatus(n, "pending_delete") /\ Keep(n, "pending_delete")
         [] s = "deleted"  -> DropRow(n, wev, pev) /\ UNCHANGED runners
         [] OTHER          -> Keep(n, s) /\ NoWrite
    /\ UNCHANGED <<fresh, world, msgs, wpc, target, zero, cons, prov, hist, faults>>

\* ... and only then register for changes.
StartDone ==
    /\ wpc = "starting" /\ start = {} /\ wpc' = "up"
    /\ UNCHANGED <<db, fresh, world, msgs, start, target, runners, zero, cons, wev, pev, prov, hist, faults>>

-----------------------------------------------------------------------------
(* GitHub, the machines, the administrator.                                *)

\* DeleteRunner of the API, forced or not; bypassGithubUnauthorized goes past any error
\* of GitHub, its refusal of a busy runner included.
ApiDelete(n) ==
    /\ row[n] \in {"running", "error", "pending_delete", "pending_force_delete"} /\ Fault("api")
    /\ \/ gh[n] # "active" /\ RemoveRunner(n) /\ UNCHANGED bypassed
       \/ UNCHANGED gh /\ bypassed' = bypassed \cup {n}
    /\ \E s \in {"pending_delete", "pending_force_delete"} : MayBecome(n, s) /\ UpdateStatus(n, s)
    /\ UNCHANGED <<fresh, vm, msgs, worker, prov, late, forced, botched, acked>>

VmBoots(n) ==
    /\ n \in vm /\ gh[n] = "offline" /\ gh' = [gh EXCEPT ![n] = "idle"]
    /\ UNCHANGED <<db, fresh, vm, msgs, worker, wev, pev, prov, hist, faults>>

\* The runner's callbacks: installing, idle.
Callback(n) ==
    /\ n \in vm /\ row[n] # "none" /\ rs[n] = "pending" /\ Write(n, row[n], "idle")
    /\ UNCHANGED <<fresh, world, msgs, worker, prov, hist, faults>>

JobStart(n) ==
    /\ n \in vm /\ gh[n] = "idle" /\ gh' = [gh EXCEPT ![n] = "active"]
    /\ msgs' = Append(msgs, [n |-> n, kind |-> "started"])
    /\ UNCHANGED <<db, fresh, vm, worker, wev, pev, prov, hist, faults>>

\* The runner is ephemeral: GitHub forgets it after its job.
JobDone(n) ==
    /\ n \in vm /\ gh[n] = "active" /\ gh' = [gh EXCEPT ![n] = "none"]
    /\ msgs' = Append(msgs, [n |-> n, kind |-> "completed"])
    /\ UNCHANGED <<db, fresh, vm, worker, wev, pev, prov, hist, faults>>

\* A machine disappears; what it ran fails.
VmFault(n) ==
    /\ n \in vm /\ Fault("vm") /\ vm' = vm \ {n}
    /\ gh' = [gh EXCEPT ![n] = IF @ = "none" THEN @ ELSE "offline"]
    /\ UNCHANGED <<db, fresh, msgs, worker, wev, pev, prov, hist>>

-----------------------------------------------------------------------------
Init ==
    /\ row = [n \in Names |-> "none"] /\ rs = [n \in Names |-> "pending"] /\ fresh = Names
    /\ gh = [n \in Names |-> "none"] /\ vm = {} /\ msgs = <<>>
    /\ wpc = "up" /\ start = {} /\ target \in 0..MaxRunners /\ zero = FALSE
    /\ runners = [n \in Names |-> Out] /\ cons = NoCons /\ wev = {} /\ pev = {}
    /\ entry = [n \in Names |-> "none"] /\ run = {} /\ mgr = entry /\ held = entry
    /\ call = [n \in Names |-> "no"]
    /\ late = {} /\ bypassed = {} /\ forced = {} /\ botched = {} /\ acked = {} /\ faults = 0

Consolidate ==
    \/ ConsolidateList \/ ConsolidateUnknown \/ ReapDone \/ ConsolidateProvider \/ ConsolidateDone
    \/ \E n \in Names : ReapOne(n) \/ MissingOne(n) \/ GoneOne(n)

Manage(n) ==
    \/ RetryOne(n) \/ ApplyHeld(n) \/ CreateStart(n) \/ CreateCall(n) \/ CreateClean(n) \/ CreateRecord(n)
    \/ HandleError(n) \/ DeleteStart(n) \/ DeleteDone(n)

Next ==
    \/ \E e \in wev : HandleEvent(e)
    \/ \E e \in pev : HandleInstanceEvent(e)
    \/ Consolidate \/ SetTarget \/ HandleStarted \/ HandleCompleted \/ DropEvent
    \/ \E n \in Names :
         \/ ScaleUp(n) \/ ScaleUpFails(n) \/ ScaleDown(n)
         \/ Manage(n) \/ CreateFail(n) \/ DeleteFail(n)
         \/ StartCreating(n) \/ \E s \in Statuses : StartOne(n, s)
         \/ ApiDelete(n) \/ VmBoots(n) \/ Callback(n) \/ JobStart(n) \/ JobDone(n) \/ VmFault(n)
    \/ Crash \/ StartList \/ StartDone

Spec == Init /\ [][Next]_vars

-----------------------------------------------------------------------------
(* Properties.                                                             *)

\* Every row of the scale set has an entry in the worker's map while the worker
\* runs, however changes overtake each other and wherever a restart falls: what
\* scaling does not count it does not create a second time.
RowsKnown == wpc = "up" => \A n \in Names : row[n] # "none" => runners[n] # Out

\* There are never more instances than MaxRunners.  CreateScaleSetInstance does
\* not count them: only the map keeps handleScaleUp from exceeding the number.
RowCap == Cardinality({n \in Names : row[n] # "none"}) <= MaxRunners

\* A machine has a row through which garm will remove it, also one that a failed
\* creation and a failed clean-up left, or that a restart found half created; except
\* when an administrator forced the removal and the provider then failed.
NoOrphanMachine == \A n \in vm : row[n] # "none" \/ n \in forced

\* The job messages: once the completion of a runner's job is acknowledged its
\* instance is on the way out, whatever state the row was in when it arrived.
AckMeansDoomed == \A n \in acked : row[n] \in Doomed \cup {"none", "error"}

\* garm does not take the machine from under a job: not when it scales down, reaps, works
\* from an old list, handles a job message twice or deletes for an administrator; except
\* of a runner that registered after GitHub was listed, one whose removal GitHub was not
\* asked for (bypassGithubUnauthorized), and one whose creation failed or was found half
\* done at a restart: Start does not spare it when it is busy.
BusyIsSafe ==
    [][\A n \in Names : n \in vm /\ gh[n] = "active" /\ n \notin vm' /\ faults' = faults
         => n \in late \cup bypassed \cup botched]_vars

\* What the comment at scaleset.go:248 says of Start: a busy runner found in creating is
\* marked as running.  The code does not keep to it.
SparedAtStart ==
    [][\A n \in Names : wpc = "starting" /\ row[n] = "creating" /\ gh[n] = "active"
         => row'[n] # "pending_delete"]_vars
=============================================================================
