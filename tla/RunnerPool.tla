----------------------------- MODULE RunnerPool -----------------------------
(***************************************************************************)
(* The GitLab CI runner pool manager, ci/runners/garm-gitlab: the webhook  *)
(* listener, the manager's dispatch loop, one reconcile loop per pool, the *)
(* scale-up goroutines the dispatcher spawns, and the three stores they    *)
(* keep in step: the in-memory instance map, the SQLite table and Incus,   *)
(* plus the runner registrations GitLab holds.                             *)
(*                                                                         *)
(* A step is the code between two points where another goroutine can run:  *)
(* one critical section of Pool.mu, or one call of Incus, GitLab or SQLite.*)
(* Every call can fail; a call that fails may still have taken effect.     *)
(*                                                                         *)
(* Instance.Status is left out: the code only ever writes "idle" to it, so *)
(* countIdle is the size of the map.  Instance.LastJobAt is left out too:  *)
(* it is only ever the zero time, and time.Since of the zero time exceeds  *)
(* every IdleTimeout, so every tracked instance is a scale-down candidate. *)
(*                                                                         *)
(* An instance id is the pool id and a timestamp, never used twice.  Here  *)
(* an id whose every trace is gone may stand for a new one (Fresh).        *)
(***************************************************************************)
EXTENDS Integers, Sequences, FiniteSets

CONSTANTS
    Pools,          \* pool ids; a pool also names its reconcile goroutine
    Inst,           \* instance ids (bound: how many may leave traces at once)
    PoolOf,         \* the pool whose id an instance id carries
    NoInst,         \* "no instance"
    Workers,        \* bound: createInstance calls of scale-up goroutines in flight
    MaxSpawned,     \* bound: scale-up goroutines of a pool not yet run
    Tags,           \* runner tags
    PoolTags,       \* PoolConfig.Tags
    Events,         \* the job events GitLab may post
    ChanCap,        \* capacity of eventCh (64 in main.go)
    MinIdle,        \* PoolConfig.MinIdle
    MaxRunners,     \* PoolConfig.MaxRunners
    FaultKinds,     \* what may go wrong
    MaxFaults       \* bound: how often something goes wrong

Threads == Workers \cup Pools

AllFaults == {"create", "prepare", "register", "start", "deregister", "delete",
              "save", "unstore", "crash", "sigterm", "late"}

ASSUME ConfigAssumption ==
    /\ MinIdle \in [Pools -> Nat]
    /\ MaxRunners \in [Pools -> Nat]
    /\ \A p \in Pools : MaxRunners[p] > 0 /\ MinIdle[p] <= MaxRunners[p]
    /\ PoolTags \in [Pools -> SUBSET Tags]

ASSUME WorldAssumption ==
    /\ PoolOf \in [Inst -> Pools]
    /\ IsFiniteSet(Inst) /\ NoInst \notin Inst
    /\ IsFiniteSet(Workers) /\ Workers \cap Pools = {}
    /\ \A e \in Events : e.tags \subseteq Tags
    /\ ChanCap \in Nat /\ MaxSpawned \in Nat /\ MaxFaults \in Nat
    /\ FaultKinds \subseteq AllFaults

VARIABLES
    phase,      \* "up", "cancelled" (ctx is done), "waiting" (in wg.Wait), "down"
                \* (ended with a failure) or "stopped" (ended as it was told to)
    eventCh,    \* the buffered channel from the listener to the manager
    spawned,    \* goroutines of dispatch that have not taken the lock yet
    instances,  \* Pool.instances, per pool
    stored,     \* the rows of the SQLite table
    incus,      \* external: the state of each container
    runner,     \* external: GitLab's registration of each instance's runner
    pc,         \* where each thread is
    at,         \* the instance each thread works on
    idle,       \* local of reconcile: idle
    current,    \* local of reconcile: current
    todo,       \* locals of scaleDownIdle: n - removed
    cands,      \* local of scaleDownIdle: the candidates not tried yet
    faults      \* how often something went wrong

locals == <<idle, current, todo, cands>>
outside == <<incus, runner>>
vars == <<phase, eventCh, spawned, instances, stored, outside, pc, at, locals,
          faults>>

Containers == {"absent", "stopped", "running", "serving"}
Registrations == {"none", "online"}
CreatePC == {"create", "prepare", "register", "start", "undoRunner",
             "undoInst", "save", "add"}
DestroyPC == {"deregister", "delete", "unstore", "forget"}
WorkerPC == {"free"} \cup CreatePC
ReconcilePC == {"sleep", "loop", "pick", "done"} \cup CreatePC \cup DestroyPC

TypeOK ==
    /\ phase \in {"up", "cancelled", "waiting", "down", "stopped"}
    /\ eventCh \in Seq(Events) /\ Len(eventCh) <= ChanCap
    /\ spawned \in [Pools -> 0..MaxSpawned]
    /\ instances \in [Pools -> SUBSET Inst]
    /\ stored \in SUBSET Inst
    /\ incus \in [Inst -> Containers]
    /\ runner \in [Inst -> Registrations]
    /\ pc \in [Threads -> WorkerPC \cup ReconcilePC]
    /\ at \in [Threads -> Inst \cup {NoInst}]
    /\ idle \in [Pools -> Nat] /\ current \in [Pools -> Nat]
    /\ todo \in [Pools -> Nat]
    /\ cands \in [Pools -> SUBSET Inst]
    /\ faults \in 0..MaxFaults

-----------------------------------------------------------------------------
(* What can go wrong.                                                      *)

Alive == phase \notin {"down", "stopped"}

\* A fault the environment injects, counted against the bound.
Fault(kind) ==
    /\ kind \in FaultKinds
    /\ faults < MaxFaults
    /\ faults' = faults + 1

\* A call that takes the context fails once the context is done.
CallFails(kind) ==
    \/ phase = "up" /\ Fault(kind)
    \/ phase # "up" /\ UNCHANGED faults

\* A select that finds ctx.Done and another case ready picks either; that it picks
\* the other one is counted against the bound.
SelectPicks ==
    \/ phase = "up" /\ UNCHANGED faults
    \/ phase # "up" /\ Fault("late")

\* DeleteInstance force-stops and deletes; an instance that is gone is an error.
CanDelete(i) == incus[i] # "absent"

DeleteFailed(i) ==
    \/ CallFails("delete") /\ incus' \in {[incus EXCEPT ![i] = s] :
                                            s \in {incus[i], "stopped", "absent"}}
    \/ ~CanDelete(i) /\ UNCHANGED <<incus, faults>>

StoredOf(p) == {i \in stored : PoolOf[i] = p}

Holders(i) == {t \in Threads : at[t] = i}

\* Nothing in the program refers to the id; nothing anywhere does, so that it can
\* stand for one never used.
Orphan(i) ==
    /\ i \notin stored /\ i \notin instances[PoolOf[i]]
    /\ i \notin cands[PoolOf[i]] /\ Holders(i) = {}

\* Mutant of Fresh: ids from a coarse clock, so that a live one comes up again.
FreshCoarse(i) == Holders(i) = {}

Fresh(i) ==
    /\ Orphan(i)
    /\ incus[i] = "absent" /\ runner[i] = "none"

countIdle(p) == Cardinality(instances[p])

-----------------------------------------------------------------------------
(* The webhook listener and the dispatch loop.                             *)

\* Mutant of Webhook: the send does not look at the channel's capacity.
WebhookNoCap(e) ==
    /\ phase \in {"up", "cancelled"} /\ Len(eventCh) <= ChanCap
    /\ eventCh' = Append(eventCh, e)
    /\ UNCHANGED <<phase, spawned, instances, stored, outside, pc, at, locals, faults>>

\* WebhookHandler.ServeHTTP: a non-blocking send, dropped when the channel is full.
Webhook(e) ==
    /\ phase \in {"up", "cancelled"}
    /\ eventCh' = IF Len(eventCh) < ChanCap THEN Append(eventCh, e) ELSE eventCh
    /\ UNCHANGED <<phase, spawned, instances, stored, outside, pc, at, locals, faults>>

matchesTags(p, jobTags) == PoolTags[p] \subseteq jobTags

Wakes(p, e) == e.status = "pending" /\ matchesTags(p, e.tags)

Dispatch ==
    /\ phase \in {"up", "cancelled"} /\ SelectPicks
    /\ eventCh # <<>>
    /\ \A p \in Pools : Wakes(p, Head(eventCh)) => spawned[p] < MaxSpawned
    /\ eventCh' = Tail(eventCh)
    /\ spawned' = [p \in Pools |-> IF Wakes(p, Head(eventCh))
                                     THEN spawned[p] + 1 ELSE spawned[p]]
    /\ UNCHANGED <<phase, instances, stored, outside, pc, at, locals>>

-----------------------------------------------------------------------------
(* scaleUpIfNeeded, in a goroutine of its own.                             *)

NeedsScaleUp(p) ==
    /\ countIdle(p) = 0
    /\ Cardinality(instances[p]) < MaxRunners[p]

ScaleUpSkip(p) ==
    /\ Alive /\ spawned[p] > 0
    /\ ~NeedsScaleUp(p)
    /\ spawned' = [spawned EXCEPT ![p] = @ - 1]
    /\ UNCHANGED <<phase, eventCh, instances, stored, outside, pc, at, locals, faults>>

ScaleUp(p, w, i) ==
    /\ Alive /\ spawned[p] > 0
    /\ NeedsScaleUp(p)
    /\ pc[w] = "free" /\ Fresh(i) /\ PoolOf[i] = p
    /\ spawned' = [spawned EXCEPT ![p] = @ - 1]
    /\ pc' = [pc EXCEPT ![w] = "create"]
    /\ at' = [at EXCEPT ![w] = i]
    /\ UNCHANGED <<phase, eventCh, instances, stored, outside, locals, faults>>

ScaleUpStep(p) == ScaleUpSkip(p) \/ \E w \in Workers, i \in Inst : ScaleUp(p, w, i)

-----------------------------------------------------------------------------
(* createInstance, run by a scale-up goroutine or by reconcile.            *)

\* reconcile's counters are dead once its loop is over.
DropCounters(p) ==
    /\ idle' = [idle EXCEPT ![p] = 0]
    /\ current' = [current EXCEPT ![p] = 0]

\* A failed createInstance ends the goroutine, or reconcile's loop.  There
\* idle < MinIdle still holds, so no scale-down follows and reconcile returns.
Abandon(t) ==
    /\ pc' = [pc EXCEPT ![t] = IF t \in Pools THEN "sleep" ELSE "free"]
    /\ at' = [at EXCEPT ![t] = NoInst]
    /\ IF t \in Pools THEN DropCounters(t) ELSE UNCHANGED <<idle, current>>
    /\ UNCHANGED <<todo, cands>>

CreateOK(t) ==
    /\ Alive /\ pc[t] = "create"
    /\ incus' = [incus EXCEPT ![at[t]] = "running"]
    /\ pc' = [pc EXCEPT ![t] = "prepare"]
    /\ UNCHANGED <<phase, eventCh, spawned, instances, stored, runner, at, locals, faults>>

\* Nothing is cleaned up, whatever the failed call left behind.
CreateFail(t) ==
    /\ Alive /\ pc[t] = "create"
    /\ CallFails("create")
    /\ incus' \in {[incus EXCEPT ![at[t]] = s] : s \in {"absent", "stopped", "running"}}
    /\ Abandon(t)
    /\ UNCHANGED <<phase, eventCh, spawned, instances, stored, runner>>

\* WaitForInstance and the RunCommand that installs gitlab-runner.
PrepareOK(t) ==
    /\ Alive /\ pc[t] = "prepare"
    /\ pc' = [pc EXCEPT ![t] = "register"]
    /\ UNCHANGED <<phase, eventCh, spawned, instances, stored, outside, at, locals, faults>>

\* Mutant of PrepareFail: the clean-up of steps 2 and 3 is forgotten.
PrepareFailLeaks(t) ==
    /\ Alive /\ pc[t] = "prepare"
    /\ CallFails("prepare")
    /\ Abandon(t)
    /\ UNCHANGED <<phase, eventCh, spawned, instances, stored, outside>>

PrepareFail(t) ==
    /\ Alive /\ pc[t] = "prepare"
    /\ CallFails("prepare")
    /\ pc' = [pc EXCEPT ![t] = "undoInst"]
    /\ UNCHANGED <<phase, eventCh, spawned, instances, stored, outside, at, locals>>

\* Mutant of RegisterOK: step 5, the start of gitlab-runner, is forgotten.
RegisterOKNoStart(t) ==
    /\ Alive /\ pc[t] = "register"
    /\ runner' = [runner EXCEPT ![at[t]] = "online"]
    /\ pc' = [pc EXCEPT ![t] = "save"]
    /\ UNCHANGED <<phase, eventCh, spawned, instances, stored, incus, at, locals, faults>>

RegisterOK(t) ==
    /\ Alive /\ pc[t] = "register"
    /\ runner' = [runner EXCEPT ![at[t]] = "online"]
    /\ pc' = [pc EXCEPT ![t] = "start"]
    /\ UNCHANGED <<phase, eventCh, spawned, instances, stored, incus, at, locals, faults>>

\* A lost reply leaves a registration nobody knows the token of.
RegisterFail(t) ==
    /\ Alive /\ pc[t] = "register"
    /\ CallFails("register")
    /\ runner' \in {[runner EXCEPT ![at[t]] = s] : s \in Registrations}
    /\ pc' = [pc EXCEPT ![t] = "undoInst"]
    /\ UNCHANGED <<phase, eventCh, spawned, instances, stored, incus, at, locals>>

StartOK(t) ==
    /\ Alive /\ pc[t] = "start"
    /\ incus' = [incus EXCEPT ![at[t]] = "serving"]
    /\ pc' = [pc EXCEPT ![t] = "save"]
    /\ UNCHANGED <<phase, eventCh, spawned, instances, stored, runner, at, locals, faults>>

StartFail(t) ==
    /\ Alive /\ pc[t] = "start"
    /\ CallFails("start")
    /\ incus' \in {[incus EXCEPT ![at[t]] = s] : s \in {"running", "serving"}}
    /\ pc' = [pc EXCEPT ![t] = "undoRunner"]
    /\ UNCHANGED <<phase, eventCh, spawned, instances, stored, runner, at, locals>>

\* Best effort: the error is ignored either way.
UndoRunner(t) ==
    /\ Alive /\ pc[t] = "undoRunner"
    /\ \/ runner' = [runner EXCEPT ![at[t]] = "none"] /\ UNCHANGED faults
       \/ CallFails("deregister") /\ UNCHANGED runner
    /\ pc' = [pc EXCEPT ![t] = "undoInst"]
    /\ UNCHANGED <<phase, eventCh, spawned, instances, stored, incus, at, locals>>

UndoInst(t) ==
    /\ Alive /\ pc[t] = "undoInst"
    /\ \/ CanDelete(at[t]) /\ incus' = [incus EXCEPT ![at[t]] = "absent"] /\ UNCHANGED faults
       \/ DeleteFailed(at[t])
    /\ Abandon(t)
    /\ UNCHANGED <<phase, eventCh, spawned, instances, stored, runner>>

\* SaveInstance; its failure is a warning and the instance is used all the same.
Save(t) ==
    /\ Alive /\ pc[t] = "save"
    /\ \/ stored' = stored \cup {at[t]} /\ UNCHANGED faults
       \/ Fault("save") /\ UNCHANGED stored
    /\ pc' = [pc EXCEPT ![t] = "add"]
    /\ UNCHANGED <<phase, eventCh, spawned, instances, outside, at, locals>>

Add(t) ==
    /\ Alive /\ pc[t] = "add"
    /\ instances' = [instances EXCEPT ![PoolOf[at[t]]] = @ \cup {at[t]}]
    /\ at' = [at EXCEPT ![t] = NoInst]
    /\ pc' = [pc EXCEPT ![t] = IF t \in Pools THEN "loop" ELSE "free"]
    /\ IF t \in Pools
         THEN /\ idle' = [idle EXCEPT ![t] = @ + 1]
              /\ current' = [current EXCEPT ![t] = @ + 1]
         ELSE UNCHANGED <<idle, current>>
    /\ UNCHANGED <<phase, eventCh, spawned, stored, outside, todo, cands, faults>>

CreateStep(t) ==
    \/ CreateOK(t) \/ CreateFail(t) \/ PrepareOK(t) \/ PrepareFail(t)
    \/ RegisterOK(t) \/ RegisterFail(t) \/ StartOK(t) \/ StartFail(t)
    \/ UndoRunner(t) \/ UndoInst(t) \/ Save(t) \/ Add(t)

-----------------------------------------------------------------------------
(* reconcile, one goroutine per pool.                                      *)

\* A tick of the 30 s ticker: the counters are read under the lock, once.
Tick(p) ==
    /\ Alive /\ pc[p] = "sleep" /\ SelectPicks
    /\ idle' = [idle EXCEPT ![p] = countIdle(p)]
    /\ current' = [current EXCEPT ![p] = Cardinality(instances[p])]
    /\ pc' = [pc EXCEPT ![p] = "loop"]
    /\ UNCHANGED <<phase, eventCh, spawned, instances, stored, outside, at, todo, cands>>

\* Mutants of WantsMore: one too many, one too few.
WantsOneMore(p) == idle[p] <= MinIdle[p] /\ current[p] < MaxRunners[p]
WantsOneLess(p) == idle[p] + 1 < MinIdle[p] /\ current[p] < MaxRunners[p]

WantsMore(p) == idle[p] < MinIdle[p] /\ current[p] < MaxRunners[p]

Grow(p, i) ==
    /\ Alive /\ pc[p] = "loop"
    /\ WantsMore(p)
    /\ Fresh(i) /\ PoolOf[i] = p
    /\ pc' = [pc EXCEPT ![p] = "create"]
    /\ at' = [at EXCEPT ![p] = i]
    /\ UNCHANGED <<phase, eventCh, spawned, instances, stored, outside, locals, faults>>

\* Mutant of Excess: MinIdle is not left out.
ExcessAll(p) == idle[p]

\* How many instances reconcile asks scaleDownIdle to remove.
Excess(p) == idle[p] - MinIdle[p]

Shrink(p) ==
    /\ Alive /\ pc[p] = "loop"
    /\ ~WantsMore(p) /\ Excess(p) > 0
    /\ todo' = [todo EXCEPT ![p] = Excess(p)]
    /\ cands' = [cands EXCEPT ![p] = instances[p]]
    /\ DropCounters(p)
    /\ pc' = [pc EXCEPT ![p] = "pick"]
    /\ UNCHANGED <<phase, eventCh, spawned, instances, stored, outside, at, faults>>

Settle(p) ==
    /\ Alive /\ pc[p] = "loop"
    /\ ~WantsMore(p) /\ Excess(p) <= 0
    /\ DropCounters(p)
    /\ pc' = [pc EXCEPT ![p] = "sleep"]
    /\ UNCHANGED <<phase, eventCh, spawned, instances, stored, outside, at, todo, cands, faults>>

\* The candidates come in the random order of a map iteration.
Pick(p, i) ==
    /\ Alive /\ pc[p] = "pick"
    /\ todo[p] > 0 /\ i \in cands[p]
    /\ cands' = [cands EXCEPT ![p] = @ \ {i}]
    /\ at' = [at EXCEPT ![p] = i]
    /\ pc' = [pc EXCEPT ![p] = "deregister"]
    /\ UNCHANGED <<phase, eventCh, spawned, instances, stored, outside, idle, current, todo, faults>>

PickNone(p) ==
    /\ Alive /\ pc[p] = "pick"
    /\ todo[p] = 0 \/ cands[p] = {}
    /\ cands' = [cands EXCEPT ![p] = {}]
    /\ todo' = [todo EXCEPT ![p] = 0]
    /\ pc' = [pc EXCEPT ![p] = "sleep"]
    /\ UNCHANGED <<phase, eventCh, spawned, instances, stored, outside, at, idle, current, faults>>

\* Mutant of Deregister: the container is never deleted.
DeregisterOnly(p) ==
    /\ Alive /\ pc[p] = "deregister"
    /\ \/ runner' = [runner EXCEPT ![at[p]] = "none"] /\ UNCHANGED faults
       \/ CallFails("deregister") /\ UNCHANGED runner
    /\ pc' = [pc EXCEPT ![p] = "unstore"]
    /\ UNCHANGED <<phase, eventCh, spawned, instances, stored, incus, at, locals>>

\* destroyInstance: a failed DeleteRunner, applied by GitLab or not, is a warning.
Deregister(p) ==
    /\ Alive /\ pc[p] = "deregister"
    /\ \/ runner' = [runner EXCEPT ![at[p]] = "none"] /\ UNCHANGED faults
       \/ CallFails("deregister") /\ UNCHANGED runner
    /\ pc' = [pc EXCEPT ![p] = "delete"]
    /\ UNCHANGED <<phase, eventCh, spawned, instances, stored, incus, at, locals>>

DeleteOK(p) ==
    /\ Alive /\ pc[p] = "delete"
    /\ CanDelete(at[p])
    /\ incus' = [incus EXCEPT ![at[p]] = "absent"]
    /\ pc' = [pc EXCEPT ![p] = "unstore"]
    /\ UNCHANGED <<phase, eventCh, spawned, instances, stored, runner, at, locals, faults>>

\* The error makes scaleDownIdle go on with the next candidate.
DeleteFail(p) ==
    /\ Alive /\ pc[p] = "delete"
    /\ DeleteFailed(at[p])
    /\ at' = [at EXCEPT ![p] = NoInst]
    /\ pc' = [pc EXCEPT ![p] = "pick"]
    /\ UNCHANGED <<phase, eventCh, spawned, instances, stored, runner, locals>>

Unstore(p) ==
    /\ Alive /\ pc[p] = "unstore"
    /\ \/ stored' = stored \ {at[p]} /\ UNCHANGED faults
       \/ Fault("unstore") /\ UNCHANGED stored
    /\ pc' = [pc EXCEPT ![p] = "forget"]
    /\ UNCHANGED <<phase, eventCh, spawned, instances, outside, at, locals>>

\* Mutant of Forget: removed is not incremented.
ForgetUncounted(p) ==
    /\ Alive /\ pc[p] = "forget"
    /\ instances' = [instances EXCEPT ![p] = @ \ {at[p]}]
    /\ at' = [at EXCEPT ![p] = NoInst]
    /\ pc' = [pc EXCEPT ![p] = "pick"]
    /\ UNCHANGED <<phase, eventCh, spawned, stored, outside, idle, current, todo, cands, faults>>

Forget(p) ==
    /\ Alive /\ pc[p] = "forget"
    /\ instances' = [instances EXCEPT ![p] = @ \ {at[p]}]
    /\ todo' = [todo EXCEPT ![p] = @ - 1]
    /\ at' = [at EXCEPT ![p] = NoInst]
    /\ pc' = [pc EXCEPT ![p] = "pick"]
    /\ UNCHANGED <<phase, eventCh, spawned, stored, outside, idle, current, cands, faults>>

ReconcileStep(p) ==
    \/ (\E i \in Inst : Grow(p, i)) \/ Shrink(p) \/ Settle(p)
    \/ (\E i \in Inst : Pick(p, i)) \/ PickNone(p)
    \/ Deregister(p) \/ DeleteOK(p) \/ DeleteFail(p) \/ Unstore(p) \/ Forget(p)

-----------------------------------------------------------------------------
(* Signals, crashes and restarts.                                          *)

\* SIGTERM or SIGINT, or an error of the listener, cancels the context every call
\* is given.
Signal ==
    /\ phase = "up" /\ Fault("sigterm")
    /\ phase' = "cancelled"
    /\ UNCHANGED <<eventCh, spawned, instances, stored, outside, pc, at, locals>>

\* Mutant of ManagerStop: the loop looks at ctx only after it received an event.
ManagerStopOnEvent ==
    /\ phase = "cancelled" /\ eventCh # <<>>
    /\ phase' = "waiting"
    /\ UNCHANGED <<eventCh, spawned, instances, stored, outside, pc, at, locals, faults>>

\* Manager.Run sees ctx.Done and waits for the reconcile loops alone.
ManagerStop ==
    /\ phase = "cancelled"
    /\ phase' = "waiting"
    /\ UNCHANGED <<eventCh, spawned, instances, stored, outside, pc, at, locals, faults>>

ReconcileReturn(p) ==
    /\ phase \in {"cancelled", "waiting"} /\ pc[p] = "sleep"
    /\ pc' = [pc EXCEPT ![p] = "done"]
    /\ UNCHANGED <<phase, eventCh, spawned, instances, stored, outside, at, locals, faults>>

\* The process ends: what it held in memory is gone.
Halt ==
    /\ phase' \in {"down", "stopped"}
    /\ eventCh' = <<>>
    /\ spawned' = [p \in Pools |-> 0]
    /\ instances' = [p \in Pools |-> {}]
    /\ pc' = [t \in Threads |-> IF t \in Pools THEN "sleep" ELSE "free"]
    /\ at' = [t \in Threads |-> NoInst]
    /\ idle' = [p \in Pools |-> 0] /\ current' = [p \in Pools |-> 0]
    /\ todo' = [p \in Pools |-> 0] /\ cands' = [p \in Pools |-> {}]
    /\ UNCHANGED <<stored, outside>>

\* run() returns; scale-up goroutines still at work die with the process.  It returns
\* nil after a signal, and the listener's error if there was one.
Exit ==
    /\ phase = "waiting" /\ \A p \in Pools : pc[p] = "done"
    /\ Halt /\ UNCHANGED faults

\* A process that dies while it is being stopped counts as stopped.
Crash ==
    /\ Alive /\ Fault("crash")
    /\ Halt /\ (phase = "up" => phase' = "down")

\* Mutant of Restart: loadFromStore is not called.
RestartEmpty ==
    /\ ~Alive
    /\ phase' = "up"
    /\ UNCHANGED <<eventCh, spawned, instances, stored, outside, pc, at, locals, faults>>

\* NewManager: every pool loads its rows of the store.
Restart ==
    /\ ~Alive
    /\ phase' = "up"
    /\ instances' = [p \in Pools |-> StoredOf(p)]
    /\ UNCHANGED <<eventCh, spawned, stored, outside, pc, at, locals, faults>>

\* External: an operator removes by hand what nothing in the program refers to.
Sweep(i) ==
    /\ Orphan(i) /\ ~Fresh(i)
    /\ incus' = [incus EXCEPT ![i] = "absent"]
    /\ runner' = [runner EXCEPT ![i] = "none"]
    /\ UNCHANGED <<phase, eventCh, spawned, instances, stored, pc, at, locals, faults>>

-----------------------------------------------------------------------------
Init ==
    /\ phase = "up"
    /\ eventCh = <<>>
    /\ spawned = [p \in Pools |-> 0]
    /\ instances = [p \in Pools |-> {}]
    /\ stored = {}
    /\ incus = [i \in Inst |-> "absent"]
    /\ runner = [i \in Inst |-> "none"]
    /\ pc = [t \in Threads |-> IF t \in Pools THEN "sleep" ELSE "free"]
    /\ at = [t \in Threads |-> NoInst]
    /\ idle = [p \in Pools |-> 0] /\ current = [p \in Pools |-> 0]
    /\ todo = [p \in Pools |-> 0] /\ cands = [p \in Pools |-> {}]
    /\ faults = 0

\* Everything but the arrival of events.
ManagerNext ==
    \/ Dispatch
    \/ \E p \in Pools : ScaleUpStep(p)
    \/ \E t \in Threads : CreateStep(t)
    \/ \E p \in Pools : Tick(p) \/ ReconcileStep(p) \/ ReconcileReturn(p)
    \/ \E i \in Inst : Sweep(i)
    \/ Signal \/ ManagerStop \/ Exit \/ Crash \/ Restart

Next == (\E e \in Events : Webhook(e)) \/ ManagerNext

Spec == Init /\ [][Next]_vars

\* The unit file says Restart=on-failure: a process that failed is started again, one
\* that ended cleanly after a signal is not, unless an administrator does so.
Recover == phase = "down" /\ Restart

\* Every goroutine that can run does, every call returns, the ticker ticks and
\* the service manager restarts a process that failed.  Events, faults, signals and the
\* start of a stopped process are owed to nobody.  That Sweep happens only undoes the
\* bound on ids: leftovers would otherwise use up Inst.
Fairness ==
    /\ WF_vars(Dispatch) /\ WF_vars(ManagerStop) /\ WF_vars(Exit) /\ WF_vars(Recover)
    /\ \A i \in Inst : WF_vars(Sweep(i))
    /\ \A t \in Threads : WF_vars(CreateStep(t))
    /\ \A p \in Pools :
         /\ WF_vars(ScaleUpStep(p))
         /\ WF_vars(Tick(p)) /\ WF_vars(ReconcileStep(p)) /\ WF_vars(ReconcileReturn(p))

FairSpec == Spec /\ Fairness

-----------------------------------------------------------------------------
(* Properties.                                                             *)

Ready(i) == incus[i] = "serving" /\ runner[i] = "online"

Known == stored \cup UNION {instances[p] : p \in Pools}

\* An instance enters the map or the store only as a complete runner: container
\* up, gitlab-runner started, registration accepted (createInstance's order).
BornReady ==
    [][\A i \in Inst : i \notin Known /\ i \in Known' => Ready(i)']_vars

\* A known runner stops being usable only by the hand of its pool's own
\* destroyInstance, never by another goroutine's clean-up, a crash or a restart.
OnlyDestroySpoils ==
    [][\A i \in Inst : i \in Known /\ Ready(i) /\ ~Ready(i)' =>
         \E p \in Pools : pc[p] \in {"deregister", "delete"} /\ at[p] = i]_vars

\* Scaling down never leaves a pool with fewer instances than MinIdle, however
\* many goroutines add or fail to delete in between (reconcile's stale counters).
NeverBelowMinIdle ==
    [][\A p \in Pools : Alive' /\ instances'[p] # instances[p]
                           /\ instances'[p] \subseteq instances[p] =>
         Cardinality(instances'[p]) >= MinIdle[p]]_vars

\* The check-then-create race is bounded: a pool never tracks more than MinIdle
\* instances plus one for each scale-up goroutine that can be in flight, as long as
\* no row stays behind a deleted instance (a restart would load it as one more).
OvershootBound ==
    \A p \in Pools : Cardinality(instances[p]) <= MinIdle[p] + Cardinality(Workers)

\* The store is written before the map: while neither write fails, the two differ
\* only on the instance a thread is between the two writes of.
StoreMirrorsMap ==
    Alive => \A p \in Pools : \A i \in Inst :
        (i \in instances[p]) # (i \in StoredOf(p)) =>
            \E t \in Holders(i) : pc[t] \in {"add", "forget"}

\* A row is deleted only once the container is gone (destroyInstance's order).
RecordOutlivesContainer ==
    [][\A i \in stored : i \notin stored' => incus[i] = "absent"]_vars

\* A container is let go of only where createInstance cannot or does not clean up:
\* a failed CreateInstance, a failed DeleteInstance of the clean-up, or the end of
\* the process.  Every other error path and every scale-down leaves nothing behind.
LeaksOnlyThere ==
    [][\A i \in Inst : ~Orphan(i) /\ Orphan(i)' /\ incus'[i] # "absent" =>
         \/ ~Alive'
         \/ \E t \in Threads : pc[t] \in {"create", "undoInst"} /\ at[t] = i]_vars

\* The pool comes back to MinIdle instances and stays there once things stop
\* going wrong ("The reconcile loop will scale up to this count proactively"), unless
\* the process was told to stop and nobody has started it again.
KeepsWarm ==
    \A p \in Pools :
        <>[](phase = "stopped" \/ (Alive /\ Cardinality(instances[p]) >= MinIdle[p]))

\* SIGTERM ends the process: no reconcile loop, stuck call or event stream keeps
\* wg.Wait from returning.
ShutsDown == phase = "cancelled" ~> ~Alive

\* "MaxRunners is the hard cap on total instances (idle + running) in this pool."
HardCap == \A p \in Pools : Cardinality(instances[p]) <= MaxRunners[p]

\* "Warm runners to keep ready at all times" (min_idle): that many instances that
\* can take a job, once things stop going wrong.
KeepsReady ==
    \A p \in Pools : <>[](Cardinality({i \in instances[p] : Ready(i)}) >= MinIdle[p])

=============================================================================
