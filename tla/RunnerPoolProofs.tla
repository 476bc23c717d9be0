-------------------------- MODULE RunnerPoolProofs --------------------------
(***************************************************************************)
(* Proofs about RunnerPool, for every number of pools, instances, goroutines*)
(* and faults.  They rest on one inductive invariant, IndInv.              *)
(***************************************************************************)
EXTENDS RunnerPool, FiniteSetTheorems, TLAPS

Working(t) == pc[t] \in CreatePC \cup DestroyPC
Shrinking(p) == pc[p] \in {"pick"} \cup DestroyPC

\* Where each thread can be, and that it works on an instance of its own pool
\* exactly between naming it and letting go of it.
Control ==
    /\ \A w \in Workers : pc[w] \in WorkerPC
    /\ \A p \in Pools : pc[p] \in ReconcilePC
    /\ \A t \in Threads : Working(t) <=> at[t] # NoInst
    /\ \A p \in Pools : Working(p) => PoolOf[at[p]] = p
    /\ ~Alive => \A t \in Threads : ~Working(t)
    /\ ~Alive => \A p \in Pools : pc[p] = "sleep" /\ instances[p] = {}

\* No two threads work on the same instance; what is being created is not tracked
\* yet, and not stored before its turn; what is being destroyed still is tracked.
Ownership ==
    /\ \A p \in Pools : \A i \in instances[p] : PoolOf[i] = p
    /\ \A t, u \in Threads : at[t] = at[u] /\ at[t] # NoInst => t = u
    /\ \A t \in Threads : pc[t] \in CreatePC => at[t] \notin instances[PoolOf[at[t]]]
    /\ \A t \in Threads : pc[t] \in CreatePC \ {"add"} => at[t] \notin stored
    /\ \A p \in Pools : pc[p] \in DestroyPC => at[p] \in instances[p] /\ at[p] \notin cands[p]
    /\ \A p \in Pools : cands[p] \subseteq instances[p]
    /\ \A p \in Pools : ~Shrinking(p) => cands[p] = {}

\* reconcile's counters never promise more than the map holds: its idle count is a
\* lower bound, and what is left to remove leaves MinIdle instances.
Floor ==
    \A p \in Pools :
        /\ pc[p] \in {"loop"} \cup CreatePC => idle[p] <= Cardinality(instances[p])
        /\ Shrinking(p) => Cardinality(instances[p]) >= MinIdle[p] + todo[p]
        /\ pc[p] \in DestroyPC => todo[p] > 0

IndInv == TypeOK /\ Control /\ Ownership /\ Floor

-----------------------------------------------------------------------------
(* Cardinalities of sets of instances.                                     *)

\* The map of a pool is finite and has a natural number of entries.
LEMMA CardNat ==
    ASSUME NEW S \in SUBSET Inst
    PROVE  IsFiniteSet(S) /\ Cardinality(S) \in Nat
BY WorldAssumption, FS_Subset, FS_CardinalityType

\* Adding an instance to the map adds one, or nothing if it was there.
LEMMA CardAdd ==
    ASSUME NEW S \in SUBSET Inst, NEW x \in Inst
    PROVE  /\ x \notin S => Cardinality(S \cup {x}) = Cardinality(S) + 1
           /\ Cardinality(S \cup {x}) >= Cardinality(S)
<1>1. IsFiniteSet(S) /\ Cardinality(S) \in Nat
  BY CardNat
<1>2. Cardinality(S \cup {x}) = IF x \in S THEN Cardinality(S) ELSE Cardinality(S) + 1
  BY <1>1, FS_AddElement, Zenon
<1> QED BY <1>1, <1>2

\* Removing one takes away at most one.
LEMMA CardRemove ==
    ASSUME NEW S \in SUBSET Inst, NEW x \in Inst
    PROVE  Cardinality(S \ {x}) >= Cardinality(S) - 1
<1>1. IsFiniteSet(S) /\ Cardinality(S) \in Nat
  BY CardNat
<1>2. Cardinality(S \ {x}) = IF x \in S THEN Cardinality(S) - 1 ELSE Cardinality(S)
  BY <1>1, FS_RemoveElement, Zenon
<1> QED BY <1>1, <1>2

\* A union has no more elements than its parts.
LEMMA CardUnion ==
    ASSUME NEW S, NEW T, IsFiniteSet(S), IsFiniteSet(T)
    PROVE  /\ IsFiniteSet(S \cup T) /\ Cardinality(S) \in Nat /\ Cardinality(T) \in Nat
           /\ Cardinality(S \cup T) \in Nat /\ Cardinality(S \cup T) <= Cardinality(S) + Cardinality(T)
<1>1. IsFiniteSet(S \cap T) /\ IsFiniteSet(S \cup T)
  BY FS_Intersection, FS_Union
<1>2. /\ Cardinality(S) \in Nat /\ Cardinality(T) \in Nat
      /\ Cardinality(S \cap T) \in Nat /\ Cardinality(S \cup T) \in Nat
  BY <1>1, FS_CardinalityType
<1>3. Cardinality(S \cup T) = Cardinality(S) + Cardinality(T) - Cardinality(S \cap T)
  BY FS_Union
<1>4. QED
  BY <1>1, <1>2, <1>3

-----------------------------------------------------------------------------
(* The inductive invariant.                                                *)

\* The parts of createInstance that leave the map, the locals and the thread's
\* instance alone.
LEMMA CreateCallInd ==
    ASSUME IndInv, NEW t \in Threads,
           CreateOK(t) \/ PrepareOK(t) \/ PrepareFail(t) \/ RegisterOK(t)
             \/ RegisterFail(t) \/ StartOK(t) \/ StartFail(t) \/ UndoRunner(t)
    PROVE  IndInv'
<1> USE DEF IndInv, CreatePC, DestroyPC, WorkerPC, ReconcilePC, Threads
<1>1. /\ UNCHANGED <<phase, eventCh, spawned, instances, stored, at, locals>>
      /\ pc[t] \in CreatePC \ {"add"}
      /\ \E x \in CreatePC \ {"add"} : pc' = [pc EXCEPT ![t] = x]
  BY DEF CreateOK, PrepareOK, PrepareFail, RegisterOK, RegisterFail, StartOK, StartFail, UndoRunner, outside
<1>2. faults' \in 0..MaxFaults
  BY WorldAssumption DEF CreateOK, PrepareOK, PrepareFail, RegisterOK, RegisterFail, StartOK, StartFail, UndoRunner, CallFails, Fault, TypeOK
<1>3. incus' \in [Inst -> Containers] /\ runner' \in [Inst -> Registrations]
  <2>1. CASE CreateOK(t)
    BY <2>1 DEF CreateOK, outside, TypeOK, Containers, Registrations
  <2>2. CASE PrepareOK(t)
    BY <2>2 DEF PrepareOK, outside, TypeOK, Containers, Registrations
  <2>3. CASE PrepareFail(t)
    BY <2>3 DEF PrepareFail, outside, TypeOK, Containers, Registrations
  <2>4. CASE RegisterOK(t)
    BY <2>4 DEF RegisterOK, outside, TypeOK, Containers, Registrations
  <2>5. CASE RegisterFail(t)
    BY <2>5 DEF RegisterFail, outside, TypeOK, Containers, Registrations
  <2>6. CASE StartOK(t)
    BY <2>6 DEF StartOK, outside, TypeOK, Containers, Registrations
  <2>7. CASE StartFail(t)
    BY <2>7 DEF StartFail, outside, TypeOK, Containers, Registrations
  <2>8. CASE UndoRunner(t)
    <3>1. /\ incus' = incus
          /\ runner' = runner \/ runner' = [runner EXCEPT ![at[t]] = "none"]
      BY <2>8 DEF UndoRunner
    <3> QED BY <3>1 DEF TypeOK, Registrations
  <2> QED BY <2>1, <2>2, <2>3, <2>4, <2>5, <2>6, <2>7, <2>8
<1>4. TypeOK'
  BY <1>1, <1>2, <1>3 DEF TypeOK, locals
<1>5. Control'
  BY <1>1 DEF TypeOK, Control, Working, Alive
<1>6. Ownership'
  BY <1>1 DEF TypeOK, Control, Working, Ownership, locals, Shrinking
<1>7. Floor'
  BY <1>1 DEF TypeOK, Control, Floor, locals, Shrinking
<1> QED BY <1>4, <1>5, <1>6, <1>7

\* What a failed or a successful DeleteInstance does to the world outside.
LEMMA DeleteFailedType ==
    ASSUME TypeOK, NEW i \in Inst \cup {NoInst}, DeleteFailed(i)
    PROVE  incus' \in [Inst -> Containers] /\ faults' \in 0..MaxFaults
<1>1. CASE CallFails("delete") /\ incus' \in {[incus EXCEPT ![i] = s] :
                                                s \in {incus[i], "stopped", "absent"}}
  <2>1. PICK s \in {incus[i], "stopped", "absent"} : incus' = [incus EXCEPT ![i] = s]
    BY <1>1
  <2>2. incus' \in [Inst -> Containers]
    BY <2>1 DEF TypeOK, Containers
  <2>3. faults' \in 0..MaxFaults
    BY <1>1, WorldAssumption DEF TypeOK, CallFails, Fault
  <2> QED BY <2>2, <2>3
<1>2. CASE UNCHANGED <<incus, faults>>
  BY <1>2 DEF TypeOK
<1> QED BY <1>1, <1>2 DEF DeleteFailed

\* createInstance gives up: the thread lets go of its instance.
LEMMA AbandonInd ==
    ASSUME IndInv, NEW t \in Threads, CreateFail(t) \/ UndoInst(t)
    PROVE  IndInv'
<1> USE DEF IndInv, CreatePC, DestroyPC, WorkerPC, ReconcilePC, Threads
<1>1. /\ UNCHANGED <<phase, eventCh, spawned, instances, stored, runner, todo, cands>>
      /\ pc[t] \in CreatePC
      /\ pc' = [pc EXCEPT ![t] = IF t \in Pools THEN "sleep" ELSE "free"]
      /\ at' = [at EXCEPT ![t] = NoInst]
      /\ IF t \in Pools THEN DropCounters(t) ELSE UNCHANGED <<idle, current>>
  BY DEF CreateFail, UndoInst, Abandon
<1>2. incus' \in [Inst -> Containers] /\ faults' \in 0..MaxFaults
  <2>1. CASE CreateFail(t)
    <3>1. faults' \in 0..MaxFaults
      BY <2>1, WorldAssumption DEF CreateFail, CallFails, Fault, TypeOK
    <3> QED BY <2>1, <3>1 DEF CreateFail, TypeOK, Containers
  <2>2. CASE UndoInst(t) /\ DeleteFailed(at[t])
    <3>1. at[t] \in Inst \cup {NoInst}
      BY DEF TypeOK
    <3> QED BY <2>2, <3>1, DeleteFailedType
  <2>3. CASE UndoInst(t) /\ ~DeleteFailed(at[t])
    <3>1. incus' = [incus EXCEPT ![at[t]] = "absent"] /\ UNCHANGED faults
      BY <2>3 DEF UndoInst
    <3> QED BY <3>1 DEF TypeOK, Containers
  <2> QED BY <2>1, <2>2, <2>3
<1>3. TypeOK'
  <2>1. idle' \in [Pools -> Nat] /\ current' \in [Pools -> Nat]
    <3>1. idle \in [Pools -> Nat] /\ current \in [Pools -> Nat]
      BY DEF TypeOK
    <3>2. DropCounters(t) \/ UNCHANGED <<idle, current>>
      BY <1>1
    <3> HIDE DEF IndInv
    <3> QED BY <3>1, <3>2 DEF DropCounters
  <2> QED BY <1>1, <1>2, <2>1 DEF TypeOK
<1>4. Control'
  BY <1>1, WorldAssumption DEF TypeOK, Control, Working, Alive
<1>5. Ownership'
  BY <1>1, WorldAssumption DEF TypeOK, Control, Working, Ownership, Shrinking
<1>6. Floor'
  <2>1. \A p \in Pools : p # t => idle'[p] = idle[p] /\ pc'[p] = pc[p]
    BY <1>1 DEF DropCounters, TypeOK
  <2>2. t \in Pools => pc'[t] = "sleep"
    BY <1>1 DEF TypeOK
  <2> QED BY <1>1, <2>1, <2>2 DEF TypeOK, Floor, Shrinking
<1> QED BY <1>3, <1>4, <1>5, <1>6

\* The last two writes of createInstance.
LEMMA SaveInd ==
    ASSUME IndInv, NEW t \in Threads, Save(t)
    PROVE  IndInv'
<1> USE DEF IndInv, CreatePC, DestroyPC, WorkerPC, ReconcilePC, Threads
<1>1. /\ UNCHANGED <<phase, eventCh, spawned, instances, outside, at, locals>>
      /\ pc[t] = "save" /\ pc' = [pc EXCEPT ![t] = "add"]
      /\ stored' = stored \/ stored' = stored \cup {at[t]}
  BY DEF Save
<1>2. at[t] \in Inst /\ faults' \in 0..MaxFaults
  BY WorldAssumption DEF Save, Fault, TypeOK, Control, Working
<1>3. TypeOK'
  BY <1>1, <1>2 DEF TypeOK, outside, locals
<1>4. Control'
  BY <1>1 DEF TypeOK, Control, Working, Alive
<1>5. Ownership'
  BY <1>1, <1>2, WorldAssumption DEF TypeOK, Control, Working, Ownership, Shrinking, locals
<1>6. Floor'
  BY <1>1 DEF TypeOK, Control, Floor, Shrinking, locals
<1> QED BY <1>3, <1>4, <1>5, <1>6

\* The new instance enters the map, which grows; reconcile counts it if it created it.
LEMMA AddInd ==
    ASSUME IndInv, NEW t \in Threads, Add(t)
    PROVE  IndInv'
<1> USE DEF IndInv, CreatePC, DestroyPC, WorkerPC, ReconcilePC, Threads
<1> DEFINE i == at[t]
           q == PoolOf[i]
<1>1. /\ UNCHANGED <<phase, eventCh, spawned, stored, outside, todo, cands, faults>>
      /\ pc[t] = "add" /\ pc' = [pc EXCEPT ![t] = IF t \in Pools THEN "loop" ELSE "free"]
      /\ instances' = [instances EXCEPT ![q] = @ \cup {i}]
      /\ at' = [at EXCEPT ![t] = NoInst]
      /\ IF t \in Pools
           THEN /\ idle' = [idle EXCEPT ![t] = @ + 1]
                /\ current' = [current EXCEPT ![t] = @ + 1]
           ELSE UNCHANGED <<idle, current>>
  BY DEF Add
<1>2. i \in Inst /\ q \in Pools /\ i \notin instances[q]
  BY <1>1, WorldAssumption DEF TypeOK, Control, Working, Ownership
<1>3. TypeOK'
  <2>1. idle' \in [Pools -> Nat] /\ current' \in [Pools -> Nat]
    <3>1. CASE t \in Pools
      <4>1. idle \in [Pools -> Nat] /\ current \in [Pools -> Nat] /\ idle[t] + 1 \in Nat /\ current[t] + 1 \in Nat
        BY <3>1 DEF TypeOK
      <4>2. idle' = [idle EXCEPT ![t] = idle[t] + 1] /\ current' = [current EXCEPT ![t] = current[t] + 1]
        BY <1>1, <3>1
      <4> QED BY <4>1, <4>2
    <3>2. CASE t \notin Pools
      BY <1>1, <3>2 DEF TypeOK
    <3> QED BY <3>1, <3>2
  <2>2. instances' \in [Pools -> SUBSET Inst]
    BY <1>1, <1>2 DEF TypeOK
  <2>3. at' \in [Threads -> Inst \cup {NoInst}] /\ pc' \in [Threads -> WorkerPC \cup ReconcilePC]
    BY <1>1 DEF TypeOK
  <2> QED BY <1>1, <2>1, <2>2, <2>3 DEF TypeOK, outside
<1>4. Control'
  BY <1>1, <1>2, WorldAssumption DEF TypeOK, Control, Working, Alive
<1>5. Ownership'
  <2>1. \A p \in Pools : instances'[p] = IF p = q THEN instances[p] \cup {i} ELSE instances[p]
    BY <1>1, <1>2 DEF TypeOK
  <2>2. \A u \in Threads : u # t => at'[u] = at[u] /\ pc'[u] = pc[u] /\ at[u] # i
    BY <1>1, <1>2, WorldAssumption DEF TypeOK, Ownership
  <2>3. at'[t] = NoInst /\ pc'[t] \in {"loop", "free"}
    BY <1>1 DEF TypeOK
  <2>4. \A p \in Pools : \A j \in instances'[p] : PoolOf[j] = p
    <3> TAKE p \in Pools
    <3>1. CASE p = q
      <4>1. instances'[p] = instances[p] \cup {i} /\ PoolOf[i] = p
        BY <2>1, <3>1
      <4>2. \A j \in instances[p] : PoolOf[j] = p
        BY DEF Ownership
      <4> HIDE DEF i, q
      <4> QED BY <4>1, <4>2
    <3>2. CASE p # q
      BY <2>1, <3>2 DEF Ownership
    <3> QED BY <3>1, <3>2
  <2>5. \A u, v \in Threads : at'[u] = at'[v] /\ at'[u] # NoInst => u = v
    BY <2>2, <2>3 DEF Ownership
  <2>6. \A u \in Threads : pc'[u] \in CreatePC => at'[u] \notin instances'[PoolOf[at'[u]]]
    <3> SUFFICES ASSUME NEW u \in Threads, pc'[u] \in CreatePC
                 PROVE  at'[u] \notin instances'[PoolOf[at'[u]]]
      OBVIOUS
    <3>1. u # t
      BY <2>3
    <3>2. at[u] \in Inst /\ PoolOf[at[u]] \in Pools /\ at[u] \notin instances[PoolOf[at[u]]]
      BY <3>1, <2>2, WorldAssumption DEF TypeOK, Control, Working, Ownership
    <3>3. at'[u] = at[u] /\ at[u] # i
      BY <3>1, <2>2
    <3> DEFINE r == PoolOf[at[u]]
    <3>4. instances'[r] \subseteq instances[r] \cup {i}
      BY <3>2, <2>1
    <3> QED BY <3>2, <3>3, <3>4
  <2>7. \A u \in Threads : pc'[u] \in CreatePC \ {"add"} => at'[u] \notin stored'
    BY <1>1, <2>2, <2>3 DEF Ownership
  <2>8. \A p \in Pools : pc'[p] \in DestroyPC => at'[p] \in instances'[p] /\ at'[p] \notin cands'[p]
    BY <1>1, <2>1, <2>2, <2>3 DEF Ownership
  <2>9. \A p \in Pools : cands'[p] \subseteq instances'[p]
    BY <1>1, <2>1 DEF Ownership
  <2>10. \A p \in Pools : ~Shrinking(p)' => cands'[p] = {}
    BY <1>1, <2>2, <2>3 DEF Ownership, Shrinking
  <2> QED BY <2>4, <2>5, <2>6, <2>7, <2>8, <2>9, <2>10 DEF Ownership
<1>6. Floor'
  <2>1. /\ Cardinality(instances[q]) \in Nat
        /\ Cardinality(instances[q] \cup {i}) = Cardinality(instances[q]) + 1
    BY <1>2, CardAdd, CardNat DEF TypeOK
  <2>2. \A p \in Pools : Cardinality(instances'[p]) = IF p = q THEN Cardinality(instances[p]) + 1
                                                              ELSE Cardinality(instances[p])
    BY <1>1, <1>2, <2>1 DEF TypeOK
  <2>3. \A p \in Pools : Cardinality(instances[p]) \in Nat
    BY CardNat DEF TypeOK
  <2>4. t \in Pools => q = t
    BY <1>1 DEF Control, Working
  <2>5. \A p \in Pools : p # t => idle'[p] = idle[p] /\ pc'[p] = pc[p]
    BY <1>1 DEF TypeOK
  <2>6. t \in Pools => idle'[t] = idle[t] + 1 /\ pc'[t] = "loop"
    BY <1>1 DEF TypeOK
  <2>7. \A p \in Pools : idle[p] \in Nat /\ todo[p] \in Nat /\ MinIdle[p] \in Nat
    BY ConfigAssumption DEF TypeOK
  <2> HIDE DEF i, q
  <2> SUFFICES ASSUME NEW p \in Pools
               PROVE  /\ pc'[p] \in {"loop"} \cup CreatePC => idle'[p] <= Cardinality(instances'[p])
                      /\ Shrinking(p)' => Cardinality(instances'[p]) >= MinIdle[p] + todo'[p]
                      /\ pc'[p] \in DestroyPC => todo'[p] > 0
    BY DEF Floor
  <2>8. CASE p = t
    <3>1. idle[p] <= Cardinality(instances[p])
      BY <1>1, <2>8 DEF Floor
    <3>2. Cardinality(instances'[p]) = Cardinality(instances[p]) + 1
      BY <2>2, <2>4, <2>8
    <3>3. pc'[p] = "loop" /\ idle'[p] = idle[p] + 1
      BY <2>6, <2>8
    <3>4. ~Shrinking(p)' /\ pc'[p] \notin DestroyPC
      BY <3>3 DEF Shrinking
    <3> QED BY <2>3, <2>7, <3>1, <3>2, <3>3, <3>4
  <2>9. CASE p # t
    <3>1. pc'[p] = pc[p] /\ idle'[p] = idle[p] /\ todo'[p] = todo[p]
      BY <1>1, <2>5, <2>9
    <3>2. Cardinality(instances'[p]) >= Cardinality(instances[p]) /\ Cardinality(instances'[p]) \in Nat
      BY <2>2, <2>3
    <3>3. Shrinking(p)' <=> Shrinking(p)
      BY <3>1 DEF Shrinking
    <3> QED BY <2>3, <2>7, <3>1, <3>2, <3>3 DEF Floor
  <2> QED BY <2>8, <2>9
<1> QED BY <1>3, <1>4, <1>5, <1>6

\* Steps that touch neither the map, the store nor any thread.
LEMMA QuietInd ==
    ASSUME IndInv, TypeOK', UNCHANGED <<instances, stored, pc, at, locals>>,
           phase' = phase \/ Alive'
    PROVE  IndInv'
<1> USE DEF IndInv, locals
<1>1. Control'
  BY DEF Control, Working, Alive
<1>2. Ownership'
  BY DEF Ownership, Shrinking
<1>3. Floor'
  BY DEF Floor, Shrinking
<1> QED BY <1>1, <1>2, <1>3

\* The events, the dispatcher and the environment.
LEMMA OutsideInd ==
    ASSUME IndInv,
           \/ \E e \in Events : Webhook(e)
           \/ Dispatch \/ (\E p \in Pools : ScaleUpSkip(p))
           \/ (\E i \in Inst : Sweep(i)) \/ Signal \/ ManagerStop
           \/ UNCHANGED vars
    PROVE  IndInv'
<1> USE DEF IndInv
<1>1. ASSUME NEW e \in Events, Webhook(e) PROVE IndInv'
  <2>1. eventCh' \in Seq(Events) /\ Len(eventCh') <= ChanCap
    BY <1>1, WorldAssumption DEF Webhook, TypeOK
  <2>2. TypeOK'
    BY <1>1, <2>1 DEF Webhook, TypeOK, outside, locals
  <2> QED BY <1>1, <2>2, QuietInd DEF Webhook
<1>2. ASSUME Dispatch PROVE IndInv'
  <2>1. eventCh' \in Seq(Events) /\ Len(eventCh') <= ChanCap
    BY <1>2, WorldAssumption DEF Dispatch, TypeOK
  <2>2. spawned' \in [Pools -> 0..MaxSpawned]
    BY <1>2, WorldAssumption DEF Dispatch, TypeOK
  <2>3. faults' \in 0..MaxFaults
    BY <1>2, WorldAssumption DEF Dispatch, TypeOK, SelectPicks, Fault
  <2>4. TypeOK'
    BY <1>2, <2>1, <2>2, <2>3 DEF Dispatch, TypeOK, outside, locals
  <2> QED BY <1>2, <2>4, QuietInd DEF Dispatch
<1>3. ASSUME NEW p \in Pools, ScaleUpSkip(p) PROVE IndInv'
  <2>1. spawned' \in [Pools -> 0..MaxSpawned]
    BY <1>3, WorldAssumption DEF ScaleUpSkip, TypeOK
  <2>2. TypeOK'
    BY <1>3, <2>1 DEF ScaleUpSkip, TypeOK, outside, locals
  <2> QED BY <1>3, <2>2, QuietInd DEF ScaleUpSkip
<1>4. ASSUME NEW i \in Inst, Sweep(i) PROVE IndInv'
  <2>1. incus' \in [Inst -> Containers] /\ runner' \in [Inst -> Registrations]
    BY <1>4 DEF Sweep, TypeOK, Containers, Registrations
  <2>2. TypeOK'
    BY <1>4, <2>1 DEF Sweep, TypeOK, locals
  <2> QED BY <1>4, <2>2, QuietInd DEF Sweep
<1>5. ASSUME Signal \/ ManagerStop PROVE IndInv'
  <2>1. TypeOK'
    BY <1>5, WorldAssumption DEF Signal, ManagerStop, Fault, TypeOK, outside, locals
  <2> QED BY <1>5, <2>1, QuietInd DEF Signal, ManagerStop, Alive
<1>6. ASSUME UNCHANGED vars PROVE IndInv'
  <2>1. TypeOK'
    BY <1>6 DEF vars, TypeOK, outside, locals
  <2> QED BY <1>6, <2>1, QuietInd DEF vars
<1> QED BY <1>1, <1>2, <1>3, <1>4, <1>5, <1>6

\* A thread names a new instance: nobody else can know it.
LEMMA NameInd ==
    ASSUME IndInv, NEW t \in Threads, NEW i \in Inst, Alive,
           pc[t] \in {"free", "loop"}, t \in Pools => pc[t] = "loop" /\ PoolOf[i] = t,
           Fresh(i), spawned' \in [Pools -> 0..MaxSpawned],
           pc' = [pc EXCEPT ![t] = "create"], at' = [at EXCEPT ![t] = i],
           UNCHANGED <<phase, eventCh, instances, stored, outside, locals, faults>>
    PROVE  IndInv'
<1> USE DEF IndInv, CreatePC, DestroyPC, WorkerPC, ReconcilePC, Threads
<1>1. TypeOK'
  BY DEF TypeOK, outside, locals
<1>2. Control'
  BY WorldAssumption DEF TypeOK, Control, Working, Alive
<1>3. /\ \A u \in Threads : u # t => at'[u] = at[u] /\ pc'[u] = pc[u] /\ at[u] # i
      /\ at'[t] = i /\ pc'[t] = "create"
      /\ i \notin instances[PoolOf[i]] /\ i \notin stored
  BY DEF Fresh, Orphan, Holders, TypeOK
<1>4. Ownership'
  BY <1>3 DEF TypeOK, Ownership, Shrinking, locals
<1>5. Floor'
  BY DEF TypeOK, Floor, Shrinking, locals
<1> QED BY <1>1, <1>2, <1>4, <1>5

\* A scale-up goroutine passes the check and names an instance.
LEMMA ScaleUpInd ==
    ASSUME IndInv, NEW p \in Pools, NEW w \in Workers, NEW i \in Inst, ScaleUp(p, w, i)
    PROVE  IndInv'
<1>1. w \in Threads /\ w \notin Pools
  BY WorldAssumption DEF Threads
<1>2. spawned' \in [Pools -> 0..MaxSpawned]
  BY WorldAssumption DEF ScaleUp, IndInv, TypeOK
<1> QED BY <1>1, <1>2, NameInd DEF ScaleUp

\* reconcile decides to create one more and names it.
LEMMA GrowInd ==
    ASSUME IndInv, NEW p \in Pools, NEW i \in Inst, Grow(p, i)
    PROVE  IndInv'
<1>1. p \in Threads
  BY DEF Threads
<1>2. spawned' \in [Pools -> 0..MaxSpawned]
  BY DEF Grow, IndInv, TypeOK
<1> QED BY <1>1, <1>2, NameInd DEF Grow

\* The steps of reconcile between two instances.
LEMMA TickInd ==
    ASSUME IndInv, NEW p \in Pools, Tick(p)
    PROVE  IndInv'
<1> USE DEF IndInv, CreatePC, DestroyPC, WorkerPC, ReconcilePC, Threads
<1>1. \A q \in Pools : Cardinality(instances[q]) \in Nat
  BY CardNat DEF TypeOK
<1>2. faults' \in 0..MaxFaults
  BY WorldAssumption DEF Tick, SelectPicks, Fault, TypeOK
<1>3. TypeOK'
  BY <1>1, <1>2 DEF Tick, countIdle, TypeOK, outside
<1>4. Control'
  BY DEF Tick, TypeOK, Control, Working, Alive
<1>5. Ownership'
  BY DEF Tick, TypeOK, Control, Ownership, Shrinking
<1>6. Floor'
  BY <1>1 DEF Tick, countIdle, TypeOK, Control, Floor, Shrinking
<1> QED BY <1>3, <1>4, <1>5, <1>6

\* reconcile ends without removing anything, or scaleDownIdle runs out, or its loop returns.
LEMMA SettleInd ==
    ASSUME IndInv, NEW p \in Pools, Settle(p) \/ PickNone(p) \/ ReconcileReturn(p)
    PROVE  IndInv'
<1> USE DEF IndInv, CreatePC, DestroyPC, WorkerPC, ReconcilePC, Threads
<1>1. /\ UNCHANGED <<phase, eventCh, spawned, instances, stored, outside, at, faults>>
      /\ pc[p] \in {"loop", "pick", "sleep"} /\ Alive
      /\ \E x \in {"sleep", "done"} : pc' = [pc EXCEPT ![p] = x]
      /\ cands' = cands \/ cands' = [cands EXCEPT ![p] = {}]
      /\ todo' = todo \/ todo' = [todo EXCEPT ![p] = 0]
      /\ idle' = idle \/ idle' = [idle EXCEPT ![p] = 0]
      /\ current' = current \/ current' = [current EXCEPT ![p] = 0]
      /\ pc[p] = "pick" => cands'[p] = {}
  BY DEF Settle, PickNone, ReconcileReturn, DropCounters, Alive, locals, TypeOK
<1>2. /\ cands' \in [Pools -> SUBSET Inst]
      /\ todo' \in [Pools -> Nat]
      /\ idle' \in [Pools -> Nat]
      /\ current' \in [Pools -> Nat]
  <2>1. cands' \in [Pools -> SUBSET Inst]
    BY <1>1 DEF TypeOK
  <2>2. todo' \in [Pools -> Nat]
    <3>1. todo \in [Pools -> Nat] /\ 0 \in Nat
      BY DEF TypeOK
    <3>2. todo' = todo \/ todo' = [todo EXCEPT ![p] = 0]
      BY <1>1
    <3> QED BY <3>1, <3>2
  <2>3. idle' \in [Pools -> Nat]
    <3>1. idle \in [Pools -> Nat] /\ 0 \in Nat
      BY DEF TypeOK
    <3>2. idle' = idle \/ idle' = [idle EXCEPT ![p] = 0]
      BY <1>1
    <3> QED BY <3>1, <3>2
  <2>4. current' \in [Pools -> Nat]
    BY <1>1 DEF TypeOK
  <2> QED BY <2>1, <2>2, <2>3, <2>4
<1>3. TypeOK'
  BY <1>1, <1>2 DEF TypeOK, outside
<1>4. Control'
  BY <1>1 DEF TypeOK, Control, Working, Alive
<1>5. /\ \A q \in Pools : q # p => /\ pc'[q] = pc[q] /\ cands'[q] = cands[q]
                                   /\ todo'[q] = todo[q] /\ idle'[q] = idle[q]
      /\ pc'[p] \in {"sleep", "done"}
      /\ cands'[p] = {}
  <2>1. \A q \in Pools : q # p => pc'[q] = pc[q]
    BY <1>1 DEF TypeOK
  <2>2. \A q \in Pools : q # p => cands'[q] = cands[q]
    BY <1>1 DEF TypeOK
  <2>3. \A q \in Pools : q # p => todo'[q] = todo[q]
    BY <1>1 DEF TypeOK
  <2>4. \A q \in Pools : q # p => idle'[q] = idle[q]
    BY <1>1 DEF TypeOK
  <2>5. pc'[p] \in {"sleep", "done"}
    BY <1>1 DEF TypeOK
  <2>6. cands'[p] = {}
    <3>1. CASE pc[p] = "pick"
      BY <1>1, <3>1
    <3>2. CASE pc[p] # "pick"
      <4>1. cands[p] = {}
        BY <1>1, <3>2 DEF Ownership, Shrinking
      <4> QED BY <1>1, <4>1 DEF TypeOK
    <3> QED BY <3>1, <3>2
  <2> QED BY <2>1, <2>2, <2>3, <2>4, <2>5, <2>6
<1>6. \A t \in Threads : pc'[t] \in CreatePC => pc'[t] = pc[t]
  BY <1>1 DEF TypeOK
<1>7. Ownership'
  BY <1>1, <1>5, <1>6 DEF Ownership, Shrinking
<1>8. Floor'
  BY <1>1, <1>5 DEF Floor, Shrinking
<1> QED BY <1>3, <1>4, <1>7, <1>8

\* What scaleDownIdle is asked to remove leaves MinIdle instances.
LEMMA ShrinkInd ==
    ASSUME IndInv, NEW p \in Pools, Shrink(p)
    PROVE  IndInv'
<1> USE DEF IndInv, CreatePC, DestroyPC, WorkerPC, ReconcilePC, Threads
<1>1. /\ Cardinality(instances[p]) \in Nat /\ MinIdle[p] \in Nat /\ idle[p] \in Nat
      /\ idle[p] <= Cardinality(instances[p])
  BY CardNat, ConfigAssumption DEF Shrink, TypeOK, Floor
<1>2. /\ Excess(p) \in Nat /\ Cardinality(instances[p]) >= MinIdle[p] + Excess(p)
  BY <1>1 DEF Shrink, Excess
<1>3. TypeOK'
  BY <1>2 DEF Shrink, DropCounters, TypeOK, outside
<1>4. Control'
  BY DEF Shrink, TypeOK, Control, Working, Alive
<1>5. Ownership'
  BY DEF Shrink, TypeOK, Control, Ownership, Shrinking
<1>6. Floor'
  BY <1>1, <1>2 DEF Shrink, DropCounters, TypeOK, Control, Floor, Shrinking
<1> QED BY <1>3, <1>4, <1>5, <1>6

\* A candidate is tracked, so that no thread is creating it, and no other pool's.
LEMMA PickInd ==
    ASSUME IndInv, NEW p \in Pools, NEW i \in Inst, Pick(p, i)
    PROVE  IndInv'
<1> USE DEF IndInv, CreatePC, DestroyPC, WorkerPC, ReconcilePC, Threads
<1>1. i \in cands[p] /\ i \in instances[p] /\ PoolOf[i] = p
  BY DEF Pick, Ownership
<1>2. TypeOK'
  BY DEF Pick, TypeOK, outside
<1>3. Control'
  BY <1>1, WorldAssumption DEF Pick, TypeOK, Control, Working, Alive
<1>4. \A u \in Threads : u # p => at[u] # i
  <2> SUFFICES ASSUME NEW u \in Threads, u # p, at[u] = i PROVE FALSE
    OBVIOUS
  <2>1. pc[u] \in CreatePC \cup DestroyPC
    BY WorldAssumption DEF Control, Working
  <2>2. pc[u] \notin CreatePC
    BY <1>1 DEF Ownership
  <2>3. u \in Pools
    BY <2>1, <2>2 DEF Control
  <2> QED BY <2>1, <2>3, <1>1 DEF Control, Working
<1>5. /\ \A u \in Threads : u # p => at'[u] = at[u] /\ pc'[u] = pc[u]
      /\ at'[p] = i /\ pc'[p] = "deregister"
      /\ \A q \in Pools : cands'[q] = IF q = p THEN cands[q] \ {i} ELSE cands[q]
      /\ UNCHANGED <<instances, stored, todo, idle>>
  BY DEF Pick, TypeOK
<1>6. Ownership'
  BY <1>1, <1>4, <1>5 DEF Pick, Ownership, Shrinking
<1>7. Floor'
  BY <1>5 DEF Pick, TypeOK, Floor, Shrinking
<1> QED BY <1>2, <1>3, <1>6, <1>7

\* The calls of destroyInstance.
LEMMA DestroyCallInd ==
    ASSUME IndInv, NEW p \in Pools, Deregister(p) \/ DeleteOK(p) \/ Unstore(p)
    PROVE  IndInv'
<1> USE DEF IndInv, CreatePC, DestroyPC, WorkerPC, ReconcilePC, Threads
<1>1. /\ UNCHANGED <<phase, eventCh, spawned, instances, at, locals>>
      /\ pc[p] \in DestroyPC
      /\ \E x \in DestroyPC : pc' = [pc EXCEPT ![p] = x]
      /\ stored' = stored \/ stored' = stored \ {at[p]}
  BY DEF Deregister, DeleteOK, Unstore, outside
<1>2. faults' \in 0..MaxFaults
  BY WorldAssumption DEF Deregister, DeleteOK, Unstore, CallFails, Fault, TypeOK
<1>3. /\ incus' = incus \/ incus' = [incus EXCEPT ![at[p]] = "absent"]
      /\ runner' = runner \/ runner' = [runner EXCEPT ![at[p]] = "none"]
  BY DEF Deregister, DeleteOK, Unstore, outside
<1>4. incus' \in [Inst -> Containers] /\ runner' \in [Inst -> Registrations] /\ stored' \in SUBSET Inst
  BY <1>1, <1>3 DEF TypeOK, Containers, Registrations
<1>5. TypeOK'
  BY <1>1, <1>2, <1>4 DEF TypeOK, locals
<1>6. Control'
  BY <1>1 DEF TypeOK, Control, Working, Alive
<1>7. Ownership'
  BY <1>1 DEF TypeOK, Control, Working, Ownership, locals, Shrinking
<1>8. Floor'
  BY <1>1 DEF TypeOK, Control, Floor, locals, Shrinking
<1> QED BY <1>5, <1>6, <1>7, <1>8

\* A failed DeleteInstance in destroyInstance: the instance stays tracked.
LEMMA DeleteFailInd ==
    ASSUME IndInv, NEW p \in Pools, DeleteFail(p)
    PROVE  IndInv'
<1> USE DEF IndInv, CreatePC, DestroyPC, WorkerPC, ReconcilePC, Threads
<1>1. /\ UNCHANGED <<phase, eventCh, spawned, instances, stored, runner, locals>>
      /\ pc[p] = "delete" /\ pc' = [pc EXCEPT ![p] = "pick"]
      /\ at' = [at EXCEPT ![p] = NoInst]
  BY DEF DeleteFail
<1>2. at[p] \in Inst \cup {NoInst}
  BY DEF TypeOK
<1>3. incus' \in [Inst -> Containers] /\ faults' \in 0..MaxFaults
  BY <1>2, DeleteFailedType DEF DeleteFail
<1>4. TypeOK'
  BY <1>1, <1>3 DEF TypeOK, locals
<1>5. Control'
  BY <1>1, WorldAssumption DEF TypeOK, Control, Working, Alive
<1>6. Ownership'
  BY <1>1 DEF TypeOK, Control, Working, Ownership, locals, Shrinking
<1>7. Floor'
  BY <1>1 DEF TypeOK, Control, Floor, locals, Shrinking
<1> QED BY <1>4, <1>5, <1>6, <1>7

\* The map loses one instance and reconcile owes one less.
LEMMA ForgetInd ==
    ASSUME IndInv, NEW p \in Pools, Forget(p)
    PROVE  IndInv'
<1> USE DEF IndInv, CreatePC, DestroyPC, WorkerPC, ReconcilePC, Threads
<1> DEFINE i == at[p]
<1>1. i \in Inst /\ i \in instances[p] /\ i \notin cands[p] /\ todo[p] \in Nat /\ todo[p] > 0
  BY DEF Forget, TypeOK, Control, Working, Ownership, Floor
<1>2. /\ \A u \in Threads : u # p => at'[u] = at[u] /\ pc'[u] = pc[u]
      /\ pc[p] = "forget" /\ at'[p] = NoInst /\ pc'[p] = "pick"
      /\ \A q \in Pools : instances'[q] = IF q = p THEN instances[q] \ {i} ELSE instances[q]
      /\ \A q \in Pools : todo'[q] = IF q = p THEN todo[q] - 1 ELSE todo[q]
      /\ UNCHANGED <<stored, cands, idle>>
  BY DEF Forget, TypeOK
<1>3. TypeOK'
  BY <1>1 DEF Forget, TypeOK, outside
<1>4. Control'
  BY <1>1, WorldAssumption DEF Forget, TypeOK, Control, Working, Alive
<1>5. Ownership'
  <2>1. \A q \in Pools : instances'[q] \subseteq instances[q]
    BY <1>2
  <2>2. \A q \in Pools : q # p => instances'[q] = instances[q]
    BY <1>2
  <2>3. \A q \in Pools : \A j \in instances'[q] : PoolOf[j] = q
    BY <2>1 DEF Ownership
  <2>4. \A t, u \in Threads : at'[t] = at'[u] /\ at'[t] # NoInst => t = u
    BY <1>2 DEF Ownership
  <2>5. \A t \in Threads : pc'[t] \in CreatePC => t # p /\ pc'[t] = pc[t] /\ at'[t] = at[t]
    BY <1>2
  <2>6. \A t \in Threads : pc'[t] \in CreatePC => at'[t] \notin instances'[PoolOf[at'[t]]]
    <3> SUFFICES ASSUME NEW t \in Threads, pc'[t] \in CreatePC
                 PROVE  at[t] \notin instances'[PoolOf[at[t]]]
      BY <2>5
    <3>1. at[t] \in Inst /\ PoolOf[at[t]] \in Pools
      BY <2>5, WorldAssumption DEF TypeOK, Control, Working
    <3> QED BY <3>1, <2>1, <2>5 DEF Ownership
  <2>7. \A t \in Threads : pc'[t] \in CreatePC \ {"add"} => at'[t] \notin stored'
    BY <1>2, <2>5 DEF Ownership
  <2>8. \A q \in Pools : pc'[q] \in DestroyPC => q # p /\ at'[q] \in instances'[q] /\ at'[q] \notin cands'[q]
    BY <1>2, <2>2 DEF Ownership
  <2>9. \A q \in Pools : cands'[q] \subseteq instances'[q]
    <3> TAKE q \in Pools
    <3>1. cands'[q] = cands[q] /\ cands[q] \subseteq instances[q]
      BY <1>2 DEF Ownership
    <3>2. CASE q = p
      <4>1. i \notin cands[q] /\ instances'[q] = instances[q] \ {i}
        BY <1>1, <1>2, <3>2
      <4> HIDE DEF i
      <4> QED BY <3>1, <4>1
    <3>3. CASE q # p
      BY <2>2, <3>1, <3>3
    <3> QED BY <3>2, <3>3
  <2>10. \A q \in Pools : ~Shrinking(q)' => cands'[q] = {}
    BY <1>2 DEF Ownership, Shrinking
  <2> QED BY <2>3, <2>4, <2>6, <2>7, <2>8, <2>9, <2>10 DEF Ownership
<1>6. Floor'
  <2>1. /\ Cardinality(instances[p]) \in Nat /\ Cardinality(instances[p] \ {i}) \in Nat
        /\ Cardinality(instances[p] \ {i}) >= Cardinality(instances[p]) - 1
    BY <1>1, CardNat, CardRemove DEF TypeOK
  <2>2. MinIdle[p] \in Nat
    BY ConfigAssumption
  <2>3. Cardinality(instances[p]) >= MinIdle[p] + todo[p]
    BY <1>2 DEF Floor, Shrinking
  <2>4. instances'[p] = instances[p] \ {i} /\ todo'[p] = todo[p] - 1
    BY <1>2
  <2> HIDE DEF i
  <2>5. Cardinality(instances'[p]) >= MinIdle[p] + todo'[p]
    BY <1>1, <2>1, <2>2, <2>3, <2>4
  <2> QED BY <1>2, <2>5 DEF Floor, Shrinking
<1> QED BY <1>3, <1>4, <1>5, <1>6

\* The end of the process and its restart.
LEMMA HaltInd ==
    ASSUME IndInv, Exit \/ Crash
    PROVE  IndInv'
<1> USE DEF IndInv, CreatePC, DestroyPC, WorkerPC, ReconcilePC, Threads, Halt
<1>1. Halt /\ faults' \in 0..MaxFaults
  BY WorldAssumption DEF Exit, Crash, Fault, TypeOK
<1>2. TypeOK'
  BY <1>1, WorldAssumption DEF TypeOK, outside
<1>3. Control'
  BY <1>1, WorldAssumption DEF TypeOK, Control, Working
<1>4. Ownership'
  BY <1>1, WorldAssumption DEF TypeOK, Control, Working, Ownership, Shrinking
<1>5. Floor'
  BY <1>1 DEF TypeOK, Floor, Shrinking
<1> QED BY <1>2, <1>3, <1>4, <1>5

\* loadFromStore rebuilds each pool's map from its own rows.
LEMMA RestartInd ==
    ASSUME IndInv, Restart
    PROVE  IndInv'
<1> USE DEF IndInv, CreatePC, DestroyPC, WorkerPC, ReconcilePC, Threads
<1>1. TypeOK'
  BY DEF Restart, StoredOf, TypeOK, outside, locals
<1>2. Control'
  BY DEF Restart, TypeOK, Control, Working, Alive
<1>3. Ownership'
  BY DEF Restart, StoredOf, TypeOK, Control, Working, Ownership, Shrinking, locals, Alive
<1>4. Floor'
  BY DEF Restart, TypeOK, Control, Floor, Shrinking, locals, Alive
<1> QED BY <1>1, <1>2, <1>3, <1>4

-----------------------------------------------------------------------------
(* The theorems.                                                           *)

\* The invariant holds when the process first starts.
LEMMA IndInit == Init => IndInv
<1> SUFFICES ASSUME Init PROVE IndInv
  OBVIOUS
<1> USE DEF Init, CreatePC, DestroyPC, WorkerPC, ReconcilePC, Threads
<1>1. TypeOK
  BY WorldAssumption DEF TypeOK, Containers, Registrations
<1>2. Control
  BY WorldAssumption DEF Control, Working
<1>3. Ownership
  BY WorldAssumption DEF Ownership, Shrinking
<1>4. Floor
  BY DEF Floor, Shrinking
<1> QED BY <1>1, <1>2, <1>3, <1>4 DEF IndInv

\* Every step keeps the invariant.
LEMMA IndNext == IndInv /\ [Next]_vars => IndInv'
<1> SUFFICES ASSUME IndInv, [Next]_vars PROVE IndInv'
  OBVIOUS
<1>1. ASSUME NEW t \in Threads, CreateStep(t) PROVE IndInv'
  BY <1>1, CreateCallInd, AbandonInd, SaveInd, AddInd DEF CreateStep
<1>2. ASSUME NEW p \in Pools, ScaleUpStep(p) PROVE IndInv'
  BY <1>2, ScaleUpInd, OutsideInd DEF ScaleUpStep
<1>3. ASSUME NEW p \in Pools, Tick(p) \/ ReconcileStep(p) \/ ReconcileReturn(p) PROVE IndInv'
  BY <1>3, TickInd, GrowInd, SettleInd, ShrinkInd, PickInd, DestroyCallInd,
     DeleteFailInd, ForgetInd DEF ReconcileStep
<1> QED
  BY <1>1, <1>2, <1>3, OutsideInd, HaltInd, RestartInd DEF Next, ManagerNext

\* So it holds for ever.
LEMMA Inductive == Spec => []IndInv
BY IndInit, IndNext, PTL DEF Spec

\* Every variable keeps its type: the channel its capacity, every counter its range,
\* whatever fails and whenever the process dies.
THEOREM TypeCorrect == Spec => []TypeOK
<1>1. IndInv => TypeOK
  BY DEF IndInv
<1> QED BY <1>1, Inductive, PTL

\* Who changes the map.
LEMMA MapSteps ==
    ASSUME [Next]_vars
    PROVE  \/ UNCHANGED instances
           \/ \E t \in Threads : Add(t)
           \/ \E p \in Pools : Forget(p)
           \/ ~Alive' \/ Restart
<1>1. ASSUME NEW t \in Threads, CreateStep(t), ~Add(t) PROVE UNCHANGED instances
  BY <1>1 DEF CreateStep, CreateOK, CreateFail, PrepareOK, PrepareFail, RegisterOK,
     RegisterFail, StartOK, StartFail, UndoRunner, UndoInst, Save
<1>2. ASSUME NEW p \in Pools, ScaleUpStep(p) PROVE UNCHANGED instances
  BY <1>2 DEF ScaleUpStep, ScaleUpSkip, ScaleUp
<1>3. ASSUME NEW p \in Pools, ReconcileStep(p), ~Forget(p) PROVE UNCHANGED instances
  BY <1>3 DEF ReconcileStep, Grow, Shrink, Settle, Pick, PickNone, Deregister,
     DeleteOK, DeleteFail, Unstore
<1>4. ASSUME NEW p \in Pools, Tick(p) \/ ReconcileReturn(p) PROVE UNCHANGED instances
  BY <1>4 DEF Tick, ReconcileReturn
<1>5. ASSUME NEW e \in Events, Webhook(e) PROVE UNCHANGED instances
  BY <1>5 DEF Webhook
<1>6. ASSUME NEW i \in Inst, Sweep(i) PROVE UNCHANGED instances
  BY <1>6 DEF Sweep
<1>7. ASSUME Dispatch \/ Signal \/ ManagerStop \/ UNCHANGED vars PROVE UNCHANGED instances
  BY <1>7 DEF Dispatch, Signal, ManagerStop, vars
<1>8. ASSUME Exit \/ Crash PROVE ~Alive'
  BY <1>8 DEF Exit, Crash, Halt, Alive
<1> QED BY <1>1, <1>2, <1>3, <1>4, <1>5, <1>6, <1>7, <1>8 DEF Next, ManagerNext

\* Scaling down never leaves a pool with fewer than MinIdle instances: the only
\* step that takes one from the map is the end of destroyInstance, and reconcile's
\* stale counters promise no more than the map holds (Floor).
THEOREM MinIdleKept == Spec => NeverBelowMinIdle
<1> DEFINE Keeps == \A p \in Pools :
                Alive' /\ instances'[p] # instances[p] /\ instances'[p] \subseteq instances[p] =>
                    Cardinality(instances'[p]) >= MinIdle[p]
<1>1. ASSUME IndInv, [Next]_vars PROVE Keeps
  <2> SUFFICES ASSUME NEW p \in Pools, Alive', instances'[p] # instances[p],
                      instances'[p] \subseteq instances[p]
               PROVE  Cardinality(instances'[p]) >= MinIdle[p]
    OBVIOUS
  <2>1. ~UNCHANGED instances /\ Alive'
    OBVIOUS
  <2>2. ASSUME NEW t \in Threads, Add(t) PROVE FALSE
    BY <1>1, <2>2, WorldAssumption DEF Add, IndInv, TypeOK
  <2>3. ASSUME Restart PROVE FALSE
    BY <1>1, <2>3 DEF Restart, IndInv, Control
  <2>4. ASSUME NEW q \in Pools, Forget(q) PROVE Cardinality(instances'[p]) >= MinIdle[p]
    <3>1. q = p
      BY <1>1, <2>4 DEF Forget, IndInv, TypeOK
    <3>2. pc[p] = "forget" /\ todo'[p] = todo[p] - 1 /\ pc'[p] = "pick"
      BY <1>1, <2>4, <3>1 DEF Forget, IndInv, TypeOK, Threads
    <3>3. todo[p] \in Nat /\ todo[p] > 0 /\ MinIdle[p] \in Nat
      BY <1>1, <3>2, ConfigAssumption DEF IndInv, TypeOK, Floor, DestroyPC
    <3>4. IndInv'
      BY <1>1, <2>4, ForgetInd
    <3>5. instances'[p] \in SUBSET Inst /\ Cardinality(instances'[p]) >= MinIdle[p] + todo'[p]
      BY <3>2, <3>4 DEF IndInv, TypeOK, Floor, Shrinking
    <3>6. Cardinality(instances'[p]) \in Nat
      BY <3>5, CardNat
    <3> QED BY <3>2, <3>3, <3>5, <3>6
  <2> QED BY <2>1, <2>2, <2>3, <2>4, <1>1, MapSteps
<1> QED BY <1>1, Inductive, PTL DEF Spec, NeverBelowMinIdle

-----------------------------------------------------------------------------
(* What a step is to one instance.  Every step of the process is the move  *)
(* of one thread, which changes only what belongs to the instance the      *)
(* thread works on, or one of the few steps that are no thread's.          *)

\* Only the thread t moves, and only its instance is concerned.
OnlyAt(t) ==
    /\ Alive /\ phase' = phase
    /\ \A u \in Threads : u # t => pc'[u] = pc[u] /\ at'[u] = at[u]
    /\ \A i \in Inst : i # at[t] => incus'[i] = incus[i] /\ runner'[i] = runner[i]
    /\ \A p \in Pools : p # t => idle'[p] = idle[p]

MapsKept == UNCHANGED <<stored, instances>>
WorldKept == UNCHANGED <<incus, runner>>

\* The thread names a new instance, when its pool has none or wants more.
Named(t) ==
    /\ pc[t] \in {"free", "loop"} /\ pc'[t] = "create"
    /\ at[t] = NoInst /\ at'[t] \in Inst /\ Fresh(at'[t])
    /\ MapsKept /\ WorldKept /\ UNCHANGED idle
    /\ IF t \in Pools THEN idle[t] < MinIdle[t] /\ PoolOf[at'[t]] = t
                      ELSE instances[PoolOf[at'[t]]] = {}

\* A call of createInstance up to the registration, or a clean-up after it.
Built(t) ==
    /\ pc[t] \in {"create", "prepare", "register", "start", "undoRunner"}
    /\ pc'[t] \in {"prepare", "register", "undoInst", "undoRunner"}
    /\ at'[t] = at[t] /\ MapsKept /\ UNCHANGED idle

Registered(t) ==
    /\ pc[t] = "register" /\ pc'[t] = "start" /\ at'[t] = at[t]
    /\ runner'[at[t]] = "online" /\ MapsKept /\ UNCHANGED idle

Started(t) ==
    /\ pc[t] = "start" /\ pc'[t] = "save" /\ at'[t] = at[t]
    /\ incus'[at[t]] = "serving" /\ runner'[at[t]] = runner[at[t]] /\ MapsKept /\ UNCHANGED idle

Dropped(t) ==
    /\ pc[t] \in {"create", "undoInst"} /\ pc'[t] \in {"sleep", "free"} /\ at'[t] = NoInst
    /\ MapsKept

Saved(t) ==
    /\ pc[t] = "save" /\ pc'[t] = "add" /\ at'[t] = at[t]
    /\ stored' = stored \cup {at[t]} \/ ("save" \in FaultKinds /\ stored' = stored)
    /\ UNCHANGED instances /\ WorldKept /\ UNCHANGED idle

Added(t) ==
    /\ pc[t] = "add" /\ pc'[t] \in {"loop", "free"} /\ at'[t] = NoInst
    /\ instances' = [instances EXCEPT ![PoolOf[at[t]]] = @ \cup {at[t]}]
    /\ UNCHANGED stored /\ WorldKept
    /\ t \in Pools => idle'[t] = idle[t] + 1

\* The loop of reconcile with no instance in hand.
Turned(t) ==
    /\ t \in Pools /\ at[t] = NoInst /\ at'[t] = NoInst /\ MapsKept /\ WorldKept
    /\ \/ pc[t] = "sleep" /\ pc'[t] = "loop" /\ idle'[t] = Cardinality(instances[t])
       \/ pc'[t] \in {"pick", "sleep", "done"}

Chosen(t) ==
    /\ t \in Pools /\ pc[t] = "pick" /\ pc'[t] = "deregister" /\ at[t] = NoInst
    /\ at'[t] \in instances[t] /\ MapsKept /\ WorldKept

Deregistered(t) ==
    /\ t \in Pools /\ pc[t] = "deregister" /\ pc'[t] = "delete" /\ at'[t] = at[t]
    /\ MapsKept /\ UNCHANGED incus

Deleted(t) ==
    /\ t \in Pools /\ pc[t] = "delete" /\ MapsKept
    /\ \/ pc'[t] = "unstore" /\ at'[t] = at[t] /\ incus'[at[t]] = "absent"
       \/ pc'[t] = "pick" /\ at'[t] = NoInst

Unstored(t) ==
    /\ t \in Pools /\ pc[t] = "unstore" /\ pc'[t] = "forget" /\ at'[t] = at[t]
    /\ \/ stored' = stored \ {at[t]}
       \/ "unstore" \in FaultKinds /\ faults' = faults + 1 /\ stored' = stored
    /\ UNCHANGED instances /\ WorldKept

Forgotten(t) ==
    /\ t \in Pools /\ pc[t] = "forget" /\ pc'[t] = "pick" /\ at'[t] = NoInst
    /\ instances' = [instances EXCEPT ![t] = @ \ {at[t]}]
    /\ UNCHANGED stored /\ WorldKept

Moved(t) ==
    \/ Named(t) \/ Built(t) \/ Registered(t) \/ Started(t) \/ Dropped(t) \/ Saved(t) \/ Added(t)
    \/ Turned(t) \/ Chosen(t) \/ Deregistered(t) \/ Deleted(t) \/ Unstored(t) \/ Forgotten(t)

\* The steps that are no thread's.
Quiet ==
    /\ UNCHANGED <<pc, at, incus, runner, stored, instances, idle>>
    /\ phase' = phase \/ (Alive /\ Alive')

Steps ==
    \/ \E t \in Threads : OnlyAt(t) /\ Moved(t)
    \/ Quiet
    \/ \E i \in Inst : Sweep(i)
    \/ Alive /\ Halt
    \/ Restart

\* A call of createInstance that leaves the map and the store alone.
LEMMA CreateCallMoves ==
    ASSUME IndInv, NEW t \in Threads,
           \/ CreateOK(t) \/ PrepareOK(t) \/ PrepareFail(t) \/ RegisterOK(t)
           \/ RegisterFail(t) \/ StartOK(t) \/ StartFail(t) \/ UndoRunner(t)
    PROVE  OnlyAt(t) /\ (Built(t) \/ Registered(t) \/ Started(t))
<1>1. /\ phase' = phase /\ Alive /\ stored' = stored /\ instances' = instances /\ at' = at /\ idle' = idle
      /\ \E x : pc' = [pc EXCEPT ![t] = x]
  BY DEF CreateOK, PrepareOK, PrepareFail, RegisterOK, RegisterFail, StartOK, StartFail, UndoRunner, locals, outside
<1>2. /\ \/ incus' = incus \/ \E s : incus' = [incus EXCEPT ![at[t]] = s]
      /\ \/ runner' = runner \/ \E s : runner' = [runner EXCEPT ![at[t]] = s]
  BY DEF CreateOK, PrepareOK, PrepareFail, RegisterOK, RegisterFail, StartOK, StartFail, UndoRunner, outside
<1>3. /\ pc \in [Threads -> WorkerPC \cup ReconcilePC] /\ incus \in [Inst -> Containers]
      /\ runner \in [Inst -> Registrations] /\ (pc[t] \in CreatePC => at[t] \in Inst)
  BY DEF IndInv, TypeOK, Control, Working, CreatePC
<1>4. OnlyAt(t)
  BY <1>1, <1>2, <1>3 DEF OnlyAt
<1>5. Built(t) \/ Registered(t) \/ Started(t)
  <2>1. CASE CreateOK(t) \/ PrepareOK(t) \/ PrepareFail(t) \/ RegisterFail(t) \/ StartFail(t) \/ UndoRunner(t)
    BY <1>1, <1>3, <2>1
       DEF CreateOK, PrepareOK, PrepareFail, RegisterFail, StartFail, UndoRunner, Built, MapsKept
  <2>2. CASE RegisterOK(t)
    BY <1>1, <1>3, <2>2 DEF RegisterOK, Registered, MapsKept, CreatePC
  <2>3. CASE StartOK(t)
    BY <1>1, <1>3, <2>3 DEF StartOK, Started, MapsKept, CreatePC
  <2>4. QED
    BY <2>1, <2>2, <2>3
<1>6. QED
  BY <1>4, <1>5

\* The steps that end a creation, or store its result.
LEMMA CreateEndMoves ==
    ASSUME IndInv, NEW t \in Threads, CreateFail(t) \/ UndoInst(t) \/ Save(t) \/ Add(t)
    PROVE  OnlyAt(t) /\ (Dropped(t) \/ Saved(t) \/ Added(t))
<1>1. /\ pc \in [Threads -> WorkerPC \cup ReconcilePC] /\ incus \in [Inst -> Containers]
      /\ at \in [Threads -> Inst \cup {NoInst}] /\ idle \in [Pools -> Nat]
  BY DEF IndInv, TypeOK
<1>2. CASE CreateFail(t) \/ UndoInst(t)
  <2>1. /\ phase' = phase /\ Alive /\ stored' = stored /\ instances' = instances /\ runner' = runner
        /\ pc[t] \in {"create", "undoInst"} /\ Abandon(t)
    BY <1>2 DEF CreateFail, UndoInst
  <2>2. /\ pc' = [pc EXCEPT ![t] = IF t \in Pools THEN "sleep" ELSE "free"]
        /\ at' = [at EXCEPT ![t] = NoInst]
        /\ \A p \in Pools : p # t => idle'[p] = idle[p]
    BY <1>1, <2>1 DEF Abandon, DropCounters
  <2>6. \A i \in Inst : i # at[t] => incus'[i] = incus[i]
    <3>1. CASE CreateFail(t)
      BY <1>1, <3>1 DEF CreateFail
    <3>2. CASE UndoInst(t)
      BY <1>1, <3>2 DEF UndoInst, DeleteFailed
    <3>3. QED
      BY <1>2, <3>1, <3>2
  <2>3. OnlyAt(t)
    BY <1>1, <2>1, <2>2, <2>6 DEF OnlyAt
  <2>4. Dropped(t)
    BY <1>1, <2>1, <2>2 DEF Dropped, MapsKept
  <2>5. QED
    BY <2>3, <2>4
<1>3. CASE Save(t)
  <2>1. OnlyAt(t)
    BY <1>1, <1>3 DEF Save, OnlyAt, outside, locals
  <2>2. Saved(t)
    BY <1>1, <1>3 DEF Save, Saved, Fault, WorldKept, outside, locals
  <2>3. QED
    BY <2>1, <2>2
<1>4. CASE Add(t)
  <2>1. OnlyAt(t)
    BY <1>1, <1>4 DEF Add, OnlyAt, outside
  <2>2. Added(t)
    BY <1>1, <1>4 DEF Add, Added, WorldKept, outside
  <2>3. QED
    BY <2>1, <2>2
<1>5. QED
  BY <1>2, <1>3, <1>4

\* A new instance is named by a scale-up goroutine or by reconcile.
LEMMA NameMoves ==
    ASSUME IndInv, NEW t \in Threads, NEW i \in Inst,
           \/ t \in Pools /\ Grow(t, i)
           \/ t \in Workers /\ ScaleUp(PoolOf[i], t, i)
    PROVE  OnlyAt(t) /\ Named(t)
<1>1. /\ pc \in [Threads -> WorkerPC \cup ReconcilePC] /\ at \in [Threads -> Inst \cup {NoInst}]
      /\ (pc[t] \in {"free", "loop"} => at[t] = NoInst) /\ instances \in [Pools -> SUBSET Inst]
      /\ PoolOf[i] \in Pools
  BY WorldAssumption DEF IndInv, TypeOK, Control, Working, CreatePC, DestroyPC
<1>2. OnlyAt(t)
  BY <1>1 DEF Grow, ScaleUp, OnlyAt, outside, locals
<1>3. ASSUME t \in Pools, Grow(t, i) PROVE Named(t)
  BY <1>1, <1>3 DEF Grow, WantsMore, Named, MapsKept, WorldKept, outside, locals
<1>4. ASSUME t \in Workers, ScaleUp(PoolOf[i], t, i) PROVE Named(t)
  <2>1. instances[PoolOf[i]] = {}
    <3>1. IsFiniteSet(instances[PoolOf[i]]) /\ Cardinality(instances[PoolOf[i]]) = 0
      BY <1>1, <1>4, CardNat DEF ScaleUp, NeedsScaleUp, countIdle
    <3>2. QED
      BY <3>1, FS_EmptySet
  <2>2. t \notin Pools
    BY <1>4, WorldAssumption
  <2>3. QED
    BY <1>1, <1>4, <2>1, <2>2 DEF ScaleUp, Named, MapsKept, WorldKept, outside, locals
<1>5. QED
  BY <1>2, <1>3, <1>4

\* The other steps of a reconcile loop.
LEMMA ReconcileMoves ==
    ASSUME IndInv, NEW p \in Pools,
           \/ Tick(p) \/ ReconcileReturn(p) \/ Shrink(p) \/ Settle(p) \/ PickNone(p)
           \/ (\E i \in Inst : Pick(p, i))
           \/ Deregister(p) \/ DeleteOK(p) \/ DeleteFail(p) \/ Unstore(p) \/ Forget(p)
    PROVE  OnlyAt(p) /\ Moved(p)
<1>1. /\ pc \in [Threads -> WorkerPC \cup ReconcilePC] /\ at \in [Threads -> Inst \cup {NoInst}]
      /\ idle \in [Pools -> Nat] /\ incus \in [Inst -> Containers] /\ runner \in [Inst -> Registrations]
      /\ p \in Threads
  BY DEF IndInv, TypeOK, Threads
<1>2. /\ pc[p] \in {"sleep", "loop", "pick"} => at[p] = NoInst
      /\ pc[p] \in DestroyPC => at[p] \in Inst
      /\ cands[p] \subseteq instances[p]
  BY <1>1 DEF IndInv, Control, Ownership, Working, CreatePC, DestroyPC
<1>3. CASE Tick(p) \/ ReconcileReturn(p)
  <2>1. Alive
    BY <1>3 DEF Tick, ReconcileReturn, Alive
  <2>2. OnlyAt(p)
    BY <1>1, <1>3, <2>1 DEF Tick, ReconcileReturn, OnlyAt, outside, locals
  <2>3. Turned(p)
    BY <1>1, <1>2, <1>3 DEF Tick, ReconcileReturn, Turned, countIdle, MapsKept, WorldKept, outside, locals
  <2>4. QED
    BY <2>2, <2>3 DEF Moved
<1>4. CASE Shrink(p) \/ Settle(p) \/ PickNone(p)
  <2>1. OnlyAt(p)
    BY <1>1, <1>4 DEF Shrink, Settle, PickNone, DropCounters, OnlyAt, outside
  <2>2. Turned(p)
    BY <1>1, <1>2, <1>4 DEF Shrink, Settle, PickNone, Turned, MapsKept, WorldKept, outside
  <2>3. QED
    BY <2>1, <2>2 DEF Moved
<1>5. CASE \E i \in Inst : Pick(p, i)
  <2>1. OnlyAt(p)
    BY <1>1, <1>5 DEF Pick, OnlyAt, outside
  <2>2. Chosen(p)
    BY <1>1, <1>2, <1>5 DEF Pick, Chosen, MapsKept, WorldKept, outside
  <2>3. QED
    BY <2>1, <2>2 DEF Moved
<1>6. CASE Deregister(p)
  <2>1. OnlyAt(p)
    BY <1>1, <1>6 DEF Deregister, OnlyAt, locals
  <2>2. Deregistered(p)
    BY <1>1, <1>6 DEF Deregister, Deregistered, MapsKept
  <2>3. QED
    BY <2>1, <2>2 DEF Moved
<1>7. CASE DeleteOK(p) \/ DeleteFail(p)
  <2>1. \/ incus' = incus \/ \E s : incus' = [incus EXCEPT ![at[p]] = s]
    BY <1>7 DEF DeleteOK, DeleteFail, DeleteFailed
  <2>2. OnlyAt(p)
    BY <1>1, <1>7, <2>1 DEF DeleteOK, DeleteFail, OnlyAt, locals
  <2>3. Deleted(p)
    BY <1>1, <1>2, <1>7 DEF DeleteOK, DeleteFail, Deleted, MapsKept, DestroyPC
  <2>4. QED
    BY <2>2, <2>3 DEF Moved
<1>8. CASE Unstore(p)
  <2>1. OnlyAt(p)
    BY <1>1, <1>8 DEF Unstore, OnlyAt, outside, locals
  <2>2. Unstored(p)
    BY <1>1, <1>8 DEF Unstore, Unstored, Fault, WorldKept, outside
  <2>3. QED
    BY <2>1, <2>2 DEF Moved
<1>9. CASE Forget(p)
  <2>1. OnlyAt(p)
    BY <1>1, <1>9 DEF Forget, OnlyAt, outside
  <2>2. Forgotten(p)
    BY <1>1, <1>9 DEF Forget, Forgotten, WorldKept, outside
  <2>3. QED
    BY <2>1, <2>2 DEF Moved
<1>10. QED
  BY <1>3, <1>4, <1>5, <1>6, <1>7, <1>8, <1>9

\* Every step is one of these.
LEMMA StepCases == IndInv /\ [Next]_vars => Steps
<1> SUFFICES ASSUME IndInv, [Next]_vars PROVE Steps
  OBVIOUS
<1>1. ASSUME NEW t \in Threads, CreateStep(t) PROVE Steps
  BY <1>1, CreateCallMoves, CreateEndMoves DEF CreateStep, Steps, Moved
<1>2. ASSUME NEW p \in Pools, ScaleUpStep(p) PROVE Steps
  <2>1. CASE ScaleUpSkip(p)
    BY <2>1 DEF ScaleUpSkip, Steps, Quiet, outside, locals
  <2>2. ASSUME NEW w \in Workers, NEW i \in Inst, ScaleUp(p, w, i) PROVE Steps
    <3>1. PoolOf[i] = p /\ w \in Threads
      BY <2>2 DEF ScaleUp, Threads
    <3>2. OnlyAt(w) /\ Named(w)
      BY <2>2, <3>1, NameMoves
    <3>3. QED
      BY <3>1, <3>2 DEF Steps, Moved
  <2>3. QED
    BY <1>2, <2>1, <2>2 DEF ScaleUpStep
<1>3. ASSUME NEW p \in Pools, Tick(p) \/ ReconcileStep(p) \/ ReconcileReturn(p) PROVE Steps
  <2>1. p \in Threads
    BY DEF Threads
  <2>2. ASSUME NEW i \in Inst, Grow(p, i) PROVE Steps
    BY <2>1, <2>2, NameMoves DEF Steps, Moved
  <2>3. CASE ~ \E i \in Inst : Grow(p, i)
    BY <1>3, <2>1, <2>3, ReconcileMoves DEF ReconcileStep, Steps
  <2>4. QED
    BY <2>2, <2>3
<1>4. ASSUME NEW e \in Events, Webhook(e) PROVE Steps
  BY <1>4 DEF Webhook, Steps, Quiet, outside, locals
<1>5. CASE Dispatch
  BY <1>5 DEF Dispatch, Steps, Quiet, outside, locals
<1>6. CASE Signal \/ ManagerStop
  BY <1>6 DEF Signal, ManagerStop, Steps, Quiet, outside, locals, Alive
<1>7. CASE UNCHANGED vars
  BY <1>7 DEF vars, Steps, Quiet, outside, locals
<1>8. CASE Exit \/ Crash
  BY <1>8 DEF Exit, Crash, Alive, Steps
<1>9. QED
  BY <1>1, <1>2, <1>3, <1>4, <1>5, <1>6, <1>7, <1>8 DEF Next, ManagerNext, Steps

-----------------------------------------------------------------------------
(* The instance in hand against the world outside.                         *)

\* A registration is accepted before gitlab-runner is started, both before the instance is
\* stored or tracked, and a container is gone before its record is.
Upright ==
    /\ \A t \in Threads : pc[t] \in {"start", "save", "add"} => runner[at[t]] = "online"
    /\ \A t \in Threads : pc[t] \in {"save", "add"} => incus[at[t]] = "serving"
    /\ \A t \in Threads : pc[t] \in {"unstore", "forget"} => incus[at[t]] = "absent"

\* The thread that moves has an instance of its own, if any; so have the others.
LEMMA Hands ==
    ASSUME IndInv, NEW t \in Threads
    PROVE  /\ pc[t] \in CreatePC \cup DestroyPC => at[t] \in Inst
           /\ \A u \in Threads : u # t /\ pc[u] \in CreatePC \cup DestroyPC => at[u] \in Inst /\ at[u] # at[t]
           /\ pc[t] \in DestroyPC => t \in Pools
BY DEF IndInv, TypeOK, Control, Ownership, Working, Threads, WorkerPC, CreatePC, DestroyPC

\* What cannot be anybody's is nobody's instance.
LEMMA OrphanHands ==
    ASSUME NEW i \in Inst, Orphan(i)
    PROVE  i \notin stored /\ i \notin instances[PoolOf[i]] /\ \A t \in Threads : at[t] # i
BY DEF Orphan, Holders

\* A move keeps the world in step with where the thread is.
LEMMA UprightStep == IndInv /\ Upright /\ Steps => Upright'
<1> SUFFICES ASSUME IndInv, Upright, Steps PROVE Upright'
  OBVIOUS
<1>1. ASSUME NEW t \in Threads, OnlyAt(t), Moved(t) PROVE Upright'
  <2>1. /\ pc'[t] \in {"start", "save", "add"} => runner'[at'[t]] = "online"
        /\ pc'[t] \in {"save", "add"} => incus'[at'[t]] = "serving"
        /\ pc'[t] \in {"unstore", "forget"} => incus'[at'[t]] = "absent"
    <3>1. CASE Named(t) \/ Built(t) \/ Dropped(t) \/ Added(t) \/ Turned(t) \/ Chosen(t)
               \/ Deregistered(t) \/ Forgotten(t)
      BY <3>1 DEF Named, Built, Dropped, Added, Turned, Chosen, Deregistered, Forgotten
    <3>2. CASE Registered(t) \/ Started(t) \/ Saved(t)
      BY <3>2 DEF Registered, Started, Saved, WorldKept, Upright
    <3>3. CASE Deleted(t) \/ Unstored(t)
      BY <3>3 DEF Deleted, Unstored, WorldKept, Upright
    <3>4. QED
      BY <1>1, <3>1, <3>2, <3>3 DEF Moved
  <2>2. ASSUME NEW u \in Threads, u # t
        PROVE  /\ pc'[u] \in {"start", "save", "add"} => runner'[at'[u]] = "online"
               /\ pc'[u] \in {"save", "add"} => incus'[at'[u]] = "serving"
               /\ pc'[u] \in {"unstore", "forget"} => incus'[at'[u]] = "absent"
    <3>1. pc'[u] = pc[u] /\ at'[u] = at[u]
      BY <1>1, <2>2 DEF OnlyAt
    <3>2. pc[u] \in {"start", "save", "add", "unstore", "forget"} => at[u] \in Inst /\ at[u] # at[t]
      BY <2>2, Hands DEF CreatePC, DestroyPC
    <3>3. pc[u] \in {"start", "save", "add", "unstore", "forget"} =>
            incus'[at[u]] = incus[at[u]] /\ runner'[at[u]] = runner[at[u]]
      BY <1>1, <3>2 DEF OnlyAt
    <3>4. QED
      BY <3>1, <3>3 DEF Upright
  <2>3. QED
    BY <2>1, <2>2 DEF Upright
<1>2. CASE Quiet
  BY <1>2 DEF Quiet, Upright
<1>3. ASSUME NEW i \in Inst, Sweep(i) PROVE Upright'
  <2>1. /\ \A t \in Threads : at[t] # i
        /\ pc' = pc /\ at' = at /\ \A j : j # i => incus'[j] = incus[j] /\ runner'[j] = runner[j]
    <3>1. incus \in [Inst -> Containers] /\ runner \in [Inst -> Registrations]
      BY DEF IndInv, TypeOK
    <3>2. /\ pc' = pc /\ at' = at /\ incus' = [incus EXCEPT ![i] = "absent"]
          /\ runner' = [runner EXCEPT ![i] = "none"]
      BY <1>3 DEF Sweep
    <3>3. \A t \in Threads : at[t] # i
      BY <1>3, OrphanHands DEF Sweep
    <3>4. QED
      BY <3>1, <3>2, <3>3
  <2>2. QED
    BY <2>1 DEF Upright
<1>4. CASE Halt
  BY <1>4 DEF Halt, Upright
<1>5. CASE Restart
  BY <1>5 DEF Restart, Upright, outside
<1>6. QED
  BY <1>1, <1>2, <1>3, <1>4, <1>5 DEF Steps

\* So it holds for ever, with the invariant it rests on.
LEMMA WorldInductive == Spec => [](IndInv /\ Upright)
<1>1. Init => Upright
  BY DEF Init, Upright
<1>2. IndInv /\ Upright /\ [Next]_vars => Upright'
  BY StepCases, UprightStep
<1>3. QED
  BY <1>1, <1>2, IndInit, IndNext, PTL DEF Spec

\* Who is known, by pool.
LEMMA KnownTyped ==
    ASSUME IndInv, NEW i \in Inst
    PROVE  i \in Known <=> i \in stored \/ i \in instances[PoolOf[i]]
<1>1. \A p \in Pools : i \in instances[p] => PoolOf[i] = p
  BY DEF IndInv, Ownership
<1>2. PoolOf[i] \in Pools
  BY WorldAssumption
<1>3. QED
  BY <1>1, <1>2 DEF Known

\* An instance is stored or tracked only when its runner can take jobs.
THEOREM RunnersBornReady == Spec => BornReady
<1> DEFINE Born == \A i \in Inst : i \notin Known /\ i \in Known' => Ready(i)'
<1>1. ASSUME IndInv, Upright, IndInv', Steps PROVE Born
  <2> SUFFICES ASSUME NEW i \in Inst, i \notin Known, i \in Known' PROVE Ready(i)'
    OBVIOUS
  <2>1. i \notin stored /\ i \notin instances[PoolOf[i]]
    BY <1>1, KnownTyped
  <2>2. i \in stored' \/ i \in instances'[PoolOf[i]]
    <3>1. PICK p \in Pools : i \in stored' \/ i \in instances'[p]
      BY WorldAssumption DEF Known
    <3>2. i \in instances'[p] => PoolOf[i] = p
      BY <1>1 DEF IndInv, Ownership
    <3>3. QED
      BY <3>1, <3>2
  <2>3. instances \in [Pools -> SUBSET Inst] /\ PoolOf[i] \in Pools
    BY <1>1, WorldAssumption DEF IndInv, TypeOK
  <2>4. ASSUME NEW t \in Threads, Moved(t) PROVE Ready(i)'
    <3>1. (Saved(t) \/ Added(t)) /\ at[t] = i
      <4>1. CASE MapsKept
        BY <2>1, <2>2, <4>1 DEF MapsKept
      <4>2. CASE Saved(t) \/ Added(t)
        BY <2>1, <2>2, <2>3, <4>2 DEF Saved, Added
      <4>3. CASE Unstored(t) \/ Forgotten(t)
        BY <2>1, <2>2, <2>3, <4>3 DEF Unstored, Forgotten
      <4>4. QED
        BY <2>4, <4>1, <4>2, <4>3
           DEF Moved, Named, Built, Registered, Started, Dropped, Turned, Chosen, Deregistered, Deleted
    <3>2. incus[i] = "serving" /\ runner[i] = "online" /\ UNCHANGED <<incus, runner>>
      BY <1>1, <3>1 DEF Saved, Added, Upright, WorldKept
    <3>3. QED
      BY <3>2 DEF Ready
  <2>5. CASE Quiet \/ \E j \in Inst : Sweep(j)
    BY <2>1, <2>2, <2>5 DEF Quiet, Sweep
  <2>6. CASE Halt \/ Restart
    BY <2>1, <2>2, <2>3, <2>6 DEF Halt, Restart, StoredOf
  <2>7. QED
    BY <1>1, <2>4, <2>5, <2>6 DEF Steps
<1>2. IndInv /\ Upright /\ IndInv' /\ [Next]_vars => Born
  BY <1>1, StepCases
<1>3. ASSUME UNCHANGED vars PROVE Born
  BY <1>3 DEF vars, Known
<1>4. QED
  BY <1>2, <1>3, WorldInductive, PTL DEF Spec, BornReady

\* A runner that is tracked or stored is spoiled by its own pool's destroyInstance alone.
THEOREM DestroyAloneSpoils == Spec => OnlyDestroySpoils
<1> DEFINE Spoils == \A i \in Inst : i \in Known /\ Ready(i) /\ ~Ready(i)' =>
                       \E p \in Pools : pc[p] \in {"deregister", "delete"} /\ at[p] = i
<1>1. ASSUME IndInv, Steps PROVE Spoils
  <2> SUFFICES ASSUME NEW i \in Inst, i \in Known, Ready(i), ~Ready(i)'
               PROVE  \E p \in Pools : pc[p] \in {"deregister", "delete"} /\ at[p] = i
    OBVIOUS
  <2>1. i \in stored \/ i \in instances[PoolOf[i]]
    BY <1>1, KnownTyped
  <2>2. incus'[i] # incus[i] \/ runner'[i] # runner[i]
    BY DEF Ready
  <2>3. ASSUME NEW t \in Threads, OnlyAt(t), Moved(t)
        PROVE  \E p \in Pools : pc[p] \in {"deregister", "delete"} /\ at[p] = i
    <3>1. at[t] = i /\ ~WorldKept
      BY <2>2, <2>3 DEF OnlyAt, WorldKept
    <3>2. pc[t] \notin CreatePC \ {"add"}
      BY <1>1, <2>1, <3>1 DEF IndInv, Ownership
    <3>3. Deregistered(t) \/ Deleted(t)
      BY <2>3, <3>1, <3>2
         DEF Moved, Named, Built, Registered, Started, Dropped, Saved, Added, Turned, Chosen,
             Unstored, Forgotten, CreatePC
    <3>4. QED
      BY <3>1, <3>3 DEF Deregistered, Deleted
  <2>4. CASE Quiet \/ Halt \/ Restart
    BY <2>2, <2>4 DEF Quiet, Halt, Restart, outside
  <2>5. ASSUME NEW j \in Inst, Sweep(j) PROVE FALSE
    <3>1. i # j
      BY <2>1, <2>5, OrphanHands DEF Sweep
    <3>2. incus \in [Inst -> Containers] /\ runner \in [Inst -> Registrations]
      BY <1>1 DEF IndInv, TypeOK
    <3>3. QED
      BY <2>2, <2>5, <3>1, <3>2 DEF Sweep
  <2>6. QED
    BY <1>1, <2>3, <2>4, <2>5 DEF Steps
<1>2. IndInv /\ [Next]_vars => Spoils
  BY <1>1, StepCases
<1>3. ASSUME UNCHANGED vars PROVE Spoils
  BY <1>3 DEF vars, outside, Ready
<1>4. QED
  BY <1>2, <1>3, Inductive, PTL DEF Spec, OnlyDestroySpoils

\* A row goes only when the container has gone.
THEOREM RecordsOutlive == Spec => RecordOutlivesContainer
<1> DEFINE Outlives == \A i \in stored : i \notin stored' => incus[i] = "absent"
<1>1. ASSUME IndInv, Upright, Steps PROVE Outlives
  <2> SUFFICES ASSUME NEW i \in stored, i \notin stored' PROVE incus[i] = "absent"
    OBVIOUS
  <2>1. ASSUME NEW t \in Threads, Moved(t) PROVE incus[i] = "absent"
    <3>1. Unstored(t)
      BY <2>1 DEF Moved, MapsKept, Named, Built, Registered, Started, Dropped, Saved, Added, Turned,
                  Chosen, Deregistered, Deleted, Forgotten
    <3>2. at[t] = i
      BY <3>1 DEF Unstored
    <3>3. QED
      BY <1>1, <3>1, <3>2 DEF Unstored, Upright
  <2>2. CASE Quiet \/ Halt \/ Restart \/ \E j \in Inst : Sweep(j)
    BY <2>2 DEF Quiet, Halt, Restart, Sweep
  <2>3. QED
    BY <1>1, <2>1, <2>2 DEF Steps
<1>2. IndInv /\ Upright /\ [Next]_vars => Outlives
  BY <1>1, StepCases
<1>3. ASSUME UNCHANGED vars PROVE Outlives
  BY <1>3 DEF vars
<1>4. QED
  BY <1>2, <1>3, WorldInductive, PTL DEF Spec, RecordOutlivesContainer

\* Every way to let go of a container but these has deleted it.
THEOREM LeaksThereAlone == Spec => LeaksOnlyThere
<1> DEFINE Leaks == \A i \in Inst : ~Orphan(i) /\ Orphan(i)' /\ incus'[i] # "absent" =>
                      \/ ~Alive'
                      \/ \E t \in Threads : pc[t] \in {"create", "undoInst"} /\ at[t] = i
<1>1. ASSUME IndInv, Upright, Steps PROVE Leaks
  <2> SUFFICES ASSUME NEW i \in Inst, ~Orphan(i), Orphan(i)', incus'[i] # "absent", Alive'
               PROVE  \E t \in Threads : pc[t] \in {"create", "undoInst"} /\ at[t] = i
    OBVIOUS
  <2>1. /\ i \notin stored' /\ i \notin instances'[PoolOf[i]] /\ \A t \in Threads : at'[t] # i
        /\ PoolOf[i] \in Pools /\ instances \in [Pools -> SUBSET Inst]
    BY <1>1, WorldAssumption DEF Orphan, Holders, IndInv, TypeOK
  <2>2. i \in stored \/ i \in instances[PoolOf[i]] \/ \E u \in Threads : at[u] = i
    <3>1. cands[PoolOf[i]] \subseteq instances[PoolOf[i]]
      BY <1>1, <2>1 DEF IndInv, Ownership
    <3>2. QED
      BY <3>1 DEF Orphan, Holders
  <2>3. ASSUME NEW t \in Threads, OnlyAt(t), Moved(t)
        PROVE  \E u \in Threads : pc[u] \in {"create", "undoInst"} /\ at[u] = i
    <3>1. at[t] = i
      <4>1. ASSUME at[t] # i PROVE i \notin stored /\ i \notin instances[PoolOf[i]]
        BY <2>1, <2>3, <4>1
           DEF Moved, MapsKept, Named, Built, Registered, Started, Dropped, Saved, Added, Turned,
               Chosen, Deregistered, Deleted, Unstored, Forgotten
      <4>2. ASSUME at[t] # i, NEW u \in Threads, at[u] = i PROVE FALSE
        BY <2>1, <2>3, <4>2 DEF OnlyAt
      <4>3. QED
        BY <2>2, <4>1, <4>2
    <3>2. at'[t] # at[t] /\ at[t] # NoInst
      BY <2>1, <3>1, WorldAssumption
    <3>3. CASE Dropped(t)
      BY <3>1, <3>3 DEF Dropped
    <3>4. CASE Added(t)
      BY <2>1, <3>1, <3>4 DEF Added
    <3>5. CASE Deleted(t)
      <4>1. pc[t] = "delete" /\ t \in Pools /\ UNCHANGED instances
        BY <3>5 DEF Deleted, MapsKept
      <4>2. at[t] \in instances[t] /\ PoolOf[at[t]] = t
        BY <1>1, <4>1 DEF IndInv, Control, Ownership, Working, DestroyPC
      <4>3. QED
        BY <2>1, <3>1, <4>1, <4>2
    <3>6. CASE Forgotten(t)
      <4>1. pc[t] = "forget" /\ UNCHANGED incus
        BY <3>6 DEF Forgotten, WorldKept
      <4>2. incus[at[t]] = "absent"
        BY <1>1, <4>1 DEF Upright
      <4>3. QED
        BY <3>1, <4>1, <4>2
    <3>7. QED
      BY <2>3, <3>2, <3>3, <3>4, <3>5, <3>6
         DEF Moved, Named, Built, Registered, Started, Saved, Turned, Chosen, Deregistered, Unstored
  <2>4. CASE Quiet \/ \E j \in Inst : Sweep(j)
    BY <2>1, <2>2, <2>4 DEF Quiet, Sweep
  <2>5. CASE Halt
    BY <2>5 DEF Halt, Alive
  <2>6. CASE Restart
    <3>1. ~Alive /\ stored' = stored /\ at' = at
      BY <2>6 DEF Restart
    <3>2. instances[PoolOf[i]] = {}
      BY <1>1, <2>1, <3>1 DEF IndInv, Control
    <3>3. QED
      BY <2>1, <2>2, <3>1, <3>2
  <2>7. QED
    BY <1>1, <2>3, <2>4, <2>5, <2>6 DEF Steps
<1>2. IndInv /\ Upright /\ [Next]_vars => Leaks
  BY <1>1, StepCases
<1>3. ASSUME UNCHANGED vars PROVE Leaks
  BY <1>3 DEF vars, locals, outside, Orphan, Holders
<1>4. QED
  BY <1>2, <1>3, WorldInductive, PTL DEF Spec, LeaksOnlyThere

-----------------------------------------------------------------------------
(* The store against the map.                                              *)

\* The row of an instance is gone before the instance is forgotten.
Unlisted == \A t \in Threads : pc[t] = "forget" => at[t] \notin stored

\* The two agree where nobody is between their writes, and a new instance is stored before
\* it is tracked.
Mirror ==
    /\ StoreMirrorsMap
    /\ \A t \in Threads : pc[t] = "add" => at[t] \in stored

\* What a move of t leaves of the store and the map.
LEMMA MapsAway ==
    ASSUME IndInv, NEW t \in Threads, OnlyAt(t), Moved(t), NEW i \in Inst, i # at[t]
    PROVE  /\ i \in stored' <=> i \in stored
           /\ \A p \in Pools : i \in instances'[p] <=> i \in instances[p]
           /\ \A u \in Holders(i) : u # t /\ pc'[u] = pc[u] /\ at'[u] = i
<1>1. instances \in [Pools -> SUBSET Inst]
  BY DEF IndInv, TypeOK
<1>2. \A u \in Holders(i) : u # t /\ pc'[u] = pc[u] /\ at'[u] = i
  BY DEF Holders, OnlyAt
<1>3. CASE MapsKept
  BY <1>2, <1>3 DEF MapsKept
<1>4. CASE Saved(t) \/ Added(t) \/ Unstored(t) \/ Forgotten(t)
  BY <1>1, <1>2, <1>4 DEF Saved, Added, Unstored, Forgotten
<1>5. QED
  BY <1>3, <1>4 DEF Moved, Named, Built, Registered, Started, Dropped, Turned, Chosen, Deregistered, Deleted

\* The moves that write neither.
Plain(t) ==
    \/ Named(t) \/ Built(t) \/ Registered(t) \/ Started(t) \/ Dropped(t)
    \/ Turned(t) \/ Chosen(t) \/ Deregistered(t) \/ Deleted(t)

\* They start elsewhere than the others.
LEMMA PlainMoves ==
    ASSUME NEW t \in Threads, Plain(t), at[t] \in Inst
    PROVE  stored' = stored /\ instances' = instances /\ pc[t] \notin {"add", "forget"}
BY WorldAssumption
   DEF Plain, MapsKept, Named, Built, Registered, Started, Dropped, Turned, Chosen, Deregistered, Deleted

\* Rows go first, as long as their deletion does not fail.
LEMMA UnlistedStep ==
    ASSUME "unstore" \notin FaultKinds, IndInv, Unlisted, Steps
    PROVE  Unlisted'
<1>1. ASSUME NEW t \in Threads, OnlyAt(t), Moved(t) PROVE Unlisted'
  <2>1. pc'[t] = "forget" => at'[t] \notin stored'
    BY <1>1 DEF Moved, Named, Built, Registered, Started, Dropped, Saved, Added, Turned, Chosen,
                Deregistered, Deleted, Unstored, Forgotten
  <2>2. ASSUME NEW u \in Threads, u # t, pc'[u] = "forget" PROVE at'[u] \notin stored'
    <3>1. pc[u] = "forget" /\ at'[u] = at[u] /\ at[u] \in Inst /\ at[u] # at[t]
      BY <1>1, <2>2, Hands DEF OnlyAt, DestroyPC
    <3>2. at[u] \in stored' <=> at[u] \in stored
      BY <1>1, <3>1, MapsAway
    <3>3. QED
      BY <3>1, <3>2 DEF Unlisted
  <2>3. QED
    BY <2>1, <2>2 DEF Unlisted
<1>2. CASE Quiet \/ Halt \/ Restart \/ \E i \in Inst : Sweep(i)
  BY <1>2 DEF Quiet, Halt, Restart, Sweep, Unlisted
<1>3. QED
  BY <1>1, <1>2 DEF Steps

\* The two maps differ only where a thread is between its two writes.
LEMMA MirrorStep ==
    ASSUME {"save", "unstore"} \cap FaultKinds = {}, IndInv, Unlisted, Mirror, IndInv', Steps
    PROVE  Mirror'
<1> DEFINE Differ(i, p) == (i \in instances[p]) # (i \in StoredOf(p))
<1>1. instances \in [Pools -> SUBSET Inst] /\ instances' \in [Pools -> SUBSET Inst]
      /\ \A p \in Pools : \A i \in instances'[p] : PoolOf[i] = p
  BY DEF IndInv, TypeOK, Ownership
<1>2. ASSUME NEW t \in Threads, OnlyAt(t), Moved(t) PROVE Mirror'
  <2>1. ASSUME NEW p \in Pools, NEW i \in Inst, Differ(i, p)'
        PROVE  \E u \in Holders(i)' : pc'[u] \in {"add", "forget"}
    <3>1. CASE i # at[t]
      <4>1. Differ(i, p)
        BY <1>2, <2>1, <3>1, MapsAway DEF StoredOf
      <4>2. PICK u \in Holders(i) : pc[u] \in {"add", "forget"}
        BY <1>2, <4>1 DEF Mirror, StoreMirrorsMap, OnlyAt
      <4>3. u \in Threads /\ pc'[u] = pc[u] /\ at'[u] = i
        BY <1>2, <3>1, MapsAway DEF Holders
      <4>4. QED
        BY <4>2, <4>3 DEF Holders
    <3>2. CASE i = at[t]
      <4>1. CASE Plain(t)
        <5>1. Differ(i, p) /\ pc[t] \notin {"add", "forget"}
          BY <2>1, <3>2, <4>1, PlainMoves DEF StoredOf
        <5>2. PICK u \in Holders(i) : pc[u] \in {"add", "forget"}
          BY <1>2, <5>1 DEF Mirror, StoreMirrorsMap, OnlyAt
        <5>3. u = t
          BY <3>2, <5>2, WorldAssumption DEF Holders, IndInv, Ownership
        <5>4. QED
          BY <5>1, <5>2, <5>3
      <4>2. CASE Saved(t) \/ Unstored(t)
        BY <3>2, <4>2 DEF Saved, Unstored, Holders
      <4>3. CASE Added(t)
        <5>1. i \in stored' /\ i \in instances'[PoolOf[i]]
          BY <1>1, <3>2, <4>3, WorldAssumption DEF Added, Mirror
        <5>2. i \in instances'[p] <=> i \in StoredOf(p)'
          BY <1>1, <5>1 DEF StoredOf
        <5>3. QED
          BY <2>1, <5>2
      <4>4. CASE Forgotten(t)
        <5>1. i \notin stored' /\ i \notin instances'[t] /\ pc[t] = "forget" /\ t \in Pools
          BY <1>1, <3>2, <4>4 DEF Forgotten, Unlisted
        <5>2. PoolOf[i] = t
          BY <3>2, <5>1 DEF IndInv, Control, Working, DestroyPC
        <5>3. i \notin instances'[p] /\ i \notin StoredOf(p)'
          BY <1>1, <5>1, <5>2 DEF StoredOf
        <5>4. QED
          BY <2>1, <5>3
      <4>5. QED
        BY <1>2, <4>1, <4>2, <4>3, <4>4 DEF Moved, Plain
    <3>3. QED
      BY <3>1, <3>2
  <2>2. pc'[t] = "add" => at'[t] \in stored'
    BY <1>2 DEF Moved, Named, Built, Registered, Started, Dropped, Saved, Added, Turned, Chosen,
                Deregistered, Deleted, Unstored, Forgotten
  <2>3. ASSUME NEW u \in Threads, u # t, pc'[u] = "add" PROVE at'[u] \in stored'
    <3>1. pc[u] = "add" /\ at'[u] = at[u] /\ at[u] \in Inst /\ at[u] # at[t]
      BY <1>2, <2>3, Hands DEF OnlyAt, CreatePC
    <3>2. at[u] \in stored' <=> at[u] \in stored
      BY <1>2, <3>1, MapsAway
    <3>3. QED
      BY <3>1, <3>2 DEF Mirror
  <2>4. QED
    BY <2>1, <2>2, <2>3 DEF Mirror, StoreMirrorsMap
<1>3. CASE Quiet \/ \E j \in Inst : Sweep(j)
  <2>1. /\ stored' = stored /\ instances' = instances /\ at' = at /\ pc' = pc /\ (Alive' => Alive)
    BY <1>3 DEF Quiet, Sweep, Alive
  <2>2. QED
    BY <2>1 DEF Mirror, StoreMirrorsMap, StoredOf, Holders
<1>4. CASE Halt
  BY <1>4 DEF Halt, Mirror, StoreMirrorsMap, Alive
<1>5. CASE Restart
  <2>1. instances' = [p \in Pools |-> StoredOf(p)] /\ stored' = stored /\ pc' = pc /\ at' = at
    BY <1>5 DEF Restart
  <2>2. QED
    BY <2>1 DEF Mirror, StoreMirrorsMap, StoredOf
<1>6. QED
  BY <1>2, <1>3, <1>4, <1>5 DEF Steps

\* While no write of the store fails, the map and the store differ only on the instance a
\* thread is between the two writes of, across crashes and restarts.
THEOREM StoreKeptInStep ==
    {"save", "unstore"} \cap FaultKinds = {} => (Spec => []StoreMirrorsMap)
<1> SUFFICES ASSUME {"save", "unstore"} \cap FaultKinds = {}
             PROVE  Spec => []StoreMirrorsMap
  OBVIOUS
<1>1. Init => Unlisted /\ Mirror
  BY DEF Init, Unlisted, Mirror, StoreMirrorsMap, StoredOf
<1>2. IndInv /\ Unlisted /\ Mirror /\ IndInv' /\ [Next]_vars => Unlisted' /\ Mirror'
  BY StepCases, UnlistedStep, MirrorStep
<1>3. Mirror => StoreMirrorsMap
  BY DEF Mirror
<1>4. QED
  BY <1>1, <1>2, <1>3, Inductive, PTL DEF Spec

-----------------------------------------------------------------------------
(* The bound on the overshoot.                                             *)

\* The scale-up goroutines that create an instance for the pool, and how many instances
\* reconcile may still add on the counter it read.
Making(p) == {w \in Workers : pc[w] \in CreatePC /\ PoolOf[at[w]] = p}
Owed(p) == IF pc[p] \in {"loop"} \cup CreatePC /\ idle[p] < MinIdle[p] THEN MinIdle[p] - idle[p] ELSE 0
Most(p) == MinIdle[p] + Cardinality(Workers)

Share(p) == Cardinality(instances[p]) + Cardinality(Making(p)) + Owed(p)

\* The rows that stayed behind their instance, or will when it is forgotten.
Left(p) == {i \in StoredOf(p) : \/ i \notin instances[p] /\ \A t \in Holders(i) : pc[t] # "add"
                                \/ pc[p] = "forget" /\ at[p] = i}

\* The faults that may have left one.
Spent == IF "unstore" \in FaultKinds THEN faults ELSE 0

\* What a restart would find on top of what there may be: its rows are those of instances
\* that were tracked or about to be, and those that stayed behind.
Extra(p, g) ==
    /\ Share(p) <= Most(p) + g
    /\ Alive => g + Cardinality(Left(p)) <= Spent
    /\ ~Alive => g <= Spent /\ Cardinality(StoredOf(p)) <= Most(p) + g

\* What there is and what is on its way stays under the bound, but for g rows that earlier
\* restarts have found.
Ceiling ==
    \A p \in Pools :
        /\ pc[p] \in CreatePC => idle[p] < MinIdle[p]
        /\ \E g \in Nat : Extra(p, g)

\* The numbers are natural.
LEMMA Numbers ==
    ASSUME IndInv, NEW p \in Pools
    PROVE  /\ IsFiniteSet(instances[p]) /\ Cardinality(instances[p]) \in Nat
           /\ IsFiniteSet(Making(p)) /\ Cardinality(Making(p)) \in Nat
           /\ Cardinality(Making(p)) <= Cardinality(Workers)
           /\ Cardinality(Workers) \in Nat /\ MinIdle[p] \in Nat /\ idle[p] \in Nat /\ Owed(p) \in Nat
<1>1. IsFiniteSet(instances[p]) /\ Cardinality(instances[p]) \in Nat
  BY CardNat DEF IndInv, TypeOK
<1>2. Making(p) \subseteq Workers /\ IsFiniteSet(Workers)
  BY WorldAssumption DEF Making
<1>3. IsFiniteSet(Making(p)) /\ Cardinality(Making(p)) <= Cardinality(Workers)
  BY <1>2, FS_Subset
<1>4. Cardinality(Making(p)) \in Nat /\ Cardinality(Workers) \in Nat
  BY <1>2, <1>3, FS_CardinalityType
<1>5. MinIdle[p] \in Nat /\ idle[p] \in Nat
  BY ConfigAssumption DEF IndInv, TypeOK
<1>6. Owed(p) \in Nat
  BY <1>5 DEF Owed
<1>7. QED
  BY <1>1, <1>3, <1>4, <1>5, <1>6

\* What a pool's share of a move can be.
LEMMA ShareStep ==
    ASSUME IndInv, IndInv', NEW t \in Threads, OnlyAt(t), Moved(t), NEW p \in Pools,
           NEW g \in Nat, Share(p) <= Most(p) + g, pc[p] \in CreatePC => idle[p] < MinIdle[p]
    PROVE  Share(p)' <= Most(p) + g
<1>1. /\ Cardinality(instances[p]) \in Nat /\ Cardinality(instances'[p]) \in Nat
      /\ Cardinality(Making(p)) \in Nat /\ Cardinality(Making(p)') \in Nat
      /\ Cardinality(Making(p)') <= Cardinality(Workers)
      /\ Cardinality(Workers) \in Nat /\ MinIdle[p] \in Nat /\ Owed(p) \in Nat /\ Owed(p)' \in Nat
      /\ idle[p] \in Nat /\ idle'[p] \in Nat
      /\ IsFiniteSet(instances[p]) /\ IsFiniteSet(Making(p))
  <2>1. /\ Cardinality(instances[p]) \in Nat /\ Cardinality(Making(p)) \in Nat
        /\ Cardinality(Workers) \in Nat /\ MinIdle[p] \in Nat /\ Owed(p) \in Nat /\ idle[p] \in Nat
        /\ IsFiniteSet(instances[p]) /\ IsFiniteSet(Making(p))
    BY Numbers
  <2>2. IsFiniteSet(instances'[p]) /\ Cardinality(instances'[p]) \in Nat
    BY CardNat DEF IndInv, TypeOK
  <2>3. Making(p)' \subseteq Workers /\ IsFiniteSet(Workers)
    BY WorldAssumption DEF Making
  <2>4. IsFiniteSet(Making(p)') /\ Cardinality(Making(p)') <= Cardinality(Workers)
    BY <2>3, FS_Subset
  <2>5. Cardinality(Making(p)') \in Nat
    BY <2>4, FS_CardinalityType
  <2>6. idle'[p] \in Nat
    BY DEF IndInv, TypeOK
  <2>7. Owed(p)' \in Nat
    BY <2>1, <2>6 DEF Owed
  <2>8. QED
    BY <2>1, <2>2, <2>4, <2>5, <2>6, <2>7
<1>2. Cardinality(instances[p]) + Cardinality(Making(p)) + Owed(p) <= Most(p) + g
  BY DEF Share
<1>3. /\ pc \in [Threads -> WorkerPC \cup ReconcilePC] /\ p \in Threads /\ p \notin Workers
      /\ instances \in [Pools -> SUBSET Inst]
  BY WorldAssumption DEF IndInv, TypeOK, Threads
<1>4. t # p => Owed(p)' = Owed(p)
  BY <1>3 DEF OnlyAt, Owed
<1>5. ASSUME t \in Workers => at'[t] = at[t] \/ pc'[t] \notin CreatePC,
             t \in Workers /\ pc'[t] \in CreatePC => pc[t] \in CreatePC
      PROVE  Making(p)' \subseteq Making(p)
  <2>1. ASSUME NEW w \in Workers, pc'[w] \in CreatePC, PoolOf[at'[w]] = p
        PROVE  pc[w] \in CreatePC /\ PoolOf[at[w]] = p
    <3>1. w \in Threads
      BY DEF Threads
    <3>2. CASE w = t
      BY <1>5, <2>1, <3>2
    <3>3. CASE w # t
      BY <2>1, <3>1, <3>3 DEF OnlyAt
    <3>4. QED
      BY <3>2, <3>3
  <2>2. QED
    BY <2>1 DEF Making
<1>6. ASSUME Making(p)' \subseteq Making(p) PROVE Cardinality(Making(p)') <= Cardinality(Making(p))
  BY <1>1, <1>6, FS_Subset
<1>7. ASSUME instances'[p] \subseteq instances[p] PROVE Cardinality(instances'[p]) <= Cardinality(instances[p])
  BY <1>1, <1>7, FS_Subset
<1>8. CASE Named(t)
  <2>1. instances' = instances /\ idle' = idle
    BY <1>8 DEF Named, MapsKept
  <2>2. CASE t \in Pools
    <3>1. t \notin Workers
      BY <2>2, WorldAssumption
    <3>2. Making(p)' \subseteq Making(p)
      BY <1>5, <3>1
    <3>3. Owed(p)' = Owed(p)
      <4>1. CASE t = p
        <5>1. pc[p] = "loop" /\ pc'[p] = "create"
          BY <1>8, <4>1 DEF Named, IndInv, Control, ReconcilePC, CreatePC, DestroyPC
        <5>2. QED
          BY <2>1, <5>1 DEF Owed, CreatePC
      <4>2. QED
        BY <1>4, <4>1
    <3>4. QED
      BY <1>1, <1>2, <1>6, <2>1, <3>2, <3>3 DEF Most, Share
  <2>3. CASE t \notin Pools
    <3>1. Owed(p)' = Owed(p) /\ Owed(p) <= MinIdle[p]
      BY <1>1, <1>4, <2>3 DEF Owed
    <3>2. CASE PoolOf[at'[t]] = p
      <4>1. instances'[p] = {}
        BY <1>8, <2>1, <2>3, <3>2 DEF Named
      <4>2. Cardinality(instances'[p]) = 0
        BY <4>1, FS_EmptySet
      <4>3. QED
        BY <1>1, <3>1, <4>2 DEF Most, Share
    <3>3. CASE PoolOf[at'[t]] # p
      <4>1. Making(p)' \subseteq Making(p)
        <5>1. ASSUME NEW w \in Workers, pc'[w] \in CreatePC, PoolOf[at'[w]] = p
              PROVE  pc[w] \in CreatePC /\ PoolOf[at[w]] = p
          <6>1. w \in Threads /\ w # t
            BY <3>3, <5>1 DEF Threads
          <6>2. QED
            BY <5>1, <6>1 DEF OnlyAt
        <5>2. QED
          BY <5>1 DEF Making
      <4>2. QED
        BY <1>1, <1>2, <1>6, <2>1, <3>1, <4>1 DEF Most, Share
    <3>4. QED
      BY <3>2, <3>3
  <2>4. QED
    BY <2>2, <2>3
<1>9. CASE Built(t) \/ Registered(t) \/ Started(t) \/ Saved(t)
  <2>1. /\ pc[t] \in CreatePC /\ pc'[t] \in CreatePC /\ at'[t] = at[t]
        /\ instances' = instances /\ idle' = idle
    BY <1>9 DEF Built, Registered, Started, Saved, MapsKept, CreatePC
  <2>2. Making(p)' \subseteq Making(p)
    BY <1>5, <2>1
  <2>3. Owed(p)' = Owed(p)
    <3>1. CASE t = p
      BY <2>1, <3>1 DEF Owed
    <3>2. QED
      BY <1>4, <3>1
  <2>4. QED
    BY <1>1, <1>2, <1>6, <2>1, <2>2, <2>3 DEF Most, Share
<1>10. CASE Dropped(t) \/ Chosen(t) \/ Deregistered(t) \/ Deleted(t) \/ Unstored(t) \/ Forgotten(t)
  <2>1. /\ pc'[t] \notin CreatePC \cup {"loop"}
        /\ instances'[p] \subseteq instances[p]
    BY <1>3, <1>10
       DEF Dropped, Chosen, Deregistered, Deleted, Unstored, Forgotten, MapsKept, CreatePC
  <2>2. Making(p)' \subseteq Making(p)
    BY <1>5, <2>1
  <2>3. Owed(p)' <= Owed(p)
    <3>1. CASE t = p
      BY <1>1, <2>1, <3>1 DEF Owed
    <3>2. QED
      BY <1>1, <1>4, <3>1
  <2>4. QED
    BY <1>1, <1>2, <1>6, <1>7, <2>1, <2>2, <2>3 DEF Most, Share
<1>11. CASE Turned(t)
  <2>1. t \in Pools /\ t \notin Workers /\ instances' = instances
    BY <1>11, WorldAssumption DEF Turned, MapsKept
  <2>2. Making(p)' \subseteq Making(p)
    BY <1>5, <2>1
  <2>3. CASE t # p
    BY <1>1, <1>2, <1>4, <1>6, <2>1, <2>2, <2>3 DEF Most, Share
  <2>4. CASE t = p /\ pc'[t] \in {"pick", "sleep", "done"}
    <3>1. Owed(p)' = 0
      BY <2>4 DEF Owed, CreatePC
    <3>2. QED
      BY <1>1, <1>2, <1>6, <2>1, <2>2, <3>1 DEF Most, Share
  <2>5. CASE t = p /\ pc'[t] = "loop" /\ idle'[t] = Cardinality(instances[t])
    <3>1. Owed(p)' = IF Cardinality(instances[p]) < MinIdle[p]
                     THEN MinIdle[p] - Cardinality(instances[p]) ELSE 0
      BY <2>5 DEF Owed
    <3>2. QED
      BY <1>1, <1>2, <1>6, <2>1, <2>2, <3>1 DEF Most, Share
  <2>6. QED
    BY <1>11, <2>3, <2>4, <2>5 DEF Turned
<1>12. CASE Added(t)
  <2>1. /\ pc[t] = "add" /\ pc'[t] \notin CreatePC /\ at[t] \in Inst
        /\ instances' = [instances EXCEPT ![PoolOf[at[t]]] = @ \cup {at[t]}]
    BY <1>12, Hands DEF Added, CreatePC
  <2>2. Making(p)' \subseteq Making(p)
    BY <1>5, <2>1
  <2>3. CASE PoolOf[at[t]] # p
    <3>1. instances'[p] = instances[p]
      BY <1>3, <2>1, <2>3
    <3>2. t # p
      BY <2>1, <2>3 DEF IndInv, Control, Working, CreatePC
    <3>3. QED
      BY <1>1, <1>2, <1>4, <1>6, <2>2, <3>1, <3>2 DEF Most, Share
  <2>4. CASE PoolOf[at[t]] = p
    <3>1. instances'[p] = instances[p] \cup {at[t]} /\ at[t] \notin instances[p] /\ instances[p] \in SUBSET Inst
      BY <1>3, <2>1, <2>4 DEF IndInv, Ownership, CreatePC
    <3>2. Cardinality(instances'[p]) = Cardinality(instances[p]) + 1
      BY <2>1, <3>1, CardAdd
    <3>3. CASE t \in Pools
      <4>1. t = p /\ idle'[t] = idle[t] + 1 /\ pc'[t] \in {"loop", "free"} /\ idle[p] < MinIdle[p]
        BY <1>2, <1>12, <2>1, <2>4, <3>3 DEF IndInv, Control, Working, CreatePC, Added
      <4>2. Owed(p) = MinIdle[p] - idle[p]
        BY <2>1, <4>1 DEF Owed, CreatePC
      <4>3. Owed(p)' <= MinIdle[p] - (idle[p] + 1)
        BY <1>1, <4>1 DEF Owed
      <4>4. QED
        BY <1>1, <1>2, <1>6, <2>2, <3>2, <4>2, <4>3 DEF Most, Share
    <3>4. CASE t \in Workers
      <4>1. t # p /\ t \in Making(p) /\ t \notin Making(p)'
        BY <1>3, <2>1, <2>4, <3>4 DEF Making, CreatePC
      <4>2. Making(p)' \subseteq Making(p) \ {t}
        BY <2>2, <4>1
      <4>3. IsFiniteSet(Making(p) \ {t}) /\ Cardinality(Making(p) \ {t}) = Cardinality(Making(p)) - 1
        BY <1>1, <4>1, FS_RemoveElement
      <4>4. Cardinality(Making(p)') <= Cardinality(Making(p) \ {t})
        BY <4>2, <4>3, FS_Subset
      <4>5. QED
        BY <1>1, <1>2, <1>4, <3>2, <4>1, <4>3, <4>4 DEF Most, Share
    <3>5. QED
      BY <3>3, <3>4 DEF Threads
  <2>5. QED
    BY <2>3, <2>4
<1>13. QED
  BY <1>8, <1>9, <1>10, <1>11, <1>12 DEF Moved

\* Faults are counted and never forgotten.
LEMMA FaultsGrow ==
    ASSUME TypeOK, [Next]_vars
    PROVE  faults \in Nat /\ faults' >= faults
<1> DEFINE Grows == faults' = faults \/ faults' = faults + 1
<1>1. faults \in Nat
  BY WorldAssumption DEF TypeOK
<1> SUFFICES Grows
  BY <1>1
<1>2. ASSUME NEW t \in Threads, CreateStep(t) PROVE Grows
  BY <1>2
     DEF CreateStep, CreateOK, CreateFail, PrepareOK, PrepareFail, RegisterOK, RegisterFail,
         StartOK, StartFail, UndoRunner, UndoInst, DeleteFailed, Save, Add, CallFails, Fault
<1>3. ASSUME NEW p \in Pools, ScaleUpStep(p) \/ Tick(p) \/ ReconcileReturn(p) PROVE Grows
  BY <1>3 DEF ScaleUpStep, ScaleUpSkip, ScaleUp, Tick, ReconcileReturn, SelectPicks, Fault
<1>4. ASSUME NEW p \in Pools, ReconcileStep(p) PROVE Grows
  BY <1>4
     DEF ReconcileStep, Grow, Shrink, Settle, Pick, PickNone, Deregister, DeleteOK, DeleteFail,
         DeleteFailed, Unstore, Forget, CallFails, Fault
<1>5. CASE Dispatch \/ Signal \/ ManagerStop \/ Exit \/ Crash \/ Restart
  BY <1>5 DEF Dispatch, Signal, ManagerStop, Exit, Crash, Restart, SelectPicks, Fault
<1>6. ASSUME NEW e \in Events, Webhook(e) PROVE Grows
  BY <1>6 DEF Webhook
<1>7. ASSUME NEW i \in Inst, Sweep(i) PROVE Grows
  BY <1>7 DEF Sweep
<1>8. CASE UNCHANGED vars
  BY <1>8 DEF vars, outside, locals
<1>9. QED
  BY <1>2, <1>3, <1>4, <1>5, <1>6, <1>7, <1>8 DEF Next, ManagerNext

\* A move leaves a row behind only where its deletion fails.
LEMMA LeftStep ==
    ASSUME IndInv, IndInv', NEW t \in Threads, OnlyAt(t), Moved(t), NEW p \in Pools,
           NEW i \in Left(p)', i \notin Left(p)
    PROVE  i = at[t] /\ "unstore" \in FaultKinds /\ faults' = faults + 1
<1>1. /\ i \in Inst /\ i \in stored' /\ PoolOf[i] = p
      /\ \/ i \notin instances'[p] /\ \A u \in Threads : at'[u] = i => pc'[u] # "add"
         \/ pc'[p] = "forget" /\ at'[p] = i
  <2>1. stored' \subseteq Inst
    BY DEF IndInv, TypeOK
  <2>2. QED
    BY <2>1 DEF Left, StoredOf, Holders
<1>2. instances \in [Pools -> SUBSET Inst] /\ p \in Threads
  BY DEF IndInv, TypeOK, Threads
<1>3. i = at[t]
  <2> SUFFICES ASSUME i # at[t] PROVE FALSE
    OBVIOUS
  <2>1. /\ i \in stored /\ (i \in instances'[p] <=> i \in instances[p])
        /\ \A u \in Holders(i) : u # t /\ pc'[u] = pc[u] /\ at'[u] = i
    BY <1>1, MapsAway
  <2>2. CASE i \notin instances'[p] /\ \A u \in Threads : at'[u] = i => pc'[u] # "add"
    BY <1>1, <2>1, <2>2 DEF Left, StoredOf, Holders
  <2>3. CASE pc'[p] = "forget" /\ at'[p] = i
    <3>1. t # p
      BY <2>3 DEF Moved, Named, Built, Registered, Started, Dropped, Saved, Added, Turned, Chosen,
                  Deregistered, Deleted, Unstored, Forgotten
    <3>2. pc[p] = "forget" /\ at[p] = i
      BY <1>2, <2>3, <3>1 DEF OnlyAt
    <3>3. QED
      BY <1>1, <2>1, <3>2 DEF Left, StoredOf
  <2>4. QED
    BY <1>1, <2>2, <2>3
<1>4. \A u \in Threads : at[u] = i => u = t
  BY <1>1, <1>3, WorldAssumption DEF IndInv, Ownership
<1>5. CASE Plain(t)
  <2>1. stored' = stored /\ instances' = instances /\ pc[t] \notin {"add", "forget"}
    BY <1>1, <1>3, <1>5, PlainMoves
  <2>2. i \in instances[p]
    BY <1>1, <1>3, <1>4, <2>1 DEF Left, StoredOf, Holders
  <2>3. pc'[p] = "forget" /\ at'[p] = i
    BY <1>1, <2>1, <2>2
  <2>4. t # p
    BY <1>5, <2>3 DEF Plain, Named, Built, Registered, Started, Dropped, Turned, Chosen, Deregistered, Deleted
  <2>5. QED
    BY <1>2, <1>4, <2>3, <2>4 DEF OnlyAt
<1>6. CASE Saved(t)
  <2>1. pc'[t] = "add" /\ at'[t] = i
    BY <1>3, <1>6 DEF Saved
  <2>2. QED
    BY <1>1, <1>2, <1>4, <2>1 DEF OnlyAt
<1>7. CASE Added(t)
  <2>1. i \in instances'[p] /\ pc'[t] # "forget"
    BY <1>1, <1>2, <1>3, <1>7 DEF Added
  <2>2. QED
    BY <1>1, <1>2, <1>4, <2>1 DEF OnlyAt
<1>8. CASE Unstored(t)
  BY <1>1, <1>3, <1>8 DEF Unstored
<1>9. CASE Forgotten(t)
  <2>1. t = p /\ pc[t] = "forget" /\ stored' = stored
    BY <1>1, <1>3, <1>9 DEF Forgotten, IndInv, Control, Ownership, Working, DestroyPC
  <2>2. QED
    BY <1>1, <1>3, <2>1 DEF Left, StoredOf
<1>10. QED
  BY <1>3, <1>5, <1>6, <1>7, <1>8, <1>9 DEF Moved, Plain

\* So a move adds as many as it has spent.
LEMMA LeftMove ==
    ASSUME IndInv, IndInv', NEW t \in Threads, OnlyAt(t), Moved(t), NEW p \in Pools,
           faults \in Nat, faults' >= faults, faults' \in Nat
    PROVE  /\ Cardinality(Left(p)) \in Nat /\ Cardinality(Left(p)') \in Nat
           /\ Cardinality(Left(p)') + Spent <= Cardinality(Left(p)) + Spent'
<1>1. /\ Left(p) \in SUBSET Inst /\ Left(p)' \in SUBSET Inst
      /\ IsFiniteSet(Left(p)) /\ Cardinality(Left(p)) \in Nat /\ Cardinality(Left(p)') \in Nat
  <2>1. stored \subseteq Inst /\ stored' \subseteq Inst
    BY DEF IndInv, TypeOK
  <2>2. Left(p) \in SUBSET Inst /\ Left(p)' \in SUBSET Inst
    BY <2>1 DEF Left, StoredOf
  <2>3. QED
    BY <2>2, CardNat
<1>2. CASE Left(p)' \subseteq Left(p)
  <2>1. Cardinality(Left(p)') <= Cardinality(Left(p))
    BY <1>1, <1>2, FS_Subset
  <2>2. QED
    BY <1>1, <2>1 DEF Spent
<1>3. CASE ~ (Left(p)' \subseteq Left(p))
  <2>1. PICK i \in Left(p)' : i \notin Left(p)
    BY <1>3
  <2>2. i = at[t] /\ "unstore" \in FaultKinds /\ faults' = faults + 1
    BY <2>1, LeftStep
  <2>3. Left(p)' \subseteq Left(p) \cup {i}
    <3>1. ASSUME NEW j \in Left(p)', j \notin Left(p) PROVE j = i
      BY <2>2, <3>1, LeftStep
    <3>2. QED
      BY <3>1
  <2>4. i \in Inst
    BY <1>1, <2>1
  <2> DEFINE old == Left(p)
             new == Left(p)'
  <2>5. /\ old \in SUBSET Inst /\ i \notin old /\ new \subseteq old \cup {i} /\ old \cup {i} \in SUBSET Inst
        /\ Cardinality(old) \in Nat /\ Cardinality(new) \in Nat
    BY <1>1, <2>1, <2>3, <2>4
  <2>6. Spent' = Spent + 1 /\ Spent \in Nat
    BY <2>2 DEF Spent
  <2>7. Cardinality(new) + Spent <= Cardinality(old) + Spent'
    <3> HIDE DEF old, new
    <3>1. Cardinality(old \cup {i}) = Cardinality(old) + 1
      BY <2>4, <2>5, CardAdd
    <3>2. IsFiniteSet(old \cup {i})
      BY <2>5, CardNat
    <3>3. Cardinality(new) <= Cardinality(old \cup {i})
      BY <2>5, <3>2, FS_Subset
    <3>4. QED
      BY <2>5, <2>6, <3>1, <3>3
  <2>8. QED
    BY <1>1, <2>7
<1>4. QED
  BY <1>2, <1>3

\* What a restart would find: what is tracked, is about to be, or stayed behind.
LEMMA RowsBounded ==
    ASSUME IndInv, NEW p \in Pools, NEW g \in Nat, Share(p) <= Most(p) + g,
           pc[p] \in CreatePC => idle[p] < MinIdle[p]
    PROVE  Cardinality(StoredOf(p)) <= Most(p) + g + Cardinality(Left(p))
<1> DEFINE made == {at[w] : w \in Making(p)}
           own == IF pc[p] = "add" THEN {at[p]} ELSE {}
           left == Left(p)
<1>1. StoredOf(p) \subseteq ((instances[p] \cup made) \cup own) \cup left
  <2> SUFFICES ASSUME NEW i \in StoredOf(p), i \notin instances[p], i \notin left
               PROVE  i \in made \cup own
    OBVIOUS
  <2>1. i \in stored /\ PoolOf[i] = p
    BY DEF StoredOf
  <2>2. PICK t \in Threads : at[t] = i /\ pc[t] = "add"
    BY DEF Left, Holders
  <2>3. CASE t \in Workers
    BY <2>1, <2>2, <2>3 DEF Making, CreatePC
  <2>4. CASE t \in Pools
    <3>1. t = p
      BY <2>1, <2>2, <2>4 DEF IndInv, Control, Working, CreatePC
    <3>2. QED
      BY <2>2, <3>1
  <2>5. QED
    BY <2>3, <2>4 DEF Threads
<1>2. /\ IsFiniteSet(instances[p]) /\ Cardinality(instances[p]) \in Nat
      /\ IsFiniteSet(Making(p)) /\ Cardinality(Making(p)) \in Nat
      /\ Cardinality(Workers) \in Nat /\ MinIdle[p] \in Nat /\ Owed(p) \in Nat /\ idle[p] \in Nat
  BY Numbers
<1>3. IsFiniteSet(made) /\ Cardinality(made) <= Cardinality(Making(p))
  <2> DEFINE f == [w \in Making(p) |-> at[w]]
  <2>1. f \in Surjection(Making(p), made)
    BY DEF Surjection
  <2> HIDE DEF made, f
  <2>2. QED
    BY <1>2, <2>1, FS_Surjection DEF ExistsSurjection
<1>4. IsFiniteSet(own) /\ Cardinality(own) <= Owed(p)
  <2>1. CASE pc[p] = "add"
    <3>1. IsFiniteSet({at[p]}) /\ Cardinality({at[p]}) = 1
      BY FS_Singleton
    <3>2. Owed(p) >= 1
      BY <1>2, <2>1 DEF Owed, CreatePC
    <3>3. QED
      BY <1>2, <2>1, <3>1, <3>2
  <2>2. CASE pc[p] # "add"
    <3>1. IsFiniteSet({}) /\ Cardinality({}) = 0
      BY FS_EmptySet
    <3>2. own = {}
      BY <2>2
    <3> HIDE DEF own
    <3>3. QED
      BY <1>2, <3>1, <3>2
  <2>3. QED
    BY <2>1, <2>2
<1>5. IsFiniteSet(left)
  <2>1. left \in SUBSET Inst
    BY DEF Left, StoredOf, IndInv, TypeOK
  <2>2. QED
    BY <2>1, CardNat
<1> HIDE DEF made, own, left
<1> DEFINE A == instances[p] \cup made
           B == A \cup own
           C == B \cup left
<1>6. /\ IsFiniteSet(A) /\ Cardinality(made) \in Nat
      /\ Cardinality(A) \in Nat /\ Cardinality(A) <= Cardinality(instances[p]) + Cardinality(made)
  BY <1>2, <1>3, CardUnion
<1> HIDE DEF A
<1>7. /\ IsFiniteSet(B) /\ Cardinality(own) \in Nat
      /\ Cardinality(B) \in Nat /\ Cardinality(B) <= Cardinality(A) + Cardinality(own)
  BY <1>4, <1>6, CardUnion
<1> HIDE DEF B
<1>8. /\ IsFiniteSet(C) /\ Cardinality(left) \in Nat
      /\ Cardinality(C) \in Nat /\ Cardinality(C) <= Cardinality(B) + Cardinality(left)
  BY <1>5, <1>7, CardUnion
<1>9. StoredOf(p) \subseteq C
  BY <1>1 DEF A, B
<1> HIDE DEF C
<1>10. Cardinality(StoredOf(p)) \in Nat /\ Cardinality(StoredOf(p)) <= Cardinality(C)
  BY <1>8, <1>9, FS_Subset, FS_CardinalityType
<1>11. Cardinality(instances[p]) + Cardinality(Making(p)) + Owed(p) <= MinIdle[p] + Cardinality(Workers) + g
  BY DEF Share, Most
<1>12. Cardinality(StoredOf(p)) <= MinIdle[p] + Cardinality(Workers) + g + Cardinality(left)
  BY <1>2, <1>3, <1>4, <1>6, <1>7, <1>8, <1>10, <1>11
<1>13. QED
  BY <1>12 DEF Most, left

\* Every step keeps under the bound; a restart turns what stayed behind into g.
LEMMA CeilingStep ==
    ASSUME IndInv, Ceiling, IndInv', [Next]_vars
    PROVE  Ceiling'
<1>1. faults \in Nat /\ faults' \in Nat /\ faults' >= faults
  BY FaultsGrow DEF IndInv, TypeOK
<1>2. Spent \in Nat /\ Spent' \in Nat /\ Spent' >= Spent
  BY <1>1 DEF Spent
<1> SUFFICES ASSUME NEW p \in Pools
             PROVE  (pc'[p] \in CreatePC => idle'[p] < MinIdle[p]) /\ \E g \in Nat : Extra(p, g)'
  BY DEF Ceiling
<1>3. pc[p] \in CreatePC => idle[p] < MinIdle[p]
  BY DEF Ceiling
<1>4. PICK g \in Nat : Extra(p, g)
  BY DEF Ceiling
<1>5. /\ Cardinality(Left(p)) \in Nat /\ Cardinality(StoredOf(p)) \in Nat
      /\ Most(p) \in Nat /\ p \in Threads
  <2>1. Left(p) \in SUBSET Inst /\ StoredOf(p) \in SUBSET Inst
    BY DEF Left, StoredOf, IndInv, TypeOK
  <2>2. QED
    BY <2>1, CardNat, Numbers DEF Most, Threads
<1>6. Steps
  BY StepCases
<1>7. ASSUME NEW t \in Threads, OnlyAt(t), Moved(t)
      PROVE  (pc'[p] \in CreatePC => idle'[p] < MinIdle[p]) /\ Extra(p, g)'
  <2>1. Share(p)' <= Most(p) + g
    BY <1>3, <1>4, <1>7, ShareStep DEF Extra
  <2>2. pc'[p] \in CreatePC => idle'[p] < MinIdle[p]
    <3>1. CASE t # p
      BY <1>3, <1>5, <1>7, <3>1 DEF OnlyAt
    <3>2. CASE t = p /\ Named(t)
      BY <3>2 DEF Named
    <3>3. CASE t = p /\ (Built(t) \/ Registered(t) \/ Started(t) \/ Saved(t))
      BY <1>3, <3>3 DEF Built, Registered, Started, Saved, CreatePC
    <3>4. CASE Dropped(t) \/ Added(t) \/ Turned(t) \/ Chosen(t) \/ Deregistered(t) \/ Deleted(t)
               \/ Unstored(t) \/ Forgotten(t)
      <4>1. pc'[t] \notin CreatePC
        BY <3>4 DEF Dropped, Added, Turned, Chosen, Deregistered, Deleted, Unstored, Forgotten, CreatePC
      <4>2. QED
        BY <3>1, <4>1
    <3>5. QED
      BY <1>7, <3>1, <3>2, <3>3, <3>4 DEF Moved
  <2>3. Alive /\ Alive'
    BY <1>7 DEF OnlyAt, Alive
  <2>4. /\ Cardinality(Left(p)') \in Nat
        /\ Cardinality(Left(p)') + Spent <= Cardinality(Left(p)) + Spent'
    BY <1>1, <1>7, LeftMove
  <2>5. g + Cardinality(Left(p)) <= Spent
    BY <1>4, <2>3 DEF Extra
  <2>6. g + Cardinality(Left(p)') <= Spent'
    BY <1>2, <1>5, <2>4, <2>5
  <2>7. Extra(p, g)'
    BY <2>1, <2>3, <2>6 DEF Extra, Most
  <2>8. QED
    BY <2>2, <2>7
<1>8. ASSUME Quiet \/ \E i \in Inst : Sweep(i)
      PROVE  (pc'[p] \in CreatePC => idle'[p] < MinIdle[p]) /\ Extra(p, g)'
  <2>1. /\ instances' = instances /\ pc' = pc /\ at' = at /\ idle' = idle /\ stored' = stored
        /\ Alive' <=> Alive
    BY <1>8 DEF Quiet, Sweep, Alive, locals
  <2>2. /\ Share(p)' = Share(p) /\ Most(p)' = Most(p)
        /\ Left(p)' = Left(p) /\ StoredOf(p)' = StoredOf(p)
    BY <2>1 DEF Share, Making, Owed, StoredOf, Most, Left, Holders
  <2>3. Extra(p, g)'
    BY <1>2, <1>4, <1>5, <2>1, <2>2 DEF Extra
  <2>4. QED
    BY <1>3, <2>1, <2>3
<1>9. ASSUME Alive, Halt
      PROVE  pc'[p] \notin CreatePC /\ \E h \in Nat : Extra(p, h)'
  <2> DEFINE h == g + Cardinality(Left(p))
  <2>1. PICK k \in Nat : k = h
    BY <1>5
  <2>2. k <= Spent
    BY <1>4, <1>9, <2>1 DEF Extra
  <2>3. Cardinality(StoredOf(p)) <= Most(p) + k
    <3>1. Share(p) <= Most(p) + g
      BY <1>4 DEF Extra
    <3>2. Cardinality(StoredOf(p)) <= Most(p) + g + Cardinality(Left(p))
      BY <1>3, <3>1, RowsBounded
    <3>3. QED
      BY <1>5, <2>1, <3>2
  <2>4. instances'[p] = {} /\ Making(p)' = {} /\ Owed(p)' = 0 /\ pc'[p] \notin CreatePC
    BY <1>9, WorldAssumption DEF Halt, Making, Owed, CreatePC, Threads
  <2>5. Cardinality({}) = 0
    BY FS_EmptySet
  <2>6. Share(p)' = 0
    BY <2>4, <2>5 DEF Share
  <2>7. StoredOf(p)' = StoredOf(p) /\ Most(p)' = Most(p) /\ ~Alive'
    BY <1>9 DEF Halt, StoredOf, Most, Alive
  <2>8. Extra(p, k)'
    BY <1>2, <1>5, <2>1, <2>2, <2>3, <2>6, <2>7 DEF Extra
  <2>9. QED
    BY <2>4, <2>8
<1>10. ASSUME Restart
       PROVE  pc'[p] \notin CreatePC /\ Extra(p, g)'
  <2>1. ~Alive /\ pc' = pc /\ at' = at /\ instances'[p] = StoredOf(p) /\ Alive' /\ stored' = stored
    BY <1>10 DEF Restart, Alive
  <2>2. pc[p] = "sleep" /\ \A w \in Workers : pc[w] \notin CreatePC
    BY <2>1 DEF IndInv, Control, Working, Threads
  <2>3. Making(p)' = {} /\ Owed(p)' = 0 /\ pc'[p] \notin CreatePC
    BY <2>1, <2>2 DEF Making, Owed, CreatePC
  <2>4. Cardinality({}) = 0
    BY FS_EmptySet
  <2>5. g <= Spent /\ Cardinality(StoredOf(p)) <= Most(p) + g
    BY <1>4, <2>1 DEF Extra, Alive
  <2>6. Share(p)' = Cardinality(StoredOf(p))
    BY <1>5, <2>1, <2>3, <2>4 DEF Share
  <2>7. Left(p)' = {}
    BY <2>1, <2>2 DEF Left, StoredOf
  <2>8. Most(p)' = Most(p)
    BY DEF Most
  <2>9. Extra(p, g)'
    BY <1>2, <2>1, <2>4, <2>5, <2>6, <2>7, <2>8 DEF Extra
  <2>10. QED
    BY <2>3, <2>9
<1>11. QED
  BY <1>6, <1>7, <1>8, <1>9, <1>10 DEF Steps

\* The race of the scale-up goroutines and the rows a failing store leaves behind are all
\* that can take a pool over MinIdle.
OvershootPaid ==
    \A p \in Pools : Cardinality(instances[p]) <= MinIdle[p] + Cardinality(Workers) + Spent

\* A pool never tracks more than MinIdle instances, one for each scale-up goroutine and, where
\* deletions of rows may fail, one for each fault, over any number of restarts.
THEOREM OvershootAccounted == Spec => []OvershootPaid
<1>1. Init => Ceiling
  <2> SUFFICES ASSUME Init, NEW p \in Pools PROVE pc[p] \notin CreatePC /\ Extra(p, 0)
    BY DEF Ceiling
  <2>1. /\ instances[p] = {} /\ Making(p) = {} /\ Owed(p) = 0 /\ pc[p] \notin CreatePC /\ Alive
        /\ Left(p) = {} /\ Spent = 0
    BY WorldAssumption DEF Init, Making, Owed, CreatePC, Threads, Alive, Left, StoredOf, Spent
  <2>2. Cardinality({}) = 0
    BY FS_EmptySet
  <2>3. Most(p) \in Nat
    BY IndInit, Numbers DEF Most
  <2>4. QED
    BY <2>1, <2>2, <2>3 DEF Extra, Share
<1>2. IndInv /\ Ceiling /\ IndInv' /\ [Next]_vars => Ceiling'
  BY CeilingStep
<1>3. IndInv /\ Ceiling => OvershootPaid
  <2> SUFFICES ASSUME IndInv, Ceiling, NEW p \in Pools
               PROVE  Cardinality(instances[p]) <= MinIdle[p] + Cardinality(Workers) + Spent
    BY DEF OvershootPaid
  <2>1. PICK g \in Nat : Extra(p, g)
    BY DEF Ceiling
  <2>2. Spent \in Nat /\ Cardinality(Left(p)) \in Nat
    <3>1. faults \in Nat /\ Left(p) \in SUBSET Inst
      BY WorldAssumption DEF IndInv, TypeOK, Left, StoredOf
    <3>2. QED
      BY <3>1, CardNat DEF Spent
  <2>3. Cardinality(instances[p]) + Cardinality(Making(p)) + Owed(p) <= MinIdle[p] + Cardinality(Workers) + g
    BY <2>1 DEF Extra, Share, Most
  <2>4. g <= Spent
    BY <2>1, <2>2 DEF Extra
  <2>5. QED
    BY <2>2, <2>3, <2>4, Numbers
<1>4. QED
  BY <1>1, <1>2, <1>3, Inductive, PTL DEF Spec

\* So the race alone bounds the overshoot, across restarts, as long as no row stays behind
\* when its instance goes.
THEOREM OvershootBounded == "unstore" \notin FaultKinds => (Spec => []OvershootBound)
<1> SUFFICES ASSUME "unstore" \notin FaultKinds
             PROVE  Spec => []OvershootBound
  OBVIOUS
<1>1. IndInv /\ OvershootPaid => OvershootBound
  <2> SUFFICES ASSUME IndInv, OvershootPaid, NEW p \in Pools
               PROVE  Cardinality(instances[p]) <= MinIdle[p] + Cardinality(Workers)
    BY DEF OvershootBound
  <2>1. Cardinality(instances[p]) <= MinIdle[p] + Cardinality(Workers) + 0
    BY DEF OvershootPaid, Spent
  <2>2. QED
    BY <2>1, Numbers
<1>2. QED
  BY <1>1, OvershootAccounted, Inductive, PTL
=============================================================================
