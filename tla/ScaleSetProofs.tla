--------------------------- MODULE ScaleSetProofs ---------------------------
(***************************************************************************)
(* Proofs about ScaleSet, for every number of runners, every MaxRunners    *)
(* and every number of changes on their way, messages and faults.          *)
(***************************************************************************)
EXTENDS ScaleSet, FiniteSetTheorems, TLAPS

Rows == {n \in Names : row[n] # "none"}
Created == {"pending_create", "creating"}

\* From the call that creates a machine to what is noted of it.
Building == {"create", "created", "failed", "broken"}
Failed == {"failed", "broken"}

\* The types, by the part of the system; a manager starts and stops with its
\* entry, and what announces a creation says so.
DbOK ==
    /\ row \in [Names -> Statuses \cup {"none"}] /\ rs \in [Names -> RunnerStatuses]
    /\ wev \subseteq Event /\ pev \subseteq Event
    /\ \A e \in wev \cup pev : e.op = "create" => e.st = "pending_create"
WorldOK ==
    /\ fresh \subseteq Names /\ vm \subseteq Names
    /\ gh \in [Names -> {"none", "offline", "idle", "active"}]
    /\ msgs \in Seq(Message)
WorkerOK ==
    /\ wpc \in {"down", "starting", "up"} /\ start \subseteq Names \X Statuses
    /\ target \in 0..MaxRunners /\ zero \in BOOLEAN /\ cons \in Cons
    /\ runners \in [Names -> {Out, Zero} \cup [st : Statuses \ {"deleted"}, rs : RunnerStatuses]]
ProvOK ==
    /\ entry \in [Names -> (Statuses \ {"deleted"}) \cup {"none"}]
    /\ mgr \in [Names -> Statuses \cup {"none"}] /\ held \in [Names -> Statuses \cup {"none"}]
    /\ call \in [Names -> {"no", "create", "created", "failed", "broken", "delete", "force"}]
    /\ \A n \in Names : n \notin run => call[n] = "no" /\ held[n] = "none"
    /\ run \subseteq {n \in Names : mgr[n] # "none"}
    /\ \A n \in Names : entry[n] # "none" => mgr[n] # "none"
HistOK ==
    /\ late \subseteq Names /\ bypassed \subseteq Names /\ forced \subseteq Names
    /\ botched \subseteq Names /\ acked \subseteq Names /\ faults \in 0..MaxFaults

Typed == DbOK /\ WorldOK /\ WorkerOK /\ ProvOK /\ HistOK

\* Nothing is known of a name before it is used.
Unused(n) ==
    /\ n \notin vm /\ n \notin acked
    /\ mgr[n] = "none" /\ held[n] = "none" /\ call[n] = "no"
    /\ runners[n] = Out /\ \A s \in Statuses : <<n, s>> \notin start
    /\ \A i \in 1..Len(msgs) : msgs[i].n # n

FreshUnused ==
    \A n \in fresh :
        /\ row[n] = "none" /\ rs[n] = "pending"
        /\ \A e \in wev \cup pev : e.n # n
        /\ Unused(n)

\* While Start works through its list, a row has an entry or is on the list.
StartCovers ==
    /\ wpc # "starting" => start = {}
    /\ wpc = "starting" => \A n \in Names : row[n] # "none" => runners[n] # Out \/ \E s \in Statuses : <<n, s>> \in start

\* A row that a change calls deleted, or a lookup did not find, is gone.
GoneForGood ==
    /\ \A e \in wev : e.op = "delete" => row[e.n] = "none"
    /\ \A n \in Names : runners[n] = Zero => row[n] = "none"

KnownInv == Typed /\ FreshUnused /\ StartCovers /\ GoneForGood /\ RowsKnown /\ RowCap

\* Its row is deleted, or about to be.
Dying(n) ==
    \/ row[n] = "deleted" \/ <<n, "deleted">> \in start
    \/ \E e \in wev : e.n = n /\ e.op = "update" /\ e.st = "deleted"

\* The exceptions: GitHub registered it after it was listed, or was not asked, or its
\* creation failed or was cut short.
Excepted == late \cup bypassed \cup botched

\* It runs no job, and will not, or it is one of the exceptions.
Harmless(n) ==
    \/ gh[n] = "none" \/ n \in Excepted
    \/ n \notin vm /\ call[n] # "create" /\ row[n] \notin Created

\* A used name whose row is gone or about to be gets no machine, and has none or one that
\* was given up by force and runs no job.
Buried ==
    \A n \in Names \ fresh : row[n] = "none" \/ Dying(n) =>
        /\ n \notin vm \/ n \in forced
        /\ call[n] \notin Building /\ row[n] \notin Created /\ Harmless(n)

\* The runner of an acknowledged job does not come back.
Acknowledged ==
    /\ \A n \in acked : row[n] \notin Created \cup {"running"}
    /\ \A i \in 1..Len(msgs) : msgs[i].kind = "completed" => gh[msgs[i].n] = "none"

\* A change, a manager or Start's list says that n is to be created.
Ordered(n) ==
    \/ held[n] = "pending_create"
    \/ \E e \in pev : e.n = n /\ e.op # "delete" /\ e.st = "pending_create"

\* A machine is created once for a name.
CreatedOnce ==
    \A n \in Names :
        /\ row[n] = "pending_create" =>
             /\ rs[n] = "pending" /\ n \notin vm /\ call[n] = "no" /\ held[n] = "none"
             /\ Ordered(n) => mgr[n] = "none"
             /\ \A e \in pev : e.n = n /\ e.op # "delete" =>
                  e = [n |-> n, op |-> "create", st |-> "pending_create", rs |-> "pending"]
        /\ row[n] = "creating" /\ call[n] = "no" => mgr[n] # "pending_create" /\ ~Ordered(n)
        /\ call[n] \in Building => ~Ordered(n)
        /\ call[n] \in {"delete", "force"} => row[n] \notin Created
        /\ call[n] = "create" => n \notin vm

\* Somebody has decided, or will hear, that the machine of n goes.
Ends == Doomed \cup {"error"}
Condemned(n) ==
    \/ row[n] \in Ends \/ mgr[n] \in Ends \/ held[n] \in Ends \/ call[n] \in {"delete", "force"}
    \/ \E e \in pev : e.n = n /\ e.op # "delete" /\ e.st \in Ends
    \/ \E s \in Ends : <<n, s>> \in start

CondemnedHarmless == \A n \in Names \ fresh : Condemned(n) => Harmless(n)

\* A failed creation is noted as such.
FailedIsBotched == \A n \in Names : call[n] \in Failed => n \in botched

SetInv == KnownInv /\ Buried /\ Acknowledged /\ CreatedOnce /\ CondemnedHarmless /\ FailedIsBotched

-----------------------------------------------------------------------------
(* The store.                                                              *)

\* The parts are the types.
LEMMA TypedIsType == Typed => TypeOK
BY DEF Typed, DbOK, WorldOK, WorkerOK, ProvOK, HistOK, TypeOK

\* Nothing is there at the start.
LEMMA TypedInit == Init => Typed
<1> SUFFICES ASSUME Init PROVE Typed
  OBVIOUS
<1>1. NoCons \in Cons
  BY DEF NoCons, Cons
<1>2. DbOK /\ WorldOK /\ ProvOK /\ HistOK
  BY ScaleSetAssumption DEF Init, DbOK, WorldOK, ProvOK, HistOK, RunnerStatuses
<1>3. WorkerOK
  BY <1>1 DEF Init, WorkerOK
<1>4. QED
  BY <1>2, <1>3 DEF Typed

\* An update of a row; both workers may hear of it.
LEMMA WriteTyped ==
    ASSUME DbOK, NEW n \in Names, NEW s \in Statuses, NEW r \in RunnerStatuses, Write(n, s, r)
    PROVE  /\ DbOK' /\ row' = [row EXCEPT ![n] = s] /\ rs' = [rs EXCEPT ![n] = r]
           /\ wev' \in {wev, wev \cup {[n |-> n, op |-> "update", st |-> s, rs |-> r]}}
           /\ wpc # "up" => wev' = wev
           /\ pev' = pev \cup {[n |-> n, op |-> "update", st |-> s, rs |-> r]}
<1>1. row' = [row EXCEPT ![n] = s] /\ rs' = [rs EXCEPT ![n] = r]
  BY DEF Write
<1>2. row'[n] = s /\ rs'[n] = r
  BY <1>1 DEF DbOK
<1>3. [n |-> n, op |-> "update", st |-> s, rs |-> r] \in Event
  BY DEF Event
<1>4. /\ wev' \in {wev, wev \cup {[n |-> n, op |-> "update", st |-> s, rs |-> r]}}
      /\ wpc # "up" => wev' = wev
      /\ pev' = pev \cup {[n |-> n, op |-> "update", st |-> s, rs |-> r]}
  BY <1>2 DEF Write, SendUpdate, Send
<1>5. DbOK'
  BY <1>1, <1>3, <1>4 DEF DbOK
<1>6. QED
  BY <1>1, <1>4, <1>5

\* A row is taken away; w and p are changes that were on their way.
LEMMA DropTyped ==
    ASSUME DbOK, NEW n \in Names, NEW w \in SUBSET wev, DropRow(n, w, pev)
    PROVE  /\ DbOK'
           /\ row' = [row EXCEPT ![n] = "none"]
           /\ \A e \in wev' : e \in w \/ (e.n = n /\ e.op = "delete" /\ row[n] # "none")
           /\ \A e \in pev' : e \in pev \/ (e.n = n /\ e.op = "delete" /\ row[n] # "none")
           /\ \A k \in Names : k # n \/ row[k] = "none" => rs'[k] = rs[k]
<1> DEFINE d == [n |-> n, op |-> "delete", st |-> "pending_create", rs |-> "pending"]
<1>1. d \in Event /\ d.op = "delete" /\ d.n = n
  BY DEF Event, Statuses, RunnerStatuses
<1>2. CASE row[n] = "none"
  <2>1. UNCHANGED row /\ UNCHANGED rs /\ wev' = w /\ pev' = pev
    BY <1>2 DEF DropRow, db
  <2>2. row = [row EXCEPT ![n] = "none"]
    BY <1>2 DEF DbOK
  <2>3. DbOK'
    BY <2>1 DEF DbOK
  <2>4. QED
    BY <2>1, <2>2, <2>3
<1>3. CASE row[n] # "none"
  <2>1. /\ row' = [row EXCEPT ![n] = "none"] /\ rs' = [rs EXCEPT ![n] = "pending"]
        /\ pev' = pev \cup {d} /\ wev' \in {w, w \cup {d}}
    BY <1>3 DEF DropRow, Send
  <2>2. \A e \in wev' \cup pev' : e.op = "create" => e \in wev \cup pev
    BY <1>1, <2>1
  <2>3. DbOK'
    BY <1>1, <2>1, <2>2 DEF DbOK, RunnerStatuses
  <2>4. QED
    BY <1>1, <1>3, <2>1, <2>3 DEF DbOK
<1>4. QED
  BY <1>2, <1>3

\* No row comes into being, and a new change tells the row as it is now.
Told ==
    /\ \A n \in Names : row[n] = "none" => row'[n] = "none" /\ rs'[n] = rs[n]
    /\ \A e \in (wev' \ wev) \cup (pev' \ pev) :
         /\ row[e.n] # "none"
         /\ \/ e.op = "update" /\ e.st = row'[e.n] /\ row'[e.n] # "none"
            \/ e.op = "delete" /\ row'[e.n] = "none"

\* The row of n keeps its status or takes s; the others stay.
Set(n, s) ==
    /\ \A k \in Names \ {n} : row'[k] = row[k] /\ rs'[k] = rs[k]
    /\ row'[n] = row[n] \/ (row[n] # "none" /\ row'[n] = s)

\* ForceUpdateInstance and UpdateInstance.
LEMMA StatusTyped ==
    ASSUME DbOK, NEW n \in Names, NEW s \in Statuses, ForceStatus(n, s) \/ UpdateStatus(n, s)
    PROVE  /\ DbOK' /\ Told /\ Set(n, s) /\ UNCHANGED rs
           /\ UpdateStatus(n, s) /\ ~MayBecome(n, s) => NoWrite
           /\ row[n] # "none" /\ (ForceStatus(n, s) \/ MayBecome(n, s)) => row'[n] = s
<1> USE DEF MayBecome
<1>1. CASE NoWrite /\ ~(row[n] # "none" /\ (ForceStatus(n, s) \/ MayBecome(n, s)))
  BY <1>1 DEF NoWrite, db, DbOK, Told, Set
<1>2. CASE row[n] # "none" /\ Write(n, s, rs[n])
  <2>1. rs[n] \in RunnerStatuses
    BY DEF DbOK
  <2>2. /\ DbOK' /\ row' = [row EXCEPT ![n] = s] /\ rs' = [rs EXCEPT ![n] = rs[n]]
        /\ \A e \in (wev' \ wev) \cup (pev' \ pev) :
             e = [n |-> n, op |-> "update", st |-> s, rs |-> rs[n]]
    BY <1>2, <2>1, WriteTyped
  <2>3. rs' = rs
    BY <2>2 DEF DbOK
  <2>4. s # "none"
    BY DEF Statuses, Doomed
  <2>5. row'[n] = s /\ \A k \in Names \ {n} : row'[k] = row[k]
    BY <2>2 DEF DbOK
  <2>6. Told
    BY <1>2, <2>2, <2>4, <2>5 DEF Told
  <2>7. UpdateStatus(n, s) => MayBecome(n, s) \/ NoWrite
    BY DEF UpdateStatus
  <2>8. QED
    BY <1>2, <2>2, <2>3, <2>5, <2>6, <2>7 DEF Set
<1>3. QED
  BY <1>1, <1>2 DEF ForceStatus, UpdateStatus

\* A change of the row with its runner status.
LEMMA WriteTold ==
    ASSUME DbOK, NEW n \in Names, NEW s \in Statuses, NEW r \in RunnerStatuses,
           row[n] # "none", Write(n, s, r)
    PROVE  DbOK' /\ Told /\ Set(n, s) /\ row'[n] = s /\ rs'[n] = r
<1>1. /\ DbOK' /\ row' = [row EXCEPT ![n] = s] /\ rs' = [rs EXCEPT ![n] = r]
      /\ \A e \in (wev' \ wev) \cup (pev' \ pev) :
           e = [n |-> n, op |-> "update", st |-> s, rs |-> r]
  BY WriteTyped
<1>2. s # "none"
  BY DEF Statuses, Doomed
<1>3. row'[n] = s /\ rs'[n] = r /\ \A k \in Names \ {n} : row'[k] = row[k] /\ rs'[k] = rs[k]
  BY <1>1 DEF DbOK
<1>4. QED
  BY <1>1, <1>2, <1>3 DEF Told, Set

\* A row is taken away.
LEMMA DropTold ==
    ASSUME DbOK, NEW n \in Names, NEW w \in SUBSET wev, DropRow(n, w, pev)
    PROVE  /\ DbOK' /\ Told /\ row'[n] = "none"
           /\ \A k \in Names \ {n} : row'[k] = row[k] /\ rs'[k] = rs[k]
<1>1. /\ DbOK' /\ row' = [row EXCEPT ![n] = "none"]
      /\ \A e \in wev' : e \in w \/ (e.n = n /\ e.op = "delete" /\ row[n] # "none")
      /\ \A e \in pev' : e \in pev \/ (e.n = n /\ e.op = "delete" /\ row[n] # "none")
      /\ \A k \in Names : k # n \/ row[k] = "none" => rs'[k] = rs[k]
  BY DropTyped
<1>2. row'[n] = "none" /\ \A k \in Names \ {n} : row'[k] = row[k]
  BY <1>1 DEF DbOK
<1>3. QED
  BY <1>1, <1>2 DEF Told

\* Nothing is written; changes may arrive or be lost.
LEMMA QuietTold ==
    ASSUME DbOK, UNCHANGED db, wev' \subseteq wev, pev' \subseteq pev
    PROVE  DbOK' /\ Told /\ \A n \in Names : row'[n] = row[n] /\ rs'[n] = rs[n]
BY DEF db, DbOK, Told

-----------------------------------------------------------------------------
(* Types, action by action.                                                *)

\* A step that leaves a part alone keeps it.
LEMMA SetFrame ==
    /\ WorldOK /\ UNCHANGED <<fresh, gh, vm, msgs>> => WorldOK'
    /\ WorkerOK /\ UNCHANGED worker => WorkerOK'
    /\ ProvOK /\ UNCHANGED prov => ProvOK'
    /\ HistOK /\ UNCHANGED <<hist, faults>> => HistOK'
BY DEF WorldOK, WorkerOK, ProvOK, HistOK, worker, prov, hist

\* A fault is counted, up to the bound.
LEMMA SetFaults ==
    ASSUME faults \in 0..MaxFaults, (\E k \in AllFaults : Fault(k)) \/ UNCHANGED faults
    PROVE  faults' \in 0..MaxFaults
BY ScaleSetAssumption DEF Fault

\* What the worker stores of an instance.
LEMMA CopyType ==
    ASSUME NEW s \in Statuses \ {"deleted"}, NEW r \in RunnerStatuses
    PROVE  /\ Copy(s, r) \in [st : Statuses \ {"deleted"}, rs : RunnerStatuses]
           /\ Copy(s, r) # Out /\ Copy(s, r) # Zero
BY DEF Copy, Out, Zero, Statuses, Doomed

\* GitHub only forgets runners.
LEMMA RemoveType ==
    ASSUME WorldOK, NEW n \in Names, RemoveRunner(n)
    PROVE  /\ gh' \in [Names -> {"none", "offline", "idle", "active"}]
           /\ \A k \in Names : gh'[k] = gh[k] \/ (k = n /\ gh[k] # "active" /\ gh'[k] = "none")
           /\ gh[n] # "active" => gh'[n] = "none"
BY DEF WorldOK, RemoveRunner

\* The worker handles a change.
LEMMA HandleEventTyped ==
    ASSUME Typed, NEW e \in wev, HandleEvent(e)
    PROVE  Typed' /\ Told
<1>1. e \in Event
  BY DEF Typed, DbOK
<1>2. e.n \in Names /\ e.st \in Statuses /\ e.rs \in RunnerStatuses
      /\ e.op \in {"create", "update", "delete"}
  BY <1>1 DEF Event
<1>3. WorldOK' /\ ProvOK' /\ HistOK'
  BY SetFrame DEF Typed, HandleEvent, hist, world
<1>4. DbOK' /\ Told
  <2>1. CASE e.op = "update" /\ e.st = "deleted"
    <3>1. wev \ {e} \in SUBSET wev /\ DropRow(e.n, wev \ {e}, pev)
      BY <2>1 DEF HandleEvent
    <3>2. QED
      BY <1>2, <3>1, DropTold DEF Typed
  <2>2. CASE ~(e.op = "update" /\ e.st = "deleted")
    BY <2>2, QuietTold DEF Typed, HandleEvent
  <2>3. QED
    BY <2>1, <2>2
<1>5. WorkerOK'
  <2>1. CASE (e.op = "update" /\ e.st = "deleted") \/ e.op = "delete"
    BY <1>2, <2>1 DEF Typed, WorkerOK, HandleEvent
  <2>2. CASE ~((e.op = "update" /\ e.st = "deleted") \/ e.op = "delete")
    <3>1. e.st # "deleted"
      BY <1>2, <2>2 DEF Typed, DbOK
    <3>2. Copy(e.st, e.rs) \in [st : Statuses \ {"deleted"}, rs : RunnerStatuses]
      BY <1>2, <3>1, CopyType
    <3>3. runners' = [runners EXCEPT ![e.n] = Copy(e.st, e.rs)]
      BY <2>2 DEF HandleEvent
    <3>4. QED
      BY <3>2, <3>3 DEF Typed, WorkerOK, HandleEvent
  <2>3. QED
    BY <2>1, <2>2
<1>6. QED
  BY <1>3, <1>4, <1>5 DEF Typed

\* A runner is taken out of service.
LEMMA ScaleDownTyped ==
    ASSUME Typed, NEW n \in Names, ScaleDown(n)
    PROVE  Typed' /\ Told
<1>1. DbOK' /\ Told /\ UNCHANGED rs
  BY StatusTyped DEF Typed, ScaleDown, Statuses, Doomed
<1>2. WorldOK'
  BY RemoveType DEF Typed, WorldOK, ScaleDown
<1>3. rs[n] \in RunnerStatuses
  BY DEF Typed, DbOK
<1>4. Copy("pending_delete", rs[n]) \in [st : Statuses \ {"deleted"}, rs : RunnerStatuses]
  BY <1>3, CopyType DEF Statuses, Doomed
<1>5. WorkerOK'
  BY <1>4 DEF Typed, WorkerOK, ScaleDown
<1>6. ProvOK' /\ HistOK'
  BY SetFrame DEF Typed, ScaleDown, hist
<1>7. QED
  BY <1>1, <1>2, <1>5, <1>6 DEF Typed

\* One more runner is made, or only registered in GitHub.
LEMMA ScaleUpTyped ==
    ASSUME Typed, NEW n \in Names, ScaleUp(n) \/ ScaleUpFails(n)
    PROVE  Typed'
<1> DEFINE c == [n |-> n, op |-> "create", st |-> "pending_create", rs |-> "pending"]
<1>1. c \in Event /\ c.st = "pending_create"
  BY DEF Event, Statuses, RunnerStatuses
<1>2. ProvOK' /\ HistOK'
  BY SetFrame, SetFaults DEF Typed, HistOK, ScaleUp, ScaleUpFails, hist, AllFaults
<1>3. WorldOK'
  BY DEF Typed, WorldOK, ScaleUp, ScaleUpFails
<1>4. CASE ScaleUp(n)
  <2>1. pev' = pev \cup {c} /\ wev' \in {wev, wev \cup {c}}
    BY <1>4 DEF ScaleUp, Send
  <2>2. DbOK'
    BY <1>1, <1>4, <2>1 DEF Typed, DbOK, ScaleUp, Statuses
  <2>3. Copy("pending_create", "pending") \in [st : Statuses \ {"deleted"}, rs : RunnerStatuses]
    BY CopyType DEF Statuses, RunnerStatuses
  <2>4. WorkerOK'
    BY <1>4, <2>3 DEF Typed, WorkerOK, ScaleUp
  <2>5. QED
    BY <1>2, <1>3, <2>2, <2>4 DEF Typed
<1>5. CASE ScaleUpFails(n)
  <2>1. DbOK' /\ WorkerOK'
    BY <1>5, QuietTold, SetFrame DEF Typed, ScaleUpFails
  <2>2. QED
    BY <1>2, <1>3, <2>1 DEF Typed
<1>6. QED
  BY <1>4, <1>5

\* consolidateRunnerState keeps its notes in order.
LEMMA ConsType ==
    ASSUME cons \in Cons
    PROVE  /\ NoCons \in Cons
           /\ \A n \in Names : Next1(n) => cons' \in Cons
           /\ \A ph \in {"no", "got", "reap", "missing", "gone"} : \A todo \in SUBSET Names :
                Phase(ph, todo) => cons' \in Cons
BY DEF Cons, NoCons, Next1, Phase

\* A runner is marked for deletion, in the row and in the map.
LEMMA PendingDeleteTyped ==
    ASSUME Typed, NEW n \in Names, NEW id \in {n, ""}, SetPendingDelete(n, id),
           UNCHANGED <<wpc, start, target>>
    PROVE  DbOK' /\ Told /\ WorkerOK' /\ Set(n, "pending_delete") /\ UNCHANGED rs
<1>1. "pending_delete" \in Statuses \ {"deleted"} /\ rs[n] \in RunnerStatuses
  BY DEF Statuses, Doomed, Typed, DbOK
<1>2. Copy("pending_delete", rs[n]) \in [st : Statuses \ {"deleted"}, rs : RunnerStatuses]
  BY <1>1, CopyType
<1>3. CASE row[n] # "none" /\ ~MayBecome(n, "pending_delete")
  <2>1. NoWrite /\ cons' = NoCons /\ UNCHANGED <<runners, zero>>
    BY <1>3 DEF SetPendingDelete
  <2>2. DbOK' /\ Told /\ Set(n, "pending_delete") /\ UNCHANGED rs
    BY <2>1, QuietTold DEF Typed, NoWrite, Set, db
  <2>3. QED
    BY <2>1, <2>2, ConsType DEF Typed, WorkerOK
<1>4. CASE ~(row[n] # "none" /\ ~MayBecome(n, "pending_delete"))
  <2>1. /\ UpdateStatus(n, "pending_delete") /\ Next1(n)
        /\ zero' \in {TRUE, zero}
        /\ \/ runners' = [runners EXCEPT ![n] = Copy("pending_delete", rs[n])]
           \/ runners' = [runners EXCEPT ![n] = Zero] \/ UNCHANGED runners
    BY <1>4 DEF SetPendingDelete
  <2>2. DbOK' /\ Told /\ Set(n, "pending_delete") /\ UNCHANGED rs
    BY <1>1, <2>1, StatusTyped DEF Typed
  <2>3. cons' \in Cons
    BY <2>1, ConsType DEF Typed, WorkerOK
  <2>4. runners' \in [Names -> {Out, Zero} \cup [st : Statuses \ {"deleted"}, rs : RunnerStatuses]]
    BY <1>2, <2>1 DEF Typed, WorkerOK
  <2>5. WorkerOK'
    BY <2>1, <2>3, <2>4 DEF Typed, WorkerOK
  <2>6. QED
    BY <2>2, <2>5
<1>5. QED
  BY <1>3, <1>4

\* A step of the clean-up that only notes something.
LEMMA NoteTyped ==
    ASSUME Typed, UNCHANGED <<db, wev, pev, wpc, start, target, runners>>,
           cons' \in Cons, zero' \in BOOLEAN
    PROVE  DbOK' /\ Told /\ WorkerOK'
BY QuietTold DEF Typed, WorkerOK

\* One runner of the clean-up's list.
LEMMA ConsolidateOneTyped ==
    ASSUME Typed, NEW n \in Names, ReapOne(n) \/ MissingOne(n) \/ GoneOne(n)
    PROVE  Typed' /\ Told
<1>1. ProvOK'
  BY SetFrame DEF Typed, ReapOne, MissingOne, GoneOne, Idle
<1>2. HistOK'
  BY DEF Typed, HistOK, ReapOne, MissingOne, GoneOne, Idle
<1>3. WorldOK'
  BY RemoveType DEF Typed, WorldOK, ReapOne, MissingOne, GoneOne, Idle, world
<1>4. DbOK' /\ Told /\ WorkerOK'
  <2>1. UNCHANGED <<wpc, start, target>>
    BY DEF ReapOne, MissingOne, GoneOne
  <2>2. CASE SetPendingDelete(n, n) \/ SetPendingDelete(n, "")
    BY <2>1, <2>2, PendingDeleteTyped
  <2>3. CASE ~(SetPendingDelete(n, n) \/ SetPendingDelete(n, ""))
    <3>1. /\ NoWrite /\ UNCHANGED runners /\ zero' \in BOOLEAN
          /\ Next1(n) \/ cons' = NoCons
      BY <2>3 DEF Typed, WorkerOK, ReapOne, MissingOne, GoneOne
    <3>2. cons' \in Cons
      BY <3>1, ConsType DEF Typed, WorkerOK
    <3>3. QED
      BY <2>1, <3>1, <3>2, NoteTyped DEF NoWrite, db
  <2>4. QED
    BY <2>2, <2>3
<1>5. QED
  BY <1>1, <1>2, <1>3, <1>4 DEF Typed

\* The other steps of the clean-up, and a new target.
LEMMA ConsolidateTyped ==
    ASSUME Typed,
           \/ ConsolidateList \/ ConsolidateUnknown \/ ReapDone \/ ConsolidateProvider
           \/ ConsolidateDone \/ SetTarget
    PROVE  Typed' /\ Told
<1>1. ProvOK'
  BY SetFrame DEF Typed, ConsolidateList, ConsolidateUnknown, ReapDone, ConsolidateProvider,
     ConsolidateDone, SetTarget, Idle
<1>2. HistOK'
  BY SetFaults DEF Typed, HistOK, ConsolidateList, ConsolidateUnknown, ReapDone, ConsolidateProvider,
     ConsolidateDone, SetTarget, Idle, hist, NoFault, AllFaults
<1>3. WorldOK'
  BY DEF Typed, WorldOK, ConsolidateList, ConsolidateUnknown, ReapDone, ConsolidateProvider,
     ConsolidateDone, SetTarget, Idle, world
<1>4. Registered \subseteq Names /\ Known \subseteq Names
  BY DEF Registered, Known
<1>5. DbOK' /\ Told
  BY QuietTold DEF Typed, ConsolidateList, ConsolidateUnknown, ReapDone, ConsolidateProvider,
     ConsolidateDone, SetTarget, db
<1>6. WorkerOK'
  <2>1. CASE ConsolidateList \/ ConsolidateDone
    <3>1. [NoCons EXCEPT !.ph = "got", !.gh = Registered, !.off = {n \in Names : gh[n] = "offline"}] \in Cons
      BY <1>4 DEF Cons, NoCons
    <3>2. cons' \in Cons
      BY <2>1, <3>1, ConsType DEF Typed, WorkerOK, ConsolidateList, ConsolidateDone
    <3>3. QED
      BY <2>1, <3>2 DEF Typed, WorkerOK, ConsolidateList, ConsolidateDone
  <2>2. CASE ConsolidateUnknown \/ ReapDone
    BY <1>4, <2>2, ConsType DEF Typed, WorkerOK, ConsolidateUnknown, ReapDone
  <2>3. CASE ConsolidateProvider
    <3>1. cons \in Cons /\ vm \subseteq Names
      BY DEF Typed, WorkerOK, WorldOK
    <3>2. [cons EXCEPT !.ph = "gone", !.todo = Known, !.vms = vm] \in Cons
      BY <1>4, <3>1 DEF Cons
    <3>3. cons' \in Cons
      BY <2>3, <3>1, <3>2, ConsType DEF ConsolidateProvider
    <3>4. QED
      BY <2>3, <3>3 DEF Typed, WorkerOK, ConsolidateProvider
  <2>4. CASE SetTarget
    BY <2>4 DEF Typed, WorkerOK, SetTarget
  <2>5. QED
    BY <2>1, <2>2, <2>3, <2>4
<1>7. QED
  BY <1>1, <1>2, <1>3, <1>5, <1>6 DEF Typed

\* A message is read, and taken from the queue or not.
LEMMA MessageType ==
    ASSUME WorldOK, msgs # <<>>, Ack, UNCHANGED <<fresh, world>>
    PROVE  /\ WorldOK' /\ Head(msgs) \in Message /\ Head(msgs).n \in Names
           /\ Len(msgs) > 0 /\ Head(msgs) = msgs[1] /\ Len(msgs') <= Len(msgs)
           /\ \A i \in 1..Len(msgs') : \E j \in 1..Len(msgs) : msgs'[i] = msgs[j]
<1>1. msgs \in Seq(Message) /\ Len(msgs) \in Nat /\ Len(msgs) > 0
  BY DEF WorldOK
<1>2. Head(msgs) \in Message /\ Head(msgs) = msgs[1]
  BY <1>1
<1>3. Head(msgs).n \in Names
  BY <1>2 DEF Message
<1>4. CASE UNCHANGED msgs
  BY <1>1, <1>2, <1>3, <1>4 DEF WorldOK, world
<1>5. CASE msgs' = Tail(msgs)
  <2>1. msgs' \in Seq(Message) /\ Len(msgs') = Len(msgs) - 1
    BY <1>1, <1>5
  <2>2. \A i \in 1..Len(msgs') : i + 1 \in 1..Len(msgs) /\ msgs'[i] = msgs[i + 1]
    BY <1>1, <1>5, <2>1
  <2>3. QED
    BY <1>1, <1>2, <1>3, <2>1, <2>2 DEF WorldOK, world
<1>6. QED
  BY <1>4, <1>5 DEF Ack

\* A job message is handled.
LEMMA MessageTyped ==
    ASSUME Typed, HandleStarted \/ HandleCompleted
    PROVE  Typed' /\ Told
<1>1. WorldOK' /\ Head(msgs).n \in Names
  BY MessageType DEF Typed, HandleStarted, HandleCompleted
<1>2. WorkerOK' /\ ProvOK'
  BY SetFrame DEF Typed, HandleStarted, HandleCompleted
<1>3. HistOK'
  BY <1>1, SetFaults DEF Typed, HistOK, HandleStarted, HandleCompleted, hist, Ack, NoFault, AllFaults
<1>4. DbOK' /\ Told
  <2> DEFINE n == Head(msgs).n
  <2>1. CASE NoWrite
    BY <2>1, QuietTold DEF Typed, NoWrite, db
  <2>2. CASE row[n] # "none" /\ Write(n, row[n], "active")
    <3>1. row[n] \in Statuses /\ "active" \in RunnerStatuses
      BY <1>1, <2>2 DEF Typed, DbOK, RunnerStatuses
    <3>2. QED
      BY <1>1, <2>2, <3>1, WriteTold DEF Typed
  <2>3. CASE row[n] # "none" /\ Write(n, "pending_delete", "terminated")
    <3>1. "pending_delete" \in Statuses /\ "terminated" \in RunnerStatuses
      BY DEF Statuses, Doomed, RunnerStatuses
    <3>2. QED
      BY <1>1, <2>3, <3>1, WriteTold DEF Typed
  <2>4. QED
    BY <2>1, <2>2, <2>3 DEF HandleStarted, HandleCompleted
<1>5. QED
  BY <1>1, <1>2, <1>3, <1>4 DEF Typed

\* The provider worker hears of a change, or a manager applies or retries.
LEMMA ProviderTyped ==
    ASSUME Typed,
           \/ \E e \in pev : HandleInstanceEvent(e)
           \/ \E n \in Names : ApplyHeld(n) \/ RetryOne(n)
    PROVE  Typed' /\ Told
<1>1. WorldOK' /\ WorkerOK' /\ HistOK'
  BY SetFrame DEF Typed, HandleInstanceEvent, ApplyHeld, RetryOne, Outer, hist, world
<1>2. DbOK' /\ Told
  BY QuietTold DEF Typed, HandleInstanceEvent, ApplyHeld, RetryOne, db
<1>3. ProvOK'
  <2>1. ASSUME NEW e \in pev, HandleInstanceEvent(e) PROVE ProvOK'
    <3>1. e \in Event /\ (e.op = "create" => e.st = "pending_create")
      BY DEF Typed, DbOK
    <3>2. e.n \in Names /\ e.st \in Statuses
      BY <3>1 DEF Event
    <3>3. "none" \notin Statuses /\ "pending_create" # "deleted"
      BY DEF Statuses, Doomed
    <3>4. UNCHANGED call
      BY <2>1 DEF HandleInstanceEvent
    <3>5. CASE UNCHANGED <<entry, run, mgr, held>>
      BY <3>4, <3>5, SetFrame DEF Typed, prov
    <3>6. CASE call[e.n] = "no" /\ NoManager(e.n)
      BY <3>2, <3>4, <3>6 DEF Typed, ProvOK, NoManager
    <3>7. CASE e.st # "deleted" /\ Added(e.n, e.st)
      BY <3>2, <3>3, <3>4, <3>7 DEF Typed, ProvOK, Added
    <3>8. CASE e.st # "deleted" /\ entry[e.n] # "none" /\ ManagerUpdate(e.n, e.st)
      BY <3>2, <3>3, <3>4, <3>8 DEF Typed, ProvOK, ManagerUpdate
    <3>9. QED
      BY <2>1, <3>1, <3>3, <3>5, <3>6, <3>7, <3>8 DEF HandleInstanceEvent
  <2>2. ASSUME NEW n \in Names, ApplyHeld(n) PROVE ProvOK'
    BY <2>2 DEF Typed, ProvOK, ApplyHeld
  <2>3. ASSUME NEW n \in Names, RetryOne(n) PROVE ProvOK'
    <3>1. CASE entry[n] = "deleting"
      BY <2>3, <3>1 DEF Typed, ProvOK, RetryOne, NoManager
    <3>2. CASE entry[n] # "deleting"
      BY <2>3, <3>2 DEF Typed, ProvOK, RetryOne
    <3>3. QED
      BY <3>1, <3>2
  <2>4. QED
    BY <2>1, <2>2, <2>3
<1>4. QED
  BY <1>1, <1>2, <1>3 DEF Typed

\* A manager calls the provider, or notes what a call has given.
LEMMA CallTyped ==
    ASSUME Typed, NEW n \in Names,
           \/ CreateStart(n) \/ CreateCall(n) \/ CreateFail(n) \/ CreateClean(n) \/ CreateRecord(n)
           \/ HandleError(n) \/ DeleteStart(n) \/ DeleteDone(n) \/ DeleteFail(n)
    PROVE  Typed' /\ Told
<1>1. WorldOK'
  BY SetFrame DEF Typed, WorldOK, CreateStart, CreateCall, CreateFail, CreateClean, CreateRecord, HandleError,
     DeleteStart, DeleteDone, DeleteFail, Outer, world
<1>2. WorkerOK'
  BY SetFrame DEF Typed, CreateStart, CreateCall, CreateFail, CreateClean, CreateRecord, HandleError,
     DeleteStart, DeleteDone, DeleteFail, Outer
<1>3. HistOK'
  BY SetFaults DEF Typed, HistOK, CreateStart, CreateCall, CreateFail, CreateClean, CreateRecord, HandleError,
     DeleteStart, DeleteDone, DeleteFail, Outer, hist, AllFaults
<1>4. DbOK' /\ Told
  <2>1. {"creating", "error", "running", "pending_delete", "deleting", "deleted"} \subseteq Statuses
    BY DEF Statuses, Doomed
  <2>2. CASE CreateCall(n) \/ CreateFail(n)
    BY <2>2, QuietTold DEF Typed, CreateCall, CreateFail, db
  <2>3. CASE \E s \in {"creating", "error", "running", "pending_delete", "deleting", "deleted"} :
               ForceStatus(n, s) \/ UpdateStatus(n, s)
    BY <2>1, <2>3, StatusTyped DEF Typed
  <2>4. QED
    BY <2>2, <2>3 DEF CreateStart, CreateClean, CreateRecord, HandleError,
       DeleteStart, DeleteDone, DeleteFail, Finish
<1>5. ProvOK'
  <2>1. \/ \E c \in {"no", "create", "created", "failed", "broken", "delete", "force"} : Calling(n, c)
        \/ UNCHANGED call
    BY DEF CreateStart, CreateCall, CreateFail, CreateClean, CreateRecord, HandleError,
       DeleteStart, DeleteDone, DeleteFail, Finish
  <2>2. UNCHANGED entry /\ (UNCHANGED mgr \/ \E s \in {"running", "error"} : mgr' = [mgr EXCEPT ![n] = s])
    BY DEF CreateStart, CreateCall, CreateFail, CreateClean, CreateRecord, HandleError,
       DeleteStart, DeleteDone, DeleteFail, Finish, Unmanaged
  <2>3. n \in run
    BY DEF CreateStart, CreateCall, CreateFail, CreateClean, CreateRecord, HandleError,
       DeleteStart, DeleteDone, DeleteFail, Ready, Typed, ProvOK
  <2>4. \/ UNCHANGED <<run, held>>
        \/ run' = run \ {n} /\ held' = [held EXCEPT ![n] = "none"] /\ Calling(n, "no")
    BY DEF CreateStart, CreateCall, CreateFail, CreateClean, CreateRecord, HandleError,
       DeleteStart, DeleteDone, DeleteFail, Finish, Unmanaged
  <2>5. {"running", "error"} \subseteq Statuses
    BY DEF Statuses
  <2>6. QED
    BY <2>1, <2>2, <2>3, <2>4, <2>5 DEF Typed, ProvOK, Calling
<1>6. QED
  BY <1>1, <1>2, <1>3, <1>4, <1>5 DEF Typed

\* Start puts a row right and enters it in the map.
LEMMA StartTyped ==
    ASSUME Typed, NEW n \in Names, StartCreating(n) \/ \E s \in Statuses : StartOne(n, s)
    PROVE  Typed' /\ Told
<1>1. ProvOK'
  BY SetFrame DEF Typed, StartCreating, StartOne
<1>2. HistOK'
  BY SetFaults DEF Typed, HistOK, StartCreating, StartOne, hist, NoFault, AllFaults
<1>3. WorldOK'
  BY RemoveType DEF Typed, WorldOK, StartCreating, StartOne, world
<1>4. \A s \in Statuses \ {"deleted"} : Keep(n, s) =>
        runners' \in [Names -> {Out, Zero} \cup [st : Statuses \ {"deleted"}, rs : RunnerStatuses]]
  <2> SUFFICES ASSUME NEW s \in Statuses \ {"deleted"}, Keep(n, s)
               PROVE  runners' \in [Names -> {Out, Zero} \cup [st : Statuses \ {"deleted"}, rs : RunnerStatuses]]
    OBVIOUS
  <2>1. rs[n] \in RunnerStatuses
    BY DEF Typed, DbOK
  <2>2. Copy(s, rs[n]) \in [st : Statuses \ {"deleted"}, rs : RunnerStatuses]
    BY <2>1, CopyType
  <2>3. QED
    BY <2>2 DEF Keep, Typed, WorkerOK
<1>5. {"creating", "pending_delete"} \subseteq Statuses \ {"deleted"}
  BY DEF Statuses, Doomed
<1>6. CASE StartCreating(n)
  <2>1. \/ ForceStatus(n, "pending_delete") /\ Keep(n, "pending_delete")
        \/ NoWrite /\ Keep(n, "creating")
    BY <1>6 DEF StartCreating
  <2>2. DbOK' /\ Told
    BY <1>5, <2>1, StatusTyped, QuietTold DEF Typed, NoWrite, db
  <2>3. WorkerOK'
    BY <1>4, <1>5, <1>6, <2>1 DEF Typed, WorkerOK, StartCreating
  <2>4. QED
    BY <1>1, <1>2, <1>3, <2>2, <2>3 DEF Typed
<1>7. ASSUME NEW s \in Statuses, StartOne(n, s) PROVE Typed' /\ Told
  <2>1. \/ ForceStatus(n, "pending_delete") /\ Keep(n, "pending_delete")
        \/ DropRow(n, wev, pev) /\ UNCHANGED runners
        \/ s # "deleted" /\ Keep(n, s) /\ NoWrite
    BY <1>7 DEF StartOne
  <2>2. DbOK' /\ Told
    BY <1>5, <2>1, StatusTyped, DropTold, QuietTold DEF Typed, NoWrite, db
  <2>3. WorkerOK'
    BY <1>4, <1>5, <1>7, <2>1 DEF Typed, WorkerOK, StartOne
  <2>4. QED
    BY <1>1, <1>2, <1>3, <2>2, <2>3 DEF Typed
<1>8. QED
  BY <1>6, <1>7

\* Start lists the rows, or registers for changes.
LEMMA StartListTyped ==
    ASSUME Typed, StartList \/ StartDone
    PROVE  Typed' /\ Told
<1>1. WorldOK' /\ ProvOK' /\ HistOK' /\ DbOK' /\ Told
  BY SetFrame, QuietTold DEF Typed, StartList, StartDone, world, hist
<1>2. {<<n, row[n]>> : n \in {m \in Names : row[m] # "none"}} \subseteq Names \X Statuses
  BY DEF Typed, DbOK
<1>3. WorkerOK'
  BY <1>2 DEF Typed, WorkerOK, StartList, StartDone
<1>4. QED
  BY <1>1, <1>3 DEF Typed

\* The process ends: the managers are loaded from the rows.
LEMMA CrashTyped ==
    ASSUME Typed, Crash
    PROVE  Typed' /\ Told
<1>1. WorldOK' /\ DbOK' /\ Told
  BY SetFrame, QuietTold DEF Typed, Crash, world
<1>2. HistOK'
  BY SetFaults DEF Typed, HistOK, Crash, hist, AllFaults
<1>3. WorkerOK'
  BY ConsType DEF Typed, WorkerOK, Crash
<1>4. ProvOK'
  <2> DEFINE load == {n \in Names : row[n] \in Statuses \ {"creating", "deleting", "deleted"}}
             e == [n \in Names |-> IF n \in load THEN row[n] ELSE "none"]
  <2>1. entry' = e /\ mgr' = e /\ run' = load
    BY DEF Crash
  <2>2. e \in [Names -> (Statuses \ {"deleted"}) \cup {"none"}] /\ \A n \in load : e[n] # "none"
    BY DEF Statuses, Doomed
  <2>3. held' = [n \in Names |-> "none"] /\ call' = [n \in Names |-> "no"]
    BY DEF Crash
  <2>4. QED
    BY <2>1, <2>2, <2>3 DEF ProvOK
<1>5. QED
  BY <1>1, <1>2, <1>3, <1>4 DEF Typed

\* GitHub, the machines, the administrator, a lost change.
LEMMA WorldTyped ==
    ASSUME Typed,
           \/ DropEvent
           \/ \E n \in Names : \/ ApiDelete(n) \/ VmBoots(n) \/ Callback(n) \/ JobStart(n)
                               \/ JobDone(n) \/ VmFault(n)
    PROVE  Typed' /\ Told
<1>1. WorkerOK' /\ ProvOK'
  BY SetFrame DEF Typed, DropEvent, ApiDelete, VmBoots, Callback, JobStart, JobDone, VmFault
<1>2. HistOK'
  BY SetFaults DEF Typed, HistOK, DropEvent, ApiDelete, VmBoots, Callback, JobStart, JobDone,
     VmFault, hist, AllFaults
<1>3. WorldOK'
  <2>1. CASE DropEvent
    BY <2>1, SetFrame DEF Typed, DropEvent, world
  <2>2. ASSUME NEW n \in Names, ApiDelete(n) \/ VmBoots(n) \/ Callback(n) \/ VmFault(n) PROVE WorldOK'
    BY <2>2, RemoveType DEF Typed, WorldOK, ApiDelete, VmBoots, Callback, VmFault, world
  <2>3. ASSUME NEW n \in Names, JobStart(n) \/ JobDone(n) PROVE WorldOK'
    <3>1. \A k \in {"started", "completed"} : [n |-> n, kind |-> k] \in Message
      BY DEF Message
    <3>2. QED
      BY <2>3, <3>1 DEF Typed, WorldOK, JobStart, JobDone
  <2>4. QED
    BY <2>1, <2>2, <2>3
<1>4. DbOK' /\ Told
  <2>1. CASE UNCHANGED db /\ wev' \subseteq wev /\ pev' \subseteq pev
    BY <2>1, QuietTold DEF Typed
  <2>2. ASSUME NEW n \in Names, ApiDelete(n) PROVE DbOK' /\ Told
    BY <2>2, StatusTyped DEF Typed, ApiDelete, Statuses, Doomed
  <2>3. ASSUME NEW n \in Names, Callback(n) PROVE DbOK' /\ Told
    <3>1. row[n] \in Statuses /\ "idle" \in RunnerStatuses
      BY <2>3 DEF Typed, DbOK, Callback, RunnerStatuses
    <3>2. QED
      BY <2>3, <3>1, WriteTold DEF Typed, Callback
  <2>4. QED
    BY <2>1, <2>2, <2>3 DEF DropEvent, VmBoots, JobStart, JobDone, VmFault, db
<1>5. QED
  BY <1>1, <1>2, <1>3, <1>4 DEF Typed

\* Nothing happens.
LEMMA StutterTyped ==
    ASSUME Typed, UNCHANGED vars
    PROVE  Typed' /\ Told
<1>1. UNCHANGED <<db, wev, pev, fresh, gh, vm, msgs, worker, prov, hist, faults>>
  BY DEF vars, world, hist
<1>2. QED
  BY <1>1, SetFrame, QuietTold DEF Typed

\* Every step keeps the types; but for a scale-up no row comes into being and what
\* the workers will hear is what the row says.
LEMMA TypedStep ==
    ASSUME Typed, [Next]_vars
    PROVE  Typed' /\ (Told \/ \E n \in Names : ScaleUp(n) \/ ScaleUpFails(n))
BY HandleEventTyped, ScaleDownTyped, ScaleUpTyped, ConsolidateOneTyped, ConsolidateTyped, MessageTyped,
   ProviderTyped, CallTyped, StartTyped, StartListTyped, CrashTyped, WorldTyped, StutterTyped
DEF Next, Consolidate, Manage

-----------------------------------------------------------------------------
(* The worker's map.                                                       *)

\* Parts of the invariant that a step keeps by what it does to the rows: no row
\* comes into being, unused names stay so, entries leave the map with their rows.
Kept ==
    /\ Typed' /\ Told /\ fresh' \subseteq fresh
    /\ \A n \in fresh' : Unused(n)'
    /\ UNCHANGED <<wpc, start>>
    /\ \A n \in Names : row'[n] # "none" /\ runners[n] # Out => runners'[n] # Out
    /\ \A n \in Names : runners'[n] = Zero => runners[n] = Zero \/ row'[n] = "none"

\* No row, no part of the number of rows.
LEMMA FewerRows ==
    ASSUME RowCap, Told
    PROVE  RowCap'
<1> DEFINE R == {n \in Names : row[n] # "none"}
<1>1. IsFiniteSet(R)
  BY ScaleSetAssumption, FS_Subset
<1>2. R' \subseteq R
  BY DEF Told
<1>3. Cardinality(R') <= Cardinality(R) /\ Cardinality(R) \in Nat /\ Cardinality(R') \in Nat
  BY <1>1, <1>2, FS_Subset, FS_CardinalityType
<1>4. QED
  BY <1>3, ScaleSetAssumption DEF RowCap

\* An unused name stays so, and no change speaks of it.
LEMMA FreshKept ==
    ASSUME Typed, FreshUnused, Told, fresh' \subseteq fresh, \A n \in fresh' : Unused(n)'
    PROVE  FreshUnused'
<1> SUFFICES ASSUME NEW n \in fresh'
             PROVE  /\ row'[n] = "none" /\ rs'[n] = "pending"
                    /\ \A e \in wev' \cup pev' : e.n # n
                    /\ Unused(n)'
  BY DEF FreshUnused
<1>1. n \in Names /\ row[n] = "none" /\ rs[n] = "pending" /\ \A e \in wev \cup pev : e.n # n
  BY DEF FreshUnused, Typed, WorldOK
<1>2. QED
  BY <1>1 DEF Told

\* Nobody is told that a row is gone while it is there.
LEMMA GoneKept ==
    ASSUME Typed, GoneForGood, Told,
           \A n \in Names : runners'[n] = Zero => runners[n] = Zero \/ row'[n] = "none"
    PROVE  GoneForGood'
<1>1. \A e \in wev' : e.op = "delete" => row'[e.n] = "none"
  <2> SUFFICES ASSUME NEW e \in wev', e.op = "delete" PROVE row'[e.n] = "none"
    OBVIOUS
  <2>1. CASE e \in wev
    <3>1. e.n \in Names /\ row[e.n] = "none"
      BY <2>1 DEF Typed, DbOK, Event, GoneForGood
    <3>2. QED
      BY <3>1 DEF Told
  <2>2. CASE e \notin wev
    BY <2>2 DEF Told
  <2>3. QED
    BY <2>1, <2>2
<1>2. QED
  BY <1>1 DEF GoneForGood, Told

\* Such a step keeps all of it.
LEMMA KnownKept ==
    ASSUME KnownInv, Kept
    PROVE  KnownInv'
<1>1. FreshUnused' /\ GoneForGood' /\ RowCap'
  BY FreshKept, GoneKept, FewerRows DEF KnownInv, Kept
<1>2. StartCovers' /\ RowsKnown'
  BY DEF KnownInv, Kept, Told, StartCovers, RowsKnown
<1>3. QED
  BY <1>1, <1>2 DEF KnownInv, Kept

\* There is no name to speak of without a row or a manager.
LEMMA Used ==
    ASSUME KnownInv, NEW n \in Names
    PROVE  /\ row[n] # "none" \/ mgr[n] # "none" \/ held[n] # "none" \/ call[n] # "no" => n \notin fresh
           /\ n \in run \/ entry[n] # "none" \/ n \in vm \/ runners[n] # Out => n \notin fresh
           /\ (\E s \in Statuses : <<n, s>> \in start) => n \notin fresh
           /\ (\E e \in wev \cup pev : e.n = n) => n \notin fresh
           /\ (\E i \in 1..Len(msgs) : msgs[i].n = n) => n \notin fresh
<1>1. n \in fresh => row[n] = "none" /\ Unused(n) /\ \A e \in wev \cup pev : e.n # n
  BY DEF KnownInv, FreshUnused
<1>2. n \in run \/ entry[n] # "none" => mgr[n] # "none"
  BY DEF KnownInv, Typed, ProvOK
<1>3. QED
  BY <1>1, <1>2 DEF Unused

\* A step that leaves the map alone has only to leave unused names alone.
LEMMA KeptWithMap ==
    ASSUME KnownInv, Typed', Told, fresh' = fresh, UNCHANGED <<wpc, start, runners>>,
           \A n \in fresh :
               /\ n \notin vm' /\ n \notin acked'
               /\ mgr'[n] = "none" /\ held'[n] = "none" /\ call'[n] = "no"
               /\ \A i \in 1..Len(msgs') : msgs'[i].n # n
    PROVE  KnownInv'
<1>1. \A n \in fresh' : Unused(n)'
  BY DEF KnownInv, FreshUnused, Unused
<1>2. Kept
  BY <1>1 DEF Kept
<1>3. QED
  BY <1>2, KnownKept

\* The worker handles a change.
LEMMA HandleEventKnown ==
    ASSUME KnownInv, NEW e \in wev, HandleEvent(e)
    PROVE  KnownInv'
<1>1. Typed' /\ Told
  BY HandleEventTyped DEF KnownInv
<1>2. e \in Event /\ e.n \in Names /\ e.n \notin fresh
  BY Used DEF KnownInv, Typed, DbOK, Event
<1>3. runners' = [runners EXCEPT ![e.n] =
        IF (e.op = "update" /\ e.st = "deleted") \/ e.op = "delete" THEN Out ELSE Copy(e.st, e.rs)]
  BY DEF HandleEvent
<1>4. Copy(e.st, e.rs) # Zero /\ Copy(e.st, e.rs) # Out
  BY <1>2 DEF Event, Copy, Zero, Out, Statuses, Doomed
<1>5. (e.op = "update" /\ e.st = "deleted") \/ e.op = "delete" => row'[e.n] = "none"
  <2>1. CASE e.op = "update" /\ e.st = "deleted"
    <3>1. wev \ {e} \in SUBSET wev /\ DropRow(e.n, wev \ {e}, pev)
      BY <2>1 DEF HandleEvent
    <3>2. QED
      BY <1>2, <3>1, DropTold DEF KnownInv, Typed
  <2>2. CASE e.op = "delete"
    BY <1>1, <1>2, <2>2 DEF KnownInv, GoneForGood, Told
  <2>3. QED
    BY <2>1, <2>2
<1>6. \A n \in Names \ {e.n} : runners'[n] = runners[n]
  BY <1>2, <1>3 DEF KnownInv, Typed, WorkerOK
<1>7. runners'[e.n] \in {Out, Copy(e.st, e.rs)} /\ (runners'[e.n] = Out => row'[e.n] = "none")
  BY <1>2, <1>3, <1>4, <1>5 DEF KnownInv, Typed, WorkerOK
<1>8. Zero # Out
  BY DEF Zero, Out, Copy
<1>9. \A n \in fresh' : Unused(n)'
  BY <1>2, <1>6 DEF KnownInv, FreshUnused, Unused, HandleEvent, prov, hist, world, Typed, WorldOK
<1>10. Kept
  BY <1>1, <1>4, <1>6, <1>7, <1>8, <1>9 DEF Kept, HandleEvent
<1>11. QED
  BY <1>10, KnownKept

\* A runner is taken out of service; if its row is gone its entry goes, too.
LEMMA ScaleDownKnown ==
    ASSUME KnownInv, NEW n \in Names, ScaleDown(n)
    PROVE  KnownInv'
<1>1. Typed' /\ Told
  BY ScaleDownTyped DEF KnownInv
<1>2. runners[n] # Out /\ n \notin fresh
  BY Used DEF ScaleDown, Out, Copy
<1>3. Copy("pending_delete", rs[n]) # Out /\ Copy("pending_delete", rs[n]) # Zero /\ Zero # Out
  BY DEF Copy, Out, Zero
<1>4. \A k \in Names \ {n} : runners'[k] = runners[k]
  BY DEF KnownInv, Typed, WorkerOK, ScaleDown
<1>5. /\ runners'[n] = Out => row[n] = "none"
      /\ runners'[n] = Zero => runners[n] = Zero
  BY <1>2, <1>3 DEF KnownInv, Typed, WorkerOK, ScaleDown
<1>6. \A k \in fresh' : Unused(k)'
  BY <1>2, <1>4 DEF KnownInv, FreshUnused, Unused, ScaleDown, prov, hist, Typed, WorldOK
<1>7. Kept
  BY <1>1, <1>4, <1>5, <1>6 DEF Kept, ScaleDown, Told
<1>8. QED
  BY <1>7, KnownKept

\* A runner without a row, or with one that says so, is marked for deletion.
LEMMA PendingDeleteKnown ==
    ASSUME KnownInv, NEW n \in Names, NEW id \in {n, ""}, SetPendingDelete(n, id), Typed', Told,
           UNCHANGED <<wpc, start, fresh, vm, acked, prov, msgs>>, runners[n] # Out
    PROVE  KnownInv'
<1>1. n \notin fresh
  BY Used
<1>2. Copy("pending_delete", rs[n]) # Out /\ Copy("pending_delete", rs[n]) # Zero /\ Zero # Out
  BY DEF Copy, Out, Zero
<1>3. /\ \A k \in Names \ {n} : runners'[k] = runners[k]
      /\ runners'[n] # Out
      /\ runners'[n] = Zero => runners[n] = Zero \/ row[n] = "none"
  BY <1>2 DEF KnownInv, Typed, WorkerOK, SetPendingDelete
<1>4. \A k \in fresh' : Unused(k)'
  <2> SUFFICES ASSUME NEW k \in fresh' PROVE Unused(k)'
    OBVIOUS
  <2>1. /\ mgr' = mgr /\ held' = held /\ call' = call /\ start' = start
        /\ fresh' = fresh /\ vm' = vm /\ acked' = acked /\ msgs' = msgs
    BY DEF prov
  <2>2. k \in Names /\ k # n /\ Unused(k)
    BY <1>1, <2>1 DEF KnownInv, FreshUnused, Typed, WorldOK
  <2>3. QED
    BY <1>3, <2>1, <2>2 DEF Unused
<1>5. Kept
  BY <1>3, <1>4 DEF Kept, Told
<1>6. QED
  BY <1>5, KnownKept

\* One runner of the clean-up's list.
LEMMA ConsolidateOneKnown ==
    ASSUME KnownInv, NEW n \in Names, ReapOne(n) \/ MissingOne(n) \/ GoneOne(n)
    PROVE  KnownInv'
<1>1. Typed' /\ Told
  BY ConsolidateOneTyped DEF KnownInv
<1>2. UNCHANGED <<wpc, start, fresh, vm, acked, prov, msgs>>
  BY DEF ReapOne, MissingOne, GoneOne, Idle, world
<1>3. CASE SetPendingDelete(n, n) \/ SetPendingDelete(n, "")
  <2>1. CASE runners[n] = Out
    <3>1. runners[n].st \notin Statuses
      BY <2>1 DEF Out, Copy, Statuses, Doomed
    <3>2. UNCHANGED runners
      BY <3>1 DEF ReapOne, MissingOne, GoneOne, Reapable, Statuses, Doomed
    <3>3. QED
      BY <1>1, <1>2, <3>2, KeptWithMap DEF prov, KnownInv, FreshUnused, Unused
  <2>2. CASE runners[n] # Out
    BY <1>1, <1>2, <1>3, <2>2, PendingDeleteKnown
  <2>3. QED
    BY <2>1, <2>2
<1>4. CASE ~(SetPendingDelete(n, n) \/ SetPendingDelete(n, ""))
  <2>1. UNCHANGED runners
    BY <1>4 DEF ReapOne, MissingOne, GoneOne
  <2>2. QED
    BY <1>1, <1>2, <2>1, KeptWithMap DEF prov, KnownInv, FreshUnused, Unused
<1>5. QED
  BY <1>3, <1>4

\* The other steps of the clean-up, and a new target.
LEMMA ConsolidateKnown ==
    ASSUME KnownInv,
           \/ ConsolidateList \/ ConsolidateUnknown \/ ReapDone \/ ConsolidateProvider
           \/ ConsolidateDone \/ SetTarget
    PROVE  KnownInv'
<1>1. Typed' /\ Told
  BY ConsolidateTyped DEF KnownInv
<1>2. UNCHANGED <<wpc, start, runners>> /\ UNCHANGED prov /\ fresh' = fresh /\ vm' \subseteq vm
      /\ acked' = acked /\ msgs' = msgs
  BY DEF ConsolidateList, ConsolidateUnknown, ReapDone, ConsolidateProvider,
     ConsolidateDone, SetTarget, Idle, hist, world
<1>3. QED
  BY <1>1, <1>2, KeptWithMap DEF prov, KnownInv, FreshUnused, Unused

\* A job message is handled.
LEMMA MessageKnown ==
    ASSUME KnownInv, HandleStarted \/ HandleCompleted
    PROVE  KnownInv'
<1>1. Typed' /\ Told
  BY MessageTyped DEF KnownInv
<1>2. /\ UNCHANGED <<wpc, start, runners>> /\ UNCHANGED prov /\ fresh' = fresh /\ vm' = vm
      /\ acked' \subseteq acked \cup {Head(msgs).n}
  BY DEF HandleStarted, HandleCompleted, hist, world, worker
<1>3. /\ Len(msgs) > 0 /\ Head(msgs) = msgs[1] /\ Head(msgs).n \in Names
      /\ \A i \in 1..Len(msgs') : \E j \in 1..Len(msgs) : msgs'[i] = msgs[j]
      /\ Len(msgs) \in Nat
  BY MessageType DEF KnownInv, Typed, WorldOK, HandleStarted, HandleCompleted
<1>4. Head(msgs).n \notin fresh
  BY <1>3, Used
<1>5. QED
  BY <1>1, <1>2, <1>3, <1>4, KeptWithMap DEF prov, KnownInv, FreshUnused, Unused

\* The provider worker: a manager is of a name with a row or an entry.
LEMMA ProviderKnown ==
    ASSUME KnownInv,
           \/ \E e \in pev : HandleInstanceEvent(e)
           \/ \E n \in Names : ApplyHeld(n) \/ RetryOne(n)
    PROVE  KnownInv'
<1>1. Typed' /\ Told
  BY ProviderTyped DEF KnownInv
<1>2. /\ UNCHANGED <<wpc, start, runners>> /\ fresh' = fresh /\ vm' = vm /\ acked' = acked
      /\ msgs' = msgs /\ call' = call
  BY DEF HandleInstanceEvent, ApplyHeld, RetryOne, Outer, hist, world, worker
<1>3. \E n \in Names \ fresh : \A k \in Names \ {n} : mgr'[k] = mgr[k] /\ held'[k] = held[k]
  <2>1. ASSUME NEW e \in pev, HandleInstanceEvent(e)
        PROVE  e.n \in Names \ fresh /\ \A k \in Names \ {e.n} : mgr'[k] = mgr[k] /\ held'[k] = held[k]
    <3>1. e.n \in Names /\ e.n \notin fresh
      BY Used DEF KnownInv, Typed, DbOK, Event
    <3>2. UNCHANGED <<mgr, held>> \/ NoManager(e.n) \/ Added(e.n, e.st) \/ ManagerUpdate(e.n, e.st)
      BY <2>1 DEF HandleInstanceEvent
    <3>3. QED
      BY <3>1, <3>2 DEF KnownInv, Typed, ProvOK, NoManager, Added, ManagerUpdate
  <2>2. ASSUME NEW n \in Names, ApplyHeld(n) \/ RetryOne(n)
        PROVE  n \in Names \ fresh /\ \A k \in Names \ {n} : mgr'[k] = mgr[k] /\ held'[k] = held[k]
    <3>1. n \notin fresh
      BY <2>2, Used DEF ApplyHeld, RetryOne
    <3>2. QED
      BY <2>2, <3>1 DEF KnownInv, Typed, ProvOK, ApplyHeld, RetryOne, NoManager
  <2>3. QED
    BY <2>1, <2>2
<1>4. QED
  BY <1>1, <1>2, <1>3, KeptWithMap DEF KnownInv, FreshUnused, Unused, Typed, WorldOK

\* A manager calls the provider, or notes what a call has given.
LEMMA CallKnown ==
    ASSUME KnownInv, NEW n \in Names,
           \/ CreateStart(n) \/ CreateCall(n) \/ CreateFail(n) \/ CreateClean(n) \/ CreateRecord(n)
           \/ HandleError(n) \/ DeleteStart(n) \/ DeleteDone(n) \/ DeleteFail(n)
    PROVE  KnownInv'
<1>1. Typed' /\ Told
  BY CallTyped DEF KnownInv
<1>2. /\ UNCHANGED <<wpc, start, runners>> /\ fresh' = fresh /\ acked' = acked /\ msgs' = msgs
      /\ vm' \subseteq vm \cup {n}
  BY DEF CreateStart, CreateCall, CreateFail, CreateClean, CreateRecord, HandleError,
     DeleteStart, DeleteDone, DeleteFail, Outer, hist, world, worker
<1>3. n \notin fresh
  BY Used DEF CreateStart, CreateCall, CreateFail, CreateClean, CreateRecord, HandleError,
     DeleteStart, DeleteDone, DeleteFail, Ready
<1>4. \A k \in Names \ {n} : mgr'[k] = mgr[k] /\ held'[k] = held[k] /\ call'[k] = call[k]
  BY DEF CreateStart, CreateCall, CreateFail, CreateClean, CreateRecord, HandleError, Calling, Unmanaged,
     DeleteStart, DeleteDone, DeleteFail, Finish, KnownInv, Typed, ProvOK
<1>5. QED
  BY <1>1, <1>2, <1>3, <1>4, KeptWithMap DEF KnownInv, FreshUnused, Unused, Typed, WorldOK

\* GitHub, the machines, the administrator, a lost change.
LEMMA WorldKnown ==
    ASSUME KnownInv,
           \/ DropEvent
           \/ \E n \in Names : \/ ApiDelete(n) \/ VmBoots(n) \/ Callback(n) \/ JobStart(n)
                               \/ JobDone(n) \/ VmFault(n)
    PROVE  KnownInv'
<1>1. Typed' /\ Told
  BY WorldTyped DEF KnownInv
<1>2. /\ UNCHANGED <<wpc, start, runners>> /\ UNCHANGED prov /\ fresh' = fresh /\ acked' = acked
      /\ vm' \subseteq vm
  BY DEF DropEvent, ApiDelete, VmBoots, Callback, JobStart, JobDone, VmFault, hist, world, worker
<1>3. \A k \in fresh : \A i \in 1..Len(msgs') : msgs'[i].n # k
  <2>1. CASE msgs' = msgs
    BY <2>1 DEF KnownInv, FreshUnused, Unused
  <2>2. ASSUME NEW n \in Names, JobStart(n) \/ JobDone(n) PROVE <1>3!:
    <3>1. n \notin fresh
      BY <2>2, Used DEF JobStart, JobDone
    <3>2. msgs \in Seq(Message) /\ \E m \in Message : m.n = n /\ msgs' = Append(msgs, m)
      BY <2>2 DEF JobStart, JobDone, Message, KnownInv, Typed, WorldOK
    <3>3. \A i \in 1..Len(msgs') : msgs'[i].n = n \/ \E j \in 1..Len(msgs) : msgs'[i] = msgs[j]
      BY <3>2
    <3>4. QED
      BY <3>1, <3>3 DEF KnownInv, FreshUnused, Unused
  <2>3. QED
    BY <2>1, <2>2 DEF DropEvent, ApiDelete, VmBoots, Callback, VmFault
<1>4. QED
  BY <1>1, <1>2, <1>3, KeptWithMap DEF prov, KnownInv, FreshUnused, Unused

\* The map counts every row, so one more row than entries is within MaxRunners.
LEMMA ScaleUpRoom ==
    ASSUME Typed, RowsKnown, RowCap, NEW n \in Names, wpc = "up", RunnerCount < target,
           \A k \in Names \ {n} : row'[k] = row[k]
    PROVE  RowCap'
<1> DEFINE R == {k \in Names : row[k] # "none"}
<1>1. R \subseteq Known
  BY DEF RowsKnown, Known
<1>2. IsFiniteSet(Known) /\ Cardinality(Known) \in Nat
  BY ScaleSetAssumption, FS_Subset, FS_CardinalityType DEF Known
<1>3. IsFiniteSet(R) /\ Cardinality(R) \in Nat /\ Cardinality(R) <= Cardinality(Known)
  BY <1>1, <1>2, FS_Subset, FS_CardinalityType
<1>4. Cardinality(Known) < target /\ target <= MaxRunners /\ target \in Nat
  <2>1. zero \in BOOLEAN /\ target \in 0..MaxRunners
    BY DEF Typed, WorkerOK
  <2>2. Cardinality(Known) <= RunnerCount /\ RunnerCount \in Nat
    BY <1>2, <2>1 DEF RunnerCount
  <2>3. QED
    BY <1>2, <2>1, <2>2, ScaleSetAssumption
<1>5. IsFiniteSet(R \cup {n}) /\ Cardinality(R \cup {n}) \in Nat /\ Cardinality(R \cup {n}) <= Cardinality(R) + 1
  <2>1. /\ IsFiniteSet(R \cup {n})
        /\ Cardinality(R \cup {n}) = IF n \in R THEN Cardinality(R) ELSE Cardinality(R) + 1
    BY <1>3, FS_AddElement
  <2>2. QED
    BY <1>3, <2>1
<1>6. R' \subseteq R \cup {n}
  OBVIOUS
<1>7. Cardinality(R') <= Cardinality(R \cup {n}) /\ Cardinality(R') \in Nat
  BY <1>5, <1>6, FS_Subset, FS_CardinalityType
<1>8. QED
  BY <1>2, <1>3, <1>4, <1>5, <1>7, ScaleSetAssumption DEF RowCap

\* A new runner: an unused name gets a row, an entry and a change that tells of it.
LEMMA ScaleUpKnown ==
    ASSUME KnownInv, NEW n \in Names, ScaleUp(n)
    PROVE  KnownInv'
<1> DEFINE c == [n |-> n, op |-> "create", st |-> "pending_create", rs |-> "pending"]
<1>1. Typed'
  BY ScaleUpTyped DEF KnownInv
<1>2. n \in fresh /\ wpc = "up" /\ RunnerCount < target /\ fresh' = fresh \ {n}
  <2>1. n \in NextName /\ wpc = "up" /\ RunnerCount < target /\ fresh' = fresh \ {n}
    BY DEF ScaleUp, MuxFree
  <2>2. fresh # {} => (CHOOSE k \in fresh : TRUE) \in fresh
    OBVIOUS
  <2>3. QED
    BY <2>1, <2>2 DEF NextName
<1>3. row' = [row EXCEPT ![n] = "pending_create"] /\ rs' = rs
  BY DEF ScaleUp
<1>4. pev' = pev \cup {c} /\ wev' \in {wev, wev \cup {c}}
  BY DEF ScaleUp, Send
<1>5. Copy("pending_create", "pending") # Out /\ Copy("pending_create", "pending") # Zero
  BY CopyType DEF Statuses, Doomed, RunnerStatuses
<1>6. \A k \in Names \ {n} : row'[k] = row[k] /\ runners'[k] = runners[k]
  BY <1>3 DEF KnownInv, Typed, DbOK, WorkerOK, ScaleUp
<1>7. runners'[n] = Copy("pending_create", "pending")
  BY DEF KnownInv, Typed, WorkerOK, ScaleUp
<1>8. RowCap'
  BY <1>2, <1>6, ScaleUpRoom DEF KnownInv
<1>9. RowsKnown' /\ StartCovers'
  BY <1>2, <1>5, <1>6, <1>7 DEF KnownInv, RowsKnown, StartCovers, ScaleUp
<1>10. GoneForGood'
  <2>1. \A e \in wev' : e.op = "delete" => e \in wev /\ e.n # n /\ e.n \in Names
    BY <1>2, <1>4 DEF KnownInv, FreshUnused, Typed, DbOK, Event
  <2>2. QED
    BY <1>5, <1>6, <1>7, <2>1 DEF KnownInv, GoneForGood
<1>11. FreshUnused'
  <2> SUFFICES ASSUME NEW k \in fresh'
               PROVE  /\ row'[k] = "none" /\ rs'[k] = "pending"
                      /\ \A e \in wev' \cup pev' : e.n # k
                      /\ Unused(k)'
    BY DEF FreshUnused
  <2>1. k \in fresh /\ k # n /\ k \in Names
    BY <1>2 DEF KnownInv, Typed, WorldOK
  <2>2. /\ row[k] = "none" /\ rs[k] = "pending" /\ Unused(k)
        /\ \A e \in wev \cup pev : e.n # k
    BY <2>1 DEF KnownInv, FreshUnused
  <2>3. \A e \in wev' \cup pev' : e.n # k
    BY <1>4, <2>1, <2>2
  <2>4. /\ vm' = vm /\ acked' = acked /\ mgr' = mgr /\ held' = held /\ call' = call
        /\ start' = start /\ msgs' = msgs
    BY DEF ScaleUp, prov, hist
  <2>5. Unused(k)'
    BY <1>6, <2>1, <2>2, <2>4 DEF Unused
  <2>6. QED
    BY <1>3, <1>6, <2>1, <2>2, <2>3, <2>5
<1>12. QED
  BY <1>1, <1>8, <1>9, <1>10, <1>11 DEF KnownInv

\* A name is used up without a row.
LEMMA ScaleUpFailsKnown ==
    ASSUME KnownInv, NEW n \in Names, ScaleUpFails(n)
    PROVE  KnownInv'
<1>1. Typed' /\ Told
  BY ScaleUpTyped, QuietTold DEF KnownInv, Typed, ScaleUpFails
<1>2. fresh' \subseteq fresh /\ UNCHANGED worker /\ UNCHANGED prov /\ UNCHANGED hist
      /\ vm' = vm /\ msgs' = msgs
  BY DEF ScaleUpFails
<1>3. UNCHANGED <<wpc, start, runners>> /\ acked' = acked /\ mgr' = mgr /\ held' = held /\ call' = call
  BY <1>2 DEF worker, prov, hist
<1>4. \A k \in fresh' : Unused(k)'
  BY <1>2, <1>3 DEF KnownInv, FreshUnused, Unused
<1>5. Kept
  BY <1>1, <1>2, <1>3, <1>4 DEF Kept
<1>6. QED
  BY <1>5, KnownKept

\* What Start has handled has an entry, or no row any more.
LEMMA StartKnown ==
    ASSUME KnownInv, NEW n \in Names, NEW s \in Statuses,
           (s = "creating" /\ StartCreating(n)) \/ StartOne(n, s)
    PROVE  KnownInv'
<1>1. Typed' /\ Told
  BY StartTyped DEF KnownInv
<1>2. /\ wpc = "starting" /\ wpc' = wpc /\ start' = start \ {<<n, s>>} /\ <<n, s>> \in start
      /\ fresh' = fresh /\ vm' = vm /\ acked' = acked /\ msgs' = msgs /\ UNCHANGED prov
  BY DEF StartCreating, StartOne, hist, world
<1>3. n \notin fresh
  BY <1>2, Used
<1>4. /\ \A k \in Names \ {n} : runners'[k] = runners[k]
      /\ \/ \E t \in Statuses : runners'[n] = Copy(t, rs[n])
         \/ runners' = runners /\ row'[n] = "none"
  <2>1. ASSUME NEW t \in Statuses, Keep(n, t) PROVE <1>4!:
    BY <2>1 DEF Keep, KnownInv, Typed, WorkerOK
  <2>2. {"creating", "pending_delete"} \subseteq Statuses
    BY DEF Statuses, Doomed
  <2>3. CASE StartOne(n, s) /\ s = "deleted"
    <3>1. wev \in SUBSET wev /\ DropRow(n, wev, pev) /\ UNCHANGED runners
      BY <2>3 DEF StartOne
    <3>2. QED
      BY <3>1, DropTold DEF KnownInv, Typed
  <2>4. CASE ~(StartOne(n, s) /\ s = "deleted")
    BY <2>1, <2>2, <2>4 DEF StartCreating, StartOne
  <2>5. QED
    BY <2>3, <2>4
<1>5. /\ \A t \in Statuses : Copy(t, rs[n]) # Out /\ Copy(t, rs[n]) # Zero
      /\ Zero # Out
  BY DEF Copy, Out, Zero, Statuses, Doomed
<1>6. FreshUnused'
  <2>1. \A k \in fresh' : Unused(k)'
    BY <1>2, <1>3, <1>4 DEF prov, KnownInv, FreshUnused, Unused, Typed, WorldOK
  <2>2. QED
    BY <1>1, <1>2, <2>1, FreshKept DEF KnownInv
<1>7. GoneForGood' /\ RowCap'
  BY <1>1, <1>4, <1>5, GoneKept, FewerRows DEF KnownInv
<1>8. StartCovers' /\ RowsKnown'
  BY <1>1, <1>2, <1>4, <1>5 DEF KnownInv, StartCovers, RowsKnown, Told
<1>9. QED
  BY <1>1, <1>6, <1>7, <1>8 DEF KnownInv

\* Start lists every row.
LEMMA StartListKnown ==
    ASSUME KnownInv, StartList
    PROVE  KnownInv'
<1>1. Typed' /\ Told
  BY StartListTyped DEF KnownInv
<1>2. /\ wpc' = "starting" /\ start' = {<<n, row[n]>> : n \in {m \in Names : row[m] # "none"}}
      /\ fresh' = fresh /\ vm' = vm /\ acked' = acked /\ msgs' = msgs /\ runners' = runners
      /\ row' = row /\ UNCHANGED prov
  BY DEF StartList, hist, world, db
<1>3. \A n \in Names : row[n] \in Statuses \cup {"none"}
  BY DEF KnownInv, Typed, DbOK
<1>4. StartCovers' /\ RowsKnown'
  BY <1>2, <1>3 DEF StartCovers, RowsKnown
<1>5. \A n \in fresh' : Unused(n)'
  BY <1>2 DEF prov, KnownInv, FreshUnused, Unused
<1>6. FreshUnused' /\ GoneForGood' /\ RowCap'
  BY <1>1, <1>2, <1>5, FreshKept, GoneKept, FewerRows DEF KnownInv
<1>7. QED
  BY <1>1, <1>4, <1>6 DEF KnownInv

\* The worker registers when it has an entry for every row.
LEMMA StartDoneKnown ==
    ASSUME KnownInv, StartDone
    PROVE  KnownInv'
<1>1. Typed' /\ Told
  BY StartListTyped DEF KnownInv
<1>2. /\ wpc = "starting" /\ wpc' = "up" /\ start = {} /\ start' = start
      /\ fresh' = fresh /\ vm' = vm /\ acked' = acked /\ msgs' = msgs /\ runners' = runners
      /\ row' = row /\ UNCHANGED prov
  BY DEF StartDone, hist, world, db
<1>3. StartCovers' /\ RowsKnown'
  BY <1>2 DEF KnownInv, StartCovers, RowsKnown
<1>4. \A n \in fresh' : Unused(n)'
  BY <1>2 DEF prov, KnownInv, FreshUnused, Unused
<1>5. FreshUnused' /\ GoneForGood' /\ RowCap'
  BY <1>1, <1>2, <1>4, FreshKept, GoneKept, FewerRows DEF KnownInv
<1>6. QED
  BY <1>1, <1>3, <1>5 DEF KnownInv

\* A restart forgets the map; the rows stay.
LEMMA CrashKnown ==
    ASSUME KnownInv, Crash
    PROVE  KnownInv'
<1>1. Typed' /\ Told
  BY CrashTyped DEF KnownInv
<1>2. /\ wpc' = "down" /\ start' = {} /\ runners' = [n \in Names |-> Out]
      /\ fresh' = fresh /\ vm' = vm /\ acked' = acked /\ msgs' = msgs
      /\ \A n \in Names : row[n] = "none" => mgr'[n] = "none"
      /\ \A n \in Names : held'[n] = "none" /\ call'[n] = "no"
  BY DEF Crash, world, hist, KnownInv, Typed, DbOK
<1>3. Zero # Out
  BY DEF Zero, Out, Copy
<1>4. StartCovers' /\ RowsKnown'
  BY <1>2 DEF StartCovers, RowsKnown
<1>5. \A n \in fresh' : Unused(n)'
  BY <1>2 DEF KnownInv, FreshUnused, Unused, Typed, WorldOK
<1>6. FreshUnused' /\ GoneForGood' /\ RowCap'
  BY <1>1, <1>2, <1>3, <1>5, FreshKept, GoneKept, FewerRows DEF KnownInv
<1>7. QED
  BY <1>1, <1>4, <1>6 DEF KnownInv

\* Nothing happens.
LEMMA StutterKnown ==
    ASSUME KnownInv, UNCHANGED vars
    PROVE  KnownInv'
<1>1. Typed' /\ Told
  BY StutterTyped DEF KnownInv
<1>2. /\ wpc' = wpc /\ start' = start /\ runners' = runners /\ fresh' = fresh /\ vm' = vm
      /\ acked' = acked /\ msgs' = msgs /\ mgr' = mgr /\ held' = held /\ call' = call
  BY DEF vars, world, hist, worker, prov
<1>3. QED
  BY <1>1, <1>2, KeptWithMap DEF KnownInv, FreshUnused, Unused

\* There are no rows at the start.
LEMMA KnownInit == Init => KnownInv
<1> SUFFICES ASSUME Init PROVE KnownInv
  OBVIOUS
<1>1. Zero # Out
  BY DEF Zero, Out, Copy
<1>2. {n \in Names : row[n] # "none"} = {}
  BY DEF Init
<1>3. RowCap
  BY <1>2, FS_EmptySet, ScaleSetAssumption DEF RowCap
<1>4. FreshUnused /\ StartCovers /\ GoneForGood /\ RowsKnown
  BY <1>1 DEF Init, FreshUnused, Unused, StartCovers, GoneForGood, RowsKnown
<1>5. QED
  BY <1>3, <1>4, TypedInit DEF KnownInv

\* Every step keeps the map in step with the rows.
LEMMA KnownStep ==
    ASSUME KnownInv, [Next]_vars
    PROVE  KnownInv'
BY HandleEventKnown, ScaleDownKnown, ScaleUpKnown, ScaleUpFailsKnown, ConsolidateOneKnown, ConsolidateKnown,
   MessageKnown, ProviderKnown, CallKnown, StartKnown, StartListKnown, StartDoneKnown, CrashKnown,
   WorldKnown, StutterKnown
DEF Next, Consolidate, Manage, StartCreating, Statuses

\* The rows, the worker's map and the managers keep their types: the map never holds a
\* deleted instance, and a manager that has stopped has no call in progress.
THEOREM ScaleSetTypeCorrect == Spec => []TypeOK
<1>1. Typed /\ [Next]_vars => Typed'
  BY TypedStep
<1>2. QED
  BY <1>1, TypedInit, TypedIsType, PTL DEF Spec

\* Every row has an entry in the worker's map while the worker runs: an entry leaves the
\* map only with its row, whose delete is told after it is gone, and Start enters every
\* row it listed before it registers for changes.
THEOREM MapCoversRows == Spec => []RowsKnown
<1>1. KnownInv /\ [Next]_vars => KnownInv'
  BY KnownStep
<1>2. KnownInv => RowsKnown
  BY DEF KnownInv
<1>3. QED
  BY <1>1, <1>2, KnownInit, PTL DEF Spec

\* There are never more rows than MaxRunners: the map counts them all (RowsKnown), and
\* only handleScaleUp makes one, below the target.
THEOREM MaxRunnersKept == Spec => []RowCap
<1>1. KnownInv /\ [Next]_vars => KnownInv'
  BY KnownStep
<1>2. KnownInv => RowCap
  BY DEF KnownInv
<1>3. QED
  BY <1>1, <1>2, KnownInit, PTL DEF Spec

-----------------------------------------------------------------------------
(* What a step may do to one name, and why.                                *)

\* Every change of a status has one of these causes.
RowMove(n) ==
    \/ row'[n] = row[n]
    \/ row'[n] = "none" /\ Dying(n)
    \/ /\ row'[n] = "creating" /\ row[n] \in Created /\ mgr[n] = "pending_create"
       /\ call[n] = "no" /\ call'[n] = "create"
    \/ row'[n] = "running" /\ call[n] = "created" /\ row[n] \in {"creating", "running"}
    \/ /\ row'[n] = "error" /\ row[n] # "none" /\ call'[n] = "no"
       /\ \/ n \in botched'
          \/ call[n] = "created" /\ row[n] \notin {"creating", "running"}
    \/ row'[n] = "deleting" /\ mgr[n] \in Ends
    \/ /\ row'[n] = "deleted" /\ call[n] \in {"delete", "force"} /\ call'[n] = "no"
       /\ n \notin vm' \/ n \in forced'
    \/ /\ row'[n] \in {"pending_delete", "pending_force_delete"} /\ row[n] # "none"
       /\ gh'[n] = "none" \/ n \in Excepted' \/ Condemned(n)

\* After a restart the manager has what the row says, if it says what to do.
Restarted(n) ==
    /\ row'[n] = row[n] /\ held'[n] = "none" /\ pev' = {} /\ call'[n] = "no"
    /\ mgr'[n] = "none" \/ (mgr'[n] = row[n] /\ row[n] # "creating")

CallMove(n) ==
    \/ call'[n] = call[n]
    \/ /\ call[n] = "no" /\ call'[n] = "create" /\ row'[n] = "creating"
       /\ row[n] \in Created /\ mgr[n] = "pending_create"
    \/ call[n] = "create" /\ call'[n] = "created"
    \/ call[n] = "create" /\ call'[n] \in Failed /\ n \in botched'
    \/ call'[n] = "no" /\ (Restarted(n) \/ row'[n] \notin Created)
    \/ call[n] = "no" /\ call'[n] \in {"delete", "force"} /\ mgr[n] \in Ends /\ row'[n] \notin Created

\* The provider worker takes a change of n with status s.
Hears(n, s) == \E e \in pev \ pev' : e.n = n /\ e.op # "delete" /\ e.st = s

ManagerMove(n) ==
    \/ /\ \/ mgr'[n] = mgr[n] \/ mgr'[n] = "none" \/ Hears(n, mgr'[n])
          \/ mgr'[n] = held[n] /\ held'[n] = "none"
          \/ mgr'[n] = "running" /\ call[n] = "created"
          \/ mgr'[n] = "error" /\ call[n] \in Failed /\ n \in botched'
       /\ \/ held'[n] = held[n] \/ held'[n] = "none"
          \/ call[n] # "no" /\ Hears(n, held'[n])
    \/ Restarted(n)

\* A name to be created is not spoken of until it is.
Silent(n) ==
    row'[n] = "pending_create" => rs'[n] = rs[n] /\ \A e \in pev' \ pev : e.n # n

\* GitHub forgets, history does not; only a creation gives a machine; Start's list
\* is of the rows.
WorldMove(n) ==
    /\ gh[n] = "none" => gh'[n] = "none"
    /\ (n \in Excepted => n \in Excepted') /\ (n \in forced => n \in forced')
    /\ n \in botched => n \in botched'
    /\ n \in vm' => n \in vm \/ (call[n] = "create" /\ call'[n] \in Building \ {"create"})
    /\ \A s \in Statuses : <<n, s>> \in start' => <<n, s>> \in start \/ row[n] = s
    /\ n \in acked' => n \in acked \/ row'[n] \in {"none", "pending_delete"}

\* A job is reported completed once GitHub has forgotten its runner.
Reports(n) ==
    \A i \in 1..Len(msgs') : msgs'[i].n = n /\ msgs'[i].kind = "completed" =>
        gh'[n] = "none" \/ \E j \in 1..Len(msgs) : msgs[j] = msgs'[i]

Moves(n) == RowMove(n) /\ CallMove(n) /\ ManagerMove(n) /\ Silent(n) /\ WorldMove(n) /\ Reports(n)

-----------------------------------------------------------------------------
(* The invariant from the causes.                                          *)

\* What is on its way to the provider worker after a step was so before, or tells the row.
LEMMA NewsOfRow ==
    ASSUME KnownInv, Told, NEW e \in pev', e.op # "delete"
    PROVE  e \in pev \/ (e.op = "update" /\ e.st = row'[e.n])
BY DEF Told

\* A machine is created once for a name.
LEMMA CreatedOnceStep ==
    ASSUME SetInv, Typed', Told, fresh' = fresh, NEW n \in Names \ fresh, Moves(n)
    PROVE  /\ row'[n] = "pending_create" =>
                /\ rs'[n] = "pending" /\ n \notin vm' /\ call'[n] = "no" /\ held'[n] = "none"
                /\ Ordered(n)' => mgr'[n] = "none"
                /\ \A e \in pev' : e.n = n /\ e.op # "delete" =>
                     e = [n |-> n, op |-> "create", st |-> "pending_create", rs |-> "pending"]
           /\ row'[n] = "creating" /\ call'[n] = "no" => mgr'[n] # "pending_create" /\ ~Ordered(n)'
           /\ call'[n] \in Building => ~Ordered(n)'
           /\ call'[n] \in {"delete", "force"} => row'[n] \notin Created
           /\ call'[n] = "create" => n \notin vm'
<1> USE DEF Moves
<1>1. row'[n] = "pending_create" => row[n] = "pending_create"
  BY DEF RowMove
<1>2. row'[n] \in Created => row[n] \in Created
  BY DEF RowMove, Created
<1>3. Ordered(n)' => Ordered(n) \/ row'[n] = "pending_create"
  <2>1. held'[n] = "pending_create" => held[n] = "pending_create" \/ Hears(n, "pending_create")
    BY DEF ManagerMove, Restarted
  <2>2. Hears(n, "pending_create") => Ordered(n)
    BY DEF Hears, Ordered
  <2>3. ASSUME NEW e \in pev', e.n = n, e.op # "delete", e.st = "pending_create"
        PROVE  e \in pev \/ row'[n] = "pending_create"
    BY <2>3, NewsOfRow DEF SetInv
  <2>4. QED
    BY <2>1, <2>2, <2>3 DEF Ordered
<1>4. CreatedOnce
  BY DEF SetInv
<1>5. CASE row'[n] = "pending_create"
  <2>1. /\ row[n] = "pending_create" /\ rs[n] = "pending" /\ n \notin vm /\ call[n] = "no"
        /\ held[n] = "none" /\ (Ordered(n) => mgr[n] = "none")
        /\ \A e \in pev : e.n = n /\ e.op # "delete" =>
             e = [n |-> n, op |-> "create", st |-> "pending_create", rs |-> "pending"]
    BY <1>1, <1>4, <1>5 DEF CreatedOnce
  <2>2. call'[n] = "no"
    BY <1>5, <2>1 DEF CallMove, Created
  <2>3. held'[n] = "none"
    BY <2>1 DEF ManagerMove, Restarted
  <2>4. n \notin vm' /\ rs'[n] = "pending" /\ \A e \in pev' \ pev : e.n # n
    BY <1>5, <2>1 DEF WorldMove, Silent
  <2>5. ASSUME Ordered(n)' PROVE mgr'[n] = "none"
    <3>1. PICK e \in pev' : e.n = n /\ e.op # "delete" /\ e.st = "pending_create"
      BY <2>3, <2>5 DEF Ordered
    <3>2. e \in pev /\ Ordered(n) /\ mgr[n] = "none"
      BY <2>1, <2>4, <3>1 DEF Ordered
    <3>3. ~Hears(n, mgr'[n])
      BY <2>1, <3>1, <3>2 DEF Hears
    <3>4. QED
      BY <2>1, <3>1, <3>2, <3>3 DEF ManagerMove, Restarted, Failed
  <2>6. QED
    BY <1>5, <2>1, <2>2, <2>3, <2>4, <2>5 DEF Building
<1>6. CASE row'[n] # "pending_create"
  <2>1. Ordered(n)' => Ordered(n)
    BY <1>3, <1>6
  <2>2. call'[n] \in Building => ~Ordered(n)' /\ (call'[n] = "create" => n \notin vm')
    <3>1. CASE call[n] \in Building
      BY <1>4, <2>1, <3>1 DEF CreatedOnce, CallMove, WorldMove, Building, Failed
    <3>2. CASE call[n] \notin Building
      <4>1. call'[n] \in Building =>
              call[n] = "no" /\ row[n] \in Created /\ mgr[n] = "pending_create" /\ call'[n] = "create"
        BY <3>2 DEF CallMove, Building, Failed
      <4>2. call'[n] \in Building => row[n] = "pending_create"
        BY <1>4, <4>1 DEF CreatedOnce, Created
      <4>3. QED
        BY <1>4, <2>1, <4>1, <4>2 DEF CreatedOnce, WorldMove
    <3>3. QED
      BY <3>1, <3>2
  <2>3. call'[n] \in {"delete", "force"} => row'[n] \notin Created
    BY <1>2, <1>4 DEF CreatedOnce, CallMove, Failed
  <2>4. ASSUME row'[n] = "creating", call'[n] = "no" PROVE mgr'[n] # "pending_create" /\ ~Ordered(n)'
    <3>1. CASE Restarted(n)
      BY <2>4, <3>1 DEF Restarted, Ordered
    <3>2. CASE ~Restarted(n)
      <4>1. call[n] = "no" /\ row[n] = "creating"
        BY <2>4, <3>2 DEF CallMove, RowMove, Created, Failed
      <4>2. mgr[n] # "pending_create" /\ ~Ordered(n)
        BY <1>4, <4>1 DEF CreatedOnce
      <4>3. ~Hears(n, "pending_create") /\ held[n] # "pending_create"
        BY <4>2 DEF Hears, Ordered
      <4>4. QED
        BY <2>1, <3>2, <4>1, <4>2, <4>3 DEF ManagerMove
    <3>3. QED
      BY <3>1, <3>2
  <2>5. QED
    BY <1>6, <2>2, <2>3, <2>4 DEF Building
<1>7. QED
  BY <1>5, <1>6

\* The runner of an acknowledged job stays on its way out.
LEMMA AcknowledgedStep ==
    ASSUME SetInv, NEW n \in Names \ fresh, Moves(n), n \in acked'
    PROVE  row'[n] \notin Created \cup {"running"}
<1> USE DEF Moves
<1>1. CASE n \in acked
  <2>1. row[n] \notin Created \cup {"running"}
    BY <1>1 DEF SetInv, Acknowledged
  <2>2. QED
    BY <2>1 DEF RowMove, Created
<1>2. CASE n \notin acked
  BY <1>2 DEF WorldMove, Created
<1>3. QED
  BY <1>1, <1>2

\* A runner that runs no job gets none.
LEMMA HarmlessStays ==
    ASSUME NEW n \in Names, Moves(n), Harmless(n)
    PROVE  Harmless(n)'
<1>1. row[n] \notin Created => row'[n] \notin Created
  BY DEF Moves, RowMove, Created
<1>2. QED
  BY <1>1 DEF Moves, Harmless, WorldMove, CallMove, Building, Failed

\* Where nobody condemns n without a good reason, and a good reason stays one.
LEMMA CondemnedStep ==
    ASSUME SetInv, Told, NEW n \in Names \ fresh, Moves(n), Condemned(n)'
    PROVE  Harmless(n)'
<1> USE DEF Moves
<1>1. Harmless(n) => Harmless(n)'
  BY HarmlessStays
<1>2. Condemned(n) => Harmless(n)
  BY DEF SetInv, CondemnedHarmless
<1>3. ASSUME row'[n] \in Ends, ~Condemned(n) PROVE Harmless(n)'
  <2>1. row'[n] # row[n] /\ mgr[n] \notin Ends /\ call[n] \notin {"delete", "force"}
    BY <1>3 DEF Condemned
  <2>2. ~(call[n] = "created" /\ row[n] \notin {"creating", "running"} /\ row[n] # "none")
    <3>1. row[n] \in Statuses \cup {"none"} /\ row[n] \notin Ends
      BY <1>3 DEF SetInv, KnownInv, Typed, DbOK, Condemned
    <3>2. row[n] = "pending_create" => call[n] = "no"
      BY DEF SetInv, CreatedOnce
    <3>3. QED
      BY <3>1, <3>2 DEF Statuses, Ends
  <2>3. CASE row'[n] = "error"
    <3>1. n \in botched'
      BY <2>1, <2>2, <2>3 DEF RowMove
    <3>2. QED
      BY <3>1 DEF Harmless, Excepted
  <2>4. CASE row'[n] \in {"pending_delete", "pending_force_delete"}
    <3>1. gh'[n] = "none" \/ n \in Excepted'
      BY <1>3, <2>1, <2>4 DEF RowMove
    <3>2. QED
      BY <3>1 DEF Harmless
  <2>5. row'[n] \notin {"deleting", "deleted"}
    BY <2>1 DEF RowMove
  <2>6. QED
    BY <1>3, <2>3, <2>4, <2>5 DEF Ends, Doomed
<1>4. ASSUME mgr'[n] \in Ends \/ held'[n] \in Ends PROVE Condemned(n) \/ n \in botched'
  <2>1. ASSUME NEW s \in Ends, Hears(n, s) PROVE Condemned(n)
    BY <2>1 DEF Hears, Condemned
  <2>2. "none" \notin Ends /\ "running" \notin Ends
    BY DEF Ends, Doomed
  <2>3. CASE Restarted(n)
    BY <1>4, <2>2, <2>3 DEF Restarted, Condemned
  <2>4. CASE ~Restarted(n) /\ mgr'[n] \in Ends
    BY <2>1, <2>2, <2>4 DEF ManagerMove, Condemned
  <2>5. CASE ~Restarted(n) /\ held'[n] \in Ends
    BY <2>1, <2>2, <2>5 DEF ManagerMove, Condemned
  <2>6. QED
    BY <1>4, <2>3, <2>4, <2>5
<1>5. call'[n] \in {"delete", "force"} => Condemned(n)
  BY DEF CallMove, Condemned, Failed
<1>6. ASSUME NEW e \in pev', e.n = n, e.op # "delete", e.st \in Ends
      PROVE  Condemned(n) \/ row'[n] \in Ends
  BY <1>6, NewsOfRow DEF SetInv, Condemned
<1>7. ASSUME NEW s \in Ends, <<n, s>> \in start' PROVE Condemned(n)
  BY <1>7 DEF WorldMove, Condemned, Ends, Statuses
<1>8. Condemned(n) \/ row'[n] \in Ends \/ n \in botched'
  BY <1>4, <1>5, <1>6, <1>7 DEF Condemned
<1>9. n \in botched' => Harmless(n)'
  BY DEF Harmless, Excepted
<1>10. QED
  BY <1>1, <1>2, <1>3, <1>8, <1>9

\* What is gone, or about to be, has no machine, or one that runs no job.
LEMMA BuriedStep ==
    ASSUME SetInv, Told, NEW n \in Names \ fresh, Moves(n), row'[n] = "none" \/ Dying(n)'
    PROVE  /\ n \notin vm' \/ n \in forced'
           /\ call'[n] \notin Building /\ row'[n] \notin Created /\ Harmless(n)'
<1> USE DEF Moves
<1>1. Buried
  BY DEF SetInv
<1>2. CASE row[n] = "none" \/ Dying(n)
  <2>1. (n \notin vm \/ n \in forced) /\ call[n] \notin Building /\ row[n] \notin Created /\ Harmless(n)
    BY <1>1, <1>2 DEF Buried
  <2>2. row'[n] \notin Created
    BY <2>1 DEF RowMove, Created
  <2>3. Harmless(n)'
    BY <2>1, HarmlessStays
  <2>4. QED
    BY <2>1, <2>2, <2>3 DEF CallMove, WorldMove, Building, Failed, Created
<1>3. CASE ~(row[n] = "none" \/ Dying(n))
  <2>1. row'[n] # "none"
    BY <1>3 DEF RowMove
  <2>2. row'[n] = "deleted"
    <3>1. ASSUME <<n, "deleted">> \in start' PROVE FALSE
      BY <1>3, <3>1 DEF WorldMove, Dying, Statuses, Doomed
    <3>2. ASSUME NEW e \in wev', e.n = n, e.op = "update", e.st = "deleted" PROVE row'[n] = "deleted"
      BY <1>3, <3>2 DEF Told, Dying
    <3>3. QED
      BY <2>1, <3>1, <3>2 DEF Dying
  <2>3. row[n] # "deleted"
    BY <1>3 DEF Dying
  <2>4. call'[n] = "no" /\ (n \notin vm' \/ n \in forced')
    BY <2>2, <2>3 DEF RowMove
  <2>5. Condemned(n)'
    BY <2>2 DEF Condemned, Ends, Doomed
  <2>6. Harmless(n)'
    BY <2>5, CondemnedStep
  <2>7. QED
    BY <2>2, <2>4, <2>6 DEF Created, Building
<1>4. QED
  BY <1>2, <1>3

\* A step whose changes have such causes keeps the invariant.
LEMMA SetMoves ==
    ASSUME SetInv, KnownInv', Told, fresh' = fresh, \A n \in Names \ fresh : Moves(n)
    PROVE  SetInv'
<1>1. \A n \in fresh : /\ row'[n] = "none" /\ call'[n] = "no" /\ n \notin acked'
                       /\ \A i \in 1..Len(msgs') : msgs'[i].n # n
  BY DEF KnownInv, FreshUnused, Unused
<1>2. Buried'
  BY BuriedStep DEF Buried
<1>3. Acknowledged'
  <2>1. ASSUME NEW n \in acked'
        PROVE  row'[n] \notin Created \cup {"running"}
    <3>1. n \in Names \ fresh
      BY <1>1 DEF KnownInv, Typed, HistOK
    <3>2. QED
      BY <3>1, AcknowledgedStep
  <2>2. ASSUME NEW i \in 1..Len(msgs'), msgs'[i].kind = "completed"
        PROVE  gh'[msgs'[i].n] = "none"
    <3>1. msgs'[i].n \in Names \ fresh
      <4>1. msgs'[i] \in Message
        BY DEF KnownInv, Typed, WorldOK
      <4>2. QED
        BY <1>1, <4>1 DEF Message
    <3>2. Reports(msgs'[i].n) /\ WorldMove(msgs'[i].n)
      BY <3>1 DEF Moves
    <3>3. ASSUME NEW j \in 1..Len(msgs), msgs[j] = msgs'[i] PROVE gh[msgs'[i].n] = "none"
      BY <2>2, <3>3 DEF SetInv, Acknowledged
    <3>4. QED
      BY <2>2, <3>2, <3>3 DEF Reports, WorldMove
  <2>3. QED
    BY <2>1, <2>2 DEF Acknowledged
<1>4. CreatedOnce'
  <2>1. Typed'
    BY DEF KnownInv
  <2>2. ASSUME NEW n \in Names \ fresh
        PROVE  /\ row'[n] = "pending_create" =>
                    /\ rs'[n] = "pending" /\ n \notin vm' /\ call'[n] = "no" /\ held'[n] = "none"
                    /\ Ordered(n)' => mgr'[n] = "none"
                    /\ \A e \in pev' : e.n = n /\ e.op # "delete" =>
                         e = [n |-> n, op |-> "create", st |-> "pending_create", rs |-> "pending"]
               /\ row'[n] = "creating" /\ call'[n] = "no" => mgr'[n] # "pending_create" /\ ~Ordered(n)'
               /\ call'[n] \in Building => ~Ordered(n)'
               /\ call'[n] \in {"delete", "force"} => row'[n] \notin Created
               /\ call'[n] = "create" => n \notin vm'
    BY <2>1, <2>2, CreatedOnceStep
  <2>3. QED
    BY <1>1, <2>2 DEF CreatedOnce, Building
<1>5. CondemnedHarmless'
  BY CondemnedStep DEF CondemnedHarmless
<1>6. FailedIsBotched'
  <2>1. ASSUME NEW n \in Names \ fresh, call'[n] \in Failed PROVE n \in botched'
    <3>1. n \in botched => n \in botched'
      BY DEF Moves, WorldMove
    <3>2. call[n] \in Failed \/ n \in botched'
      BY <2>1 DEF Moves, CallMove, Failed
    <3>3. QED
      BY <3>1, <3>2 DEF SetInv, FailedIsBotched
  <2>2. QED
    BY <1>1, <2>1 DEF FailedIsBotched, Failed
<1>7. QED
  BY <1>2, <1>3, <1>4, <1>5, <1>6 DEF SetInv

-----------------------------------------------------------------------------
(* The causes, action by action.                                           *)

\* The messages of the listener wait.
LEMMA NoReport == ASSUME UNCHANGED msgs PROVE \A n \in Names : Reports(n)
BY DEF Reports

\* The world and the history do not change.
LEMMA WorldStill ==
    ASSUME UNCHANGED <<gh, vm, hist>>, start' \subseteq start
    PROVE  \A n \in Names : WorldMove(n)
BY DEF WorldMove, hist, Excepted

\* A status is written, or refused.
LEMMA StatusMove ==
    ASSUME DbOK, NEW n \in Names, NEW s \in Statuses, ForceStatus(n, s) \/ UpdateStatus(n, s)
    PROVE  /\ \A k \in Names \ {n} : row'[k] = row[k]
           /\ UNCHANGED rs /\ \A e \in pev' \ pev : e.n = n
           /\ \/ row'[n] = row[n] /\ pev' = pev
              \/ row[n] # "none" /\ row'[n] = s
<1>1. (\A k \in Names \ {n} : row'[k] = row[k]) /\ UNCHANGED rs
  BY StatusTyped DEF Set
<1>2. CASE NoWrite
  BY <1>1, <1>2 DEF NoWrite, db
<1>3. CASE row[n] # "none" /\ Write(n, s, rs[n])
  <2>1. row'[n] = s
    BY <1>3 DEF Write, DbOK
  <2>2. \A e \in pev' \ pev : e.n = n
    BY <1>3 DEF Write, SendUpdate, Send
  <2>3. QED
    BY <1>1, <1>3, <2>1, <2>2
<1>4. QED
  BY <1>2, <1>3 DEF ForceStatus, UpdateStatus, MayBecome

\* The status of n is written: the causes for n, nothing for the others.
LEMMA StatusMoves ==
    ASSUME DbOK, NEW n \in Names, NEW s \in Statuses \ {"pending_create"},
           ForceStatus(n, s) \/ UpdateStatus(n, s),
           \A k \in Names \ {n} : mgr'[k] = mgr[k] /\ held'[k] = held[k] /\ call'[k] = call[k],
           \A k \in Names : WorldMove(k) /\ Reports(k),
           RowMove(n), CallMove(n), ManagerMove(n)
    PROVE  \A k \in Names : Moves(k)
<1>1. /\ \A k \in Names \ {n} : row'[k] = row[k]
      /\ UNCHANGED rs /\ \A e \in pev' \ pev : e.n = n
      /\ \/ row'[n] = row[n] /\ pev' = pev
         \/ row[n] # "none" /\ row'[n] = s
  BY StatusMove
<1>2. Silent(n)
  BY <1>1 DEF Silent
<1>3. ASSUME NEW k \in Names \ {n} PROVE RowMove(k) /\ CallMove(k) /\ ManagerMove(k) /\ Silent(k)
  BY <1>1 DEF RowMove, CallMove, ManagerMove, Silent
<1>4. QED
  BY <1>2, <1>3 DEF Moves

\* The same where no manager does anything.
LEMMA OnlyStatusMoves ==
    ASSUME DbOK, NEW n \in Names, NEW s \in Statuses \ {"pending_create"},
           ForceStatus(n, s) \/ UpdateStatus(n, s), UNCHANGED <<mgr, held, call>>,
           \A k \in Names : WorldMove(k) /\ Reports(k),
           row[n] # "none" /\ row'[n] = s => RowMove(n)
    PROVE  \A k \in Names : Moves(k)
<1>1. RowMove(n)
  BY StatusMove DEF RowMove
<1>2. CallMove(n) /\ ManagerMove(n)
  BY DEF CallMove, ManagerMove
<1>3. QED
  BY <1>1, <1>2, StatusMoves

\* The row is written with its runner status.
LEMMA WriteMoves ==
    ASSUME DbOK, NEW n \in Names, NEW s \in Statuses \ {"pending_create"}, NEW r \in RunnerStatuses,
           Write(n, s, r), UNCHANGED <<mgr, held, call>>,
           \A k \in Names : WorldMove(k) /\ Reports(k), RowMove(n)
    PROVE  \A k \in Names : Moves(k)
<1>1. /\ \A k \in Names \ {n} : row'[k] = row[k] /\ rs'[k] = rs[k]
      /\ row'[n] = s
  BY DEF Write, DbOK
<1>2. \A e \in pev' \ pev : e.n = n
  BY DEF Write, SendUpdate, Send
<1>3. Silent(n)
  BY <1>1 DEF Silent
<1>4. ASSUME NEW k \in Names \ {n} PROVE RowMove(k) /\ Silent(k)
  BY <1>1, <1>2 DEF RowMove, Silent
<1>5. \A k \in Names : CallMove(k) /\ ManagerMove(k)
  BY DEF CallMove, ManagerMove
<1>6. QED
  BY <1>3, <1>4, <1>5 DEF Moves

\* Nothing is written and no manager does anything.
LEMMA QuietMoves ==
    ASSUME UNCHANGED <<db, mgr, held, call>>, pev' \subseteq pev,
           \A k \in Names : WorldMove(k) /\ Reports(k)
    PROVE  \A k \in Names : Moves(k)
BY DEF Moves, db, RowMove, CallMove, ManagerMove, Silent

\* A change reaches the worker; a deleted row goes.
LEMMA HandleEventMoves ==
    ASSUME SetInv, NEW e \in wev, HandleEvent(e)
    PROVE  Told /\ fresh' = fresh /\ \A k \in Names : Moves(k)
<1>1. DbOK /\ e.n \in Names
  BY DEF SetInv, KnownInv, Typed, DbOK, Event
<1>2. Told
  BY HandleEventTyped DEF SetInv, KnownInv
<1>3. /\ UNCHANGED <<gh, vm, hist, start, msgs>> /\ UNCHANGED <<mgr, held, call>>
      /\ fresh' = fresh
  BY DEF HandleEvent, world, hist, prov
<1>4. \A k \in Names : WorldMove(k) /\ Reports(k)
  BY <1>3, WorldStill, NoReport
<1>5. CASE e.op = "update" /\ e.st = "deleted"
  <2>1. DropRow(e.n, wev \ {e}, pev) /\ wev \ {e} \in SUBSET wev
    BY <1>5 DEF HandleEvent
  <2>2. row'[e.n] = "none" /\ \A k \in Names \ {e.n} : row'[k] = row[k] /\ rs'[k] = rs[k]
    BY <1>1, <2>1, DropTold
  <2>3. \A f \in pev' \ pev : f.n = e.n
    BY <2>1 DEF DropRow, Send
  <2>4. RowMove(e.n) /\ Silent(e.n)
    BY <1>5, <2>2 DEF RowMove, Dying, Silent
  <2>5. ASSUME NEW k \in Names \ {e.n} PROVE RowMove(k) /\ Silent(k)
    BY <2>2, <2>3 DEF RowMove, Silent
  <2>6. \A k \in Names : CallMove(k) /\ ManagerMove(k)
    BY <1>3 DEF CallMove, ManagerMove
  <2>7. QED
    BY <1>2, <1>3, <1>4, <2>4, <2>5, <2>6 DEF Moves
<1>6. CASE ~(e.op = "update" /\ e.st = "deleted")
  <2>1. UNCHANGED db /\ pev' \subseteq pev
    BY <1>6 DEF HandleEvent
  <2>2. QED
    BY <1>2, <1>3, <1>4, <2>1, QuietMoves
<1>7. QED
  BY <1>5, <1>6

\* GitHub lets go of a runner; the rest of the world stays.
LEMMA RemoveMoves ==
    ASSUME Typed, NEW n \in Names, RemoveRunner(n) \/ UNCHANGED gh, UNCHANGED <<vm, acked, msgs>>,
           start' \subseteq start, late \subseteq late', bypassed \subseteq bypassed',
           forced \subseteq forced', botched \subseteq botched'
    PROVE  \A k \in Names : WorldMove(k) /\ Reports(k)
<1>1. \A k \in Names : gh[k] = "none" => gh'[k] = "none"
  BY RemoveType DEF Typed
<1>2. QED
  BY <1>1, NoReport DEF WorldMove, Excepted

\* A runner is taken out of service: GitHub has let it go.
LEMMA ScaleDownMoves ==
    ASSUME SetInv, NEW n \in Names, ScaleDown(n)
    PROVE  Told /\ fresh' = fresh /\ \A k \in Names : Moves(k)
<1>1. Typed /\ DbOK /\ Told
  BY ScaleDownTyped DEF SetInv, KnownInv, Typed
<1>2. /\ RemoveRunner(n) /\ gh[n] # "active" /\ UpdateStatus(n, "pending_delete")
      /\ UNCHANGED <<vm, hist, start, msgs>> /\ UNCHANGED <<mgr, held, call>>
      /\ fresh' = fresh
  BY DEF ScaleDown, prov
<1>3. \A k \in Names : WorldMove(k) /\ Reports(k)
  BY <1>1, <1>2, RemoveMoves DEF hist
<1>4. gh'[n] = "none"
  BY <1>1, <1>2, RemoveType DEF Typed
<1>5. row[n] # "none" /\ row'[n] = "pending_delete" => RowMove(n)
  BY <1>4 DEF RowMove
<1>6. "pending_delete" \in Statuses \ {"pending_create"}
  BY DEF Statuses, Doomed
<1>7. QED
  BY <1>1, <1>2, <1>3, <1>5, <1>6, OnlyStatusMoves

\* A runner is marked for deletion for a good reason.
LEMMA PendingDeleteMoves ==
    ASSUME DbOK, NEW n \in Names, NEW id, SetPendingDelete(n, id), UNCHANGED <<mgr, held, call>>,
           \A k \in Names : WorldMove(k) /\ Reports(k),
           gh'[n] = "none" \/ n \in Excepted'
    PROVE  \A k \in Names : Moves(k)
<1>1. "pending_delete" \in Statuses \ {"pending_create"}
  BY DEF Statuses, Doomed
<1>2. row[n] # "none" /\ row'[n] = "pending_delete" => RowMove(n)
  BY DEF RowMove
<1>3. CASE NoWrite
  BY <1>3, QuietMoves DEF NoWrite
<1>4. CASE UpdateStatus(n, "pending_delete")
  BY <1>1, <1>2, <1>4, OnlyStatusMoves
<1>5. QED
  BY <1>3, <1>4 DEF SetPendingDelete

\* One runner of the clean-up's list.
LEMMA ConsolidateOneMoves ==
    ASSUME SetInv, NEW n \in Names, ReapOne(n) \/ MissingOne(n) \/ GoneOne(n)
    PROVE  Told /\ fresh' = fresh /\ \A k \in Names : Moves(k)
<1>1. Typed /\ DbOK /\ Told
  BY ConsolidateOneTyped DEF SetInv, KnownInv, Typed
<1>2. /\ UNCHANGED <<vm, bypassed, forced, botched, acked, start, msgs>> /\ UNCHANGED <<mgr, held, call>>
      /\ fresh' = fresh /\ late \subseteq late'
  BY DEF ReapOne, MissingOne, GoneOne, Idle, prov, world
<1>3. RemoveRunner(n) \/ UNCHANGED gh
  BY DEF ReapOne, MissingOne, GoneOne, world
<1>4. \A k \in Names : WorldMove(k) /\ Reports(k)
  BY <1>1, <1>2, <1>3, RemoveMoves
<1>5. CASE NoWrite
  BY <1>1, <1>2, <1>4, <1>5, QuietMoves DEF NoWrite
<1>6. CASE ~NoWrite
  <2>1. /\ SetPendingDelete(n, n) \/ SetPendingDelete(n, "")
        /\ \/ RemoveRunner(n) /\ gh[n] # "active"
           \/ UNCHANGED gh /\ (gh[n] # "none" => n \in late')
    BY <1>6 DEF ReapOne, MissingOne, GoneOne, world
  <2>2. gh'[n] = "none" \/ n \in Excepted'
    BY <1>1, <2>1, RemoveType DEF Typed, Excepted
  <2>3. QED
    BY <1>1, <1>2, <1>4, <2>1, <2>2, PendingDeleteMoves
<1>7. QED
  BY <1>5, <1>6

\* The other steps of the clean-up, and a new target.
LEMMA ConsolidateMoves ==
    ASSUME SetInv,
           \/ ConsolidateList \/ ConsolidateUnknown \/ ReapDone \/ ConsolidateProvider
           \/ ConsolidateDone \/ SetTarget
    PROVE  Told /\ fresh' = fresh /\ \A k \in Names : Moves(k)
<1>1. Told
  BY ConsolidateTyped DEF SetInv, KnownInv
<1>2. /\ UNCHANGED <<hist, start, msgs>> /\ UNCHANGED <<mgr, held, call>>
      /\ UNCHANGED db /\ pev' = pev /\ fresh' = fresh /\ vm' \subseteq vm
  BY DEF ConsolidateList, ConsolidateUnknown, ReapDone, ConsolidateProvider, ConsolidateDone,
     SetTarget, Idle, prov, world, hist
<1>3. \A k \in Names : gh[k] = "none" => gh'[k] = "none"
  BY DEF ConsolidateList, ConsolidateUnknown, ReapDone, ConsolidateProvider, ConsolidateDone,
     SetTarget, world
<1>4. \A k \in Names : WorldMove(k) /\ Reports(k)
  BY <1>2, <1>3, NoReport DEF WorldMove, hist, Excepted
<1>5. QED
  BY <1>1, <1>2, <1>4, QuietMoves

\* A job has started: its runner's row is past its creation, since it has called back.
LEMMA StartedMoves ==
    ASSUME SetInv, HandleStarted
    PROVE  Told /\ fresh' = fresh /\ \A k \in Names : Moves(k)
<1> DEFINE n == Head(msgs).n
<1>1. Typed /\ DbOK /\ WorldOK /\ Told
  BY MessageTyped DEF SetInv, KnownInv, Typed
<1>2. /\ n \in Names /\ \A i \in 1..Len(msgs') : \E j \in 1..Len(msgs) : msgs'[i] = msgs[j]
  BY <1>1, MessageType DEF HandleStarted
<1>3. /\ UNCHANGED <<gh, vm, hist, start>> /\ UNCHANGED <<mgr, held, call>>
      /\ fresh' = fresh
  BY DEF HandleStarted, world, worker, prov, hist
<1>4. \A k \in Names : WorldMove(k) /\ Reports(k)
  BY <1>2, <1>3, WorldStill DEF Reports
<1>5. CASE row[n] = "none"
  <2>1. NoWrite
    BY <1>5 DEF HandleStarted
  <2>2. QED
    BY <1>1, <1>3, <1>4, <2>1, QuietMoves DEF NoWrite
<1>6. CASE row[n] # "none"
  <2>1. rs[n] \in {"idle", "active"} /\ Write(n, row[n], "active")
    BY <1>6 DEF HandleStarted
  <2>2. row[n] # "pending_create"
    BY <1>2, <2>1 DEF SetInv, CreatedOnce
  <2>3. row[n] \in Statuses \ {"pending_create"} /\ "active" \in RunnerStatuses
    BY <1>1, <1>2, <1>6, <2>2 DEF DbOK, RunnerStatuses
  <2>4. row'[n] = row[n]
    BY <1>1, <1>2, <1>6, <2>1, <2>3, WriteTold
  <2>5. RowMove(n)
    BY <2>4 DEF RowMove
  <2>6. QED
    BY <1>1, <1>2, <1>3, <1>4, <2>1, <2>3, <2>5, WriteMoves
<1>7. QED
  BY <1>5, <1>6

\* A job has ended: GitHub has forgotten its runner.
LEMMA CompletedMoves ==
    ASSUME SetInv, HandleCompleted
    PROVE  Told /\ fresh' = fresh /\ \A k \in Names : Moves(k)
<1> DEFINE n == Head(msgs).n
<1>1. Typed /\ DbOK /\ WorldOK /\ Told
  BY MessageTyped DEF SetInv, KnownInv, Typed
<1>2. /\ n \in Names /\ Len(msgs) > 0 /\ Head(msgs) = msgs[1] /\ Len(msgs) \in Nat
      /\ \A i \in 1..Len(msgs') : \E j \in 1..Len(msgs) : msgs'[i] = msgs[j]
  BY <1>1, MessageType DEF HandleCompleted, WorldOK
<1>3. /\ UNCHANGED <<gh, vm, late, bypassed, forced, botched, start>> /\ UNCHANGED <<mgr, held, call>>
      /\ fresh' = fresh /\ acked' = acked \cup {n}
  BY DEF HandleCompleted, world, worker, prov
<1>4. gh'[n] = "none"
  <2>1. 1 \in 1..Len(msgs) /\ msgs[1].kind = "completed"
    BY <1>2 DEF HandleCompleted
  <2>2. QED
    BY <1>2, <1>3, <2>1 DEF SetInv, Acknowledged
<1>6. ASSUME row'[n] \in {"none", "pending_delete"} PROVE \A k \in Names : WorldMove(k) /\ Reports(k)
  BY <1>2, <1>3, <1>6 DEF WorldMove, Reports, Excepted
<1>7. CASE row[n] = "none"
  <2>1. NoWrite /\ row'[n] = "none"
    BY <1>7 DEF HandleCompleted, NoWrite, db
  <2>2. QED
    BY <1>1, <1>3, <1>6, <2>1, QuietMoves DEF NoWrite
<1>8. CASE row[n] # "none"
  <2>1. Write(n, "pending_delete", "terminated")
    BY <1>8 DEF HandleCompleted
  <2>2. "pending_delete" \in Statuses \ {"pending_create"} /\ "terminated" \in RunnerStatuses
    BY DEF Statuses, Doomed, RunnerStatuses
  <2>3. row'[n] = "pending_delete"
    BY <1>1, <1>2, <1>8, <2>1, <2>2, WriteTold
  <2>4. RowMove(n)
    BY <1>4, <1>8, <2>3 DEF RowMove
  <2>5. QED
    BY <1>1, <1>2, <1>3, <1>6, <2>1, <2>2, <2>3, <2>4, WriteMoves
<1>9. QED
  BY <1>7, <1>8

\* The provider worker hears of a change, or a manager applies or retries.
LEMMA ProviderMoves ==
    ASSUME SetInv,
           \/ \E e \in pev : HandleInstanceEvent(e)
           \/ \E n \in Names : ApplyHeld(n) \/ RetryOne(n)
    PROVE  Told /\ fresh' = fresh /\ \A k \in Names : Moves(k)
<1>1. Typed /\ ProvOK /\ DbOK /\ Told
  BY ProviderTyped DEF SetInv, KnownInv, Typed
<1>2. /\ UNCHANGED <<gh, vm, hist, start, msgs>> /\ UNCHANGED <<db, call>>
      /\ fresh' = fresh /\ pev' \subseteq pev
  BY DEF HandleInstanceEvent, ApplyHeld, RetryOne, Outer, world, worker, hist
<1>3. \A k \in Names : WorldMove(k) /\ Reports(k)
  BY <1>2, WorldStill, NoReport
<1>4. \A k \in Names : ManagerMove(k)
  <2>1. ASSUME NEW e \in pev, HandleInstanceEvent(e) PROVE \A k \in Names : ManagerMove(k)
    <3>1. e.n \in Names
      BY <1>1 DEF DbOK, Event
    <3>2. CASE UNCHANGED <<mgr, held>>
      BY <3>2 DEF ManagerMove
    <3>3. CASE NoManager(e.n)
      BY <1>1, <3>1, <3>3 DEF ManagerMove, NoManager, ProvOK
    <3>4. CASE e.op # "delete" /\ (Added(e.n, e.st) \/ ManagerUpdate(e.n, e.st))
      <4>1. Hears(e.n, e.st)
        BY <2>1, <3>4 DEF Hears, HandleInstanceEvent
      <4>2. \A k \in Names \ {e.n} : mgr'[k] = mgr[k] /\ held'[k] = held[k]
        BY <1>1, <3>1, <3>4 DEF Added, ManagerUpdate, ProvOK
      <4>3. /\ mgr'[e.n] \in {mgr[e.n], e.st}
            /\ held'[e.n] = held[e.n] \/ (call[e.n] # "no" /\ held'[e.n] = e.st)
        BY <1>1, <3>1, <3>4 DEF Added, ManagerUpdate, ProvOK
      <4>4. QED
        BY <4>1, <4>2, <4>3 DEF ManagerMove
    <3>5. QED
      BY <2>1, <3>2, <3>3, <3>4 DEF HandleInstanceEvent
  <2>2. ASSUME NEW n \in Names, ApplyHeld(n) PROVE \A k \in Names : ManagerMove(k)
    BY <1>1, <2>2 DEF ApplyHeld, ManagerMove, ProvOK
  <2>3. ASSUME NEW n \in Names, RetryOne(n) PROVE \A k \in Names : ManagerMove(k)
    BY <1>1, <2>3 DEF RetryOne, NoManager, ManagerMove, ProvOK
  <2>4. QED
    BY <2>1, <2>2, <2>3
<1>5. \A k \in Names : RowMove(k) /\ CallMove(k) /\ Silent(k)
  BY <1>2 DEF db, RowMove, CallMove, Silent
<1>6. QED
  BY <1>1, <1>2, <1>3, <1>4, <1>5 DEF Moves

\* A manager creates the machine: only of a row to be created.
LEMMA CreateMoves ==
    ASSUME SetInv, NEW n \in Names, CreateStart(n) \/ CreateCall(n) \/ CreateFail(n)
                               \/ CreateClean(n) \/ CreateRecord(n)
    PROVE  \A k \in Names : Moves(k)
<1>1. DbOK /\ ProvOK /\ row[n] \in Statuses \cup {"none"}
  BY DEF SetInv, KnownInv, Typed, DbOK
<1>2. \A k \in Names \ {n} : mgr'[k] = mgr[k] /\ held'[k] = held[k] /\ call'[k] = call[k]
  BY <1>1 DEF CreateStart, CreateCall, CreateFail, CreateClean, CreateRecord, Calling, Unmanaged, ProvOK
<1>3. \A k \in Names : Reports(k)
  BY NoReport DEF CreateStart, CreateCall, CreateFail, CreateClean, CreateRecord, Outer
<1>4. CASE ~CreateCall(n) /\ ~CreateFail(n)
  <2>1. \A k \in Names : WorldMove(k)
    <3>1. UNCHANGED <<gh, hist, start>> /\ vm' \subseteq vm
      BY <1>4 DEF CreateStart, CreateClean, CreateRecord, Outer, world, worker
    <3>2. QED
      BY <3>1 DEF WorldMove, hist, Excepted
  <2>2. CASE CreateStart(n)
    <3>1. /\ UpdateStatus(n, "creating") /\ MayBecome(n, "creating") /\ UNCHANGED <<mgr, held>>
          /\ mgr[n] = "pending_create" /\ call[n] = "no" /\ call'[n] = "create"
      BY <1>1, <2>2 DEF CreateStart, Ready, Calling, Unmanaged, ProvOK
    <3>2. row[n] \in Created
      BY <1>1, <3>1 DEF MayBecome, InstanceStatusTransitions, Created, Statuses, Doomed
    <3>3. "creating" \in Statuses \ {"pending_create"}
      BY DEF Statuses
    <3>4. row'[n] = "creating"
      BY <1>1, <3>1, <3>2, <3>3, StatusTyped DEF Created
    <3>5. RowMove(n) /\ CallMove(n) /\ ManagerMove(n)
      BY <3>1, <3>2, <3>4 DEF RowMove, CallMove, ManagerMove
    <3>6. QED
      BY <1>1, <1>2, <1>3, <2>1, <3>1, <3>3, <3>5, StatusMoves
  <2>3. CASE CreateClean(n)
    <3>1. /\ ForceStatus(n, "error") /\ UNCHANGED held /\ call[n] \in Failed /\ call'[n] = "no"
          /\ mgr'[n] \in {mgr[n], "error"}
      BY <1>1, <2>3 DEF CreateClean, Calling, Unmanaged, ProvOK, Failed
    <3>2. n \in botched /\ botched' = botched
      BY <2>3, <3>1 DEF SetInv, FailedIsBotched, CreateClean, hist
    <3>3. "error" \in Statuses \ {"pending_create"}
      BY DEF Statuses
    <3>4. (row'[n] = "error" /\ row[n] # "none") \/ (row'[n] = "none" /\ row[n] = "none")
      BY <1>1, <3>1, <3>3, StatusTyped DEF Set
    <3>5. RowMove(n) /\ CallMove(n) /\ ManagerMove(n)
      BY <3>1, <3>2, <3>4 DEF RowMove, CallMove, ManagerMove, Created
    <3>6. QED
      BY <1>1, <1>2, <1>3, <2>1, <3>1, <3>3, <3>5, StatusMoves
  <2>4. CASE CreateRecord(n) /\ MayBecome(n, "running")
    <3>1. /\ UpdateStatus(n, "running") /\ UNCHANGED held /\ mgr'[n] = "running"
          /\ call[n] = "created" /\ call'[n] = "no"
      BY <1>1, <2>4 DEF CreateRecord, Calling, Unmanaged, ProvOK
    <3>2. row[n] \in {"creating", "running"}
      BY <1>1, <2>4 DEF MayBecome, InstanceStatusTransitions, Statuses, Doomed
    <3>3. "running" \in Statuses \ {"pending_create"}
      BY DEF Statuses
    <3>4. row'[n] = "running"
      BY <1>1, <2>4, <3>1, <3>2, <3>3, StatusTyped
    <3>5. RowMove(n) /\ CallMove(n) /\ ManagerMove(n)
      BY <3>1, <3>2, <3>4 DEF RowMove, CallMove, ManagerMove, Created
    <3>6. QED
      BY <1>1, <1>2, <1>3, <2>1, <3>1, <3>3, <3>5, StatusMoves
  <2>5. CASE CreateRecord(n) /\ ~MayBecome(n, "running")
    <3>1. /\ ForceStatus(n, "error") /\ UNCHANGED <<mgr, held>>
          /\ call[n] = "created" /\ call'[n] = "no"
      BY <1>1, <2>5 DEF CreateRecord, Calling, Unmanaged, ProvOK
    <3>2. row[n] \notin {"creating", "running"}
      BY <2>5 DEF MayBecome, InstanceStatusTransitions
    <3>3. "error" \in Statuses \ {"pending_create"}
      BY DEF Statuses
    <3>4. (row'[n] = "error" /\ row[n] # "none") \/ (row'[n] = "none" /\ row[n] = "none")
      BY <1>1, <3>1, <3>3, StatusTyped DEF Set
    <3>5. RowMove(n) /\ CallMove(n) /\ ManagerMove(n)
      BY <3>1, <3>2, <3>4 DEF RowMove, CallMove, ManagerMove, Created
    <3>6. QED
      BY <1>1, <1>2, <1>3, <2>1, <3>1, <3>3, <3>5, StatusMoves
  <2>6. QED
    BY <1>4, <2>2, <2>3, <2>4, <2>5
<1>5. CASE CreateCall(n) \/ CreateFail(n)
  <2>1. /\ UNCHANGED <<db, gh, mgr, held, late, bypassed, forced, acked, start>> /\ pev' = pev
        /\ vm' \in {vm, vm \cup {n}} /\ call[n] = "create" /\ botched \subseteq botched'
        /\ call'[n] = "created" \/ (call'[n] \in Failed /\ n \in botched')
    BY <1>1, <1>5 DEF CreateCall, CreateFail, Calling, Unmanaged, ProvOK, worker, hist, Failed
  <2>2. \A k \in Names : WorldMove(k) /\ CallMove(k)
    BY <1>2, <2>1 DEF WorldMove, CallMove, Excepted, Building, Failed
  <2>3. \A k \in Names : RowMove(k) /\ ManagerMove(k) /\ Silent(k)
    BY <2>1 DEF db, RowMove, ManagerMove, Silent
  <2>4. QED
    BY <1>3, <2>2, <2>3 DEF Moves
<1>6. QED
  BY <1>4, <1>5

\* A manager deletes the machine: only when it was told to.
LEMMA DeleteMoves ==
    ASSUME SetInv, NEW n \in Names, HandleError(n) \/ DeleteStart(n) \/ DeleteDone(n) \/ DeleteFail(n)
    PROVE  \A k \in Names : Moves(k)
<1>1. DbOK /\ ProvOK /\ WorldOK /\ HistOK
  BY DEF SetInv, KnownInv, Typed
<1>2. \A k \in Names \ {n} : mgr'[k] = mgr[k] /\ held'[k] = held[k] /\ call'[k] = call[k]
  BY <1>1 DEF HandleError, DeleteStart, DeleteDone, DeleteFail, Finish, Calling, Unmanaged, ProvOK
<1>3. \A k \in Names : WorldMove(k) /\ Reports(k)
  <2>1. /\ UNCHANGED <<gh, late, bypassed, botched, acked, start, msgs>> /\ vm' \subseteq vm
        /\ forced \subseteq forced'
    BY DEF HandleError, DeleteStart, DeleteDone, DeleteFail, Outer, world, worker, hist
  <2>2. QED
    BY <2>1, NoReport DEF WorldMove, Excepted
<1>4. {"deleting", "deleted", "pending_delete"} \subseteq Statuses \ {"pending_create"}
  BY DEF Statuses, Doomed
<1>5. CASE HandleError(n)
  <2>1. /\ ForceStatus(n, "pending_delete") /\ UNCHANGED <<mgr, held, call>> /\ Condemned(n)
    BY <1>5 DEF HandleError, Unmanaged, Condemned, Ends
  <2>2. row[n] # "none" /\ row'[n] = "pending_delete" => RowMove(n)
    BY <2>1 DEF RowMove
  <2>3. QED
    BY <1>1, <1>3, <1>4, <2>1, <2>2, OnlyStatusMoves
<1>6. CASE DeleteStart(n)
  <2>1. /\ ForceStatus(n, "deleting") /\ UNCHANGED <<mgr, held>> /\ row[n] # "none"
        /\ mgr[n] \in Ends /\ call[n] = "no" /\ call'[n] \in {"delete", "force"}
    BY <1>1, <1>6 DEF DeleteStart, Ready, Calling, Unmanaged, ProvOK, Ends, Doomed
  <2>2. row'[n] = "deleting"
    BY <1>1, <1>4, <2>1, StatusTyped
  <2>3. RowMove(n) /\ CallMove(n) /\ ManagerMove(n)
    BY <2>1, <2>2 DEF RowMove, CallMove, ManagerMove, Created
  <2>4. QED
    BY <1>1, <1>2, <1>3, <1>4, <2>1, <2>3, StatusMoves
<1>7. CASE Finish(n) /\ call[n] \in {"delete", "force"} /\ (n \notin vm' \/ n \in forced')
  <2>1. /\ UpdateStatus(n, "deleted") /\ UNCHANGED mgr /\ call'[n] = "no"
        /\ held'[n] \in {held[n], "none"}
    BY <1>1, <1>7 DEF Finish, Calling, ProvOK
  <2>2. row'[n] = row[n] \/ row'[n] = "deleted"
    BY <1>1, <1>4, <2>1, StatusTyped DEF Set
  <2>3. row[n] \notin Created
    BY <1>7 DEF SetInv, CreatedOnce
  <2>4. RowMove(n) /\ CallMove(n) /\ ManagerMove(n)
    BY <1>7, <2>1, <2>2, <2>3 DEF RowMove, CallMove, ManagerMove, Created
  <2>5. QED
    BY <1>1, <1>2, <1>3, <1>4, <2>1, <2>4, StatusMoves
<1>8. CASE DeleteFail(n) /\ call[n] = "delete"
  <2>1. /\ ForceStatus(n, "pending_delete") /\ UNCHANGED <<mgr, held>>
        /\ call'[n] = "no" /\ Condemned(n)
    BY <1>1, <1>8 DEF DeleteFail, Calling, Unmanaged, ProvOK, Condemned
  <2>2. (row'[n] = "pending_delete" /\ row[n] # "none") \/ (row'[n] = "none" /\ row[n] = "none")
    BY <1>1, <1>4, <2>1, StatusTyped DEF Set
  <2>3. RowMove(n) /\ CallMove(n) /\ ManagerMove(n)
    BY <2>1, <2>2 DEF RowMove, CallMove, ManagerMove, Created
  <2>4. QED
    BY <1>1, <1>2, <1>3, <1>4, <2>1, <2>3, StatusMoves
<1>9. (DeleteDone(n) => Finish(n) /\ call[n] \in {"delete", "force"} /\ n \notin vm')
      /\ (DeleteFail(n) /\ call[n] # "delete" => Finish(n) /\ call[n] = "force" /\ n \in forced')
  BY DEF DeleteDone, DeleteFail
<1>10. QED
  BY <1>5, <1>6, <1>7, <1>8, <1>9

\* Start puts right what was interrupted.
LEMMA StartMoves ==
    ASSUME SetInv, NEW n \in Names, StartCreating(n) \/ \E s \in Statuses : StartOne(n, s)
    PROVE  Told /\ fresh' = fresh /\ \A k \in Names : Moves(k)
<1>1. Typed /\ DbOK /\ WorldOK /\ Told
  BY StartTyped DEF SetInv, KnownInv, Typed
<1>2. /\ UNCHANGED <<vm, late, bypassed, forced, acked, msgs>> /\ UNCHANGED <<mgr, held, call>>
      /\ fresh' = fresh /\ start' \subseteq start /\ botched \subseteq botched'
  BY DEF StartCreating, StartOne, hist, world, prov
<1>3. RemoveRunner(n) \/ UNCHANGED gh
  BY DEF StartCreating, StartOne, world
<1>4. \A k \in Names : WorldMove(k) /\ Reports(k)
  BY <1>1, <1>2, <1>3, RemoveMoves
<1>5. "pending_delete" \in Statuses \ {"pending_create"}
  BY DEF Statuses, Doomed
<1>6. CASE NoWrite
  BY <1>1, <1>2, <1>4, <1>6, QuietMoves DEF NoWrite
<1>7. CASE StartCreating(n) /\ ~NoWrite
  <2>1. ForceStatus(n, "pending_delete") /\ (gh'[n] = "none" \/ n \in botched')
    BY <1>7 DEF StartCreating
  <2>2. row[n] # "none" /\ row'[n] = "pending_delete" => RowMove(n)
    BY <2>1 DEF RowMove, Excepted
  <2>3. QED
    BY <1>1, <1>2, <1>4, <1>5, <2>1, <2>2, OnlyStatusMoves
<1>8. CASE StartOne(n, "deleting")
  <2>1. <<n, "deleting">> \in start /\ ForceStatus(n, "pending_delete")
    BY <1>8 DEF StartOne
  <2>2. Condemned(n)
    BY <2>1 DEF Condemned, Ends, Doomed
  <2>3. row[n] # "none" /\ row'[n] = "pending_delete" => RowMove(n)
    BY <2>2 DEF RowMove
  <2>4. QED
    BY <1>1, <1>2, <1>4, <1>5, <2>1, <2>3, OnlyStatusMoves
<1>9. CASE StartOne(n, "deleted")
  <2>1. <<n, "deleted">> \in start /\ DropRow(n, wev, pev) /\ wev \in SUBSET wev
    BY <1>9 DEF StartOne
  <2>2. row'[n] = "none" /\ \A k \in Names \ {n} : row'[k] = row[k] /\ rs'[k] = rs[k]
    BY <1>1, <2>1, DropTold
  <2>3. \A f \in pev' \ pev : f.n = n
    BY <2>1 DEF DropRow, Send
  <2>4. RowMove(n) /\ Silent(n)
    BY <2>1, <2>2 DEF RowMove, Dying, Silent
  <2>5. ASSUME NEW k \in Names \ {n} PROVE RowMove(k) /\ Silent(k)
    BY <2>2, <2>3 DEF RowMove, Silent
  <2>6. \A k \in Names : CallMove(k) /\ ManagerMove(k)
    BY <1>2 DEF CallMove, ManagerMove
  <2>7. QED
    BY <1>1, <1>2, <1>4, <2>4, <2>5, <2>6 DEF Moves
<1>10. \A s \in Statuses : StartOne(n, s) => NoWrite \/ s \in {"deleting", "deleted"}
  BY DEF StartOne
<1>11. QED
  BY <1>6, <1>7, <1>8, <1>9, <1>10

\* Start lists the rows, or is done.
LEMMA StartListMoves ==
    ASSUME SetInv, StartList \/ StartDone
    PROVE  Told /\ fresh' = fresh /\ \A k \in Names : Moves(k)
<1>1. Told
  BY StartListTyped DEF SetInv, KnownInv
<1>2. /\ UNCHANGED <<gh, vm, hist, msgs>> /\ UNCHANGED <<db, mgr, held, call>>
      /\ fresh' = fresh /\ pev' = pev
      /\ start' = {<<m, row[m]>> : m \in {m \in Names : row[m] # "none"}} \/ UNCHANGED start
  BY DEF StartList, StartDone, world, hist, prov
<1>3. \A k \in Names : WorldMove(k) /\ Reports(k)
  BY <1>2, NoReport DEF WorldMove, hist, Excepted
<1>4. QED
  BY <1>1, <1>2, <1>3, QuietMoves

\* The process ends and comes back: the managers have what the rows say.
LEMMA CrashMoves ==
    ASSUME SetInv, Crash
    PROVE  Told /\ fresh' = fresh /\ \A k \in Names : Moves(k)
<1>1. Told
  BY CrashTyped DEF SetInv, KnownInv
<1>2. /\ UNCHANGED <<gh, vm, hist, msgs>> /\ UNCHANGED db
      /\ fresh' = fresh /\ pev' = {} /\ start' = {}
  BY DEF Crash, world, hist
<1>3. \A k \in Names : WorldMove(k) /\ Reports(k)
  BY <1>2, NoReport DEF WorldMove, hist, Excepted
<1>4. ASSUME NEW k \in Names PROVE Restarted(k)
  <2>1. held'[k] = "none" /\ call'[k] = "no"
    BY DEF Crash
  <2>2. mgr'[k] = "none" \/ (mgr'[k] = row[k] /\ row[k] # "creating")
    BY DEF Crash
  <2>3. QED
    BY <1>2, <2>1, <2>2 DEF Restarted, db
<1>5. \A k \in Names : RowMove(k) /\ CallMove(k) /\ ManagerMove(k) /\ Silent(k)
  BY <1>2, <1>4 DEF Restarted, RowMove, CallMove, ManagerMove, Silent, db
<1>6. QED
  BY <1>1, <1>2, <1>3, <1>5 DEF Moves

\* GitHub, the machines, the administrator, a lost change.  A callback needs a machine,
\* and a row to be created has none.
LEMMA WorldMoves ==
    ASSUME SetInv,
           \/ DropEvent
           \/ \E n \in Names : \/ ApiDelete(n) \/ VmBoots(n) \/ Callback(n) \/ JobStart(n)
                               \/ JobDone(n) \/ VmFault(n)
    PROVE  Told /\ fresh' = fresh /\ \A k \in Names : Moves(k)
<1>1. Typed /\ DbOK /\ WorldOK /\ Told
  BY WorldTyped DEF SetInv, KnownInv, Typed
<1>2. UNCHANGED <<mgr, held, call>> /\ fresh' = fresh /\ start' = start
  BY DEF DropEvent, ApiDelete, VmBoots, Callback, JobStart, JobDone, VmFault, prov, worker
<1>3. CASE DropEvent
  <2>1. UNCHANGED <<gh, vm, hist, start, msgs, db>> /\ pev' \subseteq pev
    BY <1>3 DEF DropEvent, world, hist, worker
  <2>2. \A k \in Names : WorldMove(k) /\ Reports(k)
    BY <2>1, WorldStill, NoReport
  <2>3. QED
    BY <1>1, <1>2, <2>1, <2>2, QuietMoves
<1>4. ASSUME NEW n \in Names, ApiDelete(n) PROVE \A k \in Names : Moves(k)
  <2>1. PICK s \in {"pending_delete", "pending_force_delete"} : UpdateStatus(n, s)
    BY <1>4 DEF ApiDelete
  <2>2. /\ UNCHANGED <<vm, acked, msgs, late, forced, botched>> /\ bypassed \subseteq bypassed'
        /\ \/ gh[n] # "active" /\ RemoveRunner(n)
           \/ UNCHANGED gh /\ n \in bypassed'
    BY <1>4 DEF ApiDelete
  <2>3. \A k \in Names : WorldMove(k) /\ Reports(k)
    BY <1>1, <1>2, <2>2, RemoveMoves
  <2>4. row[n] # "none" /\ row'[n] = s => RowMove(n)
    <3>1. gh'[n] = "none" \/ n \in Excepted'
      BY <1>1, <2>2, RemoveType DEF Typed, Excepted
    <3>2. QED
      BY <3>1 DEF RowMove
  <2>5. s \in Statuses \ {"pending_create"}
    BY DEF Statuses, Doomed
  <2>6. QED
    BY <1>1, <1>2, <2>1, <2>3, <2>4, <2>5, OnlyStatusMoves
<1>5. ASSUME NEW n \in Names, Callback(n) PROVE \A k \in Names : Moves(k)
  <2>1. row[n] # "pending_create" /\ row[n] # "none" /\ Write(n, row[n], "idle")
    BY <1>5 DEF Callback, SetInv, CreatedOnce
  <2>2. row[n] \in Statuses \ {"pending_create"} /\ "idle" \in RunnerStatuses
    BY <1>1, <2>1 DEF DbOK, RunnerStatuses
  <2>3. row'[n] = row[n]
    BY <1>1, <2>1, <2>2, WriteTold
  <2>4. \A k \in Names : WorldMove(k) /\ Reports(k)
    BY <1>2, <1>5, WorldStill, NoReport DEF Callback, world, hist
  <2>5. RowMove(n)
    BY <2>3 DEF RowMove
  <2>6. QED
    BY <1>1, <1>2, <2>1, <2>2, <2>4, <2>5, WriteMoves
<1>6. ASSUME NEW n \in Names, VmBoots(n) \/ JobStart(n) \/ JobDone(n) \/ VmFault(n)
      PROVE  \A k \in Names : Moves(k)
  <2>1. UNCHANGED <<db, hist, start>> /\ pev' = pev /\ vm' \subseteq vm
    BY <1>2, <1>6 DEF VmBoots, JobStart, JobDone, VmFault, hist
  <2>2. \A k \in Names : gh[k] = "none" => gh'[k] = "none"
    BY <1>1, <1>6 DEF WorldOK, VmBoots, JobStart, JobDone, VmFault
  <2>3. \A k \in Names : WorldMove(k)
    BY <2>1, <2>2 DEF WorldMove, hist, Excepted
  <2>4. \A k \in Names : Reports(k)
    <3>1. CASE VmBoots(n) \/ VmFault(n)
      BY <3>1, NoReport DEF VmBoots, VmFault
    <3>2. CASE JobStart(n) \/ JobDone(n)
      <4>1. PICK m : /\ msgs' = Append(msgs, m) /\ m.n = n
                     /\ m.kind = "completed" => gh'[n] = "none"
        BY <1>1, <3>2 DEF JobStart, JobDone, WorldOK
      <4>2. \A i \in 1..Len(msgs') : msgs'[i] = m \/ (i \in 1..Len(msgs) /\ msgs'[i] = msgs[i])
        BY <1>1, <4>1 DEF WorldOK
      <4>3. QED
        BY <4>1, <4>2 DEF Reports
    <3>3. QED
      BY <1>6, <3>1, <3>2
  <2>5. QED
    BY <1>2, <2>1, <2>3, <2>4, QuietMoves
<1>7. QED
  BY <1>1, <1>2, <1>3, <1>4, <1>5, <1>6

-----------------------------------------------------------------------------
(* Every step.                                                             *)

\* A new name starts with nothing on its account.
LEMMA ScaleUpSet ==
    ASSUME SetInv, NEW n \in Names, ScaleUp(n) \/ ScaleUpFails(n)
    PROVE  SetInv'
<1> DEFINE c == [n |-> n, op |-> "create", st |-> "pending_create", rs |-> "pending"]
<1>1. KnownInv'
  BY ScaleUpKnown, ScaleUpFailsKnown DEF SetInv
<1>2. n \in fresh /\ fresh' = fresh \ {n}
  <2>1. n \in NextName /\ fresh' = fresh \ {n}
    BY DEF ScaleUp, ScaleUpFails
  <2>2. fresh # {} => (CHOOSE k \in fresh : TRUE) \in fresh
    OBVIOUS
  <2>3. QED
    BY <2>1, <2>2 DEF NextName
<1>3. /\ UNCHANGED <<vm, late, bypassed, forced, botched, acked, msgs, start>> /\ UNCHANGED <<mgr, held, call>>
      /\ gh' = [gh EXCEPT ![n] = "offline"]
  BY DEF ScaleUp, ScaleUpFails, prov, hist, worker
<1>4. pev' \subseteq pev \cup {c} /\ wev' \subseteq wev \cup {c} /\ rs' = rs
  BY DEF ScaleUp, ScaleUpFails, Send, db
<1>5. row' = [row EXCEPT ![n] = "pending_create"] \/ row' = row
  BY DEF ScaleUp, ScaleUpFails, db
<1>6. /\ row[n] = "none" /\ rs[n] = "pending" /\ n \notin vm /\ n \notin acked
      /\ mgr[n] = "none" /\ held[n] = "none" /\ call[n] = "no"
      /\ \A s \in Statuses : <<n, s>> \notin start
      /\ \A i \in 1..Len(msgs) : msgs[i].n # n
      /\ \A e \in wev \cup pev : e.n # n
  BY <1>2 DEF SetInv, KnownInv, FreshUnused, Unused
<1>7. row'[n] \in {"none", "pending_create"} /\ \A k \in Names \ {n} : row'[k] = row[k] /\ gh'[k] = gh[k]
  BY <1>3, <1>5, <1>6 DEF SetInv, KnownInv, Typed, DbOK, WorldOK
<1>8. ~Dying(n)' /\ ~Condemned(n)'
  BY <1>3, <1>4, <1>6, <1>7 DEF Dying, Condemned, Ends, Doomed, Statuses
<1>9. \A k \in Names \ {n} : (Dying(k)' => Dying(k)) /\ (Condemned(k)' => Condemned(k))
                             /\ (Harmless(k) => Harmless(k)') /\ (Ordered(k)' => Ordered(k))
  BY <1>3, <1>4, <1>7 DEF Dying, Condemned, Harmless, Excepted, Ordered
<1>10. Buried'
  BY <1>2, <1>3, <1>6, <1>7, <1>8, <1>9 DEF SetInv, Buried, Created, Building, Harmless
<1>11. Acknowledged'
  <2>1. ASSUME NEW i \in 1..Len(msgs'), msgs'[i].kind = "completed" PROVE gh'[msgs'[i].n] = "none"
    <3>1. i \in 1..Len(msgs) /\ msgs'[i] = msgs[i] /\ msgs[i].kind = "completed"
      BY <1>3, <2>1
    <3>2. msgs[i] \in Message
      BY <3>1 DEF SetInv, KnownInv, Typed, WorldOK
    <3>3. msgs[i].n \in Names \ {n}
      BY <1>6, <3>1, <3>2 DEF Message
    <3>4. gh[msgs[i].n] = "none"
      BY <3>1 DEF SetInv, Acknowledged
    <3>5. QED
      BY <1>7, <3>1, <3>3, <3>4
  <2>2. \A k \in acked' : k \in Names \ {n} /\ k \in acked
    BY <1>3, <1>6 DEF SetInv, KnownInv, Typed, HistOK
  <2>3. QED
    BY <1>3, <1>7, <2>1, <2>2 DEF SetInv, Acknowledged
<1>12. CreatedOnce'
  <2> SUFFICES ASSUME NEW k \in Names
               PROVE  /\ row'[k] = "pending_create" =>
                           /\ rs'[k] = "pending" /\ k \notin vm' /\ call'[k] = "no" /\ held'[k] = "none"
                           /\ Ordered(k)' => mgr'[k] = "none"
                           /\ \A e \in pev' : e.n = k /\ e.op # "delete" =>
                                e = [n |-> k, op |-> "create", st |-> "pending_create", rs |-> "pending"]
                      /\ row'[k] = "creating" /\ call'[k] = "no" => mgr'[k] # "pending_create" /\ ~Ordered(k)'
                      /\ call'[k] \in Building => ~Ordered(k)'
                      /\ call'[k] \in {"delete", "force"} => row'[k] \notin Created
                      /\ call'[k] = "create" => k \notin vm'
    BY DEF CreatedOnce
  <2>1. CASE k = n
    BY <1>3, <1>4, <1>6, <1>7, <2>1 DEF Building
  <2>2. CASE k # n
    BY <1>3, <1>4, <1>7, <1>9, <2>2 DEF SetInv, CreatedOnce
  <2>3. QED
    BY <2>1, <2>2
<1>13. CondemnedHarmless'
  BY <1>2, <1>8, <1>9 DEF SetInv, CondemnedHarmless
<1>14. FailedIsBotched'
  BY <1>3 DEF SetInv, FailedIsBotched
<1>15. QED
  BY <1>1, <1>10, <1>11, <1>12, <1>13, <1>14 DEF SetInv

\* Nothing is known of any name at the start.
LEMMA SetInit == Init => SetInv
<1> SUFFICES ASSUME Init PROVE SetInv
  OBVIOUS
<1>1. fresh = Names /\ acked = {} /\ Len(msgs) = 0
  BY DEF Init
<1>2. \A n \in Names : row[n] = "none" /\ call[n] = "no"
  BY DEF Init
<1>3. Buried /\ Acknowledged /\ CondemnedHarmless
  BY <1>1 DEF Buried, Acknowledged, CondemnedHarmless
<1>4. CreatedOnce /\ FailedIsBotched
  BY <1>2 DEF CreatedOnce, FailedIsBotched, Building, Failed
<1>5. QED
  BY <1>3, <1>4, KnownInit DEF SetInv

\* A step that is not a scale up has its causes.
LEMMA StepMoves ==
    ASSUME SetInv, [Next]_vars, ~ \E n \in Names : ScaleUp(n) \/ ScaleUpFails(n)
    PROVE  Told /\ fresh' = fresh /\ \A k \in Names : Moves(k)
<1>1. CASE UNCHANGED vars
  <2>1. Told
    BY <1>1, StutterTyped DEF SetInv, KnownInv
  <2>2. /\ UNCHANGED <<gh, vm, hist, start, msgs>> /\ UNCHANGED <<db, mgr, held, call>>
        /\ fresh' = fresh /\ pev' = pev
    BY <1>1 DEF vars, world, hist, worker, prov
  <2>3. \A k \in Names : WorldMove(k) /\ Reports(k)
    BY <2>2, WorldStill, NoReport
  <2>4. QED
    BY <2>1, <2>2, <2>3, QuietMoves
<1>2. ASSUME NEW n \in Names,
             \/ CreateStart(n) \/ CreateCall(n) \/ CreateFail(n) \/ CreateClean(n) \/ CreateRecord(n)
             \/ HandleError(n) \/ DeleteStart(n) \/ DeleteDone(n) \/ DeleteFail(n)
      PROVE  Told /\ fresh' = fresh /\ \A k \in Names : Moves(k)
  <2>1. Told
    BY <1>2, CallTyped DEF SetInv, KnownInv
  <2>2. fresh' = fresh
    BY <1>2 DEF CreateStart, CreateCall, CreateFail, CreateClean, CreateRecord, HandleError, DeleteStart,
       DeleteDone, DeleteFail, Outer
  <2>3. QED
    BY <1>2, <2>1, <2>2, CreateMoves, DeleteMoves
<1>3. QED
  BY <1>1, <1>2, HandleEventMoves, ScaleDownMoves, ConsolidateOneMoves, ConsolidateMoves, StartedMoves,
     CompletedMoves, ProviderMoves, StartMoves, StartListMoves, CrashMoves, WorldMoves
  DEF Next, Consolidate, Manage

\* Every step keeps the invariant.
LEMMA SetStep ==
    ASSUME SetInv, [Next]_vars
    PROVE  SetInv'
<1>1. CASE \E n \in Names : ScaleUp(n) \/ ScaleUpFails(n)
  BY <1>1, ScaleUpSet
<1>2. CASE ~ \E n \in Names : ScaleUp(n) \/ ScaleUpFails(n)
  BY <1>2, StepMoves, SetMoves, KnownStep DEF SetInv
<1>3. QED
  BY <1>1, <1>2

\* No machine is left without a row through which garm will remove it, unless an administrator
\* forced the removal and the provider then failed: a row becomes deleted only when its
\* machine is gone or was given up by force, the row of a failed creation stays until its
\* machine is deleted like any other, and no manager creates a machine for a row that is gone (CreateStart needs one).
THEOREM MachinesHaveRows == Spec => []NoOrphanMachine
<1>1. SetInv => NoOrphanMachine
  <2>1. ASSUME SetInv, NEW n \in vm, row[n] = "none" PROVE n \in forced
    <3>1. n \in Names \ fresh
      BY <2>1 DEF SetInv, KnownInv, Typed, WorldOK, FreshUnused, Unused
    <3>2. QED
      BY <2>1, <3>1 DEF SetInv, Buried
  <2>2. QED
    BY <2>1 DEF NoOrphanMachine
<1>2. QED
  BY <1>1, SetInit, SetStep, PTL DEF Spec

\* Once the completion of a runner's job is acknowledged, its row is on the way out for ever.
THEOREM AcknowledgedIsDoomed == Spec => []AckMeansDoomed
<1>1. SetInv => AckMeansDoomed
  <2>1. ASSUME SetInv, NEW n \in acked PROVE row[n] \in Doomed \cup {"none", "error"}
    <3>1. row[n] \notin Created \cup {"running"} /\ row[n] \in Statuses \cup {"none"}
      BY <2>1 DEF SetInv, KnownInv, Typed, DbOK, HistOK, Acknowledged
    <3>2. QED
      BY <3>1 DEF Statuses, Created
  <2>2. QED
    BY <2>1 DEF AckMeansDoomed
<1>2. QED
  BY <1>1, SetInit, SetStep, PTL DEF Spec

\* No step takes the machine from under a job, a fault aside: the provider deletes what it was
\* told to, and but for the named exceptions only runners that GitHub had let go of are
\* condemned (CondemnedHarmless); the clean-up deletes machines without an entry, whose rows
\* are gone and whose runners GitHub has forgotten (Buried).
THEOREM JobsKeepTheirMachine == Spec => BusyIsSafe
<1>1. SetInv /\ [Next]_vars =>
        [\A n \in Names : n \in vm /\ gh[n] = "active" /\ n \notin vm' /\ faults' = faults
           => n \in Excepted]_vars
  <2> SUFFICES ASSUME SetInv, Next, NEW n \in Names,
                      n \in vm, gh[n] = "active", n \notin vm', faults' = faults
               PROVE  n \in Excepted
    OBVIOUS
  <2>1. n \notin fresh
    BY DEF SetInv, KnownInv, FreshUnused, Unused
  <2>2. \A k \in AllFaults : ~Fault(k)
    BY DEF SetInv, KnownInv, Typed, HistOK, Fault
  <2>3. \/ \E k \in Names : DeleteDone(k) \/ CreateClean(k)
        \/ ConsolidateProvider
    <3>1. \A k \in Names : ~VmFault(k) /\ ~DeleteFail(k) /\ ~ApiDelete(k) /\ ~ScaleUpFails(k) /\ ~CreateFail(k)
      BY <2>2 DEF VmFault, DeleteFail, ApiDelete, ScaleUpFails, CreateFail, AllFaults
    <3>2. \/ vm' = vm
          \/ \E k \in Names : DeleteDone(k) \/ CreateCall(k) \/ CreateClean(k) \/ ConsolidateProvider
      BY <3>1 DEF Next, Consolidate, Manage, HandleEvent, HandleInstanceEvent, ConsolidateList,
         ConsolidateUnknown, ReapDone, ConsolidateDone, ReapOne, MissingOne, GoneOne, SetTarget,
         HandleStarted, HandleCompleted, DropEvent, ScaleUp, ScaleDown, RetryOne, ApplyHeld, CreateStart,
         CreateRecord, HandleError, DeleteStart, StartCreating, StartOne, VmBoots, Callback, JobStart,
         JobDone, Crash, StartList, StartDone, world, Outer
    <3>3. QED
      BY <3>2 DEF CreateCall
  <2>4. CASE \E k \in Names : DeleteDone(k)
    <3>1. PICK k \in Names : call[k] \in {"delete", "force"} /\ vm' = vm \ {k}
      BY <2>4 DEF DeleteDone
    <3>2. Condemned(n)
      BY <3>1 DEF Condemned
    <3>3. QED
      BY <2>1, <3>2 DEF SetInv, CondemnedHarmless, Harmless
  <2>5. CASE ConsolidateProvider
    <3>1. runners[n].st \notin Statuses /\ wpc = "up"
      BY <2>5 DEF ConsolidateProvider, InPhase
    <3>2. runners[n] = Out \/ runners[n] = Zero
      BY <3>1 DEF SetInv, KnownInv, Typed, WorkerOK
    <3>3. row[n] = "none"
      BY <3>1, <3>2 DEF SetInv, KnownInv, RowsKnown, GoneForGood
    <3>4. Harmless(n)
      BY <2>1, <3>3 DEF SetInv, Buried
    <3>5. QED
      BY <3>3, <3>4 DEF Harmless
  <2>6. CASE \E k \in Names : CreateClean(k)
    <3>1. PICK k \in Names : call[k] \in Failed /\ vm' \in {vm, vm \ {k}}
      BY <2>6 DEF CreateClean, Failed
    <3>2. QED
      BY <3>1 DEF SetInv, FailedIsBotched, Excepted
  <2>7. QED
    BY <2>3, <2>4, <2>5, <2>6
<1>2. QED
  BY <1>1, SetInit, SetStep, PTL DEF Spec, BusyIsSafe, Excepted
=============================================================================
