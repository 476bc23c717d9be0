------------------------- MODULE StorageChainProofs -------------------------
(***************************************************************************)
(* Proofs about StorageChain, for every chain, every set of keys, contents *)
(* and concurrent commands, and every failure of the backends that are not *)
(* stable.                                                                 *)
(***************************************************************************)
EXTENDS StorageChain, TLAPS

\* Where a command is in its loop.
Loop ==
    \A c \in Clients :
        /\ wrote[c] < at[c]
        /\ Running(c) <=> req[c] # NoRequest
        /\ ~Running(c) => at[c] = 1 /\ got[c] = Absent /\ pc[c] = "probe"
        /\ pc[c] = "body" => Running(c) /\ IsRead(req[c])

\* A read that is past a stable first backend has its answer.
ReadsFirst ==
    FirstIsStable => \A c \in Clients :
        Running(c) /\ IsRead(req[c]) /\ at[c] > 1 => at[c] = Len(Chain) + 1

\* Only a remote backend has writes on their way, and only IPFS torn objects.
Remote(w) == w.b # "local" /\ (w.b # "ipfs" => w.val # Torn)
LateRemote == \A w \in late : Remote(w)
Whole == \A b \in Kinds \ {"ipfs"} : \A k \in Keys : content[b][k] # Torn

LoopInv == TypeOK /\ Loop /\ ReadsFirst /\ LateRemote /\ Whole

-----------------------------------------------------------------------------
(* The chain and the requests.                                             *)

\* A chain is a nonempty sequence of backends without repetition.
LEMMA ChainFacts ==
    ASSUME setup \in Setups
    PROVE  /\ Len(Chain) \in Nat /\ Len(Chain) >= 1
           /\ \A i \in 1..Len(Chain) : Chain[i] \in Kinds
           /\ \A i, j \in 1..Len(Chain) : Chain[i] = Chain[j] => i = j
<1>1. Chain \in Seq(Kinds) /\ Chain # <<>>
  BY ChainAssumption DEF Chain
<1>2. \A i, j \in DOMAIN Chain : Chain[i] = Chain[j] => i = j
  BY ChainAssumption DEF Chain
<1> QED BY <1>1, <1>2

\* The fields of a request; only a Put has a content to store.
LEMMA RequestFields ==
    ASSUME NEW r \in Requests
    PROVE  /\ r.key \in Keys /\ r.val \in Contents /\ r.val # Torn
           /\ r.op \in {"put", "delete", "get", "stat"}
BY ChainAssumption DEF Requests, Contents

\* Results.
LEMMA Outcomes ==
    ASSUME NEW c \in Clients
    PROVE  /\ Outcome(c) \in Results \ {"running", "none"}
           /\ Reply(Outcome(c)) \in {"ok", "error"}
BY DEF Outcome, Results, Reply

-----------------------------------------------------------------------------
(* The loop.                                                               *)

\* The initial states.
LEMMA LoopInit == Init => LoopInv
<1> SUFFICES ASSUME Init PROVE LoopInv
  OBVIOUS
<1>1. Len(Chain) \in Nat /\ Len(Chain) >= 1
  BY ChainFacts DEF Init
<1>2. TypeOK
  BY <1>1 DEF Init, TypeOK, Contents, Results
<1>3. Loop
  BY <1>1, ChainAssumption DEF Init, Loop, Running
<1>4. ReadsFirst /\ LateRemote
  BY DEF Init, ReadsFirst, LateRemote, Running
<1>5. Whole
  BY ChainAssumption DEF Init, Whole
<1> QED BY <1>2, <1>3, <1>4, <1>5 DEF LoopInv

\* A command begins.
LEMMA BeginLoop ==
    ASSUME LoopInv, NEW c \in Clients, NEW r \in Requests, Begin(c, r)
    PROVE  LoopInv'
<1> USE DEF LoopInv, Begin
<1>1. TypeOK'
  <2>1. alone' \in [Clients -> BOOLEAN]
    BY DEF TypeOK
  <2>2. acked' \in [Clients -> Requests \cup {NoRequest}]
    BY DEF TypeOK
  <2>3. result' \in [Clients -> Results] /\ req' \in [Clients -> Requests \cup {NoRequest}]
        /\ skipped' \in [Clients -> SUBSET Kinds]
    BY DEF TypeOK, Results
  <2> QED BY <2>1, <2>2, <2>3 DEF TypeOK, Chain
<1>2. Loop'
  BY ChainAssumption DEF TypeOK, Loop, Running, IsRead
<1>3. ReadsFirst'
  BY DEF TypeOK, Loop, ReadsFirst, FirstIsStable, Chain, Stable, Running, IsRead
<1>4. LateRemote' /\ Whole'
  BY DEF LateRemote, Whole
<1> QED BY <1>1, <1>2, <1>3, <1>4

\* A command looks at the next backend, goes on or leaves the loop.
LEMMA LocalLoop ==
    ASSUME LoopInv, NEW c \in Clients, InLoop(c), TypeOK',
           UNCHANGED <<setup, req, result>>,
           \A w \in late' : w \in late \/ Remote(w), Whole',
           \A d \in Clients \ {c} : /\ at'[d] = at[d] /\ wrote'[d] = wrote[d]
                                    /\ pc'[d] = pc[d] /\ got'[d] = got[d],
           wrote'[c] \in {wrote[c], wrote[c] + 1},
           \/ at'[c] = at[c] /\ wrote'[c] = wrote[c] /\ (pc'[c] = "body" => IsRead(req[c]))
           \/ at'[c] = at[c] + 1 /\ pc'[c] = "probe"
                /\ (IsRead(req[c]) => wrote'[c] = wrote[c] /\ Flaky(c))
           \/ at'[c] = Len(Chain) + 1 /\ pc'[c] = "probe" /\ IsRead(req[c])
    PROVE  LoopInv'
<1>1. Len(Chain) \in Nat /\ Len(Chain) >= 1
  BY ChainFacts DEF LoopInv, TypeOK
<1>2. Loop'
  BY <1>1 DEF LoopInv, Loop, TypeOK, InLoop, Running, IsRead, Chain
<1>3. ReadsFirst'
  BY <1>1 DEF LoopInv, ReadsFirst, TypeOK, InLoop, Running, IsRead, Chain, Stable,
     FirstIsStable, Flaky, Here
<1>4. LateRemote'
  BY DEF LoopInv, LateRemote
<1> QED BY <1>2, <1>3, <1>4 DEF LoopInv

\* A write reaches a backend, or fails on it.
LEMMA StoredType ==
    ASSUME LoopInv, NEW b \in Kinds, NEW k \in Keys, NEW v \in Contents,
           b # "ipfs" => v # Torn, content' = Stored(b, k, v)
    PROVE  content' \in [Kinds -> [Keys -> Contents]] /\ Whole'
<1>1. content' \in [Kinds -> [Keys -> Contents]]
  BY DEF LoopInv, TypeOK, Stored
<1>2. Whole'
  BY DEF LoopInv, TypeOK, Stored, Whole
<1> QED BY <1>1, <1>2

\* The position stays in the chain and the counter behind it.
LEMMA Positions ==
    ASSUME LoopInv, NEW c \in Clients, InLoop(c)
    PROVE  /\ at[c] \in 1..Len(Chain) /\ Here(c) \in Kinds
           /\ at[c] + 1 \in 1..(Len(Chain) + 1) /\ Len(Chain) + 1 \in 1..(Len(Chain) + 1)
           /\ wrote[c] + 1 \in 0..Len(Chain)
           /\ req[c] \in Requests
<1>1. Len(Chain) \in Nat /\ \A i \in 1..Len(Chain) : Chain[i] \in Kinds
  BY ChainFacts DEF LoopInv, TypeOK
<1>2. at[c] \in 1..Len(Chain)
  BY <1>1 DEF LoopInv, TypeOK, InLoop
<1>3. wrote[c] + 1 \in 0..Len(Chain)
  BY <1>1, <1>2 DEF LoopInv, TypeOK, Loop
<1>4. req[c] \in Requests
  BY DEF LoopInv, TypeOK, Loop, InLoop
<1> QED BY <1>1, <1>2, <1>3, <1>4 DEF Here

\* What an unfinished write may do: only one in IPFS is torn.
LEMMA EffectFacts ==
    ASSUME NEW b \in Kinds, NEW r \in Requests, NEW v \in Effects(b, r)
    PROVE  v \in Contents /\ (b # "ipfs" => v # Torn)
BY RequestFields DEF Effects, Contents

\* The request that is left behind.
LEMMA LeftBehindFacts ==
    ASSUME LoopInv, NEW c \in Clients, InLoop(c), Here(c) # "local", LeftBehind(c)
    PROVE  \E w \in LateWrites :
              /\ late' = late \cup {w} /\ Remote(w)
              /\ w.b = Here(c) /\ w.key = req[c].key
              /\ w.val \in Effects(Here(c), req[c])
<1>1. PICK n \in 1..MaxLate, v \in Effects(Here(c), req[c]) :
        late' = late \cup {[b |-> Here(c), key |-> req[c].key, val |-> v, n |-> n]}
  BY DEF LeftBehind
<1>2. Here(c) \in Kinds /\ req[c] \in Requests
  BY Positions
<1>3. v \in Contents /\ (Here(c) # "ipfs" => v # Torn) /\ req[c].key \in Keys
  BY <1>2, EffectFacts, RequestFields
<1> DEFINE w == [b |-> Here(c), key |-> req[c].key, val |-> v, n |-> n]
<1>4. w \in LateWrites
  BY <1>2, <1>3 DEF LateWrites
<1>5. Remote(w)
  BY <1>3 DEF Remote
<1> QED BY <1>1, <1>4, <1>5

\* A probe.
LEMMA ProbeLoop ==
    ASSUME LoopInv, NEW c \in Clients, Unavailable(c) \/ Available(c)
    PROVE  LoopInv'
<1>1. InLoop(c)
  BY DEF Unavailable, Available
<1>2. TypeOK'
  <2>1. CASE Unavailable(c)
    BY <1>1, <2>1, Positions DEF LoopInv, TypeOK, Unavailable, GoOn, Chain
  <2>2. CASE Available(c)
    BY <2>2 DEF LoopInv, TypeOK, Available, history, Chain
  <2> QED BY <2>1, <2>2
<1>5. Whole'
  BY DEF LoopInv, Whole, Unavailable, Available
<1>3. CASE Unavailable(c)
  BY <1>1, <1>2, <1>3, <1>5, LocalLoop DEF LoopInv, TypeOK, Unavailable, GoOn
<1>4. CASE Available(c)
  BY <1>1, <1>2, <1>4, <1>5, LocalLoop DEF LoopInv, TypeOK, Available
<1> QED BY <1>3, <1>4

\* A write, whatever comes of it.
LEMMA WriteLoop ==
    ASSUME LoopInv, NEW c \in Clients,
           WriteOK(c) \/ WriteFail(c) \/ WriteTimeout(c) \/ DeleteIgnored(c)
    PROVE  LoopInv'
<1> DEFINE r == req[c]
<1>1. InLoop(c)
  BY DEF WriteOK, WriteFail, WriteTimeout, DeleteIgnored
<1>2. r \in Requests /\ Here(c) \in Kinds
  BY <1>1, Positions
<1>3. ~IsRead(r)
  BY DEF WriteOK, WriteFail, WriteTimeout, DeleteIgnored, IsRead
<1>4. content' \in [Kinds -> [Keys -> Contents]] /\ Whole'
  <2>1. CASE WriteOK(c)
    BY <1>2, <2>1, StoredType, RequestFields DEF WriteOK
  <2>2. CASE WriteFail(c)
    <3>1. /\ content[Here(c)][r.key] \in Contents
          /\ Here(c) # "ipfs" => content[Here(c)][r.key] # Torn
      BY <1>2, RequestFields DEF LoopInv, TypeOK, Whole
    <3>2. PICK v \in Left(Here(c), r, content[Here(c)][r.key]) :
             content' = Stored(Here(c), r.key, v)
      BY <2>2 DEF WriteFail
    <3>3. v \in Contents /\ (Here(c) # "ipfs" => v # Torn)
      BY <1>2, <3>1, EffectFacts DEF Left
    <3> QED BY <1>2, <3>2, <3>3, StoredType, RequestFields
  <2>3. CASE WriteTimeout(c) \/ DeleteIgnored(c)
    BY <2>3 DEF LoopInv, TypeOK, Whole, WriteTimeout, DeleteIgnored
  <2> QED BY <2>1, <2>2, <2>3
<1>5. /\ late' \in SUBSET LateWrites
      /\ \A w \in late' : w \in late \/ Remote(w)
  <2>1. CASE WriteTimeout(c)
    <3>1. Here(c) # "local" /\ LeftBehind(c)
      BY <2>1 DEF WriteTimeout
    <3> QED BY <1>1, <3>1, LeftBehindFacts DEF LoopInv, TypeOK
  <2>2. CASE ~WriteTimeout(c)
    BY <2>2 DEF LoopInv, TypeOK, WriteOK, WriteFail, DeleteIgnored
  <2> QED BY <2>1, <2>2
<1>6. /\ at' = [at EXCEPT ![c] = @ + 1] /\ pc' = [pc EXCEPT ![c] = "probe"]
      /\ UNCHANGED <<setup, req, got, result, skipped, alone, acked>>
  BY DEF WriteOK, WriteFail, WriteTimeout, DeleteIgnored, GoOn, history
<1>7. /\ wrote' \in {wrote, [wrote EXCEPT ![c] = @ + 1]}
      /\ err' \in [Clients -> BOOLEAN]
  BY DEF WriteOK, WriteFail, WriteTimeout, DeleteIgnored, LoopInv, TypeOK
<1>8. TypeOK'
  BY <1>1, <1>4, <1>5, <1>6, <1>7, Positions DEF LoopInv, TypeOK, Chain
<1> QED BY <1>1, <1>3, <1>4, <1>5, <1>6, <1>7, <1>8, LocalLoop DEF LoopInv, TypeOK

\* A read, whatever comes of it.
LEMMA ReadLoop ==
    ASSUME LoopInv, NEW c \in Clients,
           ReadOK(c) \/ StatOK(c) \/ BodyOK(c) \/ ReadMistaken(c) \/ ReadFail(c)
    PROVE  LoopInv'
<1>1. InLoop(c)
  BY DEF ReadOK, StatOK, BodyOK, ReadMistaken, ReadFail
<1>2. IsRead(req[c])
  BY DEF ReadOK, StatOK, BodyOK, ReadMistaken, ReadFail, LoopInv, Loop
<1>7. Whole'
  BY DEF LoopInv, Whole, ReadOK, StatOK, BodyOK, ReadMistaken, ReadFail, Answered
<1>3. CASE StatOK(c)
  <2>1. TypeOK'
    BY <1>3 DEF LoopInv, TypeOK, StatOK, history, Chain
  <2> QED BY <1>1, <1>2, <1>3, <2>1, <1>7, LocalLoop DEF LoopInv, TypeOK, StatOK
<1>4. CASE \E v \in Contents : Answered(c, v)
  <2>1. TypeOK'
    BY <1>1, <1>4, Positions DEF LoopInv, TypeOK, Answered, Leave, history, Chain
  <2> QED BY <1>1, <1>2, <1>4, <2>1, <1>7, LocalLoop DEF LoopInv, TypeOK, Answered, Leave
<1>5. CASE ReadFail(c)
  <2>1. TypeOK'
    BY <1>1, <1>5, Positions DEF LoopInv, TypeOK, ReadFail, Leave, history, Chain
  <2> QED BY <1>1, <1>2, <1>5, <2>1, <1>7, LocalLoop DEF LoopInv, TypeOK, ReadFail, Leave
<1>6. content[Here(c)][req[c].key] \in Contents /\ Absent \in Contents
  BY <1>1, Positions, RequestFields DEF LoopInv, TypeOK, Contents
<1> QED BY <1>3, <1>4, <1>5, <1>6 DEF ReadOK, BodyOK, ReadMistaken

\* A command ends.
LEMMA EndLoop ==
    ASSUME LoopInv, NEW c \in Clients, NEW res \in Results \ {"running"}, Running(c),
           End(c, res), content' = content, late' \in SUBSET LateWrites,
           \A w \in late' : w \in late \/ Remote(w)
    PROVE  LoopInv'
<1> USE DEF LoopInv, End
<1>1. Len(Chain) \in Nat /\ Len(Chain) >= 1
  BY ChainFacts DEF TypeOK
<1>2. acked' \in [Clients -> Requests \cup {NoRequest}]
      /\ skipped' \in [Clients -> SUBSET Kinds]
      /\ alone' \in [Clients -> BOOLEAN]
  BY DEF TypeOK
<1>3. TypeOK'
  BY <1>1, <1>2 DEF TypeOK, Contents, Chain
<1>4. Loop'
  BY DEF TypeOK, Loop, Running, IsRead
<1>5. ReadsFirst'
  BY DEF TypeOK, ReadsFirst, FirstIsStable, Chain, Stable, Running, IsRead
<1>6. LateRemote' /\ Whole'
  BY DEF LateRemote, Whole
<1> QED BY <1>3, <1>4, <1>5, <1>6

\* A write arrives late.
LEMMA ArriveLoop ==
    ASSUME LoopInv, NEW w \in late, Arrive(w)
    PROVE  LoopInv'
<1>1. w.b \in Kinds /\ w.key \in Keys /\ w.val \in Contents
  BY DEF LoopInv, TypeOK, LateWrites, Contents
<1>2. content' \in [Kinds -> [Keys -> Contents]] /\ Whole'
  BY <1>1, StoredType DEF LoopInv, LateRemote, Remote, Arrive
<1>3. TypeOK'
  BY <1>2 DEF LoopInv, TypeOK, Arrive, locals, history, Chain
<1>4. Loop' /\ ReadsFirst' /\ LateRemote'
  BY DEF LoopInv, Loop, ReadsFirst, LateRemote, FirstIsStable, Chain, Stable, Running,
     IsRead, Arrive, locals
<1> QED BY <1>2, <1>3, <1>4 DEF LoopInv

\* Every step.
LEMMA LoopStep == LoopInv /\ [Next]_vars => LoopInv'
<1> SUFFICES ASSUME LoopInv, [Next]_vars PROVE LoopInv'
  OBVIOUS
<1>1. CASE UNCHANGED vars
  BY <1>1 DEF LoopInv, TypeOK, Loop, ReadsFirst, LateRemote, Whole, FirstIsStable, Chain,
     Stable, Running, IsRead, vars, locals, history
<1>2. CASE \E c \in Clients : \E r \in Requests : Begin(c, r)
  BY <1>2, BeginLoop
<1>3. ASSUME NEW c \in Clients, Step(c) PROVE LoopInv'
  <2>1. CASE Return(c)
    BY <2>1, EndLoop, Outcomes DEF Return, LoopInv, TypeOK
  <2>2. CASE Kill(c)
    <3>1. late' \in SUBSET LateWrites /\ \A w \in late' : w \in late \/ Remote(w)
      <4>1. CASE late' = late
        BY <4>1 DEF LoopInv, TypeOK
      <4>2. CASE late' # late
        <5>1. InLoop(c) /\ Here(c) # "local" /\ LeftBehind(c)
          BY <2>2, <4>2 DEF Kill
        <5> QED BY <5>1, LeftBehindFacts DEF LoopInv, TypeOK
      <4> QED BY <4>1, <4>2
    <3> QED BY <2>2, <3>1, EndLoop DEF Kill, Results
  <2> QED BY <1>3, <2>1, <2>2, ProbeLoop, WriteLoop, ReadLoop DEF Step
<1>4. CASE \E w \in late : Arrive(w)
  BY <1>4, ArriveLoop
<1> QED BY <1>1, <1>2, <1>3, <1>4 DEF Next

\* Type correctness: commands stay inside the chain and count what they did, whatever
\* the backends answer.
THEOREM ChainTypeCorrect == Spec => []TypeOK
<1>1. LoopInv => TypeOK
  BY DEF LoopInv
<1> QED BY <1>1, LoopInit, LoopStep, PTL DEF Spec

-----------------------------------------------------------------------------
(* The chain implements one store.                                         *)

\* The initial states.
LEMMA SeenInit == Init => Seen!Init
<1> SUFFICES ASSUME Init PROVE Seen!Init
  OBVIOUS
<1>1. Chain[1] \in Kinds
  BY ChainFacts DEF Init
<1>2. content[Chain[1]] = [k \in Keys |-> Absent]
  BY <1>1 DEF Init
<1>3. {c \in Clients : at[c] > 1} = {}
  BY DEF Init
<1>4. [c \in Clients |-> Reply(result[c])] = [c \in Clients |-> "none"]
  BY DEF Init, Reply
<1>5. Strays = {}
  BY DEF Init, Strays
<1> QED BY <1>2, <1>3, <1>4, <1>5 DEF Init, Seen!Init

\* A step that is not on the first backend, and neither begins nor ends a command,
\* does not show.
LEMMA SeenStutter ==
    ASSUME LoopInv, NEW c \in Clients,
           UNCHANGED <<setup, req, got, result>>,
           content'[Chain[1]] = content[Chain[1]], Strays' = Strays,
           at' = [at EXCEPT ![c] = at'[c]],
           at'[c] > 1 <=> at[c] > 1
    PROVE  UNCHANGED Seen!vars
<1>1. \A d \in Clients : at'[d] > 1 <=> at[d] > 1
  BY DEF LoopInv, TypeOK
<1>2. {d \in Clients : at[d] > 1}' = {d \in Clients : at[d] > 1}
  BY <1>1
<1>3. content[Chain[1]]' = content[Chain[1]]
  BY DEF Chain
<1>4. [d \in Clients |-> Reply(result[d])]' = [d \in Clients |-> Reply(result[d])]
  OBVIOUS
<1> QED BY <1>2, <1>3, <1>4 DEF Seen!vars

\* A command passes the first backend.
LEMMA SeenPast ==
    ASSUME LoopInv, NEW c \in Clients, at[c] = 1,
           at' = [at EXCEPT ![c] = at'[c]], at'[c] > 1
    PROVE  {d \in Clients : at'[d] > 1}
             = {d \in Clients : at[d] > 1} \cup {c}
BY DEF LoopInv, TypeOK

\* What the caller makes of the result of one command does not depend on the others.
LEMMA SeenReply ==
    ASSUME LoopInv, NEW c \in Clients, NEW res, result' = [result EXCEPT ![c] = res]
    PROVE  [d \in Clients |-> Reply(result'[d])]
             = [[d \in Clients |-> Reply(result[d])] EXCEPT ![c] = Reply(res)]
BY DEF LoopInv, TypeOK

\* Running commands look so to the caller, and only they do.
LEMMA SeenRunning ==
    ASSUME LoopInv, NEW c \in Clients
    PROVE  Reply(result[c]) = "running" <=> Running(c)
BY DEF LoopInv, TypeOK, Reply, Running, Results

\* A command begins.
LEMMA SeenBegin ==
    ASSUME LoopInv, NEW c \in Clients, NEW r \in Requests, Begin(c, r)
    PROVE  Seen!Next
<1>1. [d \in Clients |-> Reply(result'[d])]
        = [[d \in Clients |-> Reply(result[d])] EXCEPT ![c] = "running"]
  BY SeenReply DEF Begin, Reply
<1>2. Reply(result[c]) # "running"
  BY SeenRunning DEF Begin
<1>3. Seen!Call(c, r)
  BY <1>1, <1>2 DEF Begin, Seen!Call, Chain, Strays
<1> QED BY <1>3 DEF Seen!Next

\* A command ends; one that reports success has been past the first backend, and one
\* that was killed inside a call of it may leave a write behind.
LEMMA SeenEnd ==
    ASSUME LoopInv, NEW c \in Clients, Return(c) \/ Kill(c)
    PROVE  Seen!Next
<1>1. PICK res \in Results : /\ Running(c) /\ End(c, res)
                             /\ Reply(res) \in {"ok", "error"}
                             /\ Reply(res) = "ok" => at[c] = Len(Chain) + 1
                             /\ late' # late => Reply(res) = "error"
  BY Outcomes DEF Return, Kill, Reply, Results
<1>2. Len(Chain) \in Nat /\ Len(Chain) >= 1
  BY ChainFacts DEF LoopInv, TypeOK
<1>3. [d \in Clients |-> Reply(result'[d])]
        = [[d \in Clients |-> Reply(result[d])] EXCEPT ![c] = Reply(res)]
  BY <1>1, SeenReply DEF End
<1>4. {d \in Clients : at'[d] > 1}
        = {d \in Clients : at[d] > 1} \ {c}
  BY <1>1 DEF End, LoopInv, TypeOK
<1>5. Reply(res) = "ok" => at[c] > 1
  BY <1>1, <1>2
<1>6. Reply(result[c]) = "running"
  BY <1>1, SeenRunning
<1>7. UNCHANGED <<Chain, content>>
  BY <1>1 DEF End, Return, Kill, Chain
<1>8. \/ Strays' = Strays
      \/ Reply(res) = "error" /\ Seen!GiveUp(c)
  <2>1. CASE late' = late
    BY <1>7, <2>1 DEF Strays
  <2>2. CASE late' # late
    <3>1. InLoop(c) /\ ~IsRead(req[c]) /\ Here(c) # "local" /\ LeftBehind(c)
      BY <2>2 DEF Kill, Return
    <3>2. PICK w \in LateWrites : /\ late' = late \cup {w}
                                  /\ w.b = Here(c) /\ w.key = req[c].key
                                  /\ w.val \in Effects(Here(c), req[c])
      BY <3>1, LeftBehindFacts
    <3>3. at[c] \in 1..Len(Chain) /\ \A i, j \in 1..Len(Chain) : Chain[i] = Chain[j] => i = j
      BY <3>1, Positions, ChainFacts DEF LoopInv, TypeOK
    <3>4. CASE at[c] = 1
      <4>1. Strays' = Strays \cup {w}
        BY <1>7, <3>2, <3>4 DEF Strays, Here
      <4>2. w.val \in Seen!Remains(req[c])
        BY <3>2 DEF Effects, Seen!Remains
      <4>3. Seen!GiveUp(c)
        BY <3>1, <3>2, <3>4, <4>1, <4>2 DEF Seen!GiveUp, Seen!Reads, IsRead
      <4> QED BY <1>1, <2>2, <4>3
    <3>5. CASE at[c] # 1
      <4>1. w.b # Chain[1]
        BY <1>2, <3>2, <3>3, <3>5 DEF Here
      <4>2. Strays' = Strays
        BY <1>7, <3>2, <4>1 DEF Strays
      <4> QED BY <4>2
    <3> QED BY <3>4, <3>5
  <2> QED BY <2>1, <2>2
<1>9. Seen!Return(c, Reply(res))
  BY <1>1, <1>3, <1>4, <1>5, <1>6, <1>7, <1>8 DEF End, Seen!Return
<1> QED BY <1>1, <1>9 DEF Seen!Next

\* A write: on the first backend it takes effect, further down it does not show.
LEMMA SeenWrite ==
    ASSUME LoopInv, FirstIsStable, NEW c \in Clients,
           WriteOK(c) \/ WriteFail(c) \/ WriteTimeout(c) \/ DeleteIgnored(c)
    PROVE  Seen!Next \/ UNCHANGED Seen!vars
<1>1. InLoop(c) /\ ~IsRead(req[c])
  BY DEF WriteOK, WriteFail, WriteTimeout, DeleteIgnored, IsRead
<1>2. /\ at[c] \in 1..Len(Chain) /\ Here(c) \in Kinds /\ req[c] \in Requests
      /\ Len(Chain) \in Nat
      /\ \A i, j \in 1..Len(Chain) : Chain[i] = Chain[j] => i = j
  BY <1>1, Positions, ChainFacts DEF LoopInv, TypeOK
<1>3. /\ at' = [at EXCEPT ![c] = @ + 1]
      /\ at'[c] = at[c] + 1
      /\ UNCHANGED <<setup, req, got, result>>
  BY DEF WriteOK, WriteFail, WriteTimeout, DeleteIgnored, GoOn, LoopInv, TypeOK
<1>4. CASE at[c] = 1
  <2>1. WriteOK(c)
    BY <1>4 DEF WriteFail, WriteTimeout, DeleteIgnored, Flaky, Here, FirstIsStable
  <2>2. content'[Chain[1]] = [content[Chain[1]] EXCEPT ![req[c].key] = req[c].val]
    BY <1>2, <1>4, <2>1 DEF WriteOK, Stored, Here, LoopInv, TypeOK
  <2>3. {d \in Clients : at'[d] > 1}
          = {d \in Clients : at[d] > 1} \cup {c}
    BY <1>3, <1>4, SeenPast
  <2>4. Reply(result[c]) = "running" /\ ~(at[c] > 1)
    BY <1>1, <1>4, SeenRunning DEF InLoop
  <2>5. Seen!Write(c)
    BY <1>1, <1>3, <2>1, <2>2, <2>3, <2>4 DEF WriteOK, Seen!Write, Seen!Reads, IsRead, Chain, Strays
  <2> QED BY <2>5 DEF Seen!Next
<1>5. CASE at[c] # 1
  <2>1. Here(c) # Chain[1]
    BY <1>2, <1>5 DEF Here
  <2>2. \A k, v : Stored(Here(c), k, v)[Chain[1]] = content[Chain[1]]
    <3>1. Chain[1] \in Kinds
      BY <1>2, ChainFacts DEF LoopInv, TypeOK
    <3> QED BY <1>2, <2>1, <3>1 DEF Stored, LoopInv, TypeOK
  <2>3. content'[Chain[1]] = content[Chain[1]]
    BY <2>2 DEF WriteOK, WriteFail, WriteTimeout, DeleteIgnored
  <2>4. at' = [at EXCEPT ![c] = at'[c]] /\ (at'[c] > 1 <=> at[c] > 1)
    BY <1>2, <1>3, <1>5 DEF LoopInv, TypeOK
  <2>5. Strays' = Strays
    <3>1. CASE WriteTimeout(c)
      <4>1. Here(c) # "local" /\ LeftBehind(c)
        BY <3>1 DEF WriteTimeout
      <4>2. PICK w \in LateWrites : late' = late \cup {w} /\ w.b = Here(c)
        BY <1>1, <4>1, LeftBehindFacts
      <4> QED BY <1>3, <2>1, <4>2 DEF Strays, Chain
    <3>2. CASE ~WriteTimeout(c)
      BY <1>3, <3>2 DEF WriteOK, WriteFail, DeleteIgnored, Strays, Chain
    <3> QED BY <3>1, <3>2
  <2> QED BY <1>3, <2>3, <2>4, <2>5, SeenStutter
<1> QED BY <1>4, <1>5

\* A read is answered by the first backend.
LEMMA SeenRead ==
    ASSUME LoopInv, FirstIsStable, NEW c \in Clients,
           ReadOK(c) \/ StatOK(c) \/ BodyOK(c) \/ ReadMistaken(c) \/ ReadFail(c)
    PROVE  Seen!Next \/ UNCHANGED Seen!vars
<1>1. InLoop(c) /\ IsRead(req[c])
  BY DEF ReadOK, StatOK, BodyOK, ReadMistaken, ReadFail, LoopInv, Loop
<1>2. at[c] \in 1..Len(Chain) /\ Len(Chain) \in Nat
  BY <1>1, Positions, ChainFacts DEF LoopInv, TypeOK
<1>3. at[c] = 1
  BY <1>1, <1>2 DEF LoopInv, ReadsFirst, InLoop
<1>4. Here(c) = Chain[1] /\ ~Flaky(c)
  BY <1>3 DEF Here, Flaky, FirstIsStable
<1>5. CASE StatOK(c)
  <2>1. at' = [at EXCEPT ![c] = at'[c]]
    BY <1>5 DEF StatOK, LoopInv, TypeOK
  <2> QED BY <1>5, <2>1, SeenStutter DEF StatOK, Strays, Chain
<1>6. CASE Answered(c, content[Chain[1]][req[c].key])
  <2>1. /\ at' = [at EXCEPT ![c] = Len(Chain) + 1] /\ at'[c] = Len(Chain) + 1
    BY <1>6 DEF Answered, Leave, LoopInv, TypeOK
  <2>2. {d \in Clients : at'[d] > 1}
          = {d \in Clients : at[d] > 1} \cup {c}
    BY <1>2, <1>3, <2>1, SeenPast
  <2>3. Reply(result[c]) = "running" /\ ~(at[c] > 1)
    BY <1>1, <1>3, SeenRunning DEF InLoop
  <2>4. Seen!Read(c)
    BY <1>1, <1>6, <2>2, <2>3 DEF Answered, Seen!Read, Seen!Reads, IsRead, Chain, Strays
  <2> QED BY <2>4 DEF Seen!Next
<1> QED BY <1>4, <1>5, <1>6 DEF ReadOK, BodyOK, ReadMistaken, ReadFail

\* Every step is a step of the store, or does not show.
LEMMA SeenStep ==
    ASSUME LoopInv, FirstIsStable, [Next]_vars
    PROVE  Seen!Next \/ UNCHANGED Seen!vars
<1>1. CASE UNCHANGED vars
  BY <1>1 DEF vars, locals, Seen!vars, Chain, Strays
<1>2. CASE \E c \in Clients : \E r \in Requests : Begin(c, r)
  BY <1>2, SeenBegin
<1>3. ASSUME NEW c \in Clients, Step(c)
      PROVE  Seen!Next \/ UNCHANGED Seen!vars
  <2>1. CASE Unavailable(c) \/ Available(c)
    <3>1. InLoop(c)
      BY <2>1 DEF Unavailable, Available
    <3>2. at[c] \in Nat /\ at[c] >= 1
      BY <3>1, Positions DEF LoopInv, TypeOK
    <3>3. Unavailable(c) => at[c] > 1
      BY <3>2 DEF Unavailable, Flaky, Here, FirstIsStable
    <3>4. at' = [at EXCEPT ![c] = at'[c]] /\ (at'[c] > 1 <=> at[c] > 1)
      BY <2>1, <3>2, <3>3 DEF Unavailable, Available, GoOn, LoopInv, TypeOK
    <3>5. UNCHANGED <<setup, req, got, result, content, Strays>>
      BY <2>1 DEF Unavailable, Available, Strays, Chain
    <3> QED BY <3>4, <3>5, SeenStutter
  <2> QED BY <1>3, <2>1, SeenWrite, SeenRead, SeenEnd DEF Step
<1>4. CASE \E w \in late : Arrive(w)
  <2>1. PICK w \in late : Arrive(w)
    BY <1>4
  <2>2. /\ w.b \in Kinds /\ Chain[1] \in Kinds
        /\ UNCHANGED <<setup, req, at, got, result>>
    BY <2>1, ChainFacts DEF LoopInv, TypeOK, LateWrites, Arrive, locals
  <2>3. CASE w.b = Chain[1]
    <3>1. /\ content'[Chain[1]] = [content[Chain[1]] EXCEPT ![w.key] = w.val]
          /\ w \in Strays /\ Strays' = Strays \ {w}
      BY <2>1, <2>2, <2>3 DEF Arrive, Stored, Strays, Chain, LoopInv, TypeOK
    <3>2. Seen!Straggle(w)
      BY <2>2, <3>1 DEF Seen!Straggle, Chain
    <3> QED BY <3>1, <3>2 DEF Seen!Next
  <2>4. CASE w.b # Chain[1]
    <3>1. content'[Chain[1]] = content[Chain[1]] /\ Strays' = Strays
      BY <2>1, <2>2, <2>4 DEF Arrive, Stored, Strays, Chain, LoopInv, TypeOK
    <3> QED BY <2>2, <3>1 DEF Seen!vars, Chain
  <2> QED BY <2>3, <2>4
<1> QED BY <1>1, <1>2, <1>3, <1>4 DEF Next

\* Chain.Put, Delete, Get and Stat over a chain whose first backend is stable implement
\* one key-value store, whatever fails behind it, however commands overlap and wherever
\* they are killed: a write killed inside a call of that backend comes through once, in
\* IPFS perhaps in part, or never, and with the disk first at once or never.
THEOREM ChainIsOneStore == Spec => OneStore
<1>1. Init => (FirstIsStable => Seen!Init)
  BY SeenInit
<1>2. LoopInv /\ [Next]_vars => [FirstIsStable => Seen!Next]_(Seen!vars)
  BY SeenStep
<1>3. LoopInv => FirstIsAtomic
  <2> SUFFICES ASSUME LoopInv PROVE FirstIsAtomic
    OBVIOUS
  <2>1. Chain[1] \in Kinds
    BY ChainFacts DEF LoopInv, TypeOK
  <2> QED BY <2>1 DEF LoopInv, LateRemote, Remote, Whole, FirstIsAtomic, Strays
<1> QED BY <1>1, <1>2, <1>3, LoopInit, LoopStep, PTL DEF Spec, OneStore

-----------------------------------------------------------------------------
(* What was acknowledged is mirrored.                                      *)

\* The backend b agrees with the write r, or is an IPFS node that hid a failure.
Agrees(b, r) ==
    \/ content[b][r.key] = r.val
    \/ b = "ipfs" /\ b \notin Stable /\ r.op = "delete"

\* A write that runs alone has its effect on every backend it has been to.
Mirror ==
    \A c \in Clients : Running(c) /\ ~IsRead(req[c]) /\ alone[c] =>
        /\ \A o \in Clients \ {c} : ~Writing(o, req[c].key)
        /\ ~err[c] => /\ \A w \in late : w.key # req[c].key
                     /\ \A i \in 1..(at[c] - 1) :
                            Chain[i] \in skipped[c] \/ Agrees(Chain[i], req[c])

\* After it returned, nothing is under way that could undo it.
Kept ==
    \A c \in Clients : acked[c] # NoRequest =>
        /\ ~Running(c)
        /\ \A o \in Clients : ~Writing(o, acked[c].key)
        /\ \A w \in late : w.key # acked[c].key
        /\ \A i \in 1..Len(Chain) :
              Chain[i] \in skipped[c] \/ Agrees(Chain[i], acked[c])

MirrorInv == LoopInv /\ Mirror /\ Kept

\* A step that changes neither the backends nor the writes under way.
LEMMA MirrorQuiet ==
    ASSUME MirrorInv, UNCHANGED <<setup, content, late, req, result, skipped, alone, acked>>,
           NEW c \in Clients,
           \A d \in Clients \ {c} : at'[d] = at[d] /\ err'[d] = err[d],
           IsRead(req[c]) \/ (at'[c] = at[c] /\ err'[c] = err[c])
    PROVE  Mirror' /\ Kept'
<1>1. Mirror'
  BY DEF MirrorInv, Mirror, Running, Writing, IsRead, Agrees, Chain, Stable
<1>2. Kept'
  BY DEF MirrorInv, Kept, Running, Writing, IsRead, Agrees, Chain, Stable
<1> QED BY <1>1, <1>2

\* A write of one key leaves the others alone.
LEMMA StoredFrame ==
    ASSUME TypeOK, NEW b \in Kinds, NEW k \in Keys, NEW v
    PROVE  /\ \A b2 \in Kinds : \A k2 \in Keys \ {k} : Stored(b, k, v)[b2][k2] = content[b2][k2]
           /\ \A b2 \in Kinds \ {b} : Stored(b, k, v)[b2] = content[b2]
           /\ Stored(b, k, v)[b][k] = v
BY DEF TypeOK, Stored

\* A command begins.
LEMMA MirrorBegin ==
    ASSUME MirrorInv, NEW c \in Clients, NEW r \in Requests, Begin(c, r)
    PROVE  Mirror' /\ Kept'
<1>1. at[c] = 1 /\ ~Running(c)
  BY DEF MirrorInv, LoopInv, Loop, Begin
<1>2. /\ req' = [req EXCEPT ![c] = r] /\ result' = [result EXCEPT ![c] = "running"]
      /\ req'[c] = r /\ \A d \in Clients \ {c} : req'[d] = req[d] /\ result'[d] = result[d]
      /\ Running(c)'
      /\ \A d \in Clients \ {c} : skipped'[d] = skipped[d]
      /\ UNCHANGED <<setup, content, late, at, err>>
  BY DEF Begin, MirrorInv, LoopInv, TypeOK, Running
<1>3. \A k : Writing(c, k)' <=> ~IsRead(r) /\ r.key = k
  BY <1>2 DEF Writing, IsRead
<1>4. Mirror'
  <2> SUFFICES ASSUME NEW d \in Clients, Running(d)', ~IsRead(req'[d]), alone'[d]
               PROVE  /\ \A o \in Clients \ {d} : ~Writing(o, req[d].key)'
                      /\ ~err[d] => /\ \A w \in late : w.key # req'[d].key
                                   /\ \A i \in 1..(at[d] - 1) :
                                        \/ Chain[i] \in skipped'[d]
                                        \/ Agrees(Chain[i], req[d])'
    BY <1>2 DEF Mirror, IsRead, Chain
  <2>1. CASE d = c
    <3>1. /\ \A o \in Clients \ {c} : ~Writing(o, r.key)
          /\ \A w \in late : w.key # r.key
      BY <2>1 DEF Begin
    <3>2. \A o \in Clients \ {c} : ~Writing(o, req[c].key)'
      BY <1>2, <3>1 DEF Writing, Running, IsRead
    <3> QED BY <1>1, <1>2, <2>1, <3>1, <3>2
  <2>2. CASE d # c
    <3>1. alone[d] /\ ~(Writing(d, r.key) /\ ~IsRead(r))
      BY <2>2 DEF Begin
    <3>2. Running(d) /\ ~IsRead(req[d]) /\ req'[d] = req[d]
      BY <1>2, <2>2 DEF Running
    <3>3. ~Writing(c, req[d].key)'
      BY <1>3, <3>1, <3>2 DEF Writing
    <3>4. \A o \in Clients \ {d} : ~Writing(o, req[d].key)'
      <4> SUFFICES ASSUME NEW o \in Clients \ {d, c} PROVE ~Writing(o, req[d].key)'
        BY <3>3
      <4>1. ~Writing(o, req[d].key)
        BY <3>1, <3>2 DEF MirrorInv, Mirror
      <4> QED BY <1>2, <3>2, <4>1 DEF Writing, Running, IsRead
    <3>5. ~err[d] => /\ \A w \in late : w.key # req[d].key
                     /\ \A i \in 1..(at[d] - 1) :
                          Chain[i] \in skipped[d] \/ Agrees(Chain[i], req[d])
      BY <3>1, <3>2 DEF MirrorInv, Mirror
    <3> QED BY <1>2, <2>2, <3>2, <3>4, <3>5 DEF Agrees, Chain, Stable
  <2> QED BY <2>1, <2>2
<1>5. Kept'
  <2> SUFFICES ASSUME NEW d \in Clients, acked'[d] # NoRequest
               PROVE  /\ ~Running(d)'
                      /\ \A o \in Clients : ~Writing(o, acked[d].key)'
                      /\ \A w \in late : w.key # acked'[d].key
                      /\ \A i \in 1..Len(Chain) :
                            Chain[i] \in skipped'[d] \/ Agrees(Chain[i], acked[d])'
    BY <1>2 DEF Kept, Chain
  <2>1. d # c /\ acked'[d] = acked[d] /\ (IsRead(r) \/ acked[d].key # r.key)
    BY DEF Begin
  <2>2. /\ ~Running(d)
        /\ \A o \in Clients : ~Writing(o, acked[d].key)
        /\ \A w \in late : w.key # acked[d].key
        /\ \A i \in 1..Len(Chain) : Chain[i] \in skipped[d] \/ Agrees(Chain[i], acked[d])
    BY <2>1 DEF MirrorInv, Kept
  <2>3. \A o \in Clients : ~Writing(o, acked[d].key)'
    BY <1>2, <2>1, <2>2 DEF Writing, Running, IsRead
  <2>4. \A i \in 1..Len(Chain) : Chain[i] \in skipped'[d] \/ Agrees(Chain[i], acked[d])'
    BY <1>2, <2>1, <2>2 DEF Agrees, Chain, Stable
  <2> QED BY <1>2, <2>1, <2>2, <2>3, <2>4 DEF Running
<1> QED BY <1>4, <1>5

\* A write by another command, or a late one, is of another key.
LEMMA MirrorOther ==
    ASSUME MirrorInv, NEW k \in Keys, NEW X \in SUBSET Clients,
           UNCHANGED <<setup, req, result, alone, acked, skipped>>,
           \A b \in Kinds : \A k2 \in Keys \ {k} : content'[b][k2] = content[b][k2],
           \A w \in late' : w \in late \/ w.key = k,
           \A d \in Clients \ X : at'[d] = at[d] /\ err'[d] = err[d],
           \A d \in Clients \ X : Running(d) /\ ~IsRead(req[d]) /\ alone[d] /\ ~err[d]
                                    => req[d].key # k,
           \A d \in Clients : acked[d] # NoRequest => acked[d].key # k
    PROVE  /\ Kept'
           /\ \A d \in Clients \ X :
                Running(d) /\ ~IsRead(req[d]) /\ alone[d] =>
                  /\ \A o \in Clients \ {d} : ~Writing(o, req[d].key)'
                  /\ ~err'[d] => /\ \A w \in late' : w.key # req[d].key
                                /\ \A i \in 1..(at'[d] - 1) :
                                     \/ Chain[i] \in skipped[d]
                                     \/ Agrees(Chain[i], req[d])'
<1>1. \A i \in 1..Len(Chain) : Chain[i] \in Kinds
  BY ChainFacts DEF MirrorInv, LoopInv, TypeOK
<1>2. \A i \in 1..Len(Chain) : \A q \in Requests :
         q.key # k /\ Agrees(Chain[i], q) => Agrees(Chain[i], q)'
  BY <1>1, RequestFields DEF Agrees, Chain, Stable
<1>3. \A o \in Clients : \A key : Writing(o, key)' <=> Writing(o, key)
  BY DEF Writing, Running, IsRead
<1>4. Kept'
  <2> SUFFICES ASSUME NEW d \in Clients, acked[d] # NoRequest
               PROVE  /\ ~Running(d)
                      /\ \A o \in Clients : ~Writing(o, acked[d].key)'
                      /\ \A w \in late' : w.key # acked[d].key
                      /\ \A i \in 1..Len(Chain) :
                            Chain[i] \in skipped[d] \/ Agrees(Chain[i], acked[d])'
    BY DEF Kept, Chain, Running
  <2>1. acked[d] \in Requests
    BY DEF MirrorInv, LoopInv, TypeOK
  <2> QED BY <1>2, <1>3, <2>1 DEF MirrorInv, Kept
<1>5. ASSUME NEW d \in Clients \ X, Running(d), ~IsRead(req[d]), alone[d]
      PROVE  /\ \A o \in Clients \ {d} : ~Writing(o, req[d].key)'
             /\ ~err'[d] => /\ \A w \in late' : w.key # req[d].key
                           /\ \A i \in 1..(at'[d] - 1) :
                                \/ Chain[i] \in skipped[d]
                                \/ Agrees(Chain[i], req[d])'
  <2>1. req[d] \in Requests
    BY <1>5 DEF MirrorInv, LoopInv, TypeOK, Loop
  <2>2. \A i \in 1..(at[d] - 1) : i \in 1..Len(Chain)
    <3>1. Len(Chain) \in Nat /\ at[d] \in 1..(Len(Chain) + 1)
      BY ChainFacts DEF MirrorInv, LoopInv, TypeOK
    <3> QED BY <3>1
  <2> QED BY <1>2, <1>3, <1>5, <2>1, <2>2 DEF MirrorInv, Mirror
<1> QED BY <1>4, <1>5

\* A write, whatever comes of it.
LEMMA MirrorWrite ==
    ASSUME MirrorInv, NEW c \in Clients,
           WriteOK(c) \/ WriteFail(c) \/ WriteTimeout(c) \/ DeleteIgnored(c)
    PROVE  Mirror' /\ Kept'
<1> DEFINE r == req[c]
           b == Here(c)
<1>1. InLoop(c) /\ Running(c) /\ ~IsRead(r)
  BY DEF WriteOK, WriteFail, WriteTimeout, DeleteIgnored, IsRead, InLoop
<1>2. /\ r \in Requests /\ r.key \in Keys /\ b \in Kinds
      /\ at[c] \in 1..Len(Chain) /\ TypeOK /\ Len(Chain) \in Nat
      /\ \A i \in 1..Len(Chain) : Chain[i] \in Kinds
      /\ \A i, j \in 1..Len(Chain) : Chain[i] = Chain[j] => i = j
  BY <1>1, Positions, RequestFields, ChainFacts DEF MirrorInv, LoopInv, TypeOK
<1>3. /\ at' = [at EXCEPT ![c] = @ + 1]
      /\ UNCHANGED <<setup, req, result, skipped, alone, acked>>
  BY DEF WriteOK, WriteFail, WriteTimeout, DeleteIgnored, GoOn, history
<1>4. content' = content \/ \E v : content' = Stored(b, r.key, v)
  BY DEF WriteOK, WriteFail, WriteTimeout, DeleteIgnored
<1>5. \A b2 \in Kinds : \A k2 \in Keys \ {r.key} : content'[b2][k2] = content[b2][k2]
  BY <1>2, <1>4, StoredFrame
<1>6. \A w \in late' : w \in late \/ w.key = r.key
  <2>1. CASE WriteTimeout(c)
    BY <1>1, <2>1, LeftBehindFacts DEF WriteTimeout, MirrorInv
  <2>2. CASE ~WriteTimeout(c)
    BY <2>2 DEF WriteOK, WriteFail, DeleteIgnored
  <2> QED BY <2>1, <2>2
<1>7. \A d \in Clients \ {c} : at'[d] = at[d] /\ err'[d] = err[d]
  BY <1>2, <1>3 DEF WriteOK, WriteFail, WriteTimeout, DeleteIgnored, TypeOK
<1>8. Writing(c, r.key)
  BY <1>1 DEF Writing
<1>9. \A d \in Clients : acked[d] # NoRequest => acked[d].key # r.key
  BY <1>8 DEF MirrorInv, Kept
<1>10. \A d \in Clients \ {c} : Running(d) /\ ~IsRead(req[d]) /\ alone[d] => req[d].key # r.key
  BY <1>8 DEF MirrorInv, Mirror
<1>11. /\ Kept'
       /\ \A d \in Clients \ {c} :
            Running(d) /\ ~IsRead(req[d]) /\ alone[d] =>
              /\ \A o \in Clients \ {d} : ~Writing(o, req[d].key)'
              /\ ~err'[d] => /\ \A w \in late' : w.key # req[d].key
                            /\ \A i \in 1..(at'[d] - 1) :
                                 \/ Chain[i] \in skipped[d]
                                 \/ Agrees(Chain[i], req[d])'
  <2>1. {c} \in SUBSET Clients
    OBVIOUS
  <2> HIDE DEF r, b
  <2> QED BY <2>1, <1>2, <1>3, <1>5, <1>6, <1>7, <1>9, <1>10, MirrorOther
<1>12. ASSUME alone[c]
       PROVE  /\ \A o \in Clients \ {c} : ~Writing(o, req[c].key)'
              /\ ~err'[c] => /\ \A w \in late' : w.key # req[c].key
                            /\ \A i \in 1..(at'[c] - 1) :
                                 \/ Chain[i] \in skipped[c]
                                 \/ Agrees(Chain[i], req[c])'
  <2>1. \A o \in Clients \ {c} : ~Writing(o, req[c].key)'
    BY <1>1, <1>3, <1>12 DEF MirrorInv, Mirror, Writing, Running, IsRead
  <2>2. ASSUME ~err'[c]
        PROVE  /\ \A w \in late' : w.key # req[c].key
               /\ \A i \in 1..(at'[c] - 1) :
                    Chain[i] \in skipped[c] \/ Agrees(Chain[i], req[c])'
    <3>1. (WriteOK(c) \/ DeleteIgnored(c)) /\ ~err[c] /\ late' = late
      BY <1>2, <2>2 DEF WriteOK, WriteFail, WriteTimeout, DeleteIgnored, TypeOK
    <3>2. /\ \A w \in late : w.key # req[c].key
          /\ \A i \in 1..(at[c] - 1) : Chain[i] \in skipped[c] \/ Agrees(Chain[i], req[c])
      BY <1>1, <1>12, <3>1 DEF MirrorInv, Mirror
    <3>3. content'[b][r.key] = r.val \/ (b = "ipfs" /\ b \notin Stable /\ r.op = "delete")
      <4>1. CASE WriteOK(c)
        BY <1>2, <4>1, StoredFrame DEF WriteOK
      <4>2. CASE DeleteIgnored(c)
        BY <4>2 DEF DeleteIgnored, Flaky
      <4> QED BY <3>1, <4>1, <4>2
    <3>4. ASSUME NEW i \in 1..(at[c] - 1), Agrees(Chain[i], req[c])
          PROVE  Agrees(Chain[i], req[c])'
      <4>1. Chain[i] \in Kinds \ {b}
        BY <1>2 DEF Here
      <4>2. content'[Chain[i]] = content[Chain[i]]
        BY <1>2, <1>4, <4>1, StoredFrame
      <4> QED BY <1>3, <3>4, <4>2 DEF Agrees, Chain, Stable
    <3>5. at'[c] = at[c] + 1
      BY <1>2, <1>3 DEF TypeOK
    <3>6. \A i \in 1..(at'[c] - 1) : i \in 1..(at[c] - 1) \/ i = at[c]
      BY <1>2, <3>5
    <3>7. ASSUME NEW i \in 1..(at'[c] - 1)
          PROVE  Chain[i] \in skipped[c] \/ Agrees(Chain[i], req[c])'
      <4>1. CASE i = at[c]
        <5>1. Chain[i] = b /\ UNCHANGED Chain
          BY <1>3, <4>1 DEF Here, Chain
        <5> QED BY <1>3, <3>3, <5>1 DEF Agrees, Stable
      <4>2. CASE i # at[c]
        BY <3>2, <3>4, <3>6, <4>2
      <4> QED BY <4>1, <4>2
    <3> QED BY <3>1, <3>2, <3>7
  <2> QED BY <2>1, <2>2
<1>13. Mirror'
  <2> SUFFICES ASSUME NEW d \in Clients, Running(d), ~IsRead(req[d]), alone[d]
               PROVE  /\ \A o \in Clients \ {d} : ~Writing(o, req[d].key)'
                      /\ ~err'[d] => /\ \A w \in late' : w.key # req[d].key
                                    /\ \A i \in 1..(at'[d] - 1) :
                                         \/ Chain[i] \in skipped[d]
                                         \/ Agrees(Chain[i], req[d])'
    BY <1>3 DEF Mirror, Running, IsRead, Chain
  <2> QED BY <1>11, <1>12
<1> QED BY <1>11, <1>13

\* A late write arrives.
LEMMA MirrorArrive ==
    ASSUME MirrorInv, NEW w \in late, Arrive(w)
    PROVE  Mirror' /\ Kept'
<1>1. w.b \in Kinds /\ w.key \in Keys /\ TypeOK
  BY DEF MirrorInv, LoopInv, TypeOK, LateWrites
<1>2. UNCHANGED <<setup, req, result, alone, acked, skipped, at, err>>
  BY DEF Arrive, locals, history
<1>3. \A b2 \in Kinds : \A k2 \in Keys \ {w.key} : content'[b2][k2] = content[b2][k2]
  BY <1>1, StoredFrame DEF Arrive
<1>4. \A x \in late' : x \in late
  BY DEF Arrive
<1>5. \A d \in Clients : Running(d) /\ ~IsRead(req[d]) /\ alone[d] /\ ~err[d]
                            => req[d].key # w.key
  BY DEF MirrorInv, Mirror
<1>6. \A d \in Clients : acked[d] # NoRequest => acked[d].key # w.key
  BY DEF MirrorInv, Kept
<1>7. /\ Kept'
      /\ \A d \in Clients \ {} :
           Running(d) /\ ~IsRead(req[d]) /\ alone[d] =>
             /\ \A o \in Clients \ {d} : ~Writing(o, req[d].key)'
             /\ ~err'[d] => /\ \A x \in late' : x.key # req[d].key
                           /\ \A i \in 1..(at'[d] - 1) :
                                \/ Chain[i] \in skipped[d]
                                \/ Agrees(Chain[i], req[d])'
  BY <1>1, <1>2, <1>3, <1>4, <1>5, <1>6, MirrorOther
<1>8. Mirror'
  BY <1>2, <1>7 DEF Mirror, Running, IsRead, Chain
<1> QED BY <1>7, <1>8

\* A command finds a backend unavailable.
LEMMA MirrorSkip ==
    ASSUME MirrorInv, NEW c \in Clients, Unavailable(c)
    PROVE  Mirror' /\ Kept'
<1>1. /\ at[c] \in 1..Len(Chain) /\ TypeOK /\ Running(c)
  BY Positions DEF MirrorInv, LoopInv, Unavailable, InLoop
<1>2. /\ at'[c] = at[c] + 1 /\ skipped'[c] = skipped[c] \cup {Chain[at[c]]}
      /\ \A d \in Clients \ {c} : at'[d] = at[d] /\ skipped'[d] = skipped[d]
      /\ UNCHANGED <<setup, content, late, req, result, err, alone, acked>>
  BY <1>1 DEF Unavailable, GoOn, TypeOK, Here
<1>3. \A i \in 1..(at'[c] - 1) : i \in 1..(at[c] - 1) \/ i = at[c]
  BY <1>1, <1>2
<1>4. Mirror'
  <2> SUFFICES ASSUME NEW d \in Clients, Running(d), ~IsRead(req[d]), alone[d]
               PROVE  /\ \A o \in Clients \ {d} : ~Writing(o, req[d].key)
                      /\ ~err[d] => /\ \A w \in late : w.key # req[d].key
                                   /\ \A i \in 1..(at'[d] - 1) :
                                        \/ Chain[i] \in skipped'[d]
                                        \/ Agrees(Chain[i], req[d])
    BY <1>2 DEF Mirror, Running, IsRead, Chain, Agrees, Stable, Writing
  <2>1. CASE d = c
    BY <1>2, <1>3, <2>1 DEF MirrorInv, Mirror
  <2>2. CASE d # c
    BY <1>2, <2>2 DEF MirrorInv, Mirror
  <2> QED BY <2>1, <2>2
<1>5. Kept'
  <2>1. acked[c] = NoRequest
    BY <1>1 DEF MirrorInv, Kept
  <2> QED BY <1>2, <2>1 DEF MirrorInv, Kept, Running, IsRead, Chain, Agrees, Stable, Writing
<1> QED BY <1>4, <1>5

\* A command ends; only a write that has been to every backend without an error
\* returns nil.
LEMMA MirrorEnd ==
    ASSUME MirrorInv, NEW c \in Clients, NEW res, Running(c), End(c, res),
           res # "running",
           UNCHANGED content,
           late' # late => Writing(c, req[c].key),
           \A w \in late' : w \in late \/ w.key = req[c].key,
           res = "nil" => at[c] = Len(Chain) + 1 /\ ~err[c] /\ late' = late
    PROVE  Mirror' /\ Kept'
<1>1. /\ result'[c] = res
      /\ \A d \in Clients \ {c} : /\ req'[d] = req[d] /\ result'[d] = result[d]
                                  /\ at'[d] = at[d] /\ err'[d] = err[d]
                                  /\ skipped'[d] = skipped[d] /\ alone'[d] = alone[d]
                                  /\ acked'[d] = acked[d]
      /\ UNCHANGED <<setup, content>>
  BY DEF End, MirrorInv, LoopInv, TypeOK
<1>2. Len(Chain) \in Nat
  BY ChainFacts DEF MirrorInv, LoopInv, TypeOK
<1>5. ASSUME NEW d \in Clients \ {c}, Running(d), ~IsRead(req[d]), alone[d], late' # late
      PROVE  req[d].key # req[c].key
  BY <1>5 DEF MirrorInv, Mirror
<1>6. ASSUME NEW d \in Clients \ {c}, acked[d] # NoRequest, late' # late
      PROVE  acked[d].key # req[c].key
  BY <1>6 DEF MirrorInv, Kept
<1>3. Mirror'
  <2> SUFFICES ASSUME NEW d \in Clients \ {c}, Running(d), ~IsRead(req[d]), alone[d]
               PROVE  /\ \A o \in Clients \ {d} : ~Writing(o, req[d].key)'
                      /\ ~err[d] => /\ \A w \in late' : w.key # req[d].key
                                   /\ \A i \in 1..(at[d] - 1) :
                                        \/ Chain[i] \in skipped[d]
                                        \/ Agrees(Chain[i], req[d])
    BY <1>1 DEF Mirror, Running, IsRead, Chain, Agrees, Stable
  <2>1. \A o \in Clients \ {d} : ~Writing(o, req[d].key)'
    BY <1>1 DEF MirrorInv, Mirror, Writing, Running, IsRead
  <2>2. ~err[d] => \A w \in late' : w.key # req[d].key
    BY <1>5 DEF MirrorInv, Mirror
  <2> QED BY <2>1, <2>2 DEF MirrorInv, Mirror
<1>4. Kept'
  <2> SUFFICES ASSUME NEW d \in Clients, acked'[d] # NoRequest
               PROVE  /\ ~Running(d)'
                      /\ \A o \in Clients : ~Writing(o, acked[d].key)'
                      /\ \A w \in late' : w.key # acked'[d].key
                      /\ \A i \in 1..Len(Chain) :
                            Chain[i] \in skipped'[d] \/ Agrees(Chain[i], acked'[d])
    BY <1>1 DEF Kept, Chain, Agrees, Stable
  <2>1. CASE d = c
    <3>1. /\ res = "nil" /\ late' = late /\ ~IsRead(req[c]) /\ alone[c]
          /\ acked'[c] = req[c] /\ skipped'[c] = skipped[c]
      BY <2>1 DEF End, MirrorInv, LoopInv, TypeOK
    <3>2. /\ \A o \in Clients \ {c} : ~Writing(o, req[c].key)
          /\ \A w \in late : w.key # req[c].key
          /\ \A i \in 1..Len(Chain) : Chain[i] \in skipped[c] \/ Agrees(Chain[i], req[c])
      BY <1>2, <3>1 DEF MirrorInv, Mirror
    <3>3. \A o \in Clients : ~Writing(o, acked[d].key)'
      BY <1>1, <2>1, <3>1, <3>2 DEF Writing, Running, IsRead
    <3> QED BY <1>1, <2>1, <3>1, <3>2, <3>3 DEF Running
  <2>2. CASE d # c
    <3>1. acked'[d] = acked[d]
      BY <1>1, <2>2
    <3>2. /\ ~Running(d)
          /\ \A o \in Clients : ~Writing(o, acked[d].key)
          /\ \A w \in late : w.key # acked[d].key
          /\ \A i \in 1..Len(Chain) : Chain[i] \in skipped[d] \/ Agrees(Chain[i], acked[d])
      BY <3>1 DEF MirrorInv, Kept
    <3>3. \A o \in Clients : ~Writing(o, acked[d].key)'
      BY <1>1, <3>1, <3>2 DEF Writing, Running, IsRead
    <3>4. \A w \in late' : w.key # acked[d].key
      BY <1>6, <2>2, <3>1, <3>2
    <3> QED BY <1>1, <2>2, <3>1, <3>2, <3>3, <3>4 DEF Running
  <2> QED BY <2>1, <2>2
<1> QED BY <1>3, <1>4

\* Every step.
LEMMA MirrorStep == MirrorInv /\ [Next]_vars => MirrorInv'
<1> SUFFICES ASSUME MirrorInv, [Next]_vars PROVE Mirror' /\ Kept'
  BY LoopStep DEF MirrorInv
<1>1. CASE UNCHANGED vars
  BY <1>1 DEF MirrorInv, Mirror, Kept, Running, Writing, IsRead, Agrees, Chain, Stable,
     vars, locals, history
<1>2. CASE \E c \in Clients : \E r \in Requests : Begin(c, r)
  BY <1>2, MirrorBegin
<1>3. ASSUME NEW c \in Clients, Step(c) PROVE Mirror' /\ Kept'
  <2>1. CASE Available(c)
    BY <2>1, MirrorQuiet DEF Available, history
  <2>2. CASE ReadOK(c) \/ StatOK(c) \/ BodyOK(c) \/ ReadMistaken(c) \/ ReadFail(c)
    <3>1. IsRead(req[c])
      BY <2>2 DEF ReadOK, StatOK, BodyOK, ReadMistaken, ReadFail, MirrorInv, LoopInv, Loop
    <3>2. UNCHANGED <<setup, content, late, req, result, skipped, alone, acked>>
      BY <2>2 DEF ReadOK, StatOK, BodyOK, ReadMistaken, ReadFail, Answered, history
    <3>3. \A d \in Clients \ {c} : at'[d] = at[d] /\ err'[d] = err[d]
      BY <2>2 DEF ReadOK, StatOK, BodyOK, ReadMistaken, ReadFail, Answered, Leave,
         MirrorInv, LoopInv, TypeOK
    <3> QED BY <3>1, <3>2, <3>3, MirrorQuiet
  <2>3. CASE Return(c)
    BY <2>3, MirrorEnd, Outcomes DEF Return, Outcome
  <2>4. CASE Kill(c)
    <3>1. CASE late' = late
      BY <2>4, <3>1, MirrorEnd DEF Kill
    <3>2. CASE late' # late
      <4>1. InLoop(c) /\ ~IsRead(req[c]) /\ Here(c) # "local" /\ LeftBehind(c)
        BY <2>4, <3>2 DEF Kill
      <4>2. \A w \in late' : w \in late \/ w.key = req[c].key
        BY <4>1, LeftBehindFacts DEF MirrorInv
      <4>3. Writing(c, req[c].key)
        BY <4>1 DEF Writing, InLoop
      <4> QED BY <2>4, <4>2, <4>3, MirrorEnd DEF Kill
    <3> QED BY <3>1, <3>2
  <2> QED BY <1>3, <2>1, <2>2, <2>3, <2>4, MirrorSkip, MirrorWrite DEF Step
<1>4. CASE \E w \in late : Arrive(w)
  BY <1>4, MirrorArrive
<1> QED BY <1>1, <1>2, <1>3, <1>4 DEF Next

\* A Put or Delete that returned nil is on every backend it did not find unavailable,
\* until the next write of the key begins.
THEOREM AckedStays == Spec => []AckedIsMirrored
<1>1. Init => MirrorInv
  BY LoopInit DEF Init, MirrorInv, Mirror, Kept, Running
<1>2. MirrorInv => AckedIsMirrored
  <2> SUFFICES ASSUME MirrorInv, NEW c \in Clients, acked[c] # NoRequest,
                      NEW i \in DOMAIN Chain, Chain[i] \notin skipped[c]
               PROVE  Agrees(Chain[i], acked[c])
    BY DEF AckedIsMirrored, Agrees
  <2>1. DOMAIN Chain = 1..Len(Chain)
    BY ChainAssumption DEF MirrorInv, LoopInv, TypeOK, Chain
  <2> QED BY <2>1 DEF MirrorInv, Kept
<1> QED BY <1>1, <1>2, MirrorStep, PTL DEF Spec

=============================================================================
