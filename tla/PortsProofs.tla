---------------------------- MODULE PortsProofs ----------------------------
(***************************************************************************)
(* Proofs about Ports, for every set of ports, clients, subscribers and    *)
(* configuration files, and every number of inputs.                        *)
(***************************************************************************)
EXTENDS Ports, FiniteSetTheorems, TLAPS

\* The partial functions from D to X.
Partial(D, X) == UNION {[E -> X] : E \in SUBSET D}

Vis == {"host", "network"}

\* What a subscriber is sent: the clients of a tunnel in the place of their map.
Shown == [vis : Vis, clients : SUBSET Clients]
Messages ==
    Partial(Ports \ Internal,
            [served : BOOLEAN, exposed : SUBSET Exposures, tunnel : SUBSET Shown,
             auto : {"none", "trying", "succeeded", "failed"}, ignored : BOOLEAN])
Conns == [port : Ports, map : Nat, client : Clients, n : Nat, closed : BOOLEAN]

Managers ==
    [configs : ConfigFiles \cup {Empty}, exposed : SUBSET Exposures,
     served : [Ports -> {"none", "local", "any"}], tunneled : Partial(Ports, Tunnels),
     proxies : SUBSET Ports, auto : Partial(Ports \ Internal, AutoRecords),
     autoTunneled : SUBSET (Ports \ Internal), enabled : BOOLEAN,
     state : Partial(Ports \ Internal, Statuses),
     subs : Partial(Subs, Messages), closed : BOOLEAN, force : BOOLEAN]
Services ==
    [tunnels : Partial(Ports, Tunnels), clients : SUBSET (Ports \X Nat \X Clients),
     conns : SUBSET Conns, made : Nat, obs : {"wait", "woken", "send"},
     list : Partial(Ports, Tunnels)]
Requests == [port : Ports, public : BOOLEAN, https : BOOLEAN, auto : BOOLEAN]
Exposers ==
    [local : SUBSET Ports, notice : BOOLEAN, last : SUBSET Exposures,
     out : Seq(SUBSET Exposures), requests : Seq(Requests)]

\* The types of what the goroutines hand to each other.
Handed ==
    /\ pc \in {"got", "tunnel"} => inbox # <<>>
    /\ pc = "got" /\ inbox[1] = "exposed" => Len(inbox[2]) > 0 /\ inbox[2] \in Seq(SUBSET Exposures)
    /\ pc = "got" /\ inbox[1] = "tunneled" => inbox[2] \in Partial(Ports, Tunnels)
    /\ pc = "got" /\ inbox[1] = "config" => inbox[2] \in ConfigFiles
    /\ mu = "rpc" => rpc[1] \in {"tunnel", "auto", "close", "sub"}
    /\ mu = "rpc" /\ rpc[1] = "sub" => rpc[2] \in Subs
    /\ mu = "rpc" /\ rpc[1] = "tunnel" => rpc[2] \in Ports \ Internal /\ rpc[3] \in Vis
    /\ \A x \in expose : x.port \in Ports /\ x.seen \subseteq Ports

\* Who holds the lock of the manager.
Held ==
    /\ pc \in {"select", "got", "tunnel", "notify", "ending", "closing", "stopped"}
    /\ mu \in {"free", "run", "rpc"}
    /\ (mu = "run") = (pc \in {"tunnel", "notify"}) /\ (mu = "rpc") = (rpc # <<>>)

PTyped ==
    /\ sock \in [Ports -> {"none", "local", "any"}] /\ server \subseteq Exposures
    /\ pm \in Managers /\ tun \in Services /\ exp \in Exposers /\ user \in Partial(Ports \ Internal, Vis)
    /\ Handed /\ Held

\* What a subscriber was sent last is the status of the ports, but for the clients, unless an
\* update has still to serve it or its Subscribe has; and then what it will be sent is that status.
Sent ==
    /\ \A s \in DOMAIN pm.subs :
          \/ Plain(pm.subs[s]) = Plain(Status(pm.state))
          \/ pc = "notify" /\ s \in inbox[2]
          \/ mu = "rpc" /\ rpc[1] = "sub" /\ rpc[2] = s
    /\ pc = "notify" => inbox[3] = Status(pm.state)
    /\ mu = "rpc" /\ rpc[1] = "sub" => rpc[3] = Status(pm.state)

\* A tunnel is a client's, and then as it was asked for, an automatic one that autoTunnel may
\* close, or an internal one; the automatic ones are on their way out only while AutoTunnel runs.
Owned ==
    /\ UserTunnelKept
    /\ DOMAIN user \cap pm.autoTunneled = {}
    /\ DOMAIN tun.tunnels \subseteq DOMAIN user \cup Internal \cup pm.autoTunneled
    /\ ~pm.enabled /\ ~(mu = "rpc" /\ rpc[1] = "auto") => pm.autoTunneled = {}

PInv == PTyped /\ Sent /\ Owned

-----------------------------------------------------------------------------
(* Maps, sequences and records.                                            *)

\* A partial function is a function on a part of D.
LEMMA PartialDef ==
    ASSUME NEW D, NEW X, NEW f
    PROVE  f \in Partial(D, X) <=> DOMAIN f \subseteq D /\ f \in [DOMAIN f -> X]
<1>1. ASSUME f \in Partial(D, X) PROVE DOMAIN f \subseteq D /\ f \in [DOMAIN f -> X]
  <2>1. PICK E \in SUBSET D : f \in [E -> X]
    BY <1>1 DEF Partial
  <2>2. QED
    BY <2>1
<1>2. ASSUME DOMAIN f \subseteq D, f \in [DOMAIN f -> X] PROVE f \in Partial(D, X)
  BY <1>2 DEF Partial
<1>3. QED
  BY <1>1, <1>2

\* An entry is put into a map.
LEMMA PutType ==
    ASSUME NEW D, NEW X, NEW f \in Partial(D, X), NEW x \in D, NEW v \in X
    PROVE  /\ Put(f, x, v) \in Partial(D, X) /\ DOMAIN Put(f, x, v) = DOMAIN f \cup {x}
           /\ Put(f, x, v)[x] = v /\ \A y \in DOMAIN f \ {x} : Put(f, x, v)[y] = f[y]
<1>1. DOMAIN f \subseteq D /\ f \in [DOMAIN f -> X]
  BY PartialDef
<1>2. Put(f, x, v) \in [DOMAIN f \cup {x} -> X] /\ DOMAIN Put(f, x, v) = DOMAIN f \cup {x}
  BY <1>1 DEF Put
<1>3. Put(f, x, v) \in Partial(D, X)
  BY <1>1, <1>2, PartialDef
<1>4. QED
  BY <1>2, <1>3 DEF Put

\* Entries are taken out of a map.
LEMMA WithoutType ==
    ASSUME NEW D, NEW X, NEW f \in Partial(D, X), NEW S
    PROVE  /\ Without(f, S) \in Partial(D, X) /\ DOMAIN Without(f, S) = DOMAIN f \ S
           /\ \A y \in DOMAIN f \ S : Without(f, S)[y] = f[y]
<1>1. DOMAIN f \subseteq D /\ f \in [DOMAIN f -> X]
  BY PartialDef
<1>2. Without(f, S) \in [DOMAIN f \ S -> X] /\ DOMAIN Without(f, S) = DOMAIN f \ S
  BY <1>1 DEF Without
<1>3. Without(f, S) \in Partial(D, X)
  BY <1>1, <1>2, PartialDef
<1>4. QED
  BY <1>2, <1>3 DEF Without

\* The map without entries.
LEMMA EmptyType == \A D, X : Empty \in Partial(D, X) /\ DOMAIN Empty = {}
<1> SUFFICES ASSUME NEW D, NEW X PROVE Empty \in Partial(D, X) /\ DOMAIN Empty = {}
  OBVIOUS
<1>1. DOMAIN Empty = {} /\ Empty \in [DOMAIN Empty -> X]
  BY DEF Empty
<1>2. QED
  BY <1>1, PartialDef

\* The elements of a finite set in some order.
LEMMA SeqOfSet ==
    ASSUME NEW S, IsFiniteSet(S)
    PROVE  SetToSeq(S) \in Seq(S)
<1>1. Cardinality(S) \in Nat /\ ExistsBijection(1..Cardinality(S), S)
  BY FS_CardinalityType
<1>2. \E f \in [1..Cardinality(S) -> S] : IsInjective(f)
  BY <1>1 DEF ExistsBijection, Bijection, Injection
<1>3. SetToSeq(S) \in [1..Cardinality(S) -> S]
  BY <1>2 DEF SetToSeq
<1>4. QED
  BY <1>1, <1>3

\* Requests for a finite set of exposures.
LEMMA SubmitType ==
    ASSUME NEW e \in Exposers, NEW xs \in SUBSET Exposures, IsFiniteSet(xs)
    PROVE  Submit(e, xs) \in Exposers
<1> DEFINE local == {x.port : x \in {y \in xs : IsLocal(y)}} \ e.local
           rest == {y \in xs : ~IsLocal(y)}
           asked == {[port |-> x.port, public |-> x.public, https |-> x.https, auto |-> TRUE] : x \in rest}
<1>1. IsFiniteSet(rest)
  BY FS_Subset
<1>2. IsFiniteSet(asked)
  <2> DEFINE f == [x \in rest |-> [port |-> x.port, public |-> x.public, https |-> x.https, auto |-> TRUE]]
  <2>1. f \in Surjection(rest, asked)
    BY DEF Surjection
  <2>2. QED
    BY <1>1, <2>1, FS_Surjection DEF ExistsSurjection
<1>3. asked \subseteq Requests
  <2>1. ASSUME NEW x \in rest
        PROVE  [port |-> x.port, public |-> x.public, https |-> x.https, auto |-> TRUE] \in Requests
    <3>1. x \in Exposures
      OBVIOUS
    <3>2. QED
      BY <3>1 DEF Requests, Exposures
  <2>2. QED
    BY <2>1
<1>4. SetToSeq(asked) \in Seq(Requests)
  <2>1. SetToSeq(asked) \in Seq(asked)
    BY <1>2, SeqOfSet
  <2> HIDE DEF asked
  <2>2. QED
    BY <1>3, <2>1
<1>5. local \subseteq Ports
  BY DEF Exposures
<1>6. Submit(e, xs) = [e EXCEPT !.local = @ \cup local, !.notice = @ \/ local # {},
                                !.requests = @ \o SetToSeq(asked)]
  BY DEF Submit
<1>7. e.requests \o SetToSeq(asked) \in Seq(Requests)
  BY <1>4 DEF Exposers
<1> HIDE DEF asked, local
<1>8. QED
  BY <1>5, <1>6, <1>7 DEF Exposers

-----------------------------------------------------------------------------
(* The next state of the ports.                                            *)

\* What is exposed of a port.
LEMMA ExposedType ==
    ASSUME NEW m \in Managers, NEW p
    PROVE  Exposed(m, p) \subseteq Exposures
BY DEF Exposed, Managers

\* What a port asks for.
LEMMA WantedType ==
    ASSUME NEW m \in Managers, NEW p \in Ports
    PROVE  Wanted(m, p) \in Exposures
<1>1. CASE Exposed(m, p) # {}
  <2>1. Wanted(m, p) = CHOOSE x \in Exposed(m, p) : TRUE
    BY <1>1 DEF Wanted
  <2>2. Wanted(m, p) \in Exposed(m, p)
    BY <1>1, <2>1
  <2>3. QED
    BY <2>2, ExposedType
<1>2. CASE Exposed(m, p) = {}
  <2>1. ASSUME p \in DOMAIN m.configs PROVE m.configs[p].https \in BOOLEAN
    <3>1. m.configs \in ConfigFiles
      BY <2>1, EmptyType DEF Managers
    <3>2. QED
      BY <2>1, <3>1, PortsAssumption DEF Conf
  <2>2. QED
    BY <1>2, <2>1 DEF Wanted, Exposures
<1>3. QED
  BY <1>1, <1>2

\* The ports to expose, and how.
LEMMA ToExposeType ==
    ASSUME NEW m \in Managers
    PROVE  /\ Managed(m) \subseteq Ports \ Internal /\ ToExpose(m) \subseteq Ports \ Internal
           /\ {Wanted(m, p) : p \in ToExpose(m)} \subseteq Exposures
           /\ IsFiniteSet({Wanted(m, p) : p \in ToExpose(m)})
<1>1. Managed(m) \subseteq Ports \ Internal /\ ToExpose(m) \subseteq Ports \ Internal
  BY DEF Managed, ToExpose
<1>2. {Wanted(m, p) : p \in ToExpose(m)} \subseteq Exposures
  BY <1>1, WantedType
<1>3. IsFiniteSet(ToExpose(m))
  BY <1>1, PortsAssumption, FS_Subset
<1>4. IsFiniteSet({Wanted(m, p) : p \in ToExpose(m)})
  <2> DEFINE f == [p \in ToExpose(m) |-> Wanted(m, p)]
  <2>1. f \in Surjection(ToExpose(m), {Wanted(m, p) : p \in ToExpose(m)})
    BY DEF Surjection
  <2>2. QED
    BY <1>3, <2>1, FS_Surjection
<1>5. QED
  BY <1>1, <1>2, <1>4

\* The automatic exposures with the new ones.
LEMMA TryingType ==
    ASSUME NEW m \in Managers
    PROVE  Trying(m) \in Partial(Ports \ Internal, AutoRecords)
<1>1. m.auto \in Partial(Ports \ Internal, AutoRecords)
  BY DEF Managers
<1>2. DOMAIN m.auto \subseteq Ports \ Internal /\ m.auto \in [DOMAIN m.auto -> AutoRecords]
  BY <1>1, PartialDef
<1>3. ASSUME NEW p \in ToExpose(m)
      PROVE  [st |-> "trying", public |-> Wanted(m, p).public, https |-> Wanted(m, p).https] \in AutoRecords
  <2>1. Wanted(m, p) \in Exposures
    BY ToExposeType, WantedType
  <2>2. QED
    BY <2>1 DEF Exposures, AutoRecords
<1>4. DOMAIN Trying(m) = DOMAIN m.auto \cup ToExpose(m)
  BY DEF Trying
<1>5. Trying(m) \in [DOMAIN m.auto \cup ToExpose(m) -> AutoRecords]
  BY <1>2, <1>3 DEF Trying
<1>6. QED
  BY <1>2, <1>4, <1>5, ToExposeType, PartialDef

\* The status of every managed port.
LEMMA NextStateType ==
    ASSUME NEW m \in Managers
    PROVE  NextState(m) \in Partial(Ports \ Internal, Statuses)
<1> DEFINE tunnel(p) == {m.tunneled[q] : q \in {p} \cap DOMAIN m.tunneled}
           st(p) == [served |-> m.served[p] # "none",
                     exposed |-> Exposed(m, p),
                     tunnel |-> tunnel(p),
                     auto |-> IF (PortConfigKind(m, p) \/ m.served[p] # "none") /\ p \in DOMAIN Trying(m)
                              THEN Trying(m)[p].st ELSE "none",
                     ignored |-> Ignored(m, p)]
<1>1. ASSUME NEW p \in Managed(m) PROVE st(p) \in Statuses
  <2>1. Exposed(m, p) \subseteq Exposures
    BY ExposedType
  <2>2. tunnel(p) \subseteq Tunnels
    <3>1. m.tunneled \in Partial(Ports, Tunnels)
      BY DEF Managers
    <3>2. m.tunneled \in [DOMAIN m.tunneled -> Tunnels]
      BY <3>1, PartialDef
    <3>3. QED
      BY <3>2
  <2>3. ASSUME p \in DOMAIN Trying(m) PROVE Trying(m)[p].st \in {"trying", "succeeded", "failed"}
    <3>1. Trying(m)[p] \in AutoRecords
      BY <2>3, TryingType, PartialDef
    <3>2. QED
      BY <3>1 DEF AutoRecords
  <2>4. Ignored(m, p) \in BOOLEAN
    <3>1. ASSUME p \in DOMAIN m.configs PROVE m.configs[p].ignore \in BOOLEAN
      <4>1. m.configs \in ConfigFiles
        BY <3>1, EmptyType DEF Managers
      <4>2. QED
        BY <3>1, <4>1, PortsAssumption DEF Conf
    <3>2. QED
      BY <3>1 DEF Ignored
  <2> HIDE DEF tunnel
  <2>5. QED
    BY <2>1, <2>2, <2>3, <2>4 DEF Statuses
<1>2. NextState(m) = [p \in Managed(m) |-> st(p)]
  BY DEF NextState
<1> HIDE DEF st
<1>3. NextState(m) \in [Managed(m) -> Statuses] /\ DOMAIN NextState(m) = Managed(m)
  BY <1>1, <1>2
<1>4. QED
  BY <1>3, ToExposeType, PartialDef

\* A message shows a state, and is the same but for the clients.
LEMMA ShowType ==
    ASSUME NEW state \in Partial(Ports \ Internal, Statuses)
    PROVE  ShowState(state) \in Messages /\ Plain(ShowState(state)) = Plain(state)
<1> DEFINE D == DOMAIN state
           shown(p) == {Show(p, x) : x \in state[p].tunnel}
           said(p) == [state[p] EXCEPT !.tunnel = shown(p)]
<1>1. D \subseteq Ports \ Internal /\ state \in [D -> Statuses]
  BY PartialDef
<1>2. ASSUME NEW p \in D
      PROVE  /\ shown(p) \subseteq Shown
             /\ {x.vis : x \in shown(p)} = {x.vis : x \in state[p].tunnel}
  <2>1. state[p].tunnel \subseteq Tunnels
    BY <1>1 DEF Statuses
  <2>2. \A x \in state[p].tunnel : Show(p, x) \in Shown /\ Show(p, x).vis = x.vis
    BY <2>1 DEF Tunnels, Show, Shown, Vis
  <2>3. QED
    BY <2>2
<1>3. ASSUME NEW p \in D
      PROVE  /\ said(p) \in [served : BOOLEAN, exposed : SUBSET Exposures, tunnel : SUBSET Shown,
                             auto : {"none", "trying", "succeeded", "failed"}, ignored : BOOLEAN]
             /\ said(p).tunnel = shown(p)
             /\ \A v : [said(p) EXCEPT !.tunnel = v] = [state[p] EXCEPT !.tunnel = v]
  <2>1. state[p] \in Statuses /\ shown(p) \subseteq Shown
    BY <1>1, <1>2
  <2> HIDE DEF shown
  <2>2. QED
    BY <2>1 DEF Statuses
<1>4. ShowState(state) = [p \in D |-> said(p)]
  BY DEF ShowState
<1>5. ShowState(state) \in Messages
  <2> HIDE DEF said
  <2> DEFINE R == [served : BOOLEAN, exposed : SUBSET Exposures, tunnel : SUBSET Shown,
                   auto : {"none", "trying", "succeeded", "failed"}, ignored : BOOLEAN]
  <2>1. \A p \in D : said(p) \in R
    BY <1>3
  <2> HIDE DEF R
  <2>2. ShowState(state) \in [D -> R] /\ DOMAIN ShowState(state) = D
    BY <1>4, <2>1
  <2>3. ShowState(state) \in Partial(Ports \ Internal, R)
    BY <1>1, <2>2, PartialDef
  <2>4. QED
    BY <2>3 DEF Messages, R
<1>6. Plain(ShowState(state)) = Plain(state)
  <2>1. ASSUME NEW p \in D
        PROVE  [said(p) EXCEPT !.tunnel = {x.vis : x \in @}]
                 = [state[p] EXCEPT !.tunnel = {x.vis : x \in @}]
    <3> DEFINE v == {x.vis : x \in state[p].tunnel}
    <3>1. {x.vis : x \in said(p).tunnel} = v
      BY <1>2, <1>3
    <3> HIDE DEF v, said
    <3>2. [said(p) EXCEPT !.tunnel = v] = [state[p] EXCEPT !.tunnel = v]
      BY <1>3
    <3>3. [said(p) EXCEPT !.tunnel = {x.vis : x \in @}] = [said(p) EXCEPT !.tunnel = v]
      BY <3>1
    <3>4. [state[p] EXCEPT !.tunnel = {x.vis : x \in @}] = [state[p] EXCEPT !.tunnel = v]
      BY DEF v
    <3>5. QED
      BY <3>2, <3>3, <3>4
  <2> HIDE DEF said
  <2>2. DOMAIN ShowState(state) = D /\ \A p \in D : ShowState(state)[p] = said(p)
    BY <1>4
  <2>3. Plain(ShowState(state)) = [p \in D |-> [said(p) EXCEPT !.tunnel = {x.vis : x \in @}]]
    BY <2>2 DEF Plain
  <2>4. Plain(state) = [p \in D |-> [state[p] EXCEPT !.tunnel = {x.vis : x \in @}]]
    BY DEF Plain
  <2>5. QED
    BY <2>1, <2>3, <2>4
<1>7. QED
  BY <1>5, <1>6

\* The ignored ports are left out of a status whoever the clients are.
LEMMA PlainStatus ==
    ASSUME NEW a \in Partial(Ports \ Internal, Statuses),
           NEW b \in Partial(Ports \ Internal, Statuses), Plain(a) = Plain(b)
    PROVE  Plain(Status(a)) = Plain(Status(b))
<1>1. DOMAIN a = DOMAIN b
  BY DEF Plain
<1>2. ASSUME NEW p \in DOMAIN a
      PROVE  a[p].ignored = b[p].ignored
             /\ [a[p] EXCEPT !.tunnel = {x.vis : x \in @}] = [b[p] EXCEPT !.tunnel = {x.vis : x \in @}]
  <2> DEFINE va == {x.vis : x \in a[p].tunnel}
             vb == {x.vis : x \in b[p].tunnel}
  <2>1. [a[p] EXCEPT !.tunnel = va] = [b[p] EXCEPT !.tunnel = vb]
    <3>1. Plain(a)[p] = [a[p] EXCEPT !.tunnel = va]
      BY DEF Plain
    <3>2. Plain(b)[p] = [b[p] EXCEPT !.tunnel = vb]
      BY <1>1 DEF Plain
    <3>3. QED
      BY <3>1, <3>2
  <2>2. a[p] \in Statuses /\ b[p] \in Statuses
    BY <1>1, PartialDef
  <2> HIDE DEF va, vb
  <2>3. [a[p] EXCEPT !.tunnel = va].ignored = a[p].ignored
        /\ [b[p] EXCEPT !.tunnel = vb].ignored = b[p].ignored
    BY <2>2 DEF Statuses
  <2>4. QED
    BY <2>1, <2>3 DEF va, vb
<1>3. {p \in DOMAIN a : a[p].ignored} = {p \in DOMAIN b : b[p].ignored}
  BY <1>1, <1>2
<1> DEFINE D == DOMAIN a \ {p \in DOMAIN a : a[p].ignored}
<1>4. Status(a) = [p \in D |-> a[p]]
  BY DEF Status, Without
<1>5. Status(b) = [p \in D |-> b[p]]
  BY <1>1, <1>3 DEF Status, Without
<1>6. Plain(Status(a)) = [p \in D |-> [a[p] EXCEPT !.tunnel = {x.vis : x \in @}]]
  <2> HIDE DEF D
  <2>1. QED
    BY <1>4 DEF Plain
<1>7. Plain(Status(b)) = [p \in D |-> [b[p] EXCEPT !.tunnel = {x.vis : x \in @}]]
  <2> HIDE DEF D
  <2>1. QED
    BY <1>5 DEF Plain
<1>8. QED
  BY <1>2, <1>6, <1>7

\* The end of an update: either the subscribers are about to be sent the new status, or
\* it is for them what it was.
LEMMA FinishType ==
    ASSUME NEW m \in Managers, exp \in Exposers, NEW configured \in BOOLEAN, Finish(m, configured),
           \A s \in DOMAIN m.subs : Plain(m.subs[s]) = Plain(Status(m.state))
    PROVE  /\ pm' \in Managers /\ exp' \in Exposers /\ Sent'
           /\ pm'.autoTunneled = m.autoTunneled /\ pm'.enabled = m.enabled
           /\ (pc' = "select" /\ mu' = "free") \/ (pc' = "notify" /\ mu' = "run")
<1> DEFINE next == NextState(m)
<1>1. next \in Partial(Ports \ Internal, Statuses) /\ m.state \in Partial(Ports \ Internal, Statuses)
  BY NextStateType DEF Managers
<1>2. /\ pm' = [m EXCEPT !.auto = Trying(m), !.state = next]
      /\ \/ /\ DOMAIN m.subs # {} /\ pc' = "notify" /\ mu' = "run"
            /\ inbox' = <<"notify", DOMAIN m.subs, Status(next)>>
         \/ /\ pc' = "select" /\ mu' = "free"
            /\ DOMAIN m.subs = {} \/ ShowState(next) = ShowState(m.state)
  BY DEF Finish
<1>3. exp' \in Exposers
  BY ToExposeType, SubmitType DEF Finish
<1>4. Trying(m) \in Partial(Ports \ Internal, AutoRecords)
  BY TryingType
<1> HIDE DEF next
<1>5. pm' \in Managers /\ pm'.subs = m.subs /\ pm'.state = next
      /\ pm'.autoTunneled = m.autoTunneled /\ pm'.enabled = m.enabled
  BY <1>1, <1>2, <1>4 DEF Managers
<1>6. Sent'
  <2>1. CASE pc' = "notify"
    <3>1. inbox'[2] = DOMAIN m.subs /\ inbox'[3] = Status(next) /\ mu' = "run"
      BY <1>2, <2>1
    <3>2. QED
      BY <1>5, <2>1, <3>1 DEF Sent
  <2>2. CASE pc' = "select"
    <3>1. \A s \in DOMAIN m.subs : Plain(Status(next)) = Plain(Status(m.state))
      <4>1. SUFFICES ASSUME ShowState(next) = ShowState(m.state)
                     PROVE  Plain(Status(next)) = Plain(Status(m.state))
        BY <1>2, <2>2
      <4>2. Plain(next) = Plain(m.state)
        BY <1>1, <4>1, ShowType
      <4>3. QED
        BY <1>1, <4>2, PlainStatus
    <3>2. mu' = "free"
      BY <1>2, <2>2
    <3>3. QED
      BY <1>5, <2>2, <3>1, <3>2 DEF Sent
  <2>3. QED
    BY <1>2, <2>1, <2>2
<1>7. QED
  BY <1>2, <1>3, <1>5, <1>6

-----------------------------------------------------------------------------
(* Frames.                                                                 *)

\* A step that leaves the subscribers and the state alone, and what is about to be sent.
LEMMA SentFrame ==
    ASSUME Sent, pm'.subs = pm.subs, pm'.state = pm.state,
           pc = "notify" \/ pc' = "notify" => pc' = pc /\ inbox' = inbox,
           (mu = "rpc" /\ rpc[1] = "sub") \/ (mu' = "rpc" /\ rpc'[1] = "sub") => mu' = mu /\ rpc' = rpc
    PROVE  Sent'
BY DEF Sent

\* A step that leaves the tunnels, their owners and the call of AutoTunnel alone.
LEMMA OwnedFrame ==
    ASSUME Owned, tun'.tunnels = tun.tunnels, user' = user, pm'.autoTunneled = pm.autoTunneled,
           pm'.enabled = pm.enabled, mu = "rpc" /\ rpc[1] = "auto" => mu' = "rpc" /\ rpc'[1] = "auto"
    PROVE  Owned'
BY DEF Owned, UserTunnelKept

\* The result of an exposure.
LEMMA ResultType ==
    ASSUME pm \in Managers, NEW p, NEW st \in {"trying", "succeeded", "failed"}
    PROVE  /\ [pm EXCEPT !.auto[p].st = st] \in Managers
           /\ [pm EXCEPT !.auto[p].st = st].subs = pm.subs
           /\ [pm EXCEPT !.auto[p].st = st].state = pm.state
           /\ [pm EXCEPT !.auto[p].st = st].autoTunneled = pm.autoTunneled
           /\ [pm EXCEPT !.auto[p].st = st].enabled = pm.enabled
<1>1. pm.auto \in Partial(Ports \ Internal, AutoRecords)
  BY DEF Managers
<1> DEFINE a == [pm.auto EXCEPT ![p].st = st]
<1>2. DOMAIN pm.auto \subseteq Ports \ Internal /\ pm.auto \in [DOMAIN pm.auto -> AutoRecords]
  BY <1>1, PartialDef
<1>3. p \in DOMAIN pm.auto => [pm.auto[p] EXCEPT !.st = st] \in AutoRecords
  BY <1>2 DEF AutoRecords
<1>4. a \in [DOMAIN pm.auto -> AutoRecords] /\ DOMAIN a = DOMAIN pm.auto
  BY <1>2, <1>3
<1>5. a \in Partial(Ports \ Internal, AutoRecords)
  BY <1>2, <1>4, PartialDef
<1>6. [pm EXCEPT !.auto[p].st = st] = [pm EXCEPT !.auto = a]
  BY DEF Managers
<1> HIDE DEF a
<1>7. [pm EXCEPT !.auto = a] \in Managers
  BY <1>5 DEF Managers
<1>8. QED
  BY <1>6, <1>7 DEF Managers

-----------------------------------------------------------------------------
(* Every action.                                                           *)

\* Nothing is handed over.
LEMMA HandedFrame ==
    ASSUME Handed, Held, UNCHANGED <<pc, inbox, mu, rpc, expose>>
    PROVE  Handed' /\ Held'
BY DEF Handed, Held

\* What Observe reports.
LEMMA MixinType ==
    ASSUME NEW local \in SUBSET Ports, NEW srv \in SUBSET Exposures
    PROVE  Mixin(local, srv) \in SUBSET Exposures
<1>1. \A p \in Ports : [port |-> p, public |-> FALSE, https |-> FALSE] \in Exposures
  BY DEF Exposures
<1>2. {[port |-> p, public |-> FALSE, https |-> FALSE] : p \in local \ {x.port : x \in srv}} \subseteq Exposures
  BY <1>1
<1>3. QED
  BY <1>2 DEF Mixin

\* What the server knows after a request.
LEMMA OpenedType ==
    ASSUME NEW r \in Requests, NEW srv \in SUBSET Exposures
    PROVE  Opened(srv, r) \in SUBSET Exposures
BY DEF Opened, Exposures, Requests

\* The observer of the exposed ports.
LEMMA ObserveInv ==
    ASSUME PInv, ObserveServer \/ ObserveNotice
    PROVE  PInv'
<1>1. UNCHANGED <<sock, server, pm, tun, pc, inbox, mu, rpc, expose, user>>
  BY DEF ObserveServer, ObserveNotice
<1>2. exp \in Exposers /\ server \subseteq Exposures
  BY DEF PInv, PTyped
<1>3. exp' \in Exposers
  <2>1. CASE ObserveServer
    <3>1. exp' = [exp EXCEPT !.last = server, !.out = <<Mixin(exp.local, server)>>]
      BY <2>1 DEF ObserveServer
    <3>2. <<Mixin(exp.local, server)>> \in Seq(SUBSET Exposures)
      BY <1>2, MixinType DEF Exposers
    <3>3. QED
      BY <1>2, <3>1, <3>2 DEF Exposers
  <2>2. CASE ObserveNotice
    <3>1. exp' = [exp EXCEPT !.notice = FALSE, !.out = <<Mixin(exp.local, exp.last)>>]
      BY <2>2 DEF ObserveNotice
    <3>2. <<Mixin(exp.local, exp.last)>> \in Seq(SUBSET Exposures)
      BY <1>2, MixinType DEF Exposers
    <3>3. QED
      BY <1>2, <3>1, <3>2 DEF Exposers
  <2>3. QED
    BY <2>1, <2>2
<1>4. PTyped'
  BY <1>1, <1>3, HandedFrame DEF PInv, PTyped
<1>5. QED
  BY <1>1, <1>4, SentFrame, OwnedFrame DEF PInv

\* A request is answered, or the channel of a local exposure.
LEMMA AnswerInv ==
    ASSUME PInv, OpenPort \/ OpenPortFails \/ \E p \in Ports : LocalDone(p)
    PROVE  PInv'
<1>1. UNCHANGED <<sock, tun, pc, inbox, mu, rpc, expose, user>>
  BY DEF OpenPort, OpenPortFails, LocalDone
<1>2. exp \in Exposers /\ server \subseteq Exposures /\ pm \in Managers
  BY DEF PInv, PTyped
<1>3. pm' \in Managers /\ pm'.subs = pm.subs /\ pm'.state = pm.state
      /\ pm'.autoTunneled = pm.autoTunneled /\ pm'.enabled = pm.enabled
  <2>1. CASE UNCHANGED pm
    BY <1>2, <2>1
  <2>2. CASE \E p, st : st \in {"trying", "succeeded", "failed"} /\ pm' = [pm EXCEPT !.auto[p].st = st]
    <3>1. PICK p, st : st \in {"trying", "succeeded", "failed"} /\ pm' = [pm EXCEPT !.auto[p].st = st]
      BY <2>2
    <3>2. QED
      BY <1>2, <3>1, ResultType
  <2>3. QED
    BY <2>1, <2>2 DEF OpenPort, OpenPortFails, LocalDone, Result
<1>4. exp' \in Exposers /\ server' \subseteq Exposures
  <2>1. CASE OpenPort \/ OpenPortFails
    <3>1. exp.requests \in Seq(Requests) /\ exp.requests # <<>>
      BY <1>2, <2>1 DEF Exposers, OpenPort, OpenPortFails
    <3>2. Head(exp.requests) \in Requests /\ Tail(exp.requests) \in Seq(Requests)
      BY <3>1
    <3>3. exp' = [exp EXCEPT !.requests = Tail(@)] /\ server' \in {server, Opened(server, Head(exp.requests))}
      BY <2>1 DEF OpenPort, OpenPortFails
    <3>4. server' \subseteq Exposures
      BY <1>2, <3>2, <3>3, OpenedType
    <3>5. QED
      BY <1>2, <3>2, <3>3, <3>4 DEF Exposers
  <2>2. CASE \E p \in Ports : LocalDone(p)
    BY <1>2, <2>2 DEF LocalDone
  <2>3. QED
    BY <2>1, <2>2
<1>5. PTyped'
  BY <1>1, <1>3, <1>4, HandedFrame DEF PInv, PTyped
<1>6. QED
  BY <1>1, <1>3, <1>5, SentFrame, OwnedFrame DEF PInv

\* A client exposes a port, or somebody closes one at the server.
LEMMA ExposeInv ==
    ASSUME PInv,
           \/ \E p \in Ports : Expose(p) \/ RetryAutoExpose(p)
           \/ \E x \in expose : ExposeAppend(x)
           \/ \E x \in server : Unexpose(x)
    PROVE  PInv'
<1>1. UNCHANGED <<sock, tun, pc, inbox, mu, rpc, user>>
  BY DEF Expose, RetryAutoExpose, ExposeAppend, Unexpose
<1>2. exp \in Exposers /\ server \subseteq Exposures /\ pm \in Managers
      /\ \A x \in expose : x.port \in Ports /\ x.seen \subseteq Ports
  BY DEF PInv, PTyped, Handed
<1>3. /\ pm' \in Managers /\ exp' \in Exposers /\ server' \subseteq Exposures
      /\ \A x \in expose' : x.port \in Ports /\ x.seen \subseteq Ports
      /\ pm'.subs = pm.subs /\ pm'.state = pm.state
      /\ pm'.autoTunneled = pm.autoTunneled /\ pm'.enabled = pm.enabled
  <2>1. ASSUME NEW p \in Ports, Expose(p) PROVE <1>3!:
    <3> DEFINE x == [port |-> p, auto |-> FALSE,
                     public |-> p \in DOMAIN pm.configs /\ pm.configs[p].visibility # "private",
                     https |-> p \in DOMAIN pm.configs /\ pm.configs[p].https]
    <3>1. UNCHANGED <<pm, server>>
      BY <2>1 DEF Expose
    <3>2. \/ exp' = exp /\ expose' = expose \cup {[port |-> p, seen |-> exp.local]}
          \/ exp' = [exp EXCEPT !.requests = Append(@, x)] /\ expose' = expose
      BY <2>1 DEF Expose
    <3>3. x \in Requests
      <4>1. ASSUME p \in DOMAIN pm.configs PROVE pm.configs[p].https \in BOOLEAN
        <5>1. pm.configs \in ConfigFiles
          BY <1>2, <4>1, EmptyType DEF Managers
        <5>2. QED
          BY <4>1, <5>1, PortsAssumption DEF Conf
      <4>2. QED
        BY <4>1 DEF Requests
    <3> HIDE DEF x
    <3>4. Append(exp.requests, x) \in Seq(Requests)
      BY <1>2, <3>3 DEF Exposers
    <3>5. exp' \in Exposers
      BY <1>2, <3>2, <3>4 DEF Exposers
    <3>6. \A y \in expose' : y.port \in Ports /\ y.seen \subseteq Ports
      BY <1>2, <3>2 DEF Exposers
    <3>7. QED
      BY <1>2, <3>1, <3>5, <3>6
  <2>2. ASSUME NEW p \in Ports, RetryAutoExpose(p) PROVE <1>3!:
    <3> DEFINE a == [pm EXCEPT !.auto[p].st = "trying"]
               x == [port |-> p, public |-> pm.auto[p].public, https |-> pm.auto[p].https]
    <3>1. /\ pm' = [pm EXCEPT !.auto[p].st = "trying", !.force = TRUE] /\ p \in DOMAIN pm.auto
          /\ exp' = Submit(exp, {x}) /\ UNCHANGED <<server, expose>>
      BY <2>2 DEF RetryAutoExpose
    <3>2. a \in Managers /\ a.subs = pm.subs /\ a.state = pm.state
          /\ a.autoTunneled = pm.autoTunneled /\ a.enabled = pm.enabled
      BY <1>2, ResultType
    <3>3. pm' = [a EXCEPT !.force = TRUE]
      BY <3>1
    <3>4. x \in Exposures
      <4>1. pm.auto[p] \in AutoRecords
        BY <1>2, <3>1, PartialDef DEF Managers
      <4>2. QED
        BY <4>1 DEF AutoRecords, Exposures
    <3> HIDE DEF a, x
    <3>5. exp' \in Exposers
      <4>1. IsFiniteSet({x})
        BY FS_Singleton
      <4>2. QED
        BY <1>2, <3>1, <3>4, <4>1, SubmitType
    <3>6. QED
      BY <1>2, <3>1, <3>2, <3>3, <3>5 DEF Managers
  <2>3. ASSUME NEW x \in expose, ExposeAppend(x) PROVE <1>3!:
    <3>1. PICK list \in {x.seen \cup {x.port}, exp.local, exp.local \cup {x.port}} :
            exp' = [exp EXCEPT !.local = list, !.notice = TRUE]
      BY <2>3 DEF ExposeAppend
    <3>2. UNCHANGED <<pm, server>> /\ expose' \subseteq expose
      BY <2>3 DEF ExposeAppend
    <3>3. list \subseteq Ports
      BY <1>2, <3>1 DEF Exposers
    <3>4. QED
      BY <1>2, <3>1, <3>2, <3>3 DEF Exposers
  <2>4. ASSUME NEW x \in server, Unexpose(x) PROVE <1>3!:
    BY <1>2, <2>4 DEF Unexpose
  <2>5. QED
    BY <2>1, <2>2, <2>3, <2>4
<1>4. Handed' /\ Held'
  BY <1>1, <1>3 DEF PInv, PTyped, Handed, Held
<1>5. PTyped'
  BY <1>1, <1>3, <1>4 DEF PInv, PTyped
<1>6. QED
  BY <1>1, <1>3, <1>5, SentFrame, OwnedFrame DEF PInv

\* Tunnels are opened.
LEMMA OpenType ==
    ASSUME NEW t \in Services, NEW ps \in SUBSET Ports, NEW vis \in Vis
    PROVE  /\ Open(t, ps, vis) \in Services
           /\ DOMAIN Open(t, ps, vis).tunnels = DOMAIN t.tunnels \cup ps
           /\ \A p \in ps : Open(t, ps, vis).tunnels[p].vis = vis
           /\ \A p \in DOMAIN t.tunnels \ ps : Open(t, ps, vis).tunnels[p] = t.tunnels[p]
<1> DEFINE new(p) == [vis |-> vis, map |-> IF p \in DOMAIN t.tunnels THEN t.tunnels[p].map ELSE t.made + 1]
           f == [p \in DOMAIN t.tunnels \cup ps |-> IF p \notin ps THEN t.tunnels[p] ELSE new(p)]
           made == IF ps \subseteq DOMAIN t.tunnels THEN t.made ELSE t.made + 1
<1>1. DOMAIN t.tunnels \subseteq Ports /\ t.tunnels \in [DOMAIN t.tunnels -> Tunnels]
  BY PartialDef DEF Services
<1>2. ASSUME NEW p \in ps PROVE new(p) \in Tunnels /\ new(p).vis = vis
  <2>1. t.made \in Nat
    BY DEF Services
  <2>2. p \in DOMAIN t.tunnels => t.tunnels[p].map \in Nat
    BY <1>1 DEF Tunnels
  <2>3. QED
    BY <2>1, <2>2 DEF Tunnels, Vis
<1> HIDE DEF new
<1>3. f \in [DOMAIN t.tunnels \cup ps -> Tunnels] /\ DOMAIN f = DOMAIN t.tunnels \cup ps
  BY <1>1, <1>2
<1>4. f \in Partial(Ports, Tunnels)
  BY <1>1, <1>3, PartialDef
<1>5. Open(t, ps, vis) = [t EXCEPT !.tunnels = f, !.made = made, !.obs = Wake(@, ps # {})]
  BY DEF Open, new
<1>6. /\ \A p \in ps : f[p].vis = vis
      /\ \A p \in DOMAIN t.tunnels \ ps : f[p] = t.tunnels[p]
  BY <1>2
<1>7. made \in Nat
  BY DEF Services
<1> HIDE DEF f, made
<1>8. Open(t, ps, vis) \in Services /\ Open(t, ps, vis).tunnels = f
  BY <1>4, <1>5, <1>7 DEF Services, Wake
<1>9. QED
  BY <1>3, <1>6, <1>8

\* Tunnels are closed.
LEMMA CloseType ==
    ASSUME NEW t \in Services, NEW ps
    PROVE  /\ Close(t, ps) \in Services
           /\ DOMAIN Close(t, ps).tunnels = DOMAIN t.tunnels \ ps
           /\ \A p \in DOMAIN t.tunnels \ ps : Close(t, ps).tunnels[p] = t.tunnels[p]
<1> DEFINE f == Without(t.tunnels, ps)
<1>1. f \in Partial(Ports, Tunnels) /\ DOMAIN f = DOMAIN t.tunnels \ ps
      /\ \A p \in DOMAIN t.tunnels \ ps : f[p] = t.tunnels[p]
  <2>1. t.tunnels \in Partial(Ports, Tunnels)
    BY DEF Services
  <2>2. f \in Partial(Ports, Tunnels)
    BY <2>1, WithoutType
  <2>3. DOMAIN f = DOMAIN t.tunnels \ ps
    BY DEF Without
  <2>4. \A p \in DOMAIN t.tunnels \ ps : f[p] = t.tunnels[p]
    BY DEF Without
  <2>5. QED
    BY <2>2, <2>3, <2>4
<1>2. Close(t, ps) = [t EXCEPT !.tunnels = f, !.obs = Wake(@, ps \cap DOMAIN t.tunnels # {})]
  BY DEF Close
<1> HIDE DEF f
<1>3. Close(t, ps) \in Services /\ Close(t, ps).tunnels = f
  BY <1>1, <1>2 DEF Services, Wake
<1>4. QED
  BY <1>1, <1>3

\* autoTunnel opens tunnels that nobody has, and closes only its own.
LEMMA AutoTunnelsOwned ==
    ASSUME PInv, tun' = AutoTunnels(pm, tun), user' = user,
           pm'.autoTunneled = AutoTunneled(pm, tun).autoTunneled, pm'.enabled = pm.enabled
    PROVE  tun' \in Services /\ Owned'
<1>1. tun \in Services /\ pm \in Managers /\ Owned
  BY DEF PInv, PTyped
<1>2. CASE pm.enabled
  <2> DEFINE new == NewTunnels(pm, tun)
  <2>1. new \in SUBSET Ports /\ new \cap DOMAIN tun.tunnels = {} /\ "host" \in Vis
    BY DEF NewTunnels, Vis
  <2>2. tun' = Open(tun, new, "host") /\ pm'.autoTunneled = pm.autoTunneled \cup new
    BY <1>1, <1>2 DEF AutoTunnels, AutoTunneled, Managers
  <2> HIDE DEF new
  <2>3. /\ tun' \in Services /\ DOMAIN tun'.tunnels = DOMAIN tun.tunnels \cup new
        /\ \A p \in DOMAIN tun.tunnels : tun'.tunnels[p] = tun.tunnels[p]
    <3>1. /\ Open(tun, new, "host") \in Services
          /\ DOMAIN Open(tun, new, "host").tunnels = DOMAIN tun.tunnels \cup new
          /\ \A p \in DOMAIN tun.tunnels \ new : Open(tun, new, "host").tunnels[p] = tun.tunnels[p]
      <4>1. Open(tun, new, "host") \in Services
        BY <1>1, <2>1, OpenType
      <4>2. DOMAIN Open(tun, new, "host").tunnels = DOMAIN tun.tunnels \cup new
        BY <1>1, <2>1, OpenType
      <4>3. \A p \in DOMAIN tun.tunnels \ new : Open(tun, new, "host").tunnels[p] = tun.tunnels[p]
        BY <1>1, <2>1, OpenType
      <4>4. QED
        BY <4>1, <4>2, <4>3
    <3>2. QED
      BY <2>1, <2>2, <3>1
  <2>4. QED
    BY <1>1, <1>2, <2>1, <2>2, <2>3 DEF Owned, UserTunnelKept
<1>3. CASE ~pm.enabled
  <2>1. tun' = Close(tun, pm.autoTunneled) /\ pm'.autoTunneled = {}
    BY <1>1, <1>3 DEF AutoTunnels, AutoTunneled, Managers
  <2>2. /\ tun' \in Services /\ DOMAIN tun'.tunnels = DOMAIN tun.tunnels \ pm.autoTunneled
        /\ \A p \in DOMAIN tun.tunnels \ pm.autoTunneled : tun'.tunnels[p] = tun.tunnels[p]
    BY <1>1, <2>1, CloseType
  <2>3. QED
    BY <1>1, <2>1, <2>2 DEF Owned, UserTunnelKept
<1>4. QED
  BY <1>2, <1>3

\* The manager's part of autoTunnel.
LEMMA AutoTunneledType ==
    ASSUME pm \in Managers, tun \in Services
    PROVE  LET m == AutoTunneled(pm, tun)
           IN  /\ m \in Managers /\ m.enabled = pm.enabled /\ m.subs = pm.subs /\ m.state = pm.state
<1>1. NewTunnels(pm, tun) \subseteq Ports \ Internal
  BY DEF NewTunnels
<1>2. QED
  BY <1>1 DEF AutoTunneled, Managers

\* Tunnels are listed, connected to and closed again.
LEMMA TunnelInv ==
    ASSUME PInv,
           \/ ObserveTunnels
           \/ \E x \in tun.conns : CloseConn(x)
           \/ \E p \in Ports : CloseTunnel(p) \/ \E c \in Clients : EstablishTunnel(c, p)
    PROVE  PInv'
<1>1. UNCHANGED <<sock, server, pm, exp, pc, inbox, mu, rpc, expose>>
  BY DEF ObserveTunnels, CloseTunnel, EstablishTunnel, CloseConn
<1>2. tun \in Services /\ user \in Partial(Ports \ Internal, Vis) /\ Owned
  BY DEF PInv, PTyped
<1>3. CASE ~ \E p \in Ports : CloseTunnel(p)
  <2>1. tun' \in Services /\ tun'.tunnels = tun.tunnels /\ user' = user
    <3>1. CASE ObserveTunnels
      BY <1>2, <3>1 DEF ObserveTunnels, Services
    <3>2. ASSUME NEW p \in Ports, NEW c \in Clients, EstablishTunnel(c, p)
          PROVE  tun' \in Services /\ tun'.tunnels = tun.tunnels /\ user' = user
      <4>1. PICK n \in {1} \cup {y.n + 1 : y \in tun.conns} :
              LET map == tun.tunnels[p].map
                  conn == [port |-> p, map |-> map, client |-> c, n |-> n, closed |-> FALSE]
              IN tun' = [tun EXCEPT !.conns = @ \cup {conn}, !.clients = @ \cup {<<p, map, c>>},
                                    !.obs = Wake(@, TRUE)]
        BY <3>2 DEF EstablishTunnel
      <4> DEFINE map == tun.tunnels[p].map
                 conn == [port |-> p, map |-> map, client |-> c, n |-> n, closed |-> FALSE]
                 conns == tun.conns \cup {conn}
                 clients == tun.clients \cup {<<p, map, c>>}
      <4>2. /\ tun' = [tun EXCEPT !.conns = conns, !.clients = clients, !.obs = Wake(@, TRUE)]
            /\ p \in DOMAIN tun.tunnels /\ user' = user
        BY <3>2, <4>1 DEF EstablishTunnel
      <4>3. map \in Nat
        <5>1. tun.tunnels \in Partial(Ports, Tunnels)
          BY <1>2 DEF Services
        <5>2. tun.tunnels[p] \in Tunnels
          BY <4>2, <5>1, PartialDef
        <5>3. QED
          BY <5>2 DEF Tunnels
      <4>4. n \in Nat
        <5>1. \A y \in tun.conns : y.n \in Nat
          BY <1>2 DEF Services, Conns
        <5>2. QED
          BY <5>1
      <4> HIDE DEF map
      <4>5. conn \in Conns /\ <<p, map, c>> \in Ports \X Nat \X Clients
        BY <4>3, <4>4 DEF Conns
      <4>6. conns \subseteq Conns /\ clients \subseteq Ports \X Nat \X Clients
        BY <1>2, <4>5 DEF Services
      <4> HIDE DEF conns, clients
      <4>7. QED
        BY <1>2, <4>2, <4>6 DEF Services, Wake
    <3>3. ASSUME NEW x \in tun.conns, CloseConn(x)
          PROVE  tun' \in Services /\ tun'.tunnels = tun.tunnels /\ user' = user
      <4> DEFINE gone == [x EXCEPT !.closed = TRUE]
      <4>1. tun.conns \subseteq Conns /\ tun.clients \subseteq Ports \X Nat \X Clients /\ x \in Conns
        BY <1>2 DEF Services
      <4>2. gone \in Conns
        BY <4>1 DEF Conns
      <4>3. ASSUME NEW conns \in SUBSET Conns, NEW clients \in SUBSET (Ports \X Nat \X Clients),
                   NEW obs \in {"wait", "woken", "send"},
                   tun' = [tun EXCEPT !.conns = conns, !.clients = clients, !.obs = obs]
            PROVE  tun' \in Services /\ tun'.tunnels = tun.tunnels
        BY <1>2, <4>3 DEF Services
      <4>4. tun.obs \in {"wait", "woken", "send"} /\ Wake(tun.obs, TRUE) \in {"wait", "woken", "send"}
        BY <1>2 DEF Services, Wake
      <4>5. tun' \in Services /\ tun'.tunnels = tun.tunnels
        <5>1. CASE x.port \notin DOMAIN tun.tunnels
          <6> DEFINE conns == (tun.conns \ {x}) \cup {gone}
          <6>1. tun' = [tun EXCEPT !.conns = conns]
            BY <3>3, <5>1 DEF CloseConn
          <6>2. conns \subseteq Conns
            BY <4>1, <4>2
          <6> HIDE DEF conns
          <6>3. QED
            BY <1>2, <6>1, <6>2 DEF Services
        <5>2. CASE x.port \in DOMAIN tun.tunnels
          <6> DEFINE others == {y \in tun.conns \ {x} :
                                  y.port = x.port /\ y.map = x.map /\ y.client = x.client}
                     conns == tun.conns \ {x}
                     clients == IF others = {} THEN tun.clients \ {<<x.port, x.map, x.client>>} ELSE tun.clients
          <6>1. tun' = [tun EXCEPT !.conns = conns, !.obs = Wake(@, TRUE), !.clients = clients]
            BY <3>3, <5>2 DEF CloseConn
          <6>2. conns \subseteq Conns /\ clients \subseteq Ports \X Nat \X Clients
            BY <4>1
          <6> HIDE DEF conns, clients
          <6>3. tun' = [tun EXCEPT !.conns = conns, !.clients = clients, !.obs = Wake(tun.obs, TRUE)]
            BY <1>2, <6>1 DEF Services
          <6>4. QED
            BY <4>3, <4>4, <6>2, <6>3
        <5>3. QED
          BY <5>1, <5>2
      <4>6. QED
        BY <3>3, <4>5 DEF CloseConn
    <3>4. QED
      BY <1>3, <3>1, <3>2, <3>3
  <2>2. PTyped'
    BY <1>1, <1>2, <2>1, HandedFrame DEF PInv, PTyped
  <2>3. QED
    BY <1>1, <2>1, <2>2, SentFrame, OwnedFrame DEF PInv
<1>4. ASSUME NEW p \in Ports, CloseTunnel(p) PROVE PInv'
  <2>1. tun' = Close(tun, {p}) /\ user' = Without(user, {p})
    BY <1>4 DEF CloseTunnel
  <2>2. /\ tun' \in Services /\ DOMAIN tun'.tunnels = DOMAIN tun.tunnels \ {p}
        /\ \A q \in DOMAIN tun.tunnels \ {p} : tun'.tunnels[q] = tun.tunnels[q]
    BY <1>2, <2>1, CloseType
  <2>3. /\ user' \in Partial(Ports \ Internal, Vis) /\ DOMAIN user' = DOMAIN user \ {p}
        /\ \A q \in DOMAIN user \ {p} : user'[q] = user[q]
    <3>0. user \in Partial(Ports \ Internal, Vis)
      BY <1>2
    <3>1. Without(user, {p}) \in Partial(Ports \ Internal, Vis)
      BY <3>0, WithoutType
    <3>2. DOMAIN Without(user, {p}) = DOMAIN user \ {p}
      BY DEF Without
    <3>3. \A q \in DOMAIN user \ {p} : Without(user, {p})[q] = user[q]
      BY DEF Without
    <3>4. QED
      BY <2>1, <3>1, <3>2, <3>3
  <2>4. PTyped'
    BY <1>1, <2>2, <2>3, HandedFrame DEF PInv, PTyped
  <2>5. Owned'
    BY <1>1, <1>2, <2>2, <2>3 DEF Owned, UserTunnelKept
  <2>6. QED
    BY <1>1, <2>4, <2>5, SentFrame DEF PInv
<1>5. QED
  BY <1>3, <1>4

\* A client opens a tunnel, or turns the automatic ones on or off.
LEMMA CallInv ==
    ASSUME PInv,
           \/ \E b \in BOOLEAN : AutoTunnel(b)
           \/ \E p \in Ports, vis \in {"host", "network"} : Tunnel(p, vis)
    PROVE  PInv'
<1>1. UNCHANGED <<sock, server, tun, exp, pc, inbox, expose, user>>
  BY DEF AutoTunnel, Tunnel
<1>2. pm \in Managers
  BY DEF PInv, PTyped
<1>3. CASE \E b \in BOOLEAN : AutoTunnel(b)
  <2>1. PICK b \in BOOLEAN : mu = "free" /\ mu' = "rpc" /\ rpc' = <<"auto">> /\ pm' = [pm EXCEPT !.enabled = b]
    BY <1>3 DEF AutoTunnel
  <2>2. /\ pm' \in Managers /\ pm'.subs = pm.subs /\ pm'.state = pm.state /\ pm'.autoTunneled = pm.autoTunneled
    BY <1>2, <2>1 DEF Managers
  <2>3. Handed' /\ Held'
    BY <1>1, <2>1 DEF PInv, PTyped, Handed, Held
  <2>4. Owned'
    BY <1>1, <2>1, <2>2 DEF PInv, Owned, UserTunnelKept
  <2>5. Sent'
    <3>1. mu # "rpc" /\ rpc'[1] # "sub"
      BY <2>1
    <3>2. QED
      BY <1>1, <2>2, <3>1, SentFrame DEF PInv
  <2>6. QED
    BY <1>1, <2>2, <2>3, <2>4, <2>5 DEF PInv, PTyped
<1>4. CASE \E p \in Ports, vis \in {"host", "network"} : Tunnel(p, vis)
  <2>1. PICK p \in Ports, vis \in {"host", "network"} :
          p \notin Internal /\ mu = "free" /\ mu' = "rpc" /\ rpc' = <<"tunnel", p, vis>> /\ pm' = pm
    BY <1>4 DEF Tunnel
  <2>2. Handed' /\ Held'
    BY <1>1, <2>1 DEF PInv, PTyped, Handed, Held, Vis
  <2>3. Owned'
    BY <1>1, <2>1, OwnedFrame DEF PInv
  <2>4. QED
    BY <1>1, <2>1, <2>2, <2>3, SentFrame DEF PInv, PTyped
<1>5. QED
  BY <1>3, <1>4

\* The tunnel service has answered: the tunnel is the client's, whoever had it before.
LEMMA TunnelDoneInv ==
    ASSUME PInv, TunnelDone
    PROVE  PInv'
<1> DEFINE p == rpc[2]
           vis == rpc[3]
<1>1. UNCHANGED <<sock, server, exp, pc, inbox, expose>> /\ mu = "rpc" /\ rpc[1] = "tunnel"
      /\ mu' = "free" /\ rpc' = <<>>
  BY DEF TunnelDone
<1>2. /\ tun \in Services /\ pm \in Managers /\ user \in Partial(Ports \ Internal, Vis) /\ Owned
      /\ p \in Ports \ Internal /\ vis \in Vis
  BY <1>1 DEF PInv, PTyped, Handed
<1>3. tun' = Open(tun, {p}, vis) /\ user' = Put(user, p, vis) /\ pm' = [pm EXCEPT !.autoTunneled = @ \ {p}]
  BY DEF TunnelDone, Tunnelled
<1> HIDE DEF p, vis
<1>4. /\ tun' \in Services /\ DOMAIN tun'.tunnels = DOMAIN tun.tunnels \cup {p}
      /\ tun'.tunnels[p].vis = vis /\ \A q \in DOMAIN tun.tunnels \ {p} : tun'.tunnels[q] = tun.tunnels[q]
  <2>1. {p} \in SUBSET Ports
    BY <1>2
  <2>2. /\ Open(tun, {p}, vis) \in Services
        /\ DOMAIN Open(tun, {p}, vis).tunnels = DOMAIN tun.tunnels \cup {p}
        /\ \A q \in {p} : Open(tun, {p}, vis).tunnels[q].vis = vis
        /\ \A q \in DOMAIN tun.tunnels \ {p} : Open(tun, {p}, vis).tunnels[q] = tun.tunnels[q]
    <3> DEFINE ps == {p}
    <3>1. ps \in SUBSET Ports
      BY <2>1
    <3> HIDE DEF ps
    <3>2. Open(tun, ps, vis) \in Services
      BY <1>2, <3>1, OpenType
    <3>3. DOMAIN Open(tun, ps, vis).tunnels = DOMAIN tun.tunnels \cup ps
      BY <1>2, <3>1, OpenType
    <3>4. \A q \in ps : Open(tun, ps, vis).tunnels[q].vis = vis
      BY <1>2, <3>1, OpenType
    <3>5. \A q \in DOMAIN tun.tunnels \ ps : Open(tun, ps, vis).tunnels[q] = tun.tunnels[q]
      BY <1>2, <3>1, OpenType
    <3>6. QED
      BY <3>2, <3>3, <3>4, <3>5 DEF ps
  <2>3. QED
    BY <1>3, <2>2
<1>5. /\ user' \in Partial(Ports \ Internal, Vis) /\ DOMAIN user' = DOMAIN user \cup {p}
      /\ user'[p] = vis /\ \A q \in DOMAIN user \ {p} : user'[q] = user[q]
  BY <1>2, <1>3, PutType
<1>6. /\ pm' \in Managers /\ pm'.subs = pm.subs /\ pm'.state = pm.state /\ pm'.enabled = pm.enabled
      /\ pm'.autoTunneled = pm.autoTunneled \ {p}
  BY <1>2, <1>3 DEF Managers
<1>7. Handed' /\ Held'
  BY <1>1 DEF PInv, PTyped, Handed, Held
<1>8. Owned'
  BY <1>1, <1>2, <1>4, <1>5, <1>6 DEF Owned, UserTunnelKept
<1>9. QED
  BY <1>1, <1>4, <1>5, <1>6, <1>7, <1>8, SentFrame DEF PInv, PTyped

\* AutoTunnel is done, or has connections to close first.
LEMMA AutoTunnelDoneInv ==
    ASSUME PInv, AutoTunnelDone
    PROVE  PInv'
<1>1. /\ UNCHANGED <<sock, server, exp, pc, inbox, expose, user>> /\ mu = "rpc" /\ rpc[1] = "auto"
      /\ \/ mu' = "free" /\ rpc' = <<>>
         \/ \E left : mu' = "rpc" /\ rpc' = <<"close", left>>
  BY DEF AutoTunnelDone, AutoTunnelLeaves
<1>2. tun' = AutoTunnels(pm, tun) /\ pm' = AutoTunneled(pm, tun) /\ pm \in Managers /\ tun \in Services
  BY DEF AutoTunnelDone, PInv, PTyped
<1>3. pm' \in Managers /\ pm'.enabled = pm.enabled /\ pm'.subs = pm.subs /\ pm'.state = pm.state
  BY <1>2, AutoTunneledType
<1>4. tun' \in Services /\ Owned'
  BY <1>1, <1>2, <1>3, AutoTunnelsOwned
<1>5. Handed' /\ Held'
  BY <1>1 DEF PInv, PTyped, Handed, Held
<1>6. Sent'
  BY <1>1, <1>3, SentFrame DEF PInv, PTyped, Held
<1>7. QED
  BY <1>1, <1>3, <1>4, <1>5, <1>6 DEF PInv, PTyped

\* The last connection is closed.
LEMMA AutoTunnelClosedInv ==
    ASSUME PInv, AutoTunnelClosed
    PROVE  PInv'
<1>1. /\ UNCHANGED <<sock, server, pm, tun, exp, pc, inbox, expose, user>>
      /\ mu = "rpc" /\ rpc[1] = "close" /\ mu' = "free" /\ rpc' = <<>>
  BY DEF AutoTunnelClosed
<1>2. Handed' /\ Held'
  BY <1>1 DEF PInv, PTyped, Handed, Held
<1>3. Sent'
  BY <1>1, SentFrame DEF PInv, PTyped, Held
<1>4. Owned'
  BY <1>1, OwnedFrame DEF PInv
<1>5. QED
  BY <1>1, <1>2, <1>3, <1>4 DEF PInv, PTyped

-----------------------------------------------------------------------------
(* Run receives an update and works it in.                                 *)

\* What Run has received is its own until the update is done.
LEMMA ReceiveInv ==
    ASSUME PInv,
           \/ ReceiveServed \/ ReceiveExposed \/ ReceiveTunneled \/ ReceiveForce
           \/ \E f \in ConfigFiles : ReceiveConfig(f)
    PROVE  PInv'
<1>1. UNCHANGED <<sock, server, mu, rpc, expose, user>> /\ pc = "select" /\ pc' = "got"
  BY DEF ReceiveServed, ReceiveExposed, ReceiveTunneled, ReceiveForce, ReceiveConfig, Receive
<1>2. exp \in Exposers /\ pm \in Managers /\ tun \in Services
  BY DEF PInv, PTyped
<1>3. /\ pm' \in Managers /\ pm'.subs = pm.subs /\ pm'.state = pm.state
      /\ pm'.autoTunneled = pm.autoTunneled /\ pm'.enabled = pm.enabled
  <2>1. CASE pm' = pm
    BY <1>2, <2>1
  <2>2. CASE pm' = [pm EXCEPT !.force = FALSE]
    BY <1>2, <2>2 DEF Managers
  <2>3. QED
    BY <2>1, <2>2 DEF ReceiveServed, ReceiveExposed, ReceiveTunneled, ReceiveForce, ReceiveConfig
<1>4. exp' \in Exposers
  <2>1. CASE exp' = exp
    BY <1>2, <2>1
  <2>2. CASE exp' = [exp EXCEPT !.out = <<>>]
    <3>1. <<>> \in Seq(SUBSET Exposures)
      OBVIOUS
    <3>2. QED
      BY <1>2, <2>2, <3>1 DEF Exposers
  <2>3. QED
    BY <2>1, <2>2 DEF ReceiveServed, ReceiveExposed, ReceiveTunneled, ReceiveForce, ReceiveConfig
<1>5. tun' \in Services /\ tun'.tunnels = tun.tunnels
  <2>1. CASE tun' = tun
    BY <1>2, <2>1
  <2>2. CASE tun' = [tun EXCEPT !.obs = "wait", !.list = Empty]
    <3>1. Empty \in Partial(Ports, Tunnels)
      BY EmptyType
    <3>2. QED
      BY <1>2, <2>2, <3>1 DEF Services
  <2>3. QED
    BY <2>1, <2>2 DEF ReceiveServed, ReceiveExposed, ReceiveTunneled, ReceiveForce, ReceiveConfig
<1>6. Handed'
  <2>1. CASE \E v : inbox' = <<"served", v>> \/ inbox' = <<"force", v>>
    BY <1>1, <2>1 DEF PInv, PTyped, Handed
  <2>2. CASE inbox' = <<"exposed", exp.out>> /\ exp.out # <<>>
    <3>1. exp.out \in Seq(SUBSET Exposures) /\ Len(exp.out) > 0
      BY <1>2, <2>2 DEF Exposers
    <3>2. QED
      BY <1>1, <2>2, <3>1 DEF PInv, PTyped, Handed
  <2>3. CASE inbox' = <<"tunneled", tun.list>>
    <3>1. tun.list \in Partial(Ports, Tunnels)
      BY <1>2 DEF Services
    <3>2. QED
      BY <1>1, <2>3, <3>1 DEF PInv, PTyped, Handed
  <2>4. CASE \E f \in ConfigFiles : inbox' = <<"config", f>>
    BY <1>1, <2>4 DEF PInv, PTyped, Handed
  <2>5. QED
    BY <2>1, <2>2, <2>3, <2>4
       DEF ReceiveServed, ReceiveExposed, ReceiveTunneled, ReceiveForce, ReceiveConfig, Receive
<1>7. Held'
  BY <1>1 DEF PInv, PTyped, Held
<1>8. user' = user /\ tun'.tunnels = tun.tunnels
  BY <1>1, <1>5
<1>9. Owned'
  BY <1>1, <1>3, <1>8, OwnedFrame DEF PInv
<1>10. Sent'
  BY <1>1, <1>3, SentFrame DEF PInv
<1>11. QED
  BY <1>1, <1>3, <1>4, <1>5, <1>6, <1>7, <1>9, <1>10 DEF PInv, PTyped

\* updateState without new served ports.
LEMMA UpdateInv ==
    ASSUME PInv, UpdateState \/ UpdateServedSame
    PROVE  PInv'
<1>1. UNCHANGED <<sock, server, tun, rpc, expose, user>> /\ pc = "got" /\ mu = "free"
  BY DEF UpdateState, UpdateServedSame
<1>2. exp \in Exposers /\ pm \in Managers /\ Handed /\ Held /\ Sent
  BY DEF PInv, PTyped
<1>3. PICK m, configured :
        /\ m \in Managers /\ configured \in BOOLEAN /\ Finish(m, configured)
        /\ m.subs = pm.subs /\ m.state = pm.state
        /\ m.autoTunneled = pm.autoTunneled /\ m.enabled = pm.enabled
  <2>1. CASE UpdateServedSame
    BY <1>2, <2>1 DEF UpdateServedSame
  <2>2. CASE UpdateState
    <3>1. PICK m \in Merged : Finish(m, inbox[1] = "config")
      BY <2>2 DEF UpdateState
    <3>2. /\ m \in Managers /\ m.subs = pm.subs /\ m.state = pm.state
          /\ m.autoTunneled = pm.autoTunneled /\ m.enabled = pm.enabled
      <4>1. CASE inbox[1] = "exposed"
        <5>1. inbox[2][1] \in SUBSET Exposures
          <6>1. inbox[2] \in Seq(SUBSET Exposures) /\ Len(inbox[2]) > 0
            BY <1>1, <1>2, <4>1 DEF Handed
          <6>2. QED
            BY <6>1
        <5>2. m = [pm EXCEPT !.exposed = inbox[2][1]]
          BY <3>1, <4>1 DEF Merged
        <5>3. QED
          BY <1>2, <5>1, <5>2 DEF Managers
      <4>2. CASE inbox[1] = "tunneled"
        <5>1. PICK list \in Kept(inbox[2]) : m = [pm EXCEPT !.tunneled = list]
          BY <3>1, <4>2 DEF Merged
        <5>2. inbox[2] \in Partial(Ports, Tunnels) /\ pm.tunneled \in Partial(Ports, Tunnels)
          BY <1>1, <1>2, <4>2 DEF Handed, Managers
        <5>3. list \in {inbox[2], pm.tunneled}
          BY <5>1 DEF Kept
        <5>4. list \in Partial(Ports, Tunnels)
          BY <5>2, <5>3
        <5>5. QED
          BY <1>2, <5>1, <5>4 DEF Managers
      <4>3. CASE inbox[1] = "config"
        <5>1. inbox[2] \in ConfigFiles
          BY <1>1, <1>2, <4>3 DEF Handed
        <5>2. m = [pm EXCEPT !.configs = inbox[2]]
          BY <3>1, <4>3 DEF Merged
        <5>3. QED
          BY <1>2, <5>1, <5>2 DEF Managers
      <4>4. CASE inbox[1] \notin {"exposed", "tunneled", "config"}
        <5>1. m = pm
          BY <3>1, <4>4 DEF Merged
        <5>2. QED
          BY <1>2, <5>1
      <4>5. QED
        BY <4>1, <4>2, <4>3, <4>4
    <3>3. (inbox[1] = "config") \in BOOLEAN
      OBVIOUS
    <3>4. QED
      BY <3>1, <3>2, <3>3
  <2>3. QED
    BY <2>1, <2>2
<1>4. \A s \in DOMAIN m.subs : Plain(m.subs[s]) = Plain(Status(m.state))
  BY <1>1, <1>2, <1>3 DEF Sent
<1>5. /\ pm' \in Managers /\ exp' \in Exposers /\ Sent'
      /\ pm'.autoTunneled = pm.autoTunneled /\ pm'.enabled = pm.enabled
      /\ (pc' = "select" /\ mu' = "free") \/ (pc' = "notify" /\ mu' = "run")
  BY <1>2, <1>3, <1>4, FinishType
<1>6. Handed' /\ Held'
  BY <1>1, <1>5 DEF PInv, PTyped, Handed, Held
<1>7. tun'.tunnels = tun.tunnels /\ user' = user
  BY <1>1
<1>8. Owned'
  BY <1>1, <1>5, <1>7, OwnedFrame DEF PInv
<1>9. QED
  BY <1>1, <1>5, <1>6, <1>8 DEF PInv, PTyped

\* updateState stores new served ports, and keeps the lock for autoTunnel.
LEMMA UpdateServedInv ==
    ASSUME PInv, UpdateServed
    PROVE  PInv'
<1> DEFINE new == Served(pm, inbox[2])
           local == {p \in Ports : new[p] = "local"}
<1>1. /\ UNCHANGED <<sock, server, tun, exp, inbox, rpc, expose, user>> /\ pc = "got" /\ mu = "free"
      /\ pc' = "tunnel" /\ mu' = "run" /\ pm' = [pm EXCEPT !.served = new, !.proxies = local]
  BY DEF UpdateServed
<1>2. pm \in Managers
  BY DEF PInv, PTyped
<1>3. new \in [Ports -> {"none", "local", "any"}] /\ local \subseteq Ports
  BY DEF Served
<1> HIDE DEF new, local
<1>4. /\ pm' \in Managers /\ pm'.subs = pm.subs /\ pm'.state = pm.state
      /\ pm'.autoTunneled = pm.autoTunneled /\ pm'.enabled = pm.enabled
  BY <1>1, <1>2, <1>3 DEF Managers
<1>5. Handed' /\ Held'
  BY <1>1 DEF PInv, PTyped, Handed, Held
<1>6. Owned'
  BY <1>1, <1>4, OwnedFrame DEF PInv
<1>7. Sent'
  BY <1>1, <1>4, SentFrame DEF PInv
<1>8. QED
  BY <1>1, <1>4, <1>5, <1>6, <1>7 DEF PInv, PTyped

\* autoTunnel within an update, and the end of the update.
LEMMA UpdateTunnelsInv ==
    ASSUME PInv, UpdateTunnels
    PROVE  PInv'
<1> DEFINE m == AutoTunneled(pm, tun)
<1>1. /\ UNCHANGED <<sock, server, rpc, expose, user>> /\ pc = "tunnel"
      /\ tun' = AutoTunnels(pm, tun) /\ Finish(m, FALSE)
  BY DEF UpdateTunnels
<1>2. pm \in Managers /\ tun \in Services /\ exp \in Exposers /\ Sent /\ Held
  BY DEF PInv, PTyped
<1>3. m \in Managers /\ m.enabled = pm.enabled /\ m.subs = pm.subs /\ m.state = pm.state
  BY <1>2, AutoTunneledType
<1> HIDE DEF m
<1>4. \A s \in DOMAIN m.subs : Plain(m.subs[s]) = Plain(Status(m.state))
  BY <1>1, <1>2, <1>3 DEF Sent, Held
<1>5. /\ pm' \in Managers /\ exp' \in Exposers /\ Sent'
      /\ pm'.autoTunneled = m.autoTunneled /\ pm'.enabled = m.enabled
      /\ (pc' = "select" /\ mu' = "free") \/ (pc' = "notify" /\ mu' = "run")
  BY <1>1, <1>2, <1>3, <1>4, FinishType
<1>6. pm'.autoTunneled = AutoTunneled(pm, tun).autoTunneled /\ pm'.enabled = pm.enabled
  BY <1>3, <1>5 DEF m
<1>7. tun' \in Services /\ Owned'
  BY <1>1, <1>6, AutoTunnelsOwned
<1>8. Handed' /\ Held'
  BY <1>1, <1>5 DEF PInv, PTyped, Handed, Held
<1>9. QED
  BY <1>1, <1>5, <1>7, <1>8 DEF PInv, PTyped

\* The end of Run.
LEMMA EndInv ==
    ASSUME PInv, Return \/ MarkClosed \/ Stop
    PROVE  PInv'
<1>1. UNCHANGED <<sock, server, tun, exp, inbox, mu, rpc, expose, user>>
      /\ pc \in {"select", "ending", "closing"} /\ pc' \in {"ending", "closing", "stopped"}
  BY DEF Return, MarkClosed, Stop
<1>2. pm \in Managers
  BY DEF PInv, PTyped
<1>3. /\ pm' \in Managers /\ pm'.subs = pm.subs /\ pm'.state = pm.state
      /\ pm'.autoTunneled = pm.autoTunneled /\ pm'.enabled = pm.enabled
  <2>1. CASE pm' = pm
    BY <1>2, <2>1
  <2>2. CASE pm' = [pm EXCEPT !.closed = TRUE]
    BY <1>2, <2>2 DEF Managers
  <2>3. QED
    BY <2>1, <2>2 DEF Return, MarkClosed, Stop
<1>4. Handed' /\ Held'
  BY <1>1 DEF PInv, PTyped, Handed, Held
<1>5. Owned'
  BY <1>1, <1>3, OwnedFrame DEF PInv
<1>6. Sent'
  <2>1. pc # "notify" /\ pc' # "notify"
    BY <1>1
  <2>2. QED
    BY <1>1, <1>3, <2>1, SentFrame DEF PInv
<1>7. QED
  BY <1>1, <1>3, <1>4, <1>5, <1>6 DEF PInv, PTyped

\* A change of the subscribers alone.
LEMMA SubsOnly ==
    ASSUME PInv, NEW subs \in Partial(Subs, Messages), pm' = [pm EXCEPT !.subs = subs],
           UNCHANGED <<sock, server, tun, exp, expose, user>>,
           Handed', Held', Sent', mu = "rpc" => rpc[1] # "auto"
    PROVE  PInv'
<1>1. pm \in Managers
  BY DEF PInv, PTyped
<1>2. /\ pm' \in Managers /\ pm'.state = pm.state
      /\ pm'.autoTunneled = pm.autoTunneled /\ pm'.enabled = pm.enabled
  BY <1>1 DEF Managers
<1>3. Owned'
  BY <1>2, OwnedFrame DEF PInv
<1>4. QED
  BY <1>2, <1>3 DEF PInv, PTyped

\* Who is told, and what: the next one gets the status an update has kept, or is gone.
LEMMA NotifyInv ==
    ASSUME PInv, NEW s \in Subs, Notify(s)
    PROVE  PInv'
<1> DEFINE message == ShowState(inbox[3])
           left == <<"notify", inbox[2] \ {s}, inbox[3]>>
<1>1. /\ UNCHANGED <<sock, server, tun, exp, rpc, expose, user>> /\ pc = "notify" /\ s \in inbox[2]
      /\ \/ pm' = [pm EXCEPT !.subs[s] = message]
         \/ pm' = [pm EXCEPT !.subs = Without(@, {s})]
      /\ \/ inbox[2] = {s} /\ pc' = "select" /\ mu' = "free" /\ inbox' = <<>>
         \/ UNCHANGED <<pc, mu>> /\ inbox' = left
  BY DEF Notify
<1>2. pm \in Managers /\ Held /\ Handed /\ Sent /\ mu = "run"
  BY <1>1 DEF PInv, PTyped, Held
<1>3. pm.subs \in Partial(Subs, Messages) /\ pm.state \in Partial(Ports \ Internal, Statuses)
  BY <1>2 DEF Managers
<1>4. message \in Messages /\ Plain(message) = Plain(Status(pm.state))
  <2>1. inbox[3] = Status(pm.state)
    BY <1>1, <1>2 DEF Sent
  <2>2. Status(pm.state) \in Partial(Ports \ Internal, Statuses)
    BY <1>3, WithoutType DEF Status
  <2>3. QED
    BY <2>1, <2>2, ShowType
<1> HIDE DEF message
<1>5. PICK subs \in Partial(Subs, Messages) :
        /\ pm' = [pm EXCEPT !.subs = subs]
        /\ DOMAIN subs \subseteq DOMAIN pm.subs
        /\ s \in DOMAIN subs => subs[s] = message
        /\ \A x \in DOMAIN subs \ {s} : subs[x] = pm.subs[x]
  <2>1. CASE pm' = [pm EXCEPT !.subs[s] = message]
    <3> DEFINE f == [pm.subs EXCEPT ![s] = message]
    <3>1. f \in Partial(Subs, Messages)
      <4>1. DOMAIN pm.subs \subseteq Subs /\ pm.subs \in [DOMAIN pm.subs -> Messages]
        BY <1>3, PartialDef
      <4>2. f \in [DOMAIN pm.subs -> Messages] /\ DOMAIN f = DOMAIN pm.subs
        BY <1>4, <4>1
      <4>3. QED
        BY <4>1, <4>2, PartialDef
    <3>2. /\ DOMAIN f \subseteq DOMAIN pm.subs
          /\ s \in DOMAIN f => f[s] = message
          /\ \A x \in DOMAIN f \ {s} : f[x] = pm.subs[x]
      OBVIOUS
    <3>3. pm' = [pm EXCEPT !.subs = f]
      BY <1>2, <2>1 DEF Managers
    <3> HIDE DEF f
    <3>4. QED
      BY <3>1, <3>2, <3>3
  <2>2. CASE pm' = [pm EXCEPT !.subs = Without(@, {s})]
    <3> DEFINE f == Without(pm.subs, {s})
    <3>1. f \in Partial(Subs, Messages)
      BY <1>3, WithoutType
    <3>2. /\ DOMAIN f \subseteq DOMAIN pm.subs /\ s \notin DOMAIN f
          /\ \A x \in DOMAIN f \ {s} : f[x] = pm.subs[x]
      BY DEF Without
    <3>3. pm' = [pm EXCEPT !.subs = f]
      BY <2>2
    <3> HIDE DEF f
    <3>4. QED
      BY <3>1, <3>2, <3>3
  <2>3. QED
    BY <1>1, <2>1, <2>2
<1>6. pm'.subs = subs /\ pm'.state = pm.state
  BY <1>2, <1>5 DEF Managers
<1>7. ASSUME NEW x \in DOMAIN subs
      PROVE  Plain(subs[x]) = Plain(Status(pm.state)) \/ (x # s /\ x \in inbox[2])
  <2>1. CASE x = s
    BY <1>4, <1>5, <2>1
  <2>2. CASE x # s
    BY <1>2, <1>5, <2>2 DEF Sent
  <2>3. QED
    BY <2>1, <2>2
<1>8. Sent'
  <2>1. CASE inbox[2] = {s} /\ pc' = "select" /\ mu' = "free"
    <3>1. \A x \in DOMAIN subs : Plain(subs[x]) = Plain(Status(pm.state))
      BY <1>7, <2>1
    <3>2. QED
      BY <1>6, <2>1, <3>1 DEF Sent
  <2>2. CASE UNCHANGED <<pc, mu>> /\ inbox' = left
    <3>1. inbox'[3] = Status(pm.state) /\ \A x \in inbox[2] \ {s} : x \in inbox'[2]
      <4>1. inbox[3] = Status(pm.state)
        BY <1>1, <1>2 DEF Sent
      <4>2. inbox'[3] = inbox[3] /\ inbox'[2] = inbox[2] \ {s}
        BY <2>2
      <4>3. QED
        BY <4>1, <4>2
    <3>2. QED
      BY <1>1, <1>2, <1>6, <1>7, <2>2, <3>1 DEF Sent
  <2>3. QED
    BY <1>1, <2>1, <2>2
<1>9. Handed' /\ Held'
  <2>1. Handed'
    BY <1>1, <1>2 DEF Handed
  <2>2. Held'
    BY <1>1, <1>2 DEF Held
  <2>3. QED
    BY <2>1, <2>2
<1>10. QED
  BY <1>1, <1>2, <1>5, <1>8, <1>9, SubsOnly

\* Subscribers come, get the status of the moment they came, and go.
LEMMA SubsInv ==
    ASSUME PInv, SubscribeDone \/ \E s \in Subs : CloseSub(s) \/ Subscribe(s) \/ Unsubscribe(s)
    PROVE  PInv'
<1>1. UNCHANGED <<sock, server, tun, exp, pc, inbox, expose, user>>
  BY DEF SubscribeDone, CloseSub, Subscribe, Unsubscribe
<1>2. pm \in Managers /\ Held /\ Handed /\ Sent
  BY DEF PInv, PTyped
<1>3. pm.subs \in Partial(Subs, Messages) /\ pm.state \in Partial(Ports \ Internal, Statuses)
  BY <1>2 DEF Managers
<1>4. CASE \E s \in Subs : CloseSub(s) \/ Unsubscribe(s)
  <2>1. PICK s \in Subs : CloseSub(s) \/ Unsubscribe(s)
    BY <1>4
  <2> DEFINE f == Without(pm.subs, {s})
  <2>2. mu = "free" /\ UNCHANGED <<mu, rpc>> /\ pm' = [pm EXCEPT !.subs = f]
    BY <2>1 DEF CloseSub, Unsubscribe
  <2>3. f \in Partial(Subs, Messages)
    BY <1>3, WithoutType
  <2>4. \A x \in DOMAIN f : x \in DOMAIN pm.subs /\ f[x] = pm.subs[x]
    BY DEF Without
  <2> HIDE DEF f
  <2>5. pm'.subs = f /\ pm'.state = pm.state
    BY <1>2, <2>2 DEF Managers
  <2>6. Sent'
    BY <1>1, <1>2, <2>2, <2>4, <2>5 DEF Sent
  <2>7. Handed' /\ Held'
    BY <1>1, <1>2, <2>2, HandedFrame
  <2>8. QED
    BY <1>1, <2>2, <2>3, <2>6, <2>7, SubsOnly
<1>5. CASE \E s \in Subs : Subscribe(s)
  <2>1. PICK s \in Subs : Subscribe(s)
    BY <1>5
  <2> DEFINE f == Put(pm.subs, s, Empty)
  <2>2. /\ mu = "free" /\ mu' = "rpc" /\ rpc' = <<"sub", s, Status(pm.state)>>
        /\ pm' = [pm EXCEPT !.subs = f]
    BY <2>1 DEF Subscribe
  <2>3. f \in Partial(Subs, Messages)
    <3>1. Empty \in Messages
      BY EmptyType DEF Messages
    <3>2. QED
      BY <1>3, <3>1, PutType
  <2>4. \A x \in DOMAIN f \ {s} : x \in DOMAIN pm.subs /\ f[x] = pm.subs[x]
    BY DEF Put
  <2> HIDE DEF f
  <2>5. pm'.subs = f /\ pm'.state = pm.state
    BY <1>2, <2>2 DEF Managers
  <2>6. Sent'
    <3>1. rpc'[1] = "sub" /\ rpc'[2] = s /\ rpc'[3] = Status(pm.state)
      BY <2>2
    <3>2. QED
      BY <1>1, <1>2, <2>2, <2>4, <2>5, <3>1 DEF Sent
  <2>7. Handed' /\ Held'
    BY <1>1, <1>2, <2>2 DEF Handed, Held
  <2>8. QED
    BY <1>1, <2>2, <2>3, <2>6, <2>7, SubsOnly
<1>6. CASE SubscribeDone
  <2> DEFINE message == ShowState(rpc[3])
             f == Put(pm.subs, rpc[2], message)
  <2>1. /\ mu # "run" /\ rpc # <<>> /\ rpc[1] = "sub" /\ mu' = "free" /\ rpc' = <<>>
        /\ pm' = [pm EXCEPT !.subs = f]
    BY <1>6 DEF SubscribeDone
  <2>2. mu = "rpc" /\ rpc[2] \in Subs /\ rpc[3] = Status(pm.state)
    BY <1>2, <2>1 DEF Held, Handed, Sent
  <2>3. message \in Messages /\ Plain(message) = Plain(Status(pm.state))
    <3>1. Status(pm.state) \in Partial(Ports \ Internal, Statuses)
      BY <1>3, WithoutType DEF Status
    <3>2. QED
      BY <2>2, <3>1, ShowType
  <2> HIDE DEF message
  <2>4. f \in Partial(Subs, Messages)
    BY <1>3, <2>2, <2>3, PutType
  <2>5. f[rpc[2]] = message /\ \A x \in DOMAIN f \ {rpc[2]} : x \in DOMAIN pm.subs /\ f[x] = pm.subs[x]
    BY DEF Put
  <2> HIDE DEF f
  <2>6. pm'.subs = f /\ pm'.state = pm.state
    BY <1>2, <2>1 DEF Managers
  <2>7. pc # "notify"
    BY <1>2, <2>2 DEF Held
  <2>8. \A x \in DOMAIN f : Plain(f[x]) = Plain(Status(pm.state))
    BY <1>2, <2>3, <2>5, <2>7 DEF Sent
  <2>9. Sent'
    BY <1>1, <2>1, <2>6, <2>7, <2>8 DEF Sent
  <2>10. Handed' /\ Held'
    BY <1>1, <1>2, <2>1, <2>2 DEF Handed, Held
  <2>11. QED
    BY <1>1, <2>1, <2>4, <2>9, <2>10, SubsOnly
<1>7. QED
  BY <1>4, <1>5, <1>6

\* Processes listen, the observer of the served ports looks, and Run is cancelled.
LEMMA WorldInv ==
    ASSUME PInv,
           \/ Poll \/ Cancel \/ UNCHANGED vars
           \/ \E p \in Ports, how \in {"none", "local", "any"} : Listen(p, how)
    PROVE  PInv'
<1>1. UNCHANGED <<server, pm, tun, exp, pc, inbox, mu, rpc, expose, user>>
  BY DEF Poll, Cancel, Listen, vars
<1>2. sock' \in [Ports -> {"none", "local", "any"}]
  <2>1. sock \in [Ports -> {"none", "local", "any"}]
    BY DEF PInv, PTyped
  <2>2. QED
    BY <2>1 DEF Poll, Cancel, Listen, vars
<1>3. PTyped'
  BY <1>1, <1>2, HandedFrame DEF PInv, PTyped
<1>4. QED
  BY <1>1, <1>3, SentFrame, OwnedFrame DEF PInv

\* The manager starts with the internal tunnels and nothing else.
LEMMA PInit == Init => PInv
<1> SUFFICES ASSUME Init PROVE PInv
  OBVIOUS
<1> DEFINE host == [p \in Internal |-> [vis |-> "host", map |-> 0]]
<1>1. host \in Partial(Ports, Tunnels) /\ DOMAIN host = Internal
  <2>1. DOMAIN host \subseteq Ports /\ host \in [DOMAIN host -> Tunnels] /\ DOMAIN host = Internal
    BY PortsAssumption DEF Tunnels
  <2>2. QED
    BY <2>1, PartialDef
<1>2. \A D, X : Empty \in Partial(D, X) /\ DOMAIN Empty = {}
  BY EmptyType
<1>3. pm \in Managers /\ pm.subs = Empty /\ pm.autoTunneled = {} /\ pm.enabled
  <2> DEFINE none == [p \in Ports |-> "none"]
  <2>1. none \in [Ports -> {"none", "local", "any"}]
    OBVIOUS
  <2>2. pm = [configs |-> Empty, exposed |-> {}, served |-> none,
              tunneled |-> Empty, proxies |-> {}, auto |-> Empty, autoTunneled |-> {},
              enabled |-> TRUE, state |-> Empty, subs |-> Empty, closed |-> FALSE, force |-> FALSE]
    BY DEF Init
  <2>3. /\ Empty \in Partial(Ports, Tunnels) /\ Empty \in Partial(Ports \ Internal, AutoRecords)
        /\ Empty \in Partial(Ports \ Internal, Statuses)
        /\ Empty \in Partial(Subs, Messages)
    BY <1>2
  <2> HIDE DEF none
  <2>4. QED
    BY <2>1, <2>2, <2>3 DEF Managers
<1>4. tun \in Services /\ tun.tunnels = host
  <2>1. tun = [tunnels |-> host, clients |-> {}, conns |-> {}, made |-> 0, obs |-> "send", list |-> host]
    BY DEF Init
  <2> HIDE DEF host
  <2>2. QED
    BY <1>1, <2>1 DEF Services
<1>5. exp \in Exposers
  BY DEF Init, Exposers
<1>6. user = Empty /\ user \in Partial(Ports \ Internal, Vis)
  BY <1>2 DEF Init
<1>7. Handed /\ Held
  BY DEF Init, Handed, Held
<1>8. sock \in [Ports -> {"none", "local", "any"}] /\ server \subseteq Exposures
  BY DEF Init
<1>9. Owned
  BY <1>1, <1>2, <1>3, <1>4, <1>6 DEF Owned, UserTunnelKept
<1>10. Sent
  BY <1>2, <1>3 DEF Init, Sent
<1>11. QED
  BY <1>3, <1>4, <1>5, <1>6, <1>7, <1>8, <1>9, <1>10 DEF PInv, PTyped

\* Every step keeps the invariant.
LEMMA PStep == PInv /\ [Next]_vars => PInv'
<1> SUFFICES ASSUME PInv, [Next]_vars PROVE PInv'
  OBVIOUS
<1>1. CASE ObserveServer \/ ObserveNotice
  BY <1>1, ObserveInv
<1>2. CASE OpenPort \/ OpenPortFails \/ \E p \in Ports : LocalDone(p)
  BY <1>2, AnswerInv
<1>3. CASE \/ ReceiveServed \/ ReceiveExposed \/ ReceiveTunneled \/ ReceiveForce
           \/ \E f \in ConfigFiles : ReceiveConfig(f)
  BY <1>3, ReceiveInv
<1>4. CASE UpdateState \/ UpdateServedSame
  BY <1>4, UpdateInv
<1>5. CASE UpdateServed
  BY <1>5, UpdateServedInv
<1>6. CASE UpdateTunnels
  BY <1>6, UpdateTunnelsInv
<1>7. CASE Return \/ MarkClosed \/ Stop
  BY <1>7, EndInv
<1>8. CASE TunnelDone
  BY <1>8, TunnelDoneInv
<1>9. CASE AutoTunnelDone \/ AutoTunnelClosed
  BY <1>9, AutoTunnelDoneInv, AutoTunnelClosedInv
<1>10. CASE \/ Poll \/ Cancel \/ UNCHANGED vars
            \/ \E p \in Ports, how \in {"none", "local", "any"} : Listen(p, how)
  BY <1>10, WorldInv
<1>11. CASE \/ SubscribeDone
            \/ \E s \in Subs : CloseSub(s) \/ Subscribe(s) \/ Unsubscribe(s) \/ Notify(s)
  BY <1>11, SubsInv, NotifyInv
<1>12. CASE \/ \E p \in Ports : Expose(p) \/ RetryAutoExpose(p)
            \/ \E x \in expose : ExposeAppend(x)
            \/ \E x \in server : Unexpose(x)
  BY <1>12, ExposeInv
<1>13. CASE \/ ObserveTunnels
            \/ \E x \in tun.conns : CloseConn(x)
            \/ \E p \in Ports : CloseTunnel(p) \/ \E c \in Clients : EstablishTunnel(c, p)
  BY <1>13, TunnelInv
<1>14. CASE \/ \E b \in BOOLEAN : AutoTunnel(b)
            \/ \E p \in Ports, vis \in {"host", "network"} : Tunnel(p, vis)
  BY <1>14, CallInv
<1>15. QED
  BY <1>1, <1>2, <1>3, <1>4, <1>5, <1>6, <1>7, <1>8, <1>9, <1>10, <1>11, <1>12, <1>13, <1>14 DEF Next

\* In every state the program reaches.
LEMMA PAlways == Spec => []PInv
<1>1. QED
  BY PInit, PStep, PTL DEF Spec

-----------------------------------------------------------------------------
(* Theorems.                                                               *)

\* The fields have their types, and the lock is held by whom it seems to be held.
THEOREM PortsTypeCorrect == Spec => []TypeOK
<1>1. ASSUME PInv PROVE TypeOK
  <2>1. pm \in Managers /\ tun \in Services /\ exp \in Exposers /\ Held
        /\ sock \in [Ports -> {"none", "local", "any"}] /\ server \subseteq Exposures
    BY <1>1 DEF PInv, PTyped
  <2>2. /\ pm.auto \in Partial(Ports \ Internal, AutoRecords)
        /\ pm.state \in Partial(Ports \ Internal, Statuses)
        /\ pm.subs \in Partial(Subs, Messages)
        /\ tun.tunnels \in Partial(Ports, Tunnels)
    BY <2>1 DEF Managers, Services
  <2>3. DOMAIN pm.auto \subseteq Ports \ Internal /\ \A p \in DOMAIN pm.auto : pm.auto[p] \in AutoRecords
    BY <2>2, PartialDef
  <2>4. DOMAIN pm.state \subseteq Ports \ Internal /\ \A p \in DOMAIN pm.state : pm.state[p] \in Statuses
    BY <2>2, PartialDef
  <2>5. DOMAIN pm.subs \subseteq Subs /\ DOMAIN tun.tunnels \subseteq Ports
    BY <2>2, PartialDef
  <2>6. /\ exp.last \subseteq Exposures /\ pm.exposed \subseteq Exposures
        /\ pm.autoTunneled \subseteq Ports \ Internal /\ tun.obs \in {"wait", "woken", "send"}
    BY <2>1 DEF Managers, Services, Exposers
  <2>7. QED
    BY <2>1, <2>3, <2>4, <2>5, <2>6 DEF TypeOK, Held
<1>2. QED
  BY <1>1, PAlways, PTL

\* A subscriber that is still open was last sent the status that holds now, but for the clients
\* of the tunnels, however Subscribe, the updates and the calls of clients interleave.
THEOREM SubscribersAreCurrent == Spec => []SubscribersCurrent
<1>1. ASSUME PInv PROVE SubscribersCurrent
  BY <1>1 DEF PInv, PTyped, Held, Sent, SubscribersCurrent
<1>2. QED
  BY <1>1, PAlways, PTL

\* A client's tunnel stays open as asked until a client closes it.
THEOREM ClientTunnelsKept == Spec => []UserTunnelKept
<1>1. ASSUME PInv PROVE UserTunnelKept
  BY <1>1 DEF PInv, Owned
<1>2. QED
  BY <1>1, PAlways, PTL

\* AutoTunnel(false) leaves no automatic tunnel behind.
THEOREM NoAutomaticTunnelLeft == Spec => []AutoOffClosesAll
<1>1. ASSUME PInv PROVE AutoOffClosesAll
  BY <1>1 DEF PInv, PTyped, Owned, Held, AutoOffClosesAll
<1>2. QED
  BY <1>1, PAlways, PTL
=============================================================================
