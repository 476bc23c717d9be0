------------------------------- MODULE Ports -------------------------------
(***************************************************************************)
(* The port manager of the workspace supervisor                            *)
(* (environments/supervisor/pkg/ports): the loop of Manager.Run, which     *)
(* merges what four observers report, the tunnel service with its          *)
(* condition variable, the exposure of ports through the server, and the   *)
(* calls that clients make meanwhile.                                      *)
(*                                                                         *)
(* Two locks matter: Manager.mu, and the lock of the tunnel service, which *)
(* its observer keeps while it waits for Run to take a list (tun.obs =     *)
(* "send").  A step is a section under one lock, or one receive of Run's   *)
(* select.  An update of Run that finds other served ports is split at the *)
(* call of the tunnel service and before each message to a subscriber, and *)
(* so are the calls that hold mu meanwhile.                                *)
(*                                                                         *)
(* The map of a tunnel's clients is not copied: the tunnel, the list that  *)
(* Run keeps and the state of the ports share it, so a tunnel has the      *)
(* number of its map, and a comparison or a message shows what is in it.   *)
(*                                                                         *)
(* Left out: names, descriptions and URLs; the target port of a tunnel.    *)
(* The six attempts of an OpenPort are one step with either result.        *)
(***************************************************************************)
EXTENDS Integers, FiniteSets, Sequences, SequencesExt

CONSTANTS
    Ports,          \* port numbers
    Internal,       \* the supervisor's own ports
    Early,          \* ports processes serve on localhost when Run starts
    Clients,        \* tunnel clients
    Subs,           \* subscribers of the status
    ConfigFiles,    \* the port sections a .gitpod.yml may have
    MaxSubs,        \* maxSubscriptions (100)
    MaxOps          \* bound: inputs from clients, processes and the server

Conf == [kind : {"port", "range"}, visibility : {"public", "private", "unset"},
         https : BOOLEAN, ignore : BOOLEAN]
Exposures == [port : Ports, public : BOOLEAN, https : BOOLEAN]

ASSUME PortsAssumption ==
    /\ IsFiniteSet(Ports) /\ Internal \subseteq Ports /\ Early \subseteq Ports \ Internal
    /\ MaxSubs \in Nat /\ MaxOps \in Nat
    /\ \A f \in ConfigFiles : DOMAIN f \subseteq Ports /\ \A p \in DOMAIN f : f[p] \in Conf

VARIABLES
    sock,       \* how processes listen: "none", "local" (loopback) or "any"
    server,     \* the exposures the server knows
    pm,         \* the fields of Manager
    tun,        \* the fields of TunneledPortsService and its observer
    exp,        \* the fields of GitpodExposedPorts and its observer
    polled,     \* the list the served ports observer is sending, {} for none
    pc,         \* where Run is
    inbox,      \* the update Run has received: <<kind, value>>
    mu,         \* who holds Manager.mu: "free", "run" or "rpc"
    rpc,        \* the call that holds mu, and what it has still to do
    expose,     \* calls of Expose past the lock, appending to the local list
    over,       \* whether the context of Run is cancelled
    user,       \* history: the tunnels opened by clients, as asked
    ops         \* inputs so far

vars == <<sock, server, pm, tun, exp, polled, pc, inbox, mu, rpc, expose, over, user, ops>>

Empty == [x \in {} |-> x]
Put(f, x, v) == [y \in DOMAIN f \cup {x} |-> IF y = x THEN v ELSE f[y]]
Without(f, S) == [y \in DOMAIN f \ S |-> f[y]]

Init ==
    /\ sock = [p \in Ports |->
                 IF p \in Internal THEN "any" ELSE IF p \in Early THEN "local" ELSE "none"]
    /\ server = {}
    /\ pm = [configs |-> Empty, exposed |-> {}, served |-> [p \in Ports |-> "none"],
             tunneled |-> Empty, proxies |-> {}, auto |-> Empty, autoTunneled |-> {},
             enabled |-> TRUE, state |-> Empty, subs |-> Empty, closed |-> FALSE,
             force |-> FALSE]
    /\ LET own == [p \in Internal |-> [vis |-> "host", map |-> 0]]
       IN tun = [tunnels |-> own, clients |-> {}, conns |-> {}, made |-> 0,
                 obs |-> "send", list |-> own]
    /\ exp = [local |-> {}, notice |-> FALSE, last |-> {}, out |-> <<>>, requests |-> <<>>]
    /\ polled = {} /\ pc = "select" /\ inbox = <<>> /\ mu = "free" /\ rpc = <<>>
    /\ expose = {} /\ over = FALSE /\ user = Empty /\ ops = 0

----------------------------------------------------------------------------
(* Requests to expose a port. *)

IsLocal(x) == ~x.public /\ ~x.https

\* GitpodExposedPorts.Expose for a set of ports, called by autoExpose under mu: a
\* private http port goes to the local list, any other one to the server, one
\* request after the other.  The order among several ports is that of a map.
Submit(e, xs) ==
    LET fresh == {x.port : x \in {y \in xs : IsLocal(y)}} \ e.local
        asked == {[port |-> x.port, public |-> x.public, https |-> x.https, auto |-> TRUE] :
                     x \in {y \in xs : ~IsLocal(y)}}
    IN [e EXCEPT !.local = @ \cup fresh, !.notice = @ \/ fresh # {},
                 !.requests = @ \o SetToSeq(asked)]

\* What Observe makes of the local list and the ports of the server.
Mixin(local, srv) ==
    srv \cup {[port |-> p, public |-> FALSE, https |-> FALSE] : p \in local \ {x.port : x \in srv}}

\* Observe receives an update of the workspace.
ObserveServer ==
    /\ exp.out = <<>> /\ server # exp.last /\ ~over
    /\ exp' = [exp EXCEPT !.last = server, !.out = <<Mixin(exp.local, server)>>]
    /\ UNCHANGED <<sock, server, pm, tun, polled, pc, inbox, mu, rpc, expose, over, user, ops>>

\* Observe receives a notice about the local list.
ObserveNotice ==
    /\ exp.out = <<>> /\ exp.notice /\ ~over
    /\ exp' = [exp EXCEPT !.notice = FALSE, !.out = <<Mixin(exp.local, exp.last)>>]
    /\ UNCHANGED <<sock, server, pm, tun, polled, pc, inbox, mu, rpc, expose, over, user, ops>>

Opened(srv, r) == {x \in srv : x.port # r.port}
                  \cup {[port |-> r.port, public |-> r.public, https |-> r.https]}

\* The result of an automatic exposure, set by the goroutine of autoExpose.
Result(m, r, st) == IF r.auto THEN [m EXCEPT !.auto[r.port].st = st] ELSE m

\* doExpose: OpenPort succeeds at some attempt.
OpenPort ==
    /\ exp.requests # <<>> /\ pc # "stopped"
    /\ server' = Opened(server, Head(exp.requests))
    /\ pm' = Result(pm, Head(exp.requests), "succeeded")
    /\ exp' = [exp EXCEPT !.requests = Tail(@)]
    /\ UNCHANGED <<sock, tun, polled, pc, inbox, mu, rpc, expose, over, user, ops>>

\* doExpose: the last attempt fails, or only its answer is lost.
OpenPortFails ==
    /\ exp.requests # <<>> /\ pc # "stopped"
    /\ server' \in {server, Opened(server, Head(exp.requests))}
    /\ pm' = Result(pm, Head(exp.requests), "failed")
    /\ exp' = [exp EXCEPT !.requests = Tail(@)]
    /\ UNCHANGED <<sock, tun, polled, pc, inbox, mu, rpc, expose, over, user, ops>>

\* The closed channel of a local exposure reaches the goroutine of autoExpose.
LocalDone(p) ==
    /\ p \in DOMAIN pm.auto /\ pm.auto[p].st = "trying"
    /\ ~pm.auto[p].public /\ ~pm.auto[p].https
    /\ pm' = [pm EXCEPT !.auto[p].st = "succeeded"]
    /\ UNCHANGED <<sock, server, tun, exp, polled, pc, inbox, mu, rpc, expose, over, user, ops>>

----------------------------------------------------------------------------
(* Tunnels. *)

Wake(obs, changed) == IF changed /\ obs = "wait" THEN "woken" ELSE obs

\* TunneledPortsService.Tunnel for ports whose description is taken over; one without
\* a tunnel gets a new one, with a map of clients of its own.
Open(t, ps, vis) ==
    [t EXCEPT !.tunnels = [p \in DOMAIN @ \cup ps |->
                             IF p \notin ps THEN @[p]
                             ELSE [vis |-> vis,
                                   map |-> IF p \in DOMAIN @ THEN @[p].map ELSE t.made + 1]],
              !.made = IF ps \subseteq DOMAIN t.tunnels THEN @ ELSE @ + 1,
              !.obs = Wake(@, ps # {})]

\* TunneledPortsService.CloseTunnel, as far as it holds its lock: the connections of
\* the tunnels are closed afterwards, one after the other.
Close(t, ps) ==
    [t EXCEPT !.tunnels = Without(@, ps), !.obs = Wake(@, ps \cap DOMAIN t.tunnels # {})]

Unlocked(t) == t.obs # "send"

\* autoTunnel: the ports it opens (SkipIfExists).
NewTunnels(m, t) == {p \in Ports \ Internal : m.served[p] # "none"}
                        \ (m.autoTunneled \cup DOMAIN t.tunnels)

AutoTunneled(m, t) ==
    [m EXCEPT !.autoTunneled = IF m.enabled THEN @ \cup NewTunnels(m, t) ELSE {}]

AutoTunnels(m, t) ==
    IF m.enabled THEN Open(t, NewTunnels(m, t), "host") ELSE Close(t, m.autoTunneled)

\* The connections that autoTunnel has to close.
Closing(m, t) ==
    IF m.enabled THEN {}
    ELSE {x \in t.conns : /\ ~x.closed /\ x.port \in m.autoTunneled \cap DOMAIN t.tunnels
                          /\ x.map = t.tunnels[x.port].map}

\* Observe of the tunnels wakes up, and keeps the lock while it sends the list.
ObserveTunnels ==
    /\ tun.obs = "woken" /\ ~over
    /\ tun' = [tun EXCEPT !.obs = "send", !.list = tun.tunnels]
    /\ UNCHANGED <<sock, server, pm, exp, polled, pc, inbox, mu, rpc, expose, over, user, ops>>

----------------------------------------------------------------------------
(* The state of the ports and its subscribers. *)

Exposed(m, p) == {x \in m.exposed : x.port = p}
PortConfigKind(m, p) == p \in DOMAIN m.configs /\ m.configs[p].kind = "port"
Ignored(m, p) == p \in DOMAIN m.configs /\ m.configs[p].ignore

\* Wrong: without boundInternally.
ManagedAll(m) == {p \in Ports :
    Exposed(m, p) # {} \/ p \in DOMAIN m.tunneled \/ PortConfigKind(m, p) \/ m.served[p] # "none"}

\* The ports nextState captures.
Managed(m) == {p \in Ports \ Internal :
    Exposed(m, p) # {} \/ p \in DOMAIN m.tunneled \/ PortConfigKind(m, p) \/ m.served[p] # "none"}

\* The ports nextState exposes: configured and not exposed yet, or served and not
\* exposed yet or exposed with https; each only once.
ToExpose(m) == {p \in Managed(m) \ DOMAIN m.auto :
    \/ PortConfigKind(m, p) /\ Exposed(m, p) = {}
    \/ m.served[p] # "none" /\ \A x \in Exposed(m, p) : x.https}

\* With which visibility and protocol.
Wanted(m, p) ==
    IF Exposed(m, p) # {} THEN CHOOSE x \in Exposed(m, p) : TRUE
    ELSE [port |-> p,
          public |-> p \in DOMAIN m.configs /\ m.configs[p].visibility = "public",
          https |-> p \in DOMAIN m.configs /\ m.configs[p].https]

Trying(m) == [p \in DOMAIN m.auto \cup ToExpose(m) |->
    IF p \in DOMAIN m.auto THEN m.auto[p]
    ELSE [st |-> "trying", public |-> Wanted(m, p).public, https |-> Wanted(m, p).https]]

NextState(m) == [p \in Managed(m) |->
    [served |-> m.served[p] # "none",
     exposed |-> Exposed(m, p),
     tunnel |-> {m.tunneled[q] : q \in {p} \cap DOMAIN m.tunneled},
     auto |-> IF (PortConfigKind(m, p) \/ m.served[p] # "none") /\ p \in DOMAIN Trying(m)
              THEN Trying(m)[p].st ELSE "none",
     ignored |-> Ignored(m, p)]]

\* getStatus.
Status(state) == Without(state, {p \in DOMAIN state : state[p].ignored})

\* A tunnel with the clients that are in its map now, and the same for a list of
\* tunnels and for a state of the ports.
Show(p, x) == [vis |-> x.vis, clients |-> {c \in Clients : <<p, x.map, c>> \in tun.clients}]
ShowList(list) == [p \in DOMAIN list |-> Show(p, list[p])]
ShowState(state) ==
    [p \in DOMAIN state |-> [state[p] EXCEPT !.tunnel = {Show(p, x) : x \in @}]]

\* The end of updateState: the next state, with the exposures it starts.  The status
\* goes to the subscribers when reflect.DeepEqual, which looks into the maps, finds a
\* change or a configuration was received; mu is kept for that.
Finish(m, configured) ==
    LET next == NextState(m)
    IN /\ pm' = [m EXCEPT !.auto = Trying(m), !.state = next]
       /\ exp' = Submit(exp, {Wanted(m, p) : p \in ToExpose(m)})
       /\ IF /\ DOMAIN m.subs # {}
             /\ configured \/ ShowState(next) # ShowState(m.state)
          THEN pc' = "notify" /\ mu' = "run" /\ inbox' = <<"notify", DOMAIN m.subs, Status(next)>>
          ELSE pc' = "select" /\ mu' = "free" /\ inbox' = <<>>

\* One subscriber is sent the status, or is closed, when its channel stays full for
\* five seconds.
Notify(s) ==
    /\ pc = "notify" /\ s \in inbox[2]
    /\ \/ pm' = [pm EXCEPT !.subs[s] = ShowState(inbox[3])]
       \/ pm' = [pm EXCEPT !.subs = Without(@, {s})]
    /\ IF inbox[2] = {s} THEN pc' = "select" /\ mu' = "free" /\ inbox' = <<>>
       ELSE inbox' = <<"notify", inbox[2] \ {s}, inbox[3]>> /\ UNCHANGED <<pc, mu>>
    /\ UNCHANGED <<sock, server, tun, exp, polled, rpc, expose, over, user, ops>>

----------------------------------------------------------------------------
(* Run: the select and updateState. *)

Receive(kind, value) ==
    /\ pc = "select"
    /\ pc' = "got" /\ inbox' = <<kind, value>>

ReceiveServed ==
    /\ Receive("served", polled) /\ polled # {}
    /\ polled' = {}
    /\ UNCHANGED <<sock, server, pm, tun, exp, mu, rpc, expose, over, user, ops>>

ReceiveExposed ==
    /\ Receive("exposed", exp.out) /\ exp.out # <<>>
    /\ exp' = [exp EXCEPT !.out = <<>>]
    /\ UNCHANGED <<sock, server, pm, tun, polled, mu, rpc, expose, over, user, ops>>

\* The observer of the tunnels goes on to wait, which releases its lock.
ReceiveTunneled ==
    /\ Receive("tunneled", tun.list) /\ tun.obs = "send"
    /\ tun' = [tun EXCEPT !.obs = "wait", !.list = Empty]
    /\ UNCHANGED <<sock, server, pm, exp, polled, mu, rpc, expose, over, user, ops>>

ReceiveForce ==
    /\ Receive("force", 0) /\ pm.force
    /\ pm' = [pm EXCEPT !.force = FALSE]
    /\ UNCHANGED <<sock, server, tun, exp, polled, mu, rpc, expose, over, user, ops>>

\* The configuration file changed (the config service sends what it parsed).
ReceiveConfig(f) ==
    /\ Receive("config", f) /\ f # pm.configs /\ ops < MaxOps /\ ~over
    /\ ops' = ops + 1
    /\ UNCHANGED <<sock, server, pm, tun, exp, polled, mu, rpc, expose, over, user>>

\* The list of tunnels updateState keeps: a new one that shows the same only when the
\* order differs, which is that of a map.
Kept(list) ==
    IF ShowList(list) # ShowList(pm.tunneled) THEN {list}
    ELSE IF Cardinality(DOMAIN list) > 1 THEN {list, pm.tunneled} ELSE {pm.tunneled}

\* The fields of Manager with what was received.
Merged ==
    CASE inbox[1] = "exposed" -> {[pm EXCEPT !.exposed = inbox[2][1]]}
      [] inbox[1] = "tunneled" -> {[pm EXCEPT !.tunneled = list] : list \in Kept(inbox[2])}
      [] inbox[1] = "config" -> {[pm EXCEPT !.configs = inbox[2]]}
      [] OTHER -> {pm}

\* updateState with exposed or tunneled ports, a configuration, or none of them.
UpdateState ==
    /\ pc = "got" /\ mu = "free" /\ inbox[1] # "served"
    /\ \E m \in Merged : Finish(m, inbox[1] = "config")
    /\ UNCHANGED <<sock, server, tun, polled, rpc, expose, over, user, ops>>

\* The served ports updateState makes of a list: the entries of its own proxies and
\* ignored ports are left out, and an entry not bound to localhost wins.
Served(m, entries) == [p \in Ports |->
    LET addrs == {a \in {"local", "any", "ws"} :
                     <<p, a>> \in entries /\ ~(a = "ws" /\ p \in m.proxies)}
    IN IF Ignored(m, p) \/ addrs = {} THEN "none"
       ELSE IF addrs = {"local"} THEN "local" ELSE "any"]

\* updateState with a list that says nothing new.
UpdateServedSame ==
    /\ pc = "got" /\ mu = "free" /\ inbox[1] = "served"
    /\ Served(pm, inbox[2]) = pm.served
    /\ Finish(pm, FALSE)
    /\ UNCHANGED <<sock, server, tun, polled, rpc, expose, over, user, ops>>

\* updateState stores the new list, with updateProxies, and goes on to autoTunnel.
UpdateServed ==
    /\ pc = "got" /\ mu = "free" /\ inbox[1] = "served"
    /\ LET new == Served(pm, inbox[2])
       IN /\ new # pm.served
          /\ pm' = [pm EXCEPT !.served = new, !.proxies = {p \in Ports : new[p] = "local"}]
    /\ pc' = "tunnel" /\ mu' = "run"
    /\ UNCHANGED <<sock, server, tun, exp, polled, inbox, rpc, expose, over, user, ops>>

\* autoTunnel, which needs the lock of the tunnel service, and the rest.
UpdateTunnels ==
    /\ pc = "tunnel" /\ Unlocked(tun)
    /\ tun' = AutoTunnels(pm, tun)
    /\ Finish(AutoTunneled(pm, tun), FALSE)
    /\ UNCHANGED <<sock, server, polled, rpc, expose, over, user, ops>>

\* Run finds the channel of an observer closed and returns.
Return ==
    /\ pc = "select" /\ over
    /\ pc' = "ending"
    /\ UNCHANGED <<sock, server, pm, tun, exp, polled, inbox, mu, rpc, expose, over, user, ops>>

MarkClosed ==
    /\ pc = "ending" /\ mu = "free"
    /\ pm' = [pm EXCEPT !.closed = TRUE]
    /\ pc' = "closing"
    /\ UNCHANGED <<sock, server, tun, exp, polled, inbox, mu, rpc, expose, over, user, ops>>

CloseSub(s) ==
    /\ pc = "closing" /\ mu = "free" /\ s \in DOMAIN pm.subs
    /\ pm' = [pm EXCEPT !.subs = Without(@, {s})]
    /\ UNCHANGED <<sock, server, tun, exp, polled, pc, inbox, mu, rpc, expose, over, user, ops>>

\* Wrong: the subscriptions stay open.
StopAtOnce ==
    /\ pc = "closing"
    /\ pc' = "stopped"
    /\ UNCHANGED <<sock, server, pm, tun, exp, polled, inbox, mu, rpc, expose, over, user, ops>>

Stop ==
    /\ pc = "closing" /\ DOMAIN pm.subs = {}
    /\ pc' = "stopped"
    /\ UNCHANGED <<sock, server, pm, tun, exp, polled, inbox, mu, rpc, expose, over, user, ops>>

----------------------------------------------------------------------------
(* The calls of clients. *)

\* Wrong: the port stays among the automatic tunnels.
TunnelledKeeps(p, vis) ==
    /\ pm' = pm
    /\ user' = Put(user, p, vis)

\* What Manager.Tunnel records once the tunnel is open.
Tunnelled(p, vis) ==
    /\ pm' = [pm EXCEPT !.autoTunneled = @ \ {p}]
    /\ user' = Put(user, p, vis)

\* Manager.Tunnel takes mu.
Tunnel(p, vis) ==
    /\ mu = "free" /\ p \notin Internal /\ ops < MaxOps
    /\ mu' = "rpc" /\ rpc' = <<"tunnel", p, vis>> /\ ops' = ops + 1
    /\ UNCHANGED <<sock, server, pm, tun, exp, polled, pc, inbox, expose, over, user>>

TunnelDone ==
    /\ mu = "rpc" /\ rpc[1] = "tunnel" /\ Unlocked(tun)
    /\ tun' = Open(tun, {rpc[2]}, rpc[3])
    /\ Tunnelled(rpc[2], rpc[3])
    /\ mu' = "free" /\ rpc' = <<>>
    /\ UNCHANGED <<sock, server, exp, polled, pc, inbox, expose, over, ops>>

\* Manager.AutoTunnel takes mu.
AutoTunnel(enabled) ==
    /\ mu = "free" /\ ops < MaxOps
    /\ pm' = [pm EXCEPT !.enabled = enabled]
    /\ mu' = "rpc" /\ rpc' = <<"auto">> /\ ops' = ops + 1
    /\ UNCHANGED <<sock, server, tun, exp, polled, pc, inbox, expose, over, user>>

\* The call returns, or has connections to close first.
AutoTunnelLeaves(left) ==
    IF left = {} THEN mu' = "free" /\ rpc' = <<>> ELSE mu' = "rpc" /\ rpc' = <<"close", left>>

\* Wrong: the tunnels are forgotten and stay open.
AutoTunnelDoneForgets ==
    /\ mu = "rpc" /\ rpc[1] = "auto" /\ Unlocked(tun)
    /\ tun' = IF pm.enabled THEN AutoTunnels(pm, tun) ELSE tun
    /\ pm' = AutoTunneled(pm, tun)
    /\ AutoTunnelLeaves(Closing(pm, tun))
    /\ UNCHANGED <<sock, server, exp, polled, pc, inbox, expose, over, user, ops>>

AutoTunnelDone ==
    /\ mu = "rpc" /\ rpc[1] = "auto" /\ Unlocked(tun)
    /\ tun' = AutoTunnels(pm, tun)
    /\ pm' = AutoTunneled(pm, tun)
    /\ AutoTunnelLeaves(Closing(pm, tun))
    /\ UNCHANGED <<sock, server, exp, polled, pc, inbox, expose, over, user, ops>>

\* The last connection is closed, and AutoTunnel returns.
AutoTunnelClosed ==
    /\ mu = "rpc" /\ rpc[1] = "close" /\ rpc[2] \cap tun.conns = {}
    /\ mu' = "free" /\ rpc' = <<>>
    /\ UNCHANGED <<sock, server, pm, tun, exp, polled, pc, inbox, expose, over, user, ops>>

\* Manager.CloseTunnel, which has given mu back before it closes.
CloseTunnel(p) ==
    /\ Unlocked(tun) /\ p \in DOMAIN tun.tunnels \ Internal /\ ops < MaxOps
    /\ tun' = Close(tun, {p})
    /\ user' = Without(user, {p})
    /\ ops' = ops + 1
    /\ UNCHANGED <<sock, server, pm, exp, polled, pc, inbox, mu, rpc, expose, over>>

\* A client may have several connections; each has a number of its own.
EstablishTunnel(c, p) ==
    /\ Unlocked(tun) /\ p \in DOMAIN tun.tunnels /\ sock[p] # "none" /\ ops < MaxOps
    /\ \E n \in {1} \cup {y.n + 1 : y \in tun.conns} :
          LET map == tun.tunnels[p].map
              conn == [port |-> p, map |-> map, client |-> c, n |-> n, closed |-> FALSE]
          IN /\ \A y \in tun.conns : y.n # n
             /\ tun' = [tun EXCEPT !.conns = @ \cup {conn}, !.clients = @ \cup {<<p, map, c>>},
                                   !.obs = Wake(@, TRUE)]
    /\ ops' = ops + 1
    /\ UNCHANGED <<sock, server, pm, exp, polled, pc, inbox, mu, rpc, expose, over, user>>

\* tunnelConn.Close with onDidClose, called by the client or by a CloseTunnel: with no
\* tunnel for the port it leaves the tables of its own tunnel as they are.
CloseConn(x) ==
    /\ x \in tun.conns /\ ~x.closed /\ Unlocked(tun)
    /\ LET others == {y \in tun.conns \ {x} :
                        y.port = x.port /\ y.map = x.map /\ y.client = x.client}
       IN tun' = IF x.port \notin DOMAIN tun.tunnels
                 THEN [tun EXCEPT !.conns = (@ \ {x}) \cup {[x EXCEPT !.closed = TRUE]}]
                 ELSE [tun EXCEPT !.conns = @ \ {x}, !.obs = Wake(@, TRUE),
                                  !.clients = IF others = {} THEN @ \ {<<x.port, x.map, x.client>>}
                                              ELSE @]
    /\ UNCHANGED <<sock, server, pm, exp, polled, pc, inbox, mu, rpc, expose, over, user, ops>>

\* A connection whose tunnel was closed: a CloseTunnel is about to close it.
Orphan(x) == x.port \in DOMAIN tun.tunnels => tun.tunnels[x.port].map # x.map

\* Manager.Expose reads the state, gives mu back and calls Expose of the exposed
\* ports: a request to the server, or a change of the local list without a lock.
\* A range without a visibility counts as public here.
Expose(p) ==
    /\ mu = "free" /\ ops < MaxOps
    /\ ~(p \in DOMAIN pm.state /\ pm.state[p].exposed # {})
    /\ ~PortConfigKind(pm, p)
    /\ LET x == [port |-> p, auto |-> FALSE,
                 public |-> p \in DOMAIN pm.configs /\ pm.configs[p].visibility # "private",
                 https |-> p \in DOMAIN pm.configs /\ pm.configs[p].https]
       IN IF IsLocal(x)
          THEN /\ p \notin exp.local
               /\ expose' = expose \cup {[port |-> p, seen |-> exp.local]} /\ exp' = exp
          ELSE exp' = [exp EXCEPT !.requests = Append(@, x)] /\ expose' = expose
    /\ ops' = ops + 1
    /\ UNCHANGED <<sock, server, pm, tun, polled, pc, inbox, mu, rpc, over, user>>

\* The append: when the list changed since it was read, either change may be lost.
ExposeAppend(x) ==
    /\ x \in expose
    /\ \E list \in IF exp.local = x.seen THEN {x.seen \cup {x.port}}
                   ELSE {x.seen \cup {x.port}, exp.local, exp.local \cup {x.port}} :
          exp' = [exp EXCEPT !.local = list, !.notice = TRUE]
    /\ expose' = expose \ {x}
    /\ UNCHANGED <<sock, server, pm, tun, polled, pc, inbox, mu, rpc, over, user, ops>>

RetryAutoExpose(p) ==
    /\ mu = "free" /\ ~over /\ ops < MaxOps
    /\ p \in DOMAIN pm.auto /\ pm.auto[p].st = "failed"
    /\ pm' = [pm EXCEPT !.auto[p].st = "trying", !.force = TRUE]
    /\ exp' = Submit(exp, {[port |-> p, public |-> pm.auto[p].public, https |-> pm.auto[p].https]})
    /\ ops' = ops + 1
    /\ UNCHANGED <<sock, server, tun, polled, pc, inbox, mu, rpc, expose, over, user>>

\* Wrong: the status is taken before the subscriber is known, and mu given back.
SubscribeLater(s) ==
    /\ mu = "free" /\ ~pm.closed /\ s \notin DOMAIN pm.subs
    /\ ~(Cardinality(DOMAIN pm.subs) > MaxSubs)
    /\ rpc' = <<"sub", s, Status(pm.state)>>
    /\ UNCHANGED <<sock, server, pm, tun, exp, polled, pc, inbox, mu, expose, over, user, ops>>

\* Subscribe: the subscriber is registered and getStatus is called.
Subscribe(s) ==
    /\ mu = "free" /\ ~pm.closed /\ s \notin DOMAIN pm.subs
    /\ ~(Cardinality(DOMAIN pm.subs) > MaxSubs)
    /\ pm' = [pm EXCEPT !.subs = Put(@, s, Empty)]
    /\ mu' = "rpc" /\ rpc' = <<"sub", s, Status(pm.state)>>
    /\ UNCHANGED <<sock, server, tun, exp, polled, pc, inbox, expose, over, user, ops>>

\* Subscribe puts the initial status into the channel, which is empty, and returns.
SubscribeDone ==
    /\ mu # "run" /\ rpc # <<>> /\ rpc[1] = "sub"
    /\ pm' = [pm EXCEPT !.subs = Put(@, rpc[2], ShowState(rpc[3]))]
    /\ mu' = "free" /\ rpc' = <<>>
    /\ UNCHANGED <<sock, server, tun, exp, polled, pc, inbox, expose, over, user, ops>>

\* Subscription.Close(true).
Unsubscribe(s) ==
    /\ mu = "free" /\ s \in DOMAIN pm.subs
    /\ pm' = [pm EXCEPT !.subs = Without(@, {s})]
    /\ UNCHANGED <<sock, server, tun, exp, polled, pc, inbox, mu, rpc, expose, over, user, ops>>

----------------------------------------------------------------------------
(* The environment and the observer of the served ports. *)

\* A process starts to listen, or stops.  The manager's proxy keeps the port of the
\* workspace address.
Listen(p, how) ==
    /\ p \notin Internal /\ how # sock[p] /\ ops < MaxOps
    /\ how = "any" => p \notin pm.proxies
    /\ sock' = [sock EXCEPT ![p] = how]
    /\ ops' = ops + 1
    /\ UNCHANGED <<server, pm, tun, exp, polled, pc, inbox, mu, rpc, expose, over, user>>

\* Somebody closes an exposed port at the server.
Unexpose(x) ==
    /\ x \in server /\ ops < MaxOps
    /\ server' = server \ {x}
    /\ ops' = ops + 1
    /\ UNCHANGED <<sock, pm, tun, exp, polled, pc, inbox, mu, rpc, expose, over, user>>

\* PollingServedPortsObserver reads /proc/net/tcp: the listeners of the processes
\* and those of the manager's proxies; an empty list is not sent.
Poll ==
    /\ polled = {} /\ ~over
    /\ polled' = {<<p, sock[p]>> : p \in {q \in Ports : sock[q] # "none"}}
                     \cup {<<p, "ws">> : p \in pm.proxies}
    /\ UNCHANGED <<sock, server, pm, tun, exp, pc, inbox, mu, rpc, expose, over, user, ops>>

Cancel ==
    /\ ~over
    /\ over' = TRUE
    /\ UNCHANGED <<sock, server, pm, tun, exp, polled, pc, inbox, mu, rpc, expose, user, ops>>

----------------------------------------------------------------------------

Next ==
    \/ ObserveServer \/ ObserveNotice \/ OpenPort \/ OpenPortFails \/ ObserveTunnels
    \/ ReceiveServed \/ ReceiveExposed \/ ReceiveTunneled \/ ReceiveForce
    \/ UpdateState \/ UpdateServedSame \/ UpdateServed \/ UpdateTunnels
    \/ Return \/ MarkClosed \/ Stop
    \/ TunnelDone \/ AutoTunnelDone \/ AutoTunnelClosed \/ SubscribeDone \/ Poll \/ Cancel
    \/ \E f \in ConfigFiles : ReceiveConfig(f)
    \/ \E b \in BOOLEAN : AutoTunnel(b)
    \/ \E s \in Subs : CloseSub(s) \/ Subscribe(s) \/ Unsubscribe(s) \/ Notify(s)
    \/ \E x \in tun.conns : CloseConn(x)
    \/ \E x \in expose : ExposeAppend(x)
    \/ \E x \in server : Unexpose(x)
    \/ \E p \in Ports :
          \/ LocalDone(p) \/ CloseTunnel(p) \/ Expose(p) \/ RetryAutoExpose(p)
          \/ \E vis \in {"host", "network"} : Tunnel(p, vis)
          \/ \E how \in {"none", "local", "any"} : Listen(p, how)
          \/ \E c \in Clients : EstablishTunnel(c, p)

Spec == Init /\ [][Next]_vars

\* The steps that come to an end when the inputs do.
Work ==
    \/ ObserveServer \/ ObserveNotice \/ ObserveTunnels \/ OpenPort \/ OpenPortFails
    \/ UpdateTunnels \/ Return \/ Stop \/ TunnelDone \/ AutoTunnelDone \/ AutoTunnelClosed
    \/ (\E s \in Subs : Notify(s)) \/ (\E p \in Ports : LocalDone(p))
    \/ \E x \in tun.conns : Orphan(x) /\ CloseConn(x)

\* Goroutines run, and Go's select picks among the ready cases at random.  A weak
\* condition for all of Work, less than one for each goroutine, is enough, since only
\* the lists of served ports and the subscribers keep coming.  A strong one is needed
\* to take mu: Go's lock is handed to the one that waits.  Nothing is assumed of
\* clients, processes and subscribers.
Fairness ==
    /\ WF_vars(Work) /\ WF_vars(Poll) /\ WF_vars(SubscribeDone)
    /\ WF_vars(ReceiveServed) /\ SF_vars(ReceiveExposed \/ ReceiveTunneled \/ ReceiveForce)
    /\ SF_vars(\/ UpdateState \/ UpdateServedSame \/ UpdateServed
               \/ MarkClosed \/ \E s \in Subs : CloseSub(s))

FairSpec == Spec /\ Fairness

----------------------------------------------------------------------------
(* Properties. *)

AutoRecords == [st : {"trying", "succeeded", "failed"}, public : BOOLEAN, https : BOOLEAN]
Tunnels == [vis : {"host", "network"}, map : Nat]
Statuses == [served : BOOLEAN, exposed : SUBSET Exposures, tunnel : SUBSET Tunnels,
             auto : {"none", "trying", "succeeded", "failed"}, ignored : BOOLEAN]

\* The fields have their types; the manager's own maps never have an internal port,
\* and mu is held by an update on its way to the tunnels or the subscribers, or by a call.
TypeOK ==
    /\ sock \in [Ports -> {"none", "local", "any"}]
    /\ server \subseteq Exposures /\ exp.last \subseteq Exposures /\ pm.exposed \subseteq Exposures
    /\ DOMAIN pm.auto \subseteq Ports \ Internal /\ \A p \in DOMAIN pm.auto : pm.auto[p] \in AutoRecords
    /\ DOMAIN pm.state \subseteq Ports \ Internal /\ \A p \in DOMAIN pm.state : pm.state[p] \in Statuses
    /\ pm.autoTunneled \subseteq Ports \ Internal
    /\ DOMAIN pm.subs \subseteq Subs
    /\ DOMAIN tun.tunnels \subseteq Ports /\ tun.obs \in {"wait", "woken", "send"}
    /\ pc \in {"select", "got", "tunnel", "notify", "ending", "closing", "stopped"}
    /\ (mu = "run") = (pc \in {"tunnel", "notify"})
    /\ mu = "rpc" => rpc # <<>>

\* A status or a message but for the clients of the tunnels.
Plain(state) == [p \in DOMAIN state |-> [state[p] EXCEPT !.tunnel = {x.vis : x \in @}]]

\* A subscriber that has not been closed was last sent the status that holds now, but
\* for the clients of the tunnels: no change slips between the status Subscribe takes
\* and the one it sends, or past a subscriber that an update has still to serve.
SubscribersCurrent ==
    mu = "free" => \A s \in DOMAIN pm.subs : Plain(pm.subs[s]) = Plain(Status(pm.state))

\* A tunnel a client opened stays open as it was asked for, whatever autoTunnel does,
\* until a client closes it.
UserTunnelKept ==
    \A p \in DOMAIN user : p \in DOMAIN tun.tunnels /\ tun.tunnels[p].vis = user[p]

\* Once AutoTunnel(false) has returned no automatic tunnel is open.
AutoOffClosesAll ==
    mu = "free" /\ ~pm.enabled => DOMAIN tun.tunnels \subseteq DOMAIN user \cup Internal

\* Run waits for the tunnel service, or for a call that does, while the observer of
\* the tunnels holds its lock and waits for Run.
LockCycle ==
    tun.obs = "send" /\ (pc = "tunnel" \/ (mu = "rpc" /\ rpc[1] # "sub" /\ pc # "select"))

\* When the inputs end, unless the locks form a cycle, a cancelled manager has closed
\* its subscriptions for good, and any other one knows the true served ports, without
\* taking its own proxies for one, and has a result for each automatic exposure.
Settles ==
    LET right(p) ==
            /\ pm.served[p] = IF Ignored(pm, p) THEN "none" ELSE sock[p]
            /\ p \in DOMAIN pm.auto => pm.auto[p].st # "trying"
    IN <>[](\/ LockCycle
            \/ over /\ pc = "stopped" /\ DOMAIN pm.subs = {}
            \/ ~over /\ \A p \in Ports : right(p))

\* "Run starts the port manager which keeps running until one of its observers stops"
\* (ports.go): it comes back to its select.
KeepsRunning == []<>(pc = "select" \/ over)

\* "The list of tunneled ports is always the complete picture, i.e. if a single port
\* changes, the whole list is returned" (tunnel.go): once Run has taken in the list, a
\* subscriber knows the clients too.  It does not: the state shares their map, so a
\* change of it is no change of the state, and nobody is told.
SubscribersKnowClients ==
    mu = "free" /\ pc = "select" /\ tun.obs = "wait" =>
        \A s \in DOMAIN pm.subs : pm.subs[s] = ShowState(Status(pm.state))
=============================================================================
