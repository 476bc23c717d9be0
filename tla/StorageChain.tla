---------------------------- MODULE StorageChain ----------------------------
(***************************************************************************)
(* The storage chain, abstraction/storage: Put and Delete go to every      *)
(* available backend in turn, Get and Stat to the first available one.     *)
(* Every command (cmd_storage.go) is a process with a chain of its own, so *)
(* nothing orders two commands; they meet in the backends.                 *)
(*                                                                         *)
(* A step is one call of a backend: its Available, or one request of its   *)
(* Put, Delete, Get or Stat.  LocalBackend.Put renames a finished temporary*)
(* file and the blob store commits on Close, so both replace an object at  *)
(* once; IPFSBackend.Put truncates and rewrites it.  A command that is     *)
(* killed inside such a call leaves the request behind: a remote backend   *)
(* may carry it out later, IPFS a part of it.                              *)
(*                                                                         *)
(* Nothing is assumed about when a backend answers, unless it is in Stable:*)
(* any other one may be unavailable, or fail, at any call.                 *)
(***************************************************************************)
EXTENDS Integers, Sequences

CONSTANTS
    Setups,     \* the deployments: [chain, stable], see setup
    Keys,
    Values,     \* the contents commands put
    Absent,     \* "no object under this key"
    Torn,       \* an object whose rewriting was cut short
    NoRequest,
    Clients,    \* bound: commands that run at the same time
    MaxLate     \* bound: requests that take effect after their caller gave up

Kinds == {"local", "ipfs", "cloud"}

\* The backends that are configured, in this order.
buildChain(enabled) == SelectSeq(<<"local", "ipfs", "cloud">>, LAMBDA b : b \in enabled)

Contents == Values \cup {Absent, Torn}

Requests ==
    [op : {"put"}, key : Keys, val : Values]
        \cup [op : {"delete", "get", "stat"}, key : Keys, val : {Absent}]

ASSUME ChainAssumption ==
    /\ \A s \in Setups : /\ s.chain \in Seq(Kinds) /\ s.chain # <<>>
                          /\ \A i, j \in DOMAIN s.chain : s.chain[i] = s.chain[j] => i = j
                          /\ s.stable \subseteq Kinds
    /\ Absent \notin Values /\ Torn \notin Values \cup {Absent}
    /\ NoRequest \notin Requests
    /\ MaxLate \in Nat

VARIABLES
    setup,      \* the chain FromConfig returns, and the backends that never fail
    content,    \* external: what each backend holds under each key
    late,       \* external: writes on their way whose caller has gone on
    req,        \* the call each client has under way
    pc,         \* "probe", "call" or "body": which request comes next
    at,         \* the position in the chain; Len(Chain) + 1 after the loop
    wrote,      \* the counter wrote of Put, deleted of Delete; answers of a read
    err,        \* firstErr # nil
    got,        \* what a read returned
    result,     \* what the command ended with
    skipped,    \* history: the backends the command found unavailable
    alone,      \* history: no other write of the key ran since the command began
    acked       \* history: its last write, if that ran alone, returned nil and no
                \* other write of the key has begun since

locals == <<req, pc, at, wrote, err, got, result>>
history == <<skipped, alone, acked>>
vars == <<setup, content, late, locals, history>>

Chain == setup.chain
Stable == setup.stable
Results == {"none", "running", "nil", "notfound", "nobackend", "error", "killed"}
LateWrites == [b : Kinds, key : Keys, val : Contents, n : 1..MaxLate]

TypeOK ==
    /\ setup \in Setups
    /\ content \in [Kinds -> [Keys -> Contents]]
    /\ late \in SUBSET LateWrites
    /\ req \in [Clients -> Requests \cup {NoRequest}]
    /\ pc \in [Clients -> {"probe", "call", "body"}]
    /\ at \in [Clients -> 1..(Len(Chain) + 1)]
    /\ wrote \in [Clients -> 0..Len(Chain)]
    /\ err \in [Clients -> BOOLEAN]
    /\ got \in [Clients -> Contents]
    /\ result \in [Clients -> Results]
    /\ skipped \in [Clients -> SUBSET Kinds]
    /\ alone \in [Clients -> BOOLEAN]
    /\ acked \in [Clients -> Requests \cup {NoRequest}]

Running(c) == result[c] = "running"
InLoop(c) == Running(c) /\ at[c] <= Len(Chain)
Here(c) == Chain[at[c]]
Flaky(c) == Here(c) \notin Stable
IsRead(r) == r.op \in {"get", "stat"}
Writing(c, k) == Running(c) /\ ~IsRead(req[c]) /\ req[c].key = k

Init ==
    /\ setup \in Setups
    /\ content = [b \in Kinds |-> [k \in Keys |-> Absent]]
    /\ late = {}
    /\ req = [c \in Clients |-> NoRequest]
    /\ pc = [c \in Clients |-> "probe"]
    /\ at = [c \in Clients |-> 1]
    /\ wrote = [c \in Clients |-> 0]
    /\ err = [c \in Clients |-> FALSE]
    /\ got = [c \in Clients |-> Absent]
    /\ result = [c \in Clients |-> "none"]
    /\ skipped = [c \in Clients |-> {}]
    /\ alone = [c \in Clients |-> FALSE]
    /\ acked = [c \in Clients |-> NoRequest]

-----------------------------------------------------------------------------
(* A command begins, and asks the backends in order.                       *)

\* runStoragePut, runStorageDelete, runStorageGet or runStorageStat: a new process, a
\* new chain, the content read into memory.
Begin(c, r) ==
    /\ ~Running(c)
    /\ req' = [req EXCEPT ![c] = r]
    /\ result' = [result EXCEPT ![c] = "running"]
    /\ skipped' = [skipped EXCEPT ![c] = {}]
    /\ alone' = [d \in Clients |->
                   IF d = c THEN /\ \A o \in Clients \ {c} : ~Writing(o, r.key)
                                 /\ \A w \in late : w.key # r.key
                            ELSE alone[d] /\ ~(Writing(d, r.key) /\ ~IsRead(r))]
    /\ acked' = [d \in Clients |->
                   IF d = c \/ (~IsRead(r) /\ acked[d] # NoRequest /\ acked[d].key = r.key)
                   THEN NoRequest ELSE acked[d]]
    /\ UNCHANGED <<setup, content, late, pc, at, wrote, err, got>>

\* The command goes on with the next backend, or leaves the loop for good.
GoOn(c) ==
    /\ at' = [at EXCEPT ![c] = @ + 1]
    /\ pc' = [pc EXCEPT ![c] = "probe"]

Leave(c) ==
    /\ at' = [at EXCEPT ![c] = Len(Chain) + 1]
    /\ pc' = [pc EXCEPT ![c] = "probe"]

\* b.Available is false: the next one.
Unavailable(c) ==
    /\ InLoop(c) /\ pc[c] = "probe"
    /\ Flaky(c)
    /\ skipped' = [skipped EXCEPT ![c] = @ \cup {Here(c)}]
    /\ GoOn(c)
    /\ UNCHANGED <<setup, content, late, req, wrote, err, got, result, alone, acked>>

\* b.Available is true.  For the cloud that only says that the bucket could be opened.
Available(c) ==
    /\ InLoop(c) /\ pc[c] = "probe"
    /\ pc' = [pc EXCEPT ![c] = "call"]
    /\ UNCHANGED <<setup, content, late, req, at, wrote, err, got, result, history>>

-----------------------------------------------------------------------------
(* Put and Delete: every available backend, whatever the others did.       *)

Stored(b, k, v) == [content EXCEPT ![b][k] = v]

\* Mutant of WriteOK: the first backend that takes the write is enough.
WriteFirst(c) ==
    /\ InLoop(c) /\ pc[c] = "call" /\ ~IsRead(req[c])
    /\ content' = Stored(Here(c), req[c].key, req[c].val)
    /\ wrote' = [wrote EXCEPT ![c] = @ + 1]
    /\ Leave(c)
    /\ UNCHANGED <<setup, late, req, err, got, result, history>>

WriteOK(c) ==
    /\ InLoop(c) /\ pc[c] = "call" /\ ~IsRead(req[c])
    /\ content' = Stored(Here(c), req[c].key, req[c].val)
    /\ wrote' = [wrote EXCEPT ![c] = @ + 1]
    /\ GoOn(c)
    /\ UNCHANGED <<setup, late, req, err, got, result, history>>

\* What a write that a remote backend did not finish may do to the object: all it asks
\* for, its reply lost; one in IPFS may be cut short.
Effects(b, r) == {r.val} \cup (IF b = "ipfs" /\ r.op = "put" THEN {Torn} ELSE {})

\* What a failed write may leave of the object old; a local one leaves it alone.
Left(b, r, old) == {old} \cup (IF b = "local" THEN {} ELSE Effects(b, r))

\* The request stays on its way to the backend although nobody waits for it any more.
LeftBehind(c) ==
    \E n \in 1..MaxLate : \E v \in Effects(Here(c), req[c]) :
        /\ \A w \in late : w.n # n
        /\ late' = late \cup {[b |-> Here(c), key |-> req[c].key, val |-> v, n |-> n]}

\* Mutant of WriteFail: the backends written so far are rolled back.
WriteFailUndo(c) ==
    /\ InLoop(c) /\ pc[c] = "call" /\ ~IsRead(req[c])
    /\ Flaky(c)
    /\ content' = [b \in Kinds |->
                     IF \E i \in 1..(at[c] - 1) : Chain[i] = b
                     THEN [content[b] EXCEPT ![req[c].key] = Absent] ELSE content[b]]
    /\ err' = [err EXCEPT ![c] = TRUE]
    /\ GoOn(c)
    /\ UNCHANGED <<setup, late, req, wrote, got, result, history>>

\* firstErr is remembered and the loop goes on.
WriteFail(c) ==
    /\ InLoop(c) /\ pc[c] = "call" /\ ~IsRead(req[c])
    /\ Flaky(c)
    /\ LET b == Here(c)
           k == req[c].key
       IN \E v \in Left(b, req[c], content[b][k]) :
              content' = Stored(b, k, v)
    /\ err' = [err EXCEPT ![c] = TRUE]
    /\ GoOn(c)
    /\ UNCHANGED <<setup, late, req, wrote, got, result, history>>

\* A remote call times out and the request is carried out later.
WriteTimeout(c) ==
    /\ InLoop(c) /\ pc[c] = "call" /\ ~IsRead(req[c])
    /\ Flaky(c) /\ Here(c) # "local"
    /\ LeftBehind(c)
    /\ err' = [err EXCEPT ![c] = TRUE]
    /\ GoOn(c)
    /\ UNCHANGED <<setup, content, req, wrote, got, result, history>>

Arrive(w) ==
    /\ w \in late
    /\ content' = Stored(w.b, w.key, w.val)
    /\ late' = late \ {w}
    /\ UNCHANGED <<setup, locals, history>>

\* IPFSBackend.Delete takes every status 500 for "file does not exist".
DeleteIgnored(c) ==
    /\ InLoop(c) /\ pc[c] = "call" /\ req[c].op = "delete"
    /\ Flaky(c) /\ Here(c) = "ipfs"
    /\ wrote' = [wrote EXCEPT ![c] = @ + 1]
    /\ GoOn(c)
    /\ UNCHANGED <<setup, content, late, req, err, got, result, history>>

-----------------------------------------------------------------------------
(* Get and Stat: the first available backend has the only word.            *)

Answered(c, v) ==
    /\ got' = [got EXCEPT ![c] = v]
    /\ wrote' = [wrote EXCEPT ![c] = @ + 1]
    /\ Leave(c)
    /\ UNCHANGED <<setup, content, late, req, err, result, history>>

\* IPFSBackend.Get is two requests: Stat first, and the body if there is an object.
TwoRequests(c) == Here(c) = "ipfs" /\ req[c].op = "get"

ReadOK(c) ==
    LET seen == content[Here(c)][req[c].key] IN
    /\ InLoop(c) /\ pc[c] = "call" /\ IsRead(req[c])
    /\ TwoRequests(c) => seen = Absent
    /\ Answered(c, seen)

StatOK(c) ==
    /\ InLoop(c) /\ pc[c] = "call" /\ IsRead(req[c])
    /\ TwoRequests(c) /\ content[Here(c)][req[c].key] # Absent
    /\ pc' = [pc EXCEPT ![c] = "body"]
    /\ UNCHANGED <<setup, content, late, req, at, wrote, err, got, result, history>>

BodyOK(c) ==
    /\ InLoop(c) /\ pc[c] = "body"
    /\ Answered(c, content[Here(c)][req[c].key])

\* IPFS answers a request with status 500: ErrNotFound, whatever is there.
ReadMistaken(c) ==
    /\ InLoop(c) /\ pc[c] \in {"call", "body"} /\ IsRead(req[c])
    /\ Flaky(c) /\ Here(c) = "ipfs"
    /\ Answered(c, Absent)

ReadFail(c) ==
    /\ InLoop(c) /\ pc[c] \in {"call", "body"} /\ IsRead(req[c])
    /\ Flaky(c)
    /\ err' = [err EXCEPT ![c] = TRUE]
    /\ Leave(c)
    /\ UNCHANGED <<setup, content, late, req, wrote, got, result, history>>

-----------------------------------------------------------------------------
(* The command ends.                                                       *)

\* firstErr, ErrNoBackendAvailable, ErrNotFound or nil.
Outcome(c) ==
    CASE err[c] -> "error"
      [] ~err[c] /\ wrote[c] = 0 -> "nobackend"
      [] ~err[c] /\ wrote[c] > 0 /\ IsRead(req[c]) /\ got[c] = Absent -> "notfound"
      [] OTHER -> "nil"

\* Mutant of End: the counter is kept for the next call.
EndKeepsCount(c, res) ==
    /\ result' = [result EXCEPT ![c] = res]
    /\ req' = [req EXCEPT ![c] = NoRequest]
    /\ pc' = [pc EXCEPT ![c] = "probe"]
    /\ at' = [at EXCEPT ![c] = 1]
    /\ err' = [err EXCEPT ![c] = FALSE]
    /\ got' = [got EXCEPT ![c] = Absent]
    /\ UNCHANGED <<setup, wrote, history>>

\* The locals of the call end with it.
End(c, res) ==
    /\ result' = [result EXCEPT ![c] = res]
    /\ req' = [req EXCEPT ![c] = NoRequest]
    /\ pc' = [pc EXCEPT ![c] = "probe"]
    /\ at' = [at EXCEPT ![c] = 1]
    /\ wrote' = [wrote EXCEPT ![c] = 0]
    /\ err' = [err EXCEPT ![c] = FALSE]
    /\ got' = [got EXCEPT ![c] = Absent]
    /\ LET kept == res = "nil" /\ ~IsRead(req[c]) /\ alone[c] IN
       /\ acked' = [acked EXCEPT ![c] = IF kept THEN req[c] ELSE NoRequest]
       /\ skipped' = [skipped EXCEPT ![c] = IF kept THEN @ ELSE {}]
    /\ alone' = [alone EXCEPT ![c] = FALSE]
    /\ UNCHANGED setup

Return(c) ==
    /\ Running(c) /\ at[c] = Len(Chain) + 1
    /\ End(c, Outcome(c))
    /\ UNCHANGED <<content, late>>

\* The process is interrupted, between two calls or in the middle of one: a local one
\* has renamed the file or not, a request to a remote backend may be on its way, or the
\* upload under way, however reliable the backend is.
Kill(c) ==
    /\ Running(c)
    /\ \/ late' = late
       \/ /\ InLoop(c) /\ pc[c] = "call" /\ ~IsRead(req[c]) /\ Here(c) # "local"
          /\ LeftBehind(c)
    /\ End(c, "killed")
    /\ UNCHANGED content

Step(c) ==
    \/ Unavailable(c) \/ Available(c)
    \/ WriteOK(c) \/ WriteFail(c) \/ WriteTimeout(c) \/ DeleteIgnored(c)
    \/ ReadOK(c) \/ StatOK(c) \/ BodyOK(c) \/ ReadMistaken(c) \/ ReadFail(c)
    \/ Return(c) \/ Kill(c)

Next ==
    \/ \E c \in Clients : \E r \in Requests : Begin(c, r)
    \/ \E c \in Clients : Step(c)
    \/ \E w \in late : Arrive(w)

Spec == Init /\ [][Next]_vars

-----------------------------------------------------------------------------
(* Properties.                                                             *)

\* What the caller makes of an error.
Reply(res) ==
    CASE res \in {"none", "running"} -> res
      [] res \in {"nil", "notfound"} -> "ok"
      [] OTHER -> "error"

\* The writes that will still come to the first backend.
Strays == {w \in late : w.b = Chain[1]}

\* The store a caller sees is the first backend; a call has taken effect when the
\* command is past it.
Seen == INSTANCE ObjectStore WITH
    GivenUp <- LateWrites,
    store <- content[Chain[1]],
    stray <- Strays,
    taken <- {c \in Clients : at[c] > 1},
    reply <- [c \in Clients |-> Reply(result[c])]

FirstIsStable == Chain[1] \in Stable

\* LocalBackend.Put renames a finished file: with the disk first nothing is left behind
\* for later; only IPFS shows half an object.
FirstIsAtomic ==
    /\ Chain[1] = "local" => Strays = {}
    /\ Chain[1] # "ipfs" => \A k \in Keys : content[Chain[1]][k] # Torn

\* Chain is a Backend like any other: if the first backend is stable, commands that
\* overlap, get killed, or meet any failure of the other backends see one key-value
\* store, in which a call that returned nil took effect at one moment, and one that did
\* not took effect once or never.  A command killed inside a call of a remote first
\* backend can take effect after its end, and leave a torn object in IPFS; with the
\* disk first it does neither.  What Chain.Put and Chain.Delete leave half done further
\* down the chain never shows.
OneStore ==
    /\ FirstIsStable => Seen!Init
    /\ [][FirstIsStable => Seen!Next]_(Seen!vars)
    /\ []FirstIsAtomic

\* "Writes fan out to ALL available backends": once a Put or Delete returned nil,
\* every backend it did not find unavailable agrees with it until the next write of
\* the key begins, provided no other write of the key ran, or was still on its way,
\* meanwhile.  The exception is a Delete in IPFS, which hides failures.
AckedIsMirrored ==
    \A c \in Clients :
        acked[c] # NoRequest
            => \A b \in {Chain[i] : i \in DOMAIN Chain} \ skipped[c] :
                  \/ content[b][acked[c].key] = acked[c].val
                  \/ b = "ipfs" /\ b \notin Stable /\ acked[c].op = "delete"
=============================================================================
