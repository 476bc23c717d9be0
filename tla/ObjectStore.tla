---------------------------- MODULE ObjectStore -----------------------------
(***************************************************************************)
(* What a caller of storage.Backend expects (abstraction/storage,          *)
(* interface.go): one key-value store.  A call takes effect at one moment  *)
(* between its start and its return.  One that returns an error may or may *)
(* not have taken effect; a write that was given up may also come through  *)
(* later, and a put that was given up may leave a torn object then.        *)
(***************************************************************************)
CONSTANTS
    Keys, Contents,
    Absent,         \* "no object under this key"
    Torn,           \* an object that was only written in part
    Requests,       \* [op, key, val] records
    GivenUp,        \* records with a key and a val: the writes that may go astray
    NoRequest,
    Clients

VARIABLES
    store,      \* the object under each key
    req,        \* the call each client has under way
    stray,      \* the writes given up that may still come through
    taken,      \* the clients whose call has taken effect
    got,        \* what it read
    reply       \* "running", and how the last call returned

vars == <<store, stray, req, taken, got, reply>>

Reads == {"get", "stat"}

Init ==
    /\ store = [k \in Keys |-> Absent]
    /\ stray = {}
    /\ req = [c \in Clients |-> NoRequest]
    /\ taken = {}
    /\ got = [c \in Clients |-> Absent]
    /\ reply = [c \in Clients |-> "none"]

Call(c, r) ==
    /\ reply[c] # "running"
    /\ req' = [req EXCEPT ![c] = r]
    /\ reply' = [reply EXCEPT ![c] = "running"]
    /\ UNCHANGED <<store, stray, taken, got>>

Write(c) ==
    /\ reply[c] = "running" /\ c \notin taken
    /\ req[c].op \notin Reads
    /\ store' = [store EXCEPT ![req[c].key] = req[c].val]
    /\ taken' = taken \cup {c}
    /\ UNCHANGED <<stray, req, got, reply>>

Read(c) ==
    /\ reply[c] = "running" /\ c \notin taken
    /\ req[c].op \in Reads
    /\ got' = [got EXCEPT ![c] = store[req[c].key]]
    /\ taken' = taken \cup {c}
    /\ UNCHANGED <<store, stray, req, reply>>

\* What a write that did not go through in time may still do.
Remains(r) == {r.val} \cup (IF r.op = "put" THEN {Torn} ELSE {})

GiveUp(c) ==
    /\ c \notin taken /\ req[c].op \notin Reads
    /\ \E w \in GivenUp :
          /\ w.key = req[c].key /\ w.val \in Remains(req[c])
          /\ stray' = stray \cup {w}

Return(c, answer) ==
    /\ reply[c] = "running"
    /\ answer = "ok" => c \in taken
    /\ reply' = [reply EXCEPT ![c] = answer]
    /\ req' = [req EXCEPT ![c] = NoRequest]
    /\ taken' = taken \ {c}
    /\ got' = [got EXCEPT ![c] = Absent]
    /\ \/ stray' = stray
       \/ answer = "error" /\ GiveUp(c)
    /\ UNCHANGED store

\* A write that was given up comes through.
Straggle(w) ==
    /\ w \in stray
    /\ store' = [store EXCEPT ![w.key] = w.val]
    /\ stray' = stray \ {w}
    /\ UNCHANGED <<req, taken, got, reply>>

Next ==
    \/ \E c \in Clients :
          \/ \E r \in Requests : Call(c, r)
          \/ Write(c)
          \/ Read(c)
          \/ \E answer \in {"ok", "error"} : Return(c, answer)
    \/ \E w \in stray : Straggle(w)

Spec == Init /\ [][Next]_vars
=============================================================================
