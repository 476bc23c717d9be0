------------------------------ MODULE MCPorts ------------------------------
(* An instance of Ports for TLC. *)
EXTENDS Ports

CONSTANTS web, api

\* A public port that clients are not told about, and a range without a visibility.
Files ==
    LET conf(kind, vis, ignore) ==
            [p \in {web} |-> [kind |-> kind, visibility |-> vis, https |-> FALSE, ignore |-> ignore]]
    IN {conf("port", "public", TRUE), conf("range", "unset", FALSE)}

\* The manager is cancelled while Run is at its select, nothing is on its way to it and
\* no exposure is under way.  An earlier cancellation shows only when Run returns, and
\* what becomes of an exposure does not depend on it.
CancelIdle ==
    over' # over => /\ pc = "select" /\ polled = {} /\ exp.out = <<>> /\ exp.requests = <<>>
                    /\ \A p \in DOMAIN pm.auto : pm.auto[p].st # "trying"
=============================================================================
