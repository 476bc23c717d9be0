----------------------------- MODULE MCGarmPool -----------------------------
(* An instance of GarmPool for TLC. *)
EXTENDS GarmPool, TLC

\* The second runner is followed while nothing fails, no time passes and no
\* administrator acts: long enough for the adders to race for the last place.
SecondIsBrief ==
    fresh = {} => /\ faults = 0 /\ asked = {} /\ rp = "idle" /\ hooks = {}
                  /\ \A n \in Names : age[n] = 0 /\ rs[n] # "terminated"

\* A clean-up that takes more than five minutes while two runners install.
SlowPass ==
    /\ asked = {} /\ hooks = {}
    /\ \A n \in Names : rs[n] = "pending" /\ row[n] \notin {"error", "pending_delete"}
=============================================================================
