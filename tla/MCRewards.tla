----------------------------- MODULE MCRewards ------------------------------
(***************************************************************************)
(* Small instances of the rewards service.                                 *)
(***************************************************************************)
EXTENDS Rewards, TLC, FiniteSetsExt

CONSTANTS a, b, w1

Contrib(type, project, object, user) ==
    [type |-> type, project |-> project, object |-> object, user |-> user]

\* A merge request and an issue of one project; the first merge requests of two.
TwoKinds == {Contrib("merge_request", 1, 1, a), Contrib("issue", 1, 1, b)}
TwoProjects == {Contrib("merge_request", 1, 1, a), Contrib("merge_request", 2, 1, b)}

OneEach == [t \in Types |-> 1]
TwoEach == [t \in Types |-> 2]
RaisedRates == {TwoEach}
NoNewRates == {}

HandlerSymmetry == Permutations(Handlers)

\* "handlePayout triggers payout of all pending rewards above MinPayoutBAT": once the
\* snapshot is worth MinPayoutBAT, each of its rewards that has a wallet is sent.
PaysAllPending ==
    [][\A h \in Handlers : \A r \in list[h] :
         /\ r \notin list'[h] /\ Serving'
         /\ HasWallet(r.user)
         /\ Reached(total[h] + MapThenSumSet(LAMBDA x : x.amount, list[h]))
         => cur'[h] = r]_vars
=============================================================================
