--------------------------- MODULE MCStorageChain ---------------------------
(***************************************************************************)
(* Small instances of the storage chain.                                   *)
(***************************************************************************)
EXTENDS StorageChain, TLC

Setup(enabled, stable) == [chain |-> buildChain(enabled), stable |-> stable]

\* Everything enabled and only the disk reliable; a server without local storage
\* whose IPFS node, or nothing at all, is reliable; one with a reliable cloud only.
FourSetups ==
    {Setup({"local", "ipfs", "cloud"}, {"local"}),
     Setup({"ipfs", "cloud"}, {"ipfs"}),
     Setup({"ipfs", "cloud"}, {}),
     Setup({"cloud"}, {"cloud"})}

Symmetry == Permutations(Clients) \cup Permutations(Values)
=============================================================================
