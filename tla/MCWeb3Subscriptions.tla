------------------------ MODULE MCWeb3Subscriptions ------------------------
(***************************************************************************)
(* Instances of Web3Subscriptions for TLC.                                 *)
(***************************************************************************)
EXTENDS Web3Subscriptions, TLC

\* Schedulers are interchangeable (safety run).
Symmetry == Permutations(Workers)
=============================================================================
