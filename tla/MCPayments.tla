----------------------------- MODULE MCPayments -----------------------------
(***************************************************************************)
(* Instances of Payments for TLC.                                          *)
(***************************************************************************)
EXTENDS Payments, TLC

Stellar == [r \in Routes |-> "stellar"]
Tron == [r \in Routes |-> "tron"]
Evm == [r \in Routes |-> "evm"]
\* One route of each chain: the routes are the names of the chains.
Mixed == [r \in Routes |-> r]

\* Request slots are interchangeable (safety runs only).
Symmetry == Permutations(Requests)
=============================================================================
