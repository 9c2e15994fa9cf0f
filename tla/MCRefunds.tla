----------------------------- MODULE MCRefunds -----------------------------
(***************************************************************************)
(* Instances of Refunds for TLC.                                           *)
(***************************************************************************)
EXTENDS Refunds, TLC

\* Request slots and workers are interchangeable (safety runs only).
Symmetry == Permutations(Requests) \cup Permutations(Workers)
=============================================================================
