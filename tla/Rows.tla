--------------------------------- MODULE Rows ---------------------------------
(***************************************************************************)
(* What a transaction does to a row: the columns it assigned take the      *)
(* place of those that are there.  The session of SQLAlchemy writes the    *)
(* columns whose value changed, so two transactions on one row mix theirs. *)
(***************************************************************************)

\* A record, or a row, with the columns of set written over it.
Overlay(set, row) ==
    [c \in DOMAIN set \cup DOMAIN row |-> IF c \in DOMAIN set THEN set[c] ELSE row[c]]
=============================================================================
