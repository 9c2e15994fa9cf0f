--------------------------- MODULE RefundPromise ---------------------------
(***************************************************************************)
(* What the refund subsystem promises to the merchant and to the customer, *)
(* with no handler, thread, session or stale read in sight:                *)
(*   - a refund that waits for funds is held, and nothing is transferred   *)
(*     for it until it is released; it is never held again;                *)
(*   - a refund is confirmed only after a transfer was submitted for it;   *)
(*   - whatever is charged to the merchant's account is covered by it.     *)
(***************************************************************************)
EXTENDS Integers

CONSTANTS Refunds, Opening

VARIABLES account, phase, transfers, confirmed

vars == <<account, phase, transfers, confirmed>>

Init ==
    /\ account = Opening
    /\ phase = [r \in Refunds |-> "absent"]
    /\ transfers = [r \in Refunds |-> 0]
    /\ confirmed = {}

\* A refund is recorded and waits for funds.
Hold(r) ==
    /\ phase[r] = "absent"
    /\ phase' = [phase EXCEPT ![r] = "held"]
    /\ UNCHANGED <<account, transfers, confirmed>>

\* Refunds are released to be paid, or released ones charged again, for a
\* price the account covers; confirmations may be withdrawn.
Release(R) ==
    /\ phase' = [r \in Refunds |-> IF r \in R THEN "released" ELSE phase[r]]
    /\ account' \in 0..account
    /\ confirmed' \subseteq confirmed
    /\ UNCHANGED transfers

Transfer(r) ==
    /\ phase[r] = "released"
    /\ transfers' = [transfers EXCEPT ![r] = @ + 1]
    /\ UNCHANGED <<account, phase, confirmed>>

Confirm(r) ==
    /\ transfers[r] > 0
    /\ confirmed' = confirmed \cup {r}
    /\ UNCHANGED <<account, phase, transfers>>

Deposit ==
    /\ account' \in Nat
    /\ UNCHANGED <<phase, transfers, confirmed>>

Next ==
    \/ \E r \in Refunds : Hold(r) \/ Transfer(r) \/ Confirm(r)
    \/ \E R \in SUBSET Refunds : Release(R)
    \/ Deposit

Spec == Init /\ [][Next]_vars
=============================================================================
