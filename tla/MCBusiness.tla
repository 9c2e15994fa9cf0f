------------------------------ MODULE MCBusiness ------------------------------
(***************************************************************************)
(* The components of the merchant's side share no variable: a behaviour of *)
(* all of them is one of each, and checking them side by side says no more *)
(* than checking them in turn.  focus is the component that moves.         *)
(***************************************************************************)
EXTENDS Withdrawals, Invoices, PaymentLinks, TeamSessions, Team, Merchants,
        TLC

CONSTANTS p1, p2, h1, h2, o1, o2
TierLimits ==
    [free     |-> [min |-> 1, max |-> 2, daily |-> 1, cooldown |-> 0],
     growth   |-> [min |-> 1, max |-> 2, daily |-> 4, cooldown |-> 0],
     business |-> [min |-> 2, max |-> 2, daily |-> 4, cooldown |-> 1]]
Homes == (o1 :> h1) @@ (o2 :> h1)
\* Processes are alike; those of the links are not, so they have other names.
Alike == Permutations({p1, p2})
\* With one price every pair of bounds admits it: one pair is enough.
Bounded(l) == l.fixed \/ NoPrice \notin {l.min, l.max}
LockTimes == (2 :> 1) @@ (3 :> 2)

VARIABLE focus
businessVars == <<withdrawalVars, invoiceVars, linkVars, teamVars, memberVars, merchantVars, focus>>

BusinessInit ==
    /\ focus \in {"withdrawals", "invoices", "links", "sessions", "members", "merchants"}
    /\ WithdrawalInit /\ InvoiceInit /\ TeamInit /\ MemberInit /\ MerchantInit
    /\ LinkInit
    /\ IF focus = "links" THEN Bounded(link) ELSE link = CHOOSE l \in NewLink : TRUE

BusinessNext ==
    /\ UNCHANGED focus
    /\ \/ focus = "withdrawals" /\ WithdrawalNext
          /\ UNCHANGED <<invoiceVars, linkVars, teamVars, memberVars, merchantVars>>
       \/ focus = "invoices" /\ InvoiceNext
          /\ UNCHANGED <<withdrawalVars, linkVars, teamVars, memberVars, merchantVars>>
       \/ focus = "links" /\ LinkNext
          /\ UNCHANGED <<withdrawalVars, invoiceVars, teamVars, memberVars, merchantVars>>
       \/ focus = "sessions" /\ TeamNext
          /\ UNCHANGED <<withdrawalVars, invoiceVars, linkVars, memberVars, merchantVars>>
       \/ focus = "members" /\ MemberNext
          /\ UNCHANGED <<withdrawalVars, invoiceVars, linkVars, teamVars, merchantVars>>
       \/ focus = "merchants" /\ MerchantNext
          /\ UNCHANGED <<withdrawalVars, invoiceVars, linkVars, teamVars, memberVars>>

BusinessSpec == BusinessInit /\ [][BusinessNext]_businessVars

\* The type invariant of every component.
BusinessTypeOK ==
    /\ WithdrawalTypeOK /\ InvoiceTypeOK /\ LinkTypeOK
    /\ TeamTypeOK /\ MemberTypeOK /\ MerchantTypeOK
=============================================================================
