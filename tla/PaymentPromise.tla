--------------------------- MODULE PaymentPromise ---------------------------
(***************************************************************************)
(* What the payment subsystem promises: a session is shown as paid only if *)
(* a payable transfer or a full coupon paid it, and the merchant is        *)
(* credited for a session at most as often as it was paid.  A transfer is  *)
(* payable when its chain has confirmed it or when the listener, which     *)
(* could not learn its block, takes it for confirmed.                      *)
(***************************************************************************)
EXTENDS Integers

CONSTANTS Sessions, Transfers

VARIABLES
    payable,   \* transfers that may pay a session
    spent,     \* how often each transfer paid a session
    paid,      \* how often each session was paid
    credited,  \* how often the merchant was credited for each session
    shown      \* sessions shown as paid or refunded

vars == <<payable, spent, paid, credited, shown>>

Init ==
    /\ payable = {}
    /\ spent = [t \in Transfers |-> 0]
    /\ paid = [s \in Sessions |-> 0]
    /\ credited = [s \in Sessions |-> 0]
    /\ shown = {}

\* A transfer becomes payable, and stays so.
Settle ==
    /\ \E t \in Transfers : payable' = payable \cup {t}
    /\ UNCHANGED <<spent, paid, credited, shown>>

\* A payable transfer pays a session.
Accept ==
    /\ \E t \in payable : spent' = [spent EXCEPT ![t] = @ + 1]
    /\ \E s \in Sessions : /\ paid' = [paid EXCEPT ![s] = @ + 1]
                           /\ shown' = shown \cup {s}
    /\ UNCHANGED <<payable, credited>>

\* A full coupon pays a session.
Waive ==
    /\ \E s \in Sessions : /\ paid' = [paid EXCEPT ![s] = @ + 1]
                           /\ shown' = shown \cup {s}
    /\ UNCHANGED <<payable, spent, credited>>

Credit ==
    /\ \E s \in Sessions : /\ credited[s] < paid[s]
                           /\ credited' = [credited EXCEPT ![s] = @ + 1]
    /\ UNCHANGED <<payable, spent, paid, shown>>

\* A session that was paid is shown otherwise, or again.
Show ==
    /\ shown' \subseteq {s \in Sessions : paid[s] > 0}
    /\ UNCHANGED <<payable, spent, paid, credited>>

Next == Settle \/ Accept \/ Waive \/ Credit \/ Show

Spec == Init /\ [][Next]_vars
=============================================================================
