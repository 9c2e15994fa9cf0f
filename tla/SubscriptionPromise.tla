------------------------ MODULE SubscriptionPromise ------------------------
(***************************************************************************)
(* What a subscriber agrees to by approving the subscription contract, with *)
(* no relayer, scheduler or database in sight: an agreement is charged at   *)
(* most once per interval counted from its start, and never once closed.    *)
(***************************************************************************)
EXTENDS Integers, Sequences

CONSTANT Interval

VARIABLES clock, agreements

vars == <<clock, agreements>>

Init == clock = 0 /\ agreements = <<>>

Tick == clock' = clock + 1 /\ UNCHANGED agreements

\* A new agreement starts now or later.
Open ==
    LET new == Len(agreements) + 1 IN
    /\ Len(agreements') = new
    /\ \A i \in DOMAIN agreements : agreements'[i] = agreements[i]
    /\ agreements'[new].open
    /\ agreements'[new].since >= clock
    /\ agreements'[new].charges = 0
    /\ UNCHANGED clock

Charge(i) ==
    LET a == agreements[i] IN
    /\ a.open
    /\ clock >= a.since + a.charges * Interval
    /\ agreements' = [agreements EXCEPT ![i].charges = @ + 1]
    /\ UNCHANGED clock

Close(i) ==
    /\ agreements[i].open
    /\ agreements' = [agreements EXCEPT ![i].open = FALSE]
    /\ UNCHANGED clock

Next ==
    \/ Tick
    \/ Open
    \/ \E i \in DOMAIN agreements : Charge(i) \/ Close(i)

Spec == Init /\ [][Next]_vars
=============================================================================
