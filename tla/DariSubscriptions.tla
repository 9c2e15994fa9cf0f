------------------------- MODULE DariSubscriptions -------------------------
(***************************************************************************)
(* contracts/src/DariSubscriptions.sol: the contract that pulls recurring  *)
(* payments.  Every function is atomic; a function whose checks fail       *)
(* reverts, which is an action that is not enabled.  A function may be     *)
(* called by the relayer (create, execute, cancel), by a party of the      *)
(* agreement (cancel) or by the owner (pause, unpause).  All agreements    *)
(* have the same interval; "funded" says that the subscriber's allowance   *)
(* and balance both cover one payment.                                     *)
(***************************************************************************)
EXTENDS Integers, Sequences

CONSTANTS
    Interval,  \* time between two payments of an agreement
    MaxTime    \* bound on the clock

ASSUME ContractAssumption == Interval \in Nat \ {0} /\ MaxTime \in Nat

VARIABLES
    now,           \* block.timestamp, and the servers' clock
    paused,        \* OpenZeppelin's Pausable
    funded,        \* allowance and balance cover a payment
    subscriptions  \* the mapping; ids count from 1

contract == <<now, paused, funded, subscriptions>>
-----------------------------------------------------------------------------
\* startTime is not a field of the contract: "since" is history.
SubscriptionData ==
    [active: BOOLEAN, nextPayment: Nat, paymentCount: Nat, since: Nat]

ContractTypeOK ==
    /\ now \in 0..MaxTime
    /\ paused \in BOOLEAN
    /\ funded \in BOOLEAN
    /\ subscriptions \in Seq(SubscriptionData)

ContractInit ==
    /\ now = 0
    /\ paused = FALSE
    /\ funded = TRUE
    /\ subscriptions = <<>>

Tick ==
    /\ now < MaxTime
    /\ now' = now + 1
    /\ UNCHANGED <<paused, funded, subscriptions>>

\* pause() and unpause() by the owner.
TogglePause ==
    /\ paused' = ~paused
    /\ UNCHANGED <<now, funded, subscriptions>>

\* The subscriber spends the balance or withdraws the approval, or restores it.
ToggleFunds ==
    /\ funded' = ~funded
    /\ UNCHANGED <<now, paused, subscriptions>>

subscriptionCount == Len(subscriptions)

\* The checks of each function.
CanCreate(start) == ~paused /\ start >= now /\ funded

IsActive(i) == i \in DOMAIN subscriptions /\ subscriptions[i].active

\* Mutant: the due date is not checked.
ExecuteEarly(i) == ~paused /\ IsActive(i) /\ funded

CanExecute(i) ==
    /\ ~paused
    /\ IsActive(i)
    /\ now >= subscriptions[i].nextPayment
    /\ funded

CreateSubscription(start) ==
    /\ CanCreate(start)
    /\ subscriptions' = Append(subscriptions,
           [active |-> TRUE, nextPayment |-> start, paymentCount |-> 0,
            since |-> start])
    /\ UNCHANGED <<now, paused, funded>>

\* The next payment is counted from this one, not from the day it was due.
ExecutePayment(i) ==
    /\ CanExecute(i)
    /\ subscriptions' = [subscriptions EXCEPT
           ![i].paymentCount = @ + 1,
           ![i].nextPayment = now + Interval]
    /\ UNCHANGED <<now, paused, funded>>

\* Not gated by pause.
CancelSubscription(i) ==
    /\ IsActive(i)
    /\ subscriptions' = [subscriptions EXCEPT ![i].active = FALSE]
    /\ UNCHANGED <<now, paused, funded>>
-----------------------------------------------------------------------------
Promise == INSTANCE SubscriptionPromise WITH
    clock <- now,
    agreements <- [i \in DOMAIN subscriptions |->
                     [open |-> subscriptions[i].active,
                      since |-> subscriptions[i].since,
                      charges |-> subscriptions[i].paymentCount]]

\* However the relayer, the schedulers and the parties call the contract, a
\* subscriber is charged at most once per interval and never after the
\* agreement is closed on chain.
KeepsPromise == Promise!Spec
=============================================================================
