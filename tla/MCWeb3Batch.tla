---------------------------- MODULE MCWeb3Batch ----------------------------
(***************************************************************************)
(* An instance of Web3Subscriptions for TLC that starts in the middle: one *)
(* subscription is running and its next payment is due, the other requests *)
(* are yet to come.  Every behaviour of it is the end of a behaviour of    *)
(* Web3Subscriptions.                                                      *)
(***************************************************************************)
EXTENDS Web3Subscriptions

CONSTANT running  \* the request that created the running subscription

\* Created and charged for the first time at time 0; one interval later.
Running ==
    /\ now = Interval
    /\ paused = FALSE
    /\ funded = TRUE
    /\ subscriptions = <<[active |-> TRUE, nextPayment |-> Interval,
                          paymentCount |-> 1, since |-> 0]>>
    /\ row = [q \in Requests |->
                IF q = running
                THEN [status |-> "ACTIVE", next |-> Interval, first |-> NoTime,
                      total |-> 1, oid |-> 1]
                ELSE NoRow]
    /\ mandate = [q \in Requests |->
                    [status |-> IF q = running THEN "ACTIVE" ELSE "absent",
                     nonce |-> 0]]
    /\ receipts = [q \in Requests |-> 0]
    /\ creator = [q \in Requests |->
                    [pc |-> IF q = running THEN "done" ELSE "new", nonce |-> 0]]
    /\ cancel = [c \in Cancels |-> [pc |-> "idle", target |-> "none"]]
    /\ worker = [w \in Workers |-> IdleWorker]
    /\ call = [p \in Processes |-> NoCall]
    /\ late = <<>>
    /\ crashes = 0

RunningSpec == Running /\ [][Next]_vars /\ Fairness
=============================================================================
