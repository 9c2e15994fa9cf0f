------------------------- MODULE Web3Subscriptions -------------------------
(***************************************************************************)
(* Recurring payments on the EVM chains: the authorize and cancel requests *)
(* of app/services/web3_subscription_service.py, the mandates of           *)
(* app/services/mandate_service.py, the scheduler loop of                  *)
(* app/services/subscription_scheduler.py that every server process runs,  *)
(* and the relayer of app/services/gasless_relayer.py through which all of *)
(* them call the contract of DariSubscriptions.                            *)
(*                                                                         *)
(* A process (a request or a scheduler) asks the relayer for a call and    *)
(* goes on with its answer.  The relayer commits the caller's session once *)
(* a transaction was sent, so what the caller holds of a row after the     *)
(* answer is loaded anew; before that it is what the caller read first.    *)
(* Time is counted in retry periods of half a day, so the seconds between  *)
(* the creation and the first payment are no time at all.                  *)
(***************************************************************************)
EXTENDS DariSubscriptions, FiniteSets, FiniteSetsExt

CONSTANTS
    Requests,   \* authorize requests of one wallet on one chain; one row each
    Cancels,    \* cancellation requests
    Workers,    \* schedulers, one per server process
    Retry,      \* SCHEDULER_RETRY_INTERVAL_HOURS
    Grace,      \* grace_period_days
    BatchSize,  \* rows a cycle loads at most (batch_size, 100)
    MaxLate,    \* bound on the transactions that outlive their caller
    MaxCrashes  \* bound on the number of process crashes

ASSUME Web3Assumption ==
    /\ IsFiniteSet(Requests) /\ "none" \notin Requests
    /\ Requests \cap Cancels = {} /\ Workers \cap (Requests \cup Cancels) = {}
    /\ Retry \in Nat \ {0}
    /\ Grace \in Nat \ {0}
    /\ BatchSize \in Nat \ {0}
    /\ MaxLate \in Nat
    /\ MaxCrashes \in Nat

VARIABLES
    row,       \* web3_subscriptions: the row each authorize request inserts
    mandate,   \* subscription_mandates, likewise
    receipts,  \* how many web3_subscription_payments of the row are PAID
    creator,   \* what each authorize request holds
    cancel,    \* what each cancellation holds
    worker,    \* what each scheduler holds
    call,      \* the relayer call each process waits for
    late,      \* sent transactions nobody waits for any more
    crashes    \* process crashes so far

tables == <<row, mandate, receipts>>
vars == <<now, paused, funded, subscriptions, row, mandate, receipts,
          creator, cancel, worker, call, late, crashes>>
-----------------------------------------------------------------------------
NoId == 0      \* onchain_subscription_id is NULL
NoTime == -1   \* first_failed_at is NULL

DueStatus == {"ACTIVE", "PAST_DUE", "PENDING_PAYMENT"}

\* The columns that decide something; EXPIRED is assigned by no code.
Row == [status: DueStatus \cup {"absent", "PAUSED", "CANCELLED"},
        next: Nat, first: Nat \cup {NoTime}, total: Nat, oid: Nat]
NoRow == [status |-> "absent", next |-> 0, first |-> NoTime, total |-> 0,
          oid |-> NoId]

\* "flushed" is a row other sessions do not see yet.
Mandate == [status: {"absent", "flushed", "ACTIVE", "REVOKED"}, nonce: Nat]

Processes == Requests \cup Cancels \cup Workers

\* A call and how far it is: asked for, sent to the chain, answered.
\* "refused" raises before anything is sent, "failed" after.
Answers == {"refused", "confirmed", "reverted", "failed"}
Call == [step: {"idle", "asked", "sent"} \cup Answers,
         fn: {"none", "create", "execute", "cancel"},
         id: Nat, start: Nat]
NoCall == [step |-> "idle", fn |-> "none", id |-> NoId, start |-> 0]
Ask(fn, id) == [NoCall EXCEPT !.step = "asked", !.fn = fn, !.id = id]

Creator == [pc: {"new", "signed", "creating", "first", "done", "lost"},
            nonce: Nat]
Cancel == [pc: {"idle", "cancelling", "done", "lost"},
           target: Requests \cup {"none"}]
Worker == [todo: SUBSET Requests,
           cur: Requests \cup {"none"},
           seen: [Requests -> Row]]
Unseen == [q \in Requests |-> NoRow]
IdleWorker == [todo |-> {}, cur |-> "none", seen |-> Unseen]

\* Every table and every slot keeps its type.
TypeOK ==
    /\ ContractTypeOK
    /\ row \in [Requests -> Row]
    /\ mandate \in [Requests -> Mandate]
    /\ receipts \in [Requests -> Nat]
    /\ creator \in [Requests -> Creator]
    /\ cancel \in [Cancels -> Cancel]
    /\ worker \in [Workers -> Worker]
    /\ call \in [Processes -> Call]
    /\ late \in Seq(Call) /\ Len(late) <= MaxLate
    /\ crashes \in 0..MaxCrashes

Init ==
    /\ ContractInit
    /\ row = [q \in Requests |-> NoRow]
    /\ mandate = [q \in Requests |-> [status |-> "absent", nonce |-> 0]]
    /\ receipts = [q \in Requests |-> 0]
    /\ creator = [q \in Requests |-> [pc |-> "new", nonce |-> 0]]
    /\ cancel = [c \in Cancels |-> [pc |-> "idle", target |-> "none"]]
    /\ worker = [w \in Workers |-> IdleWorker]
    /\ call = [p \in Processes |-> NoCall]
    /\ late = <<>>
    /\ crashes = 0
-----------------------------------------------------------------------------
(***************************************************************************)
(* The relayer.                                                            *)
(***************************************************************************)

Accepts(c) ==
    CASE c.fn = "create" -> CanCreate(c.start)
      [] c.fn = "execute" -> CanExecute(c.id)
      [] c.fn = "cancel" -> IsActive(c.id)

\* A transaction is included in a block: it takes effect or reverts.
Include(c) ==
    \/ c.fn = "create" /\ CreateSubscription(c.start)
    \/ c.fn = "execute" /\ ExecutePayment(c.id)
    \/ c.fn = "cancel" /\ CancelSubscription(c.id)
    \/ ~Accepts(c) /\ UNCHANGED contract

\* The relayer's db.commit() makes the caller's flushed rows visible and
\* expires what the caller's session had loaded.
CommitCaller(p) ==
    /\ mandate' = [q \in Requests |->
         IF q = p /\ mandate[q].status = "flushed"
         THEN [mandate[q] EXCEPT !.status = "ACTIVE"] ELSE mandate[q]]
    /\ worker' = [w \in Workers |->
         IF w = p THEN [worker[w] EXCEPT !.seen = Unseen] ELSE worker[w]]
    /\ UNCHANGED <<row, receipts, creator, cancel, crashes>>

\* The estimate reverts, or the node does not answer.
Refuse(p) ==
    /\ call[p].step = "asked"
    /\ call' = [call EXCEPT ![p].step = "refused"]
    /\ UNCHANGED <<contract, tables, creator, cancel, worker, late, crashes>>

\* The estimate succeeds against the latest block, whose timestamp gives the
\* start of a new agreement.
Send(p) ==
    /\ call[p].step = "asked"
    /\ Accepts([call[p] EXCEPT !.start = now])
    /\ call' = [call EXCEPT ![p].step = "sent", ![p].start = now]
    /\ UNCHANGED <<contract, tables, creator, cancel, worker, late, crashes>>

Mine(p) ==
    /\ call[p].step = "sent"
    /\ Include(call[p])
    /\ call' = [call EXCEPT
         ![p].step = IF Accepts(call[p]) THEN "confirmed" ELSE "reverted"]
    /\ CommitCaller(p)
    /\ UNCHANGED late

\* No receipt within 120 seconds, or the node rejects the transaction: the
\* transaction is gone, or may still be included.
Fail(p) ==
    /\ call[p].step = "sent"
    /\ call' = [call EXCEPT ![p].step = "failed"]
    /\ \/ UNCHANGED late
       \/ Len(late) < MaxLate /\ late' = Append(late, call[p])
    /\ CommitCaller(p)
    /\ UNCHANGED contract

MineLate ==
    /\ late # <<>>
    /\ Include(Head(late))
    /\ late' = Tail(late)
    /\ UNCHANGED <<tables, creator, cancel, worker, call, crashes>>

Relay(p) == Refuse(p) \/ Send(p) \/ Mine(p) \/ Fail(p)

Answered(p) == call[p].step \in Answers

\* Mutant: a receipt is taken for a success.
HasReceipt(p) == call[p].step \in {"confirmed", "reverted"}

Confirmed(p) == call[p].step = "confirmed"
-----------------------------------------------------------------------------
(***************************************************************************)
(* Authorize: mandate, on-chain creation, row, first payment.              *)
(***************************************************************************)

Visible == {q \in Requests : mandate[q].status \in {"ACTIVE", "REVOKED"}}

\* Mutant: the highest nonce itself.
HighestNonce == Max({mandate[q].nonce : q \in Visible} \cup {-1})

\* One past the highest nonce among the mandates that are committed.
NextNonce == Max({mandate[q].nonce : q \in Visible} \cup {-1}) + 1

\* Mutant: a mandate the relayer has committed meanwhile is forgotten.
RevokeFlushed(q) ==
    [mandate EXCEPT ![q].status = IF @ = "flushed" THEN "REVOKED" ELSE @]

Revoke(q) == [mandate EXCEPT ![q].status = "REVOKED"]

Sign(q) ==
    /\ creator[q].pc = "new"
    /\ creator' = [creator EXCEPT ![q] = [pc |-> "signed", nonce |-> NextNonce]]
    /\ UNCHANGED <<contract, tables, cancel, worker, call, late, crashes>>

\* A nonce that is not the next one is refused before anything is written.
Authorize(q) ==
    /\ creator[q].pc = "signed"
    /\ IF creator[q].nonce = NextNonce
       THEN /\ mandate' = [mandate EXCEPT ![q] =
                  [status |-> "flushed", nonce |-> creator[q].nonce]]
            /\ call' = [call EXCEPT ![q] = Ask("create", NoId)]
            /\ creator' = [creator EXCEPT ![q].pc = "creating"]
       ELSE /\ creator' = [creator EXCEPT ![q].pc = "done"]
            /\ UNCHANGED <<mandate, call>>
    /\ UNCHANGED <<contract, row, receipts, cancel, worker, late, crashes>>

\* The creation raised or reverted: the mandate is revoked.
CreationFailed(q) ==
    /\ creator[q].pc = "creating"
    /\ Answered(q) /\ ~Confirmed(q)
    /\ mandate' = Revoke(q)
    /\ creator' = [creator EXCEPT ![q].pc = "done"]
    /\ call' = [call EXCEPT ![q] = NoCall]
    /\ UNCHANGED <<contract, row, receipts, cancel, worker, late, crashes>>

\* The id is the contract's count at this moment, or NULL if the node does
\* not answer; then nobody will charge the subscription.
RecordSubscription(q) ==
    /\ creator[q].pc = "creating"
    /\ Confirmed(q)
    /\ \E oid \in {subscriptionCount, NoId} :
         /\ row' = [row EXCEPT ![q] =
              [NoRow EXCEPT !.status = "PENDING_PAYMENT",
                            !.next = call[q].start, !.oid = oid]]
         /\ IF oid = NoId
            THEN /\ creator' = [creator EXCEPT ![q].pc = "done"]
                 /\ call' = [call EXCEPT ![q] = NoCall]
            ELSE /\ creator' = [creator EXCEPT ![q].pc = "first"]
                 /\ call' = [call EXCEPT ![q] = Ask("execute", oid)]
    /\ UNCHANGED <<contract, mandate, receipts, cancel, worker, late, crashes>>

\* _execute_first_payment: its columns are all written, whatever the row has
\* become meanwhile.
FirstPayment(q) ==
    /\ creator[q].pc = "first"
    /\ Answered(q)
    /\ row' = [row EXCEPT ![q] =
         IF Confirmed(q)
         THEN [@ EXCEPT !.status = "ACTIVE", !.total = 1,
                        !.next = now + Interval, !.first = NoTime]
         ELSE [@ EXCEPT !.status = "PAST_DUE",
                        !.next = now + Retry, !.first = now]]
    /\ creator' = [creator EXCEPT ![q].pc = "done"]
    /\ call' = [call EXCEPT ![q] = NoCall]
    /\ UNCHANGED <<contract, mandate, receipts, cancel, worker, late, crashes>>
-----------------------------------------------------------------------------
(***************************************************************************)
(* Cancellation.                                                           *)
(***************************************************************************)

CancelRequest(c, q) ==
    /\ cancel[c].pc = "idle"
    /\ row[q].status \notin {"absent", "CANCELLED"}
    /\ cancel' = [cancel EXCEPT ![c] = [pc |-> "cancelling", target |-> q]]
    /\ call' = IF row[q].oid = NoId THEN call
               ELSE [call EXCEPT ![c] = Ask("cancel", row[q].oid)]
    /\ UNCHANGED <<contract, tables, creator, worker, late, crashes>>

\* Whatever the chain answered; only an active mandate is revoked.
CancelCommit(c) ==
    LET q == cancel[c].target IN
    /\ cancel[c].pc = "cancelling"
    /\ Answered(c) \/ call[c].step = "idle"
    /\ row' = [row EXCEPT ![q].status = "CANCELLED"]
    /\ mandate' = IF mandate[q].status = "ACTIVE" THEN Revoke(q) ELSE mandate
    /\ cancel' = [cancel EXCEPT ![c].pc = "done"]
    /\ call' = [call EXCEPT ![c] = NoCall]
    /\ UNCHANGED <<contract, receipts, creator, worker, late, crashes>>
-----------------------------------------------------------------------------
(***************************************************************************)
(* The scheduler.                                                          *)
(***************************************************************************)

Due(r) == r.status \in DueStatus /\ r.next <= now

\* Mutant: the latest due first.
LatestFirst(due) ==
    {batch \in SUBSET due :
        /\ Cardinality(batch) = BatchSize \/ batch = due
        /\ Cardinality(batch) <= BatchSize
        /\ \A q \in batch, p \in due \ batch : row[q].next >= row[p].next}

\* ORDER BY next_payment_at LIMIT batch_size, ties in any order.
Batches(due) ==
    {batch \in SUBSET due :
        /\ Cardinality(batch) = BatchSize \/ batch = due
        /\ Cardinality(batch) <= BatchSize
        /\ \A q \in batch, p \in due \ batch : row[q].next <= row[p].next}

\* A cycle loads the rows that are due, earliest first and as many as a batch
\* holds; no lock, no claim.
Cycle(w) ==
    \E batch \in Batches({q \in Requests : Due(row[q])}) :
        /\ worker[w] = IdleWorker
        /\ batch # {}
        /\ worker' = [worker EXCEPT ![w] =
             [IdleWorker EXCEPT !.todo = batch,
                !.seen = [q \in Requests |-> IF q \in batch THEN row[q] ELSE NoRow]]]
        /\ UNCHANGED <<contract, tables, creator, cancel, call, late, crashes>>

\* A row that a commit expired is loaded again; its status is not looked at.
Loaded(w, q) == IF worker[w].seen[q] = NoRow THEN row[q] ELSE worker[w].seen[q]

\* The next row of the batch: skipped without an id, else charged.
Begin(w, q) ==
    LET rest == [worker[w] EXCEPT !.todo = @ \ {q}] IN
    /\ worker[w].cur = "none"
    /\ q \in worker[w].todo
    /\ IF Loaded(w, q).oid = NoId
       THEN /\ worker' = [worker EXCEPT ![w] =
                 IF rest.todo = {} THEN IdleWorker ELSE rest]
            /\ UNCHANGED call
       ELSE /\ worker' = [worker EXCEPT ![w] =
                 [rest EXCEPT !.cur = q, !.seen[q] = Loaded(w, q)]]
            /\ call' = [call EXCEPT ![w] = Ask("execute", Loaded(w, q).oid)]
    /\ UNCHANGED <<contract, tables, creator, cancel, late, crashes>>

\* After the relayer's commit the row is read again.
Reload(w) ==
    LET q == worker[w].cur IN
    /\ q # "none"
    /\ Answered(w)
    /\ worker[w].seen[q] = NoRow
    /\ worker' = [worker EXCEPT ![w].seen[q] = row[q]]
    /\ UNCHANGED <<contract, tables, creator, cancel, call, late, crashes>>

\* The row as the scheduler wants it after a confirmed payment ...
Paid(r) ==
    [r EXCEPT !.status = "ACTIVE", !.total = @ + 1,
              !.next = now + Interval, !.first = NoTime]

\* Mutant: the first failure suspends.
SuspendAtOnce(r) == [r EXCEPT !.status = "PAUSED", !.first = now]

\* ... and after any other answer (_handle_payment_failure).
Unpaid(r) ==
    LET first == IF r.first = NoTime THEN now ELSE r.first IN
    IF now - first >= Grace
    THEN [r EXCEPT !.status = "PAUSED", !.first = first]
    ELSE [r EXCEPT !.status = "PAST_DUE", !.first = first, !.next = now + Retry]

\* The UPDATE of a session: the columns that differ from what it loaded.
Merge(loaded, wanted, stored) ==
    [col \in DOMAIN stored |->
        IF wanted[col] # loaded[col] THEN wanted[col] ELSE stored[col]]

Commit(w) ==
    LET q == worker[w].cur
        seen == worker[w].seen[q]
        wanted == IF Confirmed(w) THEN Paid(seen) ELSE Unpaid(seen)
    IN
    /\ q # "none"
    /\ Answered(w)
    /\ seen # NoRow
    /\ row' = [row EXCEPT ![q] = Merge(seen, wanted, @)]
    /\ receipts' = [receipts EXCEPT ![q] = IF Confirmed(w) THEN @ + 1 ELSE @]
    /\ worker' = [worker EXCEPT ![w].cur = "none", ![w].seen = Unseen]
    /\ call' = [call EXCEPT ![w] = NoCall]
    /\ UNCHANGED <<contract, mandate, creator, cancel, late, crashes>>
-----------------------------------------------------------------------------
\* A server process dies with the request or scheduler it runs: the session is
\* rolled back, a sent transaction is not.  Schedulers start again.
Crash(p) ==
    /\ crashes < MaxCrashes
    /\ crashes' = crashes + 1
    /\ call[p] # NoCall
    /\ \/ UNCHANGED late
       \/ /\ call[p].step = "sent" /\ Len(late) < MaxLate
          /\ late' = Append(late, call[p])
    /\ call' = [call EXCEPT ![p] = NoCall]
    /\ mandate' = [q \in Requests |->
         IF q = p /\ mandate[q].status = "flushed"
         THEN [mandate[q] EXCEPT !.status = "absent"] ELSE mandate[q]]
    /\ creator' = [q \in Requests |->
         IF q = p THEN [creator[q] EXCEPT !.pc = "lost"] ELSE creator[q]]
    /\ cancel' = [c \in Cancels |->
         IF c = p THEN [cancel[c] EXCEPT !.pc = "lost"] ELSE cancel[c]]
    /\ worker' = [w \in Workers |-> IF w = p THEN IdleWorker ELSE worker[w]]
    /\ UNCHANGED <<contract, row, receipts>>

\* What happens outside the backend; a party of the agreement may cancel it
\* on chain directly.  A call is answered within minutes, long before the
\* next half day, and so is every use of a loaded row.
Outside ==
    /\ \/ /\ \A p \in Processes : call[p] = NoCall
          /\ \A w \in Workers : worker[w].seen = Unseen
          /\ Tick
       \/ TogglePause \/ ToggleFunds
       \/ \E i \in DOMAIN subscriptions : CancelSubscription(i)
    /\ UNCHANGED <<tables, creator, cancel, worker, call, late, crashes>>

WorkerStep(w) ==
    \/ Cycle(w) \/ Reload(w) \/ Commit(w) \/ Relay(w)
    \/ \E q \in Requests : Begin(w, q)

RequestStep(q) ==
    \/ Sign(q) \/ Authorize(q) \/ CreationFailed(q) \/ RecordSubscription(q)
    \/ FirstPayment(q) \/ Relay(q)

CancelStep(c) ==
    \/ CancelCommit(c) \/ Relay(c)
    \/ \E q \in Requests : CancelRequest(c, q)

Next ==
    \/ \E w \in Workers : WorkerStep(w)
    \/ \E q \in Requests : RequestStep(q)
    \/ \E c \in Cancels : CancelStep(c)
    \/ \E p \in Processes : Crash(p)
    \/ MineLate
    \/ Outside

Spec == Init /\ [][Next]_vars

\* Every process runs the loop, every exception of a cycle is caught, a
\* crashed server is started again, and the wait for a receipt is bounded.
Fairness == \A w \in Workers : WF_vars(WorkerStep(w))

FairSpec == Spec /\ Fairness
-----------------------------------------------------------------------------
(***************************************************************************)
(* Properties.                                                             *)
(***************************************************************************)

\* The books never claim more than was charged: for each agreement on chain,
\* the payments counted and the payments recorded as PAID by the rows that
\* hold its id were all executed, and a row is ACTIVE only after one was.
BooksAreBacked ==
    \A i \in DOMAIN subscriptions :
        LET rows == {q \in Requests : row[q].oid = i}
            charged == subscriptions[i].paymentCount
        IN  /\ MapThenSumSet(LAMBDA q : row[q].total, rows) <= charged
            /\ MapThenSumSet(LAMBDA q : receipts[q], rows) <= charged
            /\ \A q \in rows : row[q].status = "ACTIVE" => charged > 0

\* A failed or refused creation never leaves an authorization behind: an
\* active mandate has a row that is not cancelled, or a request still at work
\* or killed by a crash.
MandateHasOwner ==
    \A q \in Requests :
        mandate[q].status = "ACTIVE" =>
            \/ row[q].status \notin {"absent", "CANCELLED"}
            \/ row[q].status = "absent" /\ creator[q].pc \in {"creating", "lost"}

\* No subscription is suspended before it could have failed for the grace
\* period, whoever overwrites the time of its first failure.
NoEarlyPause ==
    [][\A q \in Requests :
         row'[q].status = "PAUSED" /\ row[q].status # "PAUSED" =>
            now - subscriptions[row'[q].oid].since >= Grace]_row

\* A subscription that is due is charged, retried later, suspended or
\* cancelled, whoever crashes - unless the rows that no cycle can charge, those
\* without an on-chain id, fill the batch before it: they are skipped and stay
\* due.  "process up to 100 subscriptions per cycle" (subscription_scheduler.py)
\* holds for the rows looked at, not for the rows charged.
Skipped(p) == Due(row[p]) /\ row[p].oid = NoId

Crowded(q) ==
    Cardinality({p \in Requests : Skipped(p) /\ row[p].next <= row[q].next})
        >= BatchSize

DueIsHandled ==
    \A q \in Requests :
        (Due(row[q]) /\ row[q].oid # NoId) ~> (~Due(row[q]) \/ Crowded(q))
=============================================================================
