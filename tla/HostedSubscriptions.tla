------------------------ MODULE HostedSubscriptions ------------------------
(***************************************************************************)
(* Subscriptions of one customer to one plan, hosted by the merchant's     *)
(* pages: the handlers of app/routes/subscriptions.py, the public pages of *)
(* app/routes/subscription_checkout.py and the periodic pass of            *)
(* app/services/subscription_billing.py.                                   *)
(*                                                                         *)
(* A handler loads a row, decides, and commits the columns it changed; a   *)
(* column assigned the value that was read is not written.  What it is     *)
(* about to commit is a draft, kept in a request slot.  The pass works     *)
(* through its phases with drafts of its own.  Time is counted in days.    *)
(***************************************************************************)
EXTENDS Integers, Sequences, FiniteSets

CONSTANTS
    Subs,         \* identifiers of subscription rows
    MaxRequests,  \* bound on requests and payment callbacks
    TrialDays,    \* trial_days of the plan, while it grants a trial
    Period,       \* days of one billing interval
    Fee,          \* the plan has a setup fee or a reduced trial price
    MaxCycles,    \* max_billing_cycles, 0 when it is NULL
    Grace,        \* grace_period_days
    MaxRetries,   \* max_payment_retries
    SessionDays,  \* days a payment session can be paid
    MaxDay,       \* bound on time
    MaxSessions,  \* bound on payment sessions
    MaxPayments   \* bound on subscription_payments

ASSUME HostedAssumption ==
    /\ {TrialDays, MaxCycles, MaxDay, MaxRequests, MaxSessions, MaxPayments} \subseteq Nat
    /\ {Period, Grace, MaxRetries, SessionDays} \subseteq Nat \ {0}
    /\ Fee \in BOOLEAN

VARIABLES
    sub,       \* subscriptions
    payment,   \* subscription_payments, in the order of created_at
    session,   \* the payment_sessions of subscriptions, likewise
    request,   \* the draft each request holds; slots are used in order
    biller,    \* what the billing pass holds
    day,       \* datetime.utcnow()
    confirmed  \* history: confirmations and manual renewals of each row

hostedVars == <<sub, payment, session, request, biller, day, confirmed>>
-----------------------------------------------------------------------------
Null == -1
Requests == 1..MaxRequests
Time == Nat \cup {Null}

Live == {"PENDING_PAYMENT", "TRIALING", "ACTIVE", "PAST_DUE"}
SubStatus == Live \cup {"absent", "PAUSED", "CANCELLED"}

SubRow == [status: SubStatus, start: Time, end: Time, next: Time,
           trialEnd: Time, cancelAt: Time, failed: Nat, collected: Nat,
           mandate: BOOLEAN]
NoSub == [status |-> "absent", start |-> Null, end |-> Null, next |-> Null,
          trialEnd |-> Null, cancelAt |-> Null, failed |-> 0, collected |-> 0,
          mandate |-> FALSE]

\* session = 0: payment_session_id is NULL.
SubPayment == [sub: Subs, start: Time, session: Nat, paid: BOOLEAN]

\* "handed" is paid and given to handle_payment_confirmed.
PaySession == [sub: Subs, until: Nat, status: {"open", "paid", "handed"}]

\* What a transaction is about to write: the changed columns of the row, and
\* what becomes of the payment rows (a row inserted at 0, or changed).
PaymentWrite == {"none", "insert", "attach", "settle"}
Columns == DOMAIN NoSub
IsDraft(d) ==
    /\ d.sub \in Subs
    /\ \E C \in SUBSET Columns : /\ DOMAIN d.set = C
                               /\ [c \in Columns |-> IF c \in C THEN d.set[c] ELSE NoSub[c]] \in SubRow
    /\ d.pay \in PaymentWrite /\ d.at \in Nat /\ d.start \in Time
    /\ d.days \in Nat /\ d.backed \in {0, 1}

Phases == <<"trial", "due", "failed", "cancel">>

\* Every table and every slot keeps its type.
HostedTypeOK ==
    /\ DOMAIN sub = Subs /\ \A s \in Subs : sub[s] \in SubRow
    /\ payment \in Seq(SubPayment)
    /\ session \in Seq(PaySession)
    /\ DOMAIN request = Requests
    /\ \A q \in Requests :
         request[q].used \in BOOLEAN /\ \A d \in request[q].todo : IsDraft(d)
    /\ biller.phase \in 0..4 /\ \A d \in biller.todo : IsDraft(d)
    /\ day \in 0..MaxDay
    /\ confirmed \in [Subs -> Nat]

HostedInit ==
    /\ sub = [s \in Subs |-> NoSub]
    /\ payment = <<>>
    /\ session = <<>>
    /\ request = [q \in Requests |-> [used |-> FALSE, todo |-> {}]]
    /\ biller = [phase |-> 0, todo |-> {}]
    /\ day = 0
    /\ confirmed = [s \in Subs |-> 0]
-----------------------------------------------------------------------------
(***************************************************************************)
(* Transactions.                                                           *)
(***************************************************************************)

\* Mutant: every column is written back as it was read.
WholeRow(s, row) ==
    [sub |-> s, set |-> row, pay |-> "none", at |-> 0, start |-> Null, days |-> 0, backed |-> 0]

\* A draft that takes s to row; a column that stays as read is not written.
Change(s, row) ==
    [sub |-> s, set |-> [c \in {c \in Columns : row[c] # sub[s][c]} |-> row[c]],
     pay |-> "none", at |-> 0, start |-> Null, days |-> 0, backed |-> 0]

\* ... that also inserts a payment row for its period, with a session if
\* days > 0.
WithPayment(s, row, days) ==
    [Change(s, row) EXCEPT !.pay = "insert", !.start = row.start, !.days = days]

\* Mutant: a session that is not there is looked up.
LastSession(d) == IF d.days > 0 THEN Len(session) + 1 ELSE Null

NewSession(d) == IF d.days > 0 THEN Len(session) + 1 ELSE 0

\* db.commit()
Commit(d) ==
    /\ d.days > 0 => Len(session) < MaxSessions
    /\ d.pay = "insert" => Len(payment) < MaxPayments
    /\ sub' = [sub EXCEPT ![d.sub] =
         [c \in Columns |-> IF c \in DOMAIN d.set THEN d.set[c] ELSE @[c]]]
    /\ session' = IF d.days = 0 THEN session
         ELSE Append(session, [sub |-> d.sub, until |-> day + d.days, status |-> "open"])
    /\ payment' =
         CASE d.pay = "insert" ->
                Append(payment, [sub |-> d.sub, start |-> d.start,
                                 session |-> NewSession(d), paid |-> FALSE])
           [] d.pay = "attach" -> [payment EXCEPT ![d.at].session = NewSession(d)]
           [] d.pay = "settle" -> [payment EXCEPT ![d.at].paid = TRUE]
           [] OTHER -> payment
    /\ confirmed' = [confirmed EXCEPT ![d.sub] = @ + d.backed]

Unused(q) == ~request[q].used /\ \A p \in 1..(q - 1) : request[p].used

\* A handler that passed its checks holds its draft.
Begin(q, d) ==
    /\ Unused(q)
    /\ request' = [request EXCEPT ![q] = [used |-> TRUE, todo |-> {d}]]
    /\ UNCHANGED <<sub, payment, session, biller, day, confirmed>>

CommitRequest(q) ==
    \E d \in request[q].todo :
        /\ Commit(d)
        /\ request' = [request EXCEPT ![q].todo = {}]
        /\ UNCHANGED <<biller, day>>
-----------------------------------------------------------------------------
(***************************************************************************)
(* Creation.                                                               *)
(***************************************************************************)

\* A fresh identifier; two creations never share one.
Fresh(s) ==
    /\ sub[s].status = "absent"
    /\ \A q \in Requests : \A d \in request[q].todo : d.sub # s

NewRow(trial, mandate) ==
    [NoSub EXCEPT
        !.status = IF trial > 0 THEN "TRIALING" ELSE "PENDING_PAYMENT",
        !.start = day,
        !.end = day + (IF trial > 0 THEN trial ELSE Period),
        !.next = day + trial,
        !.trialEnd = IF trial > 0 THEN day + trial ELSE Null,
        !.mandate = mandate]

\* The plan stays active.  "Prevent duplicate active subscriptions"
NoneLive == \A t \in Subs : sub[t].status \notin Live

\* The customer's form.  What is due at once gets a session, unless the
\* chain's subscription contract takes a signed mandate instead.
BeginSubscribe(q, s, mandate) ==
    \E trial \in {0, TrialDays} :
        /\ NoneLive /\ Fresh(s)
        /\ Begin(q, IF (trial = 0 \/ Fee) /\ ~mandate
                    THEN WithPayment(s, NewRow(trial, mandate), SessionDays)
                    ELSE Change(s, NewRow(trial, mandate)))

\* The merchant's form: the trial may be skipped, and the first payment is
\* recorded without a session.
BeginCreate(q, s) ==
    \E trial \in {0, TrialDays} :
        /\ NoneLive /\ Fresh(s)
        /\ Begin(q, IF trial = 0 \/ Fee
                    THEN WithPayment(s, NewRow(trial, FALSE), 0)
                    ELSE Change(s, NewRow(trial, FALSE)))

-----------------------------------------------------------------------------
(***************************************************************************)
(* The handlers on a row r.                                                *)
(***************************************************************************)
Cancelled(r) == [r EXCEPT !.status = "CANCELLED", !.cancelAt = day]
CancelsAtEnd(r) == [r EXCEPT !.cancelAt = r.end]

BeginCancel(q, s) ==
    /\ sub[s].status \notin {"absent", "CANCELLED"}
    /\ \/ Begin(q, Change(s, Cancelled(sub[s])))
       \/ Begin(q, Change(s, CancelsAtEnd(sub[s])))

\* The customer's cancellation is immediate.
BeginManageCancel(q, s) ==
    /\ sub[s].status \notin {"absent", "CANCELLED"}
    /\ Begin(q, Change(s, Cancelled(sub[s])))

BeginPause(q, s) ==
    /\ sub[s].status \in {"ACTIVE", "TRIALING"}
    /\ Begin(q, Change(s, [sub[s] EXCEPT !.status = "PAUSED"]))

NewPeriod(r) ==
    [r EXCEPT !.status = "ACTIVE", !.start = day, !.end = day + Period]

\* The merchant's resume starts a period, the customer's does not.
BeginResume(q, s) ==
    /\ sub[s].status = "PAUSED"
    /\ Begin(q, Change(s, [NewPeriod(sub[s]) EXCEPT !.next = day]))

BeginManageResume(q, s) ==
    /\ sub[s].status = "PAUSED"
    /\ Begin(q, Change(s, [sub[s] EXCEPT !.status = "ACTIVE"]))

BeginExtendTrial(q, s) ==
    LET end == sub[s].trialEnd + 1 IN
    /\ sub[s].status = "TRIALING"
    /\ Begin(q, Change(s, [sub[s] EXCEPT !.trialEnd = end, !.end = end, !.next = end]))

\* A trial becomes a subscription: due now, its payment without a session.
Converted(s) == WithPayment(s, [NewPeriod(sub[s]) EXCEPT !.next = day], 0)

BeginEndTrial(q, s) ==
    /\ sub[s].status = "TRIALING"
    /\ Begin(q, Converted(s))

\* The wallet signed or refused; neither looks at the status.
BeginAuthorized(q, s) ==
    /\ sub[s].status # "absent"
    /\ Begin(q, Change(s, [sub[s] EXCEPT !.status = "ACTIVE"]))

BeginRejected(q, s) ==
    /\ sub[s].status # "absent"
    /\ Begin(q, Change(s, Cancelled(sub[s])))
-----------------------------------------------------------------------------
(***************************************************************************)
(* Collecting payments.                                                    *)
(***************************************************************************)
OpenPayments(s) == {i \in DOMAIN payment : payment[i].sub = s /\ ~payment[i].paid}
OfPeriod(s) == {i \in OpenPayments(s) : payment[i].start = sub[s].start}

\* The query has no order: any unpaid row of the period may come first.  One
\* that has a session, still payable or not, ends the request.
BeginCollect(q, s) ==
    LET draft == Change(s, sub[s]) IN
    /\ sub[s].status \in {"ACTIVE", "PAST_DUE"}
    /\ \/ /\ OfPeriod(s) = {}
          /\ Begin(q, WithPayment(s, sub[s], SessionDays))
       \/ \E i \in OfPeriod(s) :
            /\ payment[i].session = 0
            /\ Begin(q, [draft EXCEPT !.pay = "attach", !.at = i, !.days = SessionDays])

\* For a row that awaits its first payment the handler raises: it compares
\* with a status that PaymentStatus lacks.
BeginPayNow(q, s) ==
    /\ sub[s].status \notin {"absent", "CANCELLED", "PENDING_PAYMENT"}
    /\ \A i \in OpenPayments(s) : payment[i].session = 0
    /\ ~sub[s].mandate
    /\ Begin(q, WithPayment(s, sub[s], SessionDays))

\* Mutant: the cycle of the payment is counted along with the next.
CountedTwice(r) ==
    [NewPeriod(r) EXCEPT !.next = day + Period, !.failed = 0, !.collected = @ + 2]

\* The period that follows a payment.
Renewed(r) ==
    [NewPeriod(r) EXCEPT !.next = day + Period, !.failed = 0, !.collected = @ + 1]

Completed(r) == MaxCycles > 0 /\ r.collected >= MaxCycles

CancelIsDue(r) == r.cancelAt # Null /\ r.cancelAt <= day

BeginRenew(q, s) ==
    LET r == sub[s]
        ended == [r EXCEPT !.status = "CANCELLED"] IN
    /\ r.status \in {"ACTIVE", "PAST_DUE"}
    /\ Begin(q, IF Completed(r) \/ CancelIsDue(r) THEN Change(s, ended)
                ELSE [Change(s, Renewed(r)) EXCEPT !.backed = 1])

\* The customer pays a session in time; the listeners are in Payments.
Pay(i) ==
    /\ session[i].status = "open" /\ day <= session[i].until
    /\ session' = [session EXCEPT ![i].status = "paid"]
    /\ UNCHANGED <<sub, payment, request, biller, day, confirmed>>

\* handle_payment_confirmed: whatever the row has become, it is active.
BeginConfirm(q, i) ==
    LET s == session[i].sub
        paid == {j \in DOMAIN payment : payment[j].session = i}
        draft == [Change(s, Renewed(sub[s])) EXCEPT !.backed = 1] IN
    /\ session[i].status = "paid"
    /\ Unused(q)
    /\ session' = [session EXCEPT ![i].status = "handed"]
    /\ request' = [request EXCEPT ![q] = [used |-> TRUE, todo |-> {
         IF paid = {} THEN draft
         ELSE [draft EXCEPT !.pay = "settle", !.at = CHOOSE j \in paid : TRUE]}]]
    /\ UNCHANGED <<sub, payment, biller, day, confirmed>>
-----------------------------------------------------------------------------
(***************************************************************************)
(* The billing pass.                                                       *)
(***************************************************************************)
Overdue(r) == day - r.next

TrialDraft(s) ==
    IF sub[s].status = "TRIALING" /\ sub[s].trialEnd <= day
    THEN {Converted(s)} ELSE {}

DueDraft(s) ==
    LET r == sub[s] IN
    IF r.status # "ACTIVE" \/ r.next > day \/ CancelIsDue(r) THEN {}
    ELSE IF Completed(r) THEN {Change(s, [r EXCEPT !.status = "CANCELLED"])}
    ELSE IF OfPeriod(s) # {} THEN {}
    ELSE {WithPayment(s, r, SessionDays)}

LatestIsPaid(s) ==
    LET rows == {i \in DOMAIN payment :
                   payment[i].sub = s /\ payment[i].start = sub[s].start} IN
    \E i \in rows : payment[i].paid /\ \A j \in rows : j <= i

\* The count is compared with MaxRetries only, so it may stop there.
Reminded(d, count) ==
    [d EXCEPT !.set = [c \in DOMAIN @ \cup {"failed"} |->
        IF c # "failed" THEN @[c] ELSE IF count <= MaxRetries THEN count ELSE MaxRetries]]

FailedDraft(s) ==
    LET r == sub[s] IN
    IF r.status \notin {"ACTIVE", "PAST_DUE"} \/ r.next >= day \/ LatestIsPaid(s) THEN {}
    ELSE IF Overdue(r) > Grace /\ r.failed >= MaxRetries
    THEN {Change(s, [r EXCEPT !.status = "CANCELLED"])}
    ELSE {Reminded(Change(s, [r EXCEPT !.status = "PAST_DUE"]), r.failed + 1)}

\* Mutant: only active subscriptions are cancelled.
CancelActive(s) ==
    IF sub[s].status = "ACTIVE" /\ CancelIsDue(sub[s])
    THEN {Change(s, [sub[s] EXCEPT !.status = "CANCELLED"])} ELSE {}

CancelDraft(s) ==
    IF sub[s].status \notin {"absent", "CANCELLED"} /\ CancelIsDue(sub[s])
    THEN {Change(s, [sub[s] EXCEPT !.status = "CANCELLED"])} ELSE {}

PhaseDrafts(p) ==
    CASE Phases[p] = "trial" -> UNION {TrialDraft(s) : s \in Subs}
      [] Phases[p] = "due" -> UNION {DueDraft(s) : s \in Subs}
      [] Phases[p] = "failed" -> UNION {FailedDraft(s) : s \in Subs}
      [] Phases[p] = "cancel" -> UNION {CancelDraft(s) : s \in Subs}

\* The next phase loads the rows it is about; after the last the pass ends.
LoadPhase ==
    /\ biller.todo = {}
    /\ biller' = IF biller.phase = Len(Phases) THEN [phase |-> 0, todo |-> {}]
                 ELSE [phase |-> biller.phase + 1, todo |-> PhaseDrafts(biller.phase + 1)]
    /\ UNCHANGED <<sub, payment, session, request, day, confirmed>>

\* The one commit of a batch is taken row by row.
CommitBilled(d) ==
    /\ d \in biller.todo
    /\ Commit(d)
    /\ biller' = [biller EXCEPT !.todo = @ \ {d}]
    /\ UNCHANGED <<request, day>>

NextDay ==
    /\ day < MaxDay
    /\ day' = day + 1
    /\ UNCHANGED <<sub, payment, session, request, biller, confirmed>>
-----------------------------------------------------------------------------
OnRow(q, s) ==
    \/ BeginCreate(q, s)
    \/ \E mandate \in BOOLEAN : BeginSubscribe(q, s, mandate)
    \/ BeginCancel(q, s) \/ BeginManageCancel(q, s)
    \/ BeginPause(q, s) \/ BeginResume(q, s) \/ BeginManageResume(q, s)
    \/ BeginExtendTrial(q, s) \/ BeginEndTrial(q, s)
    \/ BeginAuthorized(q, s) \/ BeginRejected(q, s)
    \/ BeginCollect(q, s) \/ BeginPayNow(q, s) \/ BeginRenew(q, s)

BillingPass == LoadPhase \/ \E d \in biller.todo : CommitBilled(d)

HostedNext ==
    \/ \E q \in Requests, s \in Subs : OnRow(q, s)
    \/ \E q \in Requests : CommitRequest(q)
    \/ \E i \in DOMAIN session : Pay(i)
    \/ \E q \in Requests, i \in DOMAIN session : BeginConfirm(q, i)
    \/ BillingPass
    \/ NextDay

HostedSpec == HostedInit /\ [][HostedNext]_hostedVars

\* The pass is run for ever, requests are answered, days go by.
HostedFairness ==
    /\ WF_hostedVars(BillingPass)
    /\ \A q \in Requests : WF_hostedVars(CommitRequest(q))
    /\ WF_hostedVars(NextDay)

HostedFairSpec == HostedSpec /\ HostedFairness
-----------------------------------------------------------------------------
(***************************************************************************)
(* Properties.                                                             *)
(***************************************************************************)

\* The counter of collected cycles never exceeds the confirmations and the
\* manual renewals of the row, however transactions overwrite each other.
CyclesWereCollected == \A s \in Subs : sub[s].collected <= confirmed[s]

\* A trial is granted once, and a row never awaits its first payment again,
\* although handlers write over one another's status.
TrialIsGrantedOnce ==
    [][\A s \in Subs, status \in {"TRIALING", "PENDING_PAYMENT"} :
         sub[s].status \notin {"absent", status} => sub'[s].status # status]_hostedVars

\* Once the date of a cancellation has passed, the row is cancelled or the
\* date put off, and cancelled again when a late payment, a resume or a stale
\* write revived it.
CancellationHappens ==
    \A s \in Subs :
        CancelIsDue(sub[s]) ~> (sub[s].status = "CANCELLED" \/ ~CancelIsDue(sub[s]))

\* Who does not pay within the grace period is dropped, whatever reminders
\* were lost to concurrent writes.
NonPayerIsDropped ==
    \A s \in Subs :
        LET owes == sub[s].status \in {"ACTIVE", "PAST_DUE"} /\ Overdue(sub[s]) > Grace
        IN owes ~> ~owes

\* A cancelled and an unpaid subscription end.  (subscription_billing.py:
\* _process_pending_cancellations, _process_failed_payments)
UnwantedEnds == CancellationHappens /\ NonPayerIsDropped
=============================================================================
