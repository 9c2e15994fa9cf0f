------------------------------ MODULE Refunds ------------------------------
(***************************************************************************)
(* The refund subsystem: the HTTP handlers of app/routes/refunds.py, the   *)
(* on-chain processor of app/services/refund_processor.py, the fallback    *)
(* job of app/services/refund_scheduler.py, the transfer call of           *)
(* app/services/blockchain_relayer.py and the balance credit of            *)
(* app/services/payment_utils.py, over one merchant and one token.         *)
(*                                                                         *)
(* A handler is two steps per database transaction: a Begin action that    *)
(* reads and computes what the transaction will write, and a commit that   *)
(* writes it (READ COMMITTED, nothing locked in between; the guarded       *)
(* UPDATE of the balance is evaluated in the commit step, since it locks   *)
(* the merchant row until the commit).  The session writes only the        *)
(* attributes that differ from what it read, which is what "keep" says.    *)
(*                                                                         *)
(* Requests run on several server processes and workers on thread pools    *)
(* and scheduler threads, so any two of them interleave between steps.     *)
(***************************************************************************)
EXTENDS Integers, FiniteSets, FiniteSetsExt

CONSTANTS
    Payments,        \* payment sessions that were paid
    MaxRefunds,      \* how many refunds may be created
    PaymentAmount,   \* token amount of every payment
    InitialBalance,  \* the merchant's balance_<token> column at the start
    CreditAmount,    \* what one confirmed payment credits
    MaxCredits,      \* bound on the number of credits
    Withheld,        \* sums of pending withdrawals a balance check may read
    Requests,        \* request slots; each serves one HTTP request
    Workers,         \* threads that run processor passes
    MaxCrashes       \* bound on the number of process crashes

ASSUME RefundsAssumption ==
    /\ Payments # {}
    /\ MaxRefunds \in Nat \ {0}
    /\ PaymentAmount \in Nat \ {0}
    /\ InitialBalance \in Nat
    /\ CreditAmount \in Nat
    /\ MaxCredits \in Nat
    /\ Withheld \subseteq Nat
    /\ MaxCrashes \in Nat

VARIABLES
    payment,   \* status column of each payment session
    refund,    \* the refunds table
    balance,   \* the merchant's balance column
    request,   \* what each request handler holds between its steps
    tasks,     \* background tasks scheduled and not yet started
    worker,    \* what each processor thread holds between its steps
    credit,    \* the payment listener crediting the merchant
    crashes,   \* process crashes so far
    sent,      \* history: transfers submitted on chain, per refund
    debits,    \* history: balance deductions committed, per refund
    revoked,   \* history: refunds cancelled or lapsed and not reopened since
    readdressed  \* history: refunds reopened by update-address

history == <<sent, debits, revoked, readdressed>>
vars == <<payment, refund, balance, request, tasks, worker, credit, crashes,
          sent, debits, revoked, readdressed>>
-----------------------------------------------------------------------------
Refunds == 1..MaxRefunds
NoRefund == 0

\* "absent" is a row that does not exist yet.  INSUFFICIENT_FUNDS is declared
\* by the model but no code assigns it.
RefundStatus ==
    {"absent", "PENDING", "PROCESSING", "COMPLETED", "FAILED", "QUEUED"}
Open == {"PENDING", "PROCESSING", "COMPLETED"}
PaymentStatus == {"PAID", "PARTIALLY_REFUNDED", "REFUNDED"}
Source == {"platform_balance", "external_wallet"}

\* Time since creation: below the scheduler's threshold, above it, and past
\* queued_until.
Age == {"new", "stuck", "lapsed"}

Row == [status: RefundStatus, payment: Payments, amount: 0..PaymentAmount,
        source: Source, addressed: BOOLEAN, hash: BOOLEAN, age: Age]

Keep == "keep"
Tx == [status: [Refunds -> {Keep, "PENDING", "FAILED"}],
       pay: [Payments -> PaymentStatus \cup {Keep}],
       debit: SUBSET Refunds]
NoTx == [status |-> [r \in Refunds |-> Keep],
         pay |-> [p \in Payments |-> Keep],
         debit |-> {}]

AnyPayment == CHOOSE p \in Payments : TRUE
NoRow == [status |-> "absent", payment |-> AnyPayment, amount |-> 0,
          source |-> "platform_balance", addressed |-> FALSE, hash |-> FALSE,
          age |-> "new"]

UpdateKind == {"cancel", "revert", "retry", "force-retry", "update-address",
               "process-queued"}
Request == [kind: UpdateKind \cup {"idle", "create", "cancelled", "done"},
            target: Refunds \cup {NoRefund},
            draft: Row,
            tx: Tx]
Slot(kind, r, row, tx) ==
    [kind |-> kind, target |-> r, draft |-> row, tx |-> tx]
Idle == Slot("idle", NoRefund, NoRow, NoTx)
Done == Slot("done", NoRefund, NoRow, NoTx)

Worker == [pc: {"idle", "loop", "loaded", "sending", "sent"},
           mode: {"instant", "scheduled"},
           todo: SUBSET Refunds,
           cur: Refunds \cup {NoRefund},
           seen: RefundStatus,
           addressed: BOOLEAN,
           hash: BOOLEAN]
IdleWorker == [pc |-> "idle", mode |-> "instant", todo |-> {},
               cur |-> NoRefund, seen |-> "absent", addressed |-> FALSE,
               hash |-> FALSE]

\* Every table, slot and counter keeps its type.
TypeOK ==
    /\ payment \in [Payments -> PaymentStatus]
    /\ refund \in [Refunds -> Row]
    /\ balance \in Int
    /\ request \in [Requests -> Request]
    /\ tasks \subseteq Refunds
    /\ worker \in [Workers -> Worker]
    /\ credit \in [busy: BOOLEAN, seen: Nat, count: 0..MaxCredits]
    /\ crashes \in 0..MaxCrashes
    /\ sent \in [Refunds -> Nat]
    /\ debits \in [Refunds -> Nat]
    /\ revoked \subseteq Refunds
    /\ readdressed \subseteq Refunds

Init ==
    /\ payment = [p \in Payments |-> "PAID"]
    /\ refund = [r \in Refunds |-> NoRow]
    /\ balance = InitialBalance
    /\ request = [q \in Requests |-> Idle]
    /\ tasks = {}
    /\ worker = [w \in Workers |-> IdleWorker]
    /\ credit = [busy |-> FALSE, seen |-> 0, count |-> 0]
    /\ crashes = 0
    /\ sent = [r \in Refunds |-> 0]
    /\ debits = [r \in Refunds |-> 0]
    /\ revoked = {}
    /\ readdressed = {}
-----------------------------------------------------------------------------
(***************************************************************************)
(* Reads the handlers share.                                               *)
(***************************************************************************)

\* The sum of the amounts of a set of refunds.
Amounts(R) == MapThenSumSet(LAMBDA r : refund[r].amount, R)

\* The sum of the refunds of payment p in one of the given statuses.
Total(p, statuses) ==
    Amounts({r \in Refunds : /\ refund[r].payment = p
                             /\ refund[r].status \in statuses})

\* FullEnough forgives a missing token unit, as for a rounding error.
FullEnough(total) ==
    IF total + 1 >= PaymentAmount THEN "REFUNDED" ELSE "PARTIALLY_REFUNDED"

\* The payment status the handlers derive from a total.
StatusFor(total) ==
    IF total >= PaymentAmount THEN "REFUNDED" ELSE "PARTIALLY_REFUNDED"

\* What the session writes for an attribute read as old and assigned new.
Change(old, new) == IF old = new THEN Keep ELSE new
Apply(old, write) == IF write = Keep THEN old ELSE write

Absent == {r \in Refunds : refund[r].status = "absent"}

\* The WHERE clause of the UPDATE that deducts from the balance, evaluated
\* when the statement runs.  UncheckedUpdate leaves the clause out.
UncheckedUpdate(price) == price \in Nat
Covered(price) == price \in 0..balance
-----------------------------------------------------------------------------
(***************************************************************************)
(* POST /refunds.  An amount left out means the whole remainder, so it     *)
(* adds no case.  Refusals with an error change nothing and are left out.  *)
(***************************************************************************)
BeginCreate(q) ==
    /\ request[q] = Idle
    /\ \E p \in Payments, amount \in 1..PaymentAmount, withheld \in Withheld,
          ifShort \in {"queue", "force"}, addressed \in BOOLEAN :
        LET total  == Total(p, Open \cup {"QUEUED"})
            short  == balance - withheld < amount
            queued == short /\ ifShort = "queue"
        IN  /\ payment[p] \in {"PAID", "PARTIALLY_REFUNDED"}
            /\ amount <= PaymentAmount - total
            /\ request' = [request EXCEPT ![q] =
                 Slot("create", NoRefund,
                      [NoRow EXCEPT
                         !.status = IF queued THEN "QUEUED" ELSE "PENDING",
                         !.payment = p,
                         !.amount = amount,
                         !.source = IF short /\ ~queued
                                    THEN "external_wallet"
                                    ELSE "platform_balance",
                         !.addressed = addressed],
                      IF queued THEN NoTx
                      ELSE [NoTx EXCEPT !.pay[p] =
                              Change(payment[p], StatusFor(total + amount))])]
    /\ UNCHANGED <<payment, refund, balance, tasks, worker, credit, crashes,
                   history>>

\* What the creation of this row deducts: only a refund that starts PENDING
\* against the platform balance is paid for now.  ChargeAlways also deducts
\* for a refund that is queued.
ChargeAlways(row) == IF row.source = "platform_balance" THEN row.amount ELSE 0
Price(row) ==
    IF row.status = "PENDING" /\ row.source = "platform_balance"
    THEN row.amount ELSE 0

CommitCreate(q) ==
    /\ request[q].kind = "create"
    /\ Covered(Price(request[q].draft))
    /\ \E r \in Absent :
        LET row == request[q].draft
        IN  /\ \A s \in Absent : r <= s
            /\ refund' = [refund EXCEPT ![r] = row]
            /\ balance' = balance - Price(row)
            /\ debits' = [debits EXCEPT ![r] =
                            @ + (IF Price(row) > 0 THEN 1 ELSE 0)]
            /\ tasks' = IF row.status = "QUEUED" THEN tasks
                        ELSE tasks \cup {r}
    /\ payment' = [p \in Payments |->
                     Apply(payment[p], request[q].tx.pay[p])]
    /\ request' = [request EXCEPT ![q] = Done]
    /\ UNCHANGED <<worker, credit, crashes, sent, revoked, readdressed>>
-----------------------------------------------------------------------------
(***************************************************************************)
(* POST /refunds/{id}/cancel: two transactions.  The first fails the       *)
(* refund; the second reverts the payment's status.                        *)
(***************************************************************************)
BeginCancel(q, r) ==
    /\ request[q] = Idle
    /\ refund[r].status \in {"PENDING", "QUEUED"}
    /\ request' = [request EXCEPT ![q] =
         Slot("cancel", r, NoRow, [NoTx EXCEPT !.status[r] = "FAILED"])]
    /\ UNCHANGED <<payment, refund, balance, tasks, worker, credit, crashes,
                   history>>

BeginRevert(q) ==
    /\ request[q].kind = "cancelled"
    /\ LET r == request[q].target
           p == refund[r].payment
           completed == \E s \in Refunds \ {r} :
                           /\ refund[s].payment = p
                           /\ refund[s].status = "COMPLETED"
       IN  request' = [request EXCEPT ![q] =
             IF payment[p] = "PAID" THEN Done
             ELSE Slot("revert", r, NoRow,
                       [NoTx EXCEPT !.pay[p] =
                          Change(payment[p], IF completed
                                             THEN "PARTIALLY_REFUNDED"
                                             ELSE "PAID")])]
    /\ UNCHANGED <<payment, refund, balance, tasks, worker, credit, crashes,
                   history>>

(***************************************************************************)
(* POST /refunds/{id}/retry.  The deduction is made again, whatever was    *)
(* deducted before.  FreeRetry reopens the refund without one.             *)
(***************************************************************************)
Funded(r) == refund[r].source = "platform_balance"
FreeRetry(r) == {}
RetryDebit(r) == IF Funded(r) THEN {r} ELSE {}

BeginRetry(q, r) ==
    /\ request[q] = Idle
    /\ refund[r].status \in {"FAILED", "QUEUED"}
    /\ \E withheld \in Withheld :
        LET p == refund[r].payment
            others == {s \in Refunds \ {r} : /\ refund[s].payment = p
                                             /\ refund[s].status \in Open}
        IN  /\ Funded(r) => balance - withheld >= refund[r].amount
            /\ request' = [request EXCEPT ![q] =
                 Slot("retry", r, NoRow,
                      [status |-> [NoTx.status EXCEPT ![r] = "PENDING"],
                       pay |-> [NoTx.pay EXCEPT ![p] =
                          Change(payment[p],
                                 StatusFor(Amounts(others) + refund[r].amount))],
                       debit |-> RetryDebit(r)])]
    /\ UNCHANGED <<payment, refund, balance, tasks, worker, credit, crashes,
                   history>>

(***************************************************************************)
(* POST /refunds/{id}/force-retry: reopens a COMPLETED refund and clears   *)
(* its hash.  PATCH /refunds/{id}/update-address: reopens a FAILED one     *)
(* with an address.  Neither looks at the balance.                         *)
(***************************************************************************)
BeginForceRetry(q, r) ==
    /\ request[q] = Idle
    /\ refund[r].status = "COMPLETED"
    /\ request' = [request EXCEPT ![q] =
         Slot("force-retry", r, NoRow, [NoTx EXCEPT !.status[r] = "PENDING"])]
    /\ UNCHANGED <<payment, refund, balance, tasks, worker, credit, crashes,
                   history>>

BeginUpdateAddress(q, r) ==
    /\ request[q] = Idle
    /\ refund[r].status = "FAILED"
    /\ request' = [request EXCEPT ![q] =
         Slot("update-address", r, NoRow,
              [NoTx EXCEPT !.status[r] = "PENDING"])]
    /\ UNCHANGED <<payment, refund, balance, tasks, worker, credit, crashes,
                   history>>

(***************************************************************************)
(* POST /refunds/process-queued: in creation order, lapsed refunds fail    *)
(* and each refund the remaining balance covers is promoted.  The payment  *)
(* total is read from the database, where earlier promotions of the same   *)
(* batch are not written yet, so the last promotion of a payment decides.  *)
(***************************************************************************)
BeginProcessQueued(q) ==
    /\ request[q] = Idle
    /\ \E withheld \in Withheld :
        LET queued == {r \in Refunds : refund[r].status = "QUEUED"}
            lapsed == {r \in queued : refund[r].age = "lapsed"}
            covers(P, r) == balance - Amounts({s \in P : s < r}) - withheld
                              >= refund[r].amount
            last(P, p) == Max({r \in P : refund[r].payment = p})
        IN  \E promoted \in SUBSET (queued \ lapsed) :
              /\ queued # {}
              /\ \A r \in queued \ lapsed :
                    r \in promoted <=> covers(promoted, r)
              /\ request' = [request EXCEPT ![q] =
                   Slot("process-queued", NoRefund, NoRow,
                     [status |-> [r \in Refunds |->
                                    IF r \in lapsed THEN "FAILED"
                                    ELSE IF r \in promoted THEN "PENDING"
                                    ELSE Keep],
                      pay |-> [p \in Payments |->
                        IF \E r \in promoted : refund[r].payment = p
                        THEN Change(payment[p],
                               StatusFor(Total(p, Open)
                                         + refund[last(promoted, p)].amount))
                        ELSE Keep],
                      debit |-> promoted])]
    /\ UNCHANGED <<payment, refund, balance, tasks, worker, credit, crashes,
                   history>>

(***************************************************************************)
(* The commit of every handler but creation.  No handler hands a reopened  *)
(* refund to a background task.  The guarded UPDATE refuses a debit the    *)
(* balance does not cover and rolls the transaction back.                  *)
(***************************************************************************)
Commit(q) ==
    LET tx == request[q].tx
        kind == request[q].kind
        is(r, k) == kind = k /\ request[q].target = r
        price == Amounts(tx.debit)
        failed == {r \in Refunds : tx.status[r] = "FAILED"}
        reopened == {r \in Refunds : tx.status[r] = "PENDING"}
    IN  /\ kind \in UpdateKind
        /\ Covered(price)
        /\ refund' = [r \in Refunds |->
             [refund[r] EXCEPT
                !.status = Apply(@, tx.status[r]),
                !.hash = @ /\ ~is(r, "force-retry"),
                !.addressed = @ \/ is(r, "update-address")]]
        /\ payment' = [p \in Payments |-> Apply(payment[p], tx.pay[p])]
        /\ balance' = balance - price
        /\ debits' = [r \in Refunds |->
                        debits[r] + (IF r \in tx.debit THEN 1 ELSE 0)]
        /\ revoked' = (revoked \cup failed) \ reopened
        /\ readdressed' = IF kind = "update-address"
                          THEN readdressed \cup reopened ELSE readdressed
        /\ request' = [request EXCEPT ![q] =
             IF kind = "cancel"
             THEN Slot("cancelled", request[q].target, NoRow, NoTx)
             ELSE Done]
        /\ UNCHANGED <<tasks, worker, credit, crashes, sent>>

Refuse(q) ==
    /\ \/ /\ request[q].kind = "create"
          /\ ~Covered(Price(request[q].draft))
       \/ /\ request[q].kind \in UpdateKind
          /\ ~Covered(Amounts(request[q].tx.debit))
    /\ request' = [request EXCEPT ![q] = Done]
    /\ UNCHANGED <<payment, refund, balance, tasks, worker, credit, crashes,
                   history>>
-----------------------------------------------------------------------------
(***************************************************************************)
(* The processor.  A background task handles one refund; a pass handles    *)
(* every refund that was PENDING when the pass began.  Neither looks at    *)
(* the status of the refund it then processes.                             *)
(***************************************************************************)
Start(w, mode, todo) ==
    worker' = [worker EXCEPT ![w] =
                 [IdleWorker EXCEPT !.pc = "loop", !.mode = mode,
                                    !.todo = todo]]

\* The snapshot of a pass.  Waiting would take the queued refunds too.
Waiting == {r \in Refunds : refund[r].status \in {"PENDING", "QUEUED"}}
Pending == {r \in Refunds : refund[r].status = "PENDING"}

StartTask(w) ==
    /\ worker[w].pc = "idle"
    /\ \E r \in tasks : /\ Start(w, "instant", {r})
                        /\ tasks' = tasks \ {r}
    /\ UNCHANGED <<payment, refund, balance, request, credit, crashes, history>>

\* POST /refunds/process-pending and the admin trigger.
StartInstantPass(q, w) ==
    /\ request[q] = Idle
    /\ worker[w].pc = "idle"
    /\ Pending # {}
    /\ Start(w, "instant", Pending)
    /\ request' = [request EXCEPT ![q] = Done]
    /\ UNCHANGED <<payment, refund, balance, tasks, credit, crashes, history>>

StartScheduledPass(w) ==
    /\ worker[w].pc = "idle"
    /\ Pending # {}
    /\ Start(w, "scheduled", Pending)
    /\ UNCHANGED <<payment, refund, balance, request, tasks, credit, crashes,
                   history>>

\* What a worker holds once it is done with refund r.
Advance(w, r) ==
    IF worker[w].todo = {r} THEN IdleWorker
    ELSE [IdleWorker EXCEPT !.pc = "loop", !.mode = worker[w].mode,
                            !.todo = worker[w].todo \ {r}]

\* The scheduled mode leaves refunds below the threshold to the background
\* tasks.  NeverOld compares with the wrong sign and skips every refund.
NeverOld(w, r) == worker[w].mode = "scheduled"
TooYoung(w, r) == worker[w].mode = "scheduled" /\ refund[r].age = "new"

Skip(w) ==
    /\ worker[w].pc = "loop"
    /\ \E r \in worker[w].todo :
        /\ TooYoung(w, r)
        /\ worker' = [worker EXCEPT ![w] = Advance(w, r)]
    /\ UNCHANGED <<payment, refund, balance, request, tasks, credit, crashes,
                   history>>

Load(w) ==
    /\ worker[w].pc = "loop"
    /\ \E r \in worker[w].todo :
        /\ ~TooYoung(w, r)
        /\ worker' = [worker EXCEPT ![w].pc = "loaded",
                                    ![w].cur = r,
                                    ![w].seen = refund[r].status,
                                    ![w].addressed = refund[r].addressed]
    /\ UNCHANGED <<payment, refund, balance, request, tasks, credit, crashes,
                   history>>

\* The session writes a status only if it differs from the one it last read.
Write(seen, new, old) == IF seen = new THEN old ELSE new

\* No address: the refund fails before anything is sent.
Reject(w) ==
    /\ worker[w].pc = "loaded"
    /\ ~worker[w].addressed
    /\ LET r == worker[w].cur
       IN  /\ refund' = [refund EXCEPT ![r].status =
                           Write(worker[w].seen, "FAILED", @)]
           /\ worker' = [worker EXCEPT ![w] = Advance(w, r)]
    /\ UNCHANGED <<payment, balance, request, tasks, credit, crashes, history>>

\* PROCESSING is committed, and the row read again.
Mark(w) ==
    /\ worker[w].pc = "loaded"
    /\ worker[w].addressed
    /\ LET r == worker[w].cur
           new == Write(worker[w].seen, "PROCESSING", refund[r].status)
       IN  /\ refund' = [refund EXCEPT ![r].status = new]
           /\ worker' = [worker EXCEPT ![w].pc = "sending", ![w].seen = new]
    /\ UNCHANGED <<payment, balance, request, tasks, credit, crashes, history>>

\* The relayer call: the transfer may be submitted and its hash returned,
\* refused, or submitted while the answer is lost (timeout, unparsable or
\* incomplete reply), which the processor cannot tell from a refusal.
Send(w) ==
    /\ worker[w].pc = "sending"
    /\ \E submitted, answered \in BOOLEAN :
        /\ answered => submitted
        /\ sent' = [sent EXCEPT ![worker[w].cur] =
                      @ + (IF submitted THEN 1 ELSE 0)]
        /\ worker' = [worker EXCEPT ![w].pc = "sent", ![w].hash = answered]
    /\ UNCHANGED <<payment, refund, balance, request, tasks, credit, crashes,
                   debits, revoked, readdressed>>

\* AlwaysCompleted ignores that the relayer returned no hash.
AlwaysCompleted(hash) == "COMPLETED"
Outcome(hash) == IF hash THEN "COMPLETED" ELSE "FAILED"

Finish(w) ==
    /\ worker[w].pc = "sent"
    /\ LET r == worker[w].cur
           hash == worker[w].hash
       IN  /\ refund' = [refund EXCEPT
                ![r].status = Write(worker[w].seen, Outcome(hash), @),
                ![r].hash = @ \/ hash]
           /\ worker' = [worker EXCEPT ![w] = Advance(w, r)]
    /\ UNCHANGED <<payment, balance, request, tasks, credit, crashes, history>>
-----------------------------------------------------------------------------
(***************************************************************************)
(* A payment listener credits the balance: a read, then an absolute write. *)
(***************************************************************************)
ReadCredit ==
    /\ ~credit.busy
    /\ credit.count < MaxCredits
    /\ credit' = [busy |-> TRUE, seen |-> balance, count |-> credit.count + 1]
    /\ UNCHANGED <<payment, refund, balance, request, tasks, worker, crashes,
                   history>>

WriteCredit ==
    /\ credit.busy
    /\ balance' = credit.seen + CreditAmount
    /\ credit' = [credit EXCEPT !.busy = FALSE, !.seen = 0]
    /\ UNCHANGED <<payment, refund, request, tasks, worker, crashes, history>>

\* Time passes for a refund: past the scheduler's threshold, then past
\* queued_until (which only a refund created QUEUED has).
Elapse(r) ==
    /\ refund[r].status # "absent"
    /\ \/ /\ refund[r].age = "new"
          /\ refund' = [refund EXCEPT ![r].age = "stuck"]
       \/ /\ refund[r].age = "stuck"
          /\ refund[r].status = "QUEUED"
          /\ refund' = [refund EXCEPT ![r].age = "lapsed"]
    /\ UNCHANGED <<payment, balance, request, tasks, worker, credit, crashes,
                   history>>

\* A server process dies with the threads, handlers and background tasks it
\* hosts; open transactions are rolled back.
Crash ==
    /\ crashes < MaxCrashes
    /\ \E W \in SUBSET Workers, Q \in SUBSET Requests, T \in SUBSET tasks :
        /\ worker' = [w \in Workers |->
                        IF w \in W THEN IdleWorker ELSE worker[w]]
        /\ request' = [q \in Requests |->
                         IF q \in Q /\ request[q] # Idle THEN Done
                         ELSE request[q]]
        /\ tasks' = tasks \ T
    /\ crashes' = crashes + 1
    /\ UNCHANGED <<payment, refund, balance, credit, history>>
-----------------------------------------------------------------------------
Handler(q) ==
    \/ BeginCreate(q) \/ CommitCreate(q)
    \/ BeginRevert(q) \/ BeginProcessQueued(q)
    \/ Commit(q) \/ Refuse(q)
    \/ \E r \in Refunds : \/ BeginCancel(q, r) \/ BeginRetry(q, r)
                          \/ BeginForceRetry(q, r) \/ BeginUpdateAddress(q, r)
    \/ \E w \in Workers : StartInstantPass(q, w)

Processor(w) ==
    \/ StartTask(w) \/ StartScheduledPass(w)
    \/ Skip(w) \/ Load(w) \/ Reject(w) \/ Mark(w) \/ Send(w) \/ Finish(w)

Next ==
    \/ \E q \in Requests : Handler(q)
    \/ \E w \in Workers : Processor(w)
    \/ \E r \in Refunds : Elapse(r)
    \/ ReadCredit \/ WriteCredit
    \/ Crash

Spec == Init /\ [][Next]_vars

(***************************************************************************)
(* Fairness: the scheduler's interval job keeps running, a thread that     *)
(* began a pass continues it, and time passes.  No request is obliged to   *)
(* come.                                                                   *)
(***************************************************************************)
Fairness ==
    /\ \A w \in Workers : WF_vars(Processor(w))
    /\ \A r \in Refunds : WF_vars(Elapse(r))

FairSpec == Spec /\ Fairness
-----------------------------------------------------------------------------
(***************************************************************************)
(* Properties.                                                             *)
(***************************************************************************)

\* Whatever handlers and credits interleave, the balance column never goes
\* below zero: the guard of the UPDATE, not the check made before it, is
\* what protects it (create_refund, retry_refund, process_queued_refunds).
BalanceNeverOverdrawn == balance >= 0

\* A refund waiting for funds is out of reach of the processor: nothing was
\* deducted for it, nothing was sent, and no task or thread holds it.
OutOfReach(r) ==
    /\ debits[r] = 0 /\ sent[r] = 0
    /\ r \notin tasks
    /\ \A w \in Workers : r \notin worker[w].todo

QueuedIsUntouched ==
    \A r \in Refunds : refund[r].status = "QUEUED" => OutOfReach(r)

\* COMPLETED is a promise to the customer: whichever threads raced over the
\* row, it then has a hash and a transfer was submitted.
CompletedWasSent ==
    \A r \in Refunds : refund[r].status = "COMPLETED" =>
        refund[r].hash /\ sent[r] > 0

\* A refund charged to the platform balance is sent without ever having been
\* deducted only if update-address reopened it: every other way into PENDING
\* goes through the guarded UPDATE.
UnfundedOnlyByUpdateAddress ==
    \A r \in Refunds :
        /\ refund[r].source = "platform_balance"
        /\ sent[r] > 0
        /\ debits[r] = 0
        => r \in readdressed

\* A payment reads REFUNDED only if refunds for its whole amount were asked
\* for, whatever order the creations, cancellations, retries and promotions
\* that wrote it from their own reads of the refunds were committed in.
Asked(p) == Total(p, RefundStatus \ {"absent"})

RefundedIsAsked ==
    \A p \in Payments : payment[p] = "REFUNDED" => Asked(p) >= PaymentAmount

\* A refund leaves QUEUED only by promotion, retry, cancellation or expiry,
\* and no stale write of any handler or thread puts one back.
QueuedIsLeftForGood ==
    [][\A r \in Refunds :
         /\ refund[r].status = "QUEUED" =>
              refund'[r].status \in {"QUEUED", "PENDING", "FAILED"}
         /\ refund'[r].status = "QUEUED" =>
              refund[r].status \in {"QUEUED", "absent"}]_refund

\* The scheduler is the safety net: a PENDING refund does not stay PENDING
\* for ever, even if the background task it was given died with its process.
PendingIsPickedUp ==
    \A r \in Refunds :
        refund[r].status = "PENDING" ~> refund[r].status # "PENDING"

(***************************************************************************)
(* The inductive invariant behind the safety properties: what a thread or  *)
(* a handler holds between two of its steps still fits the tables.         *)
(***************************************************************************)
Unreached == \A r \in Refunds :
    refund[r].status \in {"absent", "QUEUED"} => OutOfReach(r)

\* A platform refund never deducted nor readdressed is still out of reach.
Undeducted == \A r \in Refunds :
    /\ refund[r].source = "platform_balance"
    /\ debits[r] = 0
    /\ r \notin readdressed
    => /\ refund[r].status \in {"absent", "QUEUED", "FAILED"}
       /\ OutOfReach(r)

WorkerHoldsItsRefund == \A w \in Workers :
    /\ worker[w].pc \in {"loaded", "sending", "sent"} =>
          worker[w].cur \in worker[w].todo
    /\ worker[w].pc = "sent" /\ worker[w].hash => sent[worker[w].cur] > 0

DraftIsSound == \A q \in Requests : request[q].kind = "create" =>
    /\ request[q].draft.status \in {"PENDING", "QUEUED"}
    /\ request[q].draft.amount > 0

TxIsSound == \A q \in Requests : \A r \in Refunds :
    LET tx == request[q].tx
        kind == request[q].kind
    IN  /\ tx.status[r] # Keep => refund[r].status # "absent"
        /\ r \in tx.debit => tx.status[r] = "PENDING"
        /\ kind = "force-retry" /\ request[q].target = r =>
              tx.status[r] = "PENDING"
        /\ /\ tx.status[r] = "PENDING"
           /\ r \notin tx.debit
           /\ refund[r].source = "platform_balance"
           => kind = "update-address" \/ debits[r] > 0 \/ r \in readdressed

\* The inductive invariant: types, covered balance, and what handlers and
\* threads hold between their transactions, taken together.
IInv == /\ TypeOK
        /\ BalanceNeverOverdrawn
        /\ Unreached
        /\ Undeducted
        /\ CompletedWasSent
        /\ WorkerHoldsItsRefund
        /\ DraftIsSound
        /\ TxIsSound

\* Behind RefundedIsAsked: a handler about to write REFUNDED read refunds that
\* make up the payment, counting the one it is about to create itself.
Pledge(slot, p) ==
    IF slot.kind = "create" /\ slot.draft.payment = p
    THEN slot.draft.amount ELSE 0

TxIsAsked == \A q \in Requests : \A p \in Payments :
    request[q].tx.pay[p] = "REFUNDED" =>
        Asked(p) + Pledge(request[q], p) >= PaymentAmount

\* The subsystem implements RefundPromise: QUEUED rows are held, any other
\* existing row is released, COMPLETED rows are confirmed.
Phase(r) ==
    IF refund[r].status = "absent" THEN "absent"
    ELSE IF refund[r].status = "QUEUED" THEN "held" ELSE "released"

Promise == INSTANCE RefundPromise WITH
    Refunds <- Refunds,
    Opening <- InitialBalance,
    account <- balance,
    phase <- [r \in Refunds |-> Phase(r)],
    transfers <- sent,
    confirmed <- {r \in Refunds : refund[r].status = "COMPLETED"}

KeepsPromise == Promise!Spec
-----------------------------------------------------------------------------
(***************************************************************************)
(* What the documentation says and the code does not keep.                 *)
(***************************************************************************)

\* "Can only cancel refunds that haven't started processing"
\* (app/routes/refunds.py, cancel_refund): a cancelled refund, or one failed
\* because it lapsed, is not sent unless it was reopened.
CancelledIsNotSent ==
    [][\A r \in Refunds : sent'[r] > sent[r] => r \notin revoked]_sent
=============================================================================
