--------------------------- MODULE RefundsProofs ---------------------------
(***************************************************************************)
(* Proofs about Refunds for every number of refunds, requests and workers. *)
(***************************************************************************)
EXTENDS Refunds, Sums, TLAPS

\* Every default record has its type.
LEMMA Defaults ==
    /\ NoRow \in Row /\ NoRow.status = "absent"
    /\ NoTx \in Tx
    /\ \A r \in Refunds : NoTx.status[r] = Keep /\ r \notin NoTx.debit
    /\ IdleWorker \in Worker
    /\ IdleWorker.pc = "idle" /\ IdleWorker.todo = {}
    /\ Idle \in Request /\ Idle.kind = "idle" /\ Idle.tx = NoTx
    /\ Done \in Request /\ Done.kind = "done" /\ Done.tx = NoTx
<1>1. NoRow \in Row /\ NoRow.status = "absent"
    BY RefundsAssumption
       DEF NoRow, Row, RefundStatus, Source, Age, AnyPayment
<1>2. NoTx \in Tx /\ \A r \in Refunds : NoTx.status[r] = Keep
                                         /\ r \notin NoTx.debit
    BY DEF NoTx, Tx, Keep
<1>3. IdleWorker \in Worker /\ IdleWorker.pc = "idle" /\ IdleWorker.todo = {}
    BY DEF IdleWorker, Worker, RefundStatus, NoRefund
<1>4. \A k \in {"idle", "done"} : Slot(k, NoRefund, NoRow, NoTx) \in Request
    BY <1>1, <1>2 DEF Slot, Request
<1>5. QED
    BY <1>1, <1>2, <1>3, <1>4 DEF Idle, Done, Slot

LEMMA InitIInv == Init => IInv
<1> SUFFICES ASSUME Init PROVE IInv
    OBVIOUS
<1> USE Defaults DEF Init
<1>1. TypeOK
    BY RefundsAssumption DEF TypeOK, PaymentStatus
<1>2. BalanceNeverOverdrawn
    BY RefundsAssumption DEF BalanceNeverOverdrawn
<1>3. Unreached /\ Undeducted
    BY DEF Unreached, Undeducted, OutOfReach
<1>4. CompletedWasSent
    BY DEF CompletedWasSent
<1>5. WorkerHoldsItsRefund
    BY DEF WorkerHoldsItsRefund
<1>6. DraftIsSound /\ TxIsSound
    BY DEF DraftIsSound, TxIsSound, Keep
<1>7. QED
    BY <1>1, <1>2, <1>3, <1>4, <1>5, <1>6 DEF IInv
-----------------------------------------------------------------------------
(***************************************************************************)
(* What a request slot must satisfy: DraftIsSound and TxIsSound say it of  *)
(* every slot.                                                             *)
(***************************************************************************)
SoundDraft(slot) == slot.kind = "create" =>
    /\ slot.draft.status \in {"PENDING", "QUEUED"}
    /\ slot.draft.amount > 0

SoundTx(slot, r) ==
    /\ slot.tx.status[r] # Keep => refund[r].status # "absent"
    /\ r \in slot.tx.debit => slot.tx.status[r] = "PENDING"
    /\ slot.kind = "force-retry" /\ slot.target = r =>
          slot.tx.status[r] = "PENDING"
    /\ /\ slot.tx.status[r] = "PENDING"
       /\ r \notin slot.tx.debit
       /\ refund[r].source = "platform_balance"
       => slot.kind = "update-address" \/ debits[r] > 0 \/ r \in readdressed

\* A handler's read leaves the tables alone: what it puts in its slot decides.
LEMMA FillSlot ==
    ASSUME IInv, NEW q \in Requests, NEW slot \in Request,
           request' = [request EXCEPT ![q] = slot],
           UNCHANGED <<payment, refund, balance, tasks, worker, credit,
                       crashes, history>>,
           SoundDraft(slot),
           \A r \in Refunds : SoundTx(slot, r)
    PROVE  IInv'
<1> USE DEF IInv, history
<1>1. TypeOK'
    BY DEF TypeOK
<1>2. BalanceNeverOverdrawn' /\ CompletedWasSent'
    BY DEF BalanceNeverOverdrawn, CompletedWasSent
<1>3. Unreached' /\ Undeducted'
    BY DEF Unreached, Undeducted, OutOfReach
<1>4. WorkerHoldsItsRefund'
    BY DEF WorkerHoldsItsRefund
<1>5. request' \in [Requests -> Request]
    BY <1>1 DEF TypeOK
<1>6. \A x \in Requests : request'[x] = IF x = q THEN slot ELSE request[x]
    BY DEF TypeOK
<1>7. DraftIsSound'
    BY <1>6 DEF DraftIsSound, SoundDraft
<1>8. TxIsSound'
    BY <1>6 DEF TxIsSound, SoundTx
<1>9. QED
    BY <1>1, <1>2, <1>3, <1>4, <1>7, <1>8

\* A slot without a transaction asks nothing.
LEMMA EmptySlotIsSound ==
    ASSUME NEW slot, slot.tx = NoTx, slot.kind \notin {"create", "force-retry"}
    PROVE  SoundDraft(slot) /\ \A r \in Refunds : SoundTx(slot, r)
BY Defaults DEF SoundDraft, SoundTx, Keep

\* A transaction that sets the status of one refund and nothing else.
LEMMA StatusTx ==
    ASSUME NEW r \in Refunds, NEW new \in {"PENDING", "FAILED"}
    PROVE  LET tx == [NoTx EXCEPT !.status[r] = new]
           IN  /\ tx \in Tx
               /\ tx.status[r] = new
               /\ \A s \in Refunds : s # r => tx.status[s] = Keep
               /\ \A s \in Refunds : s \notin tx.debit
BY Defaults DEF Tx

\* A transaction that sets the status of one refund, with a payment status
\* and perhaps its debit.
LEMMA OneRefundTx ==
    ASSUME NEW r \in Refunds, NEW new \in {"PENDING", "FAILED"},
           NEW pay \in [Payments -> PaymentStatus \cup {Keep}],
           NEW debit \in SUBSET {r}
    PROVE  LET tx == [status |-> [NoTx.status EXCEPT ![r] = new],
                      pay |-> pay, debit |-> debit]
           IN  /\ tx \in Tx
               /\ tx.status[r] = new
               /\ \A s \in Refunds : s # r =>
                     tx.status[s] = Keep /\ s \notin tx.debit
BY DEF NoTx, Tx
-----------------------------------------------------------------------------
(***************************************************************************)
(* The reads of the handlers.                                              *)
(***************************************************************************)
LEMMA StatusForType == \A total : StatusFor(total) \in PaymentStatus
BY DEF StatusFor, PaymentStatus

LEMMA ChangeType ==
    ASSUME NEW old, NEW new \in PaymentStatus
    PROVE  Change(old, new) \in PaymentStatus \cup {Keep}
BY DEF Change

LEMMA BeginCreateKeeps ==
    ASSUME IInv, NEW q \in Requests, BeginCreate(q) PROVE IInv'
<1>1. PICK p \in Payments, amount \in 1..PaymentAmount,
           withheld \in Withheld, ifShort \in {"queue", "force"},
           addressed \in BOOLEAN :
        LET total  == Total(p, Open \cup {"QUEUED"})
            short  == balance - withheld < amount
            queued == short /\ ifShort = "queue"
        IN  /\ payment[p] \in {"PAID", "PARTIALLY_REFUNDED"}
            /\ amount <= PaymentAmount - total
            /\ request' = [request EXCEPT ![q] =
                 Slot("create", NoRefund,
                      [NoRow EXCEPT
                         !.status = IF queued THEN "QUEUED" ELSE "PENDING",
                         !.payment = p,
                         !.amount = amount,
                         !.source = IF short /\ ~queued
                                    THEN "external_wallet"
                                    ELSE "platform_balance",
                         !.addressed = addressed],
                      IF queued THEN NoTx
                      ELSE [NoTx EXCEPT !.pay[p] =
                              Change(payment[p], StatusFor(total + amount))])]
    BY DEF BeginCreate
<1> DEFINE short == balance - withheld < amount
           queued == short /\ ifShort = "queue"
           pay == Change(payment[p],
                         StatusFor(Total(p, Open \cup {"QUEUED"}) + amount))
           status == IF queued THEN "QUEUED" ELSE "PENDING"
           source == IF short /\ ~queued THEN "external_wallet"
                     ELSE "platform_balance"
           row == [NoRow EXCEPT !.status = status, !.payment = p,
                                !.amount = amount, !.source = source,
                                !.addressed = addressed]
           tx == IF queued THEN NoTx ELSE [NoTx EXCEPT !.pay[p] = pay]
           slot == Slot("create", NoRefund, row, tx)
<1>2. row \in Row /\ row.status \in {"PENDING", "QUEUED"} /\ row.amount > 0
    <2>1. status \in {"PENDING", "QUEUED"} /\ source \in Source
        BY DEF Source
    <2>2. amount \in 0..PaymentAmount /\ amount > 0
        BY RefundsAssumption
    <2> HIDE DEF status, source
    <2>3. QED
        BY <2>1, <2>2, Defaults DEF Row, RefundStatus
<1>3. pay \in PaymentStatus \cup {Keep}
    BY ChangeType, StatusForType
<1> HIDE DEF pay
<1>4. tx \in Tx /\ \A r \in Refunds : tx.status[r] = Keep /\ r \notin tx.debit
    BY <1>3, Defaults DEF Tx
<1>5. slot \in Request
    BY <1>2, <1>4 DEF Slot, Request
<1>6. SoundDraft(slot) /\ \A r \in Refunds : SoundTx(slot, r)
    BY <1>2, <1>4 DEF Slot, SoundDraft, SoundTx, Keep
<1>7. request' = [request EXCEPT ![q] = slot]
    BY <1>1 DEF pay
<1> HIDE DEF slot
<1>8. QED
    BY <1>5, <1>6, <1>7, FillSlot DEF BeginCreate, history

LEMMA BeginCancelKeeps ==
    ASSUME IInv, NEW q \in Requests, NEW r \in Refunds, BeginCancel(q, r)
    PROVE  IInv'
<1> DEFINE tx == [NoTx EXCEPT !.status[r] = "FAILED"]
           slot == Slot("cancel", r, NoRow, tx)
<1>1. /\ tx \in Tx /\ tx.status[r] = "FAILED"
      /\ \A s \in Refunds : s # r => tx.status[s] = Keep
      /\ \A s \in Refunds : s \notin tx.debit
    BY StatusTx
<1>2. slot \in Request
    BY <1>1, Defaults DEF Slot, Request, UpdateKind
<1>3. SoundDraft(slot) /\ \A s \in Refunds : SoundTx(slot, s)
    BY <1>1 DEF Slot, SoundDraft, SoundTx, Keep, BeginCancel
<1>4. request' = [request EXCEPT ![q] = slot]
    BY DEF BeginCancel
<1> HIDE DEF slot
<1>5. QED
    BY <1>2, <1>3, <1>4, FillSlot DEF BeginCancel, history

LEMMA BeginRevertKeeps ==
    ASSUME IInv, NEW q \in Requests, BeginRevert(q) PROVE IInv'
<1> DEFINE r == request[q].target
           p == refund[r].payment
<1>1. PICK pay \in PaymentStatus \cup {Keep} :
        request' = [request EXCEPT ![q] =
          IF payment[p] = "PAID" THEN Done
          ELSE Slot("revert", r, NoRow, [NoTx EXCEPT !.pay[p] = pay])]
    BY ChangeType DEF BeginRevert, PaymentStatus
<1> DEFINE tx == [NoTx EXCEPT !.pay[p] = pay]
           slot == IF payment[p] = "PAID" THEN Done
                   ELSE Slot("revert", r, NoRow, tx)
<1>2. tx \in Tx /\ \A s \in Refunds : tx.status[s] = Keep /\ s \notin tx.debit
    BY Defaults DEF Tx
<1>3. r \in Refunds \cup {NoRefund}
    BY DEF IInv, TypeOK, Request
<1>4. slot \in Request
    BY <1>2, <1>3, Defaults DEF Slot, Request, UpdateKind
<1>5. SoundDraft(slot) /\ \A s \in Refunds : SoundTx(slot, s)
    BY <1>2, Defaults DEF Slot, SoundDraft, SoundTx, Keep
<1>6. request' = [request EXCEPT ![q] = slot]
    BY <1>1
<1> HIDE DEF slot
<1>7. QED
    BY <1>4, <1>5, <1>6, FillSlot DEF BeginRevert, history

LEMMA BeginRetryKeeps ==
    ASSUME IInv, NEW q \in Requests, NEW r \in Refunds, BeginRetry(q, r)
    PROVE  IInv'
<1>1. PICK pay \in PaymentStatus \cup {Keep} :
        request' = [request EXCEPT ![q] =
          Slot("retry", r, NoRow,
               [status |-> [NoTx.status EXCEPT ![r] = "PENDING"],
                pay |-> [NoTx.pay EXCEPT ![refund[r].payment] = pay],
                debit |-> RetryDebit(r)])]
    BY ChangeType, StatusForType DEF BeginRetry
<1> DEFINE tx == [status |-> [NoTx.status EXCEPT ![r] = "PENDING"],
                  pay |-> [NoTx.pay EXCEPT ![refund[r].payment] = pay],
                  debit |-> RetryDebit(r)]
           slot == Slot("retry", r, NoRow, tx)
<1>2. [NoTx.pay EXCEPT ![refund[r].payment] = pay]
        \in [Payments -> PaymentStatus \cup {Keep}]
    BY DEF NoTx
<1>3. RetryDebit(r) \in SUBSET {r}
    BY DEF RetryDebit
<1>4. tx \in Tx /\ tx.status[r] = "PENDING"
      /\ \A s \in Refunds : s # r => tx.status[s] = Keep /\ s \notin tx.debit
    BY <1>2, <1>3, OneRefundTx
<1>5. slot \in Request
    BY <1>4, Defaults DEF Slot, Request, UpdateKind
<1>6. refund[r].source = "platform_balance" => r \in tx.debit
    BY DEF RetryDebit, Funded
<1>7. SoundDraft(slot) /\ \A s \in Refunds : SoundTx(slot, s)
    BY <1>4, <1>6 DEF Slot, SoundDraft, SoundTx, Keep, BeginRetry
<1>8. request' = [request EXCEPT ![q] = slot]
    BY <1>1
<1> HIDE DEF slot
<1>9. QED
    BY <1>5, <1>7, <1>8, FillSlot DEF BeginRetry, history

\* Force-retry may skip the deduction because a COMPLETED platform refund was
\* sent, and one that was sent was deducted or readdressed.
LEMMA BeginForceRetryKeeps ==
    ASSUME IInv, NEW q \in Requests, NEW r \in Refunds, BeginForceRetry(q, r)
    PROVE  IInv'
<1> DEFINE tx == [NoTx EXCEPT !.status[r] = "PENDING"]
           slot == Slot("force-retry", r, NoRow, tx)
<1>1. /\ tx \in Tx /\ tx.status[r] = "PENDING"
      /\ \A s \in Refunds : s # r => tx.status[s] = Keep
      /\ \A s \in Refunds : s \notin tx.debit
    BY StatusTx
<1>2. slot \in Request
    BY <1>1, Defaults DEF Slot, Request, UpdateKind
<1>3. refund[r].source = "platform_balance" =>
        debits[r] > 0 \/ r \in readdressed
    <2>1. debits[r] \in Nat
        BY DEF IInv, TypeOK
    <2>2. QED
        BY <2>1 DEF IInv, Undeducted, BeginForceRetry
<1>4. SoundDraft(slot) /\ \A s \in Refunds : SoundTx(slot, s)
    BY <1>1, <1>3 DEF Slot, SoundDraft, SoundTx, Keep, BeginForceRetry
<1>5. request' = [request EXCEPT ![q] = slot]
    BY DEF BeginForceRetry
<1> HIDE DEF slot
<1>6. QED
    BY <1>2, <1>4, <1>5, FillSlot DEF BeginForceRetry, history

LEMMA BeginUpdateAddressKeeps ==
    ASSUME IInv, NEW q \in Requests, NEW r \in Refunds,
           BeginUpdateAddress(q, r)
    PROVE  IInv'
<1> DEFINE tx == [NoTx EXCEPT !.status[r] = "PENDING"]
           slot == Slot("update-address", r, NoRow, tx)
<1>1. /\ tx \in Tx /\ tx.status[r] = "PENDING"
      /\ \A s \in Refunds : s # r => tx.status[s] = Keep
      /\ \A s \in Refunds : s \notin tx.debit
    BY StatusTx
<1>2. slot \in Request
    BY <1>1, Defaults DEF Slot, Request, UpdateKind
<1>3. SoundDraft(slot) /\ \A s \in Refunds : SoundTx(slot, s)
    BY <1>1 DEF Slot, SoundDraft, SoundTx, Keep, BeginUpdateAddress
<1>4. request' = [request EXCEPT ![q] = slot]
    BY DEF BeginUpdateAddress
<1> HIDE DEF slot
<1>5. QED
    BY <1>2, <1>3, <1>4, FillSlot DEF BeginUpdateAddress, history

LEMMA BeginProcessQueuedKeeps ==
    ASSUME IInv, NEW q \in Requests, BeginProcessQueued(q) PROVE IInv'
<1> DEFINE queued == {r \in Refunds : refund[r].status = "QUEUED"}
           lapsed == {r \in queued : refund[r].age = "lapsed"}
<1>1. PICK promoted \in SUBSET (queued \ lapsed),
           pay \in [Payments -> PaymentStatus \cup {Keep}] :
        request' = [request EXCEPT ![q] =
          Slot("process-queued", NoRefund, NoRow,
            [status |-> [r \in Refunds |->
                           IF r \in lapsed THEN "FAILED"
                           ELSE IF r \in promoted THEN "PENDING"
                           ELSE Keep],
             pay |-> pay,
             debit |-> promoted])]
    <2>1. \A p \in Payments : \A total :
            Change(payment[p], StatusFor(total)) \in PaymentStatus \cup {Keep}
        BY ChangeType, StatusForType
    <2>2. QED
        BY <2>1 DEF BeginProcessQueued
<1> DEFINE tx == [status |-> [r \in Refunds |->
                                IF r \in lapsed THEN "FAILED"
                                ELSE IF r \in promoted THEN "PENDING"
                                ELSE Keep],
                  pay |-> pay,
                  debit |-> promoted]
           slot == Slot("process-queued", NoRefund, NoRow, tx)
<1>2. tx \in Tx
    BY DEF Tx
<1>3. slot \in Request
    BY <1>2, Defaults DEF Slot, Request, UpdateKind
<1>4. SoundDraft(slot) /\ \A s \in Refunds : SoundTx(slot, s)
    BY DEF Slot, SoundDraft, SoundTx, Keep
<1>5. request' = [request EXCEPT ![q] = slot]
    BY <1>1
<1> HIDE DEF slot
<1>6. QED
    BY <1>3, <1>4, <1>5, FillSlot DEF BeginProcessQueued, history

LEMMA RefuseKeeps ==
    ASSUME IInv, NEW q \in Requests, Refuse(q) PROVE IInv'
<1>1. SoundDraft(Done) /\ \A s \in Refunds : SoundTx(Done, s)
    BY Defaults, EmptySlotIsSound
<1>2. QED
    BY <1>1, Defaults, FillSlot DEF Refuse, history
-----------------------------------------------------------------------------
(***************************************************************************)
(* The commits of the handlers.                                            *)
(***************************************************************************)
LEMMA CommitCreateKeeps ==
    ASSUME IInv, NEW q \in Requests, CommitCreate(q) PROVE IInv'
<1> DEFINE row == request[q].draft
           price == Price(row)
<1>1. PICK r \in Absent :
        /\ refund' = [refund EXCEPT ![r] = row]
        /\ balance' = balance - price
        /\ debits' = [debits EXCEPT ![r] = @ + (IF price > 0 THEN 1 ELSE 0)]
        /\ tasks' = IF row.status = "QUEUED" THEN tasks ELSE tasks \cup {r}
    BY DEF CommitCreate
<1>2. r \in Refunds /\ refund[r].status = "absent"
    BY DEF Absent
<1>3. row \in Row /\ row.status \in {"PENDING", "QUEUED"} /\ row.amount > 0
    BY DEF IInv, TypeOK, Request, DraftIsSound, CommitCreate
<1>4. price \in 0..balance
    BY DEF CommitCreate, Covered
<1>5. /\ row.status = "QUEUED" => price = 0
      /\ row.status = "PENDING" /\ row.source = "platform_balance" => price > 0
    BY <1>3 DEF Price
<1>6. OutOfReach(r)
    BY <1>2 DEF IInv, Unreached
<1> HIDE DEF row, price
<1>7. TypeOK'
    <2>1. payment' \in [Payments -> PaymentStatus]
        BY DEF IInv, TypeOK, CommitCreate, Apply, Request, Tx
    <2>2. request' \in [Requests -> Request]
        BY Defaults DEF IInv, TypeOK, CommitCreate
    <2>3. /\ refund' \in [Refunds -> Row] /\ balance' \in Int
          /\ debits' \in [Refunds -> Nat]
          /\ tasks' \subseteq Refunds
        BY <1>1, <1>2, <1>3, <1>4 DEF IInv, TypeOK
    <2>4. QED
        BY <2>1, <2>2, <2>3 DEF IInv, TypeOK, CommitCreate
<1>8. BalanceNeverOverdrawn'
    BY <1>1, <1>4 DEF IInv, TypeOK, BalanceNeverOverdrawn
<1>9. \A s \in Refunds : s # r =>
        /\ refund'[s] = refund[s]
        /\ OutOfReach(s) => OutOfReach(s)'
    BY <1>1 DEF IInv, TypeOK, OutOfReach, CommitCreate
<1>10. refund'[r] = row /\ (row.status = "QUEUED" => OutOfReach(r)')
    BY <1>1, <1>2, <1>5, <1>6 DEF IInv, TypeOK, OutOfReach, CommitCreate
<1>11. debits'[r] = debits[r] + (IF price > 0 THEN 1 ELSE 0)
       /\ \A s \in Refunds : s # r => debits'[s] = debits[s]
    BY <1>1, <1>2 DEF IInv, TypeOK
<1>12. Unreached'
    BY <1>3, <1>9, <1>10 DEF IInv, Unreached
<1>13. Undeducted'
    <2>1. debits[r] = 0
        BY <1>6 DEF OutOfReach
    <2>2. QED
        BY <2>1, <1>3, <1>5, <1>9, <1>10, <1>11
           DEF IInv, Undeducted, CommitCreate
<1>14. CompletedWasSent'
    BY <1>3, <1>9, <1>10 DEF IInv, CompletedWasSent, CommitCreate
<1>15. WorkerHoldsItsRefund'
    BY DEF IInv, WorkerHoldsItsRefund, CommitCreate
<1>16. request' = [request EXCEPT ![q] = Done]
    BY DEF CommitCreate
<1>17. DraftIsSound'
    BY <1>16, Defaults DEF IInv, TypeOK, DraftIsSound
<1>18. TxIsSound'
    <2> SUFFICES ASSUME NEW x \in Requests, NEW s \in Refunds
                 PROVE  SoundTx(request[x], s)' 
        BY DEF TxIsSound, SoundTx
    <2>1. CASE x = q
        BY <2>1, <1>16, Defaults DEF IInv, TypeOK, SoundTx, Keep
    <2>2. CASE x # q
        <3>1. request'[x] = request[x]
            BY <2>2, <1>16 DEF IInv, TypeOK
        <3>2. SoundTx(request[x], s)
            BY DEF IInv, TxIsSound, SoundTx
        <3>3. CASE s = r
            BY <3>1, <3>2, <3>3, <1>2, <1>3, <1>10
               DEF SoundTx, Keep
        <3>4. CASE s # r
            BY <3>1, <3>2, <3>4, <1>9, <1>11 DEF SoundTx, CommitCreate
        <3>5. QED
            BY <3>3, <3>4
    <2>3. QED
        BY <2>1, <2>2
<1>19. QED
    BY <1>7, <1>8, <1>12, <1>13, <1>14, <1>15, <1>17, <1>18 DEF IInv

\* What the commit of a handler does to a row.
LEMMA CommitRow ==
    ASSUME IInv, NEW q \in Requests, Commit(q), NEW r \in Refunds
    PROVE  /\ request[q].tx.status[r] \in {Keep, "PENDING", "FAILED"}
           /\ refund'[r] \in Row
           /\ refund'[r].status =
                Apply(refund[r].status, request[q].tx.status[r])
           /\ refund'[r].source = refund[r].source
           /\ refund'[r].hash =
                (/\ refund[r].hash
                 /\ ~(/\ request[q].kind = "force-retry"
                      /\ request[q].target = r))
<1> DEFINE tx == request[q].tx
           status == Apply(refund[r].status, tx.status[r])
           hash == /\ refund[r].hash
                   /\ ~(/\ request[q].kind = "force-retry"
                        /\ request[q].target = r)
           addressed == \/ refund[r].addressed
                        \/ /\ request[q].kind = "update-address"
                           /\ request[q].target = r
<1>1. tx.status[r] \in {Keep, "PENDING", "FAILED"} /\ refund[r] \in Row
    BY DEF IInv, TypeOK, Request, Tx
<1>2. status \in RefundStatus
    BY <1>1 DEF Apply, Row, RefundStatus
<1>3. hash \in BOOLEAN /\ addressed \in BOOLEAN
    OBVIOUS
<1>4. refund'[r] = [refund[r] EXCEPT !.status = status, !.hash = hash,
                                     !.addressed = addressed]
    BY DEF Commit
<1> HIDE DEF status, hash, addressed
<1>5. /\ refund'[r] \in Row /\ refund'[r].status = status
      /\ refund'[r].source = refund[r].source /\ refund'[r].hash = hash
    BY <1>1, <1>2, <1>3, <1>4 DEF Row
<1>6. QED
    BY <1>1, <1>5 DEF status, hash

LEMMA CommitKeeps ==
    ASSUME IInv, NEW q \in Requests, Commit(q) PROVE IInv'
<1> DEFINE tx == request[q].tx
           kind == request[q].kind
           price == Amounts(tx.debit)
           next == IF kind = "cancel"
                   THEN Slot("cancelled", request[q].target, NoRow, NoTx)
                   ELSE Done
<1>1. tx \in Tx /\ request[q].target \in Refunds \cup {NoRefund}
    BY DEF IInv, TypeOK, Request
<1>2. price \in 0..balance
    BY DEF Commit, Covered
<1> DEFINE status(r) == Apply(refund[r].status, tx.status[r])
           hash(r) == (/\ refund[r].hash
                       /\ ~(kind = "force-retry" /\ request[q].target = r))
<1>3. \A r \in Refunds :
        debits'[r] = debits[r] + (IF r \in tx.debit THEN 1 ELSE 0)
    BY DEF Commit
<1>4. balance' = balance - price
    BY DEF Commit
<1>5. request' = [request EXCEPT ![q] = next]
    BY DEF Commit
<1>6. UNCHANGED <<tasks, worker, credit, crashes, sent>>
    BY DEF Commit
<1>7. /\ readdressed \subseteq readdressed'
      /\ kind = "update-address" =>
           \A r \in Refunds : tx.status[r] = "PENDING" => r \in readdressed'
    BY DEF Commit
<1>8. revoked' \subseteq Refunds /\ readdressed' \subseteq Refunds
    BY DEF Commit, IInv, TypeOK
<1>9. payment' \in [Payments -> PaymentStatus]
    BY <1>1 DEF Commit, IInv, TypeOK, Apply, Tx
<1>10. \A r \in Refunds :
        /\ refund'[r] \in Row
        /\ refund'[r].status = status(r)
        /\ refund'[r].source = refund[r].source
        /\ refund'[r].hash = hash(r)
    BY CommitRow
<1>11. \A r \in Refunds : tx.status[r] \in {Keep, "PENDING", "FAILED"}
    BY CommitRow
<1>12. refund' \in [Refunds -> Row] /\ debits' \in [Refunds -> Nat]
    <2>1. \A r \in Refunds : refund'[r] \in Row
        BY <1>10
    <2>2. \A r \in Refunds : debits'[r] \in Nat
        BY <1>3 DEF IInv, TypeOK
    <2>3. QED
        BY <2>1, <2>2 DEF Commit
<1>13. next \in Request /\ next.tx = NoTx
       /\ next.kind \notin {"create", "force-retry"}
    BY <1>1, Defaults DEF Slot, Request
<1>14. \A r \in Refunds :
        /\ tx.status[r] # Keep => refund[r].status # "absent"
        /\ r \in tx.debit => tx.status[r] = "PENDING"
        /\ kind = "force-retry" /\ request[q].target = r =>
              tx.status[r] = "PENDING"
        /\ /\ tx.status[r] = "PENDING"
           /\ r \notin tx.debit
           /\ refund[r].source = "platform_balance"
           => kind = "update-address" \/ debits[r] > 0 \/ r \in readdressed
    BY DEF IInv, TxIsSound
<1> HIDE DEF price, next, tx, kind, hash
<1>15. TypeOK'
    <2>1. balance' \in Int
        BY <1>2, <1>4 DEF IInv, TypeOK
    <2>2. request' \in [Requests -> Request]
        BY <1>5, <1>13 DEF IInv, TypeOK
    <2>3. QED
        BY <2>1, <2>2, <1>6, <1>8, <1>9, <1>12 DEF IInv, TypeOK
<1>16. BalanceNeverOverdrawn'
    BY <1>2, <1>4 DEF IInv, TypeOK, BalanceNeverOverdrawn
<1>17. \A r \in Refunds : r \notin tx.debit /\ OutOfReach(r) => OutOfReach(r)'
    BY <1>3, <1>6 DEF OutOfReach, IInv, TypeOK
<1>18. Unreached'
    <2> SUFFICES ASSUME NEW r \in Refunds,
                        refund'[r].status \in {"absent", "QUEUED"}
                 PROVE  OutOfReach(r)'
        BY DEF Unreached
    <2>1. status(r) = refund[r].status /\ tx.status[r] = Keep
        BY <1>10, <1>11 DEF Apply, Keep
    <2>2. OutOfReach(r)
        BY <2>1, <1>10 DEF IInv, Unreached
    <2>3. r \notin tx.debit
        BY <2>1, <1>14 DEF Keep
    <2>4. QED
        BY <2>2, <2>3, <1>17
<1>19. Undeducted'
    <2> SUFFICES ASSUME NEW r \in Refunds,
                        refund[r].source = "platform_balance",
                        debits'[r] = 0, r \notin readdressed'
                 PROVE  /\ refund'[r].status \in {"absent", "QUEUED", "FAILED"}
                        /\ OutOfReach(r)'
        BY <1>10 DEF Undeducted
    <2>1. debits[r] = 0 /\ r \notin tx.debit
        BY <1>3 DEF IInv, TypeOK
    <2>2. r \notin readdressed
        BY <1>7
    <2>3. /\ refund[r].status \in {"absent", "QUEUED", "FAILED"}
          /\ OutOfReach(r)
        BY <2>1, <2>2 DEF IInv, Undeducted
    <2>4. tx.status[r] # "PENDING"
        BY <2>1, <2>2, <1>7, <1>14
    <2>5. QED
        BY <2>1, <2>3, <2>4, <1>10, <1>11, <1>17 DEF Apply
<1>20. CompletedWasSent'
    <2> SUFFICES ASSUME NEW r \in Refunds, refund'[r].status = "COMPLETED"
                 PROVE  refund'[r].hash /\ sent'[r] > 0
        BY DEF CompletedWasSent
    <2>1. refund[r].status = "COMPLETED" /\ tx.status[r] = Keep
        BY <1>10, <1>11 DEF Apply, Keep
    <2>2. refund[r].hash /\ sent[r] > 0
        BY <2>1 DEF IInv, CompletedWasSent
    <2>3. ~(kind = "force-retry" /\ request[q].target = r)
        BY <2>1, <1>14 DEF Keep
    <2>4. QED
        BY <2>2, <2>3, <1>6, <1>10 DEF hash
<1>21. WorkerHoldsItsRefund'
    BY <1>6 DEF IInv, WorkerHoldsItsRefund
<1>22. DraftIsSound'
    BY <1>5, <1>13 DEF IInv, TypeOK, DraftIsSound
<1>23. TxIsSound'
    <2> SUFFICES ASSUME NEW x \in Requests, NEW s \in Refunds
                 PROVE  SoundTx(request[x], s)'
        BY DEF TxIsSound, SoundTx
    <2>1. CASE x = q
        BY <2>1, <1>5, <1>13, Defaults DEF IInv, TypeOK, SoundTx, Keep
    <2>2. CASE x # q
        <3>1. request'[x] = request[x]
            BY <2>2, <1>5 DEF IInv, TypeOK
        <3>2. SoundTx(request[x], s)
            BY DEF IInv, TxIsSound, SoundTx
        <3>3. refund[s].status # "absent" => refund'[s].status # "absent"
            BY <1>10, <1>11 DEF Apply
        <3>4. debits[s] > 0 => debits'[s] > 0
            BY <1>3 DEF IInv, TypeOK
        <3>5. QED
            BY <3>1, <3>2, <3>3, <3>4, <1>7, <1>10 DEF SoundTx
    <2>3. QED
        BY <2>1, <2>2
<1>24. QED
    BY <1>15, <1>16, <1>18, <1>19, <1>20, <1>21, <1>22, <1>23 DEF IInv
-----------------------------------------------------------------------------
(***************************************************************************)
(* The processor, time and crashes.                                        *)
(***************************************************************************)

\* A row a worker may hold exists and is out of QUEUED.
Reachable(r) ==
    /\ refund[r].status \notin {"absent", "QUEUED"}
    /\ refund[r].source = "platform_balance" =>
          debits[r] > 0 \/ r \in readdressed

LEMMA HeldIsReachable ==
    ASSUME IInv, NEW r \in Refunds,
           \/ r \in tasks
           \/ refund[r].status = "PENDING"
           \/ \E w \in Workers : r \in worker[w].todo
    PROVE  Reachable(r)
<1>1. debits[r] \in Nat
    BY DEF IInv, TypeOK
<1>2. QED
    BY <1>1 DEF IInv, Unreached, Undeducted, OutOfReach, Reachable

\* A worker changes what it holds, a task starts, a request is answered.
LEMMA WorkerStep ==
    ASSUME IInv, NEW w \in Workers, NEW new \in Worker,
           worker' = [worker EXCEPT ![w] = new],
           \A r \in new.todo : Reachable(r),
           new.pc \in {"loaded", "sending", "sent"} => new.cur \in new.todo,
           new.pc = "sent" /\ new.hash => sent[new.cur] > 0,
           tasks' \subseteq tasks,
           \/ UNCHANGED request
           \/ \E q \in Requests : request' = [request EXCEPT ![q] = Done],
           UNCHANGED <<payment, refund, balance, credit, crashes, history>>
    PROVE  IInv'
<1> USE DEF history
<1>1. request' \in [Requests -> Request]
      /\ \A q \in Requests : request'[q] \in {request[q], Done}
    BY Defaults DEF IInv, TypeOK
<1>2. \A x \in Workers : worker'[x] = IF x = w THEN new ELSE worker[x]
    BY DEF IInv, TypeOK
<1>3. TypeOK'
    BY <1>1 DEF IInv, TypeOK
<1>4. BalanceNeverOverdrawn' /\ CompletedWasSent'
    BY DEF IInv, BalanceNeverOverdrawn, CompletedWasSent
<1>5. \A r \in Refunds : ~Reachable(r) /\ OutOfReach(r) => OutOfReach(r)'
    BY <1>2 DEF OutOfReach
<1>6. Unreached'
    BY <1>5 DEF IInv, Unreached, Reachable
<1>7. Undeducted'
    BY <1>5 DEF IInv, Undeducted, Reachable
<1>8. WorkerHoldsItsRefund'
    BY <1>2 DEF IInv, WorkerHoldsItsRefund
<1>9. DraftIsSound'
    BY <1>1, Defaults DEF IInv, DraftIsSound
<1>10. TxIsSound'
    <2> SUFFICES ASSUME NEW q \in Requests, NEW r \in Refunds
                 PROVE  SoundTx(request[q], r)'
        BY DEF TxIsSound, SoundTx
    <2>1. SoundTx(request[q], r) /\ SoundTx(Done, r)
        BY Defaults, EmptySlotIsSound DEF IInv, TxIsSound, SoundTx
    <2>2. QED
        BY <1>1, <2>1 DEF SoundTx
<1>11. QED
    BY <1>3, <1>4, <1>6, <1>7, <1>8, <1>9, <1>10 DEF IInv

LEMMA StartKeeps ==
    ASSUME IInv, NEW w \in Workers,
           StartTask(w) \/ StartScheduledPass(w)
           \/ \E q \in Requests : StartInstantPass(q, w)
    PROVE  IInv'
<1>1. PICK mode \in {"instant", "scheduled"}, todo \in SUBSET Refunds :
        /\ Start(w, mode, todo)
        /\ \A r \in todo : r \in tasks \/ refund[r].status = "PENDING"
    <2>1. CASE StartTask(w)
        <3>1. PICK r \in tasks : Start(w, "instant", {r})
            BY <2>1 DEF StartTask
        <3>2. {r} \in SUBSET Refunds
            BY DEF IInv, TypeOK
        <3>3. QED
            BY <3>1, <3>2
    <2>2. CASE StartScheduledPass(w)
        BY <2>2 DEF StartScheduledPass, Pending
    <2>3. CASE \E q \in Requests : StartInstantPass(q, w)
        BY <2>3 DEF StartInstantPass, Pending
    <2>4. QED
        BY <2>1, <2>2, <2>3
<1> DEFINE new == [IdleWorker EXCEPT !.pc = "loop", !.mode = mode,
                                     !.todo = todo]
<1>2. new \in Worker /\ new.todo = todo /\ new.pc = "loop"
    BY Defaults DEF Worker
<1>3. \A r \in todo : Reachable(r)
    BY <1>1, HeldIsReachable
<1>4. /\ tasks' \subseteq tasks
      /\ \/ UNCHANGED request
         \/ \E q \in Requests : request' = [request EXCEPT ![q] = Done]
      /\ UNCHANGED <<payment, refund, balance, credit, crashes, history>>
    BY DEF StartTask, StartScheduledPass, StartInstantPass
<1> HIDE DEF new
<1>5. worker' = [worker EXCEPT ![w] = new]
    BY <1>1 DEF new, Start
<1>6. QED
    BY <1>2, <1>3, <1>4, <1>5, WorkerStep

LEMMA AdvanceType ==
    ASSUME IInv, NEW w \in Workers, NEW r \in Refunds
    PROVE  /\ Advance(w, r) \in Worker
           /\ Advance(w, r).todo \subseteq worker[w].todo
           /\ Advance(w, r).pc \in {"idle", "loop"}
BY Defaults DEF Advance, Worker, IInv, TypeOK

LEMMA SkipKeeps == ASSUME IInv, NEW w \in Workers, Skip(w) PROVE IInv'
<1>1. PICK r \in worker[w].todo :
        worker' = [worker EXCEPT ![w] = Advance(w, r)]
    BY DEF Skip
<1>2. r \in Refunds /\ worker[w].todo \subseteq Refunds
    BY DEF IInv, TypeOK, Worker
<1>3. \A s \in Advance(w, r).todo : Reachable(s)
    BY <1>2, AdvanceType, HeldIsReachable
<1>4. UNCHANGED <<payment, refund, balance, request, tasks, credit, crashes,
                  history>>
    BY DEF Skip
<1>5. QED
    BY <1>1, <1>2, <1>3, <1>4, AdvanceType, WorkerStep

LEMMA LoadKeeps == ASSUME IInv, NEW w \in Workers, Load(w) PROVE IInv'
<1>1. PICK r \in worker[w].todo :
        worker' = [worker EXCEPT ![w].pc = "loaded", ![w].cur = r,
                                 ![w].seen = refund[r].status,
                                 ![w].addressed = refund[r].addressed]
    BY DEF Load
<1>2. r \in Refunds /\ worker[w].todo \subseteq Refunds
    BY DEF IInv, TypeOK, Worker
<1> DEFINE new == [worker[w] EXCEPT !.pc = "loaded", !.cur = r,
                                    !.seen = refund[r].status,
                                    !.addressed = refund[r].addressed]
<1>3. new \in Worker /\ new.todo = worker[w].todo /\ new.pc = "loaded"
      /\ new.cur = r
    BY <1>2, ZenonT(30) DEF IInv, TypeOK, Worker, Row
<1>4. \A s \in new.todo : Reachable(s)
    BY <1>2, <1>3, HeldIsReachable
<1>5. UNCHANGED <<payment, refund, balance, request, tasks, credit, crashes,
                  history>>
    BY DEF Load
<1>6. worker' = [worker EXCEPT ![w] = new]
    BY <1>1 DEF IInv, TypeOK
<1> HIDE DEF new
<1>7. QED
    BY <1>3, <1>4, <1>5, <1>6, WorkerStep

\* A worker writes the status of the refund it holds.
LEMMA WorkerWrite ==
    ASSUME IInv, NEW w \in Workers, NEW new \in Worker,
           NEW r \in Refunds, r \in worker[w].todo,
           NEW row \in Row, row.source = refund[r].source,
           refund' = [refund EXCEPT ![r] = row],
           worker' = [worker EXCEPT ![w] = new],
           row.status \notin {"absent", "QUEUED"},
           row.status = "COMPLETED" => row.hash /\ sent[r] > 0,
           new.todo \subseteq worker[w].todo,
           new.pc \in {"loaded", "sending", "sent"} => new.cur \in new.todo,
           new.pc # "sent",
           UNCHANGED <<payment, balance, request, tasks, credit, crashes,
                       history>>
    PROVE  IInv'
<1> USE DEF history
<1>1. Reachable(r)
    BY HeldIsReachable
<1>2. \A x \in Workers : worker'[x] = IF x = w THEN new ELSE worker[x]
    BY DEF IInv, TypeOK
<1>3. \A s \in Refunds : s # r => refund'[s] = refund[s]
    BY DEF IInv, TypeOK
<1>4. refund'[r] = row
    BY DEF IInv, TypeOK
<1>5. TypeOK'
    BY DEF IInv, TypeOK
<1>6. BalanceNeverOverdrawn'
    BY DEF IInv, BalanceNeverOverdrawn
<1>7. \A s \in Refunds : OutOfReach(s) => OutOfReach(s)'
    BY <1>2 DEF OutOfReach
<1>8. Unreached'
    BY <1>3, <1>4, <1>7 DEF IInv, Unreached
<1>9. Undeducted'
    <2> SUFFICES ASSUME NEW s \in Refunds,
                        refund'[s].source = "platform_balance",
                        debits[s] = 0, s \notin readdressed
                 PROVE  /\ refund'[s].status \in {"absent", "QUEUED", "FAILED"}
                        /\ OutOfReach(s)'
        BY DEF Undeducted
    <2>1. s # r
        BY <1>1, <1>4 DEF Reachable
    <2>2. QED
        BY <2>1, <1>3, <1>7 DEF IInv, Undeducted
<1>10. CompletedWasSent'
    BY <1>3, <1>4 DEF IInv, CompletedWasSent
<1>11. WorkerHoldsItsRefund'
    BY <1>2 DEF IInv, WorkerHoldsItsRefund
<1>12. DraftIsSound'
    BY DEF IInv, DraftIsSound
<1>13. TxIsSound'
    BY <1>1, <1>3, <1>4 DEF IInv, TxIsSound, Reachable
<1>14. QED
    BY <1>5, <1>6, <1>8, <1>9, <1>10, <1>11, <1>12, <1>13 DEF IInv

\* What a worker that holds a refund knows of it.
LEMMA Holding ==
    ASSUME IInv, NEW w \in Workers,
           worker[w].pc \in {"loaded", "sending", "sent"}
    PROVE  LET r == worker[w].cur
           IN  /\ r \in Refunds
               /\ r \in worker[w].todo
               /\ refund[r] \in Row
               /\ refund[r].status \notin {"absent", "QUEUED"}
<1>1. worker[w].cur \in worker[w].todo
    BY DEF IInv, WorkerHoldsItsRefund
<1>2. worker[w].cur \in Refunds
    BY <1>1 DEF IInv, TypeOK, Worker
<1>3. QED
    BY <1>1, <1>2, HeldIsReachable DEF IInv, TypeOK, Reachable

LEMMA RejectKeeps == ASSUME IInv, NEW w \in Workers, Reject(w) PROVE IInv'
<1> DEFINE r == worker[w].cur
           status == Write(worker[w].seen, "FAILED", refund[r].status)
           row == [refund[r] EXCEPT !.status = status]
<1>1. /\ r \in Refunds /\ r \in worker[w].todo /\ refund[r] \in Row
      /\ refund[r].status \notin {"absent", "QUEUED"}
    BY Holding DEF Reject
<1>2. status \in RefundStatus /\ status \notin {"absent", "QUEUED"}
    BY <1>1 DEF Write, Row, RefundStatus
<1>3. status = "COMPLETED" => refund[r].hash /\ sent[r] > 0
    BY <1>1 DEF Write, IInv, CompletedWasSent
<1>4. refund' = [refund EXCEPT ![r] = row]
    BY <1>1 DEF Reject, IInv, TypeOK, Row
<1>5. worker' = [worker EXCEPT ![w] = Advance(w, r)]
    BY DEF Reject
<1>6. UNCHANGED <<payment, balance, request, tasks, credit, crashes, history>>
    BY DEF Reject
<1> HIDE DEF r, status
<1>7. /\ row \in Row /\ row.status = status
      /\ row.source = refund[r].source /\ row.hash = refund[r].hash
    BY <1>1, <1>2 DEF Row
<1> HIDE DEF row
<1>8. QED
    BY <1>1, <1>2, <1>3, <1>4, <1>5, <1>6, <1>7, AdvanceType, WorkerWrite

LEMMA MarkKeeps == ASSUME IInv, NEW w \in Workers, Mark(w) PROVE IInv'
<1> DEFINE r == worker[w].cur
           status == Write(worker[w].seen, "PROCESSING", refund[r].status)
           row == [refund[r] EXCEPT !.status = status]
           new == [worker[w] EXCEPT !.pc = "sending", !.seen = status]
<1>1. /\ r \in Refunds /\ r \in worker[w].todo /\ refund[r] \in Row
      /\ refund[r].status \notin {"absent", "QUEUED"}
    BY Holding DEF Mark
<1>2. status \in RefundStatus /\ status \notin {"absent", "QUEUED"}
    BY <1>1 DEF Write, Row, RefundStatus
<1>3. status = "COMPLETED" => refund[r].hash /\ sent[r] > 0
    BY <1>1 DEF Write, IInv, CompletedWasSent
<1>4. refund' = [refund EXCEPT ![r] = row]
    BY <1>1 DEF Mark, IInv, TypeOK, Row
<1>5. new \in Worker /\ new.todo = worker[w].todo /\ new.pc = "sending"
      /\ new.cur = r
    BY <1>2, ZenonT(30) DEF IInv, TypeOK, Worker
<1>6. worker' = [worker EXCEPT ![w] = new]
    BY DEF Mark, IInv, TypeOK
<1>7. UNCHANGED <<payment, balance, request, tasks, credit, crashes, history>>
    BY DEF Mark
<1> HIDE DEF r, status, new
<1>8. /\ row \in Row /\ row.status = status
      /\ row.source = refund[r].source /\ row.hash = refund[r].hash
    BY <1>1, <1>2 DEF Row
<1> HIDE DEF row
<1>9. QED
    BY <1>1, <1>2, <1>3, <1>4, <1>5, <1>6, <1>7, <1>8, WorkerWrite

\* A COMPLETED outcome carries a hash, and a hash was returned only by a
\* submission.
LEMMA FinishKeeps == ASSUME IInv, NEW w \in Workers, Finish(w) PROVE IInv'
<1> DEFINE r == worker[w].cur
           status == Write(worker[w].seen, Outcome(worker[w].hash),
                           refund[r].status)
           hash == refund[r].hash \/ worker[w].hash
           row == [refund[r] EXCEPT !.status = status, !.hash = hash]
<1>1. /\ r \in Refunds /\ r \in worker[w].todo /\ refund[r] \in Row
      /\ refund[r].status \notin {"absent", "QUEUED"}
    BY Holding DEF Finish
<1>2. status \in RefundStatus /\ status \notin {"absent", "QUEUED"}
    BY <1>1 DEF Write, Row, RefundStatus, Outcome
<1>3. hash \in BOOLEAN
    OBVIOUS
<1>4. status = "COMPLETED" => hash /\ sent[r] > 0
    BY <1>1 DEF Write, Outcome, Finish, IInv, CompletedWasSent,
                WorkerHoldsItsRefund
<1>5. refund' = [refund EXCEPT ![r] = row]
    BY DEF Finish
<1>6. worker' = [worker EXCEPT ![w] = Advance(w, r)]
    BY DEF Finish
<1>7. UNCHANGED <<payment, balance, request, tasks, credit, crashes, history>>
    BY DEF Finish
<1> HIDE DEF r, status, hash
<1>8. /\ row \in Row /\ row.status = status
      /\ row.source = refund[r].source /\ row.hash = hash
    BY <1>1, <1>2, <1>3 DEF Row
<1> HIDE DEF row
<1>9. QED
    BY <1>1, <1>2, <1>4, <1>5, <1>6, <1>7, <1>8, AdvanceType, WorkerWrite

LEMMA SendKeeps == ASSUME IInv, NEW w \in Workers, Send(w) PROVE IInv'
<1> DEFINE r == worker[w].cur
<1>1. PICK submitted \in BOOLEAN, answered \in BOOLEAN :
        /\ answered => submitted
        /\ sent' = [sent EXCEPT ![r] = @ + (IF submitted THEN 1 ELSE 0)]
        /\ worker' = [worker EXCEPT ![w].pc = "sent", ![w].hash = answered]
    BY DEF Send
<1> DEFINE new == [worker[w] EXCEPT !.pc = "sent", !.hash = answered]
<1>2. r \in Refunds /\ r \in worker[w].todo
    BY Holding DEF Send
<1>3. Reachable(r)
    BY <1>2, HeldIsReachable
<1>4. UNCHANGED <<payment, refund, balance, request, tasks, credit, crashes,
                  debits, revoked, readdressed>>
    BY DEF Send
<1>5. new \in Worker /\ new.todo = worker[w].todo /\ new.pc = "sent"
      /\ new.cur = r /\ new.hash = answered
    BY DEF IInv, TypeOK, Worker
<1>6. worker' = [worker EXCEPT ![w] = new]
    BY <1>1 DEF IInv, TypeOK
<1> HIDE DEF r, new
<1>7. /\ sent' \in [Refunds -> Nat]
      /\ \A s \in Refunds : s # r => sent'[s] = sent[s]
      /\ \A s \in Refunds : sent[s] > 0 => sent'[s] > 0
      /\ answered => sent'[r] > 0
    BY <1>1, <1>2 DEF IInv, TypeOK
<1>8. \A x \in Workers : worker'[x] = IF x = w THEN new ELSE worker[x]
    BY <1>6 DEF IInv, TypeOK
<1>9. TypeOK'
    BY <1>4, <1>5, <1>6, <1>7 DEF IInv, TypeOK
<1>10. \A s \in Refunds : s # r /\ OutOfReach(s) => OutOfReach(s)'
    BY <1>4, <1>5, <1>7, <1>8 DEF OutOfReach
<1>11. Unreached' /\ Undeducted'
    BY <1>3, <1>4, <1>10 DEF IInv, Unreached, Undeducted, Reachable
<1>12. BalanceNeverOverdrawn' /\ CompletedWasSent'
    BY <1>4, <1>7 DEF IInv, BalanceNeverOverdrawn, CompletedWasSent
<1>13. WorkerHoldsItsRefund'
    <2> SUFFICES ASSUME NEW x \in Workers
                 PROVE  /\ worker'[x].pc \in {"loaded", "sending", "sent"} =>
                             worker'[x].cur \in worker'[x].todo
                        /\ worker'[x].pc = "sent" /\ worker'[x].hash =>
                             sent'[worker'[x].cur] > 0
        BY DEF WorkerHoldsItsRefund
    <2>1. CASE x = w
        BY <2>1, <1>2, <1>5, <1>7, <1>8
    <2>2. CASE x # w
        <3>1. worker'[x] = worker[x] /\ worker[x].todo \subseteq Refunds
            BY <2>2, <1>8 DEF IInv, TypeOK, Worker
        <3>2. QED
            BY <3>1, <1>7 DEF IInv, WorkerHoldsItsRefund
    <2>3. QED
        BY <2>1, <2>2
<1>14. DraftIsSound' /\ TxIsSound'
    BY <1>4 DEF IInv, DraftIsSound, TxIsSound
<1>15. QED
    BY <1>9, <1>11, <1>12, <1>13, <1>14 DEF IInv

LEMMA ElapseKeeps == ASSUME IInv, NEW r \in Refunds, Elapse(r) PROVE IInv'
<1> USE DEF history
<1>1. PICK age \in Age : refund' = [refund EXCEPT ![r].age = age]
    BY DEF Elapse, Age
<1>2. UNCHANGED <<payment, balance, request, tasks, worker, credit, crashes,
                  history>>
    BY DEF Elapse
<1>3. TypeOK'
    BY <1>1, <1>2 DEF IInv, TypeOK, Row
<1>4. \A s \in Refunds : /\ refund'[s].status = refund[s].status
                         /\ refund'[s].source = refund[s].source
                         /\ refund'[s].hash = refund[s].hash
    BY <1>1 DEF IInv, TypeOK, Row
<1>5. \A s \in Refunds : OutOfReach(s) => OutOfReach(s)'
    BY <1>2 DEF OutOfReach
<1>6. Unreached' /\ Undeducted'
    BY <1>2, <1>4, <1>5 DEF IInv, Unreached, Undeducted
<1>7. CompletedWasSent'
    BY <1>2, <1>4 DEF IInv, CompletedWasSent
<1>8. /\ BalanceNeverOverdrawn' /\ WorkerHoldsItsRefund'
      /\ DraftIsSound'
    BY <1>2 DEF IInv, BalanceNeverOverdrawn, WorkerHoldsItsRefund,
                DraftIsSound
<1>9. TxIsSound'
    BY <1>2, <1>4 DEF IInv, TxIsSound
<1>10. QED
    BY <1>3, <1>6, <1>7, <1>8, <1>9 DEF IInv

\* The credit writes a value read when no overdraft was possible.
LEMMA CreditKeeps ==
    ASSUME IInv, ReadCredit \/ WriteCredit PROVE IInv'
<1> USE DEF history
<1>1. UNCHANGED <<payment, refund, request, tasks, worker, crashes, history>>
    BY DEF ReadCredit, WriteCredit
<1>2. balance' \in Int /\ balance' >= 0
      /\ credit' \in [busy: BOOLEAN, seen: Nat, count: 0..MaxCredits]
    <2>1. CASE ReadCredit
        BY <2>1, RefundsAssumption
           DEF IInv, TypeOK, BalanceNeverOverdrawn, ReadCredit
    <2>2. CASE WriteCredit
        <3>1. credit.seen \in Nat /\ CreditAmount \in Nat
            BY RefundsAssumption DEF IInv, TypeOK
        <3>2. balance' = credit.seen + CreditAmount
            BY <2>2 DEF WriteCredit
        <3>3. credit' \in [busy: BOOLEAN, seen: Nat, count: 0..MaxCredits]
            BY <2>2 DEF WriteCredit, IInv, TypeOK
        <3>4. QED
            BY <3>1, <3>2, <3>3
    <2>3. QED
        BY <2>1, <2>2
<1>3. TypeOK' /\ BalanceNeverOverdrawn'
    BY <1>1, <1>2 DEF IInv, TypeOK, BalanceNeverOverdrawn
<1>4. Unreached' /\ Undeducted' /\ CompletedWasSent'
    BY <1>1 DEF IInv, Unreached, Undeducted, OutOfReach, CompletedWasSent
<1>5. WorkerHoldsItsRefund' /\ DraftIsSound' /\ TxIsSound'
    BY <1>1 DEF IInv, WorkerHoldsItsRefund, DraftIsSound, TxIsSound
<1>6. QED
    BY <1>3, <1>4, <1>5 DEF IInv

\* A crash only empties slots, threads and the list of tasks.
LEMMA CrashKeeps == ASSUME IInv, Crash PROVE IInv'
<1> USE DEF history
<1>1. PICK W \in SUBSET Workers, Q \in SUBSET Requests, T \in SUBSET tasks :
        /\ worker' = [w \in Workers |->
                        IF w \in W THEN IdleWorker ELSE worker[w]]
        /\ request' = [q \in Requests |->
                         IF q \in Q /\ request[q] # Idle THEN Done
                         ELSE request[q]]
        /\ tasks' = tasks \ T
    BY DEF Crash
<1>2. UNCHANGED <<payment, refund, balance, credit, history>>
    BY DEF Crash
<1>3. \A w \in Workers : worker'[w] \in {worker[w], IdleWorker}
    BY <1>1
<1>4. \A q \in Requests : request'[q] \in {request[q], Done}
    BY <1>1
<1>5. TypeOK'
    <2>1. crashes' \in 0..MaxCrashes
        BY RefundsAssumption DEF IInv, TypeOK, Crash
    <2>2. worker' \in [Workers -> Worker] /\ request' \in [Requests -> Request]
        BY <1>1, Defaults DEF IInv, TypeOK
    <2>3. QED
        BY <1>1, <1>2, <2>1, <2>2 DEF IInv, TypeOK
<1>6. \A r \in Refunds : OutOfReach(r) => OutOfReach(r)'
    BY <1>1, <1>2, <1>3, Defaults DEF OutOfReach
<1>7. Unreached' /\ Undeducted'
    BY <1>2, <1>6 DEF IInv, Unreached, Undeducted
<1>8. CompletedWasSent' /\ BalanceNeverOverdrawn'
    BY <1>2 DEF IInv, CompletedWasSent, BalanceNeverOverdrawn
<1>9. WorkerHoldsItsRefund'
    BY <1>2, <1>3, Defaults DEF IInv, WorkerHoldsItsRefund
<1>10. DraftIsSound'
    BY <1>4, Defaults DEF IInv, DraftIsSound
<1>11. TxIsSound'
    <2> SUFFICES ASSUME NEW q \in Requests, NEW r \in Refunds
                 PROVE  SoundTx(request[q], r)'
        BY DEF TxIsSound, SoundTx
    <2>1. SoundTx(request[q], r) /\ SoundTx(Done, r)
        BY Defaults, EmptySlotIsSound DEF IInv, TxIsSound, SoundTx
    <2>2. QED
        BY <1>2, <1>4, <2>1 DEF SoundTx
<1>12. QED
    BY <1>5, <1>7, <1>8, <1>9, <1>10, <1>11 DEF IInv
-----------------------------------------------------------------------------
LEMMA StutterKeeps == ASSUME IInv, UNCHANGED vars PROVE IInv'
BY DEF vars, IInv, TypeOK, BalanceNeverOverdrawn, Unreached, Undeducted,
       OutOfReach, CompletedWasSent, WorkerHoldsItsRefund, DraftIsSound,
       TxIsSound

LEMMA NextKeepsIInv == IInv /\ [Next]_vars => IInv'
<1> SUFFICES ASSUME IInv, [Next]_vars PROVE IInv'
    OBVIOUS
<1>1. ASSUME NEW q \in Requests, Handler(q) PROVE IInv'
    BY <1>1, BeginCreateKeeps, CommitCreateKeeps, BeginRevertKeeps,
       BeginProcessQueuedKeeps, CommitKeeps, RefuseKeeps, BeginCancelKeeps,
       BeginRetryKeeps, BeginForceRetryKeeps, BeginUpdateAddressKeeps,
       StartKeeps
       DEF Handler
<1>2. ASSUME NEW w \in Workers, Processor(w) PROVE IInv'
    BY <1>2, StartKeeps, SkipKeeps, LoadKeeps, RejectKeeps, MarkKeeps,
       SendKeeps, FinishKeeps
       DEF Processor
<1>3. QED
    BY <1>1, <1>2, ElapseKeeps, CreditKeeps, CrashKeeps, StutterKeeps DEF Next

\* The inductive invariant holds in every reachable state, for any number of
\* payments, refunds, requests, threads, credits and crashes.
THEOREM Invariance == Spec => []IInv
<1>1. QED
    BY InitIInv, NextKeepsIInv, PTL DEF Spec

\* Every variable keeps its type.
THEOREM TypeCorrectness == Spec => []TypeOK
<1>1. IInv => TypeOK
    BY DEF IInv
<1>2. QED
    BY <1>1, Invariance, PTL

\* However handlers, credits and crashes interleave, the merchant's balance
\* is never overdrawn.
THEOREM NeverOverdrawn == Spec => []BalanceNeverOverdrawn
<1>1. IInv => BalanceNeverOverdrawn
    BY DEF IInv
<1>2. QED
    BY <1>1, Invariance, PTL

\* A queued refund is out of the processor's reach.
THEOREM QueuedUntouched == Spec => []QueuedIsUntouched
<1>1. IInv => QueuedIsUntouched
    BY DEF IInv, Unreached, QueuedIsUntouched
<1>2. QED
    BY <1>1, Invariance, PTL

\* A COMPLETED refund has a hash, and a transfer was submitted for it.
THEOREM CompletedSent == Spec => []CompletedWasSent
<1>1. IInv => CompletedWasSent
    BY DEF IInv
<1>2. QED
    BY <1>1, Invariance, PTL

\* A platform refund sent without any deduction was reopened by
\* update-address.
THEOREM Unfunded == Spec => []UnfundedOnlyByUpdateAddress
<1>1. IInv => UnfundedOnlyByUpdateAddress
    BY DEF IInv, TypeOK, Undeducted, OutOfReach, UnfundedOnlyByUpdateAddress
<1>2. QED
    BY <1>1, Invariance, PTL
-----------------------------------------------------------------------------
(***************************************************************************)
(* How a step moves the status of a refund, and the refinement.            *)
(***************************************************************************)
Status(r) == refund[r].status

\* No step makes a row vanish, queues an existing one or takes a queued one
\* anywhere but to PENDING or FAILED.
Moves ==
    \A r \in Refunds :
        /\ Status(r) = "QUEUED" =>
             Status(r)' \in {"QUEUED", "PENDING", "FAILED"}
        /\ Status(r)' = "QUEUED" => Status(r) \in {"QUEUED", "absent"}
        /\ Status(r)' = "absent" => Status(r) = "absent"

\* A row is confirmed only by the thread that got a hash for it.
Unconfirms ==
    \A r \in Refunds : Status(r)' = "COMPLETED" => Status(r) = "COMPLETED"

LEMMA CommitMoves ==
    ASSUME IInv, NEW q \in Requests, Commit(q)
    PROVE  /\ Moves /\ Unconfirms
           /\ \A r \in Refunds : Status(r)' = "QUEUED" => Status(r) = "QUEUED"
<1> SUFFICES ASSUME NEW r \in Refunds
             PROVE  Status(r)' \in {Status(r), "PENDING", "FAILED"}
    BY DEF Moves, Unconfirms
<1>1. /\ request[q].tx.status[r] \in {Keep, "PENDING", "FAILED"}
      /\ refund'[r].status = Apply(refund[r].status, request[q].tx.status[r])
    BY CommitRow
<1>2. QED
    BY <1>1 DEF Apply, Status

LEMMA CommitCreateMoves ==
    ASSUME IInv, NEW q \in Requests, CommitCreate(q)
    PROVE  \E r \in Refunds :
             /\ Status(r) = "absent" /\ Status(r)' \in {"PENDING", "QUEUED"}
             /\ Status(r)' = "QUEUED" => balance' = balance
             /\ \A s \in Refunds : s # r => Status(s)' = Status(s)
<1>1. PICK r \in Absent :
        /\ refund' = [refund EXCEPT ![r] = request[q].draft]
        /\ balance' = balance - Price(request[q].draft)
    BY DEF CommitCreate
<1>2. r \in Refunds /\ Status(r) = "absent"
    BY DEF Absent, Status
<1>3. request[q].draft.status \in {"PENDING", "QUEUED"}
    BY DEF IInv, DraftIsSound, CommitCreate
<1>4. request[q].draft.status = "QUEUED" => balance' = balance
    BY <1>1 DEF Price, IInv, TypeOK
<1>5. refund'[r] = request[q].draft
      /\ \A s \in Refunds : s # r => refund'[s] = refund[s]
    BY <1>1, <1>2 DEF IInv, TypeOK
<1>6. QED
    BY <1>2, <1>3, <1>4, <1>5 DEF Status

LEMMA WorkerMoves ==
    ASSUME IInv, NEW w \in Workers, Reject(w) \/ Mark(w) \/ Finish(w)
    PROVE  \E r \in Refunds :
             /\ Status(r) \notin {"absent", "QUEUED"}
             /\ Status(r)' \in {Status(r), "FAILED", "PROCESSING", "COMPLETED"}
             /\ Status(r)' = "COMPLETED" /\ Status(r) # "COMPLETED" =>
                  ~Reject(w) /\ ~Mark(w) /\ sent[r] > 0
             /\ \A s \in Refunds : s # r => Status(s)' = Status(s)
<1>1. PICK r \in Refunds : r = worker[w].cur
    BY Holding DEF Reject, Mark, Finish
<1>2. refund[r] \in Row /\ Status(r) \notin {"absent", "QUEUED"}
    BY <1>1, Holding DEF Reject, Mark, Finish, Status
<1>3. Status(r)' \in {Status(r), "FAILED", "PROCESSING", "COMPLETED"}
      /\ \A s \in Refunds : s # r => Status(s)' = Status(s)
    <2>1. CASE Reject(w)
        BY <2>1, <1>1, <1>2 DEF Reject, Write, IInv, TypeOK, Row, Status
    <2>2. CASE Mark(w)
        BY <2>2, <1>1, <1>2 DEF Mark, Write, IInv, TypeOK, Row, Status
    <2>3. CASE Finish(w)
        BY <2>3, <1>1, <1>2 DEF Finish, Write, Outcome, IInv, TypeOK, Row,
                                 Status
    <2>4. QED
        BY <2>1, <2>2, <2>3
<1>4. ASSUME Status(r)' = "COMPLETED", Status(r) # "COMPLETED"
      PROVE  ~Reject(w) /\ ~Mark(w) /\ sent[r] > 0
    <2>1. ~Reject(w)
        BY <1>1, <1>2, <1>4 DEF Reject, Write, IInv, TypeOK, Row, Status
    <2>2. ~Mark(w)
        BY <1>1, <1>2, <1>4 DEF Mark, Write, IInv, TypeOK, Row, Status
    <2>3. CASE Finish(w)
        <3>1. Outcome(worker[w].hash) = "COMPLETED"
            BY <2>3, <1>1, <1>2, <1>4
               DEF Finish, Write, IInv, TypeOK, Row, Status
        <3>2. worker[w].hash /\ worker[w].pc = "sent"
            BY <2>3, <3>1 DEF Outcome, Finish
        <3>3. sent[r] > 0
            BY <3>2, <1>1 DEF IInv, WorkerHoldsItsRefund
        <3>4. QED
            BY <2>1, <2>2, <3>3
    <2>4. QED
        BY <2>1, <2>2, <2>3
<1>5. QED
    BY <1>2, <1>3, <1>4

LEMMA ElapseMoves ==
    ASSUME IInv, NEW r \in Refunds, Elapse(r), NEW s \in Refunds
    PROVE  Status(s)' = Status(s)
<1>1. PICK age : refund' = [refund EXCEPT ![r].age = age]
    BY DEF Elapse
<1>2. QED
    BY <1>1 DEF IInv, TypeOK, Row, Status

\* The steps that leave every refund row alone.
OtherStep ==
    \/ \E q \in Requests :
          \/ BeginCreate(q) \/ BeginRevert(q) \/ BeginProcessQueued(q)
          \/ Refuse(q)
          \/ \E r \in Refunds : \/ BeginCancel(q, r) \/ BeginRetry(q, r)
                                \/ BeginForceRetry(q, r)
                                \/ BeginUpdateAddress(q, r)
          \/ \E w \in Workers : StartInstantPass(q, w)
    \/ \E w \in Workers : StartTask(w) \/ StartScheduledPass(w) \/ Skip(w)
                          \/ Load(w)
    \/ ReadCredit \/ Crash

LEMMA OtherStepStutters ==
    OtherStep => UNCHANGED <<refund, balance, sent>>
<1> USE DEF history
<1>1. ASSUME NEW q \in Requests,
             \/ BeginCreate(q) \/ BeginRevert(q) \/ BeginProcessQueued(q)
             \/ Refuse(q)
      PROVE  UNCHANGED <<refund, balance, sent>>
    BY <1>1 DEF BeginCreate, BeginRevert, BeginProcessQueued, Refuse
<1>2. ASSUME NEW q \in Requests, NEW r \in Refunds,
             \/ BeginCancel(q, r) \/ BeginRetry(q, r)
             \/ BeginForceRetry(q, r) \/ BeginUpdateAddress(q, r)
      PROVE  UNCHANGED <<refund, balance, sent>>
    BY <1>2 DEF BeginCancel, BeginRetry, BeginForceRetry, BeginUpdateAddress
<1>3. ASSUME NEW w \in Workers,
             \/ StartTask(w) \/ StartScheduledPass(w) \/ Skip(w) \/ Load(w)
             \/ \E q \in Requests : StartInstantPass(q, w)
      PROVE  UNCHANGED <<refund, balance, sent>>
    BY <1>3 DEF StartTask, StartScheduledPass, Skip, Load, StartInstantPass
<1>4. ReadCredit \/ Crash => UNCHANGED <<refund, balance, sent>>
    BY DEF ReadCredit, Crash
<1>5. QED
    BY <1>1, <1>2, <1>3, <1>4 DEF OtherStep

LEMMA NextCases ==
    Next => \/ OtherStep
            \/ \E q \in Requests : CommitCreate(q) \/ Commit(q)
            \/ \E w \in Workers :
                  Reject(w) \/ Mark(w) \/ Send(w) \/ Finish(w)
            \/ \E r \in Refunds : Elapse(r)
            \/ WriteCredit
BY DEF Next, Handler, Processor, OtherStep

\* No stale write of a handler or a thread puts a refund back into QUEUED or
\* takes a queued one straight to a processed status.
THEOREM LeftForGood == Spec => QueuedIsLeftForGood
<1>1. IInv /\ [Next]_vars => Moves \/ UNCHANGED refund
    <2> SUFFICES ASSUME IInv, Next PROVE Moves \/ UNCHANGED refund
        BY DEF vars
    <2>1. ASSUME NEW q \in Requests, CommitCreate(q) PROVE Moves
        BY <2>1, CommitCreateMoves DEF Moves
    <2>2. ASSUME NEW w \in Workers, Reject(w) \/ Mark(w) \/ Finish(w)
          PROVE  Moves
        BY <2>2, WorkerMoves DEF Moves
    <2>3. ASSUME NEW r \in Refunds, Elapse(r) PROVE Moves
        BY <2>3, ElapseMoves DEF Moves
    <2>4. ASSUME NEW w \in Workers, Send(w) PROVE UNCHANGED refund
        BY <2>4 DEF Send
    <2>5. WriteCredit => UNCHANGED refund
        BY DEF WriteCredit
    <2>6. QED
        BY <2>1, <2>2, <2>3, <2>4, <2>5, CommitMoves, OtherStepStutters,
           NextCases
<1>2. IInv /\ [Next]_vars =>
        [\A r \in Refunds :
           /\ refund[r].status = "QUEUED" =>
                refund'[r].status \in {"QUEUED", "PENDING", "FAILED"}
           /\ refund'[r].status = "QUEUED" =>
                refund[r].status \in {"QUEUED", "absent"}]_refund
    BY <1>1 DEF Moves, Status
<1>3. QED
    BY <1>2, Invariance, PTL DEF Spec, QueuedIsLeftForGood

\* The refinement mapping in terms of the statuses.
LEMMA PhaseCases ==
    ASSUME NEW r
    PROVE  /\ Status(r) = "absent" => Phase(r) = "absent"
           /\ Status(r) = "QUEUED" => Phase(r) = "held"
           /\ Status(r) \notin {"absent", "QUEUED"} => Phase(r) = "released"
BY DEF Phase, Status

\* A step that moves statuses, confirms nothing and at most charges the
\* account is a Release of the refunds then released.
LEMMA ReleaseStep ==
    ASSUME IInv, balance' \in 0..balance, UNCHANGED sent,
           \A r \in Refunds :
             /\ Status(r)' = "QUEUED" => Status(r) = "QUEUED"
             /\ Status(r)' = "absent" => Status(r) = "absent"
             /\ Status(r)' = "COMPLETED" => Status(r) = "COMPLETED"
    PROVE  Promise!Next
<1>1. PICK R \in SUBSET Refunds :
        \A r \in Refunds : r \in R <=> Status(r)' \notin {"absent", "QUEUED"}
    <2>1. {r \in Refunds : refund'[r].status \notin {"absent", "QUEUED"}}
            \in SUBSET Refunds
        OBVIOUS
    <2>2. QED
        BY <2>1 DEF Status
<1>2. [r \in Refunds |-> Phase(r)]'
        = [r \in Refunds |-> IF r \in R THEN "released"
                             ELSE [s \in Refunds |-> Phase(s)][r]]
    <2> SUFFICES ASSUME NEW r \in Refunds
                 PROVE  Phase(r)' = IF r \in R THEN "released" ELSE Phase(r)
        OBVIOUS
    <2>1. QED
        BY <1>1 DEF Phase, Status
<1>3. {r \in Refunds : refund[r].status = "COMPLETED"}'
        \subseteq {r \in Refunds : refund[r].status = "COMPLETED"}
    BY DEF Status
<1>4. Promise!Release(R)
    BY <1>2, <1>3 DEF Promise!Release
<1>5. QED
    BY <1>4 DEF Promise!Next

\* Statuses left alone leave the abstract phases and confirmations alone.
LEMMA SameView ==
    ASSUME \A r \in Refunds : Status(r)' = Status(r)
    PROVE  /\ [r \in Refunds |-> Phase(r)]' = [r \in Refunds |-> Phase(r)]
           /\ {r \in Refunds : refund[r].status = "COMPLETED"}'
                = {r \in Refunds : refund[r].status = "COMPLETED"}
<1>1. \A r \in Refunds : Phase(r)' = Phase(r)
    BY DEF Phase, Status
<1>2. QED
    BY <1>1 DEF Status

LEMMA CommitCreateRefines ==
    ASSUME IInv, NEW q \in Requests, CommitCreate(q) PROVE Promise!Next
<1>1. PICK r \in Refunds :
        /\ Status(r) = "absent" /\ Status(r)' \in {"PENDING", "QUEUED"}
        /\ Status(r)' = "QUEUED" => balance' = balance
        /\ \A s \in Refunds : s # r => Status(s)' = Status(s)
    BY CommitCreateMoves
<1>2. balance' \in 0..balance /\ UNCHANGED sent
    BY DEF CommitCreate, Covered, IInv, TypeOK
<1>3. CASE Status(r)' = "QUEUED"
    <2>1. \A s \in Refunds : s # r => Phase(s)' = Phase(s)
        BY <1>1 DEF Phase, Status
    <2>2. Phase(r) = "absent" /\ Phase(r)' = "held"
        BY <1>1, <1>3 DEF Phase, Status
    <2>3. [s \in Refunds |-> Phase(s)]'
            = [[s \in Refunds |-> Phase(s)] EXCEPT ![r] = "held"]
        BY <2>1, <2>2
    <2>4. {s \in Refunds : refund[s].status = "COMPLETED"}'
            = {s \in Refunds : refund[s].status = "COMPLETED"}
        BY <1>1, <1>3 DEF Status
    <2>5. Promise!Hold(r)
        BY <1>1, <1>2, <1>3, <2>2, <2>3, <2>4 DEF Promise!Hold
    <2>6. QED
        BY <2>5 DEF Promise!Next
<1>4. CASE Status(r)' = "PENDING"
    BY <1>1, <1>2, <1>4, ReleaseStep
<1>5. QED
    BY <1>1, <1>3, <1>4

LEMMA CommitRefines ==
    ASSUME IInv, NEW q \in Requests, Commit(q) PROVE Promise!Next
<1>1. balance' \in 0..balance /\ UNCHANGED sent
    <2>1. PICK price \in 0..balance : balance' = balance - price
        BY DEF Commit, Covered
    <2>2. balance \in Int
        BY DEF IInv, TypeOK
    <2>3. UNCHANGED sent
        BY DEF Commit
    <2>4. QED
        BY <2>1, <2>2, <2>3
<1>2. QED
    BY <1>1, CommitMoves, ReleaseStep DEF Moves, Unconfirms

LEMMA WorkerRefines ==
    ASSUME IInv, NEW w \in Workers, Reject(w) \/ Mark(w) \/ Finish(w)
    PROVE  Promise!Next
<1>1. UNCHANGED <<balance, sent>>
    BY DEF Reject, Mark, Finish, history
<1>2. balance' \in 0..balance
    BY <1>1 DEF IInv, TypeOK, BalanceNeverOverdrawn
<1>3. PICK r \in Refunds :
        /\ Status(r) \notin {"absent", "QUEUED"}
        /\ Status(r)' \in {Status(r), "FAILED", "PROCESSING", "COMPLETED"}
        /\ Status(r)' = "COMPLETED" /\ Status(r) # "COMPLETED" => sent[r] > 0
        /\ \A s \in Refunds : s # r => Status(s)' = Status(s)
    BY WorkerMoves
<1>4. CASE Status(r)' = "COMPLETED"
    <2>1. sent[r] > 0
        BY <1>3, <1>4 DEF IInv, CompletedWasSent, Status
    <2>2. \A s \in Refunds : Phase(s)' = Phase(s)
        BY <1>3, <1>4 DEF Phase, Status
    <2>3. {s \in Refunds : refund[s].status = "COMPLETED"}'
            = {s \in Refunds : refund[s].status = "COMPLETED"} \cup {r}
        BY <1>3, <1>4 DEF Status
    <2>4. Promise!Confirm(r)
        BY <1>1, <2>1, <2>2, <2>3 DEF Promise!Confirm
    <2>5. QED
        BY <2>4 DEF Promise!Next
<1>5. CASE Status(r)' # "COMPLETED"
    BY <1>1, <1>2, <1>3, <1>5, ReleaseStep
<1>6. QED
    BY <1>4, <1>5

LEMMA SendRefines ==
    ASSUME IInv, NEW w \in Workers, Send(w)
    PROVE  Promise!Next \/ UNCHANGED <<refund, balance, sent>>
<1>1. PICK r \in Refunds : r = worker[w].cur
    BY Holding DEF Send
<1>2. Phase(r) = "released"
    BY <1>1, Holding DEF Send, Phase
<1>3. UNCHANGED <<refund, balance>>
    BY DEF Send
<1>4. sent' = sent \/ sent' = [sent EXCEPT ![r] = @ + 1]
    <2>1. PICK submitted \in BOOLEAN :
            sent' = [sent EXCEPT ![r] = @ + (IF submitted THEN 1 ELSE 0)]
        BY <1>1 DEF Send
    <2>2. sent \in [Refunds -> Nat]
        BY DEF IInv, TypeOK
    <2>3. CASE submitted
        BY <2>1, <2>3
    <2>4. CASE ~submitted
        BY <2>1, <2>2, <2>4
    <2>5. QED
        BY <2>3, <2>4
<1>5. CASE sent' = [sent EXCEPT ![r] = @ + 1]
    <2>1. \A s \in Refunds : Status(s)' = Status(s)
        BY <1>3 DEF Status
    <2>2. Promise!Transfer(r)
        BY <1>2, <1>3, <1>5, <2>1, SameView DEF Promise!Transfer
    <2>3. QED
        BY <2>2 DEF Promise!Next
<1>6. QED
    BY <1>3, <1>4, <1>5

LEMMA DepositRefines == ASSUME IInv, WriteCredit PROVE Promise!Next
<1>1. balance' \in Nat /\ UNCHANGED <<refund, sent>>
    BY RefundsAssumption DEF WriteCredit, IInv, TypeOK, history
<1>2. \A s \in Refunds : Status(s)' = Status(s)
    BY <1>1 DEF Status
<1>3. Promise!Deposit
    BY <1>1, <1>2, SameView DEF Promise!Deposit
<1>4. QED
    BY <1>3 DEF Promise!Next

\* Every step of the subsystem is a step of the abstract specification or
\* leaves what it talks about alone.
LEMMA StepRefines == IInv /\ [Next]_vars => [Promise!Next]_(Promise!vars)
<1> SUFFICES ASSUME IInv, [Next]_vars
             PROVE  Promise!Next \/ UNCHANGED Promise!vars
    OBVIOUS
<1>1. ASSUME UNCHANGED <<balance, sent>>,
             \A r \in Refunds : Status(r)' = Status(r)
      PROVE  UNCHANGED Promise!vars
    BY <1>1, SameView DEF Promise!vars
<1>2. ASSUME UNCHANGED <<refund, balance, sent>>
      PROVE  UNCHANGED Promise!vars
    BY <1>1, <1>2 DEF Status
<1>3. ASSUME NEW r \in Refunds, Elapse(r) PROVE UNCHANGED Promise!vars
    <2>1. UNCHANGED <<balance, sent>>
        BY <1>3 DEF Elapse, history
    <2>2. QED
        BY <1>1, <1>3, <2>1, ElapseMoves
<1>4. CASE UNCHANGED vars
    BY <1>2, <1>4 DEF vars
<1>5. CASE Next
    BY <1>2, <1>3, <1>5, NextCases, OtherStepStutters, CommitCreateRefines,
       CommitRefines, WorkerRefines, SendRefines, DepositRefines
<1>6. QED
    BY <1>4, <1>5

\* The whole subsystem keeps the promise: held refunds are not transferred,
\* confirmed ones were, and no charge exceeds what the account holds.
THEOREM Refinement == Spec => KeepsPromise
<1>1. Init => Promise!Init
    BY Defaults DEF Init, Promise!Init, Phase
<1>2. QED
    BY <1>1, StepRefines, Invariance, PTL DEF Spec, KeepsPromise, Promise!Spec
-----------------------------------------------------------------------------
(***************************************************************************)
(* What was asked for: sums of the amounts of rows, and the payment        *)
(* statuses that handlers derive from them.                                *)
(***************************************************************************)
RowSum(rows, R) == MapThenSumSet(LAMBDA r : rows[r].amount, R)
AskedRows(rows, p) ==
    {r \in Refunds : rows[r].payment = p /\ rows[r].status # "absent"}

\* The sum unfolds to a function that adds the amounts up.
LEMMA RowsAddUp ==
    ASSUME NEW rows \in [Refunds -> Row], NEW S \in SUBSET Refunds
    PROVE  \E f, F : /\ SumsOf(S, f, F) /\ RowSum(rows, S) = F[S]
                     /\ \A i \in S : f[i] = rows[i].amount
<1> DEFINE f == [i \in S |-> rows[i].amount]
           Adds(iter) == iter = [T \in SUBSET S |->
               IF T = {} THEN 0 ELSE rows[Pick(T)].amount + iter[T \ {Pick(T)}]]
           F == CHOOSE iter : Adds(iter)
<1>1. IsFiniteSet(S) /\ \A i \in S : f[i] \in Nat
    <2>1. IsFiniteSet(Refunds)
        BY RefundsAssumption, FS_Interval DEF Refunds
    <2>2. IsFiniteSet(S)
        BY <2>1, FS_Subset
    <2>3. \A i \in S : rows[i].amount \in Nat
        BY RefundsAssumption DEF Row
    <2>4. QED
        BY <2>2, <2>3
<1>2. \A iter : Adds(iter) <=> AddsUp(f, iter, SUBSET S)
    <2>1. \A T \in SUBSET S : T # {} => Pick(T) \in S
        BY PickedElement
    <2>2. \A T \in SUBSET S : T # {} => f[Pick(T)] = rows[Pick(T)].amount
        BY <2>1
    <2> HIDE DEF f
    <2>3. \A iter : [T \in SUBSET S |->
                       IF T = {} THEN 0
                       ELSE rows[Pick(T)].amount + iter[T \ {Pick(T)}]]
                  = [T \in SUBSET S |->
                       IF T = {} THEN 0 ELSE f[Pick(T)] + iter[T \ {Pick(T)}]]
        BY <2>2
    <2>4. QED
        BY <2>3 DEF AddsUp
<1>3. PICK iter : SumsOf(S, f, iter)
    <2> HIDE DEF f
    <2>1. QED
        BY <1>1, AddsUpExists
<1>4. Adds(iter)
    BY <1>2, <1>3 DEF SumsOf
<1>5. Adds(F)
    <2> HIDE DEF Adds
    <2>1. QED
        BY <1>4
<1>6. SumsOf(S, f, F)
    <2>1. AddsUp(f, F, SUBSET S)
        <3> HIDE DEF F, f
        <3>1. QED
            BY <1>2, <1>5
    <2> HIDE DEF F, f
    <2>2. QED
        BY <1>1, <2>1 DEF SumsOf
<1>7. RowSum(rows, S) = F[S]
    BY DEF RowSum, MapThenSumSet, MapThenFoldSet, Pick
<1>8. \A i \in S : f[i] = rows[i].amount
    OBVIOUS
<1> HIDE DEF f, F
<1>9. QED
    BY <1>6, <1>7, <1>8

\* Sets of rows with the same amounts have the same sum.
LEMMA RowSumAgrees ==
    ASSUME NEW rows \in [Refunds -> Row], NEW others \in [Refunds -> Row],
           NEW S \in SUBSET Refunds,
           \A i \in S : rows[i].amount = others[i].amount
    PROVE  RowSum(rows, S) = RowSum(others, S)
<1>1. PICK f, F : /\ SumsOf(S, f, F) /\ RowSum(rows, S) = F[S]
                  /\ \A i \in S : f[i] = rows[i].amount
    BY RowsAddUp
<1>2. PICK g, G : /\ SumsOf(S, g, G) /\ RowSum(others, S) = G[S]
                  /\ \A i \in S : g[i] = others[i].amount
    BY RowsAddUp
<1>3. \A i \in S : f[i] = g[i]
    BY <1>1, <1>2
<1>4. F[S] = G[S]
    BY <1>1, <1>2, <1>3, AddsUpAgree
<1>5. QED
    BY <1>1, <1>2, <1>4

\* Sums are natural, grow with the set, and count every row once.
LEMMA RowSumFacts ==
    ASSUME NEW rows \in [Refunds -> Row], NEW S \in SUBSET Refunds
    PROVE  /\ RowSum(rows, S) \in Nat
           /\ \A T \in SUBSET S : RowSum(rows, T) <= RowSum(rows, S)
           /\ \A x \in S :
                RowSum(rows, S) = rows[x].amount + RowSum(rows, S \ {x})
<1>1. PICK f, F : /\ SumsOf(S, f, F) /\ RowSum(rows, S) = F[S]
                  /\ \A i \in S : f[i] = rows[i].amount
    BY RowsAddUp
<1>2. \A T \in SUBSET S : RowSum(rows, T) = F[T]
    <2> SUFFICES ASSUME NEW T \in SUBSET S PROVE RowSum(rows, T) = F[T]
        OBVIOUS
    <2>1. PICK g, G : /\ SumsOf(T, g, G) /\ RowSum(rows, T) = G[T]
                      /\ \A i \in T : g[i] = rows[i].amount
        <3>1. T \in SUBSET Refunds
            OBVIOUS
        <3>2. QED
            BY <3>1, RowsAddUp
    <2>2. \A i \in T : f[i] = g[i]
        BY <1>1, <2>1
    <2>3. F[T] = G[T]
        BY <1>1, <2>1, <2>2, AddsUpAgree
    <2>4. QED
        BY <2>1, <2>3
<1>3. \A T \in SUBSET S : /\ F[T] \in Nat
                          /\ \A x \in T : F[T] = f[x] + F[T \ {x}]
    BY <1>1, AddsUpElement
<1>4. \A T \in SUBSET S : F[T] <= F[S]
    BY <1>1, AddsUpMonotone
<1>5. \A x \in S : S \ {x} \in SUBSET S
    OBVIOUS
<1>6. QED
    BY <1>1, <1>2, <1>3, <1>4, <1>5

\* What was asked for a payment is the sum over its rows.
LEMMA AskedIsSum ==
    ASSUME TypeOK, NEW p
    PROVE  Asked(p) = RowSum(refund, AskedRows(refund, p))
<1>1. {r \in Refunds : /\ refund[r].payment = p
                       /\ refund[r].status \in RefundStatus \ {"absent"}}
        = AskedRows(refund, p)
    BY DEF AskedRows, TypeOK, Row
<1>2. QED
    BY <1>1 DEF Asked, Total, Amounts, RowSum

\* The sum of the rows of a payment in some statuses, with one more row of
\* the payment, is part of what was asked.
LEMMA PartIsAsked ==
    ASSUME TypeOK, NEW p, NEW S \in SUBSET AskedRows(refund, p)
    PROVE  /\ Amounts(S) \in Nat /\ Asked(p) \in Nat
           /\ Amounts(S) <= Asked(p)
           /\ \A r \in AskedRows(refund, p) \ S :
                refund[r].amount \in Nat /\ Amounts(S) + refund[r].amount <= Asked(p)
<1> DEFINE A == AskedRows(refund, p)
<1>1. refund \in [Refunds -> Row] /\ A \in SUBSET Refunds
    BY DEF TypeOK, AskedRows
<1>2. \A T : Amounts(T) = RowSum(refund, T)
    BY DEF Amounts, RowSum
<1>3. Asked(p) = RowSum(refund, A)
    BY AskedIsSum
<1>4. S \in SUBSET A
    OBVIOUS
<1> HIDE DEF A
<1>5. RowSum(refund, A) \in Nat /\ \A T \in SUBSET A : RowSum(refund, T) <= RowSum(refund, A)
    BY <1>1, RowSumFacts
<1>6. RowSum(refund, S) \in Nat
    BY <1>1, <1>4, RowSumFacts
<1>7. ASSUME NEW r \in A \ S
      PROVE  refund[r].amount \in Nat /\ RowSum(refund, S) + refund[r].amount <= RowSum(refund, A)
    <2>1. S \cup {r} \in SUBSET A /\ S \cup {r} \in SUBSET Refunds
          /\ r \in S \cup {r} /\ (S \cup {r}) \ {r} = S
        BY <1>1, <1>4, <1>7
    <2>2. RowSum(refund, S \cup {r}) = refund[r].amount + RowSum(refund, S)
        BY <1>1, <2>1, RowSumFacts
    <2>3. RowSum(refund, S \cup {r}) <= RowSum(refund, A)
        BY <1>5, <2>1
    <2>4. refund[r].amount \in Nat
        BY <1>1, <1>7, RefundsAssumption DEF Row
    <2>5. QED
        BY <1>6, <2>2, <2>3, <2>4
<1>8. QED
    BY <1>2, <1>3, <1>4, <1>5, <1>6, <1>7 DEF A
-----------------------------------------------------------------------------
\* Rows that exist keep their payment and their amount.
RowsStay ==
    \A r \in Refunds : refund[r].status # "absent" =>
        /\ refund'[r].status # "absent"
        /\ refund'[r].payment = refund[r].payment
        /\ refund'[r].amount = refund[r].amount

\* So what was asked never shrinks, and a row that appears adds its amount.
LEMMA AskedGrows ==
    ASSUME TypeOK, TypeOK', RowsStay, NEW p
    PROVE  /\ Asked(p) \in Nat /\ Asked(p)' \in Nat
           /\ Asked(p) <= Asked(p)'
           /\ \A r \in Refunds :
                /\ refund[r].status = "absent" /\ refund'[r].status # "absent"
                /\ refund'[r].payment = p
                => Asked(p) + refund'[r].amount <= Asked(p)'
<1> DEFINE A == AskedRows(refund, p)
           B == AskedRows(refund', p)
<1>1. refund \in [Refunds -> Row] /\ refund' \in [Refunds -> Row]
    BY DEF TypeOK
<1>2. A \in SUBSET B /\ B \in SUBSET Refunds /\ A \in SUBSET Refunds
    BY DEF RowsStay, AskedRows
<1>3. \A r \in A : refund[r].amount = refund'[r].amount
    BY DEF RowsStay, AskedRows
<1>4. Asked(p) = RowSum(refund, A)
    BY AskedIsSum
<1>5. Asked(p)' = RowSum(refund', B)
    <2>1. {r \in Refunds : /\ refund'[r].payment = p
                           /\ refund'[r].status \in RefundStatus \ {"absent"}}
            = B
        BY <1>1 DEF AskedRows, Row
    <2>2. QED
        BY <2>1 DEF Asked, Total, Amounts, RowSum, MapThenSumSet, MapThenFoldSet
<1>6. \A r \in Refunds :
        /\ refund[r].status = "absent" /\ refund'[r].status # "absent"
        /\ refund'[r].payment = p
        => r \in B \ A
    BY DEF AskedRows
<1> HIDE DEF A, B
<1>7. RowSum(refund, A) = RowSum(refund', A)
    BY <1>1, <1>2, <1>3, RowSumAgrees
<1>8. RowSum(refund', A) \in Nat /\ RowSum(refund', B) \in Nat
      /\ RowSum(refund', A) <= RowSum(refund', B)
    BY <1>1, <1>2, RowSumFacts
<1>9. ASSUME NEW r \in B \ A
      PROVE  RowSum(refund', A) + refund'[r].amount <= RowSum(refund', B)
    <2>1. A \cup {r} \in SUBSET B /\ A \cup {r} \in SUBSET Refunds
          /\ r \in A \cup {r} /\ (A \cup {r}) \ {r} = A
        BY <1>2, <1>9
    <2>2. RowSum(refund', A \cup {r}) = refund'[r].amount + RowSum(refund', A)
        BY <1>1, <2>1, RowSumFacts
    <2>3. RowSum(refund', A \cup {r}) <= RowSum(refund', B)
        BY <1>1, <1>2, <2>1, RowSumFacts
    <2>4. refund'[r].amount \in Nat
        BY <1>1, <1>2, <1>9, RefundsAssumption DEF Row
    <2>5. QED
        BY <1>8, <2>2, <2>3, <2>4
<1>10. QED
    BY <1>4, <1>5, <1>6, <1>7, <1>8, <1>9
-----------------------------------------------------------------------------
\* No step removes a row or changes its payment or its amount.
LEMMA RowsStayAlways == ASSUME IInv, Next PROVE RowsStay
<1> USE DEF RowsStay
<1>0. refund \in [Refunds -> Row]
    BY DEF IInv, TypeOK
<1>1. ASSUME NEW q \in Requests, CommitCreate(q) PROVE RowsStay
    <2>1. PICK r \in Absent : refund' = [refund EXCEPT ![r] = request[q].draft]
        BY <1>1 DEF CommitCreate
    <2>2. QED
        BY <1>0, <2>1 DEF Absent
<1>2. ASSUME NEW q \in Requests, Commit(q) PROVE RowsStay
    <2> SUFFICES ASSUME NEW r \in Refunds, refund[r].status # "absent"
                 PROVE  /\ refund'[r].status # "absent"
                        /\ refund'[r].payment = refund[r].payment
                        /\ refund'[r].amount = refund[r].amount
        OBVIOUS
    <2>1. /\ request[q].tx.status[r] \in {Keep, "PENDING", "FAILED"}
          /\ refund'[r].status = Apply(refund[r].status, request[q].tx.status[r])
        BY <1>2, CommitRow
    <2>2. refund'[r].status # "absent"
        BY <2>1 DEF Apply
    <2>3. \E status, hash, addressed :
            refund'[r] = [refund[r] EXCEPT !.status = status, !.hash = hash,
                                           !.addressed = addressed]
        BY <1>2 DEF Commit
    <2>4. /\ refund'[r].payment = refund[r].payment
          /\ refund'[r].amount = refund[r].amount
        BY <1>0, <2>3 DEF Row
    <2>5. QED
        BY <2>2, <2>4
<1>3. ASSUME NEW w \in Workers, Reject(w) \/ Mark(w) \/ Finish(w)
      PROVE  RowsStay
    <2>1. \A s \in Refunds : Status(s)' = "absent" => Status(s) = "absent"
        BY <1>3, WorkerMoves
    <2>2. \A s \in Refunds : /\ refund'[s].payment = refund[s].payment
                             /\ refund'[s].amount = refund[s].amount
        <3>1. CASE Reject(w)
            BY <1>0, <3>1 DEF Reject, Row
        <3>2. CASE Mark(w)
            BY <1>0, <3>2 DEF Mark, Row
        <3>3. CASE Finish(w)
            BY <1>0, <3>3 DEF Finish, Row
        <3>4. QED
            BY <1>3, <3>1, <3>2, <3>3
    <2>3. QED
        BY <2>1, <2>2 DEF Status
<1>4. ASSUME NEW r \in Refunds, Elapse(r) PROVE RowsStay
    <2>1. PICK age : refund' = [refund EXCEPT ![r].age = age]
        BY <1>4 DEF Elapse
    <2>2. QED
        BY <1>0, <2>1 DEF Row
<1>5. ASSUME NEW w \in Workers, Send(w) PROVE RowsStay
    BY <1>5 DEF Send
<1>6. OtherStep \/ WriteCredit => RowsStay
    BY OtherStepStutters DEF WriteCredit
<1>7. QED
    BY <1>1, <1>2, <1>3, <1>4, <1>5, <1>6, NextCases

\* A slot that would write REFUNDED knows refunds for the whole amount.
AskedSlot(slot, p) ==
    slot.tx.pay[p] = "REFUNDED" => Asked(p) + Pledge(slot, p) >= PaymentAmount

\* REFUNDED is derived only from a total that covers the payment.
LEMMA WholeAmount ==
    ASSUME NEW total, StatusFor(total) = "REFUNDED"
    PROVE  total >= PaymentAmount
BY DEF StatusFor

\* A pledge is a number of token units.
LEMMA PledgeType ==
    ASSUME NEW slot \in Request, NEW p PROVE Pledge(slot, p) \in Nat
BY RefundsAssumption DEF Pledge, Request, Row

\* A transaction without a payment status says nothing.
LEMMA SilentSlot ==
    ASSUME NEW slot, NEW p \in Payments, slot.tx.pay = NoTx.pay
    PROVE  AskedSlot(slot, p)
BY DEF AskedSlot, NoTx, Keep

\* A creation counts the rows it read and the one it is about to insert.
LEMMA CreateSlotIsAsked ==
    ASSUME IInv, NEW q \in Requests, BeginCreate(q), NEW s \in Payments
    PROVE  AskedSlot(request'[q], s)
<1>1. PICK p \in Payments, amount \in 1..PaymentAmount,
           withheld \in Withheld, ifShort \in {"queue", "force"},
           addressed \in BOOLEAN :
        LET total  == Total(p, Open \cup {"QUEUED"})
            short  == balance - withheld < amount
            queued == short /\ ifShort = "queue"
        IN  /\ payment[p] \in {"PAID", "PARTIALLY_REFUNDED"}
            /\ amount <= PaymentAmount - total
            /\ request' = [request EXCEPT ![q] =
                 Slot("create", NoRefund,
                      [NoRow EXCEPT
                         !.status = IF queued THEN "QUEUED" ELSE "PENDING",
                         !.payment = p,
                         !.amount = amount,
                         !.source = IF short /\ ~queued
                                    THEN "external_wallet"
                                    ELSE "platform_balance",
                         !.addressed = addressed],
                      IF queued THEN NoTx
                      ELSE [NoTx EXCEPT !.pay[p] =
                              Change(payment[p], StatusFor(total + amount))])]
    BY DEF BeginCreate
<1> DEFINE short == balance - withheld < amount
           queued == short /\ ifShort = "queue"
           row == [NoRow EXCEPT
                     !.status = IF queued THEN "QUEUED" ELSE "PENDING",
                     !.payment = p,
                     !.amount = amount,
                     !.source = IF short /\ ~queued THEN "external_wallet"
                                ELSE "platform_balance",
                     !.addressed = addressed]
<1>0. row.payment = p /\ row.amount = amount
    BY Defaults DEF Row
<1> HIDE DEF row
<1> DEFINE S == {r \in Refunds : /\ refund[r].payment = p
                                 /\ refund[r].status \in Open \cup {"QUEUED"}}
<1>2. S \in SUBSET AskedRows(refund, p)
    BY DEF AskedRows, Open
<1>3. Total(p, Open \cup {"QUEUED"}) = Amounts(S)
    BY DEF Total
<1> HIDE DEF S
<1>4. Amounts(S) \in Nat /\ Asked(p) \in Nat /\ Amounts(S) <= Asked(p)
    BY <1>2, PartIsAsked DEF IInv
<1> DEFINE pay == Change(payment[p], StatusFor(Amounts(S) + amount))
<1>5. /\ request'[q].kind = "create" /\ request'[q].draft = row
      /\ request'[q].tx = IF queued THEN NoTx ELSE [NoTx EXCEPT !.pay[p] = pay]
    BY <1>1, <1>3 DEF Slot, row, IInv, TypeOK
<1> HIDE DEF pay
<1>6. request'[q].tx.pay[s] = "REFUNDED" => s = p /\ pay = "REFUNDED"
    BY <1>5 DEF NoTx, Keep
<1>7. pay = "REFUNDED" => Amounts(S) + amount >= PaymentAmount
    BY WholeAmount DEF pay, Change, Keep
<1>8. s = p => Pledge(request'[q], s) = amount
    BY <1>0, <1>5 DEF Pledge
<1>9. QED
    BY <1>4, <1>6, <1>7, <1>8, RefundsAssumption DEF AskedSlot

\* A retry counts the open rows it read and the row it reopens.
LEMMA RetrySlotIsAsked ==
    ASSUME IInv, NEW q \in Requests, NEW r \in Refunds, BeginRetry(q, r),
           NEW s \in Payments
    PROVE  AskedSlot(request'[q], s)
<1> DEFINE p == refund[r].payment
           others == {x \in Refunds \ {r} : /\ refund[x].payment = p
                                            /\ refund[x].status \in Open}
           pay == Change(payment[p],
                         StatusFor(Amounts(others) + refund[r].amount))
<1>1. others \in SUBSET AskedRows(refund, p) /\ r \in AskedRows(refund, p) \ others
    BY DEF AskedRows, Open, BeginRetry
<1>2. request'[q].kind = "retry" /\ request'[q].tx.pay = [NoTx.pay EXCEPT ![p] = pay]
    BY DEF BeginRetry, Slot, IInv, TypeOK
<1> HIDE DEF others
<1>3. /\ Amounts(others) \in Nat /\ Asked(p) \in Nat /\ refund[r].amount \in Nat
      /\ Amounts(others) + refund[r].amount <= Asked(p)
    BY <1>1, PartIsAsked DEF IInv
<1> HIDE DEF pay
<1>4. request'[q].tx.pay[s] = "REFUNDED" => s = p /\ pay = "REFUNDED"
    BY <1>2 DEF NoTx, Keep
<1>5. pay = "REFUNDED" => Amounts(others) + refund[r].amount >= PaymentAmount
    BY WholeAmount DEF pay, Change, Keep
<1>6. Pledge(request'[q], s) = 0
    BY <1>2 DEF Pledge
<1>7. QED
    BY <1>3, <1>4, <1>5, <1>6, RefundsAssumption DEF AskedSlot

\* The last promotion of a payment is one of its queued rows.
LEMMA LastIsOne ==
    ASSUME NEW P \in SUBSET Refunds, P # {} PROVE Max(P) \in P
<1> DEFINE T == {MaxRefunds - x : x \in P}
<1>1. T \in SUBSET Nat /\ T # {}
    <2>1. \A x \in P : MaxRefunds - x \in Nat
        BY RefundsAssumption DEF Refunds
    <2>2. QED
        BY <2>1
<1>2. PICK n \in T : \A m \in T : n <= m
    BY <1>1, LeastElement
<1>3. PICK x \in P : n = MaxRefunds - x
    BY <1>2
<1>4. \A y \in P : x >= y
    <2> SUFFICES ASSUME NEW y \in P PROVE x >= y
        OBVIOUS
    <2>1. MaxRefunds - x <= MaxRefunds - y
        BY <1>2, <1>3
    <2>2. QED
        BY <2>1, RefundsAssumption DEF Refunds
<1>5. \E z \in P : \A y \in P : z >= y
    BY <1>4
<1>6. QED
    BY <1>5 DEF Max

\* A promotion counts the open rows and the last row it promotes.
LEMMA QueuedSlotIsAsked ==
    ASSUME IInv, NEW q \in Requests, BeginProcessQueued(q), NEW s \in Payments
    PROVE  AskedSlot(request'[q], s)
<1> DEFINE queued == {r \in Refunds : refund[r].status = "QUEUED"}
           last(P, p) == Max({r \in P : refund[r].payment = p})
           pay(P) == [p \in Payments |->
                        IF \E r \in P : refund[r].payment = p
                        THEN Change(payment[p],
                               StatusFor(Total(p, Open)
                                         + refund[last(P, p)].amount))
                        ELSE Keep]
<1>1. PICK promoted \in SUBSET queued :
        /\ request'[q].kind = "process-queued"
        /\ request'[q].tx.pay = pay(promoted)
    <2> DEFINE lapsed == {r \in queued : refund[r].age = "lapsed"}
               status(P) == [r \in Refunds |-> IF r \in lapsed THEN "FAILED"
                                               ELSE IF r \in P THEN "PENDING"
                                               ELSE Keep]
    <2>1. PICK promoted \in SUBSET queued :
            request' = [request EXCEPT ![q] =
              Slot("process-queued", NoRefund, NoRow,
                   [status |-> status(promoted), pay |-> pay(promoted),
                    debit |-> promoted])]
        BY DEF BeginProcessQueued
    <2> HIDE DEF pay
    <2>2. QED
        BY <2>1 DEF Slot, IInv, TypeOK
<1>2. SUFFICES ASSUME request'[q].tx.pay[s] = "REFUNDED"
               PROVE  Asked(s) >= PaymentAmount /\ Asked(s) \in Nat
    BY <1>1 DEF AskedSlot, Pledge
<1> DEFINE mine == {r \in promoted : refund[r].payment = s}
           open == {r \in Refunds : /\ refund[r].payment = s
                                    /\ refund[r].status \in Open}
<1>3. mine # {} /\ pay(promoted)[s]
        = Change(payment[s], StatusFor(Total(s, Open) + refund[Max(mine)].amount))
    BY <1>1, <1>2 DEF Keep
<1>4. StatusFor(Total(s, Open) + refund[Max(mine)].amount) = "REFUNDED"
    BY <1>1, <1>2, <1>3 DEF Change, Keep
<1>5. Max(mine) \in mine
    <2>1. mine \in SUBSET Refunds
        OBVIOUS
    <2> HIDE DEF mine
    <2>2. QED
        BY <1>3, <2>1, LastIsOne
<1>6. open \in SUBSET AskedRows(refund, s)
      /\ Max(mine) \in AskedRows(refund, s) \ open
    BY <1>5 DEF AskedRows, Open
<1>7. Total(s, Open) = Amounts(open)
    BY DEF Total
<1> DEFINE x == Max(mine)
<1> HIDE DEF open, mine, x
<1>8. /\ Amounts(open) \in Nat /\ Asked(s) \in Nat /\ refund[x].amount \in Nat
      /\ Amounts(open) + refund[x].amount <= Asked(s)
    BY <1>6, PartIsAsked DEF IInv, x
<1>9. Amounts(open) + refund[x].amount >= PaymentAmount
    BY <1>4, <1>7, WholeAmount DEF x
<1>10. QED
    BY <1>8, <1>9, RefundsAssumption

\* A handler that reverts a payment never writes REFUNDED.
LEMMA RevertSlotIsAsked ==
    ASSUME IInv, NEW q \in Requests, BeginRevert(q), NEW s \in Payments
    PROVE  AskedSlot(request'[q], s)
<1> DEFINE p == refund[request[q].target].payment
<1>1. PICK pay \in {"PARTIALLY_REFUNDED", "PAID", Keep} :
        request'[q] = IF payment[p] = "PAID" THEN Done
          ELSE Slot("revert", request[q].target, NoRow, [NoTx EXCEPT !.pay[p] = pay])
    BY DEF BeginRevert, Change, IInv, TypeOK
<1>2. CASE payment[p] = "PAID"
    BY <1>1, <1>2, SilentSlot, Defaults
<1>3. CASE payment[p] # "PAID"
    <2> DEFINE tx == [NoTx EXCEPT !.pay[p] = pay]
    <2>1. tx.pay = [NoTx.pay EXCEPT ![p] = pay]
        BY Defaults DEF Tx
    <2> HIDE DEF tx
    <2>2. request'[q].tx.pay = [NoTx.pay EXCEPT ![p] = pay]
        <3>1. request'[q] = Slot("revert", request[q].target, NoRow, tx)
            BY <1>1, <1>3 DEF tx
        <3>2. QED
            BY <2>1, <3>1 DEF Slot
    <2>3. request'[q].tx.pay[s] # "REFUNDED"
        BY <2>2, <1>1 DEF NoTx, Keep
    <2>4. QED
        BY <2>3 DEF AskedSlot
<1>4. QED
    BY <1>2, <1>3

\* A handler writes its own slot only.
LEMMA OthersKeepTheirSlot ==
    ASSUME IInv, NEW q \in Requests, NEW x \in Requests, x # q, Handler(x)
    PROVE  request'[q] = request[q]
<1>0. request \in [Requests -> Request]
    BY DEF IInv, TypeOK
<1>1. CASE BeginCreate(x)
    BY <1>0, <1>1 DEF BeginCreate
<1>2. CASE CommitCreate(x) \/ Refuse(x)
    BY <1>0, <1>2 DEF CommitCreate, Refuse
<1>3. CASE BeginRevert(x)
    BY <1>0, <1>3 DEF BeginRevert
<1>4. CASE Commit(x)
    BY <1>0, <1>4 DEF Commit
<1>5. CASE BeginProcessQueued(x)
    BY <1>0, <1>5 DEF BeginProcessQueued
<1>6. ASSUME NEW r \in Refunds,
             \/ BeginCancel(x, r) \/ BeginForceRetry(x, r)
             \/ BeginUpdateAddress(x, r)
      PROVE  request'[q] = request[q]
    BY <1>0, <1>6 DEF BeginCancel, BeginForceRetry, BeginUpdateAddress
<1>7. ASSUME NEW r \in Refunds, BeginRetry(x, r)
      PROVE  request'[q] = request[q]
    BY <1>0, <1>7 DEF BeginRetry
<1>8. ASSUME NEW w \in Workers, StartInstantPass(x, w)
      PROVE  request'[q] = request[q]
    BY <1>0, <1>8 DEF StartInstantPass
<1>9. QED
    BY <1>1, <1>2, <1>3, <1>4, <1>5, <1>6, <1>7, <1>8 DEF Handler

\* Whatever a step leaves in a slot fits what was asked before it.
LEMMA SlotsAreAsked ==
    ASSUME IInv, TxIsAsked, Next, NEW q \in Requests, NEW p \in Payments
    PROVE  AskedSlot(request'[q], p)
<1> DEFINE Same(x) == request'[x].tx = request[x].tx
                      /\ Pledge(request'[x], p) = Pledge(request[x], p)
           Silent(x) == request'[x].tx.pay = NoTx.pay
<1>1. Silent(q) => AskedSlot(request'[q], p)
    BY SilentSlot
<1>2. AskedSlot(request[q], p)
    BY DEF TxIsAsked, AskedSlot
<1>3. request'[q] = request[q] => AskedSlot(request'[q], p)
    BY <1>2
<1>4. request'[q] = Done => Silent(q)
    BY Defaults
<1>5. ASSUME NEW x \in Requests, Handler(x) PROVE AskedSlot(request'[q], p)
    <2>1. x # q => request'[q] = request[q]
        BY <1>5, OthersKeepTheirSlot
    <2>2. CASE x # q
        BY <2>1, <2>2, <1>3
    <2>3. CASE x = q
        <3>1. CASE CommitCreate(q) \/ Refuse(q) \/ \E w \in Workers : StartInstantPass(q, w)
            <4>1. request'[q] = Done
                BY <3>1 DEF CommitCreate, Refuse, StartInstantPass, IInv, TypeOK
            <4>2. QED
                BY <4>1, <1>1, <1>4
        <3>2. CASE Commit(q)
            <4>1. Silent(q)
                BY <3>2, Defaults DEF Commit, Slot, IInv, TypeOK
            <4>2. QED
                BY <4>1, <1>1
        <3>3. CASE \E r \in Refunds : BeginCancel(q, r) \/ BeginForceRetry(q, r)
                                      \/ BeginUpdateAddress(q, r)
            <4>1. Silent(q)
                BY <3>3 DEF BeginCancel, BeginForceRetry, BeginUpdateAddress,
                       Slot, NoTx, IInv, TypeOK
            <4>2. QED
                BY <4>1, <1>1
        <3>4. QED
            BY <1>5, <2>3, <3>1, <3>2, <3>3, CreateSlotIsAsked, RetrySlotIsAsked,
               QueuedSlotIsAsked, RevertSlotIsAsked DEF Handler
    <2>4. QED
        BY <2>2, <2>3
<1>6. ASSUME NEW w \in Workers, Processor(w) PROVE request' = request
    BY <1>6 DEF Processor, StartTask, StartScheduledPass, Skip, Load, Reject,
                Mark, Send, Finish
<1>7. ASSUME NEW r \in Refunds, Elapse(r) PROVE request' = request
    BY <1>7 DEF Elapse
<1>8. ReadCredit \/ WriteCredit => request' = request
    BY DEF ReadCredit, WriteCredit
<1>9. Crash => request'[q] \in {request[q], Done}
    BY DEF Crash
<1>10. QED
    BY <1>1, <1>3, <1>4, <1>5, <1>6, <1>7, <1>8, <1>9 DEF Next

\* Only a commit moves the status of a payment, to what its slot says.
LEMMA PaymentMoves ==
    ASSUME IInv, Next, NEW p \in Payments, payment'[p] = "REFUNDED"
    PROVE  \/ payment[p] = "REFUNDED"
           \/ \E q \in Requests : /\ CommitCreate(q) \/ Commit(q)
                                  /\ request[q].tx.pay[p] = "REFUNDED"
<1>1. ASSUME NEW q \in Requests, CommitCreate(q) \/ Commit(q)
      PROVE  payment'[p] = Apply(payment[p], request[q].tx.pay[p])
    BY <1>1 DEF CommitCreate, Commit
<1>2. ASSUME NEW q \in Requests, Handler(q)
      PROVE  CommitCreate(q) \/ Commit(q) \/ payment' = payment
    BY <1>2 DEF Handler, BeginCreate, BeginRevert, BeginProcessQueued, Refuse,
          BeginCancel, BeginRetry, BeginForceRetry, BeginUpdateAddress,
          StartInstantPass
<1>3. ASSUME NEW w \in Workers, Processor(w) PROVE payment' = payment
    BY <1>3 DEF Processor, StartTask, StartScheduledPass, Skip, Load, Reject,
                Mark, Send, Finish
<1>4. ASSUME NEW r \in Refunds, Elapse(r) PROVE payment' = payment
    BY <1>4 DEF Elapse
<1>5. ReadCredit \/ WriteCredit \/ Crash => payment' = payment
    BY DEF ReadCredit, WriteCredit, Crash
<1>6. QED
    BY <1>1, <1>2, <1>3, <1>4, <1>5 DEF Next, Apply

\* Every step keeps the property and what the slots know of it.
LEMMA NextKeepsAsked ==
    ASSUME IInv, IInv', RefundedIsAsked, TxIsAsked, Next
    PROVE  RefundedIsAsked' /\ TxIsAsked'
<1>1. TypeOK /\ TypeOK' /\ RowsStay
    BY RowsStayAlways DEF IInv
<1>2. \A p : /\ Asked(p) \in Nat /\ Asked(p)' \in Nat
             /\ Asked(p) <= Asked(p)'
    BY <1>1, AskedGrows
<1>3. ASSUME NEW p \in Payments, payment'[p] = "REFUNDED"
      PROVE  Asked(p)' >= PaymentAmount
    <2>1. CASE payment[p] = "REFUNDED"
        BY <2>1, <1>2, RefundsAssumption DEF RefundedIsAsked
    <2>2. ASSUME NEW q \in Requests, Commit(q), request[q].tx.pay[p] = "REFUNDED"
          PROVE  Asked(p)' >= PaymentAmount
        <3>1. Pledge(request[q], p) = 0
            BY <2>2 DEF Commit, UpdateKind, Pledge
        <3>2. Asked(p) + 0 >= PaymentAmount
            BY <2>2, <3>1 DEF TxIsAsked
        <3>3. QED
            BY <1>2, <3>2, RefundsAssumption
    <2>3. ASSUME NEW q \in Requests, CommitCreate(q), request[q].tx.pay[p] = "REFUNDED"
          PROVE  Asked(p)' >= PaymentAmount
        <3> DEFINE row == request[q].draft
        <3>1. Asked(p) + Pledge(request[q], p) >= PaymentAmount
            BY <2>3 DEF TxIsAsked
        <3>2. PICK r \in Absent : refund' = [refund EXCEPT ![r] = row]
            BY <2>3 DEF CommitCreate
        <3>3. r \in Refunds /\ refund[r].status = "absent" /\ refund'[r] = row
            BY <3>2, <1>1 DEF Absent, TypeOK
        <3>4. row.status # "absent" /\ row.amount \in Nat
            BY <2>3, RefundsAssumption
               DEF IInv, TypeOK, Request, Row, DraftIsSound, CommitCreate
        <3>5. row.payment = p => Asked(p) + row.amount <= Asked(p)'
            BY <1>1, <3>3, <3>4, AskedGrows
        <3>6. Pledge(request[q], p) = IF row.payment = p THEN row.amount ELSE 0
            BY <2>3 DEF Pledge, CommitCreate
        <3>7. QED
            BY <1>2, <3>1, <3>4, <3>5, <3>6, RefundsAssumption
    <2>4. QED
        BY <1>3, <2>1, <2>2, <2>3, PaymentMoves
<1>4. ASSUME NEW q \in Requests, NEW p \in Payments, request'[q].tx.pay[p] = "REFUNDED"
      PROVE  Asked(p)' + Pledge(request'[q], p) >= PaymentAmount
    <2>1. Asked(p) + Pledge(request'[q], p) >= PaymentAmount
        BY <1>4, SlotsAreAsked DEF AskedSlot
    <2>2. Pledge(request'[q], p) \in Nat
        BY <1>1, PledgeType DEF TypeOK
    <2>3. QED
        BY <1>2, <2>1, <2>2, RefundsAssumption
<1>5. QED
    BY <1>3, <1>4 DEF RefundedIsAsked, TxIsAsked, Pledge

\* A payment reads REFUNDED only if refunds for its whole amount were asked
\* for, in whatever order the handlers that wrote it committed.
THEOREM Refunded == Spec => []RefundedIsAsked
<1> DEFINE Inv == IInv /\ RefundedIsAsked /\ TxIsAsked
<1>1. Init => RefundedIsAsked /\ TxIsAsked
    BY Defaults DEF Init, RefundedIsAsked, TxIsAsked, NoTx, Keep
<1>2. Init => Inv
    BY <1>1, InitIInv
<1>3. Inv /\ [Next]_vars => Inv'
    <2>1. CASE Next
        BY <2>1, NextKeepsIInv, NextKeepsAsked
    <2>2. CASE UNCHANGED vars
        <3>1. \A p : Asked(p)' = Asked(p)
            BY <2>2 DEF vars, Asked, Total, Amounts, MapThenSumSet, MapThenFoldSet
        <3>2. UNCHANGED <<payment, request>>
            BY <2>2 DEF vars
        <3>3. (RefundedIsAsked /\ TxIsAsked) =>
                (RefundedIsAsked' /\ TxIsAsked')
            BY <3>1, <3>2 DEF RefundedIsAsked, TxIsAsked, Pledge
        <3>4. QED
            BY <2>2, <3>3, NextKeepsIInv
    <2>3. QED
        BY <2>1, <2>2
<1> HIDE DEF Inv
<1>4. Spec => []Inv
    BY <1>2, <1>3, PTL DEF Spec
<1>5. Inv => RefundedIsAsked
    BY DEF Inv
<1>6. QED
    BY <1>4, <1>5, PTL
=============================================================================
