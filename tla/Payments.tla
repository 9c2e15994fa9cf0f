------------------------------ MODULE Payments ------------------------------
(***************************************************************************)
(* Payment sessions of one merchant, from creation to the credit of the    *)
(* merchant's balance: the handlers of app/routes/sessions.py, payments.py,*)
(* merchant_payments.py, checkout.py and promo.py, the polling listeners   *)
(* of app/services/blockchains (one process, started by                    *)
(* scripts/run_listeners.py) and the streaming Stellar listener of         *)
(* app/services/stellar_listener.py (a process of its own).                *)
(*                                                                         *)
(* An agent is a request or a listener.  Between two database transactions *)
(* it holds in its flow what it read and is about to write; nothing is     *)
(* locked meanwhile.  Refunds appear through the status they write.        *)
(***************************************************************************)
EXTENDS Integers, FiniteSets, FiniteSetsExt

CONSTANTS
    MaxSessions,   \* sessions, numbered in creation order
    MaxTransfers,  \* token transfers, numbered in the order of the chains
    Routes,        \* (token, chain, wallet) triples of the merchant
    Chain,         \* the chain of each route: "stellar", "tron" or "evm"
    Amounts,       \* token amounts
    Requests,      \* request slots; each serves one HTTP request
    Listeners,     \* which listener processes run: "poller", "stream"
    SeenCap,       \* operations the Stellar poller remembers (5000)
    CouponLimit,   \* usage_limit_total of the merchant's full coupon
    MaxRestarts    \* bound on process crashes

ASSUME PaymentsAssumption ==
    /\ MaxSessions \in Nat \ {0}
    /\ MaxTransfers \in Nat
    /\ IsFiniteSet(Requests)
    /\ Chain \in [Routes -> {"stellar", "tron", "evm"}]
    /\ Amounts # {}
    /\ Listeners \subseteq {"poller", "stream"}
    /\ Requests \cap {"poller", "stream"} = {}
    /\ SeenCap \in Nat \ {0}
    /\ CouponLimit \in Nat
    /\ MaxRestarts \in Nat

VARIABLES
    session,   \* the payment_sessions table
    transfer,  \* the block chains: transfers to the merchant's wallets
    flow,      \* what each agent holds between its transactions
    poller,    \* memory of the polling listeners' process
    stream,    \* cursor of the streaming listener: next transfer to read
    used,      \* used_count of the coupon
    restarts,  \* process crashes so far
    lost,      \* history: transfers whose PAID commit failed
    spent,     \* history: commits of PAID on account of each transfer
    paid,      \* history: commits of PAID, per session
    credited,  \* history: balance credits committed, per session
    redeemed   \* history: coupon usage rows inserted

vars == <<session, transfer, flow, poller, stream, used, restarts, lost,
          spent, paid, credited, redeemed>>
-----------------------------------------------------------------------------
Sessions == 1..MaxSessions
Transfers == 1..MaxTransfers
NoSession == 0
NoTransfer == 0
NoRoute == "none"
Agents == Requests \cup Listeners

\* PROCESSING, CONFIRMED and FAILED are declared and never assigned to a
\* session; "absent" is a row that does not exist yet.
Status == {"absent", "CREATED", "PENDING", "PAID", "EXPIRED",
           "REFUNDED", "PARTIALLY_REFUNDED"}
\* NotRefunded is the same list without the check that there was a payment.
NotRefunded == Status \ {"absent", "REFUNDED"}
Refundable == {"PAID", "PARTIALLY_REFUNDED"}
Settled == {"PAID", "PARTIALLY_REFUNDED", "REFUNDED"}

\* clock: before expires_at, after it, and after payment_started_at + timeout
\* (which only a session whose checkout page was opened has).
Row == [status: Status, route: Routes \cup {NoRoute}, amount: Amounts,
        started: BOOLEAN, clock: {"open", "lapsed", "late"},
        coupon: BOOLEAN, refunds: BOOLEAN]
NoRow == [status |-> "absent", route |-> NoRoute,
          amount |-> CHOOSE x \in Amounts : TRUE, started |-> FALSE,
          clock |-> "open", coupon |-> FALSE, refunds |-> FALSE]

\* A transfer is confirmed once its chain shows enough blocks; "block" tells
\* whether the listener learns which block it is in (TronGrid is asked once,
\* and may not answer); "for" is the session its sender meant, which only a
\* Stellar memo carries.
Transfer == [state: {"none", "sent", "confirmed"}, route: Routes \cup {NoRoute},
             amount: Amounts, for: {NoSession} \cup Sessions,
             block: BOOLEAN]
NoMove == [state |-> "none", route |-> NoRoute,
           amount |-> CHOOSE x \in Amounts : TRUE, for |-> NoSession,
           block |-> TRUE]

Step == {"idle", "done", "start", "route", "write", "mark", "pay", "credit",
         "usage", "count"}
Flow == [step: Step, session: {NoSession} \cup Sessions,
         transfer: {NoTransfer} \cup Transfers, route: Routes \cup {NoRoute},
         status: Status, seen: Nat]
Idle == [step |-> "idle", session |-> NoSession, transfer |-> NoTransfer,
         route |-> NoRoute, status |-> "absent", seen |-> 0]
Done == [Idle EXCEPT !.step = "done"]

\* Memory of the polling process: Stellar operations seen, transfers waiting
\* for confirmations, and per chain the cursor, the batch being examined and
\* where the cursor goes after it (NoBatch between batches).
Polled == {"tron", "evm"}
NoBatch == 0
Poller == [seen: SUBSET Transfers, tracked: SUBSET Transfers,
           cursor: [Polled -> 1..(MaxTransfers + 1)],
           todo: [Polled -> SUBSET Transfers],
           next: [Polled -> 0..(MaxTransfers + 1)]]

Sent == {t \in Transfers : transfer[t].state # "none"}
Now == Cardinality(Sent) + 1
ChainOf(t) == Chain[transfer[t].route]

\* Rows, chains, flows and the listeners' memory keep their types; cursors
\* stay within the chain.
TypeOK ==
    /\ session \in [Sessions -> Row]
    /\ transfer \in [Transfers -> Transfer]
    /\ flow \in [Agents -> Flow]
    /\ poller \in Poller
    /\ stream \in 1..(MaxTransfers + 1)
    /\ used \in Nat
    /\ restarts \in 0..MaxRestarts
    /\ lost \in SUBSET Transfers
    /\ spent \in [Transfers -> Nat]
    /\ paid \in [Sessions -> Nat]
    /\ credited \in [Sessions -> Nat]
    /\ redeemed \in Nat

\* A listener process that starts: Tron begins at the present, the EVM
\* listener some blocks back, the Stellar poller has seen nothing.  LastBlock
\* keeps the last block read where the first block to read is expected.
LastBlock(now, block) ==
    [seen |-> {}, tracked |-> {},
     cursor |-> [c \in Polled |-> IF c = "tron" THEN now ELSE block - 1],
     todo |-> [c \in Polled |-> {}],
     next |-> [c \in Polled |-> NoBatch]]

Fresh(now, block) ==
    [seen |-> {}, tracked |-> {},
     cursor |-> [c \in Polled |-> IF c = "tron" THEN now ELSE block],
     todo |-> [c \in Polled |-> {}],
     next |-> [c \in Polled |-> NoBatch]]

Init ==
    /\ session = [s \in Sessions |-> NoRow]
    /\ transfer = [t \in Transfers |-> NoMove]
    /\ flow = [a \in Agents |-> Idle]
    /\ poller = Fresh(1, 1)
    /\ stream = 1
    /\ used = 0
    /\ restarts = 0
    /\ lost = {}
    /\ spent = [t \in Transfers |-> 0]
    /\ paid = [s \in Sessions |-> 0]
    /\ credited = [s \in Sessions |-> 0]
    /\ redeemed = 0
-----------------------------------------------------------------------------
(***************************************************************************)
(* Session handlers.  Hold(a, f): agent a has read and is about to commit. *)
(***************************************************************************)
Hold(a, f) ==
    /\ flow' = [flow EXCEPT ![a] = f]
    /\ UNCHANGED <<session, transfer, poller, stream, used, restarts, lost,
                   spent, paid, credited, redeemed>>

\* A listener takes its next transfer, a request slot is used up.  Again runs
\* the last transaction of a request once more.
Again(a) == IF a \in Listeners THEN Idle ELSE flow[a]
Finish(a) == IF a \in Listeners THEN Idle ELSE Done

\* A session created by the merchant has no route yet, one created for a
\* subscription period has the customer's: one transaction either way.
Create(q, s) ==
    /\ flow[q] = Idle
    /\ session[s].status = "absent"
    /\ \A r \in 1..(s - 1) : session[r].status # "absent"
    /\ \E amount \in Amounts, r \in Routes \cup {NoRoute} :
         session' = [session EXCEPT ![s].status = "CREATED",
                                    ![s].amount = amount,
                                    ![s].route = r]
    /\ flow' = [flow EXCEPT ![q] = Done]
    /\ UNCHANGED <<transfer, poller, stream, used, restarts, lost, spent, paid,
                   credited, redeemed>>

\* POST /api/sessions/{id}/select: refused unless CREATED.
BeginSelect(q, s, r) ==
    /\ flow[q] = Idle
    /\ session[s].status = "CREATED"
    /\ session[s].route # r
    /\ Hold(q, [Idle EXCEPT !.step = "route", !.session = s, !.route = r])

\* GET /checkout/{id}: three transactions at most.  The first page load sets
\* payment_started_at; a later one may expire the session; a session that is
\* CREATED takes the route of the page.
BeginPage(q, s, r) ==
    /\ flow[q] = Idle
    /\ session[s].status \notin {"absent", "PAID"}
    /\ \/ /\ ~session[s].started
          /\ Hold(q, [Idle EXCEPT !.step = "start", !.session = s,
                                  !.route = r])
       \/ /\ session[s].started
          /\ session[s].clock = "late"
          /\ session[s].status \notin {"EXPIRED", "PENDING"}
          /\ Hold(q, [Idle EXCEPT !.step = "write", !.session = s,
                                  !.status = "EXPIRED"])
       \/ /\ session[s].started
          /\ session[s].clock # "late"
          /\ session[s].status = "CREATED"
          /\ session[s].route # r
          /\ Hold(q, [Idle EXCEPT !.step = "route", !.session = s,
                                  !.route = r])

\* The commit of payment_started_at; the row is then read again.
CommitStart(q) ==
    /\ flow[q].step = "start"
    /\ LET s == flow[q].session
           r == flow[q].route
       IN  /\ session' = [session EXCEPT ![s].started = TRUE]
           /\ flow' = [flow EXCEPT ![q] =
                IF session[s].status = "CREATED" /\ session[s].route # r
                THEN [@ EXCEPT !.step = "route"] ELSE Done]
    /\ UNCHANGED <<transfer, poller, stream, used, restarts, lost, spent, paid,
                   credited, redeemed>>

CommitRoute(q) ==
    /\ flow[q].step = "route"
    /\ session' = [session EXCEPT ![flow[q].session].route = flow[q].route]
    /\ flow' = [flow EXCEPT ![q] = Done]
    /\ UNCHANGED <<transfer, poller, stream, used, restarts, lost, spent, paid,
                   credited, redeemed>>

\* The status polls: GET /api/sessions/{id} looks at expires_at, GET
\* /v1/payment_sessions/{id} at the start of the payment if there is one.
BeginPoll(q, s) ==
    /\ flow[q] = Idle
    /\ session[s].status = "CREATED"
    /\ session[s].clock # "open"
    /\ Hold(q, [Idle EXCEPT !.step = "write", !.session = s,
                            !.status = "EXPIRED"])

\* The cancel handlers: the API's accepts CREATED only, the dashboard's
\* anything but PAID and EXPIRED.
BeginCancel(q, s) ==
    /\ flow[q] = Idle
    /\ session[s].status \notin {"absent", "PAID", "EXPIRED"}
    /\ Hold(q, [Idle EXCEPT !.step = "write", !.session = s,
                            !.status = "EXPIRED"])

\* The status a refund handler writes: creation needs a refundable session,
\* the revert of a cancellation a refunded one, retry and process-queued
\* take any session that has refunds.
BeginRefund(q, s, new) ==
    /\ flow[q] = Idle
    /\ session[s].status # new
    /\ \/ /\ session[s].status \in Refundable
          /\ new \in {"REFUNDED", "PARTIALLY_REFUNDED"}
       \/ /\ session[s].refunds
          /\ session[s].status \in {"REFUNDED", "PARTIALLY_REFUNDED"}
          /\ new \in Refundable
       \/ /\ session[s].refunds
          /\ new \in {"REFUNDED", "PARTIALLY_REFUNDED"}
    /\ Hold(q, [Idle EXCEPT !.step = "write", !.session = s, !.status = new])

\* The commit of a status: the UPDATE names the row only.
CommitWrite(q) ==
    /\ flow[q].step = "write"
    /\ LET new == flow[q].status
       IN  session' = [session EXCEPT
             ![flow[q].session].status = new,
             ![flow[q].session].refunds = @ \/ new \in Settled]
    /\ flow' = [flow EXCEPT ![q] = Done]
    /\ UNCHANGED <<transfer, poller, stream, used, restarts, lost, spent, paid,
                   credited, redeemed>>
-----------------------------------------------------------------------------
(***************************************************************************)
(* Coupons.  Validation compares the usage count with the limit; only a    *)
(* coupon that covers the whole amount completes a session.                *)
(***************************************************************************)
CouponValid == used < CouponLimit

\* POST /api/payment/apply-coupon: one short transaction.
ApplyCoupon(q, s) ==
    /\ flow[q] = Idle
    /\ CouponValid
    /\ session[s].status \notin {"absent", "PAID"}
    /\ session' = [session EXCEPT ![s].coupon = TRUE]
    /\ flow' = [flow EXCEPT ![q] = Done]
    /\ UNCHANGED <<transfer, poller, stream, used, restarts, lost, spent, paid,
                   credited, redeemed>>

\* POST /api/payment/complete-coupon-payment.
BeginCoupon(q, s) ==
    /\ flow[q] = Idle
    /\ session[s].status \notin {"absent", "PAID", "EXPIRED"}
    /\ CouponValid
    /\ Hold(q, [Idle EXCEPT !.step = "pay", !.session = s])
-----------------------------------------------------------------------------
(***************************************************************************)
(* Paying a session: the same steps for the coupon handler and for every   *)
(* listener.  PAID is committed; the credit is a second transaction, and   *)
(* what follows a failure of it is the same as what follows a success.     *)
(***************************************************************************)
CommitPay(a) ==
    /\ flow[a].step = "pay"
    /\ LET s == flow[a].session
           t == flow[a].transfer
       IN  /\ session' = [session EXCEPT
                ![s].status = "PAID",
                ![s].coupon = @ \/ t = NoTransfer]
           /\ paid' = [paid EXCEPT ![s] = @ + 1]
           /\ spent' = [u \in Transfers |->
                          spent[u] + (IF u = t THEN 1 ELSE 0)]
    /\ flow' = [flow EXCEPT ![a].step = "credit"]
    /\ UNCHANGED <<transfer, poller, stream, used, restarts, lost, credited,
                   redeemed>>

\* A transaction fails and is rolled back.  The handler answers an error; a
\* listener's callback catches it, and the listener has marked the transfer
\* as seen, or forgets it, all the same.
FailCommit(a) ==
    /\ flow[a].step \notin {"idle", "done", "credit"}
    /\ flow' = [flow EXCEPT ![a] = Finish(a)]
    /\ lost' = IF flow[a].step = "pay" THEN lost \cup ({flow[a].transfer} \cap Transfers)
               ELSE lost
    /\ UNCHANGED <<session, transfer, poller, stream, used, restarts, spent,
                   paid, credited, redeemed>>

\* Coupon usage is recorded by the coupon handler and by the streaming
\* listener, not by the polling ones.
Records(a) ==
    \/ a \in Requests
    \/ a = "stream" /\ session[flow[a].session].coupon

\* What follows the credit; Repeat would credit again.
Repeat(a) == flow[a]
AfterCredit(a) ==
    IF Records(a) THEN [flow[a] EXCEPT !.step = "usage"] ELSE Finish(a)

CommitCredit(a) ==
    /\ flow[a].step = "credit"
    /\ \E done \in BOOLEAN :
         credited' = [credited EXCEPT ![flow[a].session] =
                        @ + (IF done THEN 1 ELSE 0)]
    /\ flow' = [flow EXCEPT ![a] = AfterCredit(a)]
    /\ UNCHANGED <<session, transfer, poller, stream, used, restarts, lost, spent,
                   paid, redeemed>>

\* record_coupon_usage: the count is read, then written.
ReadUsage(a) ==
    /\ flow[a].step = "usage"
    /\ Hold(a, [flow[a] EXCEPT !.step = "count", !.seen = used])

CommitUsage(a) ==
    /\ flow[a].step = "count"
    /\ used' = flow[a].seen + 1
    /\ redeemed' = redeemed + 1
    /\ flow' = [flow EXCEPT ![a] = Finish(a)]
    /\ UNCHANGED <<session, transfer, poller, stream, restarts, lost, spent, paid,
                   credited>>
-----------------------------------------------------------------------------
(***************************************************************************)
(* The chains.  A customer pays the session they see, to the route it      *)
(* shows, or someone sends the merchant an unrelated transfer.             *)
(***************************************************************************)
Transact(t, route, amount, for) ==
    /\ t = Now
    /\ \E block \in BOOLEAN :
         /\ block \/ Chain[route] = "tron"
         /\ transfer' = [transfer EXCEPT ![t] =
              [state |-> IF Chain[route] = "stellar" THEN "confirmed" ELSE "sent",
               route |-> route, amount |-> amount, for |-> for,
               block |-> block]]
    /\ UNCHANGED <<session, flow, poller, stream, used, restarts, lost, spent, paid,
                   credited, redeemed>>

CustomerPays(t, s) ==
    /\ session[s].status \in {"CREATED", "PENDING"}
    /\ session[s].route # NoRoute
    /\ Transact(t, session[s].route, session[s].amount, s)

OtherTransfer(t, route, amount) == Transact(t, route, amount, NoSession)

Confirm(t) ==
    /\ transfer[t].state = "sent"
    /\ transfer' = [transfer EXCEPT ![t].state = "confirmed"]
    /\ UNCHANGED <<session, flow, poller, stream, used, restarts, lost, spent, paid,
                   credited, redeemed>>
-----------------------------------------------------------------------------
(***************************************************************************)
(* Matching a transfer to a session: among the sessions in the given       *)
(* statuses that show its route, the newest of the same amount (within 2%),*)
(* or the only one whatever its amount.                                    *)
(***************************************************************************)
Match(t, statuses) ==
    LET onRoute == {s \in Sessions : /\ session[s].status \in statuses
                                     /\ session[s].route = transfer[t].route}
        exact   == {s \in onRoute : session[s].amount = transfer[t].amount}
    IN  IF exact # {} THEN Max(exact)
        ELSE IF Cardinality(onRoute) = 1 THEN Max(onRoute)
        ELSE NoSession

\* The statuses a confirmed transfer may pay.  OnlyCreated forgets those that
\* the first detection has marked.
OnlyCreated == {"CREATED"}
Payable == {"CREATED", "PENDING"}

Took(step, t, statuses) ==
    LET s == Match(t, statuses)
    IN  IF s = NoSession THEN Idle
        ELSE [Idle EXCEPT !.step = step, !.session = s, !.transfer = t]

\* The callback of a confirmed transfer.  process_evm_payment never reaches
\* its query: it imports a name sqlalchemy.orm does not have.
Callback(t) ==
    IF ChainOf(t) = "evm" THEN Idle ELSE Took("pay", t, Payable)

\* The listeners of the process are coroutines: one may run whenever no other
\* is between its transactions.
PollerIdle == "poller" \in Listeners /\ flow["poller"] = Idle

PollerTurn(p, f) ==
    /\ poller' = p
    /\ flow' = [flow EXCEPT !["poller"] = f]
    /\ UNCHANGED <<session, transfer, stream, used, restarts, lost, spent, paid,
                   credited, redeemed>>

\* The Stellar poller looks at every recent operation it does not remember.
\* Over the cap it keeps half of a set, whichever half.
Unchanged(t) == {poller.seen}
Memory(t) ==
    LET all == poller.seen \cup {t}
    IN  IF Cardinality(all) <= SeenCap THEN {all}
        ELSE {kept \in SUBSET all : Cardinality(kept) = SeenCap \div 2}

\* NewestOnly is a cursor: what comes before it is never looked at.
NewestOnly(t) == \A u \in poller.seen : u < t
Unseen(t) == t \notin poller.seen

PollStellar(t) ==
    /\ PollerIdle
    /\ t \in Sent /\ ChainOf(t) = "stellar"
    /\ Unseen(t)
    /\ \E kept \in Memory(t) :
         PollerTurn([poller EXCEPT !.seen = kept], Callback(t))

\* A poll of chain c fetched a batch.
Fetch(c, batch, next) ==
    /\ PollerIdle
    /\ poller.next[c] = NoBatch
    /\ batch # {}
    /\ PollerTurn([poller EXCEPT !.todo[c] = batch, !.next[c] = next], Idle)

\* One address of the Tron poller: everything since the last timestamp, which
\* all addresses share.
PollTron(r) ==
    LET batch == {t \in Sent : transfer[t].route = r /\ t >= poller.cursor["tron"]}
    IN  Chain[r] = "tron" /\ Fetch("tron", batch, Max(batch) + 1)

\* One range of the EVM poller: every block since the last one.
ScanEvm ==
    Fetch("evm", {t \in Sent : ChainOf(t) = "evm" /\ t >= poller.cursor["evm"]},
          Now)

\* A transfer of the batch: paid if it has enough confirmations, else marked
\* and tracked.  The count is as old as the fetch (EVM), or is missing because
\* a request failed (Tron), so a confirmed transfer may be tracked too.
\* ZeroConf takes any transfer for confirmed.
ZeroConf(t) == transfer[t].state # "none"
Confirmed(t) == transfer[t].state = "confirmed" /\ transfer[t].block

Examine(c, t) ==
    /\ PollerIdle
    /\ t \in poller.todo[c]
    /\ \/ /\ Confirmed(t)
          /\ PollerTurn([poller EXCEPT !.todo[c] = @ \ {t}], Callback(t))
       \/ PollerTurn([poller EXCEPT !.todo[c] = @ \ {t},
                                    !.tracked = @ \cup {t}],
                     Took("mark", t, {"CREATED"}))

EndBatch(c) ==
    /\ PollerIdle
    /\ poller.next[c] # NoBatch
    /\ poller.todo[c] = {}
    /\ PollerTurn([poller EXCEPT !.cursor[c] = poller.next[c],
                                 !.next[c] = NoBatch],
                  Idle)

\* A tracked transfer has enough confirmations: it is matched anew, and no
\* longer tracked whatever its callback does.  Where the block is not known,
\* every poll counts as a confirmation: after some polls the transfer is
\* promoted whatever its chain says.
PollsCount(t) == ~transfer[t].block

Promote(t) ==
    /\ PollerIdle
    /\ t \in poller.tracked
    /\ Confirmed(t) \/ PollsCount(t)
    /\ poller.next[ChainOf(t)] = NoBatch
    /\ PollerTurn([poller EXCEPT !.tracked = @ \ {t}], Callback(t))

CommitMark(a) ==
    /\ flow[a].step = "mark"
    /\ session' = [session EXCEPT ![flow[a].session].status = "PENDING"]
    /\ flow' = [flow EXCEPT ![a] = Idle]
    /\ UNCHANGED <<transfer, poller, stream, used, restarts, lost, spent, paid,
                   credited, redeemed>>

\* The streaming listener takes operations in order; the memo names the
\* session, which must not be PAID and must have this amount.
StreamNext ==
    /\ "stream" \in Listeners
    /\ flow["stream"] = Idle
    /\ stream \in Sent
    /\ stream' = stream + 1
    /\ LET t == stream
           s == transfer[t].for
       IN  flow' = [flow EXCEPT !["stream"] =
             IF /\ ChainOf(t) = "stellar"
                /\ s # NoSession
                /\ session[s].status # "PAID"
                /\ session[s].amount = transfer[t].amount
             THEN [Idle EXCEPT !.step = "pay", !.session = s, !.transfer = t]
             ELSE Idle]
    /\ UNCHANGED <<session, transfer, poller, used, restarts, lost, spent, paid,
                   credited, redeemed>>
-----------------------------------------------------------------------------
(***************************************************************************)
(* Crashes and time.                                                       *)
(***************************************************************************)
Restart(memory, cursor, agents) ==
    /\ restarts < MaxRestarts
    /\ restarts' = restarts + 1
    /\ poller' = memory
    /\ stream' = cursor
    /\ flow' = [a \in Agents |-> IF a \in agents /\ flow[a] # Idle
                                 THEN Finish(a) ELSE flow[a]]
    /\ UNCHANGED <<session, transfer, used, lost, spent, paid, credited, redeemed>>

RestartPoller ==
    /\ "poller" \in Listeners
    /\ \E block \in 1..Now : Restart(Fresh(Now, block), stream, {"poller"})

RestartStream ==
    /\ "stream" \in Listeners
    /\ Restart(poller, Now, {"stream"})

CrashApi == \E Q \in SUBSET Requests : /\ Q # {}
                                       /\ Restart(poller, stream, Q)

Elapse(s) ==
    /\ session[s].status # "absent"
    /\ \/ /\ session[s].clock = "open"
          /\ session' = [session EXCEPT ![s].clock = "lapsed"]
       \/ /\ session[s].clock = "lapsed"
          /\ session[s].started
          /\ session' = [session EXCEPT ![s].clock = "late"]
    /\ UNCHANGED <<transfer, flow, poller, stream, used, restarts, lost, spent, paid,
                   credited, redeemed>>
-----------------------------------------------------------------------------
Handler(q) ==
    \/ \E s \in Sessions :
         \/ Create(q, s) \/ BeginPoll(q, s) \/ BeginCancel(q, s)
         \/ ApplyCoupon(q, s) \/ BeginCoupon(q, s)
         \/ \E r \in Routes : BeginSelect(q, s, r) \/ BeginPage(q, s, r)
         \/ \E new \in Settled : BeginRefund(q, s, new)
    \/ CommitStart(q) \/ CommitRoute(q) \/ CommitWrite(q)

Paying(a) == CommitPay(a) \/ CommitCredit(a) \/ ReadUsage(a) \/ CommitUsage(a)

PollerStep ==
    \/ \E t \in Transfers : PollStellar(t) \/ Promote(t)
    \/ \E r \in Routes : PollTron(r)
    \/ ScanEvm
    \/ \E c \in Polled : EndBatch(c) \/ \E t \in Transfers : Examine(c, t)
    \/ "poller" \in Listeners /\ (CommitMark("poller") \/ Paying("poller"))

StreamStep == StreamNext \/ ("stream" \in Listeners /\ Paying("stream"))

ChainStep ==
    \E t \in Transfers :
        \/ \E s \in Sessions : CustomerPays(t, s)
        \/ \E r \in Routes, amount \in Amounts : OtherTransfer(t, r, amount)
        \/ Confirm(t)

Next ==
    \/ \E q \in Requests : Handler(q) \/ Paying(q)
    \/ \E a \in Agents : FailCommit(a)
    \/ PollerStep \/ StreamStep \/ ChainStep
    \/ RestartPoller \/ RestartStream \/ CrashApi
    \/ \E s \in Sessions : Elapse(s)

Spec == Init /\ [][Next]_vars

(***************************************************************************)
(* Fairness: the listeners keep polling and finish what they began, and    *)
(* chains produce blocks.  No customer or merchant is obliged to act.      *)
(***************************************************************************)
Fairness ==
    /\ WF_vars(PollerStep)
    /\ WF_vars(StreamStep)
    /\ \A t \in Transfers : WF_vars(Confirm(t))

FairSpec == Spec /\ Fairness
-----------------------------------------------------------------------------
(***************************************************************************)
(* Properties.                                                             *)
(***************************************************************************)

\* Whatever stale statuses handlers and listeners write over each other, a
\* session reads PAID, or refunded, only if a PAID commit was made for it.
SettledWasPaid ==
    \A s \in Sessions : session[s].status \in Settled => paid[s] > 0

\* A transfer pays at most one session per life of a listener process: the
\* memory of seen operations, the cursors and the tracked set overlap
\* nowhere (as long as the memory is not cut).
SpentOncePerLife ==
    MaxTransfers <= SeenCap =>
        \A t \in Transfers : spent[t] <= Cardinality(Listeners) + restarts

\* What is being paid for, and what was: no credit without a PAID commit of
\* its own, however many agents hold the same session.
CreditsAreBacked ==
    \A s \in Sessions :
        credited[s] + Cardinality({a \in Agents : flow[a].step = "credit"
                                                /\ flow[a].session = s})
            <= paid[s]

\* Coupon usage is backed by PAID commits: no usage row without one, and the
\* usage count may fall behind the rows (two transactions that read the same
\* count) but never gets ahead of them.
UsageIsBacked ==
    /\ redeemed + Cardinality({a \in Agents : flow[a].step \in {"usage", "count"}})
         <= MapThenSumSet(LAMBDA s : paid[s], Sessions)
    /\ used <= redeemed

\* A payment that has arrived is not left lying: the listener finds the
\* confirmed transfer, or promotes it after having marked a session PENDING,
\* and then the session it was meant for is no longer open, or another session
\* of the same wallet and amount was paid with it, or the commit failed -
\* whatever the customers, the merchant and the expiry do meanwhile.
\* "Match confirmed EVM transfer to an open session and mark it PAID"
\* (app/services/blockchains/evm_listener.py); "Polls TronGrid API every 10
\* seconds for new TRC20 transfers" (docs/blockchain/BLOCKCHAIN_LISTENERS.md).
\* It holds for one Tron wallet, not for two, and for no EVM chain.
Arrived(t, s) ==
    /\ transfer[t].state = "confirmed"
    /\ transfer[t].for = s
    /\ session[s].route = transfer[t].route
    /\ session[s].status \in {"CREATED", "PENDING"}

PaymentsSettle ==
    \A t \in Transfers, s \in Sessions :
        Arrived(t, s) ~> (~Arrived(t, s) \/ spent[t] > 0 \/ t \in lost)

\* Every Stellar operation is looked at, in whatever order they are fetched
\* and however often the process restarts.
StellarIsExamined ==
    \A t \in Transfers :
        transfer[t].state = "confirmed" /\ ChainOf(t) = "stellar"
            ~> t \in poller.seen

\* A transfer its chain has confirmed, or one whose confirmations the Tron
\* listener makes up by counting its polls.
MayPay(t) == transfer[t].state = "confirmed" \/ PollsCount(t)

Promise == INSTANCE PaymentPromise WITH
    payable <- {t \in Transfers : MayPay(t)},
    shown <- {s \in Sessions : session[s].status \in Settled}

\* The subsystem implements PaymentPromise: only transfers that may pay and
\* full coupons do, only paid sessions are shown as such, only they are
\* credited.  On the chains where the listener knows the block of a transfer,
\* "may pay" is confirmed.
KeepsPromise == Promise!Spec
=============================================================================
