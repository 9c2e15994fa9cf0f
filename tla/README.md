# Verification of the Dari for Business backend

TLA+ models, model-checking configurations and machine-checked proofs for the
payment backend in this repository (FastAPI handlers, background jobs,
blockchain listeners and relayers, subscription contracts). Paths below are
relative to the repository root.

## 1. The system

Every server process runs HTTP handlers (each with its own SQLAlchemy session,
`autoflush=False`, READ COMMITTED), FastAPI background tasks on a thread pool,
APScheduler jobs, and listeners that poll block chains. They share one
PostgreSQL database and, where configured, Redis; nothing else is shared, and
no code takes a row lock across its reads (`with_for_update` is imported from
the wrong module in the one place that tries). Concurrency is therefore between
database transactions: what a handler read is stale as soon as it has read it.

| Component | State | Operations | Interacts with | What is hard | What makes it correct |
|---|---|---|---|---|---|
| Refunds (`app/routes/refunds.py`, `app/services/refund_processor.py`, `refund_scheduler.py`, `blockchain_relayer.py`) | `refunds` rows, payment status, merchant balance | create, cancel, retry, force-retry, update-address, process-queued, process-pending, scheduled pass | balance credits of the listeners, withdrawals, relayers | stale reads, several threads on one refund, crash around the transfer, lost answers | balance never overdrawn; nothing sent unless deducted, not twice, not after cancellation; COMPLETED means sent; REFUNDED means that the whole amount was asked for |
| Payment sessions and checkout (`app/routes/sessions.py`, `checkout.py`, `payments.py`) | `payment_sessions` rows | create, select token, lazy expiry, cancel, status poll | listeners, refunds, invoices, links, promo codes | expiry racing a late payment; statuses overwritten | a final status stays final; a paid session is credited once |
| Blockchain listeners (`app/services/blockchains/*`, `app/services/stellar_listener.py`) | in-memory cursors, pending confirmations, seen hashes | poll, detect, confirm, paid callback | sessions, balance credit, webhooks | crash between commits, replays, duplicates | every confirmed payment is credited exactly once |
| Withdrawals and merchant plans (`app/routes/withdrawals.py`, `subscription_management.py`) | `withdrawals` rows, the merchant's tier columns | create, cancel; upgrade, cancel, reactivate | balance, refunds | check-then-insert by several processes | limits and cooldown of the tier; what is promised is bounded by the balance |
| Web3 subscriptions (`app/services/web3_subscription_service.py`, `subscription_scheduler.py`, `gasless_relayer.py`, `mandate_service.py`, `contracts/`) | subscription rows, mandates, contract storage | authorise, charge, fail, pause, cancel | contract, relayer | database and chain disagree; charge sent, answer lost | a period is charged at most once; a cancelled mandate is not charged |
| Chain relayers (`app/services/gasless_relayer.py`, `tron_relayer.py`, `solana_relayer.py`, `soroban_relayer.py`, `blockchain_relayer.py`) | relayer rows, the local nonce of a process | estimate, send, wait, record | the chains' pools, refunds | one account and several processes; lost answers | no nonce twice, every gap has a cause, rows say what happened |
| Hosted subscriptions (`app/routes/subscriptions.py`, `subscription_checkout.py`, `app/services/subscription_billing.py`) | customers' subscriptions, their payments and sessions | subscribe, authorise, pause, collect, renew, dunning, cancel | sessions | batches loaded before requests write, late payments, trial ends | cycles are paid for, unpaid and cancelled subscriptions end |
| Invoices, payment links, payment tokens, promo codes | rows, counters, the token vault | draft, send, cancel; open; resolve; redeem | sessions, Redis, webhooks | numbers and counters under concurrency, two stores | no number or payment twice, counters and lifetimes hold |
| Team sessions and permissions (`app/routes/team*.py`, `permissions.py`, `app/core/sessions.py`, `permissions.py`) | users, sessions, login counters | login, refresh, revoke, reset, invite, accept, change role | - | up to three commits in a request, lockout counters | one session in force, none outlives a reset, a guesser is locked out |
| Merchants (`app/routes/auth.py`, `onboarding.py`, `wallets.py`, `merchant.py`, `gdpr.py`) | merchant row, wallets, a cached wallet list per process | register, onboard, add and drop wallets, rotate, erase | - | overlapping wizard steps, stale lists | a completed account can take payments |
| Infrastructure (`app/services/event_queue.py`, `webhook_service.py`, `app/core/idempotency.py`, `circuit_breaker.py`, `rate_limiter.py`, `app/services/ledger_service.py`, `state_machine.py`, `compliance_service.py`) | queue rows, keys, breaker state, windows, ledger chain, audit trail | enqueue, claim, ack, retry; check, store; call, record; append; screen | everything | claims lost by crashes, late results, concurrent appends | given up last, answered once, closed by successes, an unbroken chain |
| Prices and exchange rates, analytics (`app/services/price_service.py`, `exchange_rate_service.py`, `app/routes/analytics.py`) | caches | ask, keep, clear; query, publish | everything | two layers of caches; queries that see different states | rates and figures are recent, figures of a report agree |
| Escrow, receipts, tax, audit, administration, integrations, shell | rows and reports | see section 9 | everything | - | not modelled |

`PROJECT.json` lists every component with its files and status, and the hazards
found in the code, each at its line, with the properties that watch it.

## 2. Plan

Done:

1. **Refunds**: `Refunds`, its abstract specification `RefundPromise`, the
   instances of `MCRefunds`, the proofs of `RefundsProofs` (section 3).
2. **Payments**: `Payments` covers sessions, coupons and the listeners;
   abstract specification `PaymentPromise`; proofs in `PaymentsProofs`
   (section 4).
3. **Subscriptions on chain**: `DariSubscriptions` is the contract,
   `Web3Subscriptions` extends it with service, scheduler and relayer; abstract
   specification `SubscriptionPromise`; proofs in `Web3Proofs` (section 5).
4. **Hosted subscriptions**: `HostedSubscriptions`, instance `MCHosted`, proofs
   in `HostedProofs` (section 6).
5. **The merchant's side**: `Withdrawals`, `Invoices`, `PaymentLinks`,
   `TeamSessions`, `Team`, `Merchants`, checked side by side in `MCBusiness`,
   proofs in `BusinessProofs` (section 7).
6. **The parts that serve the others**: `EventQueue`, `Idempotency`,
   `CircuitBreaker`, `Ledger`, `Limits`, `Rates`, `Relayers`, `Analytics`,
   checked side by side in `MCPlatform`; proofs in `RelayersProofs` and
   `PlatformProofs` (section 8).

Two modules serve several: `Rows` (what a transaction writes over a row) and
`Sums` (lemmas about sums over finite sets and their induction, for the proofs
about totals and counts).

Next, in this order:

7. **Withdrawals composed with Refunds**, which leaves the pending sum arbitrary
   (`Withheld`).
8. **Contracts of the other chains** (Tron, Soroban, Solana) as instances of
   `SubscriptionPromise`.
9. **A bound on the misses for any number of processes** (section 7), and the sums
   of `PaymentsProofs` restated with those of `Sums`.

Modules that are proved about hold no RECURSIVE operator. Sums and counts are
folds or maxima; an induction is stated for a set of natural numbers
(`SetInduction` in `Sums`), which needs no operator parameter.

## 3. The refund subsystem

### What is modelled

`Refunds.tla` covers one merchant and one token: `payment` and `refund` are the
two tables, `balance` the merchant's column. A handler holds, between its two
steps, what it read and the transaction it is about to commit:

| Code | Model |
|---|---|
| `create_refund` | `BeginCreate` (checks, balance read), `CommitCreate` (insert, guarded UPDATE, commit, background task) |
| `cancel_refund` | `BeginCancel`, `Commit`; then `BeginRevert`, `Commit` for its second transaction |
| `retry_refund` | `BeginRetry`, `Commit` |
| `force_retry_refund` | `BeginForceRetry`, `Commit` |
| `update_refund_address` | `BeginUpdateAddress`, `Commit` |
| `process_queued_refunds` | `BeginProcessQueued`, `Commit` |
| UPDATE with `rowcount == 0` | `Refuse` |
| `process_refund`, `process_pending_refunds`, `run_pending_refunds_job` | `StartTask`, `StartInstantPass`, `StartScheduledPass` |
| `process_all_pending_refunds` | `Pending` (snapshot), `TooYoung`, `Skip`, `Advance` |
| `process_refund_on_chain` | `Load`, `Reject` (no address), `Mark` (PROCESSING), `Send`, `Finish` |
| relayers | `Send`: refused, accepted, or accepted with the answer lost |
| `credit_merchant_balance` | `ReadCredit`, `WriteCredit` (an absolute write) |
| time | `Elapse` (scheduler threshold, `queued_until`) |
| process crash | `Crash`: threads, handlers and background tasks of any part of the system vanish, uncommitted transactions roll back |

The session writes only the attributes that differ from what it read
(SQLAlchemy's unit of work), so a write that equals the value read leaves
whatever another transaction committed meanwhile: `Keep`, `Change`, `Write`.
The guarded UPDATE is evaluated in the commit step because it locks the
merchant's row until the commit. `sent`, `debits`, `revoked` and `readdressed`
are history variables; no guard reads them.

Not modelled: the payment-session lifecycle before PAID and the withdrawals
(an arbitrary sum in `Withheld`), webhooks, audit rows, several tokens
or merchants (their rows are disjoint), the scripts that rewrite rows by hand.

`RefundPromise.tla` is the abstract specification: refunds are held, released,
transferred and confirmed, and charges are covered by the account.

### Runs

| Run | Question | Bounds and why they are enough |
|---|---|---|
| `refund_handlers` | do handlers, a worker and a credit keep the balance, does a payment read REFUNDED only when its whole amount was asked for, and do statuses move as documented (`RefundedIsAsked`, `BalanceNeverOverdrawn`, `UnfundedOnlyByUpdateAddress`, `QueuedIsLeftForGood`) | 3 requests so that two can race after one prepared the state, 2 refunds whose sum exceeds the balance (1), amounts up to 2, one credit |
| `refund_threads` | do racing threads keep the inductive invariant, is a queued row untouched and a completed one sent, and is every behaviour one of `RefundPromise` (`IInv`, `QueuedIsUntouched`, `CompletedWasSent`, `KeepsPromise`) | 2 threads and 3 requests on one refund: every pair of races over a row |
| `refund_live` | is every PENDING refund picked up (`PendingIsPickedUp`) | 2 refunds, 2 requests, 1 worker, 1 crash; no symmetry |
| `refund_cancel_sent` | a disagreement between the documentation and the code (`CancelledIsNotSent`) | smallest instance that shows it |

`CHECK_DEADLOCK FALSE` everywhere: request slots are one-shot, so the bounded
system does stop.

Fairness (`FairSpec`): weak fairness of `Processor(w)` (the APScheduler interval
job fires for ever and a pool thread that began a pass continues it) and of
`Elapse(r)` (time passes). No fairness is assumed of requests, credits or
background tasks as such, and none of any particular step of a thread.

### Disagreements found

One is a run that expects a violation, with its lines in `PROJECT.json`: a
cancelled refund can still be sent. Seen while modelling, without a run: a
credit is an absolute write and erases a concurrent deduction
(`WriteCredit`); a refund can be sent twice by two threads;
update-address sends a lapsed queued refund that was never deducted
(`UnfundedOnlyByUpdateAddress` says that nothing else does); concurrent
creations exceed the payment, or leave it PARTIALLY_REFUNDED although together
they cover it (`RefundedIsAsked` says that the status never errs the other
way); a crash leaves a refund in PROCESSING for ever; cancelling never gives the deduction back, and retrying deducts again; the
payment status after `process-queued` ignores earlier promotions of the same
batch; the revert of a cancellation ignores other refunds in flight.

### Proofs

`RefundsProofs.tla` proves, for every value of the constants allowed by
`RefundsAssumption`:

- `Invariance`: `Spec => []IInv`;
- `TypeCorrectness` (`TypeOK`, a conjunct of `IInv`), `NeverOverdrawn`,
  `QueuedUntouched`, `CompletedSent`, `Unfunded`: the invariants of the passing
  runs;
- `Refunded`: `Spec => []RefundedIsAsked`, from `IInv` and `TxIsAsked` (a handler
  about to write REFUNDED read rows that make up the payment, counting the one it
  is about to insert): rows are never removed and keep their amounts, so what
  was read is still asked for when the write is committed. The sums over sets of
  rows come from `Sums.tla`;
- `LeftForGood`: the action property `QueuedIsLeftForGood`;
- `Refinement`: `Spec => KeepsPromise`.

None of the invariants is inductive alone, because a handler or a thread acts
on what it read earlier. `IInv` adds what they hold: `Unreached` (no task or
thread holds an absent or queued row), `Undeducted` (a platform refund never
deducted nor readdressed is absent, queued or failed, and out of reach),
`WorkerHoldsItsRefund` (a thread that remembers a hash did submit),
`DraftIsSound` and `TxIsSound` (what a pending commit may ask for). The key
case is force-retry, which deducts nothing: it starts from COMPLETED, hence
from a refund that was sent, hence (by `Undeducted`) one that was deducted or
readdressed. The proof of the step has one lemma per action; actions that only
fill a request slot share `FillSlot`, those of a thread share `WorkerStep` and
`WorkerWrite`. The refinement shows per action which abstract step it is:
creations are `Hold` or `Release`, commits `Release`, `Send` is `Transfer`,
`Finish` is `Confirm` or a step that withdraws confirmations, credits are
`Deposit`, everything else stutters.

Only model-checked: `PendingIsPickedUp` (liveness is out of the prover's reach)
and the property of
`refund_cancel_sent`.

## 4. Payment sessions, coupons and listeners

### What is modelled

`Payments.tla` covers one merchant. `session` is the `payment_sessions` table
(status, chosen token/chain/wallet as one `route`, amount, whether the page was
opened, a three-valued clock for `expires_at` and
`payment_started_at + PAYMENT_EXPIRY_MINUTES`), `transfer` the block chains.
An agent is a request or a listener process; `flow[a]` is what it has read and
is about to commit.

| Code | Model |
|---|---|
| `create_payment_session*` | `Create` |
| `select_payment_method` | `BeginSelect`, `CommitRoute` |
| `checkout_page` | `BeginPage`, then `CommitStart`, `CommitRoute` or `CommitWrite`: three commits at most |
| status polls that expire | `BeginPoll`, `CommitWrite` |
| both `cancel_payment_session` | `BeginCancel`, `CommitWrite` |
| status writes of `refunds.py` | `BeginRefund`, `CommitWrite` (the handlers themselves are in `Refunds`) |
| `apply_coupon`, `complete_coupon_payment`, `record_coupon_usage` | `ApplyCoupon`; `BeginCoupon`, `CommitPay`, `CommitCredit`, `ReadUsage`, `CommitUsage` |
| `process_stellar_payment`, `process_tron_payment` | `Match` and `Callback`, `CommitPay`, `CommitCredit` |
| `process_evm_payment` | `Callback` is empty: its first statement raises ImportError |
| `_match_session` | `Match`: newest of the right amount, else the only one |
| Stellar poller | `PollStellar`, `Unseen`, `Memory` |
| Tron poller | `PollTron`, `Examine`, `EndBatch`, `Promote`; a transfer whose block TronGrid did not tell is promoted after some polls (`PollsCount`), whatever its chain says |
| EVM poller | `ScanEvm`, `Examine`, `EndBatch`, `Promote` |
| `_mark_session_pending` | `Took("mark", ...)`, `CommitMark` |
| streaming Stellar listener | `StreamNext` and the payment steps with agent `"stream"` |
| a commit that fails and is rolled back | `FailCommit`: the listener has marked the transfer as seen, or forgets it, all the same |
| listener and server restarts | `RestartPoller`, `RestartStream`, `CrashApi` |

The polling listeners of `run_listeners.py` are coroutines of one process: no
coroutine switches between the query and the commits of a callback, so they
share one flow, but the requests and the streaming process run between any two
of its steps. A write that does not change an attribute emits no UPDATE, hence
the guards `route # r` and `status # new`. `spent`, `paid`, `credited`,
`redeemed` and `lost` (transfers whose commit of PAID failed) are history
variables. Transfers arrive in the order of their
numbers, in a window of fewer than the 20 operations (50 transfers) of a page.
Amounts within the tolerance are equal amounts. The streaming listener's wallet
(`merchants.stellar_address`) is taken to be the Stellar route's.

Not modelled: the webhook after a payment, `update_merchant_volume`, the
refresh of the watched wallets, chain reorganisations, the per-customer coupon
limit, partial discounts (they change no amount the listeners compare).

`PaymentPromise.tla` is the abstract specification: only payable transfers
(confirmed, or without a block the Tron listener could learn) and full coupons
pay, only paid sessions are shown as paid or refunded, credits
never outnumber payments.

### Runs

| Run | Question | Bounds and why they are enough |
|---|---|---|
| `payments_chains` | can stale writes make an unpaid session look paid, or credits and coupon usage outrun payments; is every behaviour one of `PaymentPromise` (`SettledWasPaid`, `CreditsAreBacked`, `UsageIsBacked`, `KeepsPromise`) | one route per chain, both listeners, 3 requests of any kind (one prepares the state, two race), one transfer whose block may be unknown on Tron, commits that may fail, one crash |
| `payments_tron_live` | is a session whose payment arrived settled, whatever stale status is written over it (`PaymentsSettle`) | 2 sessions of 1 wallet and amount, 1 transfer, 3 requests, commits that may fail; no restart, which does strand sessions |
| `payments_stellar_live` | does a transfer pay more than once per life of the poller, and is every operation looked at (`SpentOncePerLife`, `StellarIsExamined`) | 2 sessions with one wallet, 2 transfers, the memory cap at 2, one restart |

Fairness (`FairSpec`): weak fairness of `PollerStep` and `StreamStep` (both
processes loop for ever, and systemd restarts them) and of `Confirm(t)` (chains
produce blocks). The poller has finitely many steps to take between two
transfers, so fairness of the whole suffices. Requests, customers and time owe
nothing.

`PaymentsSettle` is checked where it holds (one Tron wallet). With two sessions
of one wallet and amount the transfer may settle the other one, and a commit of
PAID that fails settles nothing: the property says so, and promises that the
transfer does not lie unused otherwise. It does not hold of EVM wallets (their
payments are never booked) nor of two Tron wallets (they share a timestamp).

### Disagreements found

Seen without a run: a restarted Stellar poller starts from the newest page and
pays a second session with an old transfer, while
`docs/blockchain/BLOCKCHAIN_LISTENERS.md:512` says of the cursor that it
"Tracks progress to avoid reprocessing on restart" (`SpentOncePerLife` is what
holds); a cancellation that read a session before it was
paid overwrites PAID; `process_evm_payment` fails on its import and never pays
(`Callback` is empty for it); concurrent coupon completions credit twice and exceed the
coupon's limit; the poller ignores the memo and pays the newest session of the
wallet; a lone session is paid by any amount; the Tron timestamp hides
transfers to a second wallet; a PENDING session loses its transfer to a newer
session of the same wallet and amount; a restart of the poller strands PENDING
sessions; a Tron transfer whose block TronGrid does not tell is taken for
confirmed after as many polls as confirmations are asked for
(`tron_listener.py:302-306`), so that only confirmed transfers pay does not
hold of it; a database failure in the paid callback
(`tron_listener.py:155`) loses the transfer, which has left the pending list or
is remembered as seen, and the session stays open.

### Proofs

`PaymentsProofs.tla` proves, for every value of the constants allowed by
`PaymentsAssumption` (any number of sessions, transfers, routes, requests and
restarts; finitely many requests; either listener or both):

- `Invariant`: `Spec => []IInv`;
- `TypeCorrect`, `StatusesAreEarned`, `CreditsWereBacked`, `UsageWasBacked`,
  `SpentOnce`: the invariants of the passing runs (`TypeOK`, `SettledWasPaid`,
  `CreditsAreBacked`, `UsageIsBacked`, `SpentOncePerLife`);
- `PromiseIsKept`: `Spec => KeepsPromise`, the refinement.

A stale write is what could break each of them, so `IInv` says what an agent
holds between two transactions: it was true when it was read, and it cannot
become false because payments and confirmations only advance. The parts are
`SoundFlows` (who is about to write PAID, or a status that follows it, holds a
session that was paid; who is about to pay holds a transfer that may pay, `MayPay`),
`SoundRows`, `SoundChains`, `SoundMemory` and `SoundBooks`: for each session,
credits and the agents that still owe one are together no more than the
payments, and coupon usages and the agents that still claim one no more than
the payments of all sessions. Counting the agents at work with the books is
what makes the inequalities inductive.

`SpentOnce` needs a second invariant, `Lives`: a transfer lies before a
listener, waits in its memory, is being spent, or is behind it (`TidyMemory`,
`TakenOnce`), and the times it was spent plus the listeners that may still
spend it never exceed the lives of listeners (`Rationed`). As the property, it
is about a memory that is not cut (`MaxTransfers <= SeenCap`).

Only model-checked: `PaymentsSettle` (liveness).

## 5. Subscriptions on chain

### What is modelled

`DariSubscriptions.tla` is the Solidity contract: each function is an action
whose guard is the conjunction of its checks (a failed check reverts, so the
action is not enabled), for agreements of one interval and one token. `since`
is history. `Web3Subscriptions.tla` extends it with the servers.

| Code | Model |
|---|---|
| `createSubscription`, `executePayment`, `cancelSubscription`, `pause`/`unpause` | `CreateSubscription`, `ExecutePayment`, `CancelSubscription`, `TogglePause` |
| allowance and balance of the subscriber | `funded`, `ToggleFunds` |
| `get_signing_data`, `get_next_nonce` | `Sign`, `NextNonce` |
| `verify_and_create_mandate` and the request for the creation | `Authorize` |
| `create_subscription` after the creation | `CreationFailed`, `RecordSubscription` |
| `_execute_first_payment` | the call asked by `RecordSubscription`, then `FirstPayment` |
| `cancel_subscription` (merchant or subscriber) | `CancelRequest`, `CancelCommit` |
| `_process_cycle` | `Cycle` (`Batches`: the earliest due rows, at most `BatchSize`), `Begin` per row (skipped without an id, and still due) |
| `_execute_subscription_payment`, `_handle_payment_failure` | `Begin`, `Reload`, `Commit` with `Paid` or `Unpaid` |
| `_send_transaction` | `Refuse` (estimate fails), `Send`, `Mine` (receipt), `Fail` (no receipt, rejected) |
| a transaction nobody waits for any more | `late`, `MineLate` |
| process crash | `Crash`: the session is rolled back, a sent transaction is not |

A call is requested by a process, taken through the relayer, and its answer
decides the next step. The relayer commits the session it is handed once a
transaction was sent: that publishes the flushed mandate and expires the rows
the session holds (`CommitCaller`), so a scheduler reads its row again after
the answer (`Reload`) but works on what it loaded before when the relayer
refused. Its UPDATE writes the columns that differ from what it loaded
(`Merge`).

The relayer waits for a receipt without yielding, so inside one server process
a call is not interleaved with other coroutines; each process of the model
stands for one in a server process of its own, as the documented deployment
with four workers has them. The exception is the sleep before the first
payment, which yields in one process too.

Time is counted in half days, the retry interval. A call is over, and the rows
a scheduler loaded are used, long before the next half day: `Tick` waits for
both. Only late transactions outlive a tick.

Not modelled here: the relayer's transaction nonces (a stuck transaction is a
`Fail` whose transaction is lost or late; the nonces are in `Relayers`, section
8), `updateSubscription`, the token list and
the relayer's address (nothing in the backend calls them), `revoke_mandate`
(no caller), `max_payments` (stored, never compared), failed payment rows,
signature recovery, the other chains.

`SubscriptionPromise.tla` is the abstract specification: an agreement is
charged at most once per interval counted from its start, and never once
closed.

### Runs

| Run | Question | Bounds and why they are enough |
|---|---|---|
| `web3` | with two schedulers, a cancellation and direct calls of the contract, is the subscriber charged as promised, are the books backed, is an authorization ever orphaned by a creation that failed, is nothing suspended early | one subscription (rows share nothing but ids), two schedulers because two is what races, one late transaction; 2 half days with an interval and a grace period of 2 reach a second charge, a retry and a suspension |
| `web3_batch` | is a due row always dealt with, through a crash and beside rows that cannot be charged | starts with one running subscription that is due (`MCWeb3Batch`: every behaviour of it is the end of one of `Web3Subscriptions`), a second creation that may leave a row without an id, a batch of one row, so that one skipped row fills it |

`DueIsHandled` has an exception because the code has it: a row without an
on-chain id is skipped and stays due, and as many of them as a batch holds
starve every row due after them (`Crowded`).

With one authorize request `NextNonce` only meets its own mandate; two requests
(ids read from the contract's counter, equal nonces) are covered by the proofs,
whose `Requests` is any finite set, and not by a run: the state space of two is
too large beside the schedulers. So are crashes for the safety properties:
`web3` runs without them (they triple its states), `web3_batch` with one, and
the proofs allow any number.

`CHECK_DEADLOCK FALSE`: requests are one-shot and the clock is bounded.

Fairness (`FairSpec`): weak fairness of each scheduler with the calls it makes
(`WorkerStep`): the loop catches every exception, a crashed server is started
again by systemd, and the wait for a receipt is bounded. Nothing is assumed of
requests, of time or of late transactions.

### Disagreements found

Seen without a run: a first payment, or a scheduler that loaded the row before,
overwrites a cancellation in the database (the contract stays cancelled, so
nothing more is charged: `KeepsPromise`); a transaction that is included
after its receipt was given up charges the subscriber, but no row says so, and
the retries that the contract then refuses suspend a subscription that is paid
for; the id is read from the contract's counter and may be another's; a failed
read of it leaves a subscription that is never charged, and a hundred of those
fill every batch, so that nothing due after them is charged either; two requests may use
one nonce; a refused on-chain cancellation is not retried; `max_payments` is
not enforced; the first payment has no payment row.

### Proofs

`Web3Proofs.tla` proves, for every value of the constants allowed by
`ContractAssumption` and `Web3Assumption`:

- `Invariant`: `Spec => []IInv`;
- `TypeCorrect`: `Spec => []TypeOK`;
- `PromiseIsKept`: `Spec => KeepsPromise`, the refinement;
- `BooksInvariant`: `Spec => []BooksInv`, and from it `BooksBacked`
  (`BooksAreBacked`), `MandatesOwned` (`MandateHasOwner`) and the action property
  `PausesAreLate` (`NoEarlyPause`).

`Web3Assumption` says that the requests are finitely many and that a process is
one of a request, a cancellation or a scheduler: each has its own call.

`IInv` adds to the types that no agreement is due before as many intervals as
payments have passed since its start (`OnSchedule`): the contract stores the
next due date and not the schedule, and `SubscriptionPromise` counts charges
against the schedule, so `executePayment` is a `Charge` only because of it.
The proof splits every step in what it does to the servers' variables
(`ServerTypeOK`, one lemma per process and action) and what it does to the
contract (`ContractNext` or nothing, `IncludeStep`), and shows once, in
`ContractStep`, that the contract keeps its invariant and its promise whoever
calls it. The mandate's nonce is a maximum over a finite set; that such a
maximum exists is proved by an induction over cardinalities (`MaxOfFinite`).

`BooksInv` adds what holds between a call and the commit of its outcome.
`Slots`: a process asks for the id its row has, a loaded row is not an absent
one and has the id of the stored one, a flushed mandate has a request at work.
`Timely`: no call was sent and no failure dated before the agreement it is for,
so the time a row failed first can only be too late, whoever overwrites it:
that is `NoEarlyPause`. `Counted` and `Backed`: for each agreement, the receipts
of its rows, their first payments (which have no receipt; a ghost function `f`
says which rows counted theirs) and the processes that were told of a charge and
have not recorded it yet (`Claims`) are together no more than the charges
executed; and the total of a row is at most its receipts and its first payment,
because a scheduler adds 1 to a total it read while each commit adds a receipt.
Steps that record no payment keep this for one reason (`PlainStep`); the others
are the first payment, the scheduler's commit and the relayer's answer.

Only model-checked: `DueIsHandled` (liveness).

## 6. Hosted subscriptions

### What is modelled

`HostedSubscriptions.tla` covers one customer of one plan. `sub` is the
`subscriptions` row, `payment` and `session` its payment rows and the sessions
they point to. A request loads, decides, and holds the columns it will write
(`request[q]`, a draft) until it commits; the billing pass works through its
phases with a batch of drafts of its own (`biller`), so requests commit between
the load and the commit of a batch.

| Code | Model |
|---|---|
| `subscribe_to_plan`, `create_subscription` | `BeginSubscribe` (with or without a mandate), `BeginCreate` |
| `subscription_authorize_complete`, `subscription_authorize_rejected` | `BeginAuthorized`, `BeginRejected` |
| cancel, pause, resume, of merchant and customer | `BeginCancel`, `BeginManageCancel`, `BeginPause`, `BeginResume`, `BeginManageResume` |
| `extend_trial`, `end_trial_early` | `BeginExtendTrial`, `BeginEndTrial` |
| `collect_subscription_payment`, `manage_subscription_pay_now` | `BeginCollect`, `BeginPayNow` |
| `renew_subscription`, `handle_payment_confirmed` | `BeginRenew`, `BeginConfirm`; both count with `Renewed` |
| the customer pays a session | `Pay` |
| commit of a request | `CommitRequest`, by `Commit` |
| `process_all` | `LoadPhase` and `CommitBilled` for trials, due payments, failed payments, cancellations |

Columns assigned the value that was read are not written (`Change`); `WholeRow`,
which writes all of them, is the mutant that breaks `TrialIsGrantedOnce`.
`confirmed` is history. Editing plans, trial reminders (they write a flag only)
and the pages themselves are not modelled.

### Run

`hosted` (`HostedTypeOK` and the properties below): one subscription (rows of customers share nothing), three requests of
any kind or payment callbacks beside the pass, days 0 to 2 with a trial, a
period, a grace period and a session life of a day each, a setup fee, and one
billing cycle at most. So a trial converts, a payment falls due, is missed or
paid late, the cycle limit is reached, and two requests race with the pass.

- `CyclesWereCollected`: two confirmations, or a confirmation and a renewal, can
  lose a count but not invent one.
- `TrialIsGrantedOnce`: stale statuses revive a row, never as a trial or as one
  that awaits its first payment.
- `UnwantedEnds`: the pass cancels what is due again after a late payment, a
  resume or a stale write revived it, and drops who does not pay, although
  reminders are counted by read and write.

Fairness (`HostedFairness`): the pass is run again and again, requests are
answered, days go by. The class says of itself that it should be called
periodically; **no code of the repository calls it**, so the liveness part says
what a deployment gets that runs it.

### Disagreements found, without a run

A subscription the merchant creates without trial gets a payment row without a
session, which nobody can pay and which keeps the pass from making another;
the conversion of a trial does the same. A session that expired blocks its
period. Completing an authorization, or a late confirmation, revives a
cancelled row (until its date, if it has one). A setup fee paid during the
trial ends the trial.

### Proofs

`HostedProofs.tla` proves, for every value of the constants allowed by
`HostedAssumption` (any number of subscriptions, requests and sessions, any
plan): `HostedInvariant` (`HostedSpec => []HInv`), `HostedTypeCorrect`,
`EveryCycleWasCollected` (`CyclesWereCollected`) and the action property
`TrialsAreGrantedOnce` (`TrialIsGrantedOnce`).

A draft is committed on a row that others changed since, so `HInv` speaks of
drafts, those of requests and those of the pass's batch alike. `SoundDraft`: the
cycles a draft writes are at most those confirmed by now and the one it confirms
itself; it stays so, because confirmations only grow. `Creations`: a draft that
begins a subscription (TRIALING or PENDING_PAYMENT) is for a row that does not
exist yet, and such a row has one draft at most; every other draft leaves the
status alone or writes another one. Here it matters that a column assigned the
value that was read is not written: a request that read TRIALING and kept it
would otherwise write it back.

Only model-checked: `UnwantedEnds` (liveness).

## 7. The merchant's side

Six modules, one part each. Their handlers read, decide and commit without
waiting for anything in between (but for the price of a payment link), so a
server process works on one request at a time and has one draft; what
interleaves is several processes. `MCBusiness` checks the six side by side:
they share no variable, so its variable `focus` lets one of them move per
behaviour, which loses no behaviour of any. The processes are alike (`Alike` is
the symmetry); those of the links are not, so they are other model values.

Much of what a reader expects of this code holds **per process and not
globally**: checks and inserts are two steps and no unique key or lock closes
the gap. The properties state what does hold for any interleaving: exactly
within a process, and with a bound between them.

| Module | Code → actions | Properties | Bounds |
|---|---|---|---|
| `Withdrawals` | `create_withdrawal` → `BeginWithdraw` (`WithinLimits`, `CooledDown`, `Affordable`), `cancel_withdrawal` → `BeginCancelWithdrawal`, both → `CommitWithdrawal`; credits and refunds → `MoveBalance`; `upgrade_subscription`, `cancel_subscription`, `reactivate_subscription` of the merchant's plan → `BeginUpgrade`, `BeginCancelPlan`, `BeginReactivatePlan`, `CommitPlan` | `PromisedIsBounded`: pending amounts stay within the balance times the number of processes; `ProcessKeepsLimits`: daily limit and cooldown per process, whatever the tier becomes; `PriceFollowsTier`: what is charged is the tier's price | 2 processes, 5 requests, balance 3, two days, three tiers whose limits differ |
| `Invoices` | create, duplicate, invoice of a payment, receipt → `BeginCreateInvoice`, `BeginDuplicate`, `BeginInvoicePayment`, `BeginReceipt`; update, send, cancel → `BeginUpdateInvoice`, `BeginSend`, `BeginCancelInvoice`; `CommitInvoice` | `NumbersPerProcess`, `InvoicedOncePerProcess`, `EditsAfterSending`, `PaymentsInvoicesStayPaid` | 2 processes, 2 invoices, 3 edits |
| `PaymentLinks` | `UpdateLink`, `DeleteLink`; `open_payment_link` → `BeginOpen`, the wait for the price, `FinishOpen`; `create_payment_token`, `resolve_token` → `NewToken`, `ResolveToken`; Redis and processes fail and restart | `ViewsAreBacked`, `TokensAreFresh` | 2 overlapping opens, 2 processes, a token life of 1 of 2 ticks |
| `TeamSessions` | login, logout, forgotten, reset and changed passwords, revocation, activation, clean-up, a removed member created again (`BeginReinstate`: a new password, the old sessions stay): `Begin...`, then `CommitAccount`, `FindSeats`, `RevokeSeats`, `TakeSeat`, `AnswerReset`; `Die` between any two commits | `OneSeatPerProcess`, `ResetEndsSeats`, `LockComesInTime`: a guesser is locked out after a number of misses that lost counts raise but do not unbound | 2 processes, 4 calls, locks at 2 and 3 failures |
| `Team` | invite, create, update, remove, resend, accept → `Begin...`, `CommitMember`; custom permissions → `Decide` | `AcceptedOncePerProcess`, `DecisionsHold` | 2 processes, 5 requests, one address |
| `Merchants` | registration, Google login, the steps of onboarding, wallets, secret, erasure → `Begin...`, `CommitOrder`; `list_wallets` and its cache → `ListWallets`, `Forget` | `CompletedIsEquipped`, `OwnAnswersAreListed`: what a process answered of a wallet is in its list, but for wallets made by the onboarding or dropped by `delete_wallet`, which do not invalidate the cached list (`silent`) | 2 processes, 4 requests, two chains |

A draft writes the columns that differ from what was read; a fresh invitation or
reset token always does.

Every bound is the smallest at which each property's mutant is caught and two
processes can race after a third request prepared the state. `MaxAsked`,
`MaxCalls`, `MaxAsks`, `MaxOrders`, `MaxEdits`, `MaxInvoices`, `MaxOpened`,
`MaxMinute`, `MaxHour`, `MaxTick` cap counters that the code does not cap.

### Disagreements found, without a run

- **Withdrawals.** The fee is not part of the pending sum, so even withdrawals
  one after another can promise more than the balance. Overlapping changes of
  plan mix their columns. "Will downgrade at period end" is said, and no job
  does. Nothing in the repository executes a withdrawal.
- **Invoices.** A PATCH of the subtotal alone leaves the total; the total of a
  receipt ignores the discount; concurrent edits of tax and discount give wrong
  totals; two processes give out one number; a sent invoice has no path to PAID
  or OVERDUE; a send that was decided before revives a cancelled invoice.
- **Links and tokens.** `payment_count` and `total_collected_usd` are never
  written, so single use (`schemas.py:662`) is not enforced; overlapping opens
  lose views; a fixed link without a price is an error; the tokens of a process
  that could not reach Redis at first live only there; what a token stands for
  may be stale; revoking has no caller.
- **Team.** A refreshed access token has no session row and is never accepted;
  `create_session` passes a column that is not one; the owner's role is refused
  for new rows only (`team.py:113-128`); a reactivated member with a password
  can never accept; removing a member revokes no session, changing a password
  neither; a process that dies between the commit of a password and the
  revocation leaves the sessions; a revoked permission has no effect if the
  role has all of its category; two tables of the roles' permissions differ.
- **Merchants.** A completed account may have inactive wallets only; a step of
  onboarding can go back; `setup_wallets` and `complete_onboarding` answer with
  wallets they inserted (`onboarding.py:196-200`, `248-255`, `420-433`) and leave
  the cached list, so a later listing may lack them; `delete_wallet` leaves it
  too, and lists of other processes stay; Google login ignores `is_active` when it links; the
  erasure looks for team sessions by the merchant's id and finds none; of two
  concurrent rotations of the secret one is lost.

### Proofs

`BusinessProofs.tla` proves the properties of the six modules for any number of
processes and requests, each from an inductive invariant of its own, and for
their composition (`BusinessInvariant`, `BusinessTypeCorrect`):

| Module | Theorems | The invariant |
|---|---|---|
| `Merchants` | `MerchantInvariant`, `AccountsHoldAlways` | `MInv`: an order sets only what is never unset, and completes the onboarding with what equips it; what a process answered is no newer than the wallet, and in its list unless `silent` |
| `Team` | `MemberInvariant`, `MembersHoldAlways` | `TInv`: an acceptance a process drafted is its first and sets the password, and an address that accepted has one |
| `PaymentLinks` | `LinkInvariant`, `LinksHoldAlways` | `LInv`: views a request read were opened; a token lives from when it was made |
| `Invoices` | `InvoiceInvariant`, `InvoicesHoldAlways` | `NInv`: a clerk's draft has a number above all its own rows; late edits of a sent row and the edits still to be committed are fewer than the processes |
| `Withdrawals` | `WithdrawalInvariant`, `WithdrawalsHoldAlways` | `WInv`: a draft fits the limits and the balance with the rows of its own process, and carries the price of its tier |
| `TeamSessions` | `SeatInvariant`, `SeatsOfOneProcess`, `SeatsHoldWithTwo` | `SInv`: a process that revoked has no session, and its password is one it answered for or a later one; `KInv`: misses and those that may still go uncounted fit the bound |

A draft speaks of the rows of its own process: nobody else writes in its name,
so what was true of them when it decided is true when it commits. Sums over
withdrawals and counts of rows are unfolded with `Sums`.

`SeatsHold` contains `LockComesInTime`, which is proved under the assumption
that there are at most two server processes (`TwoDoors`; the deployment the run
checks has two): its bound is the one that two counters that overwrite each
other reach, and with more the number of lost counts is higher. The other two
parts hold for any number (`SeatsOfOneProcess`). The assumptions on the constants
(`MerchantAssumption`, `MemberAssumption`, `LinkAssumption`, `InvoiceAssumption`,
`WithdrawalAssumption`, `TeamAssumption`) say that bounds are numbers, that
durations are positive where the code has constants, and that sets which are
counted are finite.

## 8. The parts that serve the others

Eight modules, checked side by side in `MCPlatform` with a `focus` as in
section 7 (`Ledger` counts twice: its ledger and its screening share nothing).
Several of these services have no caller in the repository yet (event queue,
idempotency, circuit breaker, ledger, state machine, compliance): the model
runs them as their docstrings say they are meant to be called.

| Module | Code → actions | Properties | Bounds |
|---|---|---|---|
| `EventQueue` | `get_pending_*` → `Fetch`; `mark_processing` → `MarkProcessing`; `mark_completed`, `mark_failed`, `mark_delivered` → `Finish`; each commit → `CommitRow`; time → `FallDue`; `Crash`; `send_webhook` → `Send`, `Post`; resending → `Resend` | `GivesUpLast`, `LeftOnlyByCrash`, `PostsAreBounded`, `DeliveryEnds` (liveness) | 2 workers, 3 attempts, 1 crash, 1 caller |
| `Idempotency` | `dispatch` → `Look`, `Insert` (after the wait for the body), `Handle`, `Save`, `Fail`, `Vanish`; expiry → `Expire`; the pair of functions likewise (`way`) | `AnsweredOnce`, `BusyKeyHasWorker` | 3 requests: one that holds the key, two that race for it; 3 rows |
| `CircuitBreaker` | `call` → `StartCall`, `Succeed`, `FailCall`; `reset` → `ResetBreaker`; recovery time → `Waited` | `ClosedByProof`: an open breaker closes by as many successes as the threshold asks for, all of calls made since it let calls through again (`trial`) but for at most one of each call that was under way then (`before`); `Recovers` (liveness) | 3 calls at a time, thresholds of 2 |
| `Ledger` | `record_entry` → `Record`, `verify_chain_integrity` → `Verified`, `transition_payment` → `TransitionPayment`, transactions → `Open`, `Close`; edits of rows → `Tamper`; `run_compliance_screening` → `Screen` | `HonestChainVerifies`, `TamperIsSeen`, `TrailLeadsToStatus`, `ScreeningIsWorst` | 2 transactions, 3 records, every combination of levels |
| `Limits` | `check_rate_limit` with `_cleanup` → `Ask`; time → `PassTime` | `WindowsHold` | 2 routes with one store; ages up to a window and one more |
| `Rates` | `get_fiat_rate`, `get_rate` → `AskPrice`, `SharedHit`, `MemoryHit`, `Miss`; providers → `Provided`, `NotProvided`; `clear_cache` → `ClearRates`; time → `GrowOld` | `RatesAreRecent` | 2 processes, 2 providers, ages up to 4, more than both lives together |
| `Relayers` | `_get_nonce` → `TakeNonce`; `_send_transaction` → `FailEstimate`, `SendEvm`, `Conclude`, `StopWaiting`; the refund of Polygon → `SendRefund`; Tron, Solana, Stellar → `BeginTron`, `BeginSolana`, `BeginStellar`, `SubmitInThread`; chain → `MineTx`, `DropTx` (expired, or put out of an EVM pool, which frees the nonce); `CrashRelay` | `GapIsAccounted`, `NoncesAreFresh`, `RelaysAreRecorded` | 2 processes, 3 transactions that may meet on the EVM account, on the Stellar account or not at all, 1 crash |
| `Analytics` | each query of `get_analytics_overview`, `get_conversion_metrics`, `get_mrr_arr` → `RunQuery`; the cache → `Publish`; rows that change meanwhile → `Appear`, `MoveItem` (with the dates the code writes or leaves, `DatesOf`), a cancellation at the end of the period, dated when it is asked for → `RequestEnd`; the months of `get_mrr_trend` → `TrendMonth`, `TrendEnd` | `OverviewAddsUp`, `OpenReportsAddUp`, `BoardIsRecent`, `TrendIsMonthly` | one row, because every conjunct is about one row and rows do not depend on each other; one viewer; every month of four years |

A run checks the properties in groups: `QueueSafe`, `GuardsHold`
(idempotency, breaker, limits), `RecordsHold` (ledger, screening, rates,
reports), `RelayersHold`, `PlatformSettles` (the two liveness properties).

Fairness is stated for the component that moves only. `QueueFair`: consumers
that are alive go on and time passes; a worker's crash is never owed.
`BreakerFair`: calls return (they have timeouts), the recovery time passes and
somebody goes on calling. A delivery ends although workers crash and overwrite
each other; **an event does not**: after a crash it stays `processing`, which
is why `DeliveryEnds` is about deliveries and `LeftOnlyByCrash` says that
nothing else leaves an event so. In `BoardIsRecent` the cached report is older
than its time to live by the time it took to compute.

### Proofs

`RelayersProofs.tla` and `PlatformProofs.tla` prove the safety properties of the
eight modules for any number of processes, requests and rows, and for their
composition: `PlatformInvariant`, `PlatformTypeCorrect`, `QueueIsSafe`,
`GuardsAlwaysHold`, `RecordsAlwaysHold`, `RelayersAlwaysHold` (the groups of the
run), from

- **`QInv`** (`QueueInvariant`): the attempts a draft writes are backed by runs
  that happened. Deliveries are counted after the work and events before it, so
  the consumers at work are counted apart (`Uncounted`), which needs finitely
  many consumers;
- **`AInv`** (`KeyInvariant`): by the middleware, whoever works under a key owns
  its row, alone, and an answer is kept;
- **`CInv`** (`BreakerInvariant`): half open, the successes counted are those of
  calls of the trial and those of the calls under way when it began that have
  come back since (`ProofOfWins`); each of these comes back once;
- **`GInv`** (`LedgerInvariant`): as long as no two transactions cross, rows are
  chained in the order of their dates (`InTurn`), and an edit of one breaks the
  chain; a screening is the worst of what it looked at;
- **`LInv`**: requests within a window, as counts per age, are those admitted
  within it, since what is cleaned up is older than every window;
- **`XInv`**: what is remembered is at most its two lives old (`RateTTL` is
  positive, as the code's constants are);
- **`VInv`** (`ReportInvariant`): queries of one report that run at different
  times see rows that moved meanwhile, but a row that one query saw is, for the
  later ones, where the code's conditions put it, unless its status has changed
  since the report was asked for (`moved`, which no column tells: a cancellation
  at the end of the period keeps the date of the request);
- **`YInv`** (`RelayInvariant`): every nonce between the account's and any that
  was taken is held by a transaction or was lost, before it was sent or out of the pools (`CoverSays`), a process's next
  nonce is past all it took (`LocalSays`), and the account's nonce is the number
  of transactions executed (`CountsSay`).

`TrendShowsMonths` proves `TrendIsMonthly` for every month from the third year
of the calendar on, not only those the run evaluates: the first days of months
are a recursive function that `SetInduction` unfolds, the number of leap years is
monotone, and a step of 30 days stays in the month or goes to the one before.

Only model-checked: `PlatformSettles` (liveness).

### Disagreements found, without a run

- **Queues.** Stale writes let a row be worked on more often than it counts.
- **Idempotency.** A key that expired or failed is answered with an error, as
  `_handle_existing_key` returns nothing for it; the key is unique globally but
  looked up per merchant; the functions run unprotected after an expiry; a
  failed save leaves 409 until the expiry; the hash of the request is stored
  and never compared. The middleware is not installed.
- **Circuit breaker.** Half open it lets any number of calls through, and counts
  every success, so that calls made before it opened may close it although no
  call since has succeeded (`circuit_breaker.py:120-128`).
- **Ledger.** Concurrent transactions fork the chain; an amount with fewer than
  eight decimals does not verify once read back; `balance_after` and the
  description are not hashed. The docstring of `state_machine.py` omits
  transitions from PENDING that the table allows.
- **Limits.** They are per process; the middleware of `rate_limiter.py` is not
  installed; the key is taken from a header the client sends; a decorated
  function without a request is not limited.
- **Rates.** The rate 1 that stands for "none" is kept for an hour; processes
  may serve different rates; `clear_cache` leaves the price cache.
- **Relayers.** A nonce is lost when an estimate or a send fails; refunds on
  Polygon leave the same account with the count of "latest" and can collide
  with or replace a charge; a receipt that comes too late leaves FAILED;
  Solana's CONFIRMED does not mean success when details are missing; Stellar's
  REVERTED may mean that the polls ended; a crash loses the flushed row;
  `StellarRelayer.send_refund` names an exception that is only imported in its
  fallback branch.
- **Analytics.** `get_mrr_trend` ("MRR trend over past N months") steps back by
  30 days, so from March to May one month is missing and another shown twice;
  the conversion and MRR reports have no end of period; neighbouring periods
  share their boundary; MRR compares plan amounts with payments; refunded
  sessions drop out of the volume; past months count subscriptions by their
  status of today; a subscription cancelled at the end of its period has the date
  of the request, so a report whose queries run before and after the change of
  status counts it as active and as churned, and one that begins after it may
  count it in no period at all when it was asked for before that period.

## 9. Limits of the development

Every invariant, action property and refinement of the passing runs is proved
for every value of the constants (`LockComesInTime` for at most two processes).
Only model-checked: the liveness properties `PendingIsPickedUp`,
`PaymentsSettle`, `DueIsHandled`, `UnwantedEnds` and `PlatformSettles`, because
liveness under fairness is out of the prover's reach, and the violation that
`refund_cancel_sent` shows. The proofs take nothing on trust but the assumptions
on the constants, which TLC evaluates for the instances it runs.

Assumed of the environment: a database commit succeeds but where a module says
otherwise (`FailCommit` of `Payments`, the crashes); in `Relayers` the commit of
a relayer row does, so a row is missing only after a crash. Chains do not reorganise.

Not modelled:

- **Escrow** (`app/routes/escrow.py`): its handlers cannot change state.
  Creation reads an attribute of a dictionary and always answers 400, release
  and the administrator's refund always answer 501; the contract is not in the
  repository.
- **Receipts, transactions, tax, audit**: they read the tables and render them,
  or append to a log nobody reads back.
- **Administration and integrations**: wrappers and lookups; the one trigger
  that changes state is `StartInstantPass` of `Refunds`.
- **Public endpoints of sessions and payer data**: each writes one row once and
  reads nothing it depends on.
- **The remaining reports**: revenue over time, summary, by chain, tracking of
  one record. They are single queries.
- **Stablecoin prices, precision, formatting of amounts and documents**; tokens
  and passwords of merchants (pure functions); the time of a user's last
  activity; refresh of watched wallets and reconnection delays.
- **Contracts on Tron, Soroban and Solana**: they follow the rules of
  `DariSubscriptions` in other languages; see the plan.
- **Application shell, schemas, templates, scripts**: declarations and I/O. The
  columns a module uses are mapped where it uses them.

Rows of different merchants, tokens, customers, links and members share nothing
but ids in every module, which is why one or two of each are enough.
