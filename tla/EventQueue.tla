------------------------------ MODULE EventQueue ------------------------------
(***************************************************************************)
(* The two persistent queues (app/services/event_queue.py) and the webhook *)
(* that is sent at once (app/services/webhook_service.py).                 *)
(*                                                                         *)
(* A row is an event, which a consumer marks as processing before it works *)
(* on it, or a webhook delivery, which it does not.  The repository has    *)
(* the operations but no consumer: consumers here call them in the order   *)
(* they are written for.  Each operation reads the row and commits the     *)
(* columns that differ, and consumers are of different processes.          *)
(***************************************************************************)
EXTENDS Integers, FiniteSets, Rows

CONSTANTS
    Consumers,     \* whoever works on the rows
    MaxRetries,    \* MAX_RETRIES
    MaxCrashes,    \* bound on crashes
    Callers,       \* tasks that send a webhook at once
    RetryLimit     \* WEBHOOK_RETRY_LIMIT

ASSUME QueueAssumption ==
    {MaxRetries, RetryLimit} \subseteq Nat \ {0} /\ MaxCrashes \in Nat /\ IsFiniteSet(Consumers)

VARIABLES
    row,       \* events or webhook_deliveries: the row
    consumer,  \* what each consumer does with it
    crashes,   \* crashes so far
    runs,      \* history: how often somebody worked on the row
    sending    \* send_webhook: the recursion of each caller

queueVars == <<row, consumer, crashes, runs, sending>>
-----------------------------------------------------------------------------
\* "success" and "completed" are one state; waiting: scheduled_for or
\* next_retry is in the future.
QueueRow == [kind: {"event", "delivery"}, status: {"pending", "processing", "completed", "failed"},
             attempts: Nat, waiting: BOOLEAN]
NoColumn == [c \in {} |-> 0]
Resting == [at |-> "rest", set |-> NoColumn]

\* A call: how many retries it counted, and its posts (history).
Calling == [state: {"idle", "post", "answered", "given up"}, retry: Nat, posts: Nat]

\* The row, the consumers and the calls keep their types.
QueueTypeOK ==
    /\ row \in QueueRow
    /\ \A w \in Consumers :
         /\ consumer[w].at \in {"rest", "fetched", "marking", "working", "finishing"}
         /\ DOMAIN consumer[w].set \subseteq DOMAIN row
    /\ crashes \in 0..MaxCrashes /\ runs \in 0..MaxRetries
    /\ sending \in [Callers -> Calling]

\* create_event, for now or for later; create_delivery.
CreatedEvent == [kind: {"event"}, status: {"pending"}, attempts: {0}, waiting: BOOLEAN]
CreatedDelivery == [kind: {"delivery"}, status: {"pending"}, attempts: {0}, waiting: {FALSE}]

QueueInit ==
    /\ row \in CreatedEvent \union CreatedDelivery
    /\ consumer = [w \in Consumers |-> Resting]
    /\ crashes = 0
    /\ runs = 0
    /\ sending = [s \in Callers |-> [state |-> "idle", retry |-> 0, posts |-> 0]]
-----------------------------------------------------------------------------
\* get_pending_events, get_pending_deliveries
Pending == row.status = "pending" /\ row.attempts < MaxRetries

\* Lost counts let a row be worked on more often than that.
OneRunMore == IF runs < MaxRetries THEN runs + 1 ELSE runs

Fetch(w) ==
    /\ consumer[w] = Resting
    /\ Pending /\ ~row.waiting
    /\ consumer' = [consumer EXCEPT ![w].at = IF row.kind = "event" THEN "fetched" ELSE "working"]
    /\ runs' = IF row.kind = "event" THEN runs ELSE OneRunMore
    /\ UNCHANGED <<row, crashes, sending>>

\* The columns of set that differ from the row; a new time always does.
Changing(set) == [c \in {c \in DOMAIN set : c = "waiting" \/ set[c] # row[c]} |-> set[c]]

Draft(w, at, set) == [consumer EXCEPT ![w] = [at |-> at, set |-> Changing(set)]]

Marked == [status |-> "processing", attempts |-> row.attempts + 1]

\* mark_processing refuses a row that is not pending any more.
MarkProcessing(w) ==
    /\ consumer[w].at = "fetched"
    /\ consumer' = IF row.status = "pending" THEN Draft(w, "marking", Marked)
                   ELSE [consumer EXCEPT ![w] = Resting]
    /\ UNCHANGED <<row, crashes, runs, sending>>

\* mark_completed, mark_delivered
Done == IF row.kind = "event" THEN [status |-> "completed"]
        ELSE [status |-> "completed", attempts |-> row.attempts + 1]

\* An event counted its attempt when it was marked, a delivery does now.
Attempts == IF row.kind = "event" THEN row.attempts ELSE row.attempts + 1

\* An event goes back to pending; a delivery has never left it.
RetryLater ==
    IF row.kind = "event" THEN [status |-> "pending", waiting |-> TRUE]
    ELSE [attempts |-> Attempts, waiting |-> TRUE]

\* Mutant: the last attempt is given away.
FailedEarly ==
    IF Attempts + 1 >= MaxRetries THEN [status |-> "failed", attempts |-> Attempts] ELSE RetryLater

\* Mutant: used up attempts only end the fetching.
NeverFailed == RetryLater

\* mark_failed
Failed ==
    IF Attempts >= MaxRetries THEN [status |-> "failed", attempts |-> Attempts] ELSE RetryLater

Finish(w) ==
    /\ consumer[w].at = "working"
    /\ \E set \in {Done, Failed} : consumer' = Draft(w, "finishing", set)
    /\ UNCHANGED <<row, crashes, runs, sending>>

CommitRow(w) ==
    /\ consumer[w].at \in {"marking", "finishing"}
    /\ row' = Overlay(consumer[w].set, row)
    /\ runs' = IF consumer[w].at = "marking" THEN OneRunMore ELSE runs
    /\ consumer' = [consumer EXCEPT ![w] =
         IF @.at = "marking" THEN [at |-> "working", set |-> NoColumn] ELSE Resting]
    /\ UNCHANGED <<crashes, sending>>

\* The delay of RETRY_DELAYS has passed.
FallDue ==
    /\ row.waiting
    /\ row' = [row EXCEPT !.waiting = FALSE]
    /\ UNCHANGED <<consumer, crashes, runs, sending>>

Crash(w) ==
    /\ crashes < MaxCrashes /\ consumer[w] # Resting
    /\ crashes' = crashes + 1
    /\ consumer' = [consumer EXCEPT ![w] = Resting]
    /\ UNCHANGED <<row, runs, sending>>
-----------------------------------------------------------------------------
(***************************************************************************)
(* send_webhook, send_refund_webhook: a recursion of posts; an answer that *)
(* is not 2xx, a timeout and any other error are retried alike.            *)
(***************************************************************************)
Send(s) ==
    /\ sending[s].state = "idle"
    /\ sending' = [sending EXCEPT ![s] = [state |-> "post", retry |-> 0, posts |-> 0]]
    /\ UNCHANGED <<row, consumer, crashes, runs>>

Retried(c) == IF c.retry < RetryLimit - 1 THEN [c EXCEPT !.retry = @ + 1]
              ELSE [c EXCEPT !.state = "given up"]

Post(s) ==
    /\ sending[s].state = "post"
    /\ \E c \in {[sending[s] EXCEPT !.posts = @ + 1]} :
         sending' \in {[sending EXCEPT ![s] = [c EXCEPT !.state = "answered"]],
                       [sending EXCEPT ![s] = Retried(c)]}
    /\ UNCHANGED <<row, consumer, crashes, runs>>

\* An administrator sends it again (retry_webhook).
Resend(s) ==
    /\ sending[s].state \in {"answered", "given up"}
    /\ sending' = [sending EXCEPT ![s] = [state |-> "post", retry |-> 0, posts |-> 0]]
    /\ UNCHANGED <<row, consumer, crashes, runs>>

QueueStep(w) == Fetch(w) \/ MarkProcessing(w) \/ Finish(w) \/ CommitRow(w)

QueueNext ==
    \/ \E w \in Consumers : QueueStep(w) \/ Crash(w)
    \/ FallDue
    \/ \E s \in Callers : Send(s) \/ Post(s) \/ Resend(s)

\* Consumers that are alive go on, and time passes.
QueueFair ==
    /\ \A w \in Consumers : WF_queueVars(QueueStep(w))
    /\ WF_queueVars(FallDue)
-----------------------------------------------------------------------------
\* A row is given up only after somebody has worked on it MaxRetries times,
\* however the consumers' writes cross.  (event_queue.py: mark_failed)
GivesUpLast == row.status = "failed" => runs >= MaxRetries

\* An event that nobody works on is not left in processing, unless a consumer
\* died: no operation looks for such events.  (event_queue.py: mark_processing)
LeftOnlyByCrash ==
    row.kind = "event" /\ row.status = "processing" /\ (\A w \in Consumers : consumer[w] = Resting)
        => crashes > 0

\* One call of send_webhook posts at most WEBHOOK_RETRY_LIMIT times.
PostsAreBounded == \A s \in Callers : sending[s].posts <= RetryLimit

\* Every delivery ends, delivered or given up, whatever the consumers lose.
\* Events do not: see README.  (get_pending_deliveries, mark_failed)
DeliveryEnds == row.kind = "delivery" => <>[](row.status \in {"completed", "failed"})
=============================================================================
