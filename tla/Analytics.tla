------------------------------ MODULE Analytics ------------------------------
(***************************************************************************)
(* The merchant's figures (app/routes/analytics.py).  A report writes      *)
(* nothing but the cache of its process, and reads the tables in one query *)
(* after another: each sees what is committed when it runs, and between    *)
(* two of them others pay, expire, refund and cancel, at the latest while  *)
(* a conversion of amounts waits for a rate.                               *)
(*                                                                         *)
(* An item is a row of a table the reports read.  Its times are those of   *)
(* its commits.  A figure is the set of the items it counts or adds up.    *)
(* The reports have their tables in common, but nothing they change: a     *)
(* behaviour is about one of them.                                         *)
(***************************************************************************)
EXTENDS Integers, Sequences, Rows

CONSTANTS
    Items,       \* rows
    Viewers,     \* requests at a time, of one merchant to one process
    Span,        \* length of the period
    BoardTime,   \* time to live of the region "analytics"
    LastTick,    \* bound on the time
    MaxMoves,    \* bound on the changes of a row after its creation
    Months       \* months since some January for which a trend is asked

ASSUME AnalyticsAssumption ==
    /\ {Span, BoardTime} \subseteq Nat \ {0} /\ {LastTick, MaxMoves} \subseteq Nat
    /\ Months \subseteq Nat /\ \A m \in Months : m >= 24

VARIABLES
    item,     \* the rows
    report,   \* the report that is asked for
    viewer,   \* what each request has read so far
    board,    \* the cached report
    tick      \* time

reportVars == <<item, report, viewer, board, tick>>
-----------------------------------------------------------------------------
Ticks == 0..LastTick
Never == -1

\* How a row of each kind may change.  A status may be written over a newer
\* one (Payments), and a cancelled subscription may come back
\* (HostedSubscriptions).  FAILED stands for EXPIRED too.
MovesOf == [
    session |-> {<<"open", "PAID">>, <<"open", "FAILED">>, <<"PAID", "FAILED">>,
                 <<"FAILED", "PAID">>, <<"PAID", "REFUNDED">>},
    invoice |-> {<<"open", "PAID">>},
    billing |-> {<<"open", "PAID">>, <<"PAID", "REFUNDED">>},
    subscription |-> {<<"open", "CANCELLED">>, <<"CANCELLED", "open">>}]

\* made: created_at or sent_at; ended: paid_at or cancelled_at; moved is no
\* column: when the status changed last.
Item == [kind: DOMAIN MovesOf, status: {"absent", "open", "PAID", "FAILED", "REFUNDED", "CANCELLED"},
         made: Ticks \union {Never}, ended: Ticks \union {Never}, moved: Ticks \union {Never},
         token: BOOLEAN, moves: 0..MaxMoves]

Cached == {"overview", "mrr"}
NoFigure == [q \in {} |-> {}]
Looking == [reading |-> FALSE, now |-> 0, since |-> 0, done |-> 0, got |-> NoFigure]

\* Rows, reports and the cache keep their types.
ReportTypeOK ==
    /\ item \in [Items -> Item] /\ tick \in Ticks
    /\ \A v \in Viewers : \A q \in DOMAIN viewer[v].got : viewer[v].got[q] \subseteq Items
    /\ board.kept \in 0..BoardTime /\ board.took \in Ticks

ReportInit ==
    /\ item \in [Items -> {i \in Item :
                             i.status = "absent" /\ i.made = Never /\ i.ended = Never /\ i.moved = Never
                             /\ i.moves = 0 /\ (i.kind = "session" \/ ~i.token)}]
    /\ viewer = [v \in Viewers |-> Looking]
    /\ board = [now |-> 0, kept |-> BoardTime, took |-> 0]
    /\ tick = 0 /\ report \in {"overview", "conversion", "mrr"}
-----------------------------------------------------------------------------
\* The queries.

\* Mutant: whatever has been created since.
MadeSince(kind, from, to) ==
    {i \in Items : item[i].kind = kind /\ item[i].made >= from /\ item[i].made # Never}

\* created_at >= from, created_at <= to
MadeIn(kind, from, to) ==
    {i \in Items : item[i].kind = kind /\ item[i].made \in from..to /\ item[i].made # Never}

EndedIn(kind, status, from, to) ==
    {i \in Items : item[i].kind = kind /\ item[i].status = status /\ item[i].ended \in from..to}
Having(rows, statuses) == {i \in rows : item[i].status \in statuses}

\* get_payment_metrics
PaymentMetrics(from, to) ==
    LET made == MadeIn("session", from, to)
    IN  [total |-> made, paid |-> Having(made, {"PAID"}), failed |-> Having(made, {"FAILED"}),
         volume |-> Having(made, {"PAID"})]

\* get_volume_by_token; get_volume_by_chain
VolumeByToken(from, to) == {i \in PaymentMetrics(from, to).paid : item[i].token}
VolumeByChain(from, to) == {i \in PaymentMetrics(from, to).paid : item[i].token}

\* get_invoice_metrics
InvoiceMetrics(from, to) ==
    [sent |-> MadeIn("invoice", from, to), paid |-> EndedIn("invoice", "PAID", from, to),
     volume |-> EndedIn("invoice", "PAID", from, to)]

\* get_subscription_metrics
SubscriptionMetrics(from, to) ==
    [active |-> Having(MadeIn("subscription", 0, LastTick), {"open"}),
     new |-> MadeIn("subscription", from, to),
     churned |-> EndedIn("subscription", "CANCELLED", from, to),
     mrr |-> EndedIn("billing", "PAID", from, to)]

\* get_analytics_overview
Overview(now) == [
    current |-> PaymentMetrics(now - Span, now),
    previous |-> PaymentMetrics(now - 2 * Span, now - Span),
    volume |-> [token |-> VolumeByToken(now - Span, now), chain |-> VolumeByChain(now - Span, now)],
    invoices |-> InvoiceMetrics(now - Span, now),
    subscriptions |-> SubscriptionMetrics(now - Span, now)]

\* get_conversion_metrics: no end.
Conversion(now) ==
    LET made == MadeIn("session", now - Span, LastTick)
    IN  [conversion |-> [total |-> made, completed |-> Having(made, {"PAID"}),
                         expired |-> Having(made, {"FAILED"}), times |-> Having(made, {"PAID"})]]

\* get_mrr_arr: what is due, not what was paid; no end either.
MrrArr(now) == [mrr |-> [
    active |-> SubscriptionMetrics(0, 0).active,
    new |-> MadeIn("subscription", now - Span, LastTick),
    churned |-> EndedIn("subscription", "CANCELLED", now - Span, LastTick),
    before |-> EndedIn("billing", "PAID", now - 2 * Span, now - Span - 1)]]

QueriesOf == [
    overview |-> <<
        <<"current", "total">>, <<"current", "paid">>, <<"current", "failed">>, <<"current", "volume">>,
        <<"previous", "total">>, <<"previous", "paid">>, <<"previous", "failed">>,
        <<"previous", "volume">>, <<"volume", "token">>, <<"volume", "chain">>,
        <<"invoices", "sent">>, <<"invoices", "paid">>, <<"invoices", "volume">>,
        <<"subscriptions", "active">>, <<"subscriptions", "new">>,
        <<"subscriptions", "churned">>, <<"subscriptions", "mrr">>>>,
    conversion |-> <<
        <<"conversion", "total">>, <<"conversion", "completed">>, <<"conversion", "expired">>,
        <<"conversion", "times">>>>,
    mrr |-> <<<<"mrr", "active">>, <<"mrr", "new">>, <<"mrr", "churned">>, <<"mrr", "before">>>>]

FigureOf(q, now) ==
    (IF report = "overview" THEN Overview(now)
     ELSE IF report = "mrr" THEN MrrArr(now) ELSE Conversion(now))[q[1]][q[2]]
-----------------------------------------------------------------------------
\* While a report is cached it is returned as it is.
StartReport(v) ==
    /\ ~viewer[v].reading
    /\ report \in Cached => board.kept = BoardTime
    /\ viewer' = [viewer EXCEPT ![v] = [Looking EXCEPT !.reading = TRUE, !.now = tick, !.since = tick]]
    /\ UNCHANGED <<item, report, board, tick>>

Complete(v) == viewer[v].reading /\ viewer[v].done = Len(QueriesOf[report])

\* get_mrr_arr looks at the clock after its first query.
RunQuery(v) ==
    /\ viewer[v].reading /\ ~Complete(v)
    /\ LET r == viewer[v]
           q == QueriesOf[report][r.done + 1]
           now == IF q = <<"mrr", "new">> THEN tick ELSE r.now
       IN  viewer' = [viewer EXCEPT ![v] = [r EXCEPT !.now = now, !.done = @ + 1,
                                                     !.got = Overlay(@, [x \in {q} |-> FigureOf(x, now)])]]
    /\ UNCHANGED <<item, report, board, tick>>

Publish(v) ==
    /\ Complete(v)
    /\ viewer' = [viewer EXCEPT ![v] = Looking]
    /\ board' = IF report \in Cached
                THEN [now |-> viewer[v].now, kept |-> 0, took |-> tick - viewer[v].since] ELSE board
    /\ UNCHANGED <<item, report, tick>>

Appear(i) ==
    /\ item[i].status = "absent"
    /\ item' = [item EXCEPT ![i].status = "open", ![i].made = tick]
    /\ UNCHANGED <<report, viewer, board, tick>>

\* Which date a row may have when its status becomes this one.  Who cancels a
\* subscription at once dates it now; at the end of the period, or when a
\* newer status is written over, it keeps the date it has.
DatesOf(i, status) ==
    IF status = "PAID" THEN {tick}
    ELSE IF status = "CANCELLED" THEN {tick, item[i].ended} \ {Never}
    ELSE {item[i].ended}

MoveItem(i) ==
    /\ item[i].moves < MaxMoves
    /\ \E m \in MovesOf[item[i].kind] : \E date \in DatesOf(i, m[2]) :
         /\ m[1] = item[i].status
         /\ item' = [item EXCEPT ![i].status = m[2], ![i].ended = date, ![i].moved = tick,
                                 ![i].moves = @ + 1]
    /\ UNCHANGED <<report, viewer, board, tick>>

\* cancel_subscription at the end of the period: cancelled_at is when it was
\* asked for, the status stays.
RequestEnd(i) ==
    /\ item[i].kind = "subscription" /\ item[i].status = "open"
    /\ item' = [item EXCEPT ![i].ended = tick]
    /\ UNCHANGED <<report, viewer, board, tick>>

Tick ==
    /\ tick < LastTick /\ tick' = tick + 1
    /\ board' = [board EXCEPT !.kept = IF @ < BoardTime THEN @ + 1 ELSE @]
    /\ UNCHANGED <<item, report, viewer>>

ReportNext ==
    \/ \E v \in Viewers : StartReport(v) \/ RunQuery(v) \/ Publish(v)
    \/ \E i \in Items : Appear(i) \/ MoveItem(i) \/ RequestEnd(i)
    \/ Tick
-----------------------------------------------------------------------------
\* get_mrr_trend: the first of this month, and as many times 30 days before.

\* Years of four, the third of which is a leap year.
LengthOf(m) ==
    IF m % 12 = 1 THEN IF m \div 12 % 4 = 2 THEN 29 ELSE 28
    ELSE IF m % 12 \in {3, 5, 8, 10} THEN 30 ELSE 31
FirstOf[m \in Nat] == IF m = 0 THEN 0 ELSE FirstOf[m - 1] + LengthOf(m - 1)
MonthOf(day) == CHOOSE m \in (day \div 31)..(day \div 28) : FirstOf[m] <= day /\ day < FirstOf[m + 1]

\* month_start
TrendMonth(m, i) == MonthOf(FirstOf[m] - 30 * i)

\* month_end: the first of the month in which month_start + 32 days lies.
TrendEnd(m, i) == FirstOf[MonthOf(FirstOf[TrendMonth(m, i)] + 32)]
-----------------------------------------------------------------------------
\* Nothing is counted as paid, or as failed, that is not counted at all, though
\* the queries see different states of the tables; the two periods share only
\* what was created at the moment they meet; the volume of the invoices covers
\* those counted as paid.  Except for what was created at the very moment now:
\* that the end of the period was fixed before the first query is what keeps
\* the rest out.  It does not keep a subscription from being counted as active
\* and as churned, for a cancellation at the end of its period has an earlier
\* date; but only one whose status has changed since now is.
\* (analytics.py: get_analytics_overview, get_payment_metrics)
OverviewAddsUp ==
    \A v \in Viewers : Complete(v) /\ report = "overview" =>
      LET got == viewer[v].got
          now == viewer[v].now
      IN  /\ \A p \in {"current", "previous"} :
               \A i \in got[<<p, "paid">>] \union got[<<p, "failed">>] :
                 i \in got[<<p, "total">>] \/ item[i].made = now
          /\ \A i \in got[<<"current", "total">>] \cap got[<<"previous", "total">>] :
               item[i].made = now - Span
          /\ got[<<"invoices", "paid">>] \subseteq got[<<"invoices", "volume">>]
          /\ \A i \in got[<<"subscriptions", "active">>] \cap got[<<"subscriptions", "churned">>] :
               item[i].moved >= now

\* The two reports whose period has no end may count more as completed than at
\* all, and a subscription as active and as cancelled, but only what was
\* created, or changed its status, since the report was asked for.
\* (analytics.py: get_conversion_metrics, get_mrr_arr)
OpenReportsAddUp ==
    \A v \in Viewers : Complete(v) =>
      LET got == viewer[v].got
          since == viewer[v].since
      IN  /\ report = "conversion" =>
               \A i \in got[<<"conversion", "completed">>] \ got[<<"conversion", "total">>] :
                 item[i].made >= since
          /\ report = "mrr" =>
               \A i \in got[<<"mrr", "active">>] \cap got[<<"mrr", "churned">>] : item[i].moved >= since

\* A cached report is no older than its time and the time it took, which came
\* before.  (analytics.py: cache.set at the end of the computation)
BoardIsRecent == board.kept < BoardTime => tick - board.now < BoardTime + board.took

\* A trend shows a month of its own for each of the last months, save from
\* March to May, when stepping back by 30 days may land one month too early,
\* so that one month is missing and another is shown twice; and each point
\* covers the whole of its month.  (analytics.py: get_mrr_trend)
TrendIsMonthly ==
    \A m \in Months : \A i \in 1..23 :
      /\ TrendMonth(m, i) \in IF m % 12 \in 2..4 THEN {m - i, m - i - 1} ELSE {m - i}
      /\ TrendEnd(m, i) = FirstOf[TrendMonth(m, i) + 1]

\* What the merchant is shown.
ReportsHold == OverviewAddsUp /\ OpenReportsAddUp /\ BoardIsRecent /\ TrendIsMonthly
=============================================================================
