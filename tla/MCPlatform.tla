------------------------------ MODULE MCPlatform ------------------------------
(***************************************************************************)
(* The components that serve the others share no variable, and neither do  *)
(* the two halves of Ledger: focus is the one that moves, as in            *)
(* MCBusiness.  Fairness is that of the component that moves.              *)
(***************************************************************************)
EXTENDS EventQueue, Idempotency, CircuitBreaker, Ledger, Limits, Rates, Relayers,
        Analytics, TLC

CONSTANTS login, register
Windows == (login :> 1) @@ (register :> 2)
Mosts == (login :> 2) @@ (register :> 1)
\* Three transactions, such that any two of an account with numbers may meet.
ChainsTaken == <<{"tron", "solana", "stellar"}, {"evm", "stellar"}, {"evm", "polygon"}>>
AllLow == [payer |-> 0, merchant |-> 0, amount |-> 0, velocity |-> 0, wallet |-> 0]

\* Four years of months, and two before them.
MonthsAsked == 24..71

VARIABLE focus
platformVars == <<queueVars, keyVars, breakerVars, ledgerVars, screening, limitVars, rateVars,
                  relayVars, reportVars, focus>>

PlatformInit ==
    /\ focus \in {"queue", "key", "breaker", "ledger", "screening", "limits", "rates", "relays",
                 "reports"}
    /\ QueueInit /\ KeyInit /\ BreakerInit /\ LedgerInit /\ LimitInit /\ RateInit /\ RelayInit
    /\ ScreeningInit /\ ReportInit
    \* What the component that moves does not depend on starts in one way.
    /\ focus # "screening" => screening.checks = AllLow
    /\ focus # "queue" => row.kind = "event" /\ ~row.waiting
    /\ focus # "key" => way = "middleware"
    /\ focus # "reports" => report = "mrr" /\ \A i \in Items : item[i].kind = "invoice"

PlatformNext ==
    /\ UNCHANGED focus
    /\ \/ focus = "queue" /\ QueueNext /\ UNCHANGED <<keyVars, breakerVars, ledgerVars, screening,
                                                       limitVars, rateVars, relayVars, reportVars>>
       \/ focus = "key" /\ KeyNext /\ UNCHANGED <<queueVars, breakerVars, ledgerVars, screening,
                                                  limitVars, rateVars, relayVars, reportVars>>
       \/ focus = "breaker" /\ BreakerNext /\ UNCHANGED <<queueVars, keyVars, ledgerVars, screening,
                                                          limitVars, rateVars, relayVars, reportVars>>
       \/ focus = "ledger" /\ LedgerNext /\ UNCHANGED <<queueVars, keyVars, breakerVars, screening,
                                                        limitVars, rateVars, relayVars, reportVars>>
       \/ focus = "screening" /\ Screen /\ UNCHANGED <<queueVars, keyVars, breakerVars, ledgerVars,
                                                       limitVars, rateVars, relayVars, reportVars>>
       \/ focus = "limits" /\ LimitNext /\ UNCHANGED <<queueVars, keyVars, breakerVars, ledgerVars,
                                                       screening, rateVars, relayVars, reportVars>>
       \/ focus = "rates" /\ RateNext /\ UNCHANGED <<queueVars, keyVars, breakerVars, ledgerVars,
                                                     screening, limitVars, relayVars, reportVars>>
       \/ focus = "relays" /\ RelayNext /\ UNCHANGED <<queueVars, keyVars, breakerVars, ledgerVars,
                                                       screening, limitVars, rateVars, reportVars>>
       \/ focus = "reports" /\ ReportNext /\ UNCHANGED <<queueVars, keyVars, breakerVars, ledgerVars,
                                                         screening, limitVars, rateVars, relayVars>>

PlatformSpec == PlatformInit /\ [][PlatformNext]_platformVars
                /\ (focus = "queue" => QueueFair) /\ (focus = "breaker" => BreakerFair)
-----------------------------------------------------------------------------
\* The type invariant of every component.
PlatformTypeOK ==
    /\ QueueTypeOK /\ KeyTypeOK /\ BreakerTypeOK /\ LedgerTypeOK
    /\ LimitTypeOK /\ RateTypeOK /\ RelayTypeOK /\ ReportTypeOK

\* Events and deliveries: given up last, left by crashes only, posted boundedly.
QueueSafe == GivesUpLast /\ LeftOnlyByCrash /\ PostsAreBounded

\* What stands between a caller and a handler or a service: the idempotency
\* key, the circuit breaker and the limits.
GuardsHold == AnsweredOnce /\ BusyKeyHasWorker /\ ClosedByProof /\ WindowsHold

\* Ledger, audit trail, screening, rates and reports say what happened.
RecordsHold == HonestChainVerifies /\ TamperIsSeen /\ TrailLeadsToStatus /\ ScreeningIsWorst
               /\ RatesAreRecent /\ ReportsHold

\* A delivery ends, and the breaker recovers.
PlatformSettles == (focus = "queue" => DeliveryEnds) /\ (focus = "breaker" => Recovers)
=============================================================================
