--------------------------- MODULE CircuitBreaker ---------------------------
(***************************************************************************)
(* A circuit breaker of one process (app/core/circuit_breaker.py): no code *)
(* of the repository wraps a call in one: the model has coroutines that    *)
(* call the service through it.  The call is awaited, so its result is     *)
(* counted in whatever state the breaker has then.                         *)
(***************************************************************************)
EXTENDS Integers, FiniteSets

CONSTANTS
    Coroutines,         \* callers
    FailureThreshold,   \* failures before opening
    SuccessThreshold,   \* successes before closing again
    OpenFor             \* timeout, in ticks

ASSUME BreakerAssumption ==
    /\ {FailureThreshold, SuccessThreshold, OpenFor} \subseteq Nat \ {0}
    /\ IsFiniteSet(Coroutines)

VARIABLES
    breaker,  \* state, failure_count, success_count, and the ticks until retry
    flying,   \* the call each coroutine waits for
    healthy,  \* the service answers
    trial,    \* history: whose call began since the last try (half_open) did
    before,   \* history: whose call was under way when it began
    proof     \* history: successes of calls of the trial

breakerVars == <<breaker, flying, healthy, trial, before, proof>>
-----------------------------------------------------------------------------
Breaker == [state: {"closed", "open", "half_open"}, fails: 0..FailureThreshold,
            wins: 0..SuccessThreshold, wait: 0..OpenFor]

\* "sound": the call began when the service answered, so it succeeds.
Flight == {"none", "sound", "unsure"}

\* The breaker, the calls and the history keep their types.
BreakerTypeOK ==
    /\ breaker \in Breaker /\ flying \in [Coroutines -> Flight]
    /\ healthy \in BOOLEAN /\ proof \in 0..SuccessThreshold
    /\ trial \subseteq Coroutines /\ before \subseteq Coroutines

BreakerInit ==
    /\ breaker = [state |-> "closed", fails |-> 0, wins |-> 0, wait |-> 0]
    /\ flying = [c \in Coroutines |-> "none"]
    /\ healthy = TRUE
    /\ trial = {}
    /\ before = {}
    /\ proof = SuccessThreshold
-----------------------------------------------------------------------------
Closed == [state |-> "closed", fails |-> 0, wins |-> 0, wait |-> 0]
HalfOpen(b) == [b EXCEPT !.state = "half_open", !.fails = 0, !.wins = 0]
Opened(b) == [b EXCEPT !.state = "open", !.wins = 0, !.wait = OpenFor]

\* call, up to the await.  While the breaker is open and the timeout has not
\* passed it raises; half open, it lets every caller through.
StartCall(c) ==
    /\ flying[c] = "none"
    /\ \/ /\ breaker.state # "open"
          /\ trial' = trial \cup {c}
          /\ UNCHANGED <<breaker, before, proof>>
       \/ /\ breaker.state = "open" /\ breaker.wait = 0
          /\ breaker' = HalfOpen(breaker)
          /\ trial' = {c}
          /\ before' = {d \in Coroutines : flying[d] # "none"}
          /\ proof' = 0
    /\ flying' = [flying EXCEPT ![c] = IF healthy THEN "sound" ELSE "unsure"]
    /\ UNCHANGED healthy

\* Mutant: every success counts towards closing.
EverySuccess(b) ==
    IF b.state = "closed" THEN [b EXCEPT !.fails = 0]
    ELSE IF b.wins + 1 >= SuccessThreshold THEN Closed
    ELSE [b EXCEPT !.fails = 0, !.wins = @ + 1]

\* _on_success
AfterSuccess(b) ==
    IF b.state # "half_open" THEN [b EXCEPT !.fails = 0]
    ELSE IF b.wins + 1 >= SuccessThreshold THEN Closed
    ELSE [b EXCEPT !.fails = 0, !.wins = @ + 1]

\* The counter of failures is only compared: it is kept at the threshold.
OneFailure(b) == [b EXCEPT !.fails = IF @ < FailureThreshold THEN @ + 1 ELSE @]

\* _on_failure; an open breaker that has seen enough failures opens anew.
AfterFailure(b) ==
    IF b.state = "half_open" \/ OneFailure(b).fails >= FailureThreshold
    THEN Opened(OneFailure(b)) ELSE OneFailure(b)

Succeed(c) ==
    /\ flying[c] # "none"
    /\ flying' = [flying EXCEPT ![c] = "none"]
    /\ breaker' = AfterSuccess(breaker)
    /\ trial' = trial \ {c}
    /\ proof' = IF c \in trial /\ proof < SuccessThreshold THEN proof + 1 ELSE proof
    /\ UNCHANGED <<healthy, before>>

FailCall(c) ==
    /\ flying[c] = "unsure"
    /\ flying' = [flying EXCEPT ![c] = "none"]
    /\ breaker' = AfterFailure(breaker)
    /\ IF breaker'.state = "open"
       THEN trial' = {} /\ before' = {} /\ proof' = 0
       ELSE trial' = trial \ {c} /\ UNCHANGED <<before, proof>>
    /\ UNCHANGED healthy

\* reset, reset_all_circuit_breakers
ResetBreaker ==
    /\ breaker' = Closed /\ proof' = SuccessThreshold
    /\ UNCHANGED <<flying, healthy, trial, before>>

\* Time passes towards the retry (_should_attempt_reset).
Waited ==
    /\ breaker.state = "open" /\ breaker.wait > 0
    /\ breaker' = [breaker EXCEPT !.wait = @ - 1]
    /\ UNCHANGED <<flying, healthy, trial, before, proof>>

ServiceTurns ==
    /\ healthy' = ~healthy
    /\ UNCHANGED <<breaker, flying, trial, before, proof>>

BreakerNext ==
    \/ \E c \in Coroutines : StartCall(c) \/ Succeed(c) \/ FailCall(c)
    \/ ResetBreaker \/ Waited \/ ServiceTurns

\* Calls return, time passes, and somebody goes on calling the service.
BreakerFair ==
    /\ \A c \in Coroutines : WF_breakerVars(Succeed(c) \/ FailCall(c))
    /\ WF_breakerVars(Waited)
    /\ WF_breakerVars(\E c \in Coroutines : StartCall(c))
-----------------------------------------------------------------------------
\* Any success that comes in while the breaker is half open counts, those of
\* calls made before it opened too: such calls may close it though no call
\* since has succeeded.  But each stands for one success at most: an open
\* breaker closes by SuccessThreshold successes, all of calls of the trial but
\* for as many as were under way when the trial began.
\* (circuit_breaker.py: _on_success)
ClosedByProof ==
    breaker.state = "closed" => proof + Cardinality(before) >= SuccessThreshold

\* Once the service answers for good the breaker closes, whatever calls were
\* still under way.  (circuit_breaker.py: _should_attempt_reset)
Recovers == <>[]healthy => <>[](breaker.state = "closed")
=============================================================================
