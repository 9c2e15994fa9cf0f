-------------------------------- MODULE Limits --------------------------------
(***************************************************************************)
(* The sliding windows that limit the requests of one client in one server *)
(* process: InMemoryRateLimiter (app/core/rate_limiter.py) behind the      *)
(* login, the registration and the Google login, the window of every       *)
(* request (app/core/security_middleware.py) and the one of the coupons    *)
(* (app/routes/promo.py).  None of them waits between looking and noting.  *)
(* Requests are remembered by their age, as how many there are of each;    *)
(* the stores of two processes and of two clients have nothing in common.  *)
(***************************************************************************)
EXTENDS Integers, FiniteSetsExt

CONSTANTS
    Routes,     \* keys of one client: key_prefix:client_ip
    WindowOf,   \* window_seconds of each
    MostOf,     \* max_requests of each
    CleanEvery, \* _cleanup_interval
    KeptAge     \* the hour for which _cleanup keeps requests

ASSUME LimitsAssumption ==
    /\ WindowOf \in [Routes -> Nat \ {0}] /\ MostOf \in [Routes -> Nat \ {0}]
    /\ CleanEvery \in Nat \ {0} /\ KeptAge \in Nat
    /\ \A r \in Routes : WindowOf[r] <= KeptAge

VARIABLES
    noted,    \* _store: how many requests of each age are noted for each key
    cleaned,  \* time since the last cleanup
    admitted, \* history: how many requests of each age got through
    refused   \* history: the key of the request refused last, if this was it

limitVars == <<noted, cleaned, admitted, refused>>
-----------------------------------------------------------------------------
PastAges == 0..KeptAge
Nothing == [a \in PastAges |-> 0]

\* The requests younger than a window, and their number.
InWindow(past, window) == [a \in PastAges |-> IF a < window THEN past[a] ELSE 0]
HowMany(past, window) == MapThenSumSet(LAMBDA a : past[a], 0..(window - 1))

\* The stores count requests.
LimitTypeOK ==
    /\ {noted, admitted} \subseteq [Routes -> [PastAges -> Nat]]
    /\ cleaned \in 0..CleanEvery /\ refused \subseteq Routes

LimitInit ==
    /\ noted = [r \in Routes |-> Nothing] /\ admitted = [r \in Routes |-> Nothing]
    /\ cleaned = 0 /\ refused = {}

\* _cleanup
Cleaned ==
    IF cleaned < CleanEvery THEN noted ELSE [r \in Routes |-> InWindow(noted[r], KeptAge)]

OneMore(past) == [past EXCEPT ![0] = @ + 1]

\* check_rate_limit: what it looked at is kept only if the request is admitted.
Ask(r) ==
    LET recent == InWindow(Cleaned[r], WindowOf[r])
    IN  /\ cleaned' = IF cleaned < CleanEvery THEN cleaned ELSE 0
        /\ IF HowMany(recent, WindowOf[r]) >= MostOf[r]
           THEN noted' = Cleaned /\ refused' = {r} /\ UNCHANGED admitted
           ELSE /\ noted' = [Cleaned EXCEPT ![r] = OneMore(recent)]
                /\ admitted' = [admitted EXCEPT ![r] = OneMore(@)]
                /\ refused' = {}

\* Time passes.
Wear(past) == [a \in PastAges |-> IF a = 0 THEN 0 ELSE past[a - 1]]
PassTime ==
    /\ noted' = [r \in Routes |-> Wear(noted[r])]
    /\ admitted' = [r \in Routes |-> Wear(admitted[r])]
    /\ cleaned' = IF cleaned < CleanEvery THEN cleaned + 1 ELSE cleaned
    /\ refused' = {}

LimitNext == PassTime \/ \E r \in Routes : Ask(r)
-----------------------------------------------------------------------------
\* Within any window a process admits no more requests of a client than the
\* limit, and it refuses one only if that many were admitted within the window:
\* refused requests do not keep a client out.
\* (rate_limiter.py: check_rate_limit, _cleanup)
WindowsHold ==
    /\ \A r \in Routes : HowMany(admitted[r], WindowOf[r]) <= MostOf[r]
    /\ \A r \in refused : HowMany(admitted[r], WindowOf[r]) = MostOf[r]
=============================================================================
