--------------------------------- MODULE Rates ---------------------------------
(***************************************************************************)
(* The rate of one pair of currencies (app/services/price_service.py,      *)
(* app/services/exchange_rate_service.py).  The price service of a process *)
(* keeps it a minute; the exchange rate service keeps what the price       *)
(* service says an hour, in Redis for all processes and in its own memory  *)
(* for when Redis does not answer.  Three providers are asked in turn, and *)
(* when none has the rate it is taken to be 1.                             *)
(*                                                                         *)
(* A rate is the time since its provider gave it.  Only the wait for the   *)
(* providers lets another coroutine of the process in.                     *)
(***************************************************************************)
EXTENDS Integers, FiniteSets

CONSTANTS
    Quoters,     \* server processes
    Providers,   \* FX rate providers with a key in the settings
    PriceTTL,    \* 60 s
    RateTTL,     \* CACHE_TTL_SECONDS
    MaxAge,      \* bound: ages stop here
    MaxFetches   \* bound on the calls of a process that wait at a time

ASSUME RatesAssumption ==
    /\ IsFiniteSet(Quoters) /\ {Providers, RateTTL} \subseteq Nat \ {0}
    /\ {PriceTTL, MaxAge, MaxFetches} \subseteq Nat /\ MaxAge > PriceTTL + RateTTL

VARIABLES
    priced,     \* PriceCache of each process: at most one age
    remembered, \* _memory_cache of each process: at most one rate
    shared,     \* Redis: at most one rate
    fetching,   \* calls of each process that wait for a provider
    quoted      \* the last rate that was given to a caller

rateVars == <<priced, remembered, shared, fetching, quoted>>
-----------------------------------------------------------------------------
Ages == 0..MaxAge
\* kept: since it was stored; real: a provider gave it.
Rate == [age: Ages, kept: 0..RateTTL, real: BOOLEAN]
Inquiry == [for: {"price", "rate"}, provider: 1..Providers]
Fresh == [age |-> 0, kept |-> 0, real |-> TRUE]

\* The caches, the calls and the quotes keep their types.
RateTypeOK ==
    /\ \A q \in Quoters :
         /\ priced[q] \subseteq Ages /\ Cardinality(priced[q]) <= 1
         /\ remembered[q] \subseteq Rate /\ Cardinality(remembered[q]) <= 1
         /\ fetching[q] \subseteq Inquiry
    /\ shared \subseteq Rate /\ Cardinality(shared) <= 1 /\ quoted \in Rate

RateInit ==
    /\ priced = [q \in Quoters |-> {}] /\ remembered = [q \in Quoters |-> {}]
    /\ shared = {} /\ fetching = [q \in Quoters |-> {}]
    /\ quoted = Fresh
-----------------------------------------------------------------------------
\* PriceCache.get
PriceOf(q) == {a \in priced[q] : a <= PriceTTL}

\* _cache_rate: Redis may fail, the memory does not.
Keep(q, rate) ==
    /\ remembered' = [remembered EXCEPT ![q] = {[rate EXCEPT !.kept = 0]}]
    /\ shared' \in {shared, {[rate EXCEPT !.kept = 0]}}

\* The caller of get_fiat_rate has its rate; the exchange rate service keeps it.
Got(q, for, rate) ==
    /\ quoted' = [rate EXCEPT !.kept = 0]
    /\ IF for = "rate" THEN Keep(q, rate) ELSE UNCHANGED <<remembered, shared>>

\* get_fiat_rate, up to the first provider; an expired price is deleted.
GetFiatRate(q, for) ==
    \/ /\ PriceOf(q) # {}
       /\ \E a \in PriceOf(q) : Got(q, for, [Fresh EXCEPT !.age = a])
       /\ UNCHANGED <<priced, fetching>>
    \/ /\ PriceOf(q) = {}
       /\ Cardinality(fetching[q]) < MaxFetches
       /\ priced' = [priced EXCEPT ![q] = {}]
       /\ fetching' = [fetching EXCEPT ![q] = @ \union {[for |-> for, provider |-> 1]}]
       /\ remembered' = [remembered EXCEPT ![q] = IF for = "rate" THEN {} ELSE @]
       /\ UNCHANGED <<shared, quoted>>

\* get_fiat_rate for local amounts (currency_service.py) and the analytics.
AskPrice(q) == GetFiatRate(q, "price")

\* get_rate: Redis answers and has the rate.
SharedHit(q) ==
    \E r \in shared :
      quoted' = [r EXCEPT !.kept = 0] /\ UNCHANGED <<priced, remembered, shared, fetching>>

RememberedOf(q) == {r \in remembered[q] : r.kept < RateTTL}

\* get_rate: Redis has nothing, or does not answer, but the memory has the rate.
MemoryHit(q) ==
    \E r \in RememberedOf(q) :
      quoted' = [r EXCEPT !.kept = 0] /\ UNCHANGED <<priced, remembered, shared, fetching>>

\* get_rate: nobody has it; a memory that has expired is deleted.
Miss(q) == RememberedOf(q) = {} /\ GetFiatRate(q, "rate")

AskRate(q) == SharedHit(q) \/ MemoryHit(q) \/ Miss(q)

\* A provider answers.
Provided(q) ==
    \E f \in fetching[q] :
      /\ priced' = [priced EXCEPT ![q] = {0}]
      /\ Got(q, f.for, Fresh)
      /\ fetching' = [fetching EXCEPT ![q] = @ \ {f}]

\* A provider fails or has no such rate: the next one, and after the last the
\* rate is 1, which the price service does not keep.
NotProvided(q) ==
    \E f \in fetching[q] :
      \/ /\ f.provider < Providers
         /\ fetching' = [fetching EXCEPT ![q] = (@ \ {f}) \union {[f EXCEPT !.provider = @ + 1]}]
         /\ UNCHANGED <<priced, remembered, shared, quoted>>
      \/ /\ f.provider = Providers
         /\ Got(q, f.for, [Fresh EXCEPT !.real = FALSE])
         /\ fetching' = [fetching EXCEPT ![q] = @ \ {f}]
         /\ UNCHANGED priced

\* clear_cache, for one process and for Redis unless it fails.
ClearRates(q) ==
    /\ remembered' = [remembered EXCEPT ![q] = {}]
    /\ shared' \in {shared, {}}
    /\ UNCHANGED <<priced, fetching, quoted>>

\* An age past the time to live is one as good as another.
Elder(a, last) == IF a < last THEN a + 1 ELSE last
ElderRates(rates) ==
    {[r EXCEPT !.age = Elder(@, MaxAge), !.kept = Elder(@, RateTTL)] : r \in rates}

\* Time passes; Redis drops what has reached its time.
GrowOld ==
    /\ priced' = [q \in Quoters |-> {Elder(a, PriceTTL + 1) : a \in priced[q]}]
    /\ remembered' = [q \in Quoters |-> ElderRates(remembered[q])]
    /\ shared' = {r \in ElderRates(shared) : r.kept < RateTTL}
    /\ UNCHANGED <<fetching, quoted>>

RateNext ==
    \/ \E q \in Quoters : AskPrice(q) \/ AskRate(q) \/ Provided(q) \/ NotProvided(q) \/ ClearRates(q)
    \/ GrowOld
-----------------------------------------------------------------------------
\* Through the two layers of caches, and whatever Redis does in between, no
\* caller is given a rate older than the two times together, and the rate of 1
\* that stands for none no older than the second.
\* (exchange_rate_service.py: get_rate; price_service.py: get_fiat_rate)
RatesAreRecent ==
    quoted.age < IF quoted.real THEN PriceTTL + RateTTL ELSE RateTTL
=============================================================================
