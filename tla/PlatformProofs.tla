-------------------------- MODULE PlatformProofs ---------------------------
(***************************************************************************)
(* Proofs about the parts of the platform that share no state: the event   *)
(* queue, the idempotency keys, the circuit breaker, the ledger and        *)
(* screening, the rate limiter, the exchange rates, the reports, and with  *)
(* RelayersProofs the relayers. Each part has an inductive invariant that  *)
(* its steps keep; the platform keeps them all.                            *)
(***************************************************************************)
EXTENDS MCPlatform, RelayersProofs, Sums, FiniteSetTheorems, TLAPS

(***************************************************************************)
(* The event queue (EventQueue). The columns a consumer drafts are written *)
(* later over whatever the row has become, so the invariant says of a      *)
(* draft what its commit needs: attempts are backed by runs that happened, *)
(* and only the run of the last attempt gives up.                          *)
(***************************************************************************)
RowColumns == {"status", "attempts", "waiting"}
RowStates == {"pending", "processing", "completed", "failed"}

SoundColumns(set) ==
    /\ DOMAIN set \subseteq RowColumns
    /\ "status" \in DOMAIN set => set["status"] \in RowStates
    /\ "attempts" \in DOMAIN set => set["attempts"] \in Nat
    /\ "waiting" \in DOMAIN set => set["waiting"] \in BOOLEAN

Working == {w \in Consumers : consumer[w].at = "working"}

\* An event was counted when it was worked on; a delivery is counted when
\* somebody is done with it, so those at work are still to be counted.
Uncounted == IF row.kind = "delivery" THEN Cardinality(Working) ELSE 0
Backed(attempts) == runs >= MaxRetries \/ attempts + Uncounted <= runs

SoundConsumer(c) ==
    /\ DOMAIN c = {"at", "set"}
    /\ c.at \in {"rest", "fetched", "marking", "working", "finishing"}
    /\ SoundColumns(c.set)
    /\ c.at \in {"rest", "fetched", "working"} => c.set = NoColumn
    /\ c.at \in {"fetched", "marking"} => row.kind = "event"
    /\ c.at = "marking" =>
         /\ {"status", "attempts"} \subseteq DOMAIN c.set /\ c.set["status"] = "processing"
         /\ runs >= MaxRetries \/ c.set["attempts"] <= runs + 1
    /\ c.at = "finishing" =>
         /\ "status" \in DOMAIN c.set => /\ c.set["status"] # "processing"
                                         /\ c.set["status"] = "failed" => runs >= MaxRetries
         /\ "attempts" \in DOMAIN c.set => Backed(c.set["attempts"])

\* Whoever will take a row that is processing out of it.
Finisher(c) == c.at = "working" \/ (c.at = "finishing" /\ "status" \in DOMAIN c.set)

SoundCall(c) ==
    /\ c \in Calling
    /\ c.posts <= RetryLimit
    /\ c.state = "post" => c.posts = c.retry /\ c.retry < RetryLimit

QInv ==
    /\ QueueTypeOK
    /\ DOMAIN consumer = Consumers
    /\ \A w \in Consumers : SoundConsumer(consumer[w])
    /\ GivesUpLast
    /\ Backed(row.attempts)
    /\ row.kind = "event" /\ row.status = "processing" =>
         crashes > 0 \/ \E w \in Consumers : Finisher(consumer[w])
    /\ \A s \in Callers : SoundCall(sending[s])

\* A consumer that rests, and columns that set nothing, are sound.
LEMMA RestingIsSound ==
    SoundConsumer(Resting) /\ SoundColumns(NoColumn) /\ DOMAIN NoColumn = {}
<1>1. DOMAIN NoColumn = {} /\ SoundColumns(NoColumn)
    BY DEF NoColumn, SoundColumns
<1>2. DOMAIN Resting = {"at", "set"} /\ Resting.at = "rest" /\ Resting.set = NoColumn
    BY DEF Resting
<1>3. QED
    BY <1>1, <1>2 DEF SoundConsumer

\* The columns of a row.
LEMMA RowParts ==
    ASSUME NEW r, r \in QueueRow
    PROVE  /\ DOMAIN r = {"kind", "status", "attempts", "waiting"}
           /\ r.kind \in {"event", "delivery"} /\ r.status \in RowStates
           /\ r.attempts \in Nat /\ r.waiting \in BOOLEAN
    BY DEF QueueRow, RowStates

\* Sound columns written over a row make a row.
LEMMA RowOverlay ==
    ASSUME NEW r, r \in QueueRow, NEW set, SoundColumns(set)
    PROVE  /\ Overlay(set, r) \in QueueRow
           /\ Overlay(set, r).kind = r.kind
           /\ \A c \in RowColumns : Overlay(set, r)[c] = IF c \in DOMAIN set THEN set[c] ELSE r[c]
<1> DEFINE o == Overlay(set, r)
<1>1. DOMAIN r = {"kind", "status", "attempts", "waiting"}
      /\ r.kind \in {"event", "delivery"} /\ r.status \in RowStates
      /\ r.attempts \in Nat /\ r.waiting \in BOOLEAN
    BY RowParts
<1>2. DOMAIN set \cup DOMAIN r = {"kind", "status", "attempts", "waiting"} /\ "kind" \notin DOMAIN set
    BY <1>1 DEF SoundColumns, RowColumns
<1>3. o = [c \in {"kind", "status", "attempts", "waiting"} |-> IF c \in DOMAIN set THEN set[c] ELSE r[c]]
    BY <1>2 DEF Overlay
<1>4. /\ o["kind"] = r["kind"]
      /\ \A c \in RowColumns : o[c] = IF c \in DOMAIN set THEN set[c] ELSE r[c]
    BY <1>2, <1>3 DEF RowColumns
<1>5. o = [kind |-> o["kind"], status |-> o["status"], attempts |-> o["attempts"],
           waiting |-> o["waiting"]]
    BY <1>3
<1>6. o["status"] \in RowStates
    BY <1>1, <1>4 DEF SoundColumns, RowColumns
<1>7. o["attempts"] \in Nat
    BY <1>1, <1>4 DEF SoundColumns, RowColumns
<1>8. o["waiting"] \in BOOLEAN
    BY <1>1, <1>4 DEF SoundColumns, RowColumns
<1>9. o \in QueueRow
    BY <1>1, <1>4, <1>5, <1>6, <1>7, <1>8 DEF QueueRow, RowStates
<1>10. QED
    BY <1>4, <1>9

\* The invariant holds before the first consumer runs.
LEMMA QueueInitially ==
    ASSUME QueueInit
    PROVE  QInv
<1>1. row \in QueueRow /\ row.attempts = 0 /\ row.status = "pending"
    <2>1. CASE row \in CreatedEvent
        BY <2>1 DEF CreatedEvent, QueueRow
    <2>2. CASE row \in CreatedDelivery
        <3>1. PICK b : b = [kind |-> "delivery", status |-> "pending", attempts |-> 0, waiting |-> FALSE]
            OBVIOUS
        <3>2. b \in QueueRow /\ b.attempts = 0 /\ b.status = "pending"
            BY <3>1 DEF QueueRow
        <3>3. row = b
            BY <2>2, <3>1 DEF CreatedDelivery
        <3>4. QED
            BY <3>2, <3>3
    <2>3. QED
        BY <2>1, <2>2 DEF QueueInit
<1>2. \A w \in Consumers : consumer[w] = Resting
    BY DEF QueueInit
<1>3. DOMAIN consumer = Consumers
    BY DEF QueueInit
<1>4. \A w \in Consumers : SoundConsumer(consumer[w])
    BY <1>2, RestingIsSound
<1>5. Working = {} /\ Cardinality(Working) = 0
    <2>1. Resting.at = "rest"
        BY DEF Resting
    <2>2. Working = {}
        BY <1>2, <2>1 DEF Working
    <2>3. QED
        BY <2>2, FS_EmptySet
<1>6. runs = 0 /\ crashes = 0 /\ runs \in 0..MaxRetries /\ crashes \in 0..MaxCrashes
    BY QueueAssumption DEF QueueInit
<1>7. \A s \in Callers : sending[s] = [state |-> "idle", retry |-> 0, posts |-> 0]
    BY DEF QueueInit
<1>8. sending \in [Callers -> Calling]
    BY DEF QueueInit, Calling
<1>9. \A s \in Callers : SoundCall(sending[s])
    BY <1>7, <1>8, QueueAssumption DEF SoundCall
<1>10. Backed(row.attempts)
    BY <1>1, <1>5, <1>6 DEF Backed, Uncounted
<1>11. QueueTypeOK
    <2>1. \A w \in Consumers : /\ consumer[w].at = "rest" /\ DOMAIN consumer[w].set = {}
        BY <1>2, RestingIsSound DEF Resting
    <2>2. QED
        BY <1>1, <1>6, <1>8, <2>1 DEF QueueTypeOK
<1>12. QED
    BY <1>1, <1>3, <1>4, <1>9, <1>10, <1>11 DEF QInv, GivesUpLast

\* How many are at work.
LEMMA WorkingIsFinite ==
    IsFiniteSet(Working) /\ Cardinality(Working) \in Nat
<1>1. Working \subseteq Consumers /\ IsFiniteSet(Consumers)
    BY QueueAssumption DEF Working
<1>2. QED
    BY <1>1, FS_Subset, FS_CardinalityType

QueueFacts == /\ row \in QueueRow /\ row.kind \in {"event", "delivery"} /\ row.status \in RowStates
              /\ row.attempts \in Nat /\ row.waiting \in BOOLEAN
              /\ crashes \in 0..MaxCrashes /\ runs \in 0..MaxRetries /\ runs \in Nat
              /\ MaxRetries \in Nat \ {0} /\ MaxCrashes \in Nat
              /\ Uncounted \in Nat

\* What the invariant says of the types.
LEMMA QueueKnows ==
    ASSUME QInv
    PROVE  QueueFacts
<1>1. row \in QueueRow /\ crashes \in 0..MaxCrashes /\ runs \in 0..MaxRetries
    BY DEF QInv, QueueTypeOK
<1>2. MaxRetries \in Nat \ {0} /\ MaxCrashes \in Nat
    BY QueueAssumption
<1>3. Uncounted \in Nat
    BY WorkingIsFinite DEF Uncounted
<1>4. QED
    BY <1>1, <1>2, <1>3, RowParts DEF QueueFacts

\* One consumer turns to something else.
LEMMA OneConsumer ==
    ASSUME QInv, NEW w \in Consumers, NEW c, consumer' = [consumer EXCEPT ![w] = c]
    PROVE  /\ DOMAIN consumer' = Consumers /\ consumer'[w] = c
           /\ \A v \in Consumers \ {w} : consumer'[v] = consumer[v]
           /\ Cardinality(Working') = IF c.at = "working"
                THEN IF consumer[w].at = "working" THEN Cardinality(Working) ELSE Cardinality(Working) + 1
                ELSE IF consumer[w].at = "working" THEN Cardinality(Working) - 1 ELSE Cardinality(Working)
<1>1. /\ DOMAIN consumer' = Consumers /\ consumer'[w] = c
      /\ \A v \in Consumers \ {w} : consumer'[v] = consumer[v]
    BY DEF QInv
<1>2. Working' = IF c.at = "working" THEN Working \cup {w} ELSE Working \ {w}
    BY <1>1 DEF Working
<1>3. w \in Working <=> consumer[w].at = "working"
    BY DEF Working
<1>4. IsFiniteSet(Working)
    BY WorkingIsFinite
<1>5. Cardinality(Working \cup {w}) = IF w \in Working THEN Cardinality(Working) ELSE Cardinality(Working) + 1
    BY <1>4, FS_AddElement
<1>6. Cardinality(Working \ {w}) = IF w \in Working THEN Cardinality(Working) - 1 ELSE Cardinality(Working)
    BY <1>4, FS_RemoveElement
<1>7. QED
    BY <1>1, <1>2, <1>3, <1>5, <1>6

\* Counts only grow, and what is still to be counted was counted as a run.
Grows == runs' >= MaxRetries \/ runs - Uncounted <= runs' - Uncounted'

\* Attempts that were backed by runs stay so, as long as the runs that are
\* not counted yet do not grow alone.
LEMMA BackedStays ==
    ASSUME QueueFacts, QueueFacts', Grows, runs' >= runs, NEW a \in Nat, Backed(a)
    PROVE  Backed(a)'
<1>1. /\ runs \in Nat /\ Uncounted \in Nat /\ MaxRetries \in Nat
    BY DEF QueueFacts
<1>2. /\ runs' \in Nat /\ Uncounted' \in Nat
    BY DEF QueueFacts
<1>3. runs' >= MaxRetries \/ a + Uncounted' <= runs'
    <2>1. \A r, rr, u, v, m \in Nat :
            rr >= r /\ (rr >= m \/ r - u <= rr - v) /\ (r >= m \/ a + u <= r) =>
              rr >= m \/ a + v <= rr
        OBVIOUS
    <2>2. QED
        BY <1>1, <1>2, <2>1 DEF Grows, Backed
<1>4. QED
    BY <1>3 DEF Backed

\* So does what a consumer knows.
LEMMA ConsumerStays ==
    ASSUME QueueFacts, QueueFacts', Grows, runs' >= runs, row'.kind = row.kind,
           NEW c, SoundConsumer(c)
    PROVE  SoundConsumer(c)'
<1>1. /\ DOMAIN c = {"at", "set"}
      /\ c.at \in {"rest", "fetched", "marking", "working", "finishing"}
      /\ SoundColumns(c.set)
      /\ c.at \in {"rest", "fetched", "working"} => c.set = NoColumn
      /\ c.at \in {"fetched", "marking"} => row'.kind = "event"
    BY DEF SoundConsumer
<1>2. ASSUME c.at = "marking"
      PROVE  /\ {"status", "attempts"} \subseteq DOMAIN c.set /\ c.set["status"] = "processing"
             /\ runs' >= MaxRetries \/ c.set["attempts"] <= runs' + 1
    <2>1. /\ {"status", "attempts"} \subseteq DOMAIN c.set /\ c.set["status"] = "processing"
          /\ runs >= MaxRetries \/ c.set["attempts"] <= runs + 1
        BY <1>2 DEF SoundConsumer
    <2>2. c.set["attempts"] \in Nat
        BY <1>1, <2>1 DEF SoundColumns
    <2>3. runs' >= MaxRetries \/ c.set["attempts"] <= runs' + 1
        BY <2>1, <2>2 DEF QueueFacts
    <2>4. QED
        BY <2>1, <2>3
<1>3. ASSUME c.at = "finishing"
      PROVE  /\ "status" \in DOMAIN c.set => /\ c.set["status"] # "processing"
                                             /\ c.set["status"] = "failed" => runs' >= MaxRetries
             /\ "attempts" \in DOMAIN c.set => Backed(c.set["attempts"])'
    <2>1. /\ "status" \in DOMAIN c.set => /\ c.set["status"] # "processing"
                                          /\ c.set["status"] = "failed" => runs >= MaxRetries
          /\ "attempts" \in DOMAIN c.set => Backed(c.set["attempts"])
        BY <1>3 DEF SoundConsumer
    <2>2. runs >= MaxRetries => runs' >= MaxRetries
        BY DEF QueueFacts
    <2>3. ASSUME "attempts" \in DOMAIN c.set
          PROVE  Backed(c.set["attempts"])'
        <3>1. PICK a : a = c.set["attempts"]
            OBVIOUS
        <3>2. a \in Nat /\ Backed(a)
            BY <1>1, <2>1, <2>3, <3>1 DEF SoundColumns
        <3>3. Backed(a)'
            BY <3>2, BackedStays
        <3>4. QED
            BY <3>1, <3>3
    <2>4. QED
        BY <2>1, <2>2, <2>3
<1>4. QED
    BY <1>1, <1>2, <1>3 DEF SoundConsumer

\* A consumer turns to something sound, and the row stays so.
LEMMA ConsumerTurns ==
    ASSUME QInv, NEW w \in Consumers, NEW c, consumer' = [consumer EXCEPT ![w] = c],
           UNCHANGED sending,
           row' \in QueueRow, row'.kind = row.kind, crashes' \in 0..MaxCrashes,
           runs' \in 0..MaxRetries, runs' >= runs, Grows,
           SoundConsumer(c)', GivesUpLast', Backed(row.attempts)',
           row.kind = "event" /\ row'.status = "processing" =>
             crashes' > 0 \/ \E x \in Consumers : Finisher(consumer[x])',
           Uncounted' \in Nat
    PROVE  QInv'
<1>1. QueueFacts /\ QueueFacts'
    BY QueueKnows, QueueAssumption, RowParts DEF QueueFacts
<1>2. /\ DOMAIN consumer' = Consumers /\ consumer'[w] = c
      /\ \A v \in Consumers \ {w} : consumer'[v] = consumer[v]
    BY OneConsumer
<1>3. \A v \in Consumers : SoundConsumer(consumer[v])'
    <2>1. TAKE v \in Consumers
    <2>2. CASE v = w
        BY <1>2, <2>2
    <2>3. CASE v # w
        <3>1. PICK d : d = consumer[v]
            OBVIOUS
        <3>2. SoundConsumer(d)
            BY <3>1 DEF QInv
        <3>3. SoundConsumer(d)'
            BY <1>1, <3>2, ConsumerStays
        <3>4. consumer'[v] = d
            BY <1>2, <2>3, <3>1
        <3>5. QED
            BY <3>3, <3>4
    <2>4. QED
        BY <2>2, <2>3
<1>4. QueueTypeOK'
    <2>1. \A v \in Consumers :
            /\ consumer'[v].at \in {"rest", "fetched", "marking", "working", "finishing"}
            /\ DOMAIN consumer'[v].set \subseteq {"status", "attempts", "waiting"}
        BY <1>3 DEF SoundConsumer, SoundColumns, RowColumns
    <2>2. DOMAIN row' = {"kind", "status", "attempts", "waiting"}
        BY RowParts
    <2>3. QED
        BY <2>1, <2>2 DEF QueueTypeOK, QInv
<1>5. \A s \in Callers : SoundCall(sending[s])'
    BY DEF QInv, SoundCall, Calling
<1>6. QED
    BY <1>2, <1>3, <1>4, <1>5 DEF QInv

\* A set of columns with those left out that the row has already.
LEMMA ChangingKeeps ==
    ASSUME NEW set, SoundColumns(set), row \in QueueRow
    PROVE  /\ SoundColumns(Changing(set))
           /\ DOMAIN Changing(set) \subseteq DOMAIN set
           /\ \A c \in DOMAIN Changing(set) : Changing(set)[c] = set[c]
           /\ \A c \in DOMAIN set : set[c] # row[c] => c \in DOMAIN Changing(set)
           /\ \A c \in DOMAIN Changing(set) : c = "waiting" \/ set[c] # row[c]
<1>1. /\ DOMAIN Changing(set) \subseteq DOMAIN set
      /\ \A c \in DOMAIN Changing(set) : Changing(set)[c] = set[c]
      /\ \A c \in DOMAIN set : set[c] # row[c] => c \in DOMAIN Changing(set)
      /\ \A c \in DOMAIN Changing(set) : c = "waiting" \/ set[c] # row[c]
    BY DEF Changing
<1>2. SoundColumns(Changing(set))
    BY <1>1 DEF SoundColumns
<1>3. QED
    BY <1>1, <1>2

\* The runs that are not counted are those of the consumers at work, one for
\* each.
LEMMA NothingCounted ==
    ASSUME QInv, NEW w \in Consumers, NEW c, consumer' = [consumer EXCEPT ![w] = c],
           row'.kind = row.kind
    PROVE  /\ Uncounted' \in Nat
           /\ c.at # "working" => Uncounted' <= Uncounted
           /\ c.at = "working" => Uncounted' <= Uncounted + 1
           /\ c.at # "working" /\ consumer[w].at = "working" /\ row.kind = "delivery" =>
                Uncounted' + 1 = Uncounted
           /\ row.kind = "event" => Uncounted' = 0 /\ Uncounted = 0
<1>1. PICK k, l : k = Cardinality(Working) /\ l = Cardinality(Working')
    OBVIOUS
<1>2. k \in Nat
    BY <1>1, WorkingIsFinite
<1>3. w \in Working => k > 0
    BY <1>1, WorkingIsFinite, FS_EmptySet
<1>4. l = IF c.at = "working" THEN IF consumer[w].at = "working" THEN k ELSE k + 1
          ELSE IF consumer[w].at = "working" THEN k - 1 ELSE k
    BY <1>1, OneConsumer
<1>5. l \in Nat
    BY <1>2, <1>3, <1>4 DEF Working
<1>6. Uncounted = (IF row.kind = "delivery" THEN k ELSE 0)
      /\ Uncounted' = (IF row.kind = "delivery" THEN l ELSE 0)
    BY <1>1 DEF Uncounted
<1>7. row.kind = "event" => row.kind # "delivery"
    OBVIOUS
<1>8. /\ c.at # "working" => l <= k
      /\ c.at = "working" => l <= k + 1
      /\ c.at # "working" /\ consumer[w].at = "working" => l + 1 = k
    BY <1>2, <1>4
<1>9. QED
    BY <1>2, <1>5, <1>6, <1>7, <1>8

\* A consumer that is not at work any more, or never was, costs nothing.
LEMMA RestCosts ==
    ASSUME QInv, NEW w \in Consumers, NEW c, consumer' = [consumer EXCEPT ![w] = c],
           row'.kind = row.kind, c.at # "working", runs' = runs
    PROVE  Grows /\ Uncounted' \in Nat
<1>1. Uncounted' \in Nat /\ Uncounted \in Nat /\ Uncounted' <= Uncounted /\ runs \in Nat
    BY NothingCounted, QueueKnows DEF QueueFacts
<1>2. \A u, v, r \in Nat : v <= u => r - u <= r - v
    OBVIOUS
<1>3. QED
    BY <1>1, <1>2 DEF Grows

\* A consumer that crashes keeps the invariant: its run was counted.
LEMMA CrashKeeps ==
    ASSUME QInv, NEW w \in Consumers, Crash(w)
    PROVE  QInv'
<1>1. /\ consumer' = [consumer EXCEPT ![w] = Resting] /\ UNCHANGED <<row, runs, sending>>
      /\ crashes' \in 0..MaxCrashes /\ crashes' > 0
    BY QueueKnows DEF Crash, QueueFacts
<1>2. Resting.at = "rest"
    BY DEF Resting
<1>3. Grows /\ Uncounted' \in Nat
    BY <1>1, <1>2, RestCosts
<1>4. QueueFacts /\ runs' >= runs
    BY <1>1, QueueKnows DEF QueueFacts
<1>5. Backed(row.attempts)'
    <2>1. PICK a : a = row.attempts
        OBVIOUS
    <2>2. QueueFacts'
        BY <1>1, <1>3, <1>4 DEF QueueFacts
    <2>3. Backed(a)'
        BY <1>3, <1>4, <2>1, <2>2, BackedStays DEF QInv, QueueFacts
    <2>4. QED
        BY <1>1, <2>1, <2>3
<1>6. SoundConsumer(Resting)'
    BY RestingIsSound, <1>2 DEF SoundConsumer
<1>7. QED
    BY <1>1, <1>3, <1>4, <1>5, <1>6, ConsumerTurns DEF QInv, QueueFacts, GivesUpLast

\* A retry that falls due keeps the invariant.
LEMMA DueKeeps ==
    ASSUME QInv, FallDue
    PROVE  QInv'
<1>1. /\ row' = [row EXCEPT !.waiting = FALSE]
      /\ UNCHANGED <<consumer, crashes, runs, sending>> /\ row \in QueueRow
    BY QueueKnows DEF FallDue, QueueFacts
<1>2. row' \in QueueRow
    BY <1>1 DEF QueueRow
<1>3. row'.kind = row.kind /\ row'.status = row.status /\ row'.attempts = row.attempts
    BY <1>1 DEF QueueRow
<1>4. DOMAIN row' = DOMAIN row
    BY <1>1
<1>5. Uncounted' = Uncounted
    BY <1>1, <1>3 DEF Uncounted, Working
<1>6. \A c : SoundConsumer(c) => SoundConsumer(c)'
    BY <1>1, <1>3, <1>5 DEF SoundConsumer, Backed
<1>7. \A w \in Consumers : SoundConsumer(consumer[w])'
    <2>1. TAKE w \in Consumers
    <2>2. PICK c : c = consumer[w]
        OBVIOUS
    <2>3. SoundConsumer(c)'
        BY <1>6, <2>2 DEF QInv
    <2>4. QED
        BY <1>1, <2>2, <2>3
<1>8. QueueTypeOK' /\ GivesUpLast' /\ Backed(row.attempts)'
    BY <1>1, <1>2, <1>3, <1>4, <1>5 DEF QInv, QueueTypeOK, GivesUpLast, Backed
<1>9. \A s \in Callers : SoundCall(sending[s])'
    BY <1>1 DEF QInv, SoundCall, Calling
<1>10. QED
    BY <1>1, <1>3, <1>7, <1>8, <1>9 DEF QInv, Finisher

\* A consumer that reads the row keeps the invariant.
LEMMA FetchKeeps ==
    ASSUME QInv, NEW w \in Consumers, Fetch(w)
    PROVE  QInv'
<1>1. /\ QueueFacts /\ consumer[w].at = "rest" /\ consumer[w] = Resting
      /\ row.status = "pending" /\ UNCHANGED <<row, crashes, sending>>
    BY QueueKnows DEF Fetch, Pending, Resting
<1>2. PICK at : at = IF row.kind = "event" THEN "fetched" ELSE "working"
    OBVIOUS
<1>3. PICK c : c = [at |-> at, set |-> NoColumn]
    OBVIOUS
<1>4. consumer' = [consumer EXCEPT ![w] = c]
    <2>1. consumer' = [consumer EXCEPT ![w].at = at]
        BY <1>2 DEF Fetch
    <2>2. [Resting EXCEPT !.at = at] = c
        BY <1>3 DEF Resting
    <2>3. w \in DOMAIN consumer
        BY DEF QInv
    <2>4. [consumer EXCEPT ![w].at = at] = [consumer EXCEPT ![w] = [consumer[w] EXCEPT !.at = at]]
        BY <2>3
    <2>5. QED
        BY <1>1, <2>1, <2>2, <2>4
<1>5. /\ runs' \in 0..MaxRetries /\ runs' >= runs
      /\ row.kind = "event" => runs' = runs
      /\ row.kind = "delivery" => runs' >= MaxRetries \/ runs' = runs + 1
    BY <1>1 DEF Fetch, OneRunMore, QueueFacts
<1>6. Grows /\ Uncounted' \in Nat
    <2>1. c.at = at /\ row'.kind = row.kind
        BY <1>1, <1>3
    <2>2. CASE row.kind = "event"
        <3>1. c.at # "working" /\ runs' = runs
            BY <1>2, <1>5, <2>1, <2>2
        <3>2. QED
            BY <1>4, <2>1, <3>1, RestCosts
    <2>3. CASE row.kind = "delivery"
        <3>1. Uncounted' \in Nat /\ Uncounted \in Nat /\ Uncounted' <= Uncounted + 1 /\ runs \in Nat
            <4>1. c.at = "working"
                BY <1>2, <2>1, <2>3
            <4>2. QED
                BY <1>1, <1>4, <2>1, <4>1, NothingCounted DEF QueueFacts
        <3>2. \A u, v, r \in Nat : v <= u + 1 => r - u <= (r + 1) - v
            OBVIOUS
        <3>3. QED
            BY <1>5, <2>3, <3>1, <3>2 DEF Grows
    <2>4. QED
        BY <1>1, <2>2, <2>3 DEF QueueFacts
<1>7. QueueFacts'
    BY <1>1, <1>5, <1>6 DEF QueueFacts
<1>8. Backed(row.attempts)'
    <2>1. PICK a : a = row.attempts
        OBVIOUS
    <2>2. Backed(a)'
        BY <1>1, <1>5, <1>6, <1>7, <2>1, BackedStays DEF QInv, QueueFacts
    <2>3. QED
        BY <1>1, <2>1, <2>2
<1>9. SoundConsumer(c)'
    BY <1>1, <1>2, <1>3, RestingIsSound DEF SoundConsumer, QueueFacts
<1>10. GivesUpLast'
    BY <1>1 DEF GivesUpLast
<1>11. row'.status # "processing"
    BY <1>1
<1>12. QED
    BY <1>1, <1>4, <1>5, <1>6, <1>8, <1>9, <1>10, <1>11, ConsumerTurns DEF QueueFacts

\* A consumer that leaves the row alone.
LEMMA DraftKeeps ==
    ASSUME QInv, NEW w \in Consumers, NEW c, consumer' = [consumer EXCEPT ![w] = c],
           UNCHANGED <<row, crashes, runs, sending>>, c.at # "working", SoundConsumer(c)',
           row.kind = "event" /\ row.status = "processing" =>
             Finisher(c) \/ (\E x \in Consumers \ {w} : Finisher(consumer[x])) \/ crashes > 0
    PROVE  QInv'
<1>1. QueueFacts /\ runs' >= runs /\ row'.kind = row.kind
    BY QueueKnows DEF QueueFacts
<1>2. Grows /\ Uncounted' \in Nat
    BY <1>1, RestCosts
<1>3. QueueFacts'
    BY <1>1, <1>2 DEF QueueFacts
<1>4. Backed(row.attempts)'
    <2>1. PICK a : a = row.attempts
        OBVIOUS
    <2>2. Backed(a)'
        BY <1>1, <1>2, <1>3, <2>1, BackedStays DEF QInv, QueueFacts
    <2>3. QED
        BY <2>1, <2>2
<1>5. row.kind = "event" /\ row'.status = "processing" =>
        crashes' > 0 \/ \E x \in Consumers : Finisher(consumer[x])'
    <2>1. consumer'[w] = c /\ \A v \in Consumers \ {w} : consumer'[v] = consumer[v]
        BY OneConsumer
    <2>2. QED
        BY <2>1 DEF Finisher
<1>6. GivesUpLast'
    BY DEF QInv, GivesUpLast
<1>7. QED
    BY <1>1, <1>2, <1>4, <1>5, <1>6, ConsumerTurns DEF QueueFacts

\* A consumer that marks the row as processing drafts sound columns.
LEMMA MarkKeeps ==
    ASSUME QInv, NEW w \in Consumers, MarkProcessing(w)
    PROVE  QInv'
<1>1. /\ QueueFacts /\ consumer[w].at = "fetched" /\ SoundConsumer(consumer[w])
      /\ UNCHANGED <<row, crashes, runs, sending>>
    BY QueueKnows DEF MarkProcessing, QInv
<1>2. row.kind = "event"
    BY <1>1 DEF SoundConsumer
<1>3. ~Finisher(consumer[w])
    BY <1>1 DEF Finisher
<1>4. row.status = "processing" =>
        (\E x \in Consumers \ {w} : Finisher(consumer[x])) \/ crashes > 0
    BY <1>2, <1>3 DEF QInv
<1>5. CASE row.status = "pending"
    <2>1. PICK set : set = Marked
        OBVIOUS
    <2>2. /\ DOMAIN set = {"status", "attempts"}
          /\ set["status"] = "processing" /\ set["attempts"] = row.attempts + 1
        BY <2>1 DEF Marked
    <2>3. SoundColumns(set)
        BY <1>1, <2>2 DEF SoundColumns, QueueFacts, RowColumns, RowStates
    <2>4. PICK e : e = Changing(set)
        OBVIOUS
    <2>5. /\ SoundColumns(e) /\ DOMAIN e \subseteq {"status", "attempts"}
          /\ \A c \in DOMAIN e : e[c] = set[c]
          /\ \A c \in DOMAIN set : set[c] # row[c] => c \in DOMAIN e
        BY <1>1, <2>2, <2>3, <2>4, ChangingKeeps DEF QueueFacts
    <2>6. "status" \in DOMAIN e /\ "attempts" \in DOMAIN e
        BY <1>1, <1>5, <2>2, <2>5 DEF QueueFacts
    <2>7. PICK c : c = [at |-> "marking", set |-> e]
        OBVIOUS
    <2>8. consumer' = [consumer EXCEPT ![w] = c]
        BY <1>5, <2>1, <2>4, <2>7 DEF MarkProcessing, Draft
    <2>9. runs >= MaxRetries \/ row.attempts + 1 <= runs + 1
        <3>1. row'.kind = row.kind
            BY <1>1
        <3>2. Uncounted = 0
            BY <1>2, <2>8, <3>1, NothingCounted
        <3>3. QED
            BY <1>1, <3>2 DEF QInv, Backed, QueueFacts
    <2>10. SoundConsumer(c)'
        BY <1>1, <1>2, <2>2, <2>5, <2>6, <2>7, <2>9 DEF SoundConsumer
    <2>11. QED
        BY <1>1, <1>4, <2>7, <2>8, <2>10, DraftKeeps
<1>6. CASE row.status # "pending"
    <2>1. consumer' = [consumer EXCEPT ![w] = Resting]
        BY <1>6 DEF MarkProcessing
    <2>2. Resting.at = "rest"
        BY DEF Resting
    <2>3. SoundConsumer(Resting)'
        BY RestingIsSound, <2>2 DEF SoundConsumer
    <2>4. QED
        BY <1>1, <1>4, <2>1, <2>2, <2>3, DraftKeeps
<1>7. QED
    BY <1>5, <1>6

\* What a consumer writes when it is done.
LEMMA OutcomeSound ==
    ASSUME QueueFacts, NEW set, set \in {Done, Failed}
    PROVE  /\ SoundColumns(set)
           /\ "status" \in DOMAIN set => set["status"] # "processing"
           /\ row.kind = "event" => "status" \in DOMAIN set
           /\ "status" \in DOMAIN set /\ set["status"] = "failed" => Attempts >= MaxRetries
           /\ "attempts" \in DOMAIN set => set["attempts"] = Attempts
<1>1. Attempts \in Nat /\ row.attempts \in Nat
    BY DEF Attempts, QueueFacts
<1>2. CASE set = Done
    <2>1. CASE row.kind = "event"
        <3>1. DOMAIN set = {"status"} /\ set["status"] = "completed"
            BY <1>2, <2>1 DEF Done
        <3>2. QED
            BY <3>1 DEF SoundColumns, RowColumns, RowStates
    <2>2. CASE row.kind # "event"
        <3>1. DOMAIN set = {"status", "attempts"} /\ set["status"] = "completed"
              /\ set["attempts"] = Attempts
            BY <1>2, <2>2 DEF Done, Attempts
        <3>2. QED
            BY <1>1, <2>2, <3>1 DEF SoundColumns, RowColumns, RowStates
    <2>3. QED
        BY <2>1, <2>2
<1>3. CASE set = Failed
    <2>1. CASE Attempts >= MaxRetries
        <3>1. DOMAIN set = {"status", "attempts"} /\ set["status"] = "failed"
              /\ set["attempts"] = Attempts
            BY <1>3, <2>1 DEF Failed
        <3>2. QED
            BY <1>1, <2>1, <3>1 DEF SoundColumns, RowColumns, RowStates
    <2>2. CASE ~(Attempts >= MaxRetries) /\ row.kind = "event"
        <3>1. set = [status |-> "pending", waiting |-> TRUE]
            BY <1>3, <2>2 DEF Failed, RetryLater
        <3>2. DOMAIN set = {"status", "waiting"} /\ set["status"] = "pending" /\ set["waiting"] = TRUE
            BY <3>1
        <3>3. QED
            BY <3>2 DEF SoundColumns, RowColumns, RowStates
    <2>3. CASE ~(Attempts >= MaxRetries) /\ row.kind # "event"
        <3>1. set = [attempts |-> Attempts, waiting |-> TRUE]
            BY <1>3, <2>3 DEF Failed, RetryLater
        <3>2. DOMAIN set = {"attempts", "waiting"} /\ set["attempts"] = Attempts /\ set["waiting"] = TRUE
            BY <3>1
        <3>3. QED
            BY <1>1, <2>3, <3>2 DEF SoundColumns, RowColumns, RowStates
    <2>4. QED
        BY <2>1, <2>2, <2>3
<1>4. QED
    BY <1>2, <1>3

\* A run that ends drafts columns with one more attempt, and gives up no
\* earlier than after the last.
LEMMA FinishKeeps ==
    ASSUME QInv, NEW w \in Consumers, Finish(w)
    PROVE  QInv'
<1>1. /\ QueueFacts /\ consumer[w].at = "working" /\ UNCHANGED <<row, crashes, runs, sending>>
      /\ row'.kind = row.kind
    BY QueueKnows DEF Finish
<1>2. PICK set \in {Done, Failed} : consumer' = Draft(w, "finishing", set)
    BY DEF Finish
<1>3. PICK e : e = Changing(set)
    OBVIOUS
<1>4. PICK c : c = [at |-> "finishing", set |-> e]
    OBVIOUS
<1>5. consumer' = [consumer EXCEPT ![w] = c] /\ c.at = "finishing" /\ c.set = e
      /\ DOMAIN c = {"at", "set"}
    BY <1>2, <1>3, <1>4 DEF Draft
<1>6. /\ SoundColumns(set)
      /\ "status" \in DOMAIN set => set["status"] # "processing"
      /\ row.kind = "event" => "status" \in DOMAIN set
      /\ "status" \in DOMAIN set /\ set["status"] = "failed" => Attempts >= MaxRetries
      /\ "attempts" \in DOMAIN set => set["attempts"] = Attempts
    BY <1>1, <1>2, OutcomeSound
<1>7. /\ SoundColumns(e) /\ DOMAIN e \subseteq DOMAIN set
      /\ \A x \in DOMAIN e : e[x] = set[x]
      /\ \A x \in DOMAIN set : set[x] # row[x] => x \in DOMAIN e
      /\ \A x \in DOMAIN e : x = "waiting" \/ set[x] # row[x]
    BY <1>1, <1>3, <1>6, ChangingKeeps DEF QueueFacts
<1>8. row.kind = "delivery" => Uncounted' + 1 = Uncounted /\ Uncounted' \in Nat
    BY <1>1, <1>5, NothingCounted
<1>9. row.kind = "event" => Uncounted' = 0 /\ Uncounted = 0
    BY <1>1, <1>5, NothingCounted
<1>10. row.kind = "event" => Attempts = row.attempts
    BY DEF Attempts
<1>11. row.kind = "delivery" => Attempts = row.attempts + 1
    BY DEF Attempts
<1>12. Backed(Attempts)'
    <2>1. PICK a, u, v, r, m : /\ a = row.attempts /\ u = Uncounted /\ v = Uncounted'
                               /\ r = runs /\ m = MaxRetries
        OBVIOUS
    <2>2. a \in Nat /\ u \in Nat /\ r \in Nat /\ m \in Nat /\ (r >= m \/ a + u <= r)
        BY <1>1, <2>1 DEF QueueFacts, QInv, Backed
    <2>3. \/ v = 0 /\ u = 0 /\ Attempts = a
          \/ v + 1 = u /\ v \in Nat /\ Attempts = a + 1
        BY <1>1, <1>8, <1>9, <1>10, <1>11, <2>1 DEF QueueFacts
    <2>4. r >= m \/ Attempts + v <= r
        BY <2>2, <2>3
    <2>5. Attempts' = Attempts
        BY <1>1 DEF Attempts
    <2>6. QED
        BY <1>1, <2>1, <2>4, <2>5 DEF Backed
<1>13. Attempts >= MaxRetries => runs >= MaxRetries
    <2>1. Uncounted' \in Nat /\ runs \in Nat /\ MaxRetries \in Nat /\ runs' = runs /\ Attempts' = Attempts
          /\ Attempts \in Nat
        BY <1>1, <1>8, <1>9 DEF QueueFacts, Attempts
    <2>2. \A a, v, r, m \in Nat : (r >= m \/ a + v <= r) /\ a >= m => r >= m
        OBVIOUS
    <2>3. QED
        BY <1>12, <2>1, <2>2 DEF Backed
<1>14. SoundConsumer(c)'
    <2>1. "attempts" \in DOMAIN e => e["attempts"] = Attempts
        BY <1>6, <1>7
    <2>2. "status" \in DOMAIN e => e["status"] # "processing"
                                   /\ (e["status"] = "failed" => runs >= MaxRetries)
        BY <1>6, <1>7, <1>13
    <2>3. "attempts" \in DOMAIN e => Backed(e["attempts"])'
        BY <1>1, <1>12, <2>1 DEF Attempts
    <2>4. QED
        BY <1>1, <1>5, <1>7, <2>2, <2>3 DEF SoundConsumer
<1>15. row.kind = "event" /\ row.status = "processing" => Finisher(c)
    BY <1>1, <1>5, <1>6, <1>7 DEF Finisher
<1>16. QED
    BY <1>1, <1>5, <1>14, <1>15, DraftKeeps

\* The commit of a mark begins a run: it is not counted until it ends.
LEMMA CommitMarking ==
    ASSUME QInv, NEW w \in Consumers, CommitRow(w), consumer[w].at = "marking"
    PROVE  QInv'
<1>1. PICK d : d = consumer[w]
    OBVIOUS
<1>2. QueueFacts /\ SoundConsumer(d) /\ d.at = "marking"
    BY <1>1, QueueKnows DEF QInv
<1>3. /\ SoundColumns(d.set) /\ row.kind = "event"
      /\ {"status", "attempts"} \subseteq DOMAIN d.set /\ d.set["status"] = "processing"
      /\ runs >= MaxRetries \/ d.set["attempts"] <= runs + 1
    BY <1>2 DEF SoundConsumer
<1>4. /\ row' = Overlay(d.set, row) /\ runs' = OneRunMore /\ UNCHANGED <<crashes, sending>>
    BY <1>1 DEF CommitRow
<1>5. /\ row' \in QueueRow /\ row'.kind = row.kind
      /\ row'["status"] = "processing" /\ row'["attempts"] = d.set["attempts"]
    BY <1>2, <1>3, <1>4, RowOverlay DEF QueueFacts, RowColumns
<1>6. PICK c : c = [at |-> "working", set |-> NoColumn]
    OBVIOUS
<1>7. consumer' = [consumer EXCEPT ![w] = c]
    BY <1>6 DEF CommitRow
<1>8. Uncounted' = 0 /\ Uncounted = 0
    BY <1>3, <1>5, <1>7, NothingCounted
<1>9. /\ runs' \in 0..MaxRetries /\ runs' >= runs
      /\ runs' >= MaxRetries \/ runs' = runs + 1
    BY <1>2, <1>4 DEF OneRunMore, QueueFacts
<1>10. Grows
    <2>1. \A r, rr \in Nat : rr >= r => r - 0 <= rr - 0
        OBVIOUS
    <2>2. runs \in Nat /\ runs' \in Nat
        BY <1>2, <1>9 DEF QueueFacts
    <2>3. runs - 0 <= runs' - 0
        BY <1>9, <2>1, <2>2
    <2>4. QED
        BY <1>8, <2>3 DEF Grows
<1>11. Backed(row.attempts)'
    BY <1>2, <1>3, <1>5, <1>8, <1>9 DEF Backed, QueueFacts, SoundColumns
<1>12. SoundConsumer(c)'
    <2>1. c.at = "working" /\ c.set = NoColumn /\ DOMAIN c = {"at", "set"}
        BY <1>6
    <2>2. QED
        BY <2>1, RestingIsSound DEF SoundConsumer
<1>13. Finisher(consumer[w])'
    BY <1>6, <1>7 DEF Finisher, QInv
<1>14. GivesUpLast'
    BY <1>5 DEF GivesUpLast
<1>15. QED
    BY <1>2, <1>4, <1>5, <1>7, <1>8, <1>9, <1>10, <1>11, <1>12, <1>13, <1>14, ConsumerTurns
       DEF QueueFacts

\* The commit of an outcome counts its run.
LEMMA CommitFinishing ==
    ASSUME QInv, NEW w \in Consumers, CommitRow(w), consumer[w].at = "finishing"
    PROVE  QInv'
<1>1. PICK d : d = consumer[w]
    OBVIOUS
<1>2. QueueFacts /\ SoundConsumer(d) /\ d.at = "finishing"
    BY <1>1, QueueKnows DEF QInv
<1>3. /\ SoundColumns(d.set)
      /\ "status" \in DOMAIN d.set => /\ d.set["status"] # "processing"
                                      /\ d.set["status"] = "failed" => runs >= MaxRetries
      /\ "attempts" \in DOMAIN d.set => Backed(d.set["attempts"])
    BY <1>2 DEF SoundConsumer
<1>4. /\ row' = Overlay(d.set, row) /\ runs' = runs /\ UNCHANGED <<crashes, sending>>
      /\ consumer' = [consumer EXCEPT ![w] = Resting]
    BY <1>1, <1>2 DEF CommitRow
<1>5. /\ row' \in QueueRow /\ row'.kind = row.kind
      /\ row'["status"] = IF "status" \in DOMAIN d.set THEN d.set["status"] ELSE row["status"]
      /\ row'["attempts"] = IF "attempts" \in DOMAIN d.set THEN d.set["attempts"] ELSE row["attempts"]
    BY <1>2, <1>3, <1>4, RowOverlay DEF QueueFacts, RowColumns
<1>6. Resting.at = "rest"
    BY DEF Resting
<1>7. Grows /\ Uncounted' \in Nat
    BY <1>4, <1>5, <1>6, RestCosts
<1>8. QueueFacts' /\ runs' >= runs
    BY <1>2, <1>4, <1>5, <1>7, RowParts DEF QueueFacts
<1>9. Backed(row.attempts)'
    <2>1. PICK a : a = row'["attempts"]
        OBVIOUS
    <2>2. a \in Nat /\ Backed(a)
        BY <1>2, <1>3, <1>5, <2>1 DEF QInv, SoundColumns, QueueFacts
    <2>3. Backed(a)'
        BY <1>2, <1>7, <1>8, <2>2, BackedStays
    <2>4. QED
        BY <2>1, <2>3
<1>10. GivesUpLast'
    BY <1>3, <1>4, <1>5 DEF QInv, GivesUpLast
<1>11. row.kind = "event" /\ row'.status = "processing" =>
         crashes' > 0 \/ \E x \in Consumers : Finisher(consumer[x])'
    <2>1. SUFFICES ASSUME row.kind = "event", row'.status = "processing"
                   PROVE  crashes' > 0 \/ \E x \in Consumers : Finisher(consumer[x])'
        OBVIOUS
    <2>2. "status" \notin DOMAIN d.set /\ row.status = "processing"
        BY <1>3, <1>5, <2>1
    <2>3. ~Finisher(consumer[w])
        BY <1>1, <1>2, <2>2 DEF Finisher
    <2>4. \A v \in Consumers \ {w} : consumer'[v] = consumer[v]
        BY <1>4, OneConsumer
    <2>5. QED
        BY <1>4, <2>1, <2>2, <2>3, <2>4 DEF QInv, Finisher
<1>12. SoundConsumer(Resting)'
    BY RestingIsSound, <1>6 DEF SoundConsumer
<1>13. QED
    BY <1>2, <1>4, <1>5, <1>7, <1>8, <1>9, <1>10, <1>11, <1>12, ConsumerTurns DEF QueueFacts

\* The tasks that send a webhook touch nothing else.
LEMMA CallKeeps ==
    ASSUME QInv, NEW s \in Callers, NEW c, sending' = [sending EXCEPT ![s] = c],
           UNCHANGED <<row, consumer, crashes, runs>>, SoundCall(c)
    PROVE  QInv'
<1>1. sending' \in [Callers -> Calling]
    BY DEF QInv, QueueTypeOK, SoundCall
<1>2. \A t \in Callers : SoundCall(sending[t])'
    BY DEF QInv, QueueTypeOK, SoundCall, Calling
<1>3. QueueTypeOK' /\ GivesUpLast'
    BY <1>1 DEF QInv, QueueTypeOK, GivesUpLast
<1>4. Uncounted' = Uncounted
    BY DEF Uncounted, Working
<1>5. \A w \in Consumers : SoundConsumer(consumer[w])'
    BY <1>4 DEF QInv, SoundConsumer, Backed
<1>6. Backed(row.attempts)'
    BY <1>4 DEF QInv, Backed
<1>7. QED
    BY <1>2, <1>3, <1>5, <1>6 DEF QInv, Finisher

\* A call of httpx that has posted at most RetryLimit times is sound.
LEMMA CallMade ==
    ASSUME NEW state \in {"idle", "post", "answered", "given up"}, NEW r \in Nat, NEW n \in Nat,
           n <= RetryLimit, state = "post" => n = r /\ r < RetryLimit
    PROVE  SoundCall([state |-> state, retry |-> r, posts |-> n])
<1>1. PICK c : c = [state |-> state, retry |-> r, posts |-> n]
    OBVIOUS
<1>2. c \in Calling
    BY <1>1 DEF Calling
<1>3. c.state = state /\ c.retry = r /\ c.posts = n
    BY <1>1
<1>4. SoundCall(c)
    BY <1>2, <1>3 DEF SoundCall
<1>5. QED
    BY <1>1, <1>4

\* One more post of a call keeps the bound.
LEMMA PostKeeps ==
    ASSUME QInv, NEW s \in Callers, Post(s)
    PROVE  QInv'
<1>1. PICK b : b = sending[s]
    OBVIOUS
<1>2. /\ b = [state |-> b.state, retry |-> b.retry, posts |-> b.posts]
      /\ b.state = "post" /\ b.retry \in Nat /\ b.posts \in Nat /\ b.posts = b.retry
      /\ b.retry < RetryLimit /\ RetryLimit \in Nat
    BY <1>1, QueueAssumption DEF Post, QInv, SoundCall, Calling
<1>3. PICK c : c = [b EXCEPT !.posts = @ + 1]
    OBVIOUS
<1>4. c = [state |-> "post", retry |-> b.retry, posts |-> b.posts + 1]
    BY <1>2, <1>3
<1>5. sending' \in {[sending EXCEPT ![s] = [c EXCEPT !.state = "answered"]],
                    [sending EXCEPT ![s] = Retried(c)]}
    BY <1>1, <1>3 DEF Post
<1>6. SoundCall([c EXCEPT !.state = "answered"])
    <2>1. [c EXCEPT !.state = "answered"] = [state |-> "answered", retry |-> b.retry, posts |-> b.posts + 1]
        BY <1>4
    <2>2. b.posts + 1 \in Nat /\ b.posts + 1 <= RetryLimit
        BY <1>2
    <2>3. QED
        BY <1>2, <2>1, <2>2, CallMade
<1>7. SoundCall(Retried(c))
    <2>1. CASE b.retry < RetryLimit - 1
        <3>1. Retried(c) = [state |-> "post", retry |-> b.retry + 1, posts |-> b.posts + 1]
            BY <1>4, <2>1 DEF Retried
        <3>2. b.posts + 1 \in Nat /\ b.posts + 1 <= RetryLimit /\ b.retry + 1 < RetryLimit
              /\ b.retry + 1 \in Nat
            BY <1>2, <2>1
        <3>3. QED
            BY <1>2, <3>1, <3>2, CallMade
    <2>2. CASE ~(b.retry < RetryLimit - 1)
        <3>1. Retried(c) = [state |-> "given up", retry |-> b.retry, posts |-> b.posts + 1]
            BY <1>4, <2>2 DEF Retried
        <3>2. b.posts + 1 \in Nat /\ b.posts + 1 <= RetryLimit
            BY <1>2
        <3>3. QED
            BY <1>2, <3>1, <3>2, CallMade
    <2>3. QED
        BY <2>1, <2>2
<1>8. UNCHANGED <<row, consumer, crashes, runs>>
    BY DEF Post
<1>9. QED
    BY <1>5, <1>6, <1>7, <1>8, CallKeeps

\* A call that starts, or is repeated by hand, keeps it too.
LEMMA SendKeeps ==
    ASSUME QInv, NEW s \in Callers, Send(s) \/ Resend(s)
    PROVE  QInv'
<1>1. PICK c : c = [state |-> "post", retry |-> 0, posts |-> 0]
    OBVIOUS
<1>2. SoundCall(c)
    BY <1>1, QueueAssumption DEF SoundCall, Calling
<1>3. sending' = [sending EXCEPT ![s] = c] /\ UNCHANGED <<row, consumer, crashes, runs>>
    BY <1>1 DEF Send, Resend
<1>4. QED
    BY <1>2, <1>3, CallKeeps

\* Every step of the queue keeps the invariant.
LEMMA QueueStepKeeps ==
    ASSUME QInv, [QueueNext]_queueVars
    PROVE  QInv'
<1>1. CASE UNCHANGED queueVars
    <2>1. Uncounted' = Uncounted
        BY <1>1 DEF queueVars, Uncounted, Working
    <2>2. QED
        BY <1>1, <2>1 DEF queueVars, QInv, QueueTypeOK, SoundConsumer, Backed, GivesUpLast, Finisher,
           SoundCall, Calling
<1>2. ASSUME NEW w \in Consumers, CommitRow(w) PROVE QInv'
    <2>1. consumer[w].at \in {"marking", "finishing"}
        BY <1>2 DEF CommitRow
    <2>2. QED
        BY <1>2, <2>1, CommitMarking, CommitFinishing
<1>3. QED
    BY <1>1, <1>2, FetchKeeps, MarkKeeps, FinishKeeps, CrashKeeps, DueKeeps, SendKeeps, PostKeeps
       DEF QueueNext, QueueStep

\* The inductive invariant of the queue is an invariant: the attempts of a
\* row are backed by runs, and an event left in processing has a consumer, or
\* one that crashed (event_queue.py, webhook_service.py).
THEOREM QueueInvariant == QueueInit /\ [][QueueNext]_queueVars => []QInv
    BY QueueInitially, QueueStepKeeps, PTL

\* The invariant implies the three properties: the last attempt gives up and
\* none before it, only a crash leaves an event in processing, and posts are
\* bounded.
LEMMA QueueInvariantHolds ==
    ASSUME QInv
    PROVE  GivesUpLast /\ LeftOnlyByCrash /\ PostsAreBounded
<1>1. LeftOnlyByCrash
    <2>1. Resting.at = "rest"
        BY DEF Resting
    <2>2. \A w \in Consumers : consumer[w] = Resting => ~Finisher(consumer[w])
        BY <2>1 DEF Finisher
    <2>3. QED
        BY <2>2 DEF QInv, LeftOnlyByCrash
<1>2. QED
    BY <1>1 DEF QInv, PostsAreBounded, SoundCall

(***************************************************************************)
(* Idempotency keys (Idempotency). Of the requests behind one key the one  *)
(* whose row is there works, alone, and its row is not stale.              *)
(***************************************************************************)
Busy(r) == asking[r].at \in {"handler", "save", "fail"}

\* What a request may delete: a row that expired, or that nobody answers from.
Deletable == \/ keyRow.stale \/ keyRow.state = "failed"
             \/ keyRow.state = "completed" /\ ~keyRow.body

OwnsTheRow == \A r \in Askers : Busy(r) =>
    /\ asking[r].own = keyRow.id /\ keyRow.id > 0
    /\ keyRow.state = "processing" /\ ~keyRow.stale

OneIsBusy == \A r, s \in Askers : Busy(r) /\ Busy(s) => r = s

DropsWhatIsOver == \A r \in Askers : asking[r].at = "drop" =>
    asking[r].own \in 1..keyRows /\ (asking[r].own = keyRow.id => Deletable)

AnswerIsKept == answered > 0 =>
    /\ answered = 1 /\ keyRow.id > 0 /\ ~keyRow.stale
    /\ \/ keyRow.state = "completed" /\ keyRow.body
       \/ /\ keyRow.state = "processing"
          /\ \A r \in Askers : Busy(r) => asking[r].at = "save" /\ asking[r].body

SomebodyIsBusy == keyRow.id > 0 /\ keyRow.state = "processing" =>
    vanished \/ \E r \in Askers : Busy(r)

ByMiddleware == OwnsTheRow /\ OneIsBusy /\ DropsWhatIsOver /\ AnswerIsKept /\ SomebodyIsBusy

AInv ==
    /\ KeyTypeOK
    /\ way = "middleware" => ByMiddleware

\* The invariant holds before anybody asks.
LEMMA KeyInitially ==
    ASSUME KeyInit
    PROVE  AInv
<1>1. KeyTypeOK
    <2>1. NoRow \in KeyRow /\ NoRow.id = 0 /\ Quiet \in Asker
        BY KeyAssumption DEF KeyRow, NoRow, Asker, Quiet
    <2>2. keyRow \in KeyRow /\ keyRow.id <= keyRows /\ keyRows \in 0..MaxKeyRows
        BY <2>1, KeyAssumption DEF KeyInit
    <2>3. asking \in [Askers -> Asker]
        BY <2>1 DEF KeyInit
    <2>4. (keyRow.id = 0 => keyRow = NoRow) /\ way \in {"middleware", "function"}
          /\ vanished \in BOOLEAN
        BY DEF KeyInit
    <2>5. answered \in 0..2
        BY DEF KeyInit
    <2>6. QED
        BY <2>2, <2>3, <2>4, <2>5 DEF KeyTypeOK
<1>2. \A r \in Askers : asking[r].at = "idle"
    BY DEF KeyInit, Quiet
<1>3. keyRow.id = 0 /\ answered = 0
    BY DEF KeyInit, NoRow
<1>4. ByMiddleware
    BY <1>2, <1>3 DEF ByMiddleware, OwnsTheRow, OneIsBusy, DropsWhatIsOver, AnswerIsKept,
       SomebodyIsBusy, Busy
<1>5. QED
    BY <1>1, <1>4 DEF AInv

\* The fields of a request.
LEMMA AskerTypes ==
    ASSUME KeyTypeOK, NEW r \in Askers
    PROVE  /\ asking[r] = [at |-> asking[r].at, own |-> asking[r].own, body |-> asking[r].body]
           /\ asking[r].at \in {"idle", "unseen", "drop", "handler", "save", "fail"}
           /\ asking[r].own \in 0..MaxKeyRows /\ asking[r].body \in BOOLEAN
    BY DEF KeyTypeOK, Asker

\* A request that goes on leaves the others.
LEMMA TurnChanges ==
    ASSUME KeyTypeOK, NEW r \in Askers, NEW at, NEW own, Turn(r, at, own),
           at \in {"idle", "unseen", "drop", "handler", "save", "fail"}, own \in 0..MaxKeyRows
    PROVE  /\ asking' \in [Askers -> Asker]
           /\ asking'[r].at = at /\ asking'[r].own = own
           /\ \A s \in Askers \ {r} : asking'[s] = asking[s]
    BY DEF KeyTypeOK, Asker, Turn

\* A request that ends leaves the others.
LEMMA QuietChanges ==
    ASSUME KeyTypeOK, NEW r \in Askers, asking' = [asking EXCEPT ![r] = Quiet]
    PROVE  /\ asking' \in [Askers -> Asker]
           /\ asking'[r].at = "idle"
           /\ \A s \in Askers \ {r} : asking'[s] = asking[s]
    BY KeyAssumption DEF KeyTypeOK, Asker, Quiet

\* A request that looks for the key keeps the invariant.
LEMMA LookKeeps ==
    ASSUME AInv, NEW r \in Askers, Look(r)
    PROVE  AInv'
<1>1. KeyTypeOK /\ ~Busy(r) /\ asking[r].at = "idle" /\ 0 \in 0..MaxKeyRows
      /\ keyRow.id \in 0..MaxKeyRows
    BY KeyAssumption DEF AInv, Look, Busy, Quiet, KeyTypeOK, KeyRow
<1>2. PICK at, own :
          /\ Turn(r, at, own)
          /\ \/ at = "unseen" /\ own = 0
             \/ at = "drop" /\ own = keyRow.id /\ keyRow.id > 0 /\ Deletable
             \/ at = "handler" /\ own = 0 /\ way # "middleware"
    BY DEF Look, Deletable
<1>3. /\ asking' \in [Askers -> Asker]
      /\ asking'[r].at = at /\ asking'[r].own = own
      /\ \A s \in Askers \ {r} : asking'[s] = asking[s]
    BY <1>1, <1>2, TurnChanges
<1>4. UNCHANGED <<way, keyRow, keyRows, answered, vanished>>
    BY DEF Look
<1>5. KeyTypeOK'
    BY <1>1, <1>3, <1>4 DEF KeyTypeOK
<1>6. ASSUME way' = "middleware" PROVE ByMiddleware'
    <2>1. ByMiddleware /\ at \in {"unseen", "drop"}
        BY <1>2, <1>4, <1>6 DEF AInv
    <2>2. \A s \in Askers : Busy(s)' <=> Busy(s)
        BY <1>1, <1>3, <2>1 DEF Busy
    <2>3. \A s \in Askers : Busy(s) => asking'[s] = asking[s]
        BY <1>1, <1>3
    <2>4. OwnsTheRow' /\ OneIsBusy' /\ AnswerIsKept' /\ SomebodyIsBusy'
        BY <1>4, <2>1, <2>2, <2>3 DEF ByMiddleware, OwnsTheRow, OneIsBusy, AnswerIsKept, SomebodyIsBusy
    <2>5. DropsWhatIsOver'
        <3>1. keyRow.id > 0 => keyRow.id \in 1..keyRows
            BY <1>1 DEF KeyTypeOK, KeyRow
        <3>2. \A s \in Askers \ {r} : asking'[s].at = "drop" =>
                /\ asking'[s].own \in 1..keyRows
                /\ asking'[s].own = keyRow.id => Deletable
            BY <1>3, <2>1 DEF ByMiddleware, DropsWhatIsOver
        <3>3. asking'[r].at = "drop" => asking'[r].own \in 1..keyRows /\ Deletable
            BY <1>2, <1>3, <3>1
        <3>4. QED
            BY <1>4, <3>2, <3>3 DEF DropsWhatIsOver, Deletable
    <2>6. QED
        BY <2>4, <2>5 DEF ByMiddleware
<1>7. QED
    BY <1>5, <1>6 DEF AInv

\* One that deletes a stale or failed key keeps the invariant: it deletes the
\* row it saw.
LEMMA DropKeeps ==
    ASSUME AInv, NEW r \in Askers, Drop(r)
    PROVE  AInv'
<1>1. KeyTypeOK /\ ~Busy(r) /\ asking[r].at = "drop" /\ asking[r] # Quiet
    BY DEF AInv, Drop, Busy, Quiet
<1>2. PICK at : /\ Turn(r, at, 0) /\ at \in {"idle", "handler"}
                /\ way = "middleware" => at = "idle"
    BY DEF Drop
<1>3. /\ asking' \in [Askers -> Asker]
      /\ asking'[r].at = at /\ asking'[r].own = 0
      /\ \A s \in Askers \ {r} : asking'[s] = asking[s]
    BY <1>1, <1>2, TurnChanges, KeyAssumption
<1>4. UNCHANGED <<way, keyRows, answered, vanished>>
      /\ (keyRow' = keyRow \/ (keyRow' = NoRow /\ keyRow.id = asking[r].own))
    BY DEF Drop
<1>5. KeyTypeOK'
    <2>1. NoRow \in KeyRow /\ NoRow.id = 0
        BY KeyAssumption DEF KeyRow, NoRow
    <2>2. QED
        BY <1>1, <1>3, <1>4, <2>1, KeyAssumption DEF KeyTypeOK
<1>6. ASSUME way' = "middleware" PROVE ByMiddleware'
    <2>1. ByMiddleware /\ at = "idle"
        BY <1>2, <1>4, <1>6 DEF AInv
    <2>2. \A s \in Askers : Busy(s)' <=> Busy(s)
        BY <1>1, <1>3, <2>1 DEF Busy
    <2>3. \A s \in Askers : Busy(s) => asking'[s] = asking[s]
        BY <1>1, <1>3
    <2>4. \A s \in Askers : asking'[s].at = "drop" => asking[s].at = "drop" /\ asking'[s] = asking[s]
        BY <1>3, <2>1
    <2>5. CASE keyRow' = keyRow
        BY <1>4, <2>1, <2>2, <2>3, <2>4, <2>5 DEF ByMiddleware, OwnsTheRow, OneIsBusy, AnswerIsKept,
           SomebodyIsBusy, DropsWhatIsOver, Deletable
    <2>6. CASE keyRow' = NoRow /\ keyRow.id = asking[r].own
        <3>1. Deletable /\ keyRow'.id = 0 /\ keyRow'.state = "failed"
            BY <1>1, <2>1, <2>6 DEF ByMiddleware, DropsWhatIsOver, NoRow
        <3>2. \A s \in Askers : ~Busy(s)
            BY <2>1, <3>1 DEF ByMiddleware, OwnsTheRow, Deletable
        <3>3. answered = 0
            BY <1>1, <2>1, <3>1 DEF ByMiddleware, AnswerIsKept, Deletable, KeyTypeOK
        <3>4. \A s \in Askers : asking'[s].at = "drop" => asking'[s].own \in 1..keyRows
            BY <2>1, <2>4 DEF ByMiddleware, DropsWhatIsOver
        <3>5. OwnsTheRow' /\ OneIsBusy' /\ AnswerIsKept' /\ SomebodyIsBusy'
            BY <1>4, <2>2, <3>1, <3>2, <3>3 DEF OwnsTheRow, OneIsBusy, AnswerIsKept, SomebodyIsBusy
        <3>6. DropsWhatIsOver'
            BY <1>4, <3>1, <3>4 DEF DropsWhatIsOver, Deletable
        <3>7. QED
            BY <3>5, <3>6 DEF ByMiddleware
    <2>7. QED
        BY <1>4, <2>5, <2>6
<1>7. QED
    BY <1>5, <1>6 DEF AInv

\* One that inserts the key is alone: the key is unique.
LEMMA InsertKeeps ==
    ASSUME AInv, NEW r \in Askers, Insert(r)
    PROVE  AInv'
<1>1. KeyTypeOK /\ ~Busy(r) /\ asking[r].at = "unseen"
    BY DEF AInv, Insert, Busy
<1>2. UNCHANGED <<way, answered, vanished>>
    BY DEF Insert
<1>3. CASE Turn(r, "idle", 0) /\ UNCHANGED <<keyRow, keyRows>>
    <2>1. /\ asking' \in [Askers -> Asker]
          /\ asking'[r].at = "idle" /\ asking'[r].own = 0
          /\ \A s \in Askers \ {r} : asking'[s] = asking[s]
        BY <1>1, <1>3, TurnChanges, KeyAssumption
    <2>2. KeyTypeOK'
        BY <1>1, <1>2, <1>3, <2>1 DEF KeyTypeOK
    <2>3. \A s \in Askers : Busy(s)' <=> Busy(s)
        BY <1>1, <2>1 DEF Busy
    <2>4. \A s \in Askers : Busy(s) => asking'[s] = asking[s]
        BY <1>1, <2>1
    <2>5. \A s \in Askers : asking'[s].at = "drop" => asking[s].at = "drop" /\ asking'[s] = asking[s]
        BY <2>1
    <2>6. ByMiddleware => ByMiddleware'
        BY <1>2, <1>3, <2>3, <2>4, <2>5 DEF ByMiddleware, OwnsTheRow, OneIsBusy, AnswerIsKept,
           SomebodyIsBusy, DropsWhatIsOver, Deletable
    <2>7. QED
        BY <1>2, <2>2, <2>6 DEF AInv
<1>4. CASE /\ keyRow.id = 0 /\ keyRows < MaxKeyRows
           /\ keyRow' = Inserted /\ keyRows' = keyRows + 1 /\ Turn(r, "handler", keyRows + 1)
    <2>1. keyRows \in 0..MaxKeyRows /\ keyRows + 1 \in 0..MaxKeyRows
        BY <1>1, <1>4, KeyAssumption DEF KeyTypeOK
    <2>2. /\ asking' \in [Askers -> Asker]
          /\ asking'[r].at = "handler" /\ asking'[r].own = keyRows + 1
          /\ \A s \in Askers \ {r} : asking'[s] = asking[s]
        BY <1>1, <1>4, <2>1, TurnChanges
    <2>3. /\ keyRow'.id = keyRows + 1 /\ keyRow'.state = "processing" /\ ~keyRow'.stale
          /\ ~keyRow'.body /\ keyRow' \in KeyRow
        BY <1>4, <2>1 DEF Inserted, KeyRow
    <2>4. KeyTypeOK'
        BY <1>1, <1>2, <1>4, <2>1, <2>2, <2>3 DEF KeyTypeOK
    <2>5. ASSUME way' = "middleware" PROVE ByMiddleware'
        <3>1. ByMiddleware /\ answered = 0
            BY <1>1, <1>2, <1>4, <2>5 DEF AInv, ByMiddleware, AnswerIsKept, KeyTypeOK
        <3>2. \A s \in Askers : ~Busy(s)
            BY <1>4, <3>1 DEF ByMiddleware, OwnsTheRow
        <3>3. \A s \in Askers : Busy(s)' <=> s = r
            BY <2>2, <3>2 DEF Busy
        <3>4. \A s \in Askers : asking'[s].at = "drop" => asking[s].at = "drop" /\ asking'[s] = asking[s]
            BY <2>2
        <3>5. \A s \in Askers : asking[s].own \in 0..MaxKeyRows
            BY <1>1, AskerTypes
        <3>6. OwnsTheRow' /\ OneIsBusy' /\ AnswerIsKept' /\ SomebodyIsBusy'
            BY <1>2, <2>1, <2>2, <2>3, <3>1, <3>3 DEF OwnsTheRow, OneIsBusy, AnswerIsKept, SomebodyIsBusy
        <3>7. DropsWhatIsOver'
            BY <1>1, <1>4, <2>1, <2>2, <2>3, <3>1, <3>4 DEF ByMiddleware, DropsWhatIsOver
        <3>8. QED
            BY <3>6, <3>7 DEF ByMiddleware
    <2>6. QED
        BY <2>4, <2>5 DEF AInv
<1>5. QED
    BY <1>3, <1>4 DEF Insert

\* Of the busy request itself.
LEMMA BusyAlone ==
    ASSUME ByMiddleware, NEW r \in Askers, Busy(r)
    PROVE  /\ \A s \in Askers : Busy(s) <=> s = r
           /\ asking[r].own = keyRow.id /\ keyRow.id > 0
           /\ keyRow.state = "processing" /\ ~keyRow.stale
           /\ answered > 0 => answered = 1 /\ asking[r].at = "save" /\ asking[r].body
    BY DEF ByMiddleware, OwnsTheRow, OneIsBusy, AnswerIsKept

\* The handler answers while its request holds the key.
LEMMA HandleKeeps ==
    ASSUME AInv, NEW r \in Askers, Handle(r)
    PROVE  AInv'
<1>1. KeyTypeOK /\ Busy(r) /\ asking[r].at = "handler"
    BY DEF AInv, Handle, Busy
<1>2. UNCHANGED <<way, keyRow, keyRows, vanished>>
    BY DEF Handle
<1>3. CASE \E b \in BOOLEAN :
            /\ asking' = [asking EXCEPT ![r].at = "save", ![r].body = b]
            /\ answered' = IF b /\ answered < 2 THEN answered + 1 ELSE answered
    <2>1. PICK b \in BOOLEAN :
            /\ asking' = [asking EXCEPT ![r].at = "save", ![r].body = b]
            /\ answered' = IF b /\ answered < 2 THEN answered + 1 ELSE answered
        BY <1>3
    <2>2. /\ asking' \in [Askers -> Asker]
          /\ asking'[r].at = "save" /\ asking'[r].own = asking[r].own /\ asking'[r].body = b
          /\ \A s \in Askers \ {r} : asking'[s] = asking[s]
        BY <1>1, <2>1 DEF KeyTypeOK, Asker
    <2>3. answered \in 0..2 /\ answered' \in 0..2
        BY <1>1, <2>1 DEF KeyTypeOK
    <2>4. KeyTypeOK'
        BY <1>1, <1>2, <2>2, <2>3 DEF KeyTypeOK
    <2>5. ASSUME way' = "middleware" PROVE ByMiddleware'
        <3>1. ByMiddleware
            BY <1>2, <2>5 DEF AInv
        <3>2. /\ \A s \in Askers : Busy(s) <=> s = r
              /\ asking[r].own = keyRow.id /\ keyRow.id > 0
              /\ keyRow.state = "processing" /\ ~keyRow.stale
              /\ answered = 0
            BY <1>1, <2>3, <3>1, BusyAlone
        <3>3. \A s \in Askers : Busy(s)' <=> s = r
            BY <2>2, <3>2 DEF Busy
        <3>4. answered' > 0 => b /\ answered' = 1
            BY <2>1, <3>2
        <3>5. OwnsTheRow' /\ OneIsBusy' /\ AnswerIsKept' /\ SomebodyIsBusy'
            BY <1>2, <2>2, <3>2, <3>3, <3>4 DEF OwnsTheRow, OneIsBusy, AnswerIsKept, SomebodyIsBusy
        <3>6. DropsWhatIsOver'
            BY <1>2, <2>2, <3>1 DEF ByMiddleware, DropsWhatIsOver, Deletable
        <3>7. QED
            BY <3>1, <3>5, <3>6 DEF ByMiddleware
    <2>6. QED
        BY <2>4, <2>5 DEF AInv
<1>4. CASE /\ Turn(r, IF way = "middleware" THEN "fail" ELSE "idle",
                      IF way = "middleware" THEN asking[r].own ELSE 0)
           /\ UNCHANGED answered
    <2>1. PICK at, own : /\ Turn(r, at, own)
                         /\ at \in {"fail", "idle"} /\ own \in 0..MaxKeyRows
                         /\ way = "middleware" => at = "fail" /\ own = asking[r].own
        <3>1. asking[r].own \in 0..MaxKeyRows /\ 0 \in 0..MaxKeyRows
            <4>1. asking[r].own \in 0..MaxKeyRows
                BY <1>1, AskerTypes
            <4>2. 0 \in 0..MaxKeyRows
                BY KeyAssumption
            <4>3. QED
                BY <4>1, <4>2
        <3>2. CASE way = "middleware"
            BY <1>4, <3>1, <3>2
        <3>3. CASE way # "middleware"
            BY <1>4, <3>1, <3>3
        <3>4. QED
            BY <3>2, <3>3
    <2>2. /\ asking' \in [Askers -> Asker]
          /\ asking'[r].at = at /\ asking'[r].own = own
          /\ \A s \in Askers \ {r} : asking'[s] = asking[s]
        BY <1>1, <2>1, TurnChanges
    <2>3. KeyTypeOK'
        BY <1>1, <1>2, <1>4, <2>2 DEF KeyTypeOK
    <2>4. ASSUME way' = "middleware" PROVE ByMiddleware'
        <3>1. ByMiddleware /\ at = "fail" /\ own = asking[r].own
            BY <1>2, <2>1, <2>4 DEF AInv
        <3>2. /\ \A s \in Askers : Busy(s) <=> s = r
              /\ asking[r].own = keyRow.id /\ keyRow.id > 0
              /\ keyRow.state = "processing" /\ ~keyRow.stale
              /\ ~ answered > 0
            BY <1>1, <3>1, BusyAlone
        <3>3. \A s \in Askers : Busy(s)' <=> s = r
            BY <2>2, <3>1, <3>2 DEF Busy
        <3>4. OwnsTheRow' /\ OneIsBusy' /\ AnswerIsKept' /\ SomebodyIsBusy'
            BY <1>2, <1>4, <2>2, <3>1, <3>2, <3>3 DEF OwnsTheRow, OneIsBusy, AnswerIsKept, SomebodyIsBusy
        <3>5. DropsWhatIsOver'
            BY <1>2, <2>2, <3>1 DEF ByMiddleware, DropsWhatIsOver, Deletable
        <3>6. QED
            BY <3>4, <3>5 DEF ByMiddleware
    <2>5. QED
        BY <2>3, <2>4 DEF AInv
<1>5. QED
    BY <1>3, <1>4 DEF Handle

\* The busy request ends, and what it leaves in the row is not in processing.
LEMMA BusyEnds ==
    ASSUME AInv, NEW r \in Askers, Busy(r), KeyTypeOK',
           asking' = [asking EXCEPT ![r] = Quiet],
           UNCHANGED <<way, keyRows, answered, vanished>>,
           way = "middleware" =>
             /\ keyRow'.id = keyRow.id /\ keyRow'.stale = keyRow.stale
             /\ \/ keyRow'.state = "completed" /\ keyRow'.body = asking[r].body
                \/ keyRow'.state = "failed" /\ asking[r].at = "fail"
    PROVE  AInv'
<1>1. /\ asking'[r].at = "idle" /\ \A s \in Askers \ {r} : asking'[s] = asking[s]
    BY QuietChanges DEF AInv
<1>2. ASSUME way' = "middleware" PROVE ByMiddleware'
    <2>1. ByMiddleware /\ way = "middleware"
        BY <1>2 DEF AInv
    <2>2. /\ \A s \in Askers : Busy(s) <=> s = r
          /\ keyRow.id > 0 /\ keyRow.state = "processing" /\ ~keyRow.stale
          /\ answered > 0 => answered = 1 /\ asking[r].at = "save" /\ asking[r].body
        BY <2>1, BusyAlone
    <2>3. \A s \in Askers : ~Busy(s)'
        BY <1>1, <2>2 DEF Busy
    <2>4. /\ keyRow'.id = keyRow.id /\ ~keyRow'.stale
          /\ keyRow'.state = "failed" \/ keyRow'.state = "completed"
          /\ answered' > 0 => answered' = 1 /\ keyRow'.state = "completed" /\ keyRow'.body
        BY <2>1, <2>2
    <2>5. OwnsTheRow' /\ OneIsBusy' /\ AnswerIsKept' /\ SomebodyIsBusy'
        BY <2>2, <2>3, <2>4 DEF OwnsTheRow, OneIsBusy, AnswerIsKept, SomebodyIsBusy
    <2>6. \A s \in Askers : asking'[s].at = "drop" => asking[s].at = "drop" /\ asking'[s] = asking[s]
        BY <1>1
    <2>7. \A s \in Askers : asking[s].at = "drop" => asking[s].own # keyRow.id
        BY <2>1, <2>2 DEF ByMiddleware, DropsWhatIsOver, Deletable
    <2>8. DropsWhatIsOver'
        BY <2>1, <2>4, <2>6, <2>7 DEF ByMiddleware, DropsWhatIsOver
    <2>9. QED
        BY <2>5, <2>8 DEF ByMiddleware
<1>3. QED
    BY <1>2 DEF AInv

\* The answer is saved on the row the request inserted.
LEMMA SaveKeeps ==
    ASSUME AInv, NEW r \in Askers, Save(r)
    PROVE  AInv'
<1>1. /\ KeyTypeOK /\ Busy(r) /\ asking[r].at = "save" /\ asking[r].body \in BOOLEAN
      /\ asking' = [asking EXCEPT ![r] = Quiet]
      /\ UNCHANGED <<way, keyRows, answered, vanished>>
    BY AskerTypes DEF AInv, Save, Busy
<1>2. \/ ~Mine(r) /\ keyRow' = keyRow
      \/ /\ keyRow.id > 0 /\ keyRow' \in KeyRow /\ keyRow'.id = keyRow.id
         /\ keyRow'.stale = keyRow.stale
         /\ keyRow'.state = "completed" /\ keyRow'.body = asking[r].body
    BY <1>1 DEF Save, KeyTypeOK, KeyRow, Mine
<1>3. KeyTypeOK'
    <2>1. asking' \in [Askers -> Asker]
        BY <1>1, QuietChanges
    <2>2. keyRow' \in KeyRow /\ (keyRow'.id = 0 => keyRow' = NoRow) /\ keyRow'.id <= keyRows
        BY <1>1, <1>2 DEF KeyTypeOK, KeyRow
    <2>3. QED
        BY <1>1, <2>1, <2>2 DEF KeyTypeOK
<1>4. way = "middleware" => Mine(r)
    BY <1>1, BusyAlone DEF AInv, Mine
<1>5. QED
    BY <1>1, <1>2, <1>3, <1>4, BusyEnds

\* A failure is saved on the row the request inserted.
LEMMA FailKeeps ==
    ASSUME AInv, NEW r \in Askers, Fail(r)
    PROVE  AInv'
<1>1. /\ KeyTypeOK /\ Busy(r) /\ asking[r].at = "fail"
      /\ asking' = [asking EXCEPT ![r] = Quiet]
      /\ UNCHANGED <<way, keyRows, answered, vanished>>
    BY DEF AInv, Fail, Busy
<1>2. \/ ~Mine(r) /\ keyRow' = keyRow
      \/ /\ keyRow.id > 0 /\ keyRow' \in KeyRow /\ keyRow'.id = keyRow.id
         /\ keyRow'.stale = keyRow.stale /\ keyRow'.state = "failed"
    BY <1>1 DEF Fail, KeyTypeOK, KeyRow, Mine
<1>3. KeyTypeOK'
    <2>1. asking' \in [Askers -> Asker]
        BY <1>1, QuietChanges
    <2>2. keyRow' \in KeyRow /\ (keyRow'.id = 0 => keyRow' = NoRow) /\ keyRow'.id <= keyRows
        BY <1>1, <1>2 DEF KeyTypeOK, KeyRow
    <2>3. QED
        BY <1>1, <2>1, <2>2 DEF KeyTypeOK
<1>4. way = "middleware" => Mine(r)
    BY <1>1, BusyAlone DEF AInv, Mine
<1>5. QED
    BY <1>1, <1>2, <1>3, <1>4, BusyEnds

\* A request that vanishes leaves its row in processing.
LEMMA VanishKeeps ==
    ASSUME AInv, NEW r \in Askers, Vanish(r)
    PROVE  AInv'
<1>1. /\ KeyTypeOK /\ asking' = [asking EXCEPT ![r] = Quiet] /\ vanished' = TRUE
      /\ UNCHANGED <<way, keyRow, keyRows, answered>>
    BY DEF AInv, Vanish
<1>2. /\ asking' \in [Askers -> Asker] /\ asking'[r].at = "idle"
      /\ \A s \in Askers \ {r} : asking'[s] = asking[s]
    BY <1>1, QuietChanges
<1>3. KeyTypeOK'
    BY <1>1, <1>2 DEF KeyTypeOK
<1>4. \A s \in Askers : asking'[s].at # "idle" => asking'[s] = asking[s]
    BY <1>2
<1>5. \A s \in Askers : Busy(s)' => Busy(s) /\ asking'[s] = asking[s]
    BY <1>4 DEF Busy
<1>6. ByMiddleware => ByMiddleware'
    BY <1>1, <1>4, <1>5 DEF ByMiddleware, OwnsTheRow, OneIsBusy, AnswerIsKept,
       SomebodyIsBusy, DropsWhatIsOver, Deletable
<1>7. QED
    BY <1>1, <1>3, <1>6 DEF AInv

\* A row grows stale when nobody holds it.
LEMMA ExpireKeeps ==
    ASSUME AInv, Expire
    PROVE  AInv'
<1>1. /\ KeyTypeOK /\ keyRow.id > 0 /\ \A r \in Askers : ~Busy(r)
      /\ answered' = 0 /\ UNCHANGED <<way, asking, keyRows, vanished>>
    BY DEF AInv, Expire, Busy
<1>2. /\ keyRow' \in KeyRow /\ keyRow'.id = keyRow.id /\ keyRow'.stale
      /\ keyRow'.state = keyRow.state
    BY <1>1 DEF Expire, KeyTypeOK, KeyRow
<1>3. KeyTypeOK'
    BY <1>1, <1>2 DEF KeyTypeOK, KeyRow
<1>4. \A r \in Askers : ~Busy(r)'
    BY <1>1 DEF Busy
<1>5. ByMiddleware => ByMiddleware'
    BY <1>1, <1>2, <1>4 DEF ByMiddleware, OwnsTheRow, OneIsBusy, AnswerIsKept,
       SomebodyIsBusy, DropsWhatIsOver, Deletable
<1>6. QED
    BY <1>1, <1>3, <1>5 DEF AInv

\* Every step of a request keeps the invariant.
LEMMA KeyStepKeeps ==
    ASSUME AInv, [KeyNext]_keyVars
    PROVE  AInv'
<1>1. CASE UNCHANGED keyVars
    BY <1>1 DEF AInv, keyVars, KeyTypeOK, ByMiddleware, OwnsTheRow, OneIsBusy, AnswerIsKept,
       SomebodyIsBusy, DropsWhatIsOver, Deletable, Busy
<1>2. QED
    BY <1>1, ExpireKeeps, LookKeeps, DropKeeps, InsertKeeps, HandleKeeps, SaveKeeps, FailKeeps,
       VanishKeeps DEF KeyNext, AskerStep

\* The inductive invariant of the idempotency keys is an invariant: whoever
\* works under a key owns its row, alone (idempotency middleware and
\* helpers).
THEOREM KeyInvariant == KeyInit /\ [][KeyNext]_keyVars => []AInv
    BY KeyInitially, KeyStepKeeps, PTL

\* The invariant implies that a key is answered once and that a busy key has
\* a worker, or one that vanished.
LEMMA KeyInvariantHolds == AInv => AnsweredOnce /\ BusyKeyHasWorker
<1> SUFFICES ASSUME AInv PROVE AnsweredOnce /\ BusyKeyHasWorker
    OBVIOUS
<1>1. AnsweredOnce
    BY DEF AInv, ByMiddleware, AnswerIsKept, AnsweredOnce, KeyTypeOK
<1>2. BusyKeyHasWorker
    BY DEF AInv, ByMiddleware, SomebodyIsBusy, OwnsTheRow, BusyKeyHasWorker
<1>3. QED
    BY <1>1, <1>2

(***************************************************************************)
(* The circuit breaker (CircuitBreaker).                                   *)
(***************************************************************************)
\* Calls that were under way when the trial began, and still are.
Late == {c \in before : flying[c] # "none" /\ c \notin trial}

\* Half open: every win is a success of the trial or a late call's, and a
\* call under way is the one or the other.
ProofOfWins ==
    breaker.state = "half_open" =>
        /\ \A c \in Coroutines : flying[c] # "none" => c \in trial \/ c \in before
        /\ \/ proof >= SuccessThreshold
           \/ breaker.wins + Cardinality(Late) <= proof + Cardinality(before)

CInv == BreakerTypeOK /\ ClosedByProof /\ ProofOfWins

\* The calls under way are finitely many.
LEMMA LateCount ==
    ASSUME BreakerTypeOK
    PROVE  /\ IsFiniteSet(before) /\ IsFiniteSet(Late)
           /\ Cardinality(before) \in Nat /\ Cardinality(Late) \in Nat
<1>1. IsFiniteSet(before)
    BY BreakerAssumption, FS_Subset DEF BreakerTypeOK
<1>2. IsFiniteSet(Late)
    BY <1>1, FS_Subset DEF Late
<1>3. QED
    BY <1>1, <1>2, FS_CardinalityType

\* The fields of a breaker.
LEMMA BreakerParts ==
    ASSUME NEW b, b \in Breaker
    PROVE  /\ b = [state |-> b.state, fails |-> b.fails, wins |-> b.wins, wait |-> b.wait]
           /\ b.state \in {"closed", "open", "half_open"}
           /\ b.fails \in 0..FailureThreshold /\ b.wins \in 0..SuccessThreshold
           /\ b.wait \in 0..OpenFor
    BY DEF Breaker

\* Fields of the right types make a breaker.
LEMMA BreakerMade ==
    ASSUME NEW s \in {"closed", "open", "half_open"}, NEW f \in 0..FailureThreshold,
           NEW w \in 0..SuccessThreshold, NEW t \in 0..OpenFor
    PROVE  [state |-> s, fails |-> f, wins |-> w, wait |-> t] \in Breaker
    BY DEF Breaker

\* A closed breaker has no wins.
LEMMA ClosedBreaker ==
    Closed \in Breaker /\ Closed.state = "closed" /\ Closed.wins = 0
<1>1. 0 \in 0..FailureThreshold /\ 0 \in 0..SuccessThreshold /\ 0 \in 0..OpenFor
    BY BreakerAssumption
<1>2. QED
    BY <1>1, BreakerMade DEF Closed

\* The invariant holds at the start.
LEMMA BreakerInitially ==
    ASSUME BreakerInit
    PROVE  CInv
<1>1. breaker = Closed /\ proof = SuccessThreshold /\ trial = {} /\ before = {}
    BY DEF BreakerInit, Closed
<1>2. SuccessThreshold \in 0..SuccessThreshold /\ SuccessThreshold \in Nat
    BY BreakerAssumption
<1>3. flying \in [Coroutines -> Flight] /\ healthy \in BOOLEAN
    BY DEF BreakerInit, Flight
<1>4. BreakerTypeOK
    BY <1>1, <1>2, <1>3, ClosedBreaker DEF BreakerTypeOK
<1>5. Cardinality(before) \in Nat
    BY <1>4, LateCount
<1>6. QED
    BY <1>1, <1>2, <1>4, <1>5, ClosedBreaker DEF CInv, ClosedByProof, ProofOfWins

\* What a success does: it closes the breaker with the last of the wins, and
\* counts in the half-open state only.
LEMMA SuccessCounts ==
    ASSUME NEW b, b \in Breaker
    PROVE  /\ AfterSuccess(b) \in Breaker
           /\ b.state = "half_open" /\ b.wins + 1 >= SuccessThreshold => AfterSuccess(b) = Closed
           /\ b.state = "half_open" /\ ~(b.wins + 1 >= SuccessThreshold) =>
                AfterSuccess(b).state = "half_open" /\ AfterSuccess(b).wins = b.wins + 1
           /\ b.state # "half_open" => AfterSuccess(b).state = b.state
<1>1. /\ b = [state |-> b.state, fails |-> b.fails, wins |-> b.wins, wait |-> b.wait]
      /\ b.state \in {"closed", "open", "half_open"}
      /\ b.wins \in 0..SuccessThreshold /\ b.wait \in 0..OpenFor /\ 0 \in 0..FailureThreshold
    BY BreakerParts, BreakerAssumption
<1>2. CASE b.state # "half_open"
    <2>1. AfterSuccess(b) = [b EXCEPT !.fails = 0]
        BY <1>2 DEF AfterSuccess
    <2>2. AfterSuccess(b) = [state |-> b.state, fails |-> 0, wins |-> b.wins, wait |-> b.wait]
        BY <1>1, <2>1
    <2>3. QED
        BY <1>1, <1>2, <2>2, BreakerMade
<1>3. CASE b.state = "half_open" /\ b.wins + 1 >= SuccessThreshold
    BY <1>3, ClosedBreaker DEF AfterSuccess
<1>4. CASE b.state = "half_open" /\ ~(b.wins + 1 >= SuccessThreshold)
    <2>1. AfterSuccess(b) = [b EXCEPT !.fails = 0, !.wins = @ + 1]
        BY <1>4 DEF AfterSuccess
    <2>2. AfterSuccess(b) = [state |-> b.state, fails |-> 0, wins |-> b.wins + 1, wait |-> b.wait]
        BY <1>1, <2>1
    <2>3. b.wins + 1 \in 0..SuccessThreshold
        BY <1>1, <1>4, BreakerAssumption
    <2>4. QED
        BY <1>1, <1>4, <2>2, <2>3, BreakerMade
<1>5. QED
    BY <1>2, <1>3, <1>4

\* What a failure does: it opens the breaker, at once in the half-open state.
LEMMA FailureCounts ==
    ASSUME NEW b, b \in Breaker
    PROVE  /\ AfterFailure(b) \in Breaker
           /\ AfterFailure(b).state \in {"open", b.state}
           /\ b.state = "half_open" => AfterFailure(b).state = "open"
<1>1. /\ b = [state |-> b.state, fails |-> b.fails, wins |-> b.wins, wait |-> b.wait]
      /\ b.state \in {"closed", "open", "half_open"} /\ b.fails \in 0..FailureThreshold
      /\ b.wins \in 0..SuccessThreshold /\ b.wait \in 0..OpenFor
      /\ 0 \in 0..SuccessThreshold /\ OpenFor \in 0..OpenFor
    BY BreakerParts, BreakerAssumption
<1>2. PICK f : f = IF b.fails < FailureThreshold THEN b.fails + 1 ELSE b.fails
    OBVIOUS
<1>3. f \in 0..FailureThreshold
    BY <1>1, <1>2, BreakerAssumption
<1>4. OneFailure(b) = [state |-> b.state, fails |-> f, wins |-> b.wins, wait |-> b.wait]
    BY <1>1, <1>2 DEF OneFailure
<1>5. OneFailure(b) \in Breaker /\ OneFailure(b).state = b.state
    BY <1>1, <1>3, <1>4, BreakerMade
<1>6. Opened(OneFailure(b)) = [state |-> "open", fails |-> f, wins |-> 0, wait |-> OpenFor]
    <2>1. PICK o : o = OneFailure(b)
        OBVIOUS
    <2>2. PICK a : a = [o EXCEPT !.state = "open"]
        OBVIOUS
    <2>3. a = [state |-> "open", fails |-> f, wins |-> b.wins, wait |-> b.wait]
        BY <1>4, <2>1, <2>2
    <2>4. PICK e : e = [a EXCEPT !.wins = 0]
        OBVIOUS
    <2>5. e = [state |-> "open", fails |-> f, wins |-> 0, wait |-> b.wait]
        BY <2>3, <2>4
    <2>6. [e EXCEPT !.wait = OpenFor] = [state |-> "open", fails |-> f, wins |-> 0, wait |-> OpenFor]
        BY <2>5
    <2>7. QED
        BY <2>1, <2>2, <2>4, <2>6 DEF Opened
<1>7. Opened(OneFailure(b)) \in Breaker /\ Opened(OneFailure(b)).state = "open"
    BY <1>1, <1>3, <1>6, BreakerMade
<1>8. QED
    BY <1>5, <1>7 DEF AfterFailure

\* A call that starts is one of the trial; one that finds the time come
\* begins the trial.
LEMMA StartKeeps ==
    ASSUME CInv, NEW c \in Coroutines, StartCall(c)
    PROVE  CInv'
<1>1. /\ breaker \in Breaker /\ flying \in [Coroutines -> Flight]
      /\ proof \in 0..SuccessThreshold /\ 0 \in 0..SuccessThreshold
      /\ trial \subseteq Coroutines /\ before \subseteq Coroutines /\ flying[c] = "none"
    BY BreakerAssumption DEF CInv, BreakerTypeOK, StartCall
<1>2. /\ flying' \in [Coroutines -> Flight] /\ healthy' = healthy
      /\ flying'[c] # "none" /\ \A d \in Coroutines \ {c} : flying'[d] = flying[d]
    BY <1>1 DEF StartCall, Flight
<1>3. CASE trial' = trial \cup {c} /\ UNCHANGED <<breaker, before, proof>>
    <2>1. BreakerTypeOK'
        BY <1>1, <1>2, <1>3 DEF CInv, BreakerTypeOK
    <2>2. Late' = Late
        BY <1>1, <1>2, <1>3 DEF Late
    <2>3. QED
        BY <1>2, <1>3, <2>1, <2>2 DEF CInv, ClosedByProof, ProofOfWins
<1>4. CASE /\ breaker' = HalfOpen(breaker) /\ proof' = 0 /\ trial' = {c}
           /\ before' = {d \in Coroutines : flying[d] # "none"}
    <2>1. breaker = [state |-> breaker.state, fails |-> breaker.fails, wins |-> breaker.wins,
                     wait |-> breaker.wait]
          /\ breaker.wait \in 0..OpenFor /\ 0 \in 0..FailureThreshold
        BY <1>1, BreakerParts, BreakerAssumption
    <2>2. breaker' = [state |-> "half_open", fails |-> 0, wins |-> 0, wait |-> breaker.wait]
        BY <1>4, <2>1 DEF HalfOpen
    <2>3. breaker' \in Breaker /\ breaker'.state = "half_open" /\ breaker'.wins = 0
        BY <1>1, <2>1, <2>2, BreakerMade
    <2>4. BreakerTypeOK'
        BY <1>1, <1>2, <1>4, <2>3 DEF CInv, BreakerTypeOK
    <2>5. Late' = before'
        BY <1>1, <1>2, <1>4 DEF Late
    <2>6. Cardinality(before') \in Nat
        <3>1. before' \subseteq Coroutines
            BY <1>4
        <3>2. QED
            BY <3>1, FS_Subset, FS_CardinalityType, BreakerAssumption
    <2>7. Cardinality(Late') = Cardinality(before')
        BY <2>5
    <2>8. \A d \in Coroutines : flying'[d] # "none" => d \in trial' \/ d \in before'
        BY <1>2, <1>4
    <2>9. ProofOfWins'
        BY <1>4, <2>3, <2>6, <2>7, <2>8 DEF ProofOfWins
    <2>10. QED
        BY <2>3, <2>4, <2>9 DEF CInv, ClosedByProof
<1>5. QED
    BY <1>3, <1>4 DEF StartCall

\* A success is one of the trial or of a late call, which is no longer late.
LEMMA SucceedKeeps ==
    ASSUME CInv, NEW c \in Coroutines, Succeed(c)
    PROVE  CInv'
<1>1. /\ breaker \in Breaker /\ flying \in [Coroutines -> Flight]
      /\ proof \in 0..SuccessThreshold /\ SuccessThreshold \in Nat
      /\ trial \subseteq Coroutines /\ before \subseteq Coroutines /\ flying[c] # "none"
    BY BreakerAssumption DEF CInv, BreakerTypeOK, Succeed
<1>2. /\ flying' \in [Coroutines -> Flight] /\ healthy' = healthy
      /\ flying'[c] = "none" /\ \A d \in Coroutines \ {c} : flying'[d] = flying[d]
      /\ trial' = trial \ {c} /\ before' = before
    BY <1>1 DEF Succeed, Flight
<1>3. breaker' = AfterSuccess(breaker) /\ breaker' \in Breaker
    BY <1>1, SuccessCounts DEF Succeed
<1>4. /\ proof' \in 0..SuccessThreshold /\ proof' >= proof
      /\ c \in trial => proof' >= SuccessThreshold \/ proof' = proof + 1
    BY <1>1 DEF Succeed
<1>5. breaker.wins \in 0..SuccessThreshold
    BY <1>1, BreakerParts
<1>6. BreakerTypeOK'
    BY <1>1, <1>2, <1>3, <1>4 DEF CInv, BreakerTypeOK
<1>7. /\ Late' = Late \ {c} /\ IsFiniteSet(Late)
      /\ Cardinality(before) \in Nat /\ Cardinality(Late) \in Nat
      /\ Cardinality(Late') \in Nat /\ Cardinality(before') = Cardinality(before)
    <2>1. Late' = Late \ {c}
        BY <1>1, <1>2 DEF Late
    <2>2. IsFiniteSet(Late) /\ Cardinality(before) \in Nat /\ Cardinality(Late) \in Nat
        BY LateCount DEF CInv
    <2>3. Cardinality(Late') \in Nat
        BY <2>1, <2>2, FS_RemoveElement, FS_CardinalityType
    <2>4. QED
        BY <1>2, <2>1, <2>2, <2>3
<1>8. CASE breaker.state # "half_open"
    <2>1. breaker'.state = breaker.state
        BY <1>1, <1>3, <1>8, SuccessCounts
    <2>2. QED
        BY <1>1, <1>4, <1>6, <1>7, <1>8, <2>1 DEF CInv, ClosedByProof, ProofOfWins
<1>9. CASE breaker.state = "half_open"
    <2>1. \/ proof' >= SuccessThreshold
          \/ breaker.wins + 1 + Cardinality(Late') <= proof' + Cardinality(before')
        <3>1. CASE proof >= SuccessThreshold
            BY <1>1, <1>4, <3>1
        <3>2. CASE c \in trial /\ ~(proof >= SuccessThreshold)
            <4>1. Late' = Late
                BY <1>7, <3>2 DEF Late
            <4>2. Cardinality(Late') = Cardinality(Late)
                BY <4>1
            <4>3. breaker.wins + Cardinality(Late) <= proof + Cardinality(before)
                BY <1>1, <1>9, <3>2 DEF CInv, ProofOfWins
            <4>4. proof' >= SuccessThreshold \/ proof' = proof + 1
                BY <1>4, <3>2
            <4>5. QED
                BY <1>1, <1>4, <1>5, <1>7, <4>2, <4>3, <4>4
        <3>3. CASE c \notin trial /\ ~(proof >= SuccessThreshold)
            <4>1. c \in Late
                BY <1>1, <1>9, <3>3 DEF Late, CInv, ProofOfWins
            <4>2. Cardinality(Late') = Cardinality(Late) - 1
                BY <1>7, <4>1, FS_RemoveElement
            <4>3. QED
                BY <1>1, <1>4, <1>5, <1>7, <1>9, <3>3, <4>2 DEF CInv, ProofOfWins
        <3>4. QED
            BY <3>1, <3>2, <3>3
    <2>2. \A d \in Coroutines : flying'[d] # "none" => d \in trial' \/ d \in before'
        BY <1>2, <1>9 DEF CInv, ProofOfWins
    <2>3. CASE breaker.wins + 1 >= SuccessThreshold
        <3>1. breaker'.state = "closed"
            BY <1>1, <1>3, <1>9, <2>3, SuccessCounts, ClosedBreaker
        <3>2. proof' + Cardinality(before') >= SuccessThreshold
            BY <1>1, <1>4, <1>5, <1>7, <2>1, <2>3
        <3>3. QED
            BY <1>6, <3>1, <3>2 DEF CInv, ClosedByProof, ProofOfWins
    <2>4. CASE ~(breaker.wins + 1 >= SuccessThreshold)
        <3>1. breaker'.state = "half_open" /\ breaker'.wins = breaker.wins + 1
            BY <1>1, <1>3, <1>9, <2>4, SuccessCounts
        <3>2. QED
            BY <1>6, <2>1, <2>2, <3>1 DEF CInv, ClosedByProof, ProofOfWins
    <2>5. QED
        BY <2>3, <2>4
<1>10. QED
    BY <1>8, <1>9

\* A failure ends the trial, or comes when there is none.
LEMMA FailKeepsBreaker ==
    ASSUME CInv, NEW c \in Coroutines, FailCall(c)
    PROVE  CInv'
<1>1. /\ breaker \in Breaker /\ flying \in [Coroutines -> Flight]
      /\ proof \in 0..SuccessThreshold /\ 0 \in 0..SuccessThreshold
      /\ trial \subseteq Coroutines /\ before \subseteq Coroutines
    BY BreakerAssumption DEF CInv, BreakerTypeOK
<1>2. flying' \in [Coroutines -> Flight] /\ healthy' = healthy
    BY <1>1 DEF FailCall, Flight
<1>3. breaker' = AfterFailure(breaker) /\ breaker' \in Breaker
    BY <1>1, FailureCounts DEF FailCall
<1>4. /\ breaker'.state \in {"open", breaker.state}
      /\ breaker.state = "half_open" => breaker'.state = "open"
    BY <1>1, <1>3, FailureCounts
<1>5. CASE breaker'.state = "open"
    <2>1. trial' = {} /\ before' = {} /\ proof' = 0
        BY <1>5 DEF FailCall
    <2>2. QED
        BY <1>1, <1>2, <1>3, <1>5, <2>1 DEF CInv, BreakerTypeOK, ClosedByProof, ProofOfWins
<1>6. CASE breaker'.state # "open"
    <2>1. trial' = trial \ {c} /\ UNCHANGED <<before, proof>> /\ breaker'.state = breaker.state
          /\ breaker.state # "half_open"
        BY <1>4, <1>6 DEF FailCall
    <2>2. QED
        BY <1>1, <1>2, <1>3, <1>6, <2>1 DEF CInv, BreakerTypeOK, ClosedByProof, ProofOfWins
<1>7. QED
    BY <1>5, <1>6

\* Every step keeps the invariant.
LEMMA BreakerStepKeeps ==
    ASSUME CInv, [BreakerNext]_breakerVars
    PROVE  CInv'
<1>1. /\ breaker \in Breaker /\ flying \in [Coroutines -> Flight] /\ healthy \in BOOLEAN
      /\ proof \in 0..SuccessThreshold /\ SuccessThreshold \in Nat
      /\ SuccessThreshold \in 0..SuccessThreshold
    BY BreakerAssumption DEF CInv, BreakerTypeOK
<1>2. CASE ResetBreaker
    <2>1. breaker' = Closed /\ proof' = SuccessThreshold /\ UNCHANGED <<flying, healthy, trial, before>>
        BY <1>2 DEF ResetBreaker
    <2>2. BreakerTypeOK'
        BY <1>1, <2>1, ClosedBreaker DEF CInv, BreakerTypeOK
    <2>3. Cardinality(before') \in Nat
        <3>1. before' = before
            BY <2>1
        <3>2. QED
            BY <3>1, LateCount DEF CInv
    <2>4. QED
        BY <1>1, <2>1, <2>2, <2>3, ClosedBreaker DEF CInv, ClosedByProof, ProofOfWins
<1>3. CASE Waited
    <2>1. breaker' = [breaker EXCEPT !.wait = @ - 1] /\ breaker.state = "open" /\ breaker.wait > 0
          /\ UNCHANGED <<flying, healthy, trial, before, proof>>
        BY <1>3 DEF Waited
    <2>2. breaker'.state = "open"
        BY <1>1, <2>1 DEF Breaker
    <2>3. breaker.wait - 1 \in 0..OpenFor
        BY <1>1, <2>1, BreakerParts, BreakerAssumption
    <2>4. breaker' \in Breaker
        BY <1>1, <2>1, <2>3 DEF Breaker
    <2>5. QED
        BY <1>1, <2>1, <2>2, <2>4 DEF CInv, BreakerTypeOK, ClosedByProof, ProofOfWins
<1>4. CASE ServiceTurns
    BY <1>1, <1>4 DEF ServiceTurns, CInv, BreakerTypeOK, ClosedByProof, ProofOfWins, Late
<1>5. CASE UNCHANGED breakerVars
    BY <1>5 DEF breakerVars, CInv, BreakerTypeOK, ClosedByProof, ProofOfWins, Late
<1>6. QED
    BY <1>2, <1>3, <1>4, <1>5, StartKeeps, SucceedKeeps, FailKeepsBreaker DEF BreakerNext

\* A half-open breaker has counted no success but those of calls made since
\* it let them through again and one for each call that was under way then;
\* it is closed by nothing else (circuit_breaker.py).
THEOREM BreakerInvariant == BreakerInit /\ [][BreakerNext]_breakerVars => []CInv
    BY BreakerInitially, BreakerStepKeeps, PTL

(***************************************************************************)
(* The ledger, the trail of transitions and screening (Ledger). What the   *)
(* books say holds while no two transactions crossed: the properties ask   *)
(* for no more.                                                            *)
(***************************************************************************)
\* Entries, transitions and transactions, as they are written.
Entry == [content: Content, prev: Seq(Content), hash: Seq(Content), at: 1..MaxRecords]
Move == [from: PayStates, to: PayStates, at: 1..MaxRecords]
Work == [open: BOOLEAN, entries: SUBSET Entry, moves: SUBSET Move, status: PayStates]

BooksTyped ==
    /\ ledger \in SUBSET Entry /\ trail \in SUBSET Move /\ payStatus \in PayStates
    /\ work \in [Writers -> Work] /\ written \in 0..MaxRecords
    /\ crossed \in BOOLEAN /\ tampered \in BOOLEAN

\* Nothing is dated later than the last thing written.
Dated ==
    /\ \A e \in ledger : e.at <= written
    /\ \A t \in trail : t.at <= written
    /\ \A w \in Writers : /\ \A e \in work[w].entries : e.at <= written
                          /\ \A m \in work[w].moves : m.at <= written

Idle == \A w \in Writers : ~work[w].open => work[w].entries = {} /\ work[w].moves = {}

\* No two entries have one date.
Single(S) == \A e, f \in S : e.at = f.at => e = f

\* Each entry has the hash of the one before it, and its own from what was
\* recorded, which reads back as its content.
Before(S, e) == {f \in S : f.at < e.at}
Sound(S, e) ==
    /\ e.prev = LastHash(Before(S, e))
    /\ \E c \in Content : e.hash = EntryHash(e.prev, c) /\ AsStored(c) = e.content
Chained(S) == \A e \in S : Sound(S, e)

\* An entry that verify_chain_integrity refuses.
Damaged(S) == \E e \in S : e.prev # LastHash(Before(S, e)) \/ e.hash # EntryHash(e.prev, e.content)

\* The trail S leads from created to the status.
Leads(S, status) ==
    /\ S = {} => status = "created"
    /\ \A t \in S :
         /\ (\A u \in S : u.at >= t.at) => t.from = "created"
         /\ (\A u \in S : u.at <= t.at) => t.to = status
         /\ \A u \in S : (t.at < u.at /\ ~\E v \in S : t.at < v.at /\ v.at < u.at) => t.to = u.from

Seen(w) == ledger \union work[w].entries

\* While transactions do not cross.
InTurn ==
    /\ \A v, w \in Writers : work[v].open /\ work[w].open => v = w
    /\ \A w \in Writers : \A e \in ledger, f \in work[w].entries : e.at < f.at
    /\ Single(ledger) /\ \A w \in Writers : Single(Seen(w))
    /\ ~tampered => Chained(ledger) /\ \A w \in Writers : Chained(Seen(w))
    /\ tampered => Damaged(ledger)
    /\ Leads(trail, payStatus)
    /\ \A w \in Writers : work[w].open => Leads(trail \union work[w].moves, work[w].status)

GInv == BooksTyped /\ Dated /\ Idle /\ (~crossed => InTurn)

\* A transition leads from a state to a state.
LEMMA PayStatesAre ==
    /\ "created" \in PayStates
    /\ \A s \in PayStates : ValidTransitions[s] \subseteq PayStates
<1>1. PayStates = {"created", "pending", "processing", "confirmed", "paid", "failed", "expired",
                   "refunded", "partially_refunded"}
    BY DEF PayStates, ValidTransitions
<1>2. /\ ValidTransitions["created"] \subseteq PayStates
      /\ ValidTransitions["pending"] \subseteq PayStates
      /\ ValidTransitions["processing"] \subseteq PayStates
      /\ ValidTransitions["confirmed"] \subseteq PayStates
      /\ ValidTransitions["paid"] \subseteq PayStates
      /\ ValidTransitions["failed"] \subseteq PayStates
      /\ ValidTransitions["expired"] \subseteq PayStates
      /\ ValidTransitions["refunded"] \subseteq PayStates
      /\ ValidTransitions["partially_refunded"] \subseteq PayStates
    BY <1>1 DEF ValidTransitions
<1>3. QED
    BY <1>1, <1>2

\* The last entry is the one that the others are before.
LEMMA LastHashIs ==
    ASSUME NEW S, NEW e \in S, \A f \in S : f.at \in Nat, \A f \in S : f # e => f.at < e.at
    PROVE  LastHash(S) = e.hash
<1>1. PICK c : c = CHOOSE g \in S : \A f \in S : g.at >= f.at
    OBVIOUS
<1>2. \A f \in S : e.at >= f.at
    OBVIOUS
<1>3. c \in S /\ \A f \in S : c.at >= f.at
    BY <1>1, <1>2
<1>4. c = e
    BY <1>3
<1>5. QED
    BY <1>1, <1>4 DEF LastHash

\* A hash is a chain of contents.
LEMMA LastHashTyped ==
    ASSUME NEW S \in SUBSET Entry
    PROVE  LastHash(S) \in Seq(Content)
<1>1. CASE S = {}
    BY <1>1 DEF LastHash
<1>2. CASE S # {}
    <2>1. MaxRecords \in Nat /\ \A f \in S : f.at \in Nat /\ f.at <= MaxRecords
        BY LedgerAssumption DEF Entry
    <2>2. PICK U : U = {MaxRecords - f.at : f \in S}
        OBVIOUS
    <2>3. U \in SUBSET Nat /\ U # {}
        BY <1>2, <2>1, <2>2
    <2>4. PICK x \in U : \A y \in U : x <= y
        BY <2>3, LeastElement
    <2>5. PICK e \in S : x = MaxRecords - e.at
        BY <2>2
    <2>6. \A f \in S : e.at >= f.at
        <3>1. ASSUME NEW f \in S PROVE e.at >= f.at
            <4>1. MaxRecords - f.at \in U
                BY <2>2
            <4>2. MaxRecords - e.at <= MaxRecords - f.at
                BY <2>4, <2>5, <4>1
            <4>3. e.at \in Nat /\ f.at \in Nat
                BY <2>1
            <4>4. QED
                BY <2>1, <4>2, <4>3
        <3>2. QED
            BY <3>1
    <2>7. PICK c : c = CHOOSE g \in S : \A f \in S : g.at >= f.at
        OBVIOUS
    <2>8. c \in S
        BY <2>6, <2>7
    <2>9. c.hash \in Seq(Content)
        BY <2>8 DEF Entry
    <2>10. QED
        BY <1>2, <2>7, <2>9 DEF LastHash
<1>3. QED
    BY <1>1, <1>2

\* An entry after all the others extends the chain, and a transition the trail.
LEMMA ChainExtends ==
    ASSUME NEW S, NEW e, \A f \in S : f.at \in Nat, e.at \in Nat, \A f \in S : f.at < e.at
    PROVE  /\ Single(S) => Single(S \union {e})
           /\ Chained(S) /\ Sound(S \union {e}, e) => Chained(S \union {e})
           /\ Before(S \union {e}, e) = S
<1>1. Single(S) => Single(S \union {e})
    BY DEF Single
<1>2. \A f \in S : Before(S \union {e}, f) = Before(S, f)
    BY DEF Before
<1>3. Chained(S) /\ Sound(S \union {e}, e) => Chained(S \union {e})
    BY <1>2 DEF Chained, Sound
<1>4. Before(S \union {e}, e) = S
    BY DEF Before
<1>5. QED
    BY <1>1, <1>3, <1>4

\* One more transition from the status leads to its new one.
LEMMA TrailExtends ==
    ASSUME NEW S, NEW status, NEW m, \A t \in S : t.at \in Nat, m.at \in Nat,
           \A t \in S : t.at < m.at, Leads(S, status), m.from = status
    PROVE  Leads(S \union {m}, m.to)
<1> DEFINE R == S \union {m}
<1>1. ASSUME NEW t \in R, \A u \in R : u.at >= t.at PROVE t.from = "created"
    <2>1. CASE t \in S
        BY <1>1, <2>1 DEF Leads
    <2>2. CASE t = m
        <3>1. S = {}
            <4>1. \A u \in S : u.at >= m.at /\ u.at < m.at /\ u.at \in Nat
                BY <1>1, <2>2
            <4>2. QED
                BY <4>1
        <3>2. QED
            BY <2>2, <3>1 DEF Leads
    <2>3. QED
        BY <2>1, <2>2
<1>2. ASSUME NEW t \in R, \A u \in R : u.at <= t.at PROVE t.to = m.to
    <2>1. ~(t \in S)
        <3>1. m.at <= t.at
            BY <1>2
        <3>2. QED
            BY <3>1
    <2>2. QED
        BY <2>1
<1>3. ASSUME NEW t \in R, NEW u \in R, t.at < u.at, ~\E v \in R : t.at < v.at /\ v.at < u.at
      PROVE  t.to = u.from
    <2>1. t \in S
        <3>1. ~(m.at < u.at)
            BY SMT
        <3>2. QED
            BY <1>3, <3>1
    <2>2. CASE u \in S
        BY <1>3, <2>1, <2>2 DEF Leads
    <2>3. CASE u = m
        <3>1. \A v \in S : v.at <= t.at
            <4>1. \A v \in S : ~(t.at < v.at)
                BY <1>3, <2>3
            <4>2. QED
                BY <2>1, <4>1
        <3>2. t.to = status
            BY <2>1, <3>1 DEF Leads
        <3>3. QED
            BY <2>3, <3>2
    <2>4. QED
        BY <2>2, <2>3
<1>4. QED
    BY <1>1, <1>2, <1>3 DEF Leads

\* The fields of entries and transitions.
LEMMA RecordsAre ==
    /\ MaxRecords \in Nat /\ IsFiniteSet(Writers)
    /\ \A e \in Entry : /\ e.content \in Content /\ e.at \in Nat /\ e.at >= 1 /\ e.at <= MaxRecords
                        /\ e.prev \in Seq(Content) /\ e.hash \in Seq(Content)
    /\ \A m \in Move : /\ m.from \in PayStates /\ m.to \in PayStates
                       /\ m.at \in Nat /\ m.at >= 1 /\ m.at <= MaxRecords
    /\ \A c \in Content : AsStored(c) \in Content /\ AsStored(c).kind = c.kind /\ AsStored(c).exact = TRUE
<1>1. MaxRecords \in Nat /\ IsFiniteSet(Writers)
    BY LedgerAssumption
<1>2. \A e \in Entry : /\ e.content \in Content /\ e.at \in Nat /\ e.at >= 1 /\ e.at <= MaxRecords
                       /\ e.prev \in Seq(Content) /\ e.hash \in Seq(Content)
    BY <1>1 DEF Entry
<1>3. \A m \in Move : /\ m.from \in PayStates /\ m.to \in PayStates
                      /\ m.at \in Nat /\ m.at >= 1 /\ m.at <= MaxRecords
    BY <1>1 DEF Move
<1>4. \A c \in Content : AsStored(c) \in Content /\ AsStored(c).kind = c.kind /\ AsStored(c).exact = TRUE
    BY DEF Content, AsStored
<1>5. QED
    BY <1>1, <1>2, <1>3, <1>4

\* The types and dates of all that was written or is about to be.
LEMMA BooksAre ==
    ASSUME GInv
    PROVE  /\ \A e \in ledger : e \in Entry /\ e.at \in Nat /\ e.at <= written
           /\ \A t \in trail : t \in Move /\ t.at \in Nat /\ t.at <= written
           /\ \A w \in Writers :
                /\ work[w] \in Work
                /\ work[w].entries \in SUBSET Entry /\ work[w].moves \in SUBSET Move
                /\ work[w].status \in PayStates /\ work[w].open \in BOOLEAN
                /\ \A e \in Seen(w) : e \in Entry /\ e.at \in Nat /\ e.at <= written
                /\ \A t \in trail \union work[w].moves : t \in Move /\ t.at \in Nat /\ t.at <= written
           /\ written \in Nat /\ written <= MaxRecords
<1>1. BooksTyped /\ Dated
    BY DEF GInv
<1>2. \A w \in Writers : /\ work[w] \in Work
                /\ work[w].entries \in SUBSET Entry /\ work[w].moves \in SUBSET Move
                /\ work[w].status \in PayStates /\ work[w].open \in BOOLEAN
    BY <1>1 DEF BooksTyped, Work
<1>3. written \in Nat /\ written <= MaxRecords
    BY <1>1, RecordsAre DEF BooksTyped
<1>4. /\ \A e \in ledger : e \in Entry /\ e.at \in Nat /\ e.at <= written
      /\ \A t \in trail : t \in Move /\ t.at \in Nat /\ t.at <= written
    BY <1>1, RecordsAre DEF BooksTyped, Dated
<1>5. \A w \in Writers :
        /\ \A e \in Seen(w) : e \in Entry /\ e.at \in Nat /\ e.at <= written
        /\ \A t \in trail \union work[w].moves : t \in Move /\ t.at \in Nat /\ t.at <= written
    <2>1. ASSUME NEW w \in Writers, NEW e \in work[w].entries
          PROVE  e \in Entry /\ e.at \in Nat /\ e.at <= written
        BY <1>1, <1>2, RecordsAre DEF Dated
    <2>2. ASSUME NEW w \in Writers, NEW m \in work[w].moves
          PROVE  m \in Move /\ m.at \in Nat /\ m.at <= written
        BY <1>1, <1>2, RecordsAre DEF Dated
    <2>3. QED
        BY <1>4, <2>1, <2>2 DEF Seen
<1>6. QED
    BY <1>2, <1>3, <1>4, <1>5

\* A transaction that the others see nothing of changes.
LEMMA WorkIs ==
    ASSUME GInv, NEW w \in Writers, NEW x \in Work, work' = [work EXCEPT ![w] = x]
    PROVE  /\ work' \in [Writers -> Work] /\ work'[w] = x
           /\ \A v \in Writers : v # w => work'[v] = work[v]
BY DEF GInv, BooksTyped

\* A transaction that opens has written nothing.
LEMMA OpenKeeps ==
    ASSUME GInv, NEW w \in Writers, Open(w)
    PROVE  GInv'
<1>1. PICK x : x = [NoWork EXCEPT !.open = TRUE, !.status = payStatus]
    OBVIOUS
<1>2. /\ x \in Work /\ x.open = TRUE /\ x.entries = {} /\ x.moves = {} /\ x.status = payStatus
    <2>1. payStatus \in PayStates /\ "created" \in PayStates
        BY PayStatesAre DEF GInv, BooksTyped
    <2>2. QED
        BY <1>1, <2>1 DEF NoWork, Work
<1>3. work' = [work EXCEPT ![w] = x]
    BY <1>1 DEF Open
<1>4. /\ work' \in [Writers -> Work] /\ work'[w] = x
      /\ \A v \in Writers : v # w => work'[v] = work[v]
    BY <1>2, <1>3, WorkIs
<1>5. /\ UNCHANGED <<ledger, trail, payStatus, written, tampered>>
      /\ crossed' = (crossed \/ \E v \in Writers : work[v].open)
    BY DEF Open
<1>6. BooksTyped' /\ Dated' /\ Idle'
    <2>1. BooksTyped'
        BY <1>4, <1>5 DEF GInv, BooksTyped
    <2>2. Dated'
        BY <1>2, <1>4, <1>5 DEF GInv, Dated
    <2>3. Idle'
        BY <1>2, <1>4 DEF GInv, Idle
    <2>4. QED
        BY <2>1, <2>2, <2>3
<1>7. ASSUME ~crossed' PROVE InTurn'
    <2>1. ~crossed /\ InTurn /\ \A v \in Writers : ~work[v].open
        BY <1>5, <1>7 DEF GInv, BooksTyped
    <2>2. \A v \in Writers : work'[v].entries = {} /\ work'[v].moves = {} /\ (work'[v].open => v = w)
        BY <1>2, <1>4, <2>1 DEF GInv, Idle
    <2>3. \A v \in Writers : Seen(v)' = ledger'
        BY <2>2 DEF Seen
    <2>4. trail \union {} = trail
        OBVIOUS
    <2>5. \A v \in Writers : work'[v].open => Leads(trail' \union work'[v].moves, work'[v].status)
        BY <1>2, <1>4, <1>5, <2>1, <2>2, <2>4 DEF InTurn
    <2>6. \A u, v \in Writers : work'[u].open /\ work'[v].open => u = v
        BY <2>2
    <2>7. \A v \in Writers : \A e \in ledger', f \in work'[v].entries : e.at < f.at
        BY <2>2
    <2>8. Single(ledger') /\ \A v \in Writers : Single(Seen(v)')
        BY <1>5, <2>1, <2>3 DEF InTurn
    <2>9. ~tampered' => Chained(ledger') /\ \A v \in Writers : Chained(Seen(v)')
        BY <1>5, <2>1, <2>3 DEF InTurn
    <2>10. (tampered' => Damaged(ledger')) /\ Leads(trail', payStatus')
        BY <1>5, <2>1 DEF InTurn
    <2>11. QED
        BY <2>5, <2>6, <2>7, <2>8, <2>9, <2>10 DEF InTurn
<1>8. QED
    BY <1>6, <1>7 DEF GInv

\* An entry is chained to the last one its transaction sees.
LEMMA RecordKeeps ==
    ASSUME GInv, NEW w \in Writers, Record(w)
    PROVE  GInv'
<1>1. PICK S : S = Seen(w)
    OBVIOUS
<1>2. PICK c, e :
        /\ c \in Content
        /\ e = [content |-> AsStored(c), prev |-> LastHash(S),
                hash |-> EntryHash(LastHash(S), c), at |-> written + 1]
        /\ work' = [work EXCEPT ![w].entries = @ \union {e}]
    BY <1>1 DEF Record, Seen
<1>3. /\ work[w].open /\ written < MaxRecords /\ written' = written + 1
      /\ UNCHANGED <<ledger, trail, payStatus, crossed, tampered>>
    BY DEF Record
<1>4. /\ S \in SUBSET Entry /\ (\A f \in S : f.at \in Nat /\ f.at <= written)
      /\ written \in Nat /\ written < MaxRecords
    BY <1>1, <1>3, BooksAre
<1>5. LastHash(S) \in Seq(Content)
    BY <1>4, LastHashTyped
<1>6. /\ e \in Entry /\ e.at = written + 1 /\ e.prev = LastHash(S)
      /\ e.hash = EntryHash(e.prev, c) /\ e.content = AsStored(c)
    <2>1. EntryHash(LastHash(S), c) \in Seq(Content)
        BY <1>2, <1>5 DEF EntryHash
    <2>2. AsStored(c) \in Content
        BY <1>2, RecordsAre
    <2>3. written + 1 \in 1..MaxRecords
        BY <1>4, RecordsAre
    <2>4. QED
        BY <1>2, <1>5, <2>1, <2>2, <2>3 DEF Entry
<1>7. PICK x : x = [work[w] EXCEPT !.entries = @ \union {e}]
    OBVIOUS
<1>8. /\ x \in Work /\ x.open = work[w].open /\ x.entries = work[w].entries \union {e}
      /\ x.moves = work[w].moves /\ x.status = work[w].status
    <2>1. work[w] \in Work
        BY BooksAre
    <2>2. QED
        BY <1>6, <1>7, <2>1 DEF Work
<1>9. work' = [work EXCEPT ![w] = x]
    BY <1>2, <1>7
<1>10. /\ work' \in [Writers -> Work] /\ work'[w] = x
       /\ \A v \in Writers : v # w => work'[v] = work[v]
    BY <1>8, <1>9, WorkIs
<1>11. BooksTyped' /\ Dated' /\ Idle'
    <2>1. BooksTyped'
        <3>1. written' \in 0..MaxRecords
            BY <1>3, <1>4, RecordsAre
        <3>2. QED
            BY <1>3, <1>10, <3>1 DEF GInv, BooksTyped
    <2>2. Dated'
        <3>1. \A f \in ledger : f.at <= written'
            BY <1>3, <1>4, BooksAre
        <3>2. \A t \in trail : t.at <= written'
            BY <1>3, <1>4, BooksAre
        <3>3. ASSUME NEW v \in Writers
              PROVE  /\ \A f \in work[v].entries : f.at <= written'
                     /\ \A m \in work[v].moves : m.at <= written'
            <4>1. /\ \A f \in work[v].entries : f.at <= written /\ f.at \in Nat
                  /\ \A m \in work[v].moves : m.at <= written /\ m.at \in Nat
                BY BooksAre DEF Seen
            <4>2. QED
                BY <1>3, <1>4, <4>1
        <3>4. \A f \in x.entries : f.at <= written'
            BY <1>3, <1>4, <1>6, <1>8, <3>3
        <3>5. QED
            BY <1>3, <1>8, <1>10, <3>1, <3>2, <3>3, <3>4 DEF Dated
    <2>3. Idle'
        BY <1>3, <1>8, <1>10 DEF GInv, Idle
    <2>4. QED
        BY <2>1, <2>2, <2>3
<1>12. ASSUME ~crossed' PROVE InTurn'
    <2>1. InTurn
        BY <1>3, <1>12 DEF GInv
    <2>2. \A v \in Writers : work'[v].open = work[v].open
        BY <1>8, <1>10
    <2>3. \A v \in Writers : v # w => ~work[v].open
        BY <1>3, <2>1 DEF InTurn
    <2>4. Seen(w)' = S \union {e} /\ \A v \in Writers : v # w => Seen(v)' = Seen(v)
        BY <1>1, <1>3, <1>8, <1>10 DEF Seen
    <2>5. /\ Single(S) => Single(S \union {e})
          /\ Chained(S) /\ Sound(S \union {e}, e) => Chained(S \union {e})
          /\ Before(S \union {e}, e) = S
        <3>1. (\A f \in S : f.at \in Nat) /\ e.at \in Nat /\ \A f \in S : f.at < e.at
            BY <1>4, <1>6
        <3>2. QED
            BY <3>1, ChainExtends
    <2>6. Sound(S \union {e}, e)
        BY <1>2, <1>6, <2>5 DEF Sound
    <2>7. \A v \in Writers : \A f \in ledger', g \in work'[v].entries : f.at < g.at
        <3>1. \A f \in ledger : f.at < e.at
            BY <1>1, <1>4, <1>6 DEF Seen
        <3>2. QED
            BY <1>3, <1>8, <1>10, <2>1, <3>1 DEF InTurn
    <2>8. Single(ledger') /\ \A v \in Writers : Single(Seen(v)')
        BY <1>1, <1>3, <2>1, <2>4, <2>5 DEF InTurn
    <2>9. ~tampered' => Chained(ledger') /\ \A v \in Writers : Chained(Seen(v)')
        BY <1>1, <1>3, <2>1, <2>4, <2>5, <2>6 DEF InTurn
    <2>10. (tampered' => Damaged(ledger')) /\ Leads(trail', payStatus')
        BY <1>3, <2>1 DEF InTurn
    <2>11. \A v \in Writers : work'[v].open => Leads(trail' \union work'[v].moves, work'[v].status)
        BY <1>3, <1>8, <1>10, <2>1, <2>2 DEF InTurn
    <2>12. \A u, v \in Writers : work'[u].open /\ work'[v].open => u = v
        BY <2>1, <2>2 DEF InTurn
    <2>13. QED
        BY <2>7, <2>8, <2>9, <2>10, <2>11, <2>12 DEF InTurn
<1>13. QED
    BY <1>11, <1>12 DEF GInv

\* A transition starts from the status its transaction sees.
LEMMA TransitionKeeps ==
    ASSUME GInv, NEW w \in Writers, TransitionPayment(w)
    PROVE  GInv'
<1>1. PICK to, m :
        /\ to \in ValidTransitions[work[w].status]
        /\ m = Noted(work[w].status, to)
        /\ work' = [work EXCEPT ![w].moves = @ \union {m}, ![w].status = to]
    BY DEF TransitionPayment
<1>2. /\ work[w].open /\ written < MaxRecords /\ written' = written + 1
      /\ UNCHANGED <<ledger, trail, payStatus, crossed, tampered>>
    BY DEF TransitionPayment
<1>3. /\ work[w] \in Work /\ work[w].status \in PayStates
      /\ written \in Nat /\ written < MaxRecords
    BY <1>2, BooksAre
<1>4. to \in PayStates
    BY <1>1, <1>3, PayStatesAre
<1>5. m \in Move /\ m.at = written + 1 /\ m.from = work[w].status /\ m.to = to
    <2>1. written + 1 \in 1..MaxRecords
        BY <1>3, RecordsAre
    <2>2. QED
        BY <1>1, <1>3, <1>4, <2>1 DEF Noted, Move
<1>6. PICK x : x = [[work[w] EXCEPT !.moves = @ \union {m}] EXCEPT !.status = to]
    OBVIOUS
<1>7. /\ x \in Work /\ x.open = work[w].open /\ x.entries = work[w].entries
      /\ x.moves = work[w].moves \union {m} /\ x.status = to
    BY <1>3, <1>4, <1>5, <1>6 DEF Work
<1>8. work' = [work EXCEPT ![w] = x]
    <2>1. work \in [Writers -> Work]
        BY DEF GInv, BooksTyped
    <2>2. QED
        BY <1>1, <1>6, <2>1
<1>9. /\ work' \in [Writers -> Work] /\ work'[w] = x
      /\ \A v \in Writers : v # w => work'[v] = work[v]
    BY <1>7, <1>8, WorkIs
<1>10. BooksTyped' /\ Dated' /\ Idle'
    <2>1. BooksTyped'
        <3>1. written' \in 0..MaxRecords
            BY <1>2, <1>3, RecordsAre
        <3>2. QED
            BY <1>2, <1>9, <3>1 DEF GInv, BooksTyped
    <2>2. Dated'
        <3>1. \A f \in ledger : f.at <= written'
            BY <1>2, <1>3, BooksAre
        <3>2. \A t \in trail : t.at <= written'
            BY <1>2, <1>3, BooksAre
        <3>3. ASSUME NEW v \in Writers
              PROVE  /\ \A f \in work[v].entries : f.at <= written'
                     /\ \A n \in work[v].moves : n.at <= written'
            <4>1. /\ \A f \in work[v].entries : f.at <= written /\ f.at \in Nat
                  /\ \A n \in work[v].moves : n.at <= written /\ n.at \in Nat
                BY BooksAre DEF Seen
            <4>2. QED
                BY <1>2, <1>3, <4>1
        <3>4. \A n \in x.moves : n.at <= written'
            BY <1>2, <1>3, <1>5, <1>7, <3>3
        <3>5. QED
            BY <1>2, <1>7, <1>9, <3>1, <3>2, <3>3, <3>4 DEF Dated
    <2>3. Idle'
        BY <1>2, <1>7, <1>9 DEF GInv, Idle
    <2>4. QED
        BY <2>1, <2>2, <2>3
<1>11. ASSUME ~crossed' PROVE InTurn'
    <2>1. InTurn
        BY <1>2, <1>11 DEF GInv
    <2>2. \A v \in Writers : work'[v].open = work[v].open /\ work'[v].entries = work[v].entries
        BY <1>7, <1>9
    <2>3. \A v \in Writers : Seen(v)' = Seen(v)
        BY <1>2, <2>2 DEF Seen
    <2>4. Leads(trail' \union work'[w].moves, work'[w].status)
        <3>1. PICK T : T = trail \union work[w].moves
            OBVIOUS
        <3>2. Leads(T, work[w].status) /\ \A t \in T : t.at \in Nat /\ t.at <= written
            BY <1>2, <2>1, <3>1, BooksAre DEF InTurn
        <3>3. (\A t \in T : t.at < m.at) /\ m.at \in Nat
            BY <1>3, <1>5, <3>2
        <3>4. Leads(T \union {m}, m.to)
            BY <1>5, <3>2, <3>3, TrailExtends
        <3>5. T \union {m} = trail' \union work'[w].moves
            BY <1>2, <1>7, <1>9, <3>1
        <3>6. QED
            BY <1>5, <1>7, <1>9, <3>4, <3>5
    <2>5. \A v \in Writers : work'[v].open => Leads(trail' \union work'[v].moves, work'[v].status)
        BY <1>2, <1>9, <2>1, <2>2, <2>4 DEF InTurn
    <2>6. \A v \in Writers : \A f \in ledger', g \in work'[v].entries : f.at < g.at
        BY <1>2, <2>1, <2>2 DEF InTurn
    <2>7. Single(ledger') /\ \A v \in Writers : Single(Seen(v)')
        BY <1>2, <2>1, <2>3 DEF InTurn
    <2>8. ~tampered' => Chained(ledger') /\ \A v \in Writers : Chained(Seen(v)')
        BY <1>2, <2>1, <2>3 DEF InTurn
    <2>9. (tampered' => Damaged(ledger')) /\ Leads(trail', payStatus')
        BY <1>2, <2>1 DEF InTurn
    <2>10. \A u, v \in Writers : work'[u].open /\ work'[v].open => u = v
        BY <2>1, <2>2 DEF InTurn
    <2>11. QED
        BY <2>5, <2>6, <2>7, <2>8, <2>9, <2>10 DEF InTurn
<1>12. QED
    BY <1>10, <1>11 DEF GInv

\* Entries that come later do not hide a damaged one.
LEMMA DamageStays ==
    ASSUME NEW S, NEW R, \A e \in S, f \in R : e.at < f.at, \A e \in S \union R : e.at \in Nat,
           Damaged(S)
    PROVE  Damaged(S \union R)
<1>1. PICK e \in S : e.prev # LastHash(Before(S, e)) \/ e.hash # EntryHash(e.prev, e.content)
    BY DEF Damaged
<1>2. Before(S \union R, e) = Before(S, e)
    BY DEF Before
<1>3. QED
    BY <1>1, <1>2 DEF Damaged

\* A transaction that commits while no other wrote extends the books; one
\* that does not leaves them.
LEMMA CloseKeeps ==
    ASSUME GInv, NEW w \in Writers, Close(w)
    PROVE  GInv'
<1>1. /\ work[w].open /\ work' = [work EXCEPT ![w] = NoWork]
      /\ \/ /\ ledger' = Seen(w)
            /\ trail' = trail \union work[w].moves
            /\ payStatus' = IF work[w].moves = {} THEN payStatus ELSE work[w].status
         \/ UNCHANGED <<ledger, trail, payStatus>>
      /\ UNCHANGED <<written, crossed, tampered>>
    BY DEF Close, Seen
<1>2. NoWork \in Work /\ NoWork.open = FALSE /\ NoWork.entries = {} /\ NoWork.moves = {}
    BY PayStatesAre DEF NoWork, Work
<1>3. /\ work' \in [Writers -> Work] /\ work'[w] = NoWork
      /\ \A v \in Writers : v # w => work'[v] = work[v]
    BY <1>1, <1>2, WorkIs
<1>4. BooksTyped' /\ Dated' /\ Idle'
    <2>1. /\ Seen(w) \in SUBSET Entry /\ trail \union work[w].moves \in SUBSET Move
          /\ work[w].status \in PayStates
          /\ \A e \in Seen(w) : e.at <= written
          /\ \A t \in trail \union work[w].moves : t.at <= written
        BY BooksAre
    <2>2. BooksTyped'
        BY <1>1, <1>3, <2>1 DEF GInv, BooksTyped
    <2>3. Dated'
        <3>1. (\A e \in ledger' : e.at <= written') /\ \A t \in trail' : t.at <= written'
            BY <1>1, <2>1 DEF GInv, Dated
        <3>2. \A v \in Writers : /\ \A e \in work'[v].entries : e.at <= written'
                                 /\ \A m \in work'[v].moves : m.at <= written'
            BY <1>1, <1>2, <1>3 DEF GInv, Dated
        <3>3. QED
            BY <3>1, <3>2 DEF Dated
    <2>4. Idle'
        BY <1>2, <1>3 DEF GInv, Idle
    <2>5. QED
        BY <2>2, <2>3, <2>4
<1>5. ASSUME ~crossed' PROVE InTurn'
    <2>1. InTurn
        BY <1>1, <1>5 DEF GInv
    <2>2. \A v \in Writers : v # w => ~work[v].open
        BY <1>1, <2>1 DEF InTurn
    <2>3. \A v \in Writers : ~work'[v].open /\ work'[v].entries = {}
        BY <1>2, <1>3, <2>2 DEF GInv, Idle
    <2>4. \A v \in Writers : Seen(v)' = ledger'
        BY <2>3 DEF Seen
    <2>5. ledger' \in {ledger, Seen(w)}
        BY <1>1
    <2>6. Single(ledger') /\ (~tampered' => Chained(ledger'))
        BY <1>1, <2>1, <2>5 DEF InTurn
    <2>7. tampered' => Damaged(ledger')
        <3>1. ASSUME tampered PROVE Damaged(Seen(w))
            <4>1. /\ \A e \in ledger, f \in work[w].entries : e.at < f.at
                  /\ Damaged(ledger)
                BY <2>1, <3>1 DEF InTurn
            <4>2. \A e \in ledger \union work[w].entries : e.at \in Nat
                BY BooksAre DEF Seen
            <4>3. QED
                BY <4>1, <4>2, DamageStays DEF Seen
        <3>2. QED
            BY <1>1, <2>1, <2>5, <3>1 DEF InTurn
    <2>8. Leads(trail', payStatus')
        <3>1. Leads(trail, payStatus) /\ Leads(trail \union work[w].moves, work[w].status)
            BY <1>1, <2>1 DEF InTurn
        <3>2. CASE work[w].moves = {}
            <4>1. trail' = trail /\ payStatus' = payStatus
                BY <1>1, <3>2
            <4>2. QED
                BY <3>1, <4>1
        <3>3. CASE work[w].moves # {}
            BY <1>1, <3>1, <3>3
        <3>4. QED
            BY <3>2, <3>3
    <2>9. QED
        BY <2>3, <2>4, <2>6, <2>7, <2>8 DEF InTurn
<1>6. QED
    BY <1>4, <1>5 DEF GInv

\* A list is not the list with one more, and two that are equal end alike.
LEMMA HashesDiffer ==
    ASSUME NEW p \in Seq(Content), NEW c \in Content, NEW d \in Content
    PROVE  /\ EntryHash(p, c) # p
           /\ EntryHash(p, c) = EntryHash(p, d) => c = d
           /\ EntryHash(p, c) \in Seq(Content) /\ Len(EntryHash(p, c)) = Len(p) + 1
           /\ EntryHash(p, c)[Len(p) + 1] = c /\ Len(p) \in Nat
<1>1. /\ Append(p, c) \in Seq(Content) /\ Len(Append(p, c)) = Len(p) + 1 /\ Len(p) \in Nat
      /\ Append(p, c)[Len(p) + 1] = c /\ Append(p, d)[Len(p) + 1] = d
    OBVIOUS
<1>2. Append(p, c) # p
    BY <1>1
<1>3. Append(p, c) = Append(p, d) => c = d
    BY <1>1
<1>4. QED
    BY <1>1, <1>2, <1>3 DEF EntryHash

\* A chain with an entry changed does not verify.
LEMMA ChangeIsSeen ==
    ASSUME NEW S \in SUBSET Entry, Chained(S), NEW e \in S, NEW x \in Entry,
           x.hash = e.hash, x.prev = e.prev, x.content.kind # e.content.kind
    PROVE  Damaged((S \ {e}) \union {x})
<1>1. PICK c \in Content : e.hash = EntryHash(e.prev, c) /\ AsStored(c) = e.content
    BY DEF Chained, Sound
<1>2. e.prev \in Seq(Content) /\ x.content \in Content /\ c.kind = e.content.kind
    BY <1>1, RecordsAre
<1>3. x.hash # EntryHash(x.prev, x.content)
    <2>1. c # x.content
        BY <1>2
    <2>2. QED
        BY <1>1, <1>2, <2>1, HashesDiffer
<1>4. QED
    BY <1>3 DEF Damaged

\* Nor does one that misses an entry before its last.
LEMMA GapIsSeen ==
    ASSUME NEW S \in SUBSET Entry, Single(S), Chained(S), NEW e \in S, NEW f \in S, f.at > e.at
    PROVE  Damaged(S \ {e})
<1>1. \A g \in S : g.at \in Nat
    BY RecordsAre
<1>2. PICK U : U = {g.at : g \in {h \in S : h.at > e.at}}
    OBVIOUS
<1>3. U \in SUBSET Nat /\ U # {}
    BY <1>1, <1>2
<1>4. PICK n \in U : \A j \in U : n <= j
    BY <1>3, LeastElement
<1>5. PICK g \in S : g.at > e.at /\ g.at = n
    BY <1>2, <1>4
<1>6. \A h \in S : h.at > e.at => ~(h.at < g.at)
    <2>1. ASSUME NEW h \in S, h.at > e.at PROVE ~(h.at < g.at)
        <3>1. h.at \in U
            BY <1>2, <2>1
        <3>2. QED
            BY <1>1, <1>4, <1>5, <3>1
    <2>2. QED
        BY <2>1
<1>7. g # e
    BY <1>1, <1>5
<1>8. \A h \in S : h.at < g.at => h = e \/ h.at < e.at
    <2>1. ASSUME NEW h \in S, h.at < g.at, ~(h.at < e.at) PROVE h = e
        <3>1. h.at = e.at
            BY <1>1, <1>6, <2>1
        <3>2. QED
            BY <3>1 DEF Single
    <2>2. QED
        BY <2>1
<1>9. Before(S \ {e}, g) = Before(S, e)
    <2>1. \A h \in S : (h # e /\ h.at < g.at) <=> h.at < e.at
        BY <1>1, <1>5, <1>8
    <2>2. QED
        BY <2>1 DEF Before
<1>10. g.prev = e.hash
    <2>1. PICK B : B = Before(S, g)
        OBVIOUS
    <2>2. /\ e \in B /\ (\A h \in B : h.at \in Nat) /\ \A h \in B : h # e => h.at < e.at
        BY <1>1, <1>5, <1>8, <2>1 DEF Before
    <2>3. LastHash(B) = e.hash
        BY <2>2, LastHashIs
    <2>4. QED
        BY <2>1, <2>3 DEF Chained, Sound
<1>11. e.prev = LastHash(Before(S, e))
    BY DEF Chained, Sound
<1>12. e.hash # e.prev
    <2>1. PICK c \in Content : e.hash = EntryHash(e.prev, c)
        BY DEF Chained, Sound
    <2>2. e.prev \in Seq(Content)
        BY RecordsAre
    <2>3. QED
        BY <2>1, <2>2, HashesDiffer
<1>13. g \in S \ {e} /\ g.prev # LastHash(Before(S \ {e}, g))
    BY <1>7, <1>9, <1>10, <1>11, <1>12
<1>14. QED
    BY <1>13 DEF Damaged

\* An entry that is changed or taken away from the table leaves a chain that
\* does not verify, unless it is the last.
LEMMA TamperKeeps ==
    ASSUME GInv, Tamper
    PROVE  GInv'
<1>1. /\ ~tampered /\ tampered' = TRUE
      /\ UNCHANGED <<trail, payStatus, work, written, crossed>>
    BY DEF Tamper
<1>2. PICK e \in ledger :
         \/ \E k \in EntryTypes \ {e.content.kind} :
              ledger' = (ledger \ {e}) \union {[e EXCEPT !.content.kind = k]}
         \/ (\E f \in ledger : f.at > e.at) /\ ledger' = ledger \ {e}
    BY DEF Tamper
<1>3. ledger \in SUBSET Entry /\ e \in Entry /\ e.content \in Content
    BY RecordsAre DEF GInv, BooksTyped
<1>4. \/ \E x \in Entry : /\ x.hash = e.hash /\ x.prev = e.prev /\ x.at = e.at
                          /\ x.content.kind # e.content.kind
                          /\ ledger' = (ledger \ {e}) \union {x}
      \/ (\E f \in ledger : f.at > e.at) /\ ledger' = ledger \ {e}
    <2>1. ASSUME NEW k \in EntryTypes \ {e.content.kind},
                 ledger' = (ledger \ {e}) \union {[e EXCEPT !.content.kind = k]}
          PROVE  \E x \in Entry : /\ x.hash = e.hash /\ x.prev = e.prev /\ x.at = e.at
                                  /\ x.content.kind # e.content.kind
                                  /\ ledger' = (ledger \ {e}) \union {x}
        <3>1. PICK d : d = [e.content EXCEPT !.kind = k]
            OBVIOUS
        <3>2. d \in Content /\ d.kind = k
            BY <1>3, <3>1 DEF Content
        <3>3. PICK x : x = [e EXCEPT !.content = d]
            OBVIOUS
        <3>4. x \in Entry /\ x.hash = e.hash /\ x.prev = e.prev /\ x.at = e.at /\ x.content = d
            BY <1>3, <3>2, <3>3 DEF Entry
        <3>5. x = [e EXCEPT !.content.kind = k]
            BY <1>3, <3>1, <3>3
        <3>6. QED
            BY <2>1, <3>2, <3>4, <3>5
    <2>2. QED
        BY <1>2, <2>1
<1>5. /\ ledger' \in SUBSET Entry
      /\ \A g \in ledger' : \E h \in ledger : g.at = h.at
    BY <1>3, <1>4
<1>6. Single(ledger) => Single(ledger')
    BY <1>4 DEF Single
<1>7. BooksTyped' /\ Dated' /\ Idle'
    <2>1. BooksTyped'
        BY <1>1, <1>5 DEF GInv, BooksTyped
    <2>2. Dated'
        BY <1>1, <1>5 DEF GInv, Dated
    <2>3. Idle'
        BY <1>1 DEF GInv, Idle
    <2>4. QED
        BY <2>1, <2>2, <2>3
<1>8. ASSUME ~crossed' PROVE InTurn'
    <2>1. InTurn
        BY <1>1, <1>8 DEF GInv
    <2>2. Damaged(ledger')
        <3>1. Single(ledger) /\ Chained(ledger)
            BY <1>1, <2>1 DEF InTurn
        <3>2. QED
            BY <1>3, <1>4, <3>1, ChangeIsSeen, GapIsSeen
    <2>3. \A v \in Writers : \A g \in ledger', h \in work'[v].entries : g.at < h.at
        BY <1>1, <1>5, <2>1 DEF InTurn
    <2>4. ASSUME NEW v \in Writers PROVE Single(Seen(v)')
        <3>1. /\ \A g \in ledger', h \in work[v].entries : g.at < h.at
              /\ Single(ledger')
            BY <1>1, <1>6, <2>1, <2>3 DEF InTurn
        <3>2. \A g, h \in work[v].entries : g.at = h.at => g = h
            BY <2>1 DEF InTurn, Single, Seen
        <3>3. \A h \in work[v].entries : h.at \in Nat
            BY BooksAre DEF Seen
        <3>4. \A g \in ledger' : g.at \in Nat
            BY <1>5, BooksAre
        <3>5. Single(ledger' \union work[v].entries)
            BY <3>1, <3>2, <3>3, <3>4 DEF Single
        <3>6. QED
            BY <1>1, <3>5 DEF Seen
    <2>5. Single(ledger')
        BY <1>6, <2>1 DEF InTurn
    <2>6. /\ \A u, v \in Writers : work'[u].open /\ work'[v].open => u = v
          /\ Leads(trail', payStatus')
          /\ \A v \in Writers : work'[v].open => Leads(trail' \union work'[v].moves, work'[v].status)
        BY <1>1, <2>1 DEF InTurn
    <2>7. QED
        BY <1>1, <2>2, <2>3, <2>4, <2>5, <2>6 DEF InTurn
<1>9. QED
    BY <1>7, <1>8 DEF GInv

\* The invariant holds of empty books.
LEMMA LedgerInitially == LedgerInit => GInv
<1> SUFFICES ASSUME LedgerInit PROVE GInv
    OBVIOUS
<1>1. /\ ledger = {} /\ trail = {} /\ payStatus = "created" /\ written = 0
      /\ crossed = FALSE /\ tampered = FALSE
      /\ work = [w \in Writers |-> NoWork]
    BY DEF LedgerInit
<1>2. NoWork \in Work /\ NoWork.open = FALSE /\ NoWork.entries = {} /\ NoWork.moves = {}
    BY PayStatesAre DEF NoWork, Work
<1>3. \A w \in Writers : work[w] = NoWork /\ Seen(w) = {}
    BY <1>1, <1>2 DEF Seen
<1>4. BooksTyped
    <2>1. ledger \in SUBSET Entry /\ trail \in SUBSET Move /\ payStatus \in PayStates
        BY <1>1, PayStatesAre
    <2>2. work \in [Writers -> Work]
        BY <1>1, <1>2
    <2>3. written \in 0..MaxRecords
        BY <1>1, RecordsAre
    <2>4. crossed \in BOOLEAN /\ tampered \in BOOLEAN
        BY <1>1
    <2>5. QED
        BY <2>1, <2>2, <2>3, <2>4 DEF BooksTyped
<1>5. Dated /\ Idle
    BY <1>1, <1>2, <1>3 DEF Dated, Idle
<1>6. Leads(trail, payStatus)
    BY <1>1 DEF Leads
<1>7. InTurn
    BY <1>1, <1>2, <1>3, <1>6 DEF InTurn, Single, Chained
<1>8. QED
    BY <1>4, <1>5, <1>7 DEF GInv

\* Every step keeps the invariant.
LEMMA LedgerStepKeeps == GInv /\ [LedgerNext]_ledgerVars => GInv'
<1> SUFFICES ASSUME GInv, [LedgerNext]_ledgerVars PROVE GInv'
    OBVIOUS
<1>1. CASE UNCHANGED ledgerVars
    <2>1. UNCHANGED <<ledger, trail, payStatus, work, written, crossed, tampered>>
        BY <1>1 DEF ledgerVars
    <2>2. BooksTyped' /\ Dated' /\ Idle'
        BY <2>1 DEF GInv, BooksTyped, Dated, Idle
    <2>3. \A w \in Writers : Seen(w)' = Seen(w)
        BY <2>1 DEF Seen
    <2>4. InTurn => InTurn'
        BY <2>1, <2>3 DEF InTurn
    <2>5. QED
        BY <2>1, <2>2, <2>4 DEF GInv
<1>2. ASSUME NEW w \in Writers, Open(w) \/ Record(w) \/ TransitionPayment(w) \/ Close(w)
      PROVE  GInv'
    BY <1>2, OpenKeeps, RecordKeeps, TransitionKeeps, CloseKeeps
<1>3. CASE Tamper
    BY <1>3, TamperKeeps
<1>4. QED
    BY <1>1, <1>2, <1>3 DEF LedgerNext

\* The invariant implies the three properties of the books.
LEMMA LedgerHolds == GInv => HonestChainVerifies /\ TamperIsSeen /\ TrailLeadsToStatus
<1> SUFFICES ASSUME GInv PROVE HonestChainVerifies /\ TamperIsSeen /\ TrailLeadsToStatus
    OBVIOUS
<1>1. \A e \in ledger : HashBefore(e) = LastHash(Before(ledger, e))
    BY DEF HashBefore, Before
<1>2. HonestChainVerifies
    <2> SUFFICES ASSUME ~crossed, ~tampered, \A e \in ledger : \A i \in DOMAIN e.hash : e.hash[i].exact,
                        NEW e \in ledger
                 PROVE  e.prev = HashBefore(e) /\ e.hash = EntryHash(e.prev, e.content)
        BY DEF HonestChainVerifies, Verified
    <2>1. Sound(ledger, e)
        BY DEF GInv, InTurn, Chained
    <2>2. PICK c \in Content : e.hash = EntryHash(e.prev, c) /\ AsStored(c) = e.content
        BY <2>1 DEF Sound
    <2>3. e \in Entry /\ e.prev \in Seq(Content)
        BY RecordsAre DEF GInv, BooksTyped
    <2>4. /\ e.hash \in Seq(Content) /\ Len(e.hash) = Len(e.prev) + 1
          /\ e.hash[Len(e.prev) + 1] = c /\ Len(e.prev) \in Nat
        BY <2>2, <2>3, HashesDiffer
    <2>5. Len(e.prev) + 1 \in DOMAIN e.hash
        BY <2>4
    <2>6. c.exact
        BY <2>4, <2>5
    <2>7. c.exact = TRUE /\ c = [kind |-> c.kind, exact |-> c.exact]
        BY <2>6 DEF Content
    <2>8. AsStored(c) = c
        BY <2>7 DEF AsStored
    <2>9. QED
        BY <1>1, <2>1, <2>2, <2>8 DEF Sound
<1>3. TamperIsSeen
    <2> SUFFICES ASSUME tampered, ~crossed PROVE ~Verified
        BY DEF TamperIsSeen
    <2>1. Damaged(ledger)
        BY DEF GInv, InTurn
    <2>2. QED
        BY <1>1, <2>1 DEF Damaged, Verified
<1>4. TrailLeadsToStatus
    BY DEF GInv, InTurn, Leads, TrailLeadsToStatus
<1>5. QED
    BY <1>2, <1>3, <1>4

\* The screening after some of its checks.
Level(i) == screening.checks[CheckOrder[i]]
ScreeningSays ==
    /\ screening \in [checks: Checks, risk: 0..3, flags: Nat, blocked: BOOLEAN, step: 0..5]
    /\ \A i \in 1..screening.step : Level(i) <= screening.risk
    /\ screening.risk = 0 \/ \E i \in 1..screening.step : Level(i) = screening.risk
    /\ screening.blocked <=> \E i \in 1..screening.step : Level(i) = 3
    /\ screening.flags > 0 <=> \E i \in 1..screening.step : Level(i) > 0

\* The five checks of a screening, in their order.
LEMMA ChecksAre ==
    /\ Len(CheckOrder) = 5 /\ \A c \in Checks : \A i \in 1..5 : c[CheckOrder[i]] \in 0..3
    /\ \A c \in Checks : {c[k] : k \in DOMAIN c} = {c[CheckOrder[i]] : i \in 1..5}
<1>1. /\ Len(CheckOrder) = 5 /\ CheckOrder[1] = "payer" /\ CheckOrder[2] = "merchant"
      /\ CheckOrder[3] = "amount" /\ CheckOrder[4] = "velocity" /\ CheckOrder[5] = "wallet"
    BY DEF CheckOrder
<1>2. \A i \in 1..5 : i = 1 \/ i = 2 \/ i = 3 \/ i = 4 \/ i = 5
    OBVIOUS
<1>3. \A c \in Checks : DOMAIN c = {"payer", "merchant", "amount", "velocity", "wallet"}
    BY DEF Checks
<1>4. \A c \in Checks : /\ c["payer"] \in 0..3 /\ c["merchant"] \in 0..3 /\ c["amount"] \in 0..3
                        /\ c["velocity"] \in 0..3 /\ c["wallet"] \in 0..3
    BY DEF Checks
<1>5. \A c \in Checks : \A i \in 1..5 : c[CheckOrder[i]] \in 0..3
    BY <1>1, <1>2, <1>4
<1>6. ASSUME NEW c \in Checks PROVE {c[k] : k \in DOMAIN c} = {c[CheckOrder[i]] : i \in 1..5}
    <2>1. \A k \in DOMAIN c : \E i \in 1..5 : k = CheckOrder[i]
        BY <1>1, <1>3
    <2>2. \A i \in 1..5 : CheckOrder[i] \in DOMAIN c
        BY <1>1, <1>2, <1>3
    <2>3. QED
        BY <2>1, <2>2
<1>7. QED
    BY <1>1, <1>5, <1>6

\* What screening says holds before the first check.
LEMMA ScreeningInitially == ScreeningInit => ScreeningSays
<1> SUFFICES ASSUME ScreeningInit PROVE ScreeningSays
    OBVIOUS
<1>1. /\ screening \in [checks: Checks, risk: 0..3, flags: Nat, blocked: BOOLEAN, step: 0..5]
      /\ screening.step = 0 /\ screening.risk = 0 /\ screening.flags = 0 /\ screening.blocked = FALSE
    <2>1. PICK s : s = screening
        OBVIOUS
    <2>2. s \in [checks: Checks, risk: {0}, flags: {0}, blocked: {FALSE}, step: {0}]
        BY <2>1 DEF ScreeningInit
    <2>3. /\ s.checks \in Checks /\ s.risk = 0 /\ s.flags = 0 /\ s.step = 0
          /\ s = [checks |-> s.checks, risk |-> s.risk, flags |-> s.flags,
                  blocked |-> s.blocked, step |-> s.step]
        BY <2>2
    <2>4. s.blocked = FALSE
        BY <2>2
    <2>5. s \in [checks: Checks, risk: 0..3, flags: Nat, blocked: BOOLEAN, step: 0..5]
        <3>1. s.checks \in Checks /\ s.risk \in 0..3 /\ s.flags \in Nat /\ s.step \in 0..5
            BY <2>3
        <3>2. s.blocked \in BOOLEAN
            BY <2>4
        <3>3. QED
            BY <2>3, <3>1, <3>2
    <2>6. QED
        BY <2>1, <2>3, <2>4, <2>5
<1>2. 1..screening.step = {}
    BY <1>1
<1>3. QED
    BY <1>1, <1>2 DEF ScreeningSays

\* Each check raises the level to its own, or leaves it.
LEMMA ScreenKeeps == ScreeningSays /\ [Screen]_screening => ScreeningSays'
<1> SUFFICES ASSUME ScreeningSays, [Screen]_screening PROVE ScreeningSays'
    OBVIOUS
<1>1. CASE screening' = screening
    BY <1>1 DEF ScreeningSays, Level
<1>2. CASE Screen
    <2>1. PICK s, l : s = screening /\ l = Level(s.step + 1)
        OBVIOUS
    <2>2. s \in [checks: Checks, risk: 0..3, flags: Nat, blocked: BOOLEAN, step: 0..5]
        BY <2>1 DEF ScreeningSays
    <2>3. s.step < 5 /\ screening' = Merged(s, l)
        BY <1>2, <2>1, ChecksAre DEF Screen, Level
    <2>4. PICK k \in 0..4 : k = s.step
        BY <2>2, <2>3
    <2>5. l \in 0..3
        <3>1. k + 1 \in 1..5
            OBVIOUS
        <3>2. s.checks \in Checks
            BY <2>2
        <3>3. QED
            BY <2>1, <2>4, <3>1, <3>2, ChecksAre DEF Level
    <2>6. PICK z : z = screening'
        OBVIOUS
    <2>7. PICK r \in 0..3 : r = (IF l > s.risk THEN l ELSE s.risk)
        BY <2>2, <2>5
    <2>8. PICK f \in Nat : f = (IF l > 0 THEN s.flags + 1 ELSE s.flags)
        BY <2>2, <2>5
    <2>9. PICK b \in BOOLEAN : b = (s.blocked \/ l = 3)
        OBVIOUS
    <2>10. z = [[[[s EXCEPT !.risk = r] EXCEPT !.flags = f] EXCEPT !.blocked = b] EXCEPT !.step = k + 1]
        BY <2>2, <2>3, <2>4, <2>6, <2>7, <2>8, <2>9 DEF Merged
    <2>11. /\ z \in [checks: Checks, risk: 0..3, flags: Nat, blocked: BOOLEAN, step: 0..5]
           /\ z.checks = s.checks /\ z.risk = r /\ z.flags = f /\ z.blocked = b /\ z.step = k + 1
        <3>1. k + 1 \in 0..5
            OBVIOUS
        <3>2. QED
            BY <2>2, <2>10, <3>1
    <2>12. \A i : Level(i)' = Level(i)
        BY <2>1, <2>6, <2>11 DEF Level
    <2>13. \A i \in 1..(k + 1) : i \in 1..k \/ i = k + 1
        OBVIOUS
    <2>14. \A i \in 1..k : i \in 1..(k + 1) /\ Level(i) \in 0..3
        <3>1. \A i \in 1..k : i \in 1..(k + 1) /\ i \in 1..5
            OBVIOUS
        <3>2. s.checks \in Checks
            BY <2>2
        <3>3. QED
            BY <2>1, <3>1, <3>2, ChecksAre DEF Level
    <2>15. k + 1 \in 1..(k + 1) /\ Level(k + 1) = l
        BY <2>1, <2>4
    <2>16. \A i \in 1..(k + 1) : Level(i) <= r
        <3>1. s.risk \in 0..3 /\ \A i \in 1..k : Level(i) <= s.risk
            BY <2>1, <2>2, <2>4 DEF ScreeningSays
        <3>2. l <= r /\ s.risk <= r
            BY <2>5, <2>7, <3>1
        <3>3. \A i \in 1..k : Level(i) <= r
            BY <2>14, <3>1, <3>2
        <3>4. QED
            BY <2>13, <2>15, <3>2, <3>3
    <2>17. r = 0 \/ \E i \in 1..(k + 1) : Level(i) = r
        <3>1. s.risk = 0 \/ \E i \in 1..k : Level(i) = s.risk
            BY <2>1, <2>4 DEF ScreeningSays
        <3>2. r = l \/ r = s.risk
            BY <2>7
        <3>3. QED
            BY <2>14, <2>15, <3>1, <3>2
    <2>18. b <=> \E i \in 1..(k + 1) : Level(i) = 3
        <3>1. s.blocked <=> \E i \in 1..k : Level(i) = 3
            BY <2>1, <2>4 DEF ScreeningSays
        <3>2. (\E i \in 1..(k + 1) : Level(i) = 3) <=> ((\E i \in 1..k : Level(i) = 3) \/ l = 3)
            BY <2>13, <2>14, <2>15
        <3>3. QED
            BY <2>9, <3>1, <3>2
    <2>19. f > 0 <=> \E i \in 1..(k + 1) : Level(i) > 0
        <3>1. s.flags > 0 <=> \E i \in 1..k : Level(i) > 0
            BY <2>1, <2>4 DEF ScreeningSays
        <3>2. (\E i \in 1..(k + 1) : Level(i) > 0) <=> ((\E i \in 1..k : Level(i) > 0) \/ l > 0)
            BY <2>13, <2>14, <2>15
        <3>3. f > 0 <=> (s.flags > 0 \/ l > 0)
            BY <2>2, <2>5, <2>8
        <3>4. QED
            BY <3>1, <3>2, <3>3
    <2>20. screening'.step = k + 1 /\ screening'.risk = r /\ screening'.flags = f
           /\ screening'.blocked = b
        BY <2>6, <2>11
    <2>21. \A i \in 1..(k + 1) : Level(i)' = Level(i)
        BY <2>12
    <2>22. QED
        BY <2>6, <2>11, <2>16, <2>17, <2>18, <2>19, <2>20, <2>21 DEF ScreeningSays
<1>3. QED
    BY <1>1, <1>2

\* In the end the level is the worst of the five.
LEMMA ScreeningHolds == ScreeningSays => ScreeningIsWorst
<1> SUFFICES ASSUME ScreeningSays, screening.step = 5
             PROVE  LET levels == {screening.checks[c] : c \in DOMAIN screening.checks}
                    IN  /\ screening.risk \in levels \union {0} /\ \A l \in levels : l <= screening.risk
                        /\ ScreenResult = IF 3 \in levels THEN "block" ELSE IF levels = {0} THEN "pass" ELSE "flag"
    BY DEF ScreeningIsWorst
<1>1. PICK L : L = {screening.checks[c] : c \in DOMAIN screening.checks}
    OBVIOUS
<1>2. L = {Level(i) : i \in 1..5} /\ L \subseteq 0..3
    <2>1. screening.checks \in Checks
        BY DEF ScreeningSays
    <2>2. QED
        BY <1>1, <2>1, ChecksAre DEF Level
<1>3. screening.risk \in L \union {0} /\ \A l \in L : l <= screening.risk
    BY <1>2 DEF ScreeningSays
<1>4. screening.blocked <=> 3 \in L
    BY <1>2 DEF ScreeningSays
<1>5. screening.flags > 0 <=> \E l \in L : l > 0
    BY <1>2 DEF ScreeningSays
<1>6. L # {} /\ (L = {0} <=> ~\E l \in L : l > 0)
    <2>1. Level(1) \in L
        BY <1>2
    <2>2. \A l \in L : l > 0 \/ l = 0
        BY <1>2
    <2>3. QED
        BY <2>1, <2>2
<1>7. ScreenResult = IF 3 \in L THEN "block" ELSE IF L = {0} THEN "pass" ELSE "flag"
    BY <1>4, <1>5, <1>6 DEF ScreenResult
<1>8. QED
    BY <1>1, <1>3, <1>7

\* The invariants imply the types.
LEMMA LedgerTyped == GInv /\ ScreeningSays => LedgerTypeOK
<1> SUFFICES ASSUME GInv, ScreeningSays PROVE LedgerTypeOK
    OBVIOUS
<1>1. ASSUME NEW e \in ledger \union UNION {work[w].entries : w \in Writers}
      PROVE  e.content \in Content /\ e.at \in 1..MaxRecords
    <2>1. e \in Entry
        BY BooksAre DEF Seen
    <2>2. QED
        BY <2>1 DEF Entry
<1>2. ASSUME NEW t \in trail \union UNION {work[w].moves : w \in Writers}
      PROVE  {t.from, t.to} \subseteq PayStates /\ t.at \in 1..MaxRecords
    <2>1. t \in Move
        BY BooksAre
    <2>2. QED
        BY <2>1 DEF Move
<1>3. payStatus \in PayStates /\ \A w \in Writers : work[w].status \in PayStates
    BY BooksAre DEF GInv, BooksTyped
<1>4. written \in 0..MaxRecords /\ {crossed, tampered} \subseteq BOOLEAN
    BY DEF GInv, BooksTyped
<1>5. screening.checks \in Checks /\ screening.risk \in 0..3 /\ screening.step \in 0..5
    BY DEF ScreeningSays
<1>6. QED
    BY <1>1, <1>2, <1>3, <1>4, <1>5 DEF LedgerTypeOK

\* For any number of writers: books whose transactions did not cross verify,
\* what is changed in them is seen, the transitions lead to the status, and a
\* screening reports the worst of its checks (ledger_service.py,
\* state_machine.py, compliance_service.py).
THEOREM LedgerInvariant ==
    LedgerInit /\ ScreeningInit /\ [][LedgerNext]_ledgerVars /\ [][Screen]_screening
      => [](LedgerTypeOK /\ HonestChainVerifies /\ TamperIsSeen /\ TrailLeadsToStatus /\ ScreeningIsWorst)
<1>1. GInv /\ [LedgerNext]_ledgerVars => GInv'
    BY LedgerStepKeeps
<1>2. ScreeningSays /\ [Screen]_screening => ScreeningSays'
    BY ScreenKeeps
<1>3. GInv /\ ScreeningSays
        => LedgerTypeOK /\ HonestChainVerifies /\ TamperIsSeen /\ TrailLeadsToStatus /\ ScreeningIsWorst
    BY LedgerTyped, LedgerHolds, ScreeningHolds
<1>4. QED
    BY <1>1, <1>2, <1>3, LedgerInitially, ScreeningInitially, PTL

(***************************************************************************)
(* The rate limiter (Limits).                                              *)
(***************************************************************************)
\* What the store keeps of a window is what was admitted within it.
LInv ==
    /\ LimitTypeOK /\ WindowsHold
    /\ \A r \in Routes : InWindow(noted[r], WindowOf[r]) = InWindow(admitted[r], WindowOf[r])

\* The requests of a window are the sum of the counts of its ages.
LEMMA HowManyAddsUp ==
    ASSUME NEW past \in [PastAges -> Nat], NEW w \in Nat, w <= KeptAge
    PROVE  \E F : /\ SumsOf(PastAges, past, F)
                  /\ HowMany(past, w) = F[0..(w - 1)]
                  /\ 0..(w - 1) \in SUBSET PastAges
<1> DEFINE S == 0..(w - 1)
           Adds(iter) == iter = [T \in SUBSET S |->
               IF T = {} THEN 0 ELSE past[Pick(T)] + iter[T \ {Pick(T)}]]
           G == CHOOSE iter : Adds(iter)
<1>1. IsFiniteSet(PastAges) /\ IsFiniteSet(S) /\ S \in SUBSET PastAges
    <2>1. 0 \in Int /\ KeptAge \in Int /\ w - 1 \in Int /\ w - 1 <= KeptAge
        BY LimitsAssumption
    <2>2. IsFiniteSet(0..KeptAge) /\ IsFiniteSet(0..(w - 1))
        BY <2>1, FS_Interval
    <2>3. QED
        BY <2>1, <2>2 DEF PastAges
<1>2. HowMany(past, w) = G[S]
    BY DEF HowMany, MapThenSumSet, MapThenFoldSet, Pick
<1>3. \A iter : Adds(iter) <=> AddsUp(past, iter, SUBSET S)
    BY DEF AddsUp
<1>4. \A x \in PastAges : past[x] \in Nat
    OBVIOUS
<1> HIDE DEF S
<1>5. PICK iter : SumsOf(S, past, iter)
    BY <1>1, <1>4, AddsUpExists
<1>6. Adds(iter)
    BY <1>3, <1>5 DEF SumsOf
<1>7. Adds(G)
    <2> HIDE DEF Adds
    <2>1. QED
        BY <1>6
<1>8. SumsOf(S, past, G)
    <2>1. AddsUp(past, G, SUBSET S)
        <3> HIDE DEF G
        <3>1. QED
            BY <1>3, <1>7
    <2> HIDE DEF G
    <2>2. QED
        BY <1>1, <1>4, <2>1 DEF SumsOf
<1> HIDE DEF G
<1>9. PICK F : SumsOf(PastAges, past, F)
    BY <1>1, <1>4, AddsUpExists
<1>10. F[S] = G[S]
    BY <1>1, <1>8, <1>9, AddsUpAgree
<1>11. QED
    BY <1>1, <1>2, <1>9, <1>10 DEF S

\* How many there are is a number, the same for what agrees within the window.
LEMMA HowManyAgree ==
    ASSUME NEW past \in [PastAges -> Nat], NEW also \in [PastAges -> Nat],
           NEW w \in Nat, w <= KeptAge, InWindow(past, w) = InWindow(also, w)
    PROVE  HowMany(past, w) = HowMany(also, w) /\ HowMany(past, w) \in Nat
<1>1. PICK F : /\ SumsOf(PastAges, past, F) /\ HowMany(past, w) = F[0..(w - 1)]
               /\ 0..(w - 1) \in SUBSET PastAges
    BY HowManyAddsUp
<1>2. PICK G : /\ SumsOf(PastAges, also, G) /\ HowMany(also, w) = G[0..(w - 1)]
    BY HowManyAddsUp
<1>3. \A a \in 0..(w - 1) : past[a] = also[a]
    <2>1. \A a \in PastAges : a < w => past[a] = also[a]
        BY DEF InWindow
    <2>2. QED
        BY <1>1, <2>1
<1>4. F[0..(w - 1)] = G[0..(w - 1)]
    BY <1>1, <1>2, <1>3, AddsUpAgree
<1>5. F[0..(w - 1)] \in Nat
    BY <1>1, AddsUpElement
<1>6. QED
    BY <1>1, <1>2, <1>4, <1>5

\* One more request makes one more.
LEMMA OneMoreIs ==
    ASSUME NEW past \in [PastAges -> Nat], NEW w \in Nat \ {0}, w <= KeptAge
    PROVE  /\ OneMore(past) \in [PastAges -> Nat]
           /\ HowMany(OneMore(past), w) = HowMany(past, w) + 1
<1>1. OneMore(past) \in [PastAges -> Nat] /\ 0 \in PastAges
    BY LimitsAssumption DEF OneMore, PastAges
<1>2. PICK F : /\ SumsOf(PastAges, past, F) /\ HowMany(past, w) = F[0..(w - 1)]
               /\ 0..(w - 1) \in SUBSET PastAges
    BY HowManyAddsUp
<1>3. PICK more : more = OneMore(past)
    OBVIOUS
<1>4. PICK G : SumsOf(PastAges, more, G) /\ HowMany(more, w) = G[0..(w - 1)]
    BY <1>1, <1>3, HowManyAddsUp
<1>5. PICK S : S = (0..(w - 1)) \ {0}
    OBVIOUS
<1>6. S \in SUBSET PastAges /\ S = (0..(w - 1)) \ {0} /\ 0 \in 0..(w - 1)
    BY <1>2, <1>5
<1>7. \A a \in S : past[a] = more[a]
    BY <1>1, <1>3, <1>6 DEF OneMore
<1>8. F[S] = G[S]
    BY <1>2, <1>4, <1>6, <1>7, AddsUpAgree
<1>9. F[0..(w - 1)] = past[0] + F[S] /\ F[S] \in Nat
    <2>1. /\ F[{}] = 0
          /\ \A R \in SUBSET PastAges :
               F[R] \in Nat /\ \A a \in R : F[R] = past[a] + F[R \ {a}]
        BY <1>2, AddsUpElement
    <2>2. QED
        BY <1>2, <1>6, <2>1
<1>10. G[0..(w - 1)] = more[0] + G[S]
    <2>1. SumsOf(PastAges, more, G)
        BY <1>4
    <2>2. /\ G[{}] = 0
          /\ \A S_1 \in SUBSET PastAges :
               /\ G[S_1] \in Nat
               /\ \A x \in S_1 : G[S_1] = more[x] + G[S_1 \ {x}]
        BY <2>1, AddsUpElement
    <2>3. QED
        BY <1>2, <1>6, <2>2
<1>11. more[0] = past[0] + 1 /\ past[0] \in Nat
    BY <1>1, <1>3 DEF OneMore
<1>12. QED
    BY <1>1, <1>2, <1>3, <1>4, <1>8, <1>9, <1>10, <1>11

\* As time passes there are no more of them.
LEMMA WearIs ==
    ASSUME NEW past \in [PastAges -> Nat], NEW w \in Nat, w <= KeptAge
    PROVE  /\ Wear(past) \in [PastAges -> Nat]
           /\ HowMany(Wear(past), w) <= HowMany(past, w)
<1>1. Wear(past) \in [PastAges -> Nat]
    BY LimitsAssumption DEF Wear, PastAges
<1>2. PICK F : /\ SumsOf(PastAges, past, F) /\ HowMany(past, w) = F[0..(w - 1)]
               /\ 0..(w - 1) \in SUBSET PastAges
    BY HowManyAddsUp
<1>3. PICK worn : worn = Wear(past)
    OBVIOUS
<1>4. PICK G : SumsOf(PastAges, worn, G) /\ HowMany(worn, w) = G[0..(w - 1)]
    BY <1>1, <1>3, HowManyAddsUp
<1>5. /\ F[{}] = 0 /\ G[{}] = 0
      /\ \A S \in SUBSET PastAges :
           /\ F[S] \in Nat /\ G[S] \in Nat
           /\ \A a \in S : F[S] = past[a] + F[S \ {a}] /\ G[S] = worn[a] + G[S \ {a}]
    <2>1. /\ F[{}] = 0
          /\ \A S \in SUBSET PastAges :
               F[S] \in Nat /\ \A a \in S : F[S] = past[a] + F[S \ {a}]
        BY <1>2, AddsUpElement
    <2>2. /\ G[{}] = 0
          /\ \A S \in SUBSET PastAges :
               G[S] \in Nat /\ \A a \in S : G[S] = worn[a] + G[S \ {a}]
        BY <1>4, AddsUpElement
    <2>3. QED
        BY <2>1, <2>2
<1>6. \A a \in PastAges : worn[a] = IF a = 0 THEN 0 ELSE past[a - 1]
    BY <1>3 DEF Wear
<1> DEFINE T == {n \in Nat : n <= KeptAge => G[0..n] = F[0..(n - 1)]}
<1>7. 0 \in T
    <2>1. 0..0 = {0} /\ 0..(0 - 1) = {} /\ (0..0) \ {0} = {} /\ 0 \in PastAges
        BY LimitsAssumption DEF PastAges
    <2>2. G[0..0] = worn[0] + G[{}]
        <3>1. {0} \in SUBSET PastAges /\ {0} \ {0} = {}
            BY <2>1
        <3>2. G[{0}] = worn[0] + G[{0} \ {0}]
            BY <1>5, <3>1
        <3>3. QED
            BY <2>1, <3>1, <3>2
    <2>3. QED
        BY <1>5, <1>6, <2>1, <2>2
<1>8. ASSUME NEW n \in T PROVE n + 1 \in T
    <2> SUFFICES ASSUME n + 1 <= KeptAge PROVE G[0..(n + 1)] = F[0..n]
        BY LimitsAssumption
    <2>1. n \in Nat /\ G[0..n] = F[0..(n - 1)]
        BY LimitsAssumption
    <2>2. /\ 0..(n + 1) \in SUBSET PastAges /\ 0..n \in SUBSET PastAges
          /\ n + 1 \in 0..(n + 1) /\ n \in 0..n /\ n + 1 \in PastAges /\ n \in PastAges
        BY <2>1, LimitsAssumption DEF PastAges
    <2>3. (0..(n + 1)) \ {n + 1} = 0..n
        BY <2>1
    <2>4. (0..n) \ {n} = 0..(n - 1)
        BY <2>1
    <2>5. G[0..(n + 1)] = worn[n + 1] + G[0..n]
        <3>1. PICK S, x : S = 0..(n + 1) /\ x = n + 1
            OBVIOUS
        <3>2. S \in SUBSET PastAges /\ x \in S /\ S \ {x} = 0..n
            BY <2>2, <2>3, <3>1
        <3>3. G[S] = worn[x] + G[S \ {x}]
            BY <1>5, <3>2
        <3>4. QED
            BY <3>1, <3>2, <3>3
    <2>6. F[0..n] = past[n] + F[0..(n - 1)]
        <3>1. PICK S : S = 0..n
            OBVIOUS
        <3>2. S \in SUBSET PastAges /\ n \in S /\ S \ {n} = 0..(n - 1)
            BY <2>2, <2>4, <3>1
        <3>3. F[S] = past[n] + F[S \ {n}]
            BY <1>5, <3>2
        <3>4. QED
            BY <3>1, <3>2, <3>3
    <2>7. n + 1 # 0 /\ (n + 1) - 1 = n
        BY <2>1
    <2>8. worn[n + 1] = past[n]
        BY <1>6, <2>2, <2>7
    <2>9. QED
        BY <2>1, <2>5, <2>6, <2>8
<1>9. T = Nat
    <2> HIDE DEF T
    <2>1. T \in SUBSET Nat
        BY DEF T
    <2>2. QED
        BY <1>7, <1>8, <2>1, SetInduction
<1>10. CASE w = 0
    <2>1. 0..(w - 1) = {}
        BY <1>10
    <2>2. HowMany(worn, w) = 0 /\ HowMany(past, w) = 0
        BY <1>2, <1>4, <1>5, <2>1
    <2>3. QED
        BY <1>1, <1>3, <2>2
<1>11. CASE w # 0
    <2>1. w - 1 \in Nat /\ w - 1 <= KeptAge
        BY <1>11, LimitsAssumption
    <2>2. G[0..(w - 1)] = F[0..((w - 1) - 1)]
        BY <1>9, <2>1
    <2>3. 0..((w - 1) - 1) \subseteq 0..(w - 1)
        BY <2>1
    <2>4. F[0..((w - 1) - 1)] <= F[0..(w - 1)]
        BY <1>2, <2>3, AddsUpMonotone
    <2>5. QED
        BY <1>1, <1>2, <1>3, <1>4, <2>2, <2>4
<1>12. QED
    BY <1>10, <1>11

\* The invariant holds before the first request.
LEMMA LimitsInitially ==
    ASSUME LimitInit
    PROVE  LInv
<1> USE DEF LimitInit
<1>1. Nothing \in [PastAges -> Nat]
    BY LimitsAssumption DEF Nothing, PastAges
<1>2. LimitTypeOK
    BY <1>1, LimitsAssumption DEF LimitTypeOK
<1>3. ASSUME NEW r \in Routes PROVE HowMany(Nothing, WindowOf[r]) = 0
    <2>1. WindowOf[r] \in Nat /\ WindowOf[r] <= KeptAge
        BY LimitsAssumption
    <2>2. PICK F : /\ SumsOf(PastAges, Nothing, F)
                   /\ HowMany(Nothing, WindowOf[r]) = F[0..(WindowOf[r] - 1)]
                   /\ 0..(WindowOf[r] - 1) \in SUBSET PastAges
        BY <1>1, <2>1, HowManyAddsUp
    <2>3. /\ F[{}] = 0
          /\ \A S \in SUBSET PastAges :
               F[S] \in Nat /\ \A a \in S : F[S] = Nothing[a] + F[S \ {a}]
        BY <2>2, AddsUpElement
    <2>4. \A a \in PastAges : Nothing[a] = 0
        BY DEF Nothing
    <2> DEFINE Good == {S \in SUBSET PastAges : F[S] = 0}
    <2>5. {} \in Good
        BY <2>3
    <2>6. ASSUME NEW S \in SUBSET PastAges, S # {}, \A a \in S : S \ {a} \in Good
          PROVE  S \in Good
        <3>1. PICK a : a \in S
            BY <2>6
        <3>2. F[S \ {a}] = 0 /\ Nothing[a] = 0 /\ F[S] = Nothing[a] + F[S \ {a}]
            BY <2>3, <2>4, <2>6, <3>1
        <3>3. QED
            BY <3>2
    <2>7. SUBSET PastAges \subseteq Good
        <3>1. IsFiniteSet(PastAges)
            BY <2>2 DEF SumsOf
        <3> HIDE DEF Good
        <3>2. QED
            BY <2>5, <2>6, <3>1, SubsetInduction
    <2>8. QED
        BY <2>2, <2>7
<1>4. WindowsHold
    BY <1>3, LimitsAssumption DEF WindowsHold
<1>5. QED
    BY <1>2, <1>4 DEF LInv

\* Every request, and the time, keeps the windows within their limits.
LEMMA LimitsStepKeeps ==
    ASSUME LInv, [LimitNext]_limitVars
    PROVE  LInv'
<1> USE DEF LInv
<1>1. /\ noted \in [Routes -> [PastAges -> Nat]] /\ admitted \in [Routes -> [PastAges -> Nat]]
      /\ cleaned \in 0..CleanEvery /\ refused \subseteq Routes
    BY DEF LimitTypeOK
<1>2. \A r \in Routes : /\ WindowOf[r] \in Nat \ {0} /\ WindowOf[r] <= KeptAge
                        /\ MostOf[r] \in Nat \ {0}
    BY LimitsAssumption
<1>3. KeptAge \in Nat /\ CleanEvery \in Nat \ {0}
    BY LimitsAssumption
<1>4. CASE UNCHANGED limitVars
    <2> SUFFICES LimitTypeOK' /\ WindowsHold'
                 /\ \A r \in Routes : InWindow(noted'[r], WindowOf[r]) = InWindow(admitted'[r], WindowOf[r])
        OBVIOUS
    <2>1. noted' = noted /\ admitted' = admitted /\ cleaned' = cleaned /\ refused' = refused
        BY <1>4 DEF limitVars
    <2>2. LimitTypeOK'
        BY <1>1, <2>1 DEF LimitTypeOK
    <2>3. WindowsHold'
        BY <2>1 DEF WindowsHold
    <2>4. QED
        BY <2>1, <2>2, <2>3
<1>5. CASE PassTime
    <2> USE <1>5 DEF PassTime
    <2>1. \A r \in Routes :
            /\ Wear(noted[r]) \in [PastAges -> Nat] /\ Wear(admitted[r]) \in [PastAges -> Nat]
            /\ HowMany(Wear(admitted[r]), WindowOf[r]) <= HowMany(admitted[r], WindowOf[r])
        BY <1>1, <1>2, WearIs
    <2>2. cleaned' \in 0..CleanEvery
        BY <1>1, <1>3
    <2>3. LimitTypeOK'
        BY <2>1, <2>2 DEF LimitTypeOK
    <2>4. ASSUME NEW r \in Routes
          PROVE  HowMany(admitted'[r], WindowOf[r]) <= MostOf[r]
        <3>1. HowMany(admitted[r], WindowOf[r]) <= MostOf[r] /\ MostOf[r] \in Nat
            BY <1>2 DEF WindowsHold
        <3>2. HowMany(Wear(admitted[r]), WindowOf[r]) \in Nat
              /\ HowMany(admitted[r], WindowOf[r]) \in Nat
            BY <1>1, <1>2, <2>1, HowManyAgree
        <3>3. admitted'[r] = Wear(admitted[r])
            OBVIOUS
        <3>4. HowMany(Wear(admitted[r]), WindowOf[r]) <= HowMany(admitted[r], WindowOf[r])
            BY <2>1
        <3>5. HowMany(Wear(admitted[r]), WindowOf[r]) <= MostOf[r]
            BY <3>1, <3>2, <3>4
        <3>6. QED
            BY <3>3, <3>5
    <2>5. ASSUME NEW r \in Routes
          PROVE  InWindow(noted'[r], WindowOf[r]) = InWindow(admitted'[r], WindowOf[r])
        <3>1. InWindow(noted[r], WindowOf[r]) = InWindow(admitted[r], WindowOf[r])
            OBVIOUS
        <3>2. \A a \in PastAges : a < WindowOf[r] => noted[r][a] = admitted[r][a]
            BY <3>1 DEF InWindow
        <3>3. \A a \in PastAges : a # 0 => a - 1 \in PastAges /\ (a < WindowOf[r] => a - 1 < WindowOf[r])
            BY <1>2, <1>3 DEF PastAges
        <3>4. \A a \in PastAges : a < WindowOf[r] => Wear(noted[r])[a] = Wear(admitted[r])[a]
            BY <3>2, <3>3 DEF Wear
        <3>5. InWindow(Wear(noted[r]), WindowOf[r]) = InWindow(Wear(admitted[r]), WindowOf[r])
            BY <3>4 DEF InWindow
        <3>6. QED
            BY <3>5
    <2>6. QED
        BY <2>3, <2>4, <2>5 DEF WindowsHold
<1>6. ASSUME NEW q \in Routes, Ask(q) PROVE LInv'
    <2>1. PICK w \in Nat \ {0} : w = WindowOf[q] /\ w <= KeptAge
        BY <1>2
    <2>2. PICK clean : clean = Cleaned
        OBVIOUS
    <2>3. /\ clean \in [Routes -> [PastAges -> Nat]]
          /\ \A r \in Routes : InWindow(clean[r], WindowOf[r]) = InWindow(admitted[r], WindowOf[r])
        <3>1. CASE cleaned < CleanEvery
            BY <1>1, <2>2, <3>1 DEF Cleaned
        <3>2. CASE ~(cleaned < CleanEvery)
            <4>1. clean = [r \in Routes |-> InWindow(noted[r], KeptAge)]
                BY <2>2, <3>2 DEF Cleaned
            <4>2. \A r \in Routes : InWindow(noted[r], KeptAge) \in [PastAges -> Nat]
                BY <1>1 DEF InWindow
            <4>3. \A r \in Routes : \A a \in PastAges : a < WindowOf[r] => a < KeptAge
                BY <1>2, <1>3 DEF PastAges
            <4>4. \A r \in Routes :
                    InWindow(clean[r], WindowOf[r]) = InWindow(noted[r], WindowOf[r])
                BY <4>1, <4>3 DEF InWindow
            <4>5. QED
                BY <4>1, <4>2, <4>4
        <3>3. QED
            BY <3>1, <3>2
    <2>4. PICK recent : recent = InWindow(clean[q], w)
        OBVIOUS
    <2>5. recent \in [PastAges -> Nat] /\ InWindow(recent, w) = InWindow(admitted[q], w)
        <3>1. recent \in [PastAges -> Nat]
            BY <2>3, <2>4 DEF InWindow
        <3>2. InWindow(recent, w) = InWindow(clean[q], w)
            BY <2>4 DEF InWindow
        <3>3. QED
            BY <2>1, <2>3, <3>1, <3>2
    <2>6. PICK n \in Nat : n = HowMany(admitted[q], w) /\ HowMany(recent, w) = n
        BY <1>1, <2>1, <2>5, HowManyAgree
    <2>7. n <= MostOf[q] /\ MostOf[q] \in Nat
        BY <1>2, <2>1, <2>6 DEF WindowsHold
    <2>8. cleaned' \in 0..CleanEvery
        BY <1>1, <1>3, <1>6 DEF Ask
    <2>9. CASE n >= MostOf[q]
        <3>1. noted' = clean /\ refused' = {q} /\ admitted' = admitted
            BY <1>6, <2>1, <2>2, <2>4, <2>6, <2>9 DEF Ask
        <3>2. LimitTypeOK'
            BY <1>1, <2>3, <2>8, <3>1 DEF LimitTypeOK
        <3>3. n = MostOf[q]
            BY <2>7, <2>9
        <3>4. WindowsHold'
            BY <2>1, <2>6, <3>1, <3>3 DEF WindowsHold
        <3>5. QED
            BY <2>3, <3>1, <3>2, <3>4
    <2>10. CASE ~(n >= MostOf[q])
        <3>1. /\ noted' = [clean EXCEPT ![q] = OneMore(recent)] /\ refused' = {}
              /\ admitted' = [admitted EXCEPT ![q] = OneMore(admitted[q])]
            BY <1>6, <2>1, <2>2, <2>4, <2>6, <2>10 DEF Ask
        <3>2. /\ OneMore(recent) \in [PastAges -> Nat]
              /\ OneMore(admitted[q]) \in [PastAges -> Nat]
              /\ HowMany(OneMore(admitted[q]), w) = n + 1
            BY <1>1, <2>1, <2>5, <2>6, OneMoreIs
        <3>3. LimitTypeOK'
            BY <1>1, <2>3, <2>8, <3>1, <3>2 DEF LimitTypeOK
        <3>4. n + 1 <= MostOf[q]
            BY <2>7, <2>10
        <3>5. /\ admitted'[q] = OneMore(admitted[q]) /\ noted'[q] = OneMore(recent)
              /\ \A r \in Routes \ {q} : admitted'[r] = admitted[r] /\ noted'[r] = clean[r]
            BY <1>1, <2>3, <3>1
        <3>6. \A r \in Routes : HowMany(admitted'[r], WindowOf[r]) <= MostOf[r]
            BY <2>1, <3>2, <3>4, <3>5 DEF WindowsHold
        <3>7. InWindow(OneMore(recent), w) = InWindow(OneMore(admitted[q]), w)
            <4>1. \A a \in PastAges : a < w => recent[a] = admitted[q][a]
                BY <2>5 DEF InWindow
            <4>2. 0 \in PastAges /\ 0 < w
                BY <1>3, <2>1 DEF PastAges
            <4>3. \A a \in PastAges : a < w => OneMore(recent)[a] = OneMore(admitted[q])[a]
                BY <1>1, <2>5, <4>1, <4>2 DEF OneMore
            <4>4. QED
                BY <4>3 DEF InWindow
        <3>8. \A r \in Routes : InWindow(noted'[r], WindowOf[r]) = InWindow(admitted'[r], WindowOf[r])
            BY <2>1, <2>3, <3>5, <3>7
        <3>9. QED
            BY <3>1, <3>3, <3>6, <3>8 DEF WindowsHold
    <2>11. QED
        BY <2>9, <2>10
<1>7. QED
    BY <1>4, <1>5, <1>6 DEF LimitNext

(***************************************************************************)
(* Rates and prices (Rates). A rate that is kept for some time is no older *)
(* than that time and the time of the price it came from.                  *)
(***************************************************************************)
AtMostOne(S) == \E x : S \subseteq {x}

\* A rate that may still be used is not older than its price was when it was
\* kept, and the time since; the rate of 1 was new.
RecentRate(r) == r.kept < RateTTL => r.age <= r.kept + IF r.real THEN PriceTTL ELSE 0
StoredRates(S) == S \subseteq Rate /\ AtMostOne(S) /\ \A r \in S : RecentRate(r)

XInv ==
    /\ priced \in [Quoters -> SUBSET Ages] /\ \A q \in Quoters : AtMostOne(priced[q])
    /\ remembered \in [Quoters -> SUBSET Rate] /\ \A q \in Quoters : StoredRates(remembered[q])
    /\ fetching \in [Quoters -> SUBSET Inquiry]
    /\ StoredRates(shared) /\ \A r \in shared : r.kept < RateTTL
    /\ quoted \in Rate /\ RatesAreRecent

\* A set with all its members equal has at most one.
LEMMA AtMostOneIs ==
    ASSUME NEW S, AtMostOne(S)
    PROVE  Cardinality(S) <= 1
<1>1. PICK x : S \subseteq {x}
    BY DEF AtMostOne
<1>2. S = {} \/ S = {x}
    BY <1>1
<1>3. Cardinality({}) = 0 /\ Cardinality({x}) = 1
    BY FS_EmptySet, FS_Singleton
<1>4. QED
    BY <1>2, <1>3

\* The invariant implies the types.
LEMMA RatesTyped ==
    ASSUME XInv
    PROVE  RateTypeOK
<1>1. \A q \in Quoters : Cardinality(priced[q]) <= 1 /\ Cardinality(remembered[q]) <= 1
    BY AtMostOneIs DEF XInv, StoredRates
<1>2. Cardinality(shared) <= 1
    BY AtMostOneIs DEF XInv, StoredRates
<1>3. QED
    BY <1>1, <1>2 DEF XInv, StoredRates, RateTypeOK

\* The times that rates and prices are kept are numbers, and both together
\* are less than the oldest age.
LEMMA RateTimes ==
    /\ PriceTTL \in Nat /\ RateTTL \in Nat \ {0} /\ MaxAge \in Nat /\ Providers \in Nat \ {0}
    /\ PriceTTL + RateTTL < MaxAge
BY RatesAssumption

\* Fields of the right types make a rate.
LEMMA RateMade ==
    ASSUME NEW a \in Ages, NEW k \in 0..RateTTL, NEW b \in BOOLEAN
    PROVE  [age |-> a, kept |-> k, real |-> b] \in Rate
BY DEF Rate

\* One field of a rate is changed.
LEMMA RateExcept ==
    ASSUME NEW a, NEW k, NEW b, NEW v,
           NEW r, r = [age |-> a, kept |-> k, real |-> b]
    PROVE  /\ [r EXCEPT !.age = v] = [age |-> v, kept |-> k, real |-> b]
           /\ [r EXCEPT !.kept = v] = [age |-> a, kept |-> v, real |-> b]
           /\ [r EXCEPT !.real = v] = [age |-> a, kept |-> k, real |-> v]
OBVIOUS

\* One field of a fresh rate is changed.
LEMMA FreshExcept ==
    ASSUME NEW v
    PROVE  /\ [Fresh EXCEPT !.age = v] = [age |-> v, kept |-> 0, real |-> TRUE]
           /\ [Fresh EXCEPT !.real = v] = [age |-> 0, kept |-> 0, real |-> v]
<1>1. PICK r : r = Fresh
    OBVIOUS
<1>2. PICK a, k, b : a = 0 /\ k = 0 /\ b = TRUE
    OBVIOUS
<1>3. r = [age |-> a, kept |-> k, real |-> b]
    BY <1>1, <1>2 DEF Fresh
<1>4. /\ [r EXCEPT !.age = v] = [age |-> v, kept |-> k, real |-> b]
      /\ [r EXCEPT !.real = v] = [age |-> a, kept |-> k, real |-> v]
    BY <1>3, RateExcept
<1>5. QED
    BY <1>1, <1>2, <1>4

\* What a caller is given, and what is kept of it.
LEMMA GotKeeps ==
    ASSUME XInv, NEW q \in Quoters, NEW for, NEW a \in Ages, NEW b \in BOOLEAN,
           a <= IF b THEN PriceTTL ELSE 0,
           Got(q, for, [age |-> a, kept |-> 0, real |-> b]),
           priced' \in [Quoters -> SUBSET Ages], \A p \in Quoters : AtMostOne(priced'[p]),
           fetching' \in [Quoters -> SUBSET Inquiry]
    PROVE  XInv'
<1>1. PICK r : r = [age |-> a, kept |-> 0, real |-> b]
    OBVIOUS
<1>2. r.age = a /\ r.kept = 0 /\ r.real = b /\ [r EXCEPT !.kept = 0] = r
    BY <1>1
<1>3. r \in Rate
    <2>1. 0 \in 0..RateTTL
        BY RateTimes
    <2>2. QED
        BY <1>1, <2>1, RateMade
<1>4. RecentRate(r) /\ r.kept < RateTTL
    <2>1. a \in Nat
        BY RateTimes DEF Ages
    <2>2. QED
        BY <1>2, <2>1, RateTimes DEF RecentRate
<1>5. quoted' = r /\ IF for = "rate" THEN Keep(q, r) ELSE UNCHANGED <<remembered, shared>>
    BY <1>1, <1>2 DEF Got
<1>6. RatesAreRecent'
    <2>1. a \in Nat
        BY RateTimes DEF Ages
    <2>2. r.age < IF r.real THEN PriceTTL + RateTTL ELSE RateTTL
        BY <1>2, <2>1, RateTimes
    <2>3. QED
        BY <1>5, <2>2 DEF RatesAreRecent
<1>7. StoredRates({r})
    BY <1>3, <1>4 DEF StoredRates, AtMostOne
<1>8. /\ remembered' = remembered \/ remembered' = [remembered EXCEPT ![q] = {r}]
      /\ shared' = shared \/ shared' = {r}
    BY <1>2, <1>5 DEF Keep
<1>9. remembered' \in [Quoters -> SUBSET Rate] /\ \A p \in Quoters : StoredRates(remembered'[p])
    BY <1>3, <1>7, <1>8 DEF XInv
<1>10. StoredRates(shared') /\ \A s \in shared' : s.kept < RateTTL
    BY <1>4, <1>7, <1>8 DEF XInv
<1>11. QED
    BY <1>3, <1>5, <1>6, <1>9, <1>10 DEF XInv, StoredRates, AtMostOne, RecentRate

\* A rate that is quoted is recent.
LEMMA QuoteKeeps ==
    ASSUME XInv, NEW r \in Rate, RecentRate(r), r.kept < RateTTL,
           quoted' = [r EXCEPT !.kept = 0], UNCHANGED <<priced, remembered, shared, fetching>>
    PROVE  XInv'
<1>1. r.age \in Nat /\ r.kept \in Nat /\ r.real \in BOOLEAN /\ r.age \in Ages
    BY RateTimes DEF Rate, Ages
<1>2. quoted' = [age |-> r.age, kept |-> 0, real |-> r.real]
    BY DEF Rate
<1>3. quoted' \in Rate
    <2>1. 0 \in 0..RateTTL
        BY RateTimes
    <2>2. QED
        BY <1>1, <1>2, <2>1, RateMade
<1>4. RatesAreRecent'
    <2>1. r.age < IF r.real THEN PriceTTL + RateTTL ELSE RateTTL
        BY <1>1, RateTimes DEF RecentRate
    <2>2. QED
        BY <1>2, <2>1 DEF RatesAreRecent
<1>5. QED
    BY <1>3, <1>4 DEF XInv, StoredRates, AtMostOne, RecentRate

\* A request for a rate is answered from memory, from the cache, or asks a
\* provider.
LEMMA FiatRateKeeps ==
    ASSUME XInv, NEW q \in Quoters, NEW for \in {"price", "rate"}, GetFiatRate(q, for)
    PROVE  XInv'
<1>1. CASE PriceOf(q) # {}
    <2>1. /\ \E a \in PriceOf(q) : Got(q, for, [Fresh EXCEPT !.age = a])
          /\ UNCHANGED <<priced, fetching>>
        BY <1>1 DEF GetFiatRate
    <2>2. PICK a \in PriceOf(q) : Got(q, for, [Fresh EXCEPT !.age = a])
        BY <2>1
    <2>3. [Fresh EXCEPT !.age = a] = [age |-> a, kept |-> 0, real |-> TRUE]
        BY FreshExcept
    <2>4. a \in Ages /\ a <= PriceTTL
        BY DEF PriceOf, XInv
    <2>5. Got(q, for, [age |-> a, kept |-> 0, real |-> TRUE])
        BY <2>2, <2>3
    <2>6. QED
        BY <2>1, <2>4, <2>5, GotKeeps DEF XInv
<1>2. CASE PriceOf(q) = {}
    <2>1. /\ priced' = [priced EXCEPT ![q] = {}]
          /\ fetching' = [fetching EXCEPT ![q] = @ \union {[for |-> for, provider |-> 1]}]
          /\ remembered' = [remembered EXCEPT ![q] = IF for = "rate" THEN {} ELSE @]
          /\ UNCHANGED <<shared, quoted>>
        BY <1>2 DEF GetFiatRate
    <2>2. AtMostOne({}) /\ StoredRates({})
        BY DEF AtMostOne, StoredRates
    <2>3. priced' \in [Quoters -> SUBSET Ages] /\ \A p \in Quoters : AtMostOne(priced'[p])
        BY <2>1, <2>2 DEF XInv
    <2>4. 1 \in 1..Providers
        BY RateTimes
    <2>5. [for |-> for, provider |-> 1] \in Inquiry
        BY <2>4 DEF Inquiry
    <2>6. fetching' \in [Quoters -> SUBSET Inquiry]
        BY <2>1, <2>5 DEF XInv
    <2>7. remembered' \in [Quoters -> SUBSET Rate] /\ \A p \in Quoters : StoredRates(remembered'[p])
        BY <2>1, <2>2 DEF XInv
    <2>8. RatesAreRecent'
        BY <2>1 DEF XInv, RatesAreRecent
    <2>9. QED
        BY <2>1, <2>3, <2>6, <2>7, <2>8 DEF XInv, StoredRates, AtMostOne, RecentRate
<1>3. QED
    BY <1>1, <1>2

\* The answer of a provider, or of none, keeps the invariant.
LEMMA ProvidersKeep ==
    ASSUME XInv, NEW q \in Quoters, Provided(q) \/ NotProvided(q)
    PROVE  XInv'
<1>1. 0 \in Ages /\ 0 <= PriceTTL
    BY RateTimes DEF Ages
<1>2. CASE Provided(q)
    <2>1. PICK f \in fetching[q] :
            /\ priced' = [priced EXCEPT ![q] = {0}] /\ Got(q, f.for, Fresh)
            /\ fetching' = [fetching EXCEPT ![q] = @ \ {f}]
        BY <1>2 DEF Provided
    <2>2. Got(q, f.for, [age |-> 0, kept |-> 0, real |-> TRUE])
        BY <2>1 DEF Fresh
    <2>3. AtMostOne({0})
        BY DEF AtMostOne
    <2>4. priced' \in [Quoters -> SUBSET Ages] /\ \A p \in Quoters : AtMostOne(priced'[p])
        BY <1>1, <2>1, <2>3 DEF XInv
    <2>5. fetching' \in [Quoters -> SUBSET Inquiry]
        BY <2>1 DEF XInv
    <2>6. QED
        BY <1>1, <2>2, <2>4, <2>5, GotKeeps
<1>3. ASSUME NEW f \in fetching[q], f.provider < Providers,
             fetching' = [fetching EXCEPT ![q] = (@ \ {f}) \union {[f EXCEPT !.provider = @ + 1]}],
             UNCHANGED <<priced, remembered, shared, quoted>>
      PROVE  XInv'
    <2>1. f \in Inquiry
        BY DEF XInv
    <2>2. f.provider + 1 \in 1..Providers
        BY <1>3, <2>1, RateTimes DEF Inquiry
    <2>3. [f EXCEPT !.provider = @ + 1] \in Inquiry
        BY <2>1, <2>2 DEF Inquiry
    <2>4. fetching' \in [Quoters -> SUBSET Inquiry]
        BY <1>3, <2>3 DEF XInv
    <2>5. RatesAreRecent'
        BY <1>3 DEF XInv, RatesAreRecent
    <2>6. QED
        BY <1>3, <2>4, <2>5 DEF XInv, StoredRates, AtMostOne, RecentRate
<1>4. ASSUME NEW f \in fetching[q], Got(q, f.for, [Fresh EXCEPT !.real = FALSE]),
             fetching' = [fetching EXCEPT ![q] = @ \ {f}], UNCHANGED priced
      PROVE  XInv'
    <2>1. Got(q, f.for, [age |-> 0, kept |-> 0, real |-> FALSE])
        <3>1. [Fresh EXCEPT !.real = FALSE] = [age |-> 0, kept |-> 0, real |-> FALSE]
            BY FreshExcept
        <3>2. QED
            BY <1>4, <3>1
    <2>2. fetching' \in [Quoters -> SUBSET Inquiry]
        BY <1>4 DEF XInv
    <2>3. priced' \in [Quoters -> SUBSET Ages] /\ \A p \in Quoters : AtMostOne(priced'[p])
        BY <1>4 DEF XInv
    <2>4. QED
        <3>1. \A b \in BOOLEAN : 0 <= IF b THEN PriceTTL ELSE 0
            BY <1>1
        <3>2. FALSE \in BOOLEAN
            OBVIOUS
        <3>3. QED
            BY <1>1, <2>1, <2>2, <2>3, <3>1, <3>2, GotKeeps
<1>5. QED
    BY <1>2, <1>3, <1>4 DEF NotProvided

\* An age grows by one, to the last at most.
LEMMA ElderIs ==
    ASSUME NEW last \in Nat, NEW a \in 0..last
    PROVE  Elder(a, last) \in 0..last /\ Elder(a, last) <= a + 1
           /\ (Elder(a, last) < last => Elder(a, last) = a + 1)
BY DEF Elder

\* Rates that grow older stay recent for as long as they are kept.
LEMMA ElderRatesAre ==
    ASSUME NEW S, StoredRates(S)
    PROVE  StoredRates(ElderRates(S))
<1> DEFINE Next(r) == [r EXCEPT !.age = Elder(@, MaxAge), !.kept = Elder(@, RateTTL)]
<1>1. ElderRates(S) = {Next(r) : r \in S}
    BY DEF ElderRates
<1>2. ASSUME NEW r \in S PROVE Next(r) \in Rate /\ RecentRate(Next(r))
    <2>1. r \in Rate /\ RecentRate(r)
        BY DEF StoredRates
    <2>2. /\ r.age \in 0..MaxAge /\ r.kept \in 0..RateTTL /\ r.real \in BOOLEAN
          /\ r = [age |-> r.age, kept |-> r.kept, real |-> r.real]
        BY <2>1 DEF Rate, Ages
    <2>3. PICK a, k : a = Elder(r.age, MaxAge) /\ k = Elder(r.kept, RateTTL)
        OBVIOUS
    <2>4. /\ a \in 0..MaxAge /\ a <= r.age + 1
          /\ k \in 0..RateTTL /\ (k < RateTTL => k = r.kept + 1)
        BY <2>2, <2>3, ElderIs, RateTimes
    <2>5. Next(r) = [age |-> a, kept |-> k, real |-> r.real]
        <3>1. PICK s : s = [r EXCEPT !.age = a]
            OBVIOUS
        <3>2. s = [age |-> a, kept |-> r.kept, real |-> r.real]
            BY <2>2, <3>1, RateExcept
        <3>3. [s EXCEPT !.kept = k] = [age |-> a, kept |-> k, real |-> r.real]
            BY <3>2, RateExcept
        <3>4. QED
            BY <2>3, <3>1, <3>3
    <2>6. Next(r) \in Rate
        <3>1. a \in Ages
            BY <2>4 DEF Ages
        <3>2. QED
            BY <2>2, <2>4, <2>5, <3>1, RateMade
    <2>7. k < RateTTL => a <= k + IF r.real THEN PriceTTL ELSE 0
        <3>1. r.kept < RateTTL => r.age <= r.kept + IF r.real THEN PriceTTL ELSE 0
            BY <2>1 DEF RecentRate
        <3>2. PICK P \in Nat : P = IF r.real THEN PriceTTL ELSE 0
            BY RateTimes
        <3>3. k < RateTTL => a <= k + P
            BY <2>2, <2>4, <3>1, <3>2, RateTimes
        <3>4. QED
            BY <3>2, <3>3
    <2>8. RecentRate(Next(r))
        BY <2>5, <2>7 DEF RecentRate
    <2>9. QED
        BY <2>6, <2>8
<1>3. PICK x : S \subseteq {x}
    BY DEF StoredRates, AtMostOne
<1>4. AtMostOne(ElderRates(S))
    <2> HIDE DEF Next
    <2>1. ElderRates(S) \subseteq {Next(x)}
        BY <1>1, <1>3
    <2>2. QED
        BY <2>1 DEF AtMostOne
<1>5. QED
    <2> HIDE DEF Next
    <2>1. QED
        BY <1>1, <1>2, <1>4 DEF StoredRates

\* Time keeps the invariant.
LEMMA GrowOldKeeps ==
    ASSUME XInv, GrowOld
    PROVE  XInv'
<1> USE DEF GrowOld
<1>1. ASSUME NEW q \in Quoters
      PROVE  priced'[q] \in SUBSET Ages /\ AtMostOne(priced'[q])
    <2>1. priced'[q] = {Elder(a, PriceTTL + 1) : a \in priced[q]}
        OBVIOUS
    <2>2. PICK x : priced[q] \subseteq {x}
        BY DEF XInv, AtMostOne
    <2>3. priced'[q] \subseteq {Elder(x, PriceTTL + 1)}
        BY <2>1, <2>2
    <2>4. \A a \in Ages : Elder(a, PriceTTL + 1) \in Ages
        BY RateTimes DEF Elder, Ages
    <2>5. QED
        BY <2>1, <2>3, <2>4 DEF XInv, AtMostOne
<1>2. \A q \in Quoters : StoredRates(remembered'[q])
    BY ElderRatesAre DEF XInv
<1>3. StoredRates(ElderRates(shared))
    BY ElderRatesAre DEF XInv
<1>4. StoredRates(shared') /\ \A r \in shared' : r.kept < RateTTL
    BY <1>3 DEF StoredRates, AtMostOne
<1>5. /\ priced' \in [Quoters -> SUBSET Ages]
      /\ remembered' \in [Quoters -> SUBSET Rate]
    BY <1>1, <1>2 DEF StoredRates
<1>6. RatesAreRecent'
    BY DEF XInv, RatesAreRecent
<1>7. QED
    BY <1>1, <1>2, <1>4, <1>5, <1>6 DEF XInv, StoredRates, AtMostOne, RecentRate

\* The invariant holds before anything is quoted.
LEMMA RatesInitially ==
    ASSUME RateInit
    PROVE  XInv
<1>1. AtMostOne({}) /\ StoredRates({})
    BY DEF AtMostOne, StoredRates
<1>2. Fresh \in Rate /\ Fresh.age = 0 /\ Fresh.real = TRUE
    <2>1. 0 \in Ages /\ 0 \in 0..RateTTL
        BY RateTimes DEF Ages
    <2>2. QED
        BY <2>1, RateMade DEF Fresh
<1>3. RatesAreRecent
    BY <1>2, RateTimes DEF RatesAreRecent, RateInit
<1>4. QED
    BY <1>1, <1>2, <1>3 DEF RateInit, XInv

\* Every step keeps the invariant.
LEMMA RatesStepKeeps ==
    ASSUME XInv, [RateNext]_rateVars
    PROVE  XInv'
<1>1. CASE UNCHANGED rateVars
    <2>1. RatesAreRecent'
        BY <1>1 DEF XInv, RatesAreRecent, rateVars
    <2>2. QED
        BY <1>1, <2>1 DEF XInv, rateVars, StoredRates, AtMostOne, RecentRate
<1>2. ASSUME NEW q \in Quoters, AskPrice(q) PROVE XInv'
    BY <1>2, FiatRateKeeps DEF AskPrice
<1>3. ASSUME NEW q \in Quoters, AskRate(q) PROVE XInv'
    <2>1. CASE SharedHit(q)
        <3>1. PICK r \in shared :
                quoted' = [r EXCEPT !.kept = 0] /\ UNCHANGED <<priced, remembered, shared, fetching>>
            BY <2>1 DEF SharedHit
        <3>2. r \in Rate /\ RecentRate(r) /\ r.kept < RateTTL
            BY DEF XInv, StoredRates
        <3>3. QED
            BY <3>1, <3>2, QuoteKeeps
    <2>2. CASE MemoryHit(q)
        <3>1. PICK r \in RememberedOf(q) :
                quoted' = [r EXCEPT !.kept = 0] /\ UNCHANGED <<priced, remembered, shared, fetching>>
            BY <2>2 DEF MemoryHit
        <3>2. r \in Rate /\ RecentRate(r) /\ r.kept < RateTTL
            BY DEF XInv, StoredRates, RememberedOf
        <3>3. QED
            BY <3>1, <3>2, QuoteKeeps
    <2>3. CASE Miss(q)
        BY <2>3, FiatRateKeeps DEF Miss
    <2>4. QED
        BY <1>3, <2>1, <2>2, <2>3 DEF AskRate
<1>4. ASSUME NEW q \in Quoters, Provided(q) \/ NotProvided(q) PROVE XInv'
    BY <1>4, ProvidersKeep
<1>5. ASSUME NEW q \in Quoters, ClearRates(q) PROVE XInv'
    <2>1. /\ remembered' = [remembered EXCEPT ![q] = {}]
          /\ (shared' = shared \/ shared' = {}) /\ UNCHANGED <<priced, fetching, quoted>>
        BY <1>5 DEF ClearRates
    <2>2. StoredRates({})
        BY DEF AtMostOne, StoredRates
    <2>3. remembered' \in [Quoters -> SUBSET Rate] /\ \A p \in Quoters : StoredRates(remembered'[p])
        BY <2>1, <2>2 DEF XInv
    <2>4. StoredRates(shared') /\ \A r \in shared' : r.kept < RateTTL
        BY <1>5, <2>2 DEF XInv, ClearRates
    <2>5. RatesAreRecent'
        BY <1>5 DEF XInv, RatesAreRecent, ClearRates
    <2>6. UNCHANGED <<priced, fetching, quoted>>
        BY <1>5 DEF ClearRates
    <2>7. QED
        BY <2>3, <2>4, <2>5, <2>6 DEF XInv, StoredRates, AtMostOne, RecentRate
<1>6. CASE GrowOld
    BY <1>6, GrowOldKeeps
<1>7. QED
    BY <1>1, <1>2, <1>3, <1>4, <1>5, <1>6 DEF RateNext

(***************************************************************************)
(* Reports (Analytics). A viewer reads one figure after the other while    *)
(* rows move; what it knows of each figure is what no later move can undo. *)
(***************************************************************************)
\* A row is made, and ended, in the past; made once it is there.
RowIsPast(i) ==
    /\ item[i].made <= tick /\ item[i].ended <= tick /\ item[i].moved <= tick
    /\ (item[i].status = "absent" <=> item[i].made = Never)

Has(r, q) == q \in DOMAIN r.got

\* The rows of a kind that count as made between two moments.
Counts(i, kind, from, to) == item[i].kind = kind /\ item[i].made \in from..to /\ item[i].made # Never

\* What a total and a part of it say, however the rows have changed since: the
\* total has all that was made before the request, the part nothing else.
TotalSays(total, kind, from, to, since) ==
    /\ \A i \in total : Counts(i, kind, from, to)
    /\ \A i \in Items : Counts(i, kind, from, to) /\ item[i].made < since => i \in total
PartSays(part, kind, from, to) == \A i \in part : Counts(i, kind, from, to)

PeriodSays(r, p, from, to) ==
    /\ Has(r, <<p, "total">>) => TotalSays(r.got[<<p, "total">>], "session", from, to, r.since)
    /\ Has(r, <<p, "paid">>) => PartSays(r.got[<<p, "paid">>], "session", from, to)
    /\ Has(r, <<p, "failed">>) => PartSays(r.got[<<p, "failed">>], "session", from, to)

\* A paid invoice stays so.
InvoicesSay(r) ==
    /\ Has(r, <<"invoices", "paid">>) =>
         \A i \in r.got[<<"invoices", "paid">>] :
           /\ item[i].kind = "invoice" /\ item[i].status = "PAID"
           /\ item[i].ended \in (r.now - Span)..r.now
    /\ Has(r, <<"invoices", "volume">>) =>
         r.got[<<"invoices", "paid">>] \subseteq r.got[<<"invoices", "volume">>]

\* What was active when it was read has changed since or is active still.
ActiveSays(r, p) ==
    /\ Has(r, <<p, "active">>) =>
         \A i \in r.got[<<p, "active">>] : item[i].status = "open" \/ item[i].moved >= r.since
    /\ Has(r, <<p, "churned">>) =>
         \A i \in r.got[<<p, "active">>] \cap r.got[<<p, "churned">>] : item[i].moved >= r.since

ReadSoFar(r) == {QueriesOf[report][k] : k \in 1..r.done}

ViewerSays(r) ==
    /\ r.since <= r.now /\ r.now <= tick /\ (report # "mrr" => r.now = r.since)
    /\ r.done <= Len(QueriesOf[report]) /\ DOMAIN r.got = ReadSoFar(r)
    /\ report = "overview" =>
         /\ PeriodSays(r, "current", r.now - Span, r.now)
         /\ PeriodSays(r, "previous", r.now - 2 * Span, r.now - Span)
         /\ InvoicesSay(r) /\ ActiveSays(r, "subscriptions")
    /\ report = "conversion" =>
         /\ Has(r, <<"conversion", "total">>) =>
              TotalSays(r.got[<<"conversion", "total">>], "session", r.now - Span, LastTick, r.since)
         /\ Has(r, <<"conversion", "completed">>) =>
              PartSays(r.got[<<"conversion", "completed">>], "session", r.now - Span, LastTick)
    /\ report = "mrr" => ActiveSays(r, "mrr")

Reader(r) ==
    /\ DOMAIN r = {"reading", "now", "since", "done", "got"}
    /\ r.reading \in BOOLEAN /\ r.now \in Ticks /\ r.since \in Ticks /\ r.done \in Nat
    /\ \A q \in DOMAIN r.got : r.got[q] \subseteq Items
    /\ r.reading => ViewerSays(r)

BoardSays ==
    /\ DOMAIN board = {"now", "kept", "took"}
    /\ board.kept \in 0..BoardTime /\ board.took \in Ticks /\ board.now \in Ticks
    /\ board.kept < BoardTime => tick - board.now <= board.kept + board.took

VInv ==
    /\ item \in [Items -> Item] /\ tick \in Ticks /\ report \in {"overview", "conversion", "mrr"}
    /\ \A i \in Items : RowIsPast(i)
    /\ DOMAIN viewer = Viewers /\ \A v \in Viewers : Reader(viewer[v])
    /\ BoardSays

\* The times of a report are numbers.
LEMMA ReportTimes ==
    /\ Span \in Nat \ {0} /\ BoardTime \in Nat \ {0} /\ LastTick \in Nat /\ MaxMoves \in Nat
BY AnalyticsAssumption

\* The moves of the rows.
LEMMA MovesAre ==
    ASSUME NEW kind \in DOMAIN MovesOf, NEW m \in MovesOf[kind]
    PROVE  /\ m[1] \in {"open", "PAID", "FAILED", "CANCELLED"}
           /\ m[2] \in {"open", "PAID", "FAILED", "REFUNDED", "CANCELLED"}
           /\ kind = "invoice" => m[1] = "open"
BY DEF MovesOf

\* The figures.
LEMMA OverviewFigures ==
    ASSUME NEW now, report = "overview"
    PROVE  /\ FigureOf(<<"current", "total">>, now) = MadeIn("session", now - Span, now)
           /\ FigureOf(<<"current", "paid">>, now) = Having(MadeIn("session", now - Span, now), {"PAID"})
           /\ FigureOf(<<"current", "failed">>, now) = Having(MadeIn("session", now - Span, now), {"FAILED"})
           /\ FigureOf(<<"previous", "total">>, now) = MadeIn("session", now - 2 * Span, now - Span)
           /\ FigureOf(<<"previous", "paid">>, now)
                = Having(MadeIn("session", now - 2 * Span, now - Span), {"PAID"})
           /\ FigureOf(<<"previous", "failed">>, now)
                = Having(MadeIn("session", now - 2 * Span, now - Span), {"FAILED"})
           /\ FigureOf(<<"invoices", "paid">>, now) = EndedIn("invoice", "PAID", now - Span, now)
           /\ FigureOf(<<"invoices", "volume">>, now) = EndedIn("invoice", "PAID", now - Span, now)
           /\ FigureOf(<<"subscriptions", "active">>, now)
                = Having(MadeIn("subscription", 0, LastTick), {"open"})
           /\ FigureOf(<<"subscriptions", "churned">>, now)
                = EndedIn("subscription", "CANCELLED", now - Span, now)
BY DEF FigureOf, Overview, PaymentMetrics, InvoiceMetrics, SubscriptionMetrics

\* The figures of the two other reports.
LEMMA OtherFigures ==
    ASSUME NEW now
    PROVE  /\ report = "conversion" =>
              /\ FigureOf(<<"conversion", "total">>, now) = MadeIn("session", now - Span, LastTick)
              /\ FigureOf(<<"conversion", "completed">>, now)
                   = Having(MadeIn("session", now - Span, LastTick), {"PAID"})
           /\ report = "mrr" =>
              /\ FigureOf(<<"mrr", "active">>, now) = Having(MadeIn("subscription", 0, LastTick), {"open"})
              /\ FigureOf(<<"mrr", "churned">>, now)
                   = EndedIn("subscription", "CANCELLED", now - Span, LastTick)
BY DEF FigureOf, MrrArr, Conversion, SubscriptionMetrics

\* In which order they are read.
LEMMA OverviewOrder ==
    LET Q == QueriesOf["overview"]
    IN  /\ Len(Q) = 17
        /\ \A k \in 1..17 :
             /\ Q[k] = <<"invoices", "volume">> => k > 1 /\ Q[k - 1] = <<"invoices", "paid">>
             /\ Q[k] = <<"subscriptions", "churned">> => k > 2 /\ Q[k - 2] = <<"subscriptions", "active">>
        /\ Q[1] = <<"current", "total">> /\ Q[2] = <<"current", "paid">> /\ Q[3] = <<"current", "failed">>
        /\ Q[5] = <<"previous", "total">> /\ Q[6] = <<"previous", "paid">> /\ Q[7] = <<"previous", "failed">>
        /\ Q[12] = <<"invoices", "paid">> /\ Q[13] = <<"invoices", "volume">>
        /\ Q[14] = <<"subscriptions", "active">> /\ Q[16] = <<"subscriptions", "churned">>
BY DEF QueriesOf

\* And the order they are read in.
LEMMA OtherOrders ==
    /\ LET Q == QueriesOf["conversion"]
       IN  Len(Q) = 4 /\ Q[1] = <<"conversion", "total">> /\ Q[2] = <<"conversion", "completed">>
    /\ LET Q == QueriesOf["mrr"]
       IN  /\ Len(Q) = 4 /\ Q[1] = <<"mrr", "active">> /\ Q[3] = <<"mrr", "churned">>
           /\ \A k \in 1..4 : Q[k] = <<"mrr", "churned">> => k = 3
BY DEF QueriesOf

\* A figure counts rows.
LEMMA FiguresAreRows ==
    ASSUME report \in {"overview", "conversion", "mrr"},
           NEW k \in 1..Len(QueriesOf[report]), NEW now
    PROVE  FigureOf(QueriesOf[report][k], now) \subseteq Items
<1> PICK q : q = QueriesOf[report][k]
    OBVIOUS
<1> SUFFICES FigureOf(q, now) \subseteq Items
    OBVIOUS
<1>1. /\ \A kind, from, to : MadeIn(kind, from, to) \subseteq Items
      /\ \A kind, status, from, to : EndedIn(kind, status, from, to) \subseteq Items
      /\ \A rows \in SUBSET Items : \A statuses : Having(rows, statuses) \subseteq Items
    BY DEF MadeIn, EndedIn, Having
<1>2. CASE report = "overview"
    <2>1. q \in {<<"current", "total">>, <<"current", "paid">>, <<"current", "failed">>,
                 <<"previous", "total">>, <<"previous", "paid">>, <<"previous", "failed">>,
                 <<"invoices", "paid">>, <<"invoices", "volume">>,
                 <<"subscriptions", "active">>, <<"subscriptions", "churned">>}
           \/ q \in {<<"current", "volume">>, <<"previous", "volume">>, <<"volume", "token">>,
                    <<"volume", "chain">>, <<"invoices", "sent">>, <<"subscriptions", "new">>,
                    <<"subscriptions", "mrr">>}
        BY <1>2 DEF QueriesOf
    <2>2. /\ FigureOf(<<"current", "volume">>, now) \subseteq Items
          /\ FigureOf(<<"previous", "volume">>, now) \subseteq Items
          /\ FigureOf(<<"invoices", "sent">>, now) \subseteq Items
          /\ FigureOf(<<"subscriptions", "new">>, now) \subseteq Items
          /\ FigureOf(<<"subscriptions", "mrr">>, now) \subseteq Items
        BY <1>1, <1>2 DEF FigureOf, Overview, PaymentMetrics, InvoiceMetrics, SubscriptionMetrics
    <2>3. /\ FigureOf(<<"volume", "token">>, now) \subseteq Items
          /\ FigureOf(<<"volume", "chain">>, now) \subseteq Items
        BY <1>1, <1>2 DEF FigureOf, Overview, PaymentMetrics, VolumeByToken, VolumeByChain
    <2>4. \A x \in {<<"current", "total">>, <<"current", "paid">>, <<"current", "failed">>,
                 <<"previous", "total">>, <<"previous", "paid">>, <<"previous", "failed">>,
                 <<"invoices", "paid">>, <<"invoices", "volume">>,
                 <<"subscriptions", "active">>, <<"subscriptions", "churned">>} :
             FigureOf(x, now) \subseteq Items
        BY <1>1, <1>2, OverviewFigures
    <2>5. QED
        BY <2>1, <2>2, <2>3, <2>4
<1>3. CASE report = "conversion"
    <2>1. q \in {<<"conversion", "total">>, <<"conversion", "completed">>,
                 <<"conversion", "expired">>, <<"conversion", "times">>}
        BY <1>3 DEF QueriesOf
    <2>2. /\ FigureOf(<<"conversion", "expired">>, now) \subseteq Items
          /\ FigureOf(<<"conversion", "times">>, now) \subseteq Items
        BY <1>1, <1>3 DEF FigureOf, Conversion
    <2>3. QED
        BY <1>1, <1>3, <2>1, <2>2, OtherFigures
<1>4. CASE report = "mrr"
    <2>1. q \in {<<"mrr", "active">>, <<"mrr", "new">>, <<"mrr", "churned">>, <<"mrr", "before">>}
        BY <1>4 DEF QueriesOf
    <2>2. /\ FigureOf(<<"mrr", "new">>, now) \subseteq Items
          /\ FigureOf(<<"mrr", "before">>, now) \subseteq Items
        BY <1>1, <1>4 DEF FigureOf, MrrArr
    <2>3. QED
        BY <1>1, <1>4, <2>1, <2>2, OtherFigures
<1>5. QED
    BY <1>2, <1>3, <1>4

\* How rows change: what is made is made now, what changes its status does so
\* now, and a paid invoice stays.
RowsMove ==
    \A i \in Items :
      /\ item'[i].kind = item[i].kind
      /\ item'[i].made = item[i].made \/ (item[i].made = Never /\ item'[i].made = tick)
      /\ \/ item'[i].moved = tick
         \/ /\ item'[i].moved = item[i].moved
            /\ item'[i].status = item[i].status \/ item'[i].status = "open"
      /\ (item[i].kind = "invoice" /\ item[i].status = "PAID") =>
           item'[i].status = "PAID" /\ item'[i].ended = item[i].ended

\* The columns of a row.
LEMMA RowTypes ==
    ASSUME item \in [Items -> Item], NEW i \in Items
    PROVE  /\ item[i].made \in Int /\ item[i].ended \in Int /\ item[i].moved \in Int
           /\ item[i].moves \in 0..MaxMoves /\ item[i].moved \in Ticks \union {Never}
           /\ item[i].made \in Ticks \union {Never} /\ item[i].ended \in Ticks \union {Never}
           /\ item[i].kind \in DOMAIN MovesOf
           /\ item[i].status \in {"absent", "open", "PAID", "FAILED", "REFUNDED", "CANCELLED"}
<1>1. item[i] \in Item
    OBVIOUS
<1>2. \A t \in Ticks \union {Never} : t \in Int
    BY ReportTimes DEF Ticks, Never
<1>3. QED
    BY <1>1, <1>2 DEF Item

\* What a viewer read so far stays true of it while rows move: they are made
\* in the past and move in the present.
LEMMA ReaderStays ==
    ASSUME VInv, NEW r, Reader(r), RowsMove, report' = report, tick' \in Ticks, tick <= tick'
    PROVE  Reader(r)'
<1>1. CASE ~r.reading
    BY <1>1 DEF Reader
<1>2. CASE r.reading
    <2>1. /\ r.now \in Ticks /\ r.since \in Ticks /\ ViewerSays(r)
          /\ \A q \in DOMAIN r.got : r.got[q] \subseteq Items
        BY <1>2 DEF Reader
    <2>2. PICK now \in Nat, since \in Nat : now = r.now /\ since = r.since
        BY <2>1, ReportTimes DEF Ticks
    <2>3. tick \in Nat /\ tick' \in Nat
        BY ReportTimes DEF VInv, Ticks
    <2>4. since <= now /\ now <= tick /\ since <= tick /\ since <= tick' /\ now <= tick'
        BY <2>1, <2>2, <2>3 DEF ViewerSays
    <2>5. \A i \in Items : item[i].made \in Int /\ item[i].moved \in Int
        BY RowTypes DEF VInv
    <2>6. ASSUME NEW total, NEW kind, NEW from, NEW to, total \subseteq Items,
                 TotalSays(total, kind, from, to, since)
          PROVE  TotalSays(total, kind, from, to, since)'
        <3>1. ASSUME NEW i \in total PROVE Counts(i, kind, from, to)'
            <4>1. i \in Items /\ item[i].made # Never
                BY <2>6 DEF TotalSays, Counts
            <4>2. item'[i].made = item[i].made /\ item'[i].kind = item[i].kind
                BY <4>1 DEF RowsMove
            <4>3. Counts(i, kind, from, to)
                BY <2>6 DEF TotalSays
            <4>4. QED
                BY <4>2, <4>3 DEF Counts
        <3>2. ASSUME NEW i \in Items, Counts(i, kind, from, to)', item'[i].made < since
              PROVE  i \in total
            <4>1. item'[i].made # tick
                BY <2>3, <2>4, <3>2
            <4>2. item'[i].made = item[i].made /\ item'[i].kind = item[i].kind
                BY <4>1 DEF RowsMove
            <4>3. Counts(i, kind, from, to) /\ item[i].made < since
                BY <3>2, <4>2 DEF Counts
            <4>4. QED
                BY <2>6, <4>3 DEF TotalSays
        <3>3. QED
            BY <3>1, <3>2 DEF TotalSays
    <2>7. ASSUME NEW part, NEW kind, NEW from, NEW to, part \subseteq Items,
                 PartSays(part, kind, from, to)
          PROVE  PartSays(part, kind, from, to)'
        <3>1. ASSUME NEW i \in part PROVE Counts(i, kind, from, to)'
            <4>1. Counts(i, kind, from, to) /\ i \in Items
                BY <2>7 DEF PartSays
            <4>2. item'[i].made = item[i].made /\ item'[i].kind = item[i].kind
                BY <4>1 DEF RowsMove, Counts
            <4>3. QED
                BY <4>1, <4>2 DEF Counts
        <3>2. QED
            BY <3>1 DEF PartSays
    <2>8. ASSUME NEW p, NEW from, NEW to, PeriodSays(r, p, from, to)
          PROVE  PeriodSays(r, p, from, to)'
        BY <2>1, <2>2, <2>6, <2>7, <2>8 DEF PeriodSays, Has
    <2>9. ASSUME InvoicesSay(r) PROVE InvoicesSay(r)'
        <3>1. ASSUME Has(r, <<"invoices", "paid">>), NEW i \in r.got[<<"invoices", "paid">>]
              PROVE  /\ item'[i].kind = "invoice" /\ item'[i].status = "PAID"
                     /\ item'[i].ended \in (r.now - Span)..r.now
            <4>1. i \in Items /\ item[i].kind = "invoice" /\ item[i].status = "PAID"
                  /\ item[i].ended \in (r.now - Span)..r.now
                BY <2>1, <2>9, <3>1 DEF InvoicesSay, Has
            <4>2. item'[i].ended = item[i].ended /\ item'[i].status = "PAID"
                  /\ item'[i].kind = "invoice"
                BY <4>1 DEF RowsMove
            <4>3. QED
                BY <4>1, <4>2
        <3>2. QED
            BY <2>9, <3>1 DEF InvoicesSay, Has
    <2>10. ASSUME NEW i \in Items, item[i].status = "open" \/ item[i].moved >= since
           PROVE  item'[i].status = "open" \/ item'[i].moved >= since
        <3>1. item[i].moved \in Int
            BY <2>5
        <3>2. CASE item'[i].moved = tick
            BY <2>3, <2>4, <3>2
        <3>3. CASE item'[i].moved # tick
            BY <2>10, <3>3 DEF RowsMove
        <3>4. QED
            BY <3>2, <3>3
    <2>11. ASSUME NEW i \in Items, item[i].moved >= since
           PROVE  item'[i].moved >= since
        <3>1. CASE item'[i].moved = tick
            BY <2>3, <2>4, <3>1
        <3>2. CASE item'[i].moved # tick
            BY <2>11, <3>2 DEF RowsMove
        <3>3. QED
            BY <3>1, <3>2
    <2>12. ASSUME NEW p, ActiveSays(r, p), Has(r, <<p, "churned">>) => Has(r, <<p, "active">>)
           PROVE  ActiveSays(r, p)'
        BY <2>1, <2>2, <2>10, <2>11, <2>12 DEF ActiveSays, Has
    <2>13. report = "overview" => (Has(r, <<"subscriptions", "churned">>) => Has(r, <<"subscriptions", "active">>))
        <3>1. SUFFICES ASSUME report = "overview", Has(r, <<"subscriptions", "churned">>)
                       PROVE  Has(r, <<"subscriptions", "active">>)
            OBVIOUS
        <3>2. PICK k \in 1..r.done : QueriesOf["overview"][k] = <<"subscriptions", "churned">>
            BY <2>1, <3>1 DEF Has, ViewerSays, ReadSoFar
        <3>3. r.done <= 17 /\ r.done \in Nat
            BY <2>1, <3>1, OverviewOrder DEF ViewerSays, Reader
        <3>4. k \in 1..17
            BY <3>3
        <3>5. k - 2 \in 1..r.done /\ QueriesOf["overview"][k - 2] = <<"subscriptions", "active">>
            BY <3>2, <3>3, <3>4, OverviewOrder
        <3>6. QED
            BY <2>1, <3>1, <3>5 DEF Has, ViewerSays, ReadSoFar
    <2>14. report = "mrr" => (Has(r, <<"mrr", "churned">>) => Has(r, <<"mrr", "active">>))
        <3>1. SUFFICES ASSUME report = "mrr", Has(r, <<"mrr", "churned">>)
                       PROVE  Has(r, <<"mrr", "active">>)
            OBVIOUS
        <3>2. PICK k \in 1..r.done : QueriesOf["mrr"][k] = <<"mrr", "churned">>
            BY <2>1, <3>1 DEF Has, ViewerSays, ReadSoFar
        <3>3. r.done \in Nat
            BY DEF Reader
        <3>4. 1 \in 1..r.done
            BY <3>3
        <3>5. QueriesOf["mrr"][1] = <<"mrr", "active">>
            BY OtherOrders
        <3>6. QED
            BY <2>1, <3>1, <3>4, <3>5 DEF Has, ViewerSays, ReadSoFar
    <2>15. /\ r.since <= r.now /\ r.now <= tick' /\ (report' # "mrr" => r.now = r.since)
           /\ r.done <= Len(QueriesOf[report']) /\ DOMAIN r.got = ReadSoFar(r)'
        BY <2>1, <2>2, <2>4 DEF ViewerSays, ReadSoFar
    <2>16. ASSUME report = "overview"
           PROVE  /\ PeriodSays(r, "current", r.now - Span, r.now)'
                  /\ PeriodSays(r, "previous", r.now - 2 * Span, r.now - Span)'
                  /\ InvoicesSay(r)' /\ ActiveSays(r, "subscriptions")'
        <3>1. /\ PeriodSays(r, "current", r.now - Span, r.now)
              /\ PeriodSays(r, "previous", r.now - 2 * Span, r.now - Span)
              /\ InvoicesSay(r) /\ ActiveSays(r, "subscriptions")
            BY <2>1, <2>16 DEF ViewerSays
        <3>2. QED
            BY <2>8, <2>9, <2>12, <2>13, <2>16, <3>1
    <2>17. ASSUME report = "conversion"
           PROVE  /\ Has(r, <<"conversion", "total">>) =>
                       TotalSays(r.got[<<"conversion", "total">>], "session", r.now - Span, LastTick, r.since)'
                  /\ Has(r, <<"conversion", "completed">>) =>
                       PartSays(r.got[<<"conversion", "completed">>], "session", r.now - Span, LastTick)'
        BY <2>1, <2>2, <2>6, <2>7, <2>17 DEF ViewerSays, Has
    <2>18. ASSUME report = "mrr" PROVE ActiveSays(r, "mrr")'
        <3>1. ActiveSays(r, "mrr")
            BY <2>1, <2>18 DEF ViewerSays
        <3>2. QED
            BY <2>12, <2>14, <2>18, <3>1
    <2>19. ViewerSays(r)'
        BY <2>15, <2>16, <2>17, <2>18 DEF ViewerSays, Has
    <2>20. QED
        BY <2>19 DEF Reader
<1>3. r.reading \in BOOLEAN
    BY DEF Reader
<1>4. QED
    BY <1>1, <1>2, <1>3

\* Only the report of recurring revenue reads the clock a second time.
LEMMA OnlyMrrLooksAgain ==
    /\ \A k \in 1..17 : QueriesOf["overview"][k] # <<"mrr", "new">>
    /\ \A k \in 1..4 : QueriesOf["conversion"][k] # <<"mrr", "new">>
BY DEF QueriesOf

\* Which queries were read when some other is.
LEMMA ReadBefore ==
    ASSUME NEW r, r.done \in Nat, r.done <= Len(QueriesOf[report]), DOMAIN r.got = ReadSoFar(r)
    PROVE  /\ report = "overview" =>
                /\ Has(r, <<"invoices", "volume">>) => Has(r, <<"invoices", "paid">>)
                /\ Has(r, <<"subscriptions", "churned">>) => Has(r, <<"subscriptions", "active">>)
           /\ report = "mrr" => (Has(r, <<"mrr", "churned">>) => Has(r, <<"mrr", "active">>))
<1>1. ASSUME report = "overview", Has(r, <<"invoices", "volume">>)
      PROVE  Has(r, <<"invoices", "paid">>)
    <2>1. PICK k \in 1..r.done : QueriesOf["overview"][k] = <<"invoices", "volume">>
        BY <1>1 DEF Has, ReadSoFar
    <2>2. k \in 1..17
        BY <1>1, OverviewOrder
    <2>3. k > 1 /\ QueriesOf["overview"][k - 1] = <<"invoices", "paid">>
        <3>1. \A j \in 1..17 : QueriesOf["overview"][j] = <<"invoices", "volume">> =>
                j > 1 /\ QueriesOf["overview"][j - 1] = <<"invoices", "paid">>
            BY OverviewOrder
        <3>2. QED
            BY <2>1, <2>2, <3>1
    <2>4. k - 1 \in 1..r.done
        BY <2>2, <2>3
    <2>5. QED
        BY <1>1, <2>3, <2>4 DEF Has, ReadSoFar
<1>2. ASSUME report = "overview", Has(r, <<"subscriptions", "churned">>)
      PROVE  Has(r, <<"subscriptions", "active">>)
    <2>1. PICK k \in 1..r.done : QueriesOf["overview"][k] = <<"subscriptions", "churned">>
        BY <1>2 DEF Has, ReadSoFar
    <2>2. k \in 1..17
        BY <1>2, OverviewOrder
    <2>3. k > 2 /\ QueriesOf["overview"][k - 2] = <<"subscriptions", "active">>
        <3>1. \A j \in 1..17 : QueriesOf["overview"][j] = <<"subscriptions", "churned">> =>
                j > 2 /\ QueriesOf["overview"][j - 2] = <<"subscriptions", "active">>
            BY OverviewOrder
        <3>2. QED
            BY <2>1, <2>2, <3>1
    <2>4. k - 2 \in 1..r.done
        BY <2>2, <2>3
    <2>5. QED
        BY <1>2, <2>3, <2>4 DEF Has, ReadSoFar
<1>3. ASSUME report = "mrr", Has(r, <<"mrr", "churned">>) PROVE Has(r, <<"mrr", "active">>)
    <2>1. PICK k \in 1..r.done : QueriesOf["mrr"][k] = <<"mrr", "churned">>
        BY <1>3 DEF Has, ReadSoFar
    <2>2. 1 \in 1..r.done /\ QueriesOf["mrr"][1] = <<"mrr", "active">>
        BY <2>1, OtherOrders
    <2>3. QED
        BY <1>3, <2>2 DEF Has, ReadSoFar
<1>4. QED
    BY <1>1, <1>2, <1>3

\* One more figure, read from the rows as they are, keeps what a viewer
\* knows.
LEMMA ReadKeeps ==
    ASSUME VInv, NEW r, Reader(r), r.reading, r.done < Len(QueriesOf[report]),
           NEW q, q = QueriesOf[report][r.done + 1],
           NEW now, now = IF q = <<"mrr", "new">> THEN tick ELSE r.now,
           NEW s, DOMAIN s = {"reading", "now", "since", "done", "got"},
           s.reading = TRUE, s.now = now, s.since = r.since, s.done = r.done + 1,
           s.got = Overlay(r.got, [x \in {q} |-> FigureOf(q, now)])
    PROVE  Reader(s)
<1>1. /\ r.now \in Ticks /\ r.since \in Ticks /\ r.done \in Nat /\ ViewerSays(r)
      /\ \A x \in DOMAIN r.got : r.got[x] \subseteq Items
    BY DEF Reader
<1>2. tick \in Ticks /\ tick \in Nat /\ r.now \in Nat /\ r.since \in Nat
    BY <1>1, ReportTimes DEF VInv, Ticks
<1>3. s.now \in Ticks /\ s.since <= s.now /\ s.now <= tick /\ s.since \in Ticks
    BY <1>1, <1>2 DEF ViewerSays
<1>4. r.done + 1 \in 1..Len(QueriesOf[report])
    <2>1. Len(QueriesOf[report]) \in Nat
        BY OverviewOrder, OtherOrders, SMTT(30) DEF VInv
    <2>2. QED
        BY <1>1, <2>1
<1>5. report # "mrr" => now = r.now
    <2>1. report # "mrr" => q # <<"mrr", "new">>
        BY <1>4, OverviewOrder, OtherOrders, OnlyMrrLooksAgain, ZenonT(30) DEF VInv
    <2>2. QED
        BY <2>1
<1>6. /\ DOMAIN s.got = DOMAIN r.got \union {q}
      /\ \A x \in DOMAIN r.got : s.got[x] = r.got[x]
      /\ q \notin DOMAIN r.got => s.got[q] = FigureOf(q, now)
    <2>1. PICK got, figure, more : got = r.got /\ figure = FigureOf(q, now) /\ more = s.got
        OBVIOUS
    <2>2. more = Overlay(got, [x \in {q} |-> figure])
        BY <2>1
    <2>3. /\ DOMAIN more = DOMAIN got \union {q} /\ \A x \in DOMAIN got : more[x] = got[x]
          /\ q \notin DOMAIN got => more[q] = figure
        BY <2>2 DEF Overlay
    <2>4. QED
        BY <2>1, <2>3
<1>7. DOMAIN s.got = ReadSoFar(s)
    <2>1. 1..s.done = 1..r.done \union {r.done + 1}
        BY <1>1
    <2>2. DOMAIN r.got = ReadSoFar(r)
        BY <1>1 DEF ViewerSays
    <2>3. QED
        BY <1>6, <2>1, <2>2, ZenonT(30) DEF ReadSoFar
<1>8. FigureOf(q, now) \subseteq Items
    <2>1. report \in {"overview", "conversion", "mrr"}
        BY DEF VInv
    <2>2. FigureOf(QueriesOf[report][r.done + 1], now) \subseteq Items
        BY <1>4, <2>1, FiguresAreRows
    <2>3. QED
        BY <2>2
<1>9. \A x \in DOMAIN s.got : s.got[x] \subseteq Items
    <2>1. ASSUME NEW x \in DOMAIN s.got PROVE s.got[x] \subseteq Items
        <3>1. CASE x \in DOMAIN r.got
            BY <1>1, <1>6, <3>1
        <3>2. CASE x \notin DOMAIN r.got
            <4>1. x = q
                BY <1>6, <3>2
            <4>2. QED
                BY <1>6, <1>8, <3>2, <4>1
        <3>3. QED
            BY <3>1, <3>2
    <2>2. QED
        BY <2>1
<1>10. s.done \in Nat /\ s.done <= Len(QueriesOf[report])
    BY <1>1, <1>4
<1>11. \A x : Has(s, x) => \/ Has(r, x) /\ s.got[x] = r.got[x]
                           \/ ~Has(r, x) /\ x = q /\ s.got[x] = FigureOf(x, now)
    BY <1>6 DEF Has
<1>12. \A i \in Items : item[i].made \in Int /\ item[i].ended \in Int
                        /\ item[i].made <= tick /\ item[i].made \in Ticks \union {Never}
    BY RowTypes DEF VInv, RowIsPast
<1>13. \A kind, from, to, since : since <= tick =>
         TotalSays(MadeIn(kind, from, to), kind, from, to, since)
    BY DEF TotalSays, MadeIn, Counts
<1>14. \A kind, from, to, statuses : PartSays(Having(MadeIn(kind, from, to), statuses), kind, from, to)
    BY DEF PartSays, Having, MadeIn, Counts
<1>15. s.since <= tick /\ r.since <= tick
    BY <1>1, <1>2 DEF ViewerSays
<1>16. ASSUME NEW p, NEW from, NEW to, PeriodSays(r, p, from, to),
              FigureOf(<<p, "total">>, now) = MadeIn("session", from, to),
              FigureOf(<<p, "paid">>, now) = Having(MadeIn("session", from, to), {"PAID"}),
              FigureOf(<<p, "failed">>, now) = Having(MadeIn("session", from, to), {"FAILED"})
       PROVE  PeriodSays(s, p, from, to)
    <2>1. ASSUME Has(s, <<p, "total">>)
          PROVE  TotalSays(s.got[<<p, "total">>], "session", from, to, s.since)
        <3>1. CASE Has(r, <<p, "total">>) /\ s.got[<<p, "total">>] = r.got[<<p, "total">>]
            <4>1. TotalSays(r.got[<<p, "total">>], "session", from, to, r.since)
                BY <1>16, <3>1 DEF PeriodSays
            <4>2. QED
                BY <3>1, <4>1
        <3>2. CASE s.got[<<p, "total">>] = FigureOf(<<p, "total">>, now)
            <4>1. s.got[<<p, "total">>] = MadeIn("session", from, to)
                BY <1>16, <3>2
            <4>2. TotalSays(MadeIn("session", from, to), "session", from, to, s.since)
                BY <1>13, <1>15
            <4>3. QED
                BY <4>1, <4>2
        <3>3. QED
            BY <1>11, <2>1, <3>1, <3>2
    <2>2. ASSUME Has(s, <<p, "paid">>)
          PROVE  PartSays(s.got[<<p, "paid">>], "session", from, to)
        <3>1. CASE Has(r, <<p, "paid">>) /\ s.got[<<p, "paid">>] = r.got[<<p, "paid">>]
            <4>1. PartSays(r.got[<<p, "paid">>], "session", from, to)
                BY <1>16, <3>1 DEF PeriodSays
            <4>2. QED
                BY <3>1, <4>1
        <3>2. CASE s.got[<<p, "paid">>] = FigureOf(<<p, "paid">>, now)
            <4>1. s.got[<<p, "paid">>] = Having(MadeIn("session", from, to), {"PAID"})
                BY <1>16, <3>2
            <4>2. PartSays(Having(MadeIn("session", from, to), {"PAID"}), "session", from, to)
                BY <1>14
            <4>3. QED
                BY <4>1, <4>2
        <3>3. QED
            BY <1>11, <2>2, <3>1, <3>2
    <2>3. ASSUME Has(s, <<p, "failed">>)
          PROVE  PartSays(s.got[<<p, "failed">>], "session", from, to)
        <3>1. CASE Has(r, <<p, "failed">>) /\ s.got[<<p, "failed">>] = r.got[<<p, "failed">>]
            <4>1. PartSays(r.got[<<p, "failed">>], "session", from, to)
                BY <1>16, <3>1 DEF PeriodSays
            <4>2. QED
                BY <3>1, <4>1
        <3>2. CASE s.got[<<p, "failed">>] = FigureOf(<<p, "failed">>, now)
            <4>1. s.got[<<p, "failed">>] = Having(MadeIn("session", from, to), {"FAILED"})
                BY <1>16, <3>2
            <4>2. PartSays(Having(MadeIn("session", from, to), {"FAILED"}), "session", from, to)
                BY <1>14
            <4>3. QED
                BY <4>1, <4>2
        <3>3. QED
            BY <1>11, <2>3, <3>1, <3>2
    <2>4. QED
        BY <2>1, <2>2, <2>3 DEF PeriodSays
<1>17. ASSUME report = "overview" PROVE InvoicesSay(s)
    <2>1. InvoicesSay(r) /\ s.now = r.now
        BY <1>1, <1>5, <1>17 DEF ViewerSays
    <2>2. /\ FigureOf(<<"invoices", "paid">>, now) = EndedIn("invoice", "PAID", now - Span, now)
          /\ FigureOf(<<"invoices", "volume">>, now) = EndedIn("invoice", "PAID", now - Span, now)
        BY <1>17, OverviewFigures
    <2>3. ASSUME Has(s, <<"invoices", "paid">>), NEW i \in s.got[<<"invoices", "paid">>]
          PROVE  /\ item[i].kind = "invoice" /\ item[i].status = "PAID"
                 /\ item[i].ended \in (s.now - Span)..s.now /\ i \in Items
        <3>1. CASE Has(r, <<"invoices", "paid">>) /\ s.got[<<"invoices", "paid">>] = r.got[<<"invoices", "paid">>]
            BY <1>1, <2>1, <2>3, <3>1 DEF InvoicesSay, Has
        <3>2. CASE s.got[<<"invoices", "paid">>] = FigureOf(<<"invoices", "paid">>, now)
            BY <2>2, <2>3, <3>2 DEF EndedIn
        <3>3. QED
            BY <1>11, <2>3, <3>1, <3>2
    <2>4. ASSUME Has(s, <<"invoices", "volume">>)
          PROVE  s.got[<<"invoices", "paid">>] \subseteq s.got[<<"invoices", "volume">>]
        <3>1. Has(s, <<"invoices", "paid">>)
            BY <1>7, <1>10, <1>17, <2>4, ReadBefore
        <3>2. CASE ~Has(r, <<"invoices", "volume">>)
            <4>1. s.got[<<"invoices", "volume">>] = EndedIn("invoice", "PAID", now - Span, now)
                BY <1>11, <2>2, <2>4, <3>2
            <4>2. QED
                BY <2>3, <3>1, <4>1 DEF EndedIn
        <3>3. CASE Has(r, <<"invoices", "volume">>)
            <4>1. Has(r, <<"invoices", "paid">>)
                BY <1>1, <1>17, <3>3, ReadBefore DEF ViewerSays
            <4>2. /\ s.got[<<"invoices", "volume">>] = r.got[<<"invoices", "volume">>]
                  /\ s.got[<<"invoices", "paid">>] = r.got[<<"invoices", "paid">>]
                BY <1>11, <2>4, <3>1, <3>3, <4>1
            <4>3. QED
                BY <2>1, <3>3, <4>2 DEF InvoicesSay
        <3>4. QED
            BY <3>2, <3>3
    <2>5. QED
        BY <2>3, <2>4 DEF InvoicesSay
<1>18. ASSUME NEW p, NEW from, NEW to, ActiveSays(r, p),
              Has(r, <<p, "churned">>) => Has(r, <<p, "active">>),
              Has(s, <<p, "churned">>) => Has(s, <<p, "active">>),
              FigureOf(<<p, "active">>, now) = Having(MadeIn("subscription", 0, LastTick), {"open"}),
              FigureOf(<<p, "churned">>, now) = EndedIn("subscription", "CANCELLED", from, to)
       PROVE  ActiveSays(s, p)
    <2>1. ASSUME Has(s, <<p, "active">>), NEW i \in s.got[<<p, "active">>]
          PROVE  item[i].status = "open" \/ item[i].moved >= s.since
        <3>1. CASE Has(r, <<p, "active">>) /\ s.got[<<p, "active">>] = r.got[<<p, "active">>]
            BY <1>18, <2>1, <3>1 DEF ActiveSays
        <3>2. CASE s.got[<<p, "active">>] = FigureOf(<<p, "active">>, now)
            BY <1>18, <2>1, <3>2 DEF Having
        <3>3. QED
            BY <1>11, <2>1, <3>1, <3>2
    <2>2. ASSUME Has(s, <<p, "churned">>), NEW i \in s.got[<<p, "active">>] \cap s.got[<<p, "churned">>]
          PROVE  item[i].moved >= s.since
        <3>1. Has(s, <<p, "active">>)
            BY <1>18, <2>2
        <3>2. CASE ~Has(r, <<p, "churned">>)
            <4>1. s.got[<<p, "churned">>] = EndedIn("subscription", "CANCELLED", from, to)
                BY <1>11, <1>18, <2>2, <3>2
            <4>2. item[i].status = "CANCELLED"
                BY <2>2, <4>1 DEF EndedIn
            <4>3. QED
                BY <2>1, <2>2, <3>1, <4>2
        <3>3. CASE Has(r, <<p, "churned">>)
            <4>1. Has(r, <<p, "active">>)
                BY <1>18, <3>3
            <4>2. /\ s.got[<<p, "churned">>] = r.got[<<p, "churned">>]
                  /\ s.got[<<p, "active">>] = r.got[<<p, "active">>]
                BY <1>11, <2>2, <3>1, <3>3, <4>1
            <4>3. QED
                BY <1>18, <2>2, <3>3, <4>2 DEF ActiveSays
        <3>4. QED
            BY <3>2, <3>3
    <2>3. QED
        BY <2>1, <2>2 DEF ActiveSays
<1>19. ASSUME report = "overview"
       PROVE  /\ PeriodSays(s, "current", s.now - Span, s.now)
              /\ PeriodSays(s, "previous", s.now - 2 * Span, s.now - Span)
              /\ ActiveSays(s, "subscriptions")
    <2>1. /\ PeriodSays(r, "current", now - Span, now)
          /\ PeriodSays(r, "previous", now - 2 * Span, now - Span)
          /\ ActiveSays(r, "subscriptions")
        BY <1>1, <1>5, <1>19 DEF ViewerSays
    <2>2. PeriodSays(s, "current", now - Span, now)
        BY <1>16, <1>19, <2>1, OverviewFigures
    <2>3. PeriodSays(s, "previous", now - 2 * Span, now - Span)
        BY <1>16, <1>19, <2>1, OverviewFigures
    <2>4. /\ Has(r, <<"subscriptions", "churned">>) => Has(r, <<"subscriptions", "active">>)
          /\ Has(s, <<"subscriptions", "churned">>) => Has(s, <<"subscriptions", "active">>)
        BY <1>1, <1>7, <1>10, <1>19, ReadBefore DEF ViewerSays
    <2>5. ActiveSays(s, "subscriptions")
        BY <1>18, <1>19, <2>1, <2>4, OverviewFigures, SMTT(30)
    <2>6. QED
        BY <2>2, <2>3, <2>5
<1>20. ASSUME report = "conversion"
       PROVE  /\ Has(s, <<"conversion", "total">>) =>
                   TotalSays(s.got[<<"conversion", "total">>], "session", s.now - Span, LastTick, s.since)
              /\ Has(s, <<"conversion", "completed">>) =>
                   PartSays(s.got[<<"conversion", "completed">>], "session", s.now - Span, LastTick)
    <2>1. now = r.now /\ report # "mrr"
        BY <1>5, <1>20
    <2>2. /\ FigureOf(<<"conversion", "total">>, now) = MadeIn("session", now - Span, LastTick)
          /\ FigureOf(<<"conversion", "completed">>, now)
               = Having(MadeIn("session", now - Span, LastTick), {"PAID"})
        BY <1>20, OtherFigures
    <2>3. ASSUME Has(s, <<"conversion", "total">>)
          PROVE  TotalSays(s.got[<<"conversion", "total">>], "session", s.now - Span, LastTick, s.since)
        BY <1>1, <1>11, <1>13, <1>15, <1>20, <2>1, <2>2, <2>3, ZenonT(30) DEF ViewerSays
    <2>4. ASSUME Has(s, <<"conversion", "completed">>)
          PROVE  PartSays(s.got[<<"conversion", "completed">>], "session", s.now - Span, LastTick)
        <3>1. \/ /\ Has(r, <<"conversion", "completed">>)
                 /\ s.got[<<"conversion", "completed">>] = r.got[<<"conversion", "completed">>]
              \/ s.got[<<"conversion", "completed">>] = Having(MadeIn("session", now - Span, LastTick), {"PAID"})
            BY <1>11, <2>2, <2>4
        <3>2. PartSays(Having(MadeIn("session", now - Span, LastTick), {"PAID"}), "session", now - Span, LastTick)
            BY <1>14
        <3>3. Has(r, <<"conversion", "completed">>) =>
                PartSays(r.got[<<"conversion", "completed">>], "session", r.now - Span, LastTick)
            BY <1>1, <1>20 DEF ViewerSays
        <3>4. s.now = r.now /\ s.now = now
            BY <2>1
        <3>5. QED
            BY <3>1, <3>2, <3>3, <3>4
    <2>5. QED
        BY <2>3, <2>4
<1>21. ASSUME report = "mrr" PROVE ActiveSays(s, "mrr")
    <2>1. ActiveSays(r, "mrr")
        BY <1>1, <1>21 DEF ViewerSays
    <2>2. /\ Has(r, <<"mrr", "churned">>) => Has(r, <<"mrr", "active">>)
          /\ Has(s, <<"mrr", "churned">>) => Has(s, <<"mrr", "active">>)
        BY <1>1, <1>7, <1>10, <1>21, ReadBefore DEF ViewerSays
    <2>3. QED
        BY <1>18, <1>21, <2>1, <2>2, OtherFigures
<1>22. report # "mrr" => s.now = s.since
    BY <1>1, <1>5 DEF ViewerSays
<1>23. ViewerSays(s)
    BY <1>3, <1>7, <1>10, <1>17, <1>19, <1>20, <1>21, <1>22 DEF ViewerSays
<1>24. QED
    BY <1>3, <1>9, <1>10, <1>23 DEF Reader

\* Rows that stay.
LEMMA RowsStay ==
    ASSUME UNCHANGED <<item, tick>>
    PROVE  RowsMove
BY DEF RowsMove

\* The board stays as it was.
LEMMA BoardStays ==
    ASSUME VInv, UNCHANGED <<board, tick>>
    PROVE  BoardSays'
BY DEF VInv, BoardSays

\* The rows, the report and the clock do not change, one request does.
LEMMA ViewerStep ==
    ASSUME VInv, NEW v \in Viewers, NEW s, viewer' = [viewer EXCEPT ![v] = s], Reader(s),
           UNCHANGED <<item, report, tick>>, BoardSays'
    PROVE  VInv'
<1>1. RowsMove /\ tick' \in Ticks /\ tick <= tick' /\ report' = report
    <2>1. tick \in Nat
        BY ReportTimes DEF VInv, Ticks
    <2>2. QED
        BY <2>1, RowsStay DEF VInv
<1>2. ASSUME NEW u \in Viewers PROVE Reader(viewer[u])'
    <2>1. PICK r : r = viewer'[u]
        OBVIOUS
    <2>2. r = IF u = v THEN s ELSE viewer[u]
        BY <2>1 DEF VInv
    <2>3. Reader(r)
        BY <2>2 DEF VInv
    <2>4. Reader(r)'
        BY <1>1, <2>3, ReaderStays
    <2>5. QED
        BY <2>1, <2>4 DEF Reader
<1>3. DOMAIN viewer' = Viewers
    BY DEF VInv
<1>4. \A i \in Items : RowIsPast(i)'
    BY DEF VInv, RowIsPast
<1>5. QED
    BY <1>2, <1>3, <1>4 DEF VInv

\* One row changes, or the clock does.
LEMMA RowStep ==
    ASSUME VInv, item' \in [Items -> Item], \A i \in Items : RowIsPast(i)', RowsMove,
           tick' \in Ticks, tick <= tick', UNCHANGED <<report, viewer>>, BoardSays'
    PROVE  VInv'
<1>1. ASSUME NEW u \in Viewers PROVE Reader(viewer[u])'
    <2>1. PICK r : r = viewer[u] /\ r = viewer'[u]
        OBVIOUS
    <2>2. Reader(r)'
        <3>1. Reader(r)
            BY <2>1 DEF VInv
        <3>2. QED
            BY <3>1, ReaderStays
    <2>3. QED
        BY <2>1, <2>2 DEF Reader
<1>2. QED
    BY <1>1 DEF VInv

\* A viewer that starts reading knows nothing yet.
LEMMA LookingReads ==
    ASSUME VInv, NEW b \in BOOLEAN, NEW t, t = IF b THEN tick ELSE 0
    PROVE  Reader([reading |-> b, now |-> t, since |-> t, done |-> 0, got |-> NoFigure])
<1>1. PICK s : s = [reading |-> b, now |-> t, since |-> t, done |-> 0, got |-> NoFigure]
    OBVIOUS
<1>2. /\ DOMAIN s = {"reading", "now", "since", "done", "got"}
      /\ s.reading = b /\ s.now = t /\ s.since = t /\ s.done = 0 /\ s.got = NoFigure
    BY <1>1
<1>3. DOMAIN s.got = {}
    BY <1>2 DEF NoFigure
<1>4. t \in Ticks /\ t \in Nat /\ (b => t <= tick)
    BY ReportTimes DEF Ticks, VInv
<1>5. Len(QueriesOf[report]) \in Nat
    BY OverviewOrder, OtherOrders DEF VInv
<1>6. 1..0 = {}
    OBVIOUS
<1>7. \A q : ~Has(s, q)
    BY <1>3 DEF Has
<1>8. DOMAIN s.got = ReadSoFar(s)
    BY <1>2, <1>3, <1>6 DEF ReadSoFar
<1>9. b => ViewerSays(s)
    <2>1. /\ \A p, from, to : PeriodSays(s, p, from, to)
          /\ InvoicesSay(s) /\ \A p : ActiveSays(s, p)
        BY <1>7 DEF PeriodSays, InvoicesSay, ActiveSays
    <2>2. QED
        BY <1>2, <1>4, <1>5, <1>7, <1>8, <2>1 DEF ViewerSays
<1>10. Reader(s)
    BY <1>2, <1>3, <1>4, <1>9 DEF Reader
<1>11. QED
    BY <1>1, <1>10

\* The invariant holds before anybody reads.
LEMMA ReportInitially ==
    ASSUME ReportInit
    PROVE  VInv
<1> USE DEF ReportInit
<1>1. item \in [Items -> Item] /\ \A i \in Items : item[i].status = "absent" /\ item[i].made = Never
                                                  /\ item[i].ended = Never /\ item[i].moved = Never
    OBVIOUS
<1>2. tick = 0 /\ 0 \in Ticks /\ Never < 0
    BY ReportTimes DEF Ticks, Never
<1>3. \A i \in Items : RowIsPast(i)
    BY <1>1, <1>2 DEF RowIsPast, Never
<1>4. board.now = 0 /\ board.kept = BoardTime /\ board.took = 0
      /\ DOMAIN board = {"now", "kept", "took"}
    OBVIOUS
<1>5. BoardSays
    BY <1>2, <1>4, ReportTimes DEF BoardSays
<1>6. DOMAIN viewer = Viewers /\ \A v \in Viewers : viewer[v] = Looking
    OBVIOUS
<1>7. Reader(Looking)
    <2>1. Looking.reading = FALSE /\ Looking.now = 0 /\ Looking.since = 0 /\ Looking.done = 0
          /\ Looking.got = NoFigure /\ DOMAIN Looking = {"reading", "now", "since", "done", "got"}
        BY DEF Looking
    <2>2. DOMAIN NoFigure = {}
        BY DEF NoFigure
    <2>3. \A q \in DOMAIN Looking.got : Looking.got[q] \subseteq Items
        BY <2>1, <2>2
    <2>4. Looking.reading \in BOOLEAN /\ ~Looking.reading
        BY <2>1
    <2>5. Looking.now \in Ticks /\ Looking.since \in Ticks /\ Looking.done \in Nat
        BY <1>2, <2>1
    <2>6. QED
        BY <2>1, <2>3, <2>4, <2>5 DEF Reader
<1>8. QED
    BY <1>1, <1>2, <1>3, <1>5, <1>6, <1>7 DEF VInv

\* Every step of a row, a viewer and the board keeps the invariant.
LEMMA ReportStepKeeps ==
    ASSUME VInv, [ReportNext]_reportVars
    PROVE  VInv'
<1>1. tick \in Ticks /\ tick \in Nat /\ item \in [Items -> Item]
    BY ReportTimes DEF VInv, Ticks
<1>2. \A i \in Items : RowIsPast(i)
    BY DEF VInv
<1>3. CASE UNCHANGED reportVars
    <2>1. UNCHANGED <<item, report, viewer, board, tick>>
        BY <1>3 DEF reportVars
    <2>2. \A i \in Items : RowIsPast(i)'
        BY <1>2, <2>1 DEF RowIsPast
    <2>3. BoardSays'
        BY <2>1, BoardStays
    <2>4. tick' \in Ticks /\ tick <= tick' /\ item' \in [Items -> Item] /\ RowsMove
        BY <1>1, <2>1, RowsStay
    <2>5. QED
        BY <2>1, <2>2, <2>3, <2>4, RowStep
<1>4. ASSUME NEW v \in Viewers, StartReport(v) PROVE VInv'
    <2>1. PICK s : s = [Looking EXCEPT !.reading = TRUE, !.now = tick, !.since = tick]
        OBVIOUS
    <2>2. s = [reading |-> TRUE, now |-> tick, since |-> tick, done |-> 0, got |-> NoFigure]
        BY <2>1 DEF Looking
    <2>3. Reader(s)
        <3>1. PICK t : t = tick
            OBVIOUS
        <3>2. TRUE \in BOOLEAN /\ t = IF TRUE THEN tick ELSE 0
            BY <3>1
        <3>3. Reader([reading |-> TRUE, now |-> t, since |-> t, done |-> 0, got |-> NoFigure])
            BY <3>2, LookingReads
        <3>4. QED
            BY <2>2, <3>1, <3>3
    <2>4. viewer' = [viewer EXCEPT ![v] = s] /\ UNCHANGED <<item, report, board, tick>>
        BY <1>4, <2>1 DEF StartReport
    <2>5. QED
        BY <2>3, <2>4, BoardStays, ViewerStep
<1>5. ASSUME NEW v \in Viewers, RunQuery(v) PROVE VInv'
    <2>1. PICK r : r = viewer[v]
        OBVIOUS
    <2>2. PICK q : q = QueriesOf[report][r.done + 1]
        OBVIOUS
    <2>3. PICK now : now = IF q = <<"mrr", "new">> THEN tick ELSE r.now
        OBVIOUS
    <2>4. PICK s : s = [r EXCEPT !.now = now, !.done = @ + 1,
                                 !.got = Overlay(@, [x \in {q} |-> FigureOf(x, now)])]
        OBVIOUS
    <2>5. /\ r.reading /\ ~(r.done = Len(QueriesOf[report]))
          /\ viewer' = [viewer EXCEPT ![v] = s] /\ UNCHANGED <<item, report, board, tick>>
        BY <1>5, <2>1, <2>2, <2>3, <2>4 DEF RunQuery, Complete
    <2>6. Reader(r)
        BY <2>1 DEF VInv
    <2>7. r.done < Len(QueriesOf[report])
        <3>1. Len(QueriesOf[report]) \in Nat
            BY OverviewOrder, OtherOrders DEF VInv
        <3>2. r.done \in Nat /\ r.done <= Len(QueriesOf[report])
            BY <2>5, <2>6 DEF Reader, ViewerSays
        <3>3. QED
            BY <2>5, <3>1, <3>2
    <2>8. DOMAIN r = {"reading", "now", "since", "done", "got"}
        BY <2>6 DEF Reader
    <2>9. [x \in {q} |-> FigureOf(x, now)] = [x \in {q} |-> FigureOf(q, now)]
        OBVIOUS
    <2>10. /\ DOMAIN s = {"reading", "now", "since", "done", "got"}
           /\ s.reading = r.reading /\ s.now = now /\ s.since = r.since /\ s.done = r.done + 1
           /\ s.got = Overlay(r.got, [x \in {q} |-> FigureOf(q, now)])
        BY <2>4, <2>8, <2>9
    <2>11. s.reading = TRUE
        BY <2>5, <2>6, <2>10 DEF Reader
    <2>12. Reader(s)
        BY <2>2, <2>3, <2>5, <2>6, <2>7, <2>10, <2>11, ReadKeeps, ZenonT(30)
    <2>13. QED
        BY <2>5, <2>12, BoardStays, ViewerStep
<1>6. ASSUME NEW v \in Viewers, Publish(v) PROVE VInv'
    <2>1. viewer' = [viewer EXCEPT ![v] = Looking] /\ UNCHANGED <<item, report, tick>>
        BY <1>6 DEF Publish
    <2>2. PICK r : r = viewer[v]
        OBVIOUS
    <2>3. Reader(r) /\ r.reading
        BY <1>6, <2>2 DEF VInv, Publish, Complete
    <2>4. r.now \in Ticks /\ r.since \in Ticks /\ r.since <= r.now /\ r.now <= tick
        BY <2>3 DEF Reader, ViewerSays
    <2>5. board' = board \/ board' = [now |-> r.now, kept |-> 0, took |-> tick - r.since]
        BY <1>6, <2>2 DEF Publish
    <2>6. BoardSays'
        <3>1. CASE board' = board
            BY <2>1, <3>1, BoardStays
        <3>2. CASE board' = [now |-> r.now, kept |-> 0, took |-> tick - r.since]
            <4>1. PICK n \in Nat, s \in Nat, t \in Nat : n = r.now /\ s = r.since /\ t = tick
                BY <1>1, <2>4, ReportTimes DEF Ticks
            <4>2. s <= n /\ n <= t /\ t <= LastTick /\ n <= LastTick
                BY <1>1, <2>4, <4>1, ReportTimes DEF Ticks
            <4>3. t - s \in Ticks /\ n \in Ticks /\ t - n <= 0 + (t - s) /\ 0 \in 0..BoardTime
                BY <4>2, ReportTimes DEF Ticks
            <4>4. /\ board'.now = n /\ board'.kept = 0 /\ board'.took = t - s /\ tick' = t
                  /\ DOMAIN board' = {"now", "kept", "took"}
                BY <2>1, <3>2, <4>1
            <4>5. QED
                BY <4>3, <4>4 DEF BoardSays
        <3>3. QED
            BY <2>5, <3>1, <3>2
    <2>7. Reader(Looking)
        <3>1. Looking = [reading |-> FALSE, now |-> 0, since |-> 0, done |-> 0, got |-> NoFigure]
            BY DEF Looking
        <3>2. PICK t : t = 0
            OBVIOUS
        <3>3. FALSE \in BOOLEAN /\ t = IF FALSE THEN tick ELSE 0
            BY <3>2
        <3>4. Reader([reading |-> FALSE, now |-> t, since |-> t, done |-> 0, got |-> NoFigure])
            BY <3>3, LookingReads
        <3>5. QED
            BY <3>1, <3>2, <3>4
    <2>8. QED
        BY <2>1, <2>6, <2>7, ViewerStep
<1>7. ASSUME NEW i \in Items, Appear(i) PROVE VInv'
    <2>1. /\ item[i].status = "absent" /\ UNCHANGED <<report, viewer, board, tick>>
          /\ item' = [item EXCEPT ![i].status = "open", ![i].made = tick]
        BY <1>7 DEF Appear
    <2>2. PICK r \in Item : r = item[i]
        BY <1>1
    <2>3. PICK s : s = [r EXCEPT !.status = "open", !.made = tick]
        OBVIOUS
    <2>4. item' = [item EXCEPT ![i] = s]
        BY <1>1, <2>1, <2>2, <2>3
    <2>5. /\ s.status = "open" /\ s.made = tick /\ s.kind = r.kind /\ s.ended = r.ended
          /\ s.moved = r.moved
        BY <2>2, <2>3 DEF Item
    <2>6. s \in Item
        BY <1>1, <2>2, <2>3 DEF Item
    <2>7. item' \in [Items -> Item]
        BY <1>1, <2>4, <2>6
    <2>8. item'[i] = s /\ \A j \in Items \ {i} : item'[j] = item[j]
        BY <1>1, <2>4
    <2>9. RowsMove
        <3>1. item[i].made = Never
            BY <1>2, <2>1 DEF RowIsPast
        <3>2. QED
            BY <2>1, <2>2, <2>5, <2>8, <3>1 DEF RowsMove
    <2>10. tick # Never
        BY <1>1 DEF Never
    <2>11. \A j \in Items : RowIsPast(j)'
        BY <1>1, <1>2, <2>1, <2>2, <2>5, <2>8, <2>10 DEF RowIsPast
    <2>12. QED
        BY <1>1, <2>1, <2>7, <2>9, <2>11, BoardStays, RowStep
<1>8. ASSUME NEW i \in Items, MoveItem(i) PROVE VInv'
    <2>1. PICK m \in MovesOf[item[i].kind] : \E date \in DatesOf(i, m[2]) :
            /\ m[1] = item[i].status
            /\ item' = [item EXCEPT ![i].status = m[2], ![i].ended = date, ![i].moved = tick,
                                    ![i].moves = @ + 1]
        BY <1>8 DEF MoveItem
    <2>2. PICK date \in DatesOf(i, m[2]) :
            /\ m[1] = item[i].status
            /\ item' = [item EXCEPT ![i].status = m[2], ![i].ended = date, ![i].moved = tick,
                                    ![i].moves = @ + 1]
        BY <2>1
    <2>3. item[i].moves < MaxMoves /\ UNCHANGED <<report, viewer, board, tick>>
        BY <1>8 DEF MoveItem
    <2>4. PICK r \in Item : r = item[i]
        BY <1>1
    <2>5. PICK to, n : to = m[2] /\ n = r.moves + 1
        OBVIOUS
    <2>6. PICK s : s = [r EXCEPT !.status = to, !.ended = date, !.moved = tick, !.moves = n]
        OBVIOUS
    <2>7. item' = [item EXCEPT ![i] = s]
        BY <1>1, <2>2, <2>4, <2>5, <2>6
    <2>8. r.kind \in DOMAIN MovesOf /\ r.moves \in 0..MaxMoves
        BY <2>4 DEF Item
    <2>9. /\ m[1] \in {"open", "PAID", "FAILED", "CANCELLED"}
          /\ to \in {"open", "PAID", "FAILED", "REFUNDED", "CANCELLED"}
          /\ r.kind = "invoice" => m[1] = "open"
        BY <2>2, <2>4, <2>5, <2>8, MovesAre
    <2>10. n \in 0..MaxMoves
        BY <2>3, <2>4, <2>5, <2>8, ReportTimes
    <2>11. /\ s.status = to /\ s.ended = date /\ s.moved = tick
           /\ s.kind = r.kind /\ s.made = r.made
        BY <2>4, <2>6 DEF Item
    <2>12. date \in Ticks \union {Never} /\ date <= tick
        <3>1. date = tick \/ date = r.ended
            BY <2>4 DEF DatesOf
        <3>2. r.ended \in Ticks \union {Never} /\ r.ended <= tick
            BY <1>2, <2>4 DEF Item, RowIsPast
        <3>3. QED
            BY <1>1, <3>1, <3>2
    <2>13. s \in Item
        BY <1>1, <2>4, <2>6, <2>9, <2>10, <2>12 DEF Item
    <2>14. item' \in [Items -> Item]
        BY <1>1, <2>7, <2>13
    <2>15. item'[i] = s /\ \A j \in Items \ {i} : item'[j] = item[j]
        BY <1>1, <2>7
    <2>16. RowsMove
        <3>1. ~(item[i].kind = "invoice" /\ item[i].status = "PAID")
            BY <2>2, <2>4, <2>9
        <3>2. QED
            BY <2>4, <2>11, <2>15, <3>1 DEF RowsMove
    <2>17. item[i].status # "absent" /\ s.status # "absent"
        BY <2>2, <2>9, <2>11
    <2>18. \A j \in Items : RowIsPast(j)'
        BY <1>1, <1>2, <2>3, <2>4, <2>11, <2>15, <2>17, <2>12 DEF RowIsPast
    <2>19. QED
        BY <1>1, <2>3, <2>14, <2>16, <2>18, BoardStays, RowStep
<1>9. ASSUME NEW i \in Items, RequestEnd(i) PROVE VInv'
    <2>1. /\ item[i].kind = "subscription" /\ item[i].status = "open"
          /\ item' = [item EXCEPT ![i].ended = tick] /\ UNCHANGED <<report, viewer, board, tick>>
        BY <1>9 DEF RequestEnd
    <2>2. PICK r \in Item : r = item[i]
        BY <1>1
    <2>3. PICK s : s = [r EXCEPT !.ended = tick]
        OBVIOUS
    <2>4. item' = [item EXCEPT ![i] = s]
        BY <1>1, <2>1, <2>2, <2>3
    <2>5. /\ s.status = r.status /\ s.made = r.made /\ s.kind = r.kind /\ s.ended = tick
          /\ s.moved = r.moved
        BY <2>2, <2>3 DEF Item
    <2>6. s \in Item
        BY <1>1, <2>2, <2>3 DEF Item
    <2>7. item' \in [Items -> Item]
        BY <1>1, <2>4, <2>6
    <2>8. item'[i] = s /\ \A j \in Items \ {i} : item'[j] = item[j]
        BY <1>1, <2>4
    <2>9. RowsMove
        BY <2>1, <2>2, <2>5, <2>8 DEF RowsMove
    <2>10. \A j \in Items : RowIsPast(j)'
        BY <1>1, <1>2, <2>1, <2>2, <2>5, <2>8 DEF RowIsPast
    <2>11. QED
        BY <1>1, <2>1, <2>7, <2>9, <2>10, BoardStays, RowStep
<1>10. CASE Tick
    <2>1. /\ tick < LastTick /\ tick' = tick + 1 /\ UNCHANGED <<item, report, viewer>>
          /\ board' = [board EXCEPT !.kept = IF @ < BoardTime THEN @ + 1 ELSE @]
        BY <1>10 DEF Tick
    <2>2. tick' \in Ticks /\ tick <= tick'
        BY <1>1, <2>1, ReportTimes DEF Ticks
    <2>3. RowsMove
        BY <2>1 DEF RowsMove
    <2>4. \A i \in Items : RowIsPast(i)'
        <3>1. \A i \in Items : item[i].made \in Int /\ item[i].ended \in Int /\ item[i].moved \in Int
            BY <1>1, RowTypes
        <3>2. QED
            BY <1>1, <1>2, <2>1, <3>1 DEF RowIsPast
    <2>5. BoardSays'
        <3>1. PICK n, k, o : n = board.now /\ k = board.kept /\ o = board.took
            OBVIOUS
        <3>2. /\ DOMAIN board = {"now", "kept", "took"} /\ k \in 0..BoardTime /\ o \in Ticks
              /\ n \in Ticks /\ (k < BoardTime => tick - n <= k + o)
            BY <3>1 DEF VInv, BoardSays
        <3>3. PICK l : l = IF k < BoardTime THEN k + 1 ELSE k
            OBVIOUS
        <3>4. /\ DOMAIN board' = {"now", "kept", "took"} /\ board'.kept = l
              /\ board'.took = o /\ board'.now = n
            BY <2>1, <3>1, <3>2, <3>3
        <3>5. l \in 0..BoardTime /\ (l < BoardTime => (tick + 1) - n <= l + o)
            BY <1>1, <3>2, <3>3, ReportTimes DEF Ticks
        <3>6. QED
            BY <2>1, <3>2, <3>4, <3>5 DEF BoardSays
    <2>6. QED
        BY <1>1, <2>1, <2>2, <2>3, <2>4, <2>5, RowStep
<1>11. QED
    BY <1>3, <1>4, <1>5, <1>6, <1>7, <1>8, <1>10, <1>9 DEF ReportNext

\* A request that has read all it reads.
LEMMA AllRead ==
    ASSUME VInv, NEW v \in Viewers, Complete(v)
    PROVE  /\ ViewerSays(viewer[v]) /\ \A q \in DOMAIN viewer[v].got : viewer[v].got[q] \subseteq Items
           /\ viewer[v].now \in Nat /\ viewer[v].since \in Nat
           /\ \A k \in 1..Len(QueriesOf[report]) : Has(viewer[v], QueriesOf[report][k])
<1>1. Reader(viewer[v]) /\ viewer[v].reading /\ viewer[v].done = Len(QueriesOf[report])
    BY DEF VInv, Complete
<1>2. ViewerSays(viewer[v])
    BY <1>1 DEF Reader
<1>3. viewer[v].now \in Nat /\ viewer[v].since \in Nat
    BY <1>1, ReportTimes DEF Reader, Ticks
<1>4. \A k \in 1..Len(QueriesOf[report]) : Has(viewer[v], QueriesOf[report][k])
    BY <1>1, <1>2 DEF ViewerSays, ReadSoFar, Has
<1>5. QED
    BY <1>1, <1>2, <1>3, <1>4 DEF Reader

\* The figures of a complete overview add up as far as its rows stood still.
LEMMA OverviewFollows ==
    ASSUME VInv
    PROVE  OverviewAddsUp
<1> SUFFICES ASSUME NEW v \in Viewers, Complete(v), report = "overview",
                    NEW got, got = viewer[v].got, NEW now, now = viewer[v].now
             PROVE  /\ \A p \in {"current", "previous"} :
                         \A i \in got[<<p, "paid">>] \union got[<<p, "failed">>] :
                           i \in got[<<p, "total">>] \/ item[i].made = now
                    /\ \A i \in got[<<"current", "total">>] \cap got[<<"previous", "total">>] :
                         item[i].made = now - Span
                    /\ got[<<"invoices", "paid">>] \subseteq got[<<"invoices", "volume">>]
                    /\ \A i \in got[<<"subscriptions", "active">>] \cap got[<<"subscriptions", "churned">>] :
                         item[i].moved >= now
    BY DEF OverviewAddsUp
<1>1. PICK r : r = viewer[v]
    OBVIOUS
<1>2. /\ ViewerSays(r) /\ now \in Nat /\ r.since = now /\ r.now = now /\ r.got = got
      /\ \A q \in DOMAIN got : got[q] \subseteq Items
      /\ \A k \in 1..Len(QueriesOf["overview"]) : Has(r, QueriesOf["overview"][k])
    BY <1>1, AllRead DEF ViewerSays
<1>3. /\ Has(r, <<"current", "total">>) /\ Has(r, <<"current", "paid">>) /\ Has(r, <<"current", "failed">>)
      /\ Has(r, <<"previous", "total">>) /\ Has(r, <<"previous", "paid">>) /\ Has(r, <<"previous", "failed">>)
      /\ Has(r, <<"invoices", "paid">>) /\ Has(r, <<"invoices", "volume">>)
      /\ Has(r, <<"subscriptions", "active">>) /\ Has(r, <<"subscriptions", "churned">>)
    <2>1. PICK Q : Q = QueriesOf["overview"] /\ \A k \in 1..17 : Has(r, Q[k])
        BY <1>2, OverviewOrder
    <2>2. /\ Has(r, Q[1]) /\ Has(r, Q[2]) /\ Has(r, Q[3]) /\ Has(r, Q[5]) /\ Has(r, Q[6])
          /\ Has(r, Q[7]) /\ Has(r, Q[12]) /\ Has(r, Q[13]) /\ Has(r, Q[14]) /\ Has(r, Q[16])
        BY <2>1
    <2>3. /\ Q[1] = <<"current", "total">> /\ Q[2] = <<"current", "paid">> /\ Q[3] = <<"current", "failed">>
          /\ Q[5] = <<"previous", "total">> /\ Q[6] = <<"previous", "paid">> /\ Q[7] = <<"previous", "failed">>
          /\ Q[12] = <<"invoices", "paid">> /\ Q[13] = <<"invoices", "volume">>
          /\ Q[14] = <<"subscriptions", "active">> /\ Q[16] = <<"subscriptions", "churned">>
        BY <2>1, OverviewOrder
    <2>4. QED
        BY <2>2, <2>3
<1>4. /\ PeriodSays(r, "current", now - Span, now)
      /\ PeriodSays(r, "previous", now - 2 * Span, now - Span)
      /\ InvoicesSay(r) /\ ActiveSays(r, "subscriptions")
    BY <1>2 DEF ViewerSays
<1>5. /\ TotalSays(got[<<"current", "total">>], "session", now - Span, now, now)
      /\ PartSays(got[<<"current", "paid">>], "session", now - Span, now)
      /\ PartSays(got[<<"current", "failed">>], "session", now - Span, now)
    BY <1>2, <1>3, <1>4 DEF PeriodSays
<1>6. /\ TotalSays(got[<<"previous", "total">>], "session", now - 2 * Span, now - Span, now)
      /\ PartSays(got[<<"previous", "paid">>], "session", now - 2 * Span, now - Span)
      /\ PartSays(got[<<"previous", "failed">>], "session", now - 2 * Span, now - Span)
    BY <1>2, <1>3, <1>4 DEF PeriodSays
<1>7. Span \in Nat \ {0} /\ now \in Nat
    BY <1>2, ReportTimes
<1>8. \A i \in Items : item[i].made \in Int
    BY RowTypes DEF VInv
<1>9. ASSUME NEW i \in got[<<"current", "paid">>] \union got[<<"current", "failed">>]
      PROVE  i \in got[<<"current", "total">>] \/ item[i].made = now
    <2>1. i \in Items /\ Counts(i, "session", now - Span, now)
        BY <1>2, <1>3, <1>5, <1>9 DEF PartSays, Has
    <2>2. item[i].made = now \/ item[i].made < now
        BY <1>7, <1>8, <2>1 DEF Counts
    <2>3. QED
        BY <1>5, <2>1, <2>2 DEF TotalSays
<1>10. ASSUME NEW i \in got[<<"previous", "paid">>] \union got[<<"previous", "failed">>]
       PROVE  i \in got[<<"previous", "total">>]
    <2>1. i \in Items /\ Counts(i, "session", now - 2 * Span, now - Span)
        BY <1>2, <1>3, <1>6, <1>10 DEF PartSays, Has
    <2>2. item[i].made < now
        BY <1>7, <1>8, <2>1 DEF Counts
    <2>3. QED
        BY <1>6, <2>1, <2>2 DEF TotalSays
<1>11. ASSUME NEW i \in got[<<"current", "total">>] \cap got[<<"previous", "total">>]
       PROVE  item[i].made = now - Span
    <2>1. item[i].made \in (now - Span)..now /\ item[i].made \in (now - 2 * Span)..(now - Span)
        BY <1>5, <1>6 DEF TotalSays, Counts
    <2>2. QED
        BY <1>7, <2>1
<1>12. got[<<"invoices", "paid">>] \subseteq got[<<"invoices", "volume">>]
    BY <1>2, <1>3, <1>4 DEF InvoicesSay
<1>13. \A i \in got[<<"subscriptions", "active">>] \cap got[<<"subscriptions", "churned">>] :
         item[i].moved >= now
    BY <1>2, <1>3, <1>4 DEF ActiveSays
<1>14. QED
    BY <1>9, <1>10, <1>11, <1>12, <1>13

\* So do those of the two reports that look at what is open.
LEMMA OpenReportsFollow ==
    ASSUME VInv
    PROVE  OpenReportsAddUp
<1> SUFFICES ASSUME NEW v \in Viewers, Complete(v),
                    NEW got, got = viewer[v].got, NEW since, since = viewer[v].since
             PROVE  /\ report = "conversion" =>
                        \A i \in got[<<"conversion", "completed">>] \ got[<<"conversion", "total">>] :
                          item[i].made >= since
                    /\ report = "mrr" =>
                        \A i \in got[<<"mrr", "active">>] \cap got[<<"mrr", "churned">>] :
                          item[i].moved >= since
    BY DEF OpenReportsAddUp
<1>1. PICK r : r = viewer[v]
    OBVIOUS
<1>2. /\ ViewerSays(r) /\ since \in Nat /\ r.since = since /\ r.got = got /\ r.now \in Nat
      /\ \A q \in DOMAIN got : got[q] \subseteq Items
      /\ \A k \in 1..Len(QueriesOf[report]) : Has(r, QueriesOf[report][k])
    BY <1>1, AllRead
<1>3. ASSUME report = "conversion",
             NEW i \in got[<<"conversion", "completed">>] \ got[<<"conversion", "total">>]
      PROVE  item[i].made >= since
    <2>1. Has(r, <<"conversion", "total">>) /\ Has(r, <<"conversion", "completed">>)
        <3>1. \A k \in 1..4 : Has(r, QueriesOf["conversion"][k])
            BY <1>2, <1>3, OtherOrders
        <3>2. QED
            BY <3>1, OtherOrders
    <2>2. /\ TotalSays(got[<<"conversion", "total">>], "session", r.now - Span, LastTick, since)
          /\ PartSays(got[<<"conversion", "completed">>], "session", r.now - Span, LastTick)
        BY <1>2, <1>3, <2>1 DEF ViewerSays
    <2>3. i \in Items /\ Counts(i, "session", r.now - Span, LastTick)
        BY <1>2, <2>1, <2>2 DEF PartSays, Has
    <2>4. item[i].made \in Int /\ ~(item[i].made < since)
        BY <1>3, <2>2, <2>3, RowTypes DEF TotalSays, VInv
    <2>5. QED
        BY <1>2, <2>4
<1>4. ASSUME report = "mrr", NEW i \in got[<<"mrr", "active">>] \cap got[<<"mrr", "churned">>]
      PROVE  item[i].moved >= since
    <2>1. Has(r, <<"mrr", "churned">>)
        <3>1. \A k \in 1..4 : Has(r, QueriesOf["mrr"][k])
            BY <1>2, <1>4, OtherOrders
        <3>2. QED
            BY <3>1, OtherOrders
    <2>2. ActiveSays(r, "mrr")
        BY <1>2, <1>4 DEF ViewerSays
    <2>3. QED
        BY <1>2, <1>4, <2>1, <2>2 DEF ActiveSays
<1>5. QED
    BY <1>3, <1>4

\* The invariant implies the types and the three properties.
LEMMA ReportInvariantHolds ==
    ASSUME VInv
    PROVE  ReportTypeOK /\ OverviewAddsUp /\ OpenReportsAddUp /\ BoardIsRecent
<1>1. ReportTypeOK
    BY DEF VInv, Reader, BoardSays, ReportTypeOK
<1>2. BoardIsRecent
    <2>1. PICK n \in Int, k \in Int, o \in Int, t \in Int, b \in Int :
             n = board.now /\ k = board.kept /\ o = board.took /\ t = tick /\ b = BoardTime
        BY ReportTimes DEF VInv, BoardSays, Ticks
    <2>2. k < b => t - n <= k + o
        BY <2>1 DEF VInv, BoardSays
    <2>3. k < b => t - n < b + o
        BY <2>2
    <2>4. QED
        BY <2>1, <2>3 DEF BoardIsRecent
<1>3. QED
    BY <1>1, <1>2, OverviewFollows, OpenReportsFollow

\* The inductive invariant of the reports is an invariant, for any number of
\* viewers and rows (analytics.py).
THEOREM ReportInvariant == ReportInit /\ [][ReportNext]_reportVars => []VInv
<1>1. ReportInit => VInv
    BY ReportInitially
<1>2. VInv /\ [ReportNext]_reportVars => VInv'
    BY ReportStepKeeps
<1>3. QED
    BY <1>1, <1>2, PTL

(***************************************************************************)
(* The months of a trend (Analytics). FirstOf is a recursive function over *)
(* the months: that it unfolds is proved by induction on a set of months   *)
(* (Sums), and all that is said of the calendar follows from there.        *)
(***************************************************************************)
\* The first days of the months up to n, one after the other.
FirstDays(g, n) ==
    /\ DOMAIN g = 0..n /\ g[0] = 0
    /\ \A k \in 1..n : g[k] = g[k - 1] + LengthOf(k - 1)

\* Two lists of the first days agree as far as both go.
LEMMA FirstDaysAgree ==
    ASSUME NEW n \in Nat, NEW m \in Nat, NEW g, NEW h, FirstDays(g, n), FirstDays(h, m)
    PROVE  \A k \in Nat : k <= n /\ k <= m => g[k] = h[k]
<1> DEFINE T == {k \in Nat : k <= n /\ k <= m => g[k] = h[k]}
<1>1. 0 \in T
    BY DEF FirstDays
<1>2. ASSUME NEW k \in T PROVE k + 1 \in T
    <2>1. CASE k + 1 <= n /\ k + 1 <= m
        <3>1. k \in Nat /\ g[k] = h[k]
            BY <2>1
        <3>2. k + 1 \in 1..n /\ k + 1 \in 1..m /\ (k + 1) - 1 = k
            BY <2>1
        <3>3. g[k + 1] = g[k] + LengthOf(k) /\ h[k + 1] = h[k] + LengthOf(k)
            BY <3>2 DEF FirstDays
        <3>4. QED
            BY <3>1, <3>3
    <2>2. CASE ~(k + 1 <= n /\ k + 1 <= m)
        BY <2>2
    <2>3. QED
        BY <2>1, <2>2
<1>3. T \in SUBSET Nat
    OBVIOUS
<1> HIDE DEF T
<1>4. T = Nat
    BY <1>1, <1>2, <1>3, SetInduction
<1>5. QED
    BY <1>4 DEF T

\* There is one up to every month.
LEMMA FirstDaysExist == \A n \in Nat : \E g : FirstDays(g, n)
<1> DEFINE T == {n \in Nat : \E g : FirstDays(g, n)}
<1>1. 0 \in T
    <2>1. FirstDays([k \in 0..0 |-> 0], 0)
        BY DEF FirstDays
    <2>2. QED
        BY <2>1
<1>2. ASSUME NEW n \in T PROVE n + 1 \in T
    <2>1. PICK g : FirstDays(g, n)
        OBVIOUS
    <2>2. n \in Nat
        OBVIOUS
    <2>3. PICK h : h = [k \in 0..(n + 1) |-> IF k = n + 1 THEN g[n] + LengthOf(n) ELSE g[k]]
        OBVIOUS
    <2>4. DOMAIN h = 0..(n + 1) /\ h[0] = 0
        BY <2>1, <2>2, <2>3 DEF FirstDays
    <2>5. ASSUME NEW k \in 1..(n + 1) PROVE h[k] = h[k - 1] + LengthOf(k - 1)
        <3>1. k \in 0..(n + 1) /\ k - 1 \in 0..(n + 1) /\ k - 1 # n + 1
            BY <2>2
        <3>2. h[k - 1] = g[k - 1]
            BY <2>3, <3>1
        <3>3. CASE k = n + 1
            <4>1. k - 1 = n /\ h[k] = g[n] + LengthOf(n)
                BY <2>2, <2>3, <3>1, <3>3
            <4>2. QED
                BY <3>2, <4>1
        <3>4. CASE k # n + 1
            <4>1. k \in 1..n /\ h[k] = g[k]
                BY <2>2, <2>3, <3>1, <3>4
            <4>2. QED
                BY <2>1, <3>2, <4>1 DEF FirstDays
        <3>5. QED
            BY <3>3, <3>4
    <2>6. FirstDays(h, n + 1)
        BY <2>4, <2>5 DEF FirstDays
    <2>7. QED
        BY <2>2, <2>6
<1>3. T \in SUBSET Nat
    OBVIOUS
<1> HIDE DEF T
<1>4. T = Nat
    BY <1>1, <1>2, <1>3, SetInduction
<1>5. QED
    BY <1>4 DEF T

\* So FirstOf, which is defined by recursion, has the values its definition
\* says.
LEMMA FirstOfUnfolds ==
    /\ FirstOf[0] = 0
    /\ \A m \in Nat : FirstOf[m + 1] = FirstOf[m] + LengthOf(m)
<1> DEFINE Days(n) == CHOOSE g : FirstDays(g, n)
           f == [m \in Nat |-> Days(m)[m]]
<1>1. \A n \in Nat : FirstDays(Days(n), n)
    BY FirstDaysExist
<1>2. f = [m \in Nat |-> IF m = 0 THEN 0 ELSE f[m - 1] + LengthOf(m - 1)]
    <2>1. Days(0)[0] = 0
        BY <1>1 DEF FirstDays
    <2>2. ASSUME NEW m \in Nat, m # 0 PROVE Days(m)[m] = Days(m - 1)[m - 1] + LengthOf(m - 1)
        <3>1. m - 1 \in Nat /\ m \in 1..m /\ m - 1 <= m /\ m - 1 <= m - 1
            BY <2>2
        <3>2. FirstDays(Days(m), m) /\ FirstDays(Days(m - 1), m - 1)
            BY <1>1, <3>1
        <3>3. Days(m)[m] = Days(m)[m - 1] + LengthOf(m - 1)
            BY <3>1, <3>2 DEF FirstDays
        <3> HIDE DEF Days
        <3>4. Days(m)[m - 1] = Days(m - 1)[m - 1]
            BY <3>1, <3>2, FirstDaysAgree
        <3>5. QED
            BY <3>3, <3>4
    <2> HIDE DEF Days
    <2>3. \A m \in Nat : m # 0 => m - 1 \in Nat
        OBVIOUS
    <2>4. QED
        BY <2>1, <2>2, <2>3
<1> HIDE DEF f
<1>3. FirstOf = [m \in Nat |-> IF m = 0 THEN 0 ELSE FirstOf[m - 1] + LengthOf(m - 1)]
    BY <1>2 DEF FirstOf
<1>4. FirstOf[0] = 0
    BY <1>3
<1>5. ASSUME NEW m \in Nat PROVE FirstOf[m + 1] = FirstOf[m] + LengthOf(m)
    <2>1. m + 1 \in Nat /\ m + 1 # 0 /\ (m + 1) - 1 = m
        OBVIOUS
    <2>2. FirstOf[m + 1] = FirstOf[(m + 1) - 1] + LengthOf((m + 1) - 1)
        BY <1>3, <2>1
    <2>3. QED
        BY <2>1, <2>2
<1>6. QED
    BY <1>4, <1>5

\* Days of a month, and where a month is in its year.
LEMMA LengthsAre ==
    ASSUME NEW m \in Nat
    PROVE  LengthOf(m) \in Int /\ LengthOf(m) >= 28 /\ LengthOf(m) <= 31
BY DEF LengthOf

\* The first day of a month is a number of days, 28 to 31 for each month
\* before it.
LEMMA FirstOfTyped == \A m \in Nat : FirstOf[m] \in Nat /\ FirstOf[m] >= 28 * m /\ FirstOf[m] <= 31 * m
<1> DEFINE T == {m \in Nat : FirstOf[m] \in Nat /\ FirstOf[m] >= 28 * m /\ FirstOf[m] <= 31 * m}
<1>1. 0 \in T
    BY FirstOfUnfolds
<1>2. ASSUME NEW m \in T PROVE m + 1 \in T
    <2>1. m \in Nat /\ FirstOf[m] \in Nat /\ FirstOf[m] >= 28 * m /\ FirstOf[m] <= 31 * m
        OBVIOUS
    <2>2. /\ FirstOf[m + 1] = FirstOf[m] + LengthOf(m)
          /\ LengthOf(m) \in Int /\ LengthOf(m) >= 28 /\ LengthOf(m) <= 31
        BY <2>1, FirstOfUnfolds, LengthsAre
    <2>3. PICK a, l \in Int : a = FirstOf[m] /\ l = LengthOf(m)
        BY <2>2
    <2>4. QED
        BY <2>1, <2>2
<1>3. T \in SUBSET Nat
    OBVIOUS
<1> HIDE DEF T
<1>4. T = Nat
    BY <1>1, <1>2, <1>3, SetInduction
<1>5. QED
    BY <1>4 DEF T

\* The days from January to a month, beyond 30 for each month, if it is not a
\* leap year; 5 days go into a whole year.
Beyond(r) ==
    CASE r = 0 -> 0 [] r = 1 -> 1 [] r = 2 -> -1 [] r = 3 -> 0 [] r = 4 -> 0 [] r = 5 -> 1
      [] r = 6 -> 1 [] r = 7 -> 2 [] r = 8 -> 3 [] r = 9 -> 3 [] r = 10 -> 4 [] r = 11 -> 4

\* The leap days before a month.
Leaps(m) == FirstOf[m] - 30 * m - 5 * (m \div 12) - Beyond(m % 12)

\* The table of the days beyond 30, written out.
LEMMA BeyondIs ==
    /\ Beyond(0) = 0 /\ Beyond(1) = 1 /\ Beyond(2) = -1 /\ Beyond(3) = 0 /\ Beyond(4) = 0
    /\ Beyond(5) = 1 /\ Beyond(6) = 1 /\ Beyond(7) = 2 /\ Beyond(8) = 3 /\ Beyond(9) = 3
    /\ Beyond(10) = 4 /\ Beyond(11) = 4
    /\ \A r \in 0..11 : Beyond(r) \in Int /\ Beyond(r) >= -1 /\ Beyond(r) <= 4
<1>1. /\ Beyond(0) = 0 /\ Beyond(1) = 1 /\ Beyond(2) = -1 /\ Beyond(3) = 0 /\ Beyond(4) = 0
      /\ Beyond(5) = 1 /\ Beyond(6) = 1 /\ Beyond(7) = 2 /\ Beyond(8) = 3 /\ Beyond(9) = 3
      /\ Beyond(10) = 4 /\ Beyond(11) = 4
    BY DEF Beyond
<1>2. \A r \in 0..11 : r = 0 \/ r = 1 \/ r = 2 \/ r = 3 \/ r = 4 \/ r = 5 \/ r = 6 \/ r = 7 \/ r = 8
                       \/ r = 9 \/ r = 10 \/ r = 11
    OBVIOUS
<1>3. \A r \in 0..11 : Beyond(r) \in Int /\ Beyond(r) >= -1 /\ Beyond(r) <= 4
    BY <1>1, <1>2
<1>4. QED
    BY <1>1, <1>3

\* A month has its year and its place in the year.
LEMMA MonthIs ==
    ASSUME NEW m \in Nat
    PROVE  \E y \in Nat, r \in 0..11 : m = 12 * y + r /\ m \div 12 = y /\ m % 12 = r
<1>1. m \div 12 \in Nat /\ m % 12 \in 0..11 /\ m = 12 * (m \div 12) + (m % 12)
    OBVIOUS
<1>2. QED
    BY <1>1

\* And so has the next one.
LEMMA NextMonthIs ==
    ASSUME NEW m \in Nat, NEW y \in Nat, NEW r \in 0..11, m = 12 * y + r
    PROVE  /\ r < 11 => (m + 1) \div 12 = y /\ (m + 1) % 12 = r + 1
           /\ r = 11 => (m + 1) \div 12 = y + 1 /\ (m + 1) % 12 = 0
OBVIOUS

\* A month has its days, or one more.
LEMMA LeapsGrow ==
    ASSUME NEW m \in Nat
    PROVE  Leaps(m) \in Int /\ Leaps(m + 1) \in Int /\ Leaps(m) <= Leaps(m + 1)
<1>1. PICK y \in Nat, r \in 0..11 : m = 12 * y + r /\ m \div 12 = y /\ m % 12 = r
    BY MonthIs
<1>2. PICK a \in Int, l \in Int : a = FirstOf[m] /\ l = LengthOf(m) /\ FirstOf[m + 1] = a + l
    <2>1. FirstOf[m] \in Int
        BY FirstOfTyped
    <2>2. LengthOf(m) \in Int
        BY LengthsAre
    <2>3. FirstOf[m + 1] = FirstOf[m] + LengthOf(m)
        BY FirstOfUnfolds
    <2>4. QED
        BY <2>1, <2>2, <2>3
<1>3. Leaps(m) = a - 30 * m - 5 * y - Beyond(r) /\ Beyond(r) \in Int
    BY <1>1, <1>2, BeyondIs DEF Leaps
<1>4. CASE r < 11
    <2>1. (m + 1) \div 12 = y /\ (m + 1) % 12 = r + 1 /\ r + 1 \in 0..11
        BY <1>1, <1>4, NextMonthIs
    <2>2. Leaps(m + 1) = (a + l) - 30 * (m + 1) - 5 * y - Beyond(r + 1) /\ Beyond(r + 1) \in Int
        BY <1>2, <2>1, BeyondIs DEF Leaps
    <2>3. l >= 30 + Beyond(r + 1) - Beyond(r)
        <3>1. CASE r = 1
            <4>1. l >= 28 /\ Beyond(r + 1) = -1 /\ Beyond(r) = 1
                BY <1>2, <3>1, BeyondIs, LengthsAre
            <4>2. QED
                BY <4>1
        <3>2. CASE r \in {3, 5, 8, 10}
            <4>1. l = 30
                BY <1>1, <1>2, <3>2 DEF LengthOf
            <4>2. Beyond(r + 1) = Beyond(r)
                <5>1. r = 3 \/ r = 5 \/ r = 8 \/ r = 10
                    BY <3>2
                <5>2. Beyond(3 + 1) = Beyond(3) /\ Beyond(5 + 1) = Beyond(5) /\ Beyond(8 + 1) = Beyond(8)
                      /\ Beyond(10 + 1) = Beyond(10)
                    BY BeyondIs
                <5>3. QED
                    BY <5>1, <5>2
            <4>3. QED
                BY <1>3, <2>2, <4>1, <4>2
        <3>3. CASE r \in {0, 2, 4, 6, 7, 9}
            <4>1. l = 31
                BY <1>1, <1>2, <3>3 DEF LengthOf
            <4>2. Beyond(r + 1) = Beyond(r) + 1
                <5>1. r = 0 \/ r = 2 \/ r = 4 \/ r = 6 \/ r = 7 \/ r = 9
                    BY <3>3
                <5>2. /\ Beyond(0 + 1) = Beyond(0) + 1 /\ Beyond(2 + 1) = Beyond(2) + 1
                      /\ Beyond(4 + 1) = Beyond(4) + 1 /\ Beyond(6 + 1) = Beyond(6) + 1
                      /\ Beyond(7 + 1) = Beyond(7) + 1 /\ Beyond(9 + 1) = Beyond(9) + 1
                    BY BeyondIs
                <5>3. QED
                    BY <5>1, <5>2
            <4>3. QED
                BY <1>3, <2>2, <4>1, <4>2
        <3>4. r = 1 \/ r \in {3, 5, 8, 10} \/ r \in {0, 2, 4, 6, 7, 9}
            BY <1>4
        <3>5. QED
            BY <3>1, <3>2, <3>3, <3>4
    <2>4. PICK b \in Int, c \in Int : b = Beyond(r) /\ c = Beyond(r + 1)
        BY <1>3, <2>2
    <2>5. QED
        BY <1>3, <2>2, <2>3, <2>4
<1>5. CASE r = 11
    <2>1. (m + 1) \div 12 = y + 1 /\ (m + 1) % 12 = 0
        BY <1>1, <1>5, NextMonthIs
    <2>2. Leaps(m + 1) = (a + l) - 30 * (m + 1) - 5 * (y + 1) - Beyond(0)
        BY <1>2, <2>1 DEF Leaps
    <2>3. l = 31
        BY <1>1, <1>2, <1>5 DEF LengthOf
    <2>4. Beyond(0) = 0 /\ Beyond(r) = 4
        BY <1>5, BeyondIs
    <2>5. QED
        BY <1>3, <2>2, <2>3, <2>4
<1>6. QED
    BY <1>4, <1>5

\* There are never fewer leap days before a later month.
LEMMA LeapsAreOrdered ==
    ASSUME NEW k \in Nat
    PROVE  \A m \in Nat : k <= m => Leaps(k) <= Leaps(m) /\ Leaps(k) \in Int /\ Leaps(m) \in Int
<1> DEFINE T == {m \in Nat : k <= m => Leaps(k) <= Leaps(m) /\ Leaps(k) \in Int /\ Leaps(m) \in Int}
<1>0. \A m \in Nat : Leaps(m) \in Int /\ Leaps(m + 1) \in Int /\ Leaps(m) <= Leaps(m + 1)
    BY LeapsGrow
<1>1. 0 \in T
    <2>1. k <= 0 => k = 0
        OBVIOUS
    <2>2. QED
        BY <1>0, <2>1
<1>2. ASSUME NEW m \in T PROVE m + 1 \in T
    <2>1. m \in Nat /\ m + 1 \in Nat
        OBVIOUS
    <2>2. PICK p \in Int, q \in Int, z \in Int : p = Leaps(m) /\ q = Leaps(m + 1) /\ z = Leaps(k)
        BY <1>0, <2>1
    <2>3. p <= q
        BY <1>0, <2>1, <2>2
    <2>4. k <= m + 1 => k <= m \/ k = m + 1
        BY <2>1
    <2>5. k <= m => z <= p
        BY <2>2
    <2>6. k = m + 1 => z = q
        BY <2>2
    <2>7. k <= m + 1 => z <= q
        BY <2>2, <2>3, <2>4, <2>5, <2>6
    <2>8. QED
        BY <2>1, <2>2, <2>7
<1>3. T \in SUBSET Nat
    OBVIOUS
<1> HIDE DEF T
<1>4. T = Nat
    BY <1>1, <1>2, <1>3, SetInduction
<1>5. QED
    BY <1>4 DEF T

\* A month begins no earlier than the one before it ends.
LEMMA FirstOfGrows ==
    ASSUME NEW k \in Nat
    PROVE  \A m \in Nat : k < m => FirstOf[k + 1] <= FirstOf[m]
<1> DEFINE T == {m \in Nat : k < m => FirstOf[k + 1] <= FirstOf[m]}
<1>1. 0 \in T
    OBVIOUS
<1>2. ASSUME NEW m \in T PROVE m + 1 \in T
    <2>1. m \in Nat
        OBVIOUS
    <2>2. PICK p \in Int, l \in Int, z \in Int :
             p = FirstOf[m] /\ l = LengthOf(m) /\ z = FirstOf[k + 1] /\ l >= 28
        <3>1. FirstOf[m] \in Int /\ FirstOf[k + 1] \in Int
            BY <2>1, FirstOfTyped
        <3>2. LengthOf(m) \in Int /\ LengthOf(m) >= 28
            BY <2>1, LengthsAre
        <3>3. QED
            BY <3>1, <3>2
    <2>3. FirstOf[m + 1] = p + l
        BY <2>1, <2>2, FirstOfUnfolds
    <2>4. k < m + 1 => k < m \/ k = m
        BY <2>1
    <2>5. k < m => z <= p
        BY <2>2
    <2>6. k = m => z = p + l
        BY <2>2, <2>3
    <2>7. QED
        BY <2>1, <2>2, <2>3, <2>4, <2>5, <2>6
<1>3. T \in SUBSET Nat
    OBVIOUS
<1> HIDE DEF T
<1>4. T = Nat
    BY <1>1, <1>2, <1>3, SetInduction
<1>5. QED
    BY <1>4 DEF T

\* A day lies in the month between whose first and the next it is.
LEMMA MonthOfIs ==
    ASSUME NEW k \in Nat, NEW day \in Nat, FirstOf[k] <= day, day < FirstOf[k + 1]
    PROVE  MonthOf(day) = k
<1>1. /\ 28 * k <= day /\ day < 31 * (k + 1)
    <2>1. PICK a \in Nat, b \in Nat : a = FirstOf[k] /\ b = FirstOf[k + 1] /\ a >= 28 * k /\ b <= 31 * (k + 1)
        BY FirstOfTyped
    <2>2. QED
        BY <2>1
<1>2. k \in (day \div 31)..(day \div 28)
    <2>1. day \div 28 >= k
        BY <1>1
    <2>2. day \div 31 <= k
        BY <1>1
    <2>3. QED
        BY <2>1, <2>2
<1>3. ASSUME NEW j \in (day \div 31)..(day \div 28), FirstOf[j] <= day, day < FirstOf[j + 1] PROVE j = k
    <2>1. j \in Nat
        OBVIOUS
    <2>2. PICK a \in Nat, b \in Nat, c \in Nat, d \in Nat :
             a = FirstOf[k] /\ b = FirstOf[k + 1] /\ c = FirstOf[j] /\ d = FirstOf[j + 1]
        <3>1. FirstOf[k] \in Nat /\ FirstOf[k + 1] \in Nat /\ FirstOf[j] \in Nat /\ FirstOf[j + 1] \in Nat
            <4>1. k + 1 \in Nat /\ j + 1 \in Nat
                BY <2>1
            <4>2. QED
                BY <2>1, <4>1, FirstOfTyped
        <3>2. QED
            BY <3>1
    <2>3. ~(j < k)
        <3>1. j < k => d <= a
            BY <2>1, <2>2, FirstOfGrows
        <3>2. a <= day /\ day < d
            BY <1>3, <2>2
        <3>3. QED
            BY <3>1, <3>2
    <2>4. ~(k < j)
        <3>1. k < j => b <= c
            BY <2>1, <2>2, FirstOfGrows
        <3>2. c <= day /\ day < b
            BY <1>3, <2>2
        <3>3. QED
            BY <3>1, <3>2
    <2>5. QED
        BY <2>1, <2>3, <2>4
<1>4. QED
    BY <1>2, <1>3 DEF MonthOf

\* Between two months there are 30 days for each, but for two at most, and
\* for none when the later is not March, April or May.
LEMMA DaysBetween ==
    ASSUME NEW m \in Nat, NEW k \in Nat, k < m
    PROVE  /\ FirstOf[m] - FirstOf[k] >= 30 * (m - k) - 2
           /\ m % 12 \notin 2..4 => FirstOf[m] - FirstOf[k] >= 30 * (m - k)
<1>1. PICK y \in Nat, r \in 0..11 : m = 12 * y + r /\ m \div 12 = y /\ m % 12 = r
    BY MonthIs
<1>2. PICK z \in Nat, q \in 0..11 : k = 12 * z + q /\ k \div 12 = z /\ k % 12 = q
    BY MonthIs
<1>3. PICK a \in Int, c \in Int : a = FirstOf[m] /\ c = FirstOf[k]
    BY FirstOfTyped, SMTT(30)
<1>4. PICK b \in Int, d \in Int : /\ b = Beyond(r) /\ d = Beyond(q) /\ b >= -1 /\ d <= 4 /\ b <= 4 /\ d >= -1
    BY BeyondIs
<1>5. a - 30 * m - 5 * y - b >= c - 30 * k - 5 * z - d
    <2>1. Leaps(k) <= Leaps(m)
        BY LeapsAreOrdered
    <2>2. QED
        BY <1>1, <1>2, <1>3, <1>4, <2>1 DEF Leaps
<1>6. a - c >= 30 * (m - k) + 5 * (y - z) + (b - d)
    BY <1>5
<1>7. y >= z
    BY <1>1, <1>2
<1>8. CASE y > z
    <2>1. 5 * (y - z) + (b - d) >= 0
        BY <1>4, <1>8
    <2>2. a - c >= 30 * (m - k)
        BY <1>6, <2>1
    <2>3. QED
        BY <1>3, <2>2
<1>9. CASE y = z
    <2>1. q < r
        BY <1>1, <1>2, <1>9
    <2>2. b - d >= -2 /\ (r \notin 2..4 => b - d >= 0)
        <3>1. /\ Beyond(0) = 0 /\ Beyond(1) = 1 /\ Beyond(2) = -1 /\ Beyond(3) = 0 /\ Beyond(4) = 0
              /\ Beyond(5) = 1 /\ Beyond(6) = 1 /\ Beyond(7) = 2 /\ Beyond(8) = 3 /\ Beyond(9) = 3
              /\ Beyond(10) = 4 /\ Beyond(11) = 4
            BY BeyondIs
        <3>2. r = 1 \/ r = 2 \/ r = 3 \/ r = 4 \/ r = 5 \/ r = 6 \/ r = 7 \/ r = 8
              \/ r = 9 \/ r = 10 \/ r = 11
            BY <2>1
        <3>3. q = 0 \/ q = 1 \/ q = 2 \/ q = 3 \/ q = 4 \/ q = 5 \/ q = 6 \/ q = 7 \/ q = 8
              \/ q = 9 \/ q = 10
            BY <2>1
        <3>4. QED
            BY <1>4, <2>1, <3>1, <3>2, <3>3
    <2>3. QED
        BY <1>1, <1>3, <1>6, <1>9, <2>2
<1>10. QED
    BY <1>7, <1>8, <1>9

\* And there are at most 31 for each.
LEMMA DaysAtMost ==
    ASSUME NEW k \in Nat
    PROVE  \A m \in Nat : k <= m => FirstOf[m] - FirstOf[k] <= 31 * (m - k)
<1> DEFINE T == {m \in Nat : k <= m => FirstOf[m] - FirstOf[k] <= 31 * (m - k)}
<1>1. 0 \in T
    <2>1. k <= 0 => k = 0
        OBVIOUS
    <2>2. FirstOf[0] = 0
        BY FirstOfUnfolds
    <2>3. QED
        BY <2>1, <2>2
<1>2. ASSUME NEW m \in T PROVE m + 1 \in T
    <2>1. m \in Nat
        OBVIOUS
    <2>2. PICK p \in Int, l \in Int, z \in Int :
             p = FirstOf[m] /\ l = LengthOf(m) /\ z = FirstOf[k] /\ l <= 31
        <3>1. FirstOf[m] \in Int /\ FirstOf[k] \in Int
            BY <2>1, FirstOfTyped
        <3>2. LengthOf(m) \in Int /\ LengthOf(m) <= 31
            BY <2>1, LengthsAre
        <3>3. QED
            BY <3>1, <3>2
    <2>3. FirstOf[m + 1] = p + l
        BY <2>1, <2>2, FirstOfUnfolds
    <2>4. k <= m + 1 => k <= m \/ k = m + 1
        BY <2>1
    <2>5. k <= m => p - z <= 31 * (m - k)
        BY <2>2
    <2>6. k <= m => (p + l) - z <= 31 * ((m + 1) - k)
        BY <2>1, <2>2, <2>5
    <2>7. k = m + 1 => FirstOf[m + 1] - FirstOf[k] <= 31 * ((m + 1) - k)
        BY <2>2, <2>3
    <2>8. QED
        BY <2>1, <2>2, <2>3, <2>4, <2>6, <2>7
<1>3. T \in SUBSET Nat
    OBVIOUS
<1> HIDE DEF T
<1>4. T = Nat
    BY <1>1, <1>2, <1>3, SetInduction
<1>5. QED
    BY <1>4 DEF T

\* 30 days for each month back from the first of a month lead to that month;
\* from March, April and May they may lead to the one before.
LEMMA MonthBack ==
    ASSUME NEW m \in Nat, m >= 24, NEW i \in 1..23
    PROVE  /\ TrendMonth(m, i) \in IF m % 12 \in 2..4 THEN {m - i, m - i - 1} ELSE {m - i}
           /\ TrendMonth(m, i) \in Nat
<1>1. PICK k \in Nat : k = m - i /\ k >= 1 /\ k < m
    OBVIOUS
<1>2. k - 1 \in Nat /\ k + 1 \in Nat /\ (k - 1) + 1 = k
    BY <1>1
<1>3. PICK a \in Nat, b \in Nat, c \in Nat, d \in Nat :
         a = FirstOf[m] /\ b = FirstOf[k] /\ c = FirstOf[k + 1] /\ d = FirstOf[k - 1]
    <2>1. FirstOf[m] \in Nat /\ FirstOf[k] \in Nat /\ FirstOf[k + 1] \in Nat /\ FirstOf[k - 1] \in Nat
        BY <1>2, FirstOfTyped
    <2>2. QED
        BY <2>1
<1>4. a - b >= 30 * i - 2 /\ (m % 12 \notin 2..4 => a - b >= 30 * i)
    <2>1. /\ FirstOf[m] - FirstOf[k] >= 30 * (m - k) - 2
          /\ m % 12 \notin 2..4 => FirstOf[m] - FirstOf[k] >= 30 * (m - k)
        BY <1>1, DaysBetween
    <2>2. m - k = i
        BY <1>1
    <2>3. QED
        BY <1>3, <2>1, <2>2
<1>5. a - c <= 31 * (i - 1)
    <2>1. k + 1 <= m /\ m - (k + 1) = i - 1
        BY <1>1
    <2>2. FirstOf[m] - FirstOf[k + 1] <= 31 * (m - (k + 1))
        BY <1>2, <2>1, DaysAtMost
    <2>3. QED
        BY <1>3, <2>1, <2>2
<1>6. b - d >= 28
    <2>1. FirstOf[k] = FirstOf[k - 1] + LengthOf(k - 1)
        BY <1>2, FirstOfUnfolds
    <2>2. LengthOf(k - 1) \in Int /\ LengthOf(k - 1) >= 28
        BY <1>2, LengthsAre
    <2>3. QED
        BY <1>3, <2>1, <2>2
<1>7. a - 30 * i < c
    BY <1>5
<1>8. a - 30 * i \in Nat
    <2>1. a >= 28 * m
        BY <1>3, FirstOfTyped
    <2>2. d >= 0 /\ a - 30 * i >= b - 2
        BY <1>4
    <2>3. QED
        BY <1>6, <2>2
<1>9. CASE b <= a - 30 * i
    <2>1. MonthOf(a - 30 * i) = k
        BY <1>3, <1>7, <1>8, <1>9, MonthOfIs
    <2>2. QED
        BY <1>1, <1>3, <2>1 DEF TrendMonth
<1>10. CASE ~(b <= a - 30 * i)
    <2>1. m % 12 \in 2..4
        BY <1>4, <1>10
    <2>2. d <= a - 30 * i
        BY <1>4, <1>6
    <2>3. MonthOf(a - 30 * i) = k - 1
        <3>1. FirstOf[k - 1] <= a - 30 * i /\ a - 30 * i < FirstOf[(k - 1) + 1]
            BY <1>2, <1>3, <1>10, <2>2
        <3>2. QED
            BY <1>2, <1>8, <3>1, MonthOfIs
    <2>4. QED
        BY <1>1, <1>2, <1>3, <2>1, <2>3 DEF TrendMonth
<1>11. QED
    BY <1>9, <1>10

\* 32 days after the first of a month is in the next month.
LEMMA EndsWithMonth ==
    ASSUME NEW k \in Nat
    PROVE  FirstOf[MonthOf(FirstOf[k] + 32)] = FirstOf[k + 1]
<1>1. k + 1 \in Nat /\ (k + 1) + 1 \in Nat
    OBVIOUS
<1>2. PICK a \in Nat, b \in Nat, c \in Nat : a = FirstOf[k] /\ b = FirstOf[k + 1] /\ c = FirstOf[(k + 1) + 1]
    <2>1. FirstOf[k] \in Nat /\ FirstOf[k + 1] \in Nat /\ FirstOf[(k + 1) + 1] \in Nat
        BY <1>1, FirstOfTyped
    <2>2. QED
        BY <2>1
<1>3. PICK l \in Int, n \in Int : /\ l = LengthOf(k) /\ n = LengthOf(k + 1)
                                  /\ l >= 28 /\ l <= 31 /\ n >= 28
    <2>1. /\ LengthOf(k) \in Int /\ LengthOf(k) >= 28 /\ LengthOf(k) <= 31
          /\ LengthOf(k + 1) \in Int /\ LengthOf(k + 1) >= 28
        BY <1>1, LengthsAre
    <2>2. QED
        BY <2>1
<1>4. b = a + l /\ c = b + n
    BY <1>1, <1>2, <1>3, FirstOfUnfolds
<1>5. a + 32 \in Nat /\ b <= a + 32 /\ a + 32 < c
    BY <1>3, <1>4
<1>6. MonthOf(a + 32) = k + 1
    BY <1>1, <1>2, <1>5, MonthOfIs
<1>7. QED
    BY <1>2, <1>6

\* TrendIsMonthly, for every month from the third year of the calendar on:
\* stepping back by 30 days a trend shows each of the last months once, save
\* in March, April and May, when it may show the month before, and each point
\* covers the whole of its month (get_mrr_trend, analytics.py).
THEOREM TrendShowsMonths == TrendIsMonthly
<1> SUFFICES ASSUME NEW m \in Months, NEW i \in 1..23
             PROVE  /\ TrendMonth(m, i) \in IF m % 12 \in 2..4 THEN {m - i, m - i - 1} ELSE {m - i}
                    /\ TrendEnd(m, i) = FirstOf[TrendMonth(m, i) + 1]
    BY DEF TrendIsMonthly
<1>1. m \in Nat /\ m >= 24
    BY AnalyticsAssumption
<1>2. QED
    BY <1>1, MonthBack, EndsWithMonth DEF TrendEnd

(***************************************************************************)
(* The platform (MCPlatform).                                              *)
(***************************************************************************)
PInv == QInv /\ AInv /\ CInv /\ GInv /\ ScreeningSays /\ LInv /\ XInv /\ YInv /\ VInv

\* The invariants of the parts hold at the start.
LEMMA PlatformStarts ==
    ASSUME PlatformInit
    PROVE  PInv
    BY QueueInitially, KeyInitially, BreakerInitially, LedgerInitially, ScreeningInitially,
       LimitsInitially, RatesInitially, RelaysInitially, ReportInitially DEF PlatformInit, PInv

\* Each part keeps its own: they share no state.
LEMMA PlatformStepKeeps ==
    ASSUME PInv, [PlatformNext]_platformVars
    PROVE  PInv'
<1>1. /\ [QueueNext]_queueVars /\ [KeyNext]_keyVars /\ [BreakerNext]_breakerVars
      /\ [LedgerNext]_ledgerVars /\ [Screen]_screening /\ [LimitNext]_limitVars
      /\ [RateNext]_rateVars /\ [RelayNext]_relayVars /\ [ReportNext]_reportVars
    BY DEF PlatformNext, platformVars
<1>2. QInv'
    BY <1>1, QueueStepKeeps DEF PInv
<1>3. AInv'
    BY <1>1, KeyStepKeeps DEF PInv
<1>4. CInv'
    BY <1>1, BreakerStepKeeps DEF PInv
<1>5. GInv' /\ ScreeningSays'
    BY <1>1, LedgerStepKeeps, ScreenKeeps DEF PInv
<1>6. LInv'
    BY <1>1, LimitsStepKeeps DEF PInv
<1>7. XInv'
    BY <1>1, RatesStepKeeps DEF PInv
<1>8. YInv'
    BY <1>1, RelayStepKeeps DEF PInv
<1>9. VInv'
    BY <1>1, ReportStepKeeps DEF PInv
<1>10. QED
    BY <1>2, <1>3, <1>4, <1>5, <1>6, <1>7, <1>8, <1>9 DEF PInv

\* The invariants of all the parts hold in every state of the platform.
THEOREM PlatformInvariant == PlatformSpec => []PInv
<1>1. PlatformInit => PInv
    BY PlatformStarts
<1>2. PInv /\ [PlatformNext]_platformVars => PInv'
    BY PlatformStepKeeps
<1>3. QED
    BY <1>1, <1>2, PTL DEF PlatformSpec

\* Every state of the platform has the types PlatformTypeOK states.
THEOREM PlatformTypeCorrect == PlatformSpec => []PlatformTypeOK
<1>1. PInv => PlatformTypeOK
    <2> SUFFICES ASSUME PInv PROVE PlatformTypeOK
        OBVIOUS
    <2>1. QueueTypeOK /\ KeyTypeOK /\ BreakerTypeOK /\ LimitTypeOK
        BY DEF PInv, QInv, AInv, CInv, LInv
    <2>2. LedgerTypeOK
        BY LedgerTyped DEF PInv
    <2>3. RateTypeOK
        BY RatesTyped DEF PInv
    <2>4. RelayTypeOK
        BY DEF PInv, YInv
    <2>5. ReportTypeOK
        BY ReportInvariantHolds DEF PInv
    <2>6. QED
        BY <2>1, <2>2, <2>3, <2>4, <2>5 DEF PlatformTypeOK
<1>2. QED
    BY <1>1, PlatformInvariant, PTL

\* QueueSafe, for any number of consumers and callers: a row gives up with
\* its last attempt, only a crash leaves an event in processing, and a call
\* posts a bounded number of times (event_queue.py, webhook_service.py).
THEOREM QueueIsSafe == PlatformSpec => []QueueSafe
<1>1. PInv => QueueSafe
    BY QueueInvariantHolds DEF PInv, QueueSafe
<1>2. QED
    BY <1>1, PlatformInvariant, PTL

\* GuardsHold: a key is answered once and is busy only for a worker
\* (idempotency), the breaker closes on proof only, and no window admits more
\* than its limit (rate limiter).
THEOREM GuardsAlwaysHold == PlatformSpec => []GuardsHold
<1>1. PInv => GuardsHold
    <2> SUFFICES ASSUME PInv PROVE GuardsHold
        OBVIOUS
    <2>1. AnsweredOnce /\ BusyKeyHasWorker
        BY KeyInvariantHolds DEF PInv
    <2>2. ClosedByProof /\ WindowsHold
        BY DEF PInv, CInv, LInv
    <2>3. QED
        BY <2>1, <2>2 DEF GuardsHold
<1>2. QED
    BY <1>1, PlatformInvariant, PTL

\* RecordsHold: honest books verify and what is changed in them is seen,
\* transitions lead to the status, screening reports the worst check, a rate
\* is no older than it may be, and the reports add up (ledger, compliance,
\* rates, analytics).
THEOREM RecordsAlwaysHold == PlatformSpec => []RecordsHold
<1>1. PInv => RecordsHold
    <2> SUFFICES ASSUME PInv PROVE RecordsHold
        OBVIOUS
    <2>1. HonestChainVerifies /\ TamperIsSeen /\ TrailLeadsToStatus
        BY LedgerHolds DEF PInv
    <2>2. ScreeningIsWorst
        BY ScreeningHolds DEF PInv
    <2>3. RatesAreRecent
        BY DEF PInv, XInv
    <2>4. OverviewAddsUp /\ OpenReportsAddUp /\ BoardIsRecent
        BY ReportInvariantHolds DEF PInv
    <2>5. ReportsHold
        BY <2>4, TrendShowsMonths DEF ReportsHold
    <2>6. QED
        BY <2>1, <2>2, <2>3, <2>5 DEF RecordsHold
<1>2. QED
    BY <1>1, PlatformInvariant, PTL

\* RelayersHold: no process takes a nonce twice, no gap opens below a pending
\* transaction but by a nonce that was lost, and rows say of a transaction
\* what its chain decided (the relayers).
THEOREM RelayersAlwaysHold == PlatformSpec => []RelayersHold
<1>1. PInv => RelayersHold
    BY RelayInvariantHolds DEF PInv
<1>2. QED
    BY <1>1, PlatformInvariant, PTL
=============================================================================
