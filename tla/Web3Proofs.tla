----------------------------- MODULE Web3Proofs -----------------------------
(***************************************************************************)
(* Proofs about Web3Subscriptions: whatever requests, cancellations and    *)
(* schedulers there are, and however their transactions are delayed, lost  *)
(* or repeated, subscribers are charged as SubscriptionPromise says.       *)
(*                                                                         *)
(* The argument: the subscriptions of the contract change only by          *)
(* transactions that are included and by direct cancellations, and the     *)
(* next payment of an agreement is never due before as many intervals as   *)
(* payments have passed since its start.                                   *)
(*                                                                         *)
(* The books of the backend are backed: BooksInv says in addition what     *)
(* every process at work holds of its row, and that payments recorded and  *)
(* payments about to be recorded together are no more than were executed.  *)
(***************************************************************************)
EXTENDS Web3Subscriptions, Sums, FiniteSetTheorems, SequenceTheorems, TLAPS

(***************************************************************************)
(* Finite sets of integers have a greatest element.                        *)
(***************************************************************************)

\* The community module's Max is well defined on finite sets of integers.
LEMMA MaxOfFinite ==
    ASSUME NEW S \in SUBSET Int, IsFiniteSet(S), S # {}
    PROVE  Max(S) \in S /\ \A y \in S : Max(S) >= y
<1> DEFINE HasMax(X) == \E x \in X : \A y \in X : x >= y
           T == {n \in Nat : \A X \in SUBSET Int :
                   IsFiniteSet(X) /\ Cardinality(X) = n + 1 => HasMax(X)}
<1>1. 0 \in T
    <2> SUFFICES ASSUME NEW X \in SUBSET Int, IsFiniteSet(X),
                        Cardinality(X) = 1
                 PROVE  HasMax(X)
        OBVIOUS
    <2>1. PICK x : X = {x}
        BY FS_Singleton
    <2>2. x \in Int
        BY <2>1
    <2>3. QED
        BY <2>1, <2>2
<1>2. ASSUME NEW n \in T PROVE n + 1 \in T
    <2> SUFFICES ASSUME NEW X \in SUBSET Int, IsFiniteSet(X),
                        Cardinality(X) = (n + 1) + 1
                 PROVE  HasMax(X)
        OBVIOUS
    <2>0. n \in Nat /\ X # {}
        <3>1. n \in Nat
            OBVIOUS
        <3>2. Cardinality({}) = 0
            BY FS_EmptySet
        <3>3. QED
            BY <3>1, <3>2
    <2>1. PICK a : a \in X
        BY <2>0
    <2> DEFINE Y == X \ {a}
    <2>2. Y \in SUBSET Int /\ IsFiniteSet(Y) /\ Cardinality(Y) = n + 1
        BY <2>0, <2>1, FS_RemoveElement
    <2>3. PICK b \in Y : \A y \in Y : b >= y
        BY <2>2
    <2>4. a \in Int /\ b \in Int /\ b \in X
        BY <2>1, <2>3
    <2>5. CASE a >= b
        <3>1. \A y \in X : a >= y
            BY <2>3, <2>4, <2>5
        <3>2. QED
            BY <2>1, <3>1
    <2>6. CASE ~ (a >= b)
        <3>1. \A y \in X : b >= y
            BY <2>3, <2>4, <2>6
        <3>2. QED
            BY <2>4, <3>1
    <2>7. QED
        BY <2>5, <2>6
<1>3. T = Nat
    <2> HIDE DEF T
    <2>1. T \in SUBSET Nat
        BY DEF T
    <2>2. QED
        BY <1>1, <1>2, <2>1, SetInduction
<1>4. Cardinality(S) \in Nat \ {0}
    BY FS_CardinalityType, FS_EmptySet
<1>5. Cardinality(S) - 1 \in T
    BY <1>3, <1>4
<1>6. HasMax(S)
    BY <1>4, <1>5
<1>7. QED
    BY <1>6 DEF Max
-----------------------------------------------------------------------------
(***************************************************************************)
(* The contract by itself.                                                 *)
(***************************************************************************)

\* An agreement is not due before its intervals have passed.
OnSchedule ==
    \A i \in DOMAIN subscriptions :
        subscriptions[i].nextPayment >=
            subscriptions[i].since + subscriptions[i].paymentCount * Interval

ContractInv == ContractTypeOK /\ OnSchedule

\* What a step of the system may do to the contract.
ContractNext ==
    \/ Tick \/ TogglePause \/ ToggleFunds
    \/ \E start \in Nat : CreateSubscription(start)
    \/ \E i \in DOMAIN subscriptions : ExecutePayment(i) \/ CancelSubscription(i)

\* The records a new agreement and a charged one become.
LEMMA AgreementTypes ==
    ASSUME NEW s \in SubscriptionData, NEW t \in Nat
    PROVE  /\ [s EXCEPT !.active = FALSE] \in SubscriptionData
           /\ [s EXCEPT !.paymentCount = @ + 1, !.nextPayment = t]
                \in SubscriptionData
<1>1. [s EXCEPT !.active = FALSE] \in SubscriptionData
    BY DEF SubscriptionData
<1>2. s.paymentCount + 1 \in Nat
    BY DEF SubscriptionData
<1>3. ASSUME NEW n \in Nat
      PROVE  [s EXCEPT !.paymentCount = n, !.nextPayment = t]
                \in SubscriptionData
    BY DEF SubscriptionData
<1>4. QED
    BY <1>1, <1>2, <1>3

\* Distributing one interval.
LEMMA OneMoreInterval ==
    ASSUME NEW n \in Nat, NEW k \in Nat
    PROVE  (n + 1) * k = n * k + k
OBVIOUS

LEMMA CreateStep ==
    ASSUME ContractInv, NEW start \in Nat, CreateSubscription(start)
    PROVE  ContractInv' /\ Promise!Open
<1> DEFINE new == [active |-> TRUE, nextPayment |-> start, paymentCount |-> 0,
                   since |-> start]
<1> USE ContractAssumption DEF ContractInv, ContractTypeOK
<1>1. new \in SubscriptionData
    BY DEF SubscriptionData
<1>2. /\ subscriptions' = Append(subscriptions, new)
      /\ start >= now /\ UNCHANGED <<now, paused, funded>>
    BY DEF CreateSubscription, CanCreate
<1>3. /\ new.since = start /\ new.nextPayment = start
      /\ new.paymentCount = 0 /\ new.active
    OBVIOUS
<1> HIDE DEF new
<1>4. /\ subscriptions' \in Seq(SubscriptionData)
      /\ Len(subscriptions') = Len(subscriptions) + 1
      /\ \A i \in 1..Len(subscriptions) : subscriptions'[i] = subscriptions[i]
      /\ subscriptions'[Len(subscriptions) + 1] = new
    BY <1>1, <1>2, AppendProperties
<1>5. /\ DOMAIN subscriptions = 1..Len(subscriptions)
      /\ DOMAIN subscriptions' = 1..(Len(subscriptions) + 1)
      /\ Len(subscriptions) \in Nat
    BY <1>4
<1>6. ContractTypeOK'
    BY <1>2, <1>4
<1>7. OnSchedule'
    BY <1>3, <1>4, <1>5 DEF OnSchedule
<1>8. QED
    BY <1>2, <1>3, <1>4, <1>5, <1>6, <1>7 DEF Promise!Open

\* A step that changes one agreement of the contract.
LEMMA OneAgreement ==
    ASSUME ContractTypeOK, NEW i \in DOMAIN subscriptions,
           NEW new \in SubscriptionData,
           subscriptions' = [subscriptions EXCEPT ![i] = new]
    PROVE  /\ subscriptions' \in Seq(SubscriptionData)
           /\ DOMAIN subscriptions' = DOMAIN subscriptions
           /\ \A j \in DOMAIN subscriptions :
                subscriptions'[j] = IF j = i THEN new ELSE subscriptions[j]
<1>1. subscriptions \in Seq(SubscriptionData)
    BY DEF ContractTypeOK
<1>2. subscriptions' \in Seq(SubscriptionData)
      /\ Len(subscriptions') = Len(subscriptions)
    BY <1>1, ExceptSeq
<1>3. QED
    BY <1>1, <1>2

LEMMA ChargeStep ==
    ASSUME ContractInv, NEW i \in DOMAIN subscriptions, ExecutePayment(i)
    PROVE  ContractInv' /\ Promise!Charge(i)
<1> DEFINE s == subscriptions[i]
           due == now + Interval
           new == [s EXCEPT !.paymentCount = @ + 1, !.nextPayment = due]
<1>1. ContractTypeOK /\ OnSchedule
    BY DEF ContractInv
<1>2. /\ s \in SubscriptionData
      /\ now \in Nat /\ Interval \in Nat /\ due \in Nat
      /\ s.nextPayment \in Nat /\ s.since \in Nat /\ s.paymentCount \in Nat
    <2>1. s \in SubscriptionData /\ now \in Nat /\ Interval \in Nat
        BY <1>1, ContractAssumption DEF ContractTypeOK
    <2>2. QED
        BY <2>1 DEF SubscriptionData
<1>3. /\ s.active /\ now >= s.nextPayment
      /\ subscriptions' = [subscriptions EXCEPT ![i] = new]
      /\ UNCHANGED <<now, paused, funded>>
    BY DEF ExecutePayment, CanExecute, IsActive
<1>4. new \in SubscriptionData
    BY <1>2, AgreementTypes
<1>5. /\ new.active = s.active /\ new.since = s.since
      /\ new.paymentCount = s.paymentCount + 1 /\ new.nextPayment = due
    BY <1>2 DEF SubscriptionData
<1> HIDE DEF new
<1>6. /\ subscriptions' \in Seq(SubscriptionData)
      /\ DOMAIN subscriptions' = DOMAIN subscriptions
      /\ \A j \in DOMAIN subscriptions :
           subscriptions'[j] = IF j = i THEN new ELSE subscriptions[j]
    BY <1>1, <1>3, <1>4, OneAgreement
<1>7. ContractTypeOK'
    BY <1>1, <1>3, <1>6 DEF ContractTypeOK
<1>8. now >= s.since + s.paymentCount * Interval
    BY <1>1, <1>2, <1>3, s.paymentCount * Interval \in Nat DEF OnSchedule
<1>9. OnSchedule'
    <2> SUFFICES ASSUME NEW j \in DOMAIN subscriptions
                 PROVE  subscriptions'[j].nextPayment >=
                          subscriptions'[j].since
                          + subscriptions'[j].paymentCount * Interval
        BY <1>6 DEF OnSchedule
    <2>1. CASE j = i
        <3>1. (s.paymentCount + 1) * Interval
                = s.paymentCount * Interval + Interval
            BY <1>2, OneMoreInterval
        <3>2. due >= s.since + (s.paymentCount + 1) * Interval
            BY <1>2, <1>8, <3>1, s.paymentCount * Interval \in Nat
        <3>3. QED
            BY <1>5, <1>6, <2>1, <3>2
    <2>2. CASE j # i
        BY <1>1, <1>6, <2>2 DEF OnSchedule
    <2>3. QED
        BY <2>1, <2>2
<1>10. Promise!Charge(i)
    BY <1>3, <1>5, <1>6, <1>8 DEF Promise!Charge
<1>11. QED
    BY <1>7, <1>9, <1>10 DEF ContractInv

LEMMA CloseStep ==
    ASSUME ContractInv, NEW i \in DOMAIN subscriptions, CancelSubscription(i)
    PROVE  ContractInv' /\ Promise!Close(i)
<1> DEFINE s == subscriptions[i]
           new == [s EXCEPT !.active = FALSE]
<1>1. ContractTypeOK /\ OnSchedule
    BY DEF ContractInv
<1>2. s \in SubscriptionData
    BY <1>1 DEF ContractTypeOK
<1>3. /\ s.active
      /\ subscriptions' = [subscriptions EXCEPT ![i] = new]
      /\ UNCHANGED <<now, paused, funded>>
    BY DEF CancelSubscription, IsActive
<1>4. new \in SubscriptionData
    BY <1>2, AgreementTypes
<1>5. /\ ~ new.active /\ new.since = s.since
      /\ new.paymentCount = s.paymentCount /\ new.nextPayment = s.nextPayment
    BY <1>2 DEF SubscriptionData
<1>6. new.active = FALSE
    BY <1>2 DEF SubscriptionData
<1> HIDE DEF new
<1>7. /\ subscriptions' \in Seq(SubscriptionData)
      /\ DOMAIN subscriptions' = DOMAIN subscriptions
      /\ \A j \in DOMAIN subscriptions :
           subscriptions'[j] = IF j = i THEN new ELSE subscriptions[j]
    BY <1>1, <1>3, <1>4, OneAgreement
<1>8. ContractTypeOK'
    BY <1>1, <1>3, <1>7 DEF ContractTypeOK
<1>9. OnSchedule'
    BY <1>1, <1>3, <1>5, <1>7 DEF OnSchedule
<1>10. Promise!Close(i)
    BY <1>3, <1>5, <1>6, <1>7 DEF Promise!Close
<1>11. QED
    BY <1>8, <1>9, <1>10 DEF ContractInv

\* Whatever calls the contract, it keeps its invariant and its promise.
LEMMA ContractStep ==
    ASSUME ContractInv, ContractNext \/ UNCHANGED contract
    PROVE  ContractInv' /\ (Promise!Next \/ UNCHANGED Promise!vars)
<1>1. CASE Tick
    <2>1. now' \in 0..MaxTime /\ now' = now + 1
        BY <1>1, ContractAssumption DEF Tick, ContractInv, ContractTypeOK
    <2>2. ContractInv'
        BY <1>1, <2>1 DEF Tick, ContractInv, ContractTypeOK, OnSchedule
    <2>3. Promise!Tick
        BY <1>1 DEF Tick, Promise!Tick
    <2>4. QED
        BY <2>2, <2>3 DEF Promise!Next
<1>2. CASE TogglePause \/ ToggleFunds \/ UNCHANGED contract
    <2>1. ContractInv'
        BY <1>2 DEF TogglePause, ToggleFunds, contract, ContractInv,
                    ContractTypeOK, OnSchedule
    <2>2. UNCHANGED Promise!vars
        BY <1>2 DEF TogglePause, ToggleFunds, contract, Promise!vars
    <2>3. QED
        BY <2>1, <2>2
<1>3. CASE \E start \in Nat : CreateSubscription(start)
    BY <1>3, CreateStep DEF Promise!Next
<1>4. ASSUME NEW i \in DOMAIN subscriptions, ExecutePayment(i)
      PROVE  ContractInv' /\ Promise!Next
    BY <1>4, ChargeStep DEF Promise!Next
<1>5. ASSUME NEW i \in DOMAIN subscriptions, CancelSubscription(i)
      PROVE  ContractInv' /\ Promise!Next
    BY <1>5, CloseStep DEF Promise!Next
<1>6. QED
    BY <1>1, <1>2, <1>3, <1>4, <1>5 DEF ContractNext
-----------------------------------------------------------------------------
(***************************************************************************)
(* Types.                                                                  *)
(***************************************************************************)
LEMMA CallTypes ==
    /\ NoCall \in Call
    /\ \A id \in Nat : \A fn \in {"create", "execute", "cancel"} :
         Ask(fn, id) \in Call
    /\ \A c \in Call : \A s \in {"sent"} \cup Answers :
         [c EXCEPT !.step = s] \in Call
    /\ \A c \in Call : \A t \in Nat :
         [c EXCEPT !.step = "sent", !.start = t] \in Call
<1>1. NoCall \in Call
    BY DEF NoCall, Call, Answers, NoId
<1>2. ASSUME NEW id \in Nat, NEW fn \in {"create", "execute", "cancel"}
      PROVE  Ask(fn, id) \in Call
    BY DEF Ask, NoCall, Call, Answers
<1>3. ASSUME NEW c \in Call, NEW s \in {"sent"} \cup Answers
      PROVE  [c EXCEPT !.step = s] \in Call
    BY DEF Call, Answers
<1>4. ASSUME NEW c \in Call, NEW t \in Nat
      PROVE  [c EXCEPT !.step = "sent", !.start = t] \in Call
    BY DEF Call, Answers
<1>5. QED
    BY <1>1, <1>2, <1>3, <1>4

LEMMA NoRowType == NoRow \in Row
BY DEF NoRow, Row, NoTime, NoId

LEMMA RowTypes ==
    ASSUME NEW r \in Row, NEW t \in Nat, NEW u \in Nat
    PROVE  /\ [NoRow EXCEPT !.status = "PENDING_PAYMENT", !.next = t,
                            !.oid = u] \in Row
           /\ [r EXCEPT !.status = "ACTIVE", !.total = u, !.next = t,
                        !.first = NoTime] \in Row
           /\ \A s \in {"PAST_DUE", "PAUSED"} :
                [r EXCEPT !.status = s, !.first = u, !.next = t] \in Row
           /\ \A s \in {"PAUSED", "CANCELLED"} :
                /\ [r EXCEPT !.status = s] \in Row
                /\ [r EXCEPT !.status = s, !.first = t] \in Row
<1>2. [NoRow EXCEPT !.status = "PENDING_PAYMENT", !.next = t, !.oid = u] \in Row
    BY DEF NoRow, Row, NoTime, DueStatus
<1>3. [r EXCEPT !.status = "ACTIVE", !.total = u, !.next = t,
                !.first = NoTime] \in Row
    BY DEF Row, NoTime, DueStatus
<1>4. ASSUME NEW s \in {"PAST_DUE", "PAUSED"}
      PROVE  [r EXCEPT !.status = s, !.first = u, !.next = t] \in Row
    BY DEF Row, DueStatus
<1>5. ASSUME NEW s \in {"PAUSED", "CANCELLED"}
      PROVE  /\ [r EXCEPT !.status = s] \in Row
             /\ [r EXCEPT !.status = s, !.first = t] \in Row
    BY DEF Row, DueStatus
<1>6. QED
    BY <1>2, <1>3, <1>4, <1>5

\* What a session writes is made of a row it loaded, one it wants and one
\* that is stored.
LEMMA MergeType ==
    ASSUME NEW a \in Row, NEW b \in Row, NEW c \in Row
    PROVE  Merge(a, b, c) \in Row
BY DEF Merge, Row

LEMMA NextNonceType ==
    ASSUME mandate \in [Requests -> Mandate]
    PROVE  NextNonce \in Nat
<1> DEFINE nonces == {mandate[q].nonce : q \in Visible}
           S == nonces \cup {-1}
<1>1. IsFiniteSet(Visible)
    BY Web3Assumption, FS_Subset DEF Visible
<1>2. nonces \in SUBSET Nat
    BY DEF Visible, Mandate
<1>3. IsFiniteSet(nonces)
    <2> DEFINE f == [q \in Visible |-> mandate[q].nonce]
    <2>1. f \in Surjection(Visible, nonces)
        BY DEF Surjection
    <2>2. QED
        BY <1>1, <2>1, FS_Surjection
<1>4. IsFiniteSet(S) /\ S \in SUBSET Int /\ -1 \in S
    BY <1>2, <1>3, FS_AddElement
<1> HIDE DEF S
<1>5. Max(S) \in Int /\ Max(S) >= -1
    BY <1>4, MaxOfFinite
<1>6. QED
    BY <1>5 DEF NextNonce, S

\* What the servers hold, the contract aside.
ServerTypeOK ==
    /\ row \in [Requests -> Row]
    /\ mandate \in [Requests -> Mandate]
    /\ receipts \in [Requests -> Nat]
    /\ creator \in [Requests -> Creator]
    /\ cancel \in [Cancels -> Cancel]
    /\ worker \in [Workers -> Worker]
    /\ call \in [Processes -> Call]
    /\ late \in Seq(Call) /\ Len(late) <= MaxLate
    /\ crashes \in 0..MaxCrashes

\* A transaction that is included does one thing to the contract.
LEMMA IncludeStep ==
    ASSUME NEW c \in Call, Include(c)
    PROVE  ContractNext \/ UNCHANGED contract
<1>1. c.start \in Nat
    BY DEF Call
<1>2. QED
    BY <1>1 DEF Include, ContractNext, ExecutePayment, CanExecute,
                CancelSubscription, IsActive

\* A transaction that outlives its caller.
LEMMA LateTypes ==
    ASSUME late \in Seq(Call), Len(late) <= MaxLate, NEW c \in Call
    PROVE  /\ UNCHANGED late => late' \in Seq(Call) /\ Len(late') <= MaxLate
           /\ Len(late) < MaxLate /\ late' = Append(late, c) =>
                late' \in Seq(Call) /\ Len(late') <= MaxLate
           /\ late # <<>> /\ late' = Tail(late) =>
                late' \in Seq(Call) /\ Len(late') <= MaxLate
<1>1. MaxLate \in Nat
    BY Web3Assumption
<1>2. ASSUME Len(late) < MaxLate, late' = Append(late, c)
      PROVE  late' \in Seq(Call) /\ Len(late') <= MaxLate
    BY <1>1, <1>2, AppendProperties
<1>3. ASSUME late # <<>>, late' = Tail(late)
      PROVE  late' \in Seq(Call) /\ Len(late') <= MaxLate
    BY <1>1, <1>3, HeadTailProperties
<1>4. QED
    BY <1>2, <1>3

\* The relayer's commit.
LEMMA CommitCallerTypes ==
    ASSUME ServerTypeOK, NEW p \in Processes, CommitCaller(p)
    PROVE  mandate' \in [Requests -> Mandate] /\ worker' \in [Workers -> Worker]
<1>1. \A q \in Requests : [mandate[q] EXCEPT !.status = "ACTIVE"] \in Mandate
    BY DEF ServerTypeOK, Mandate
<1>2. Unseen \in [Requests -> Row]
    BY NoRowType DEF Unseen
<1>3. \A w \in Workers : [worker[w] EXCEPT !.seen = Unseen] \in Worker
    BY <1>2 DEF ServerTypeOK, Worker
<1>4. QED
    BY <1>1, <1>3 DEF ServerTypeOK, CommitCaller

LEMMA RelayTypes ==
    ASSUME ServerTypeOK, now \in Nat, NEW p \in Processes, Relay(p)
    PROVE  ServerTypeOK'
<1> DEFINE c == call[p]
<1>1. c \in Call /\ call \in [Processes -> Call]
    BY DEF ServerTypeOK
<1>2. CASE Refuse(p)
    <2>1. [c EXCEPT !.step = "refused"] \in Call
        BY <1>1, CallTypes DEF Answers
    <2>2. call' \in [Processes -> Call]
        BY <1>1, <1>2, <2>1 DEF Refuse
    <2>3. QED
        BY <1>2, <2>2 DEF Refuse, ServerTypeOK, tables
<1>3. CASE Send(p)
    <2> DEFINE sent == [c EXCEPT !.step = "sent", !.start = now]
    <2>1. sent \in Call
        BY <1>1, CallTypes
    <2>2. call' = [call EXCEPT ![p] = sent]
        BY <1>1, <1>3 DEF Send
    <2> HIDE DEF sent
    <2>3. call' \in [Processes -> Call]
        BY <1>1, <2>1, <2>2
    <2>4. QED
        BY <1>3, <2>3 DEF Send, ServerTypeOK, tables
<1>4. CASE Mine(p)
    <2> DEFINE step == IF Accepts(c) THEN "confirmed" ELSE "reverted"
    <2>1. call' = [call EXCEPT ![p].step = step]
        BY <1>4 DEF Mine
    <2>2. step \in Answers
        BY DEF Answers
    <2> HIDE DEF step
    <2>3. [c EXCEPT !.step = step] \in Call
        BY <1>1, <2>2, CallTypes
    <2>4. call' \in [Processes -> Call]
        BY <1>1, <2>1, <2>3
    <2>5. mandate' \in [Requests -> Mandate] /\ worker' \in [Workers -> Worker]
        BY <1>4, CommitCallerTypes DEF Mine
    <2>6. QED
        BY <1>4, <2>4, <2>5 DEF Mine, CommitCaller, ServerTypeOK
<1>5. CASE Fail(p)
    <2>1. [c EXCEPT !.step = "failed"] \in Call
        BY <1>1, CallTypes DEF Answers
    <2>2. call' \in [Processes -> Call]
        BY <1>1, <1>5, <2>1 DEF Fail
    <2>3. late' \in Seq(Call) /\ Len(late') <= MaxLate
        BY <1>1, <1>5, LateTypes DEF Fail, ServerTypeOK
    <2>4. mandate' \in [Requests -> Mandate] /\ worker' \in [Workers -> Worker]
        BY <1>5, CommitCallerTypes DEF Fail
    <2>5. QED
        BY <1>5, <2>2, <2>3, <2>4 DEF Fail, CommitCaller, ServerTypeOK
<1>6. QED
    BY <1>2, <1>3, <1>4, <1>5 DEF Relay

LEMMA NoCallType == NoCall \in Call
BY CallTypes

\* The clock is a natural number, and so are the times ahead of it.
LEMMA Times ==
    ASSUME ContractTypeOK
    PROVE  now \in Nat /\ now + Interval \in Nat /\ now + Retry \in Nat
<1>1. now \in Nat
    BY ContractAssumption DEF ContractTypeOK
<1>2. QED
    BY <1>1, ContractAssumption, Web3Assumption

\* Every request and scheduler is a process.
LEMMA SlotTypes ==
    ASSUME ServerTypeOK, NEW p \in Processes, NEW c \in Call
    PROVE  [call EXCEPT ![p] = c] \in [Processes -> Call]
BY DEF ServerTypeOK

LEMMA RequestTypes ==
    ASSUME ServerTypeOK, ContractTypeOK, NEW q \in Requests, RequestStep(q)
    PROVE  ServerTypeOK'
<1>1. /\ q \in Processes /\ now \in Nat /\ NoCall \in Call
      /\ mandate \in [Requests -> Mandate] /\ creator \in [Requests -> Creator]
      /\ row \in [Requests -> Row] /\ call[q] \in Call
    BY Times, NoCallType DEF Processes, ServerTypeOK
<1>2. \A pc \in {"new", "signed", "creating", "first", "done", "lost"} :
        [creator EXCEPT ![q].pc = pc] \in [Requests -> Creator]
    BY <1>1 DEF Creator
<1>3. CASE Sign(q)
    <2>1. [pc |-> "signed", nonce |-> NextNonce] \in Creator
        BY <1>1, NextNonceType DEF Creator
    <2>2. creator' \in [Requests -> Creator]
        BY <1>1, <1>3, <2>1 DEF Sign
    <2>3. QED
        BY <1>3, <2>2 DEF Sign, ServerTypeOK, tables
<1>4. CASE Authorize(q)
    <2>1. [status |-> "flushed", nonce |-> creator[q].nonce] \in Mandate
        BY <1>1 DEF Creator, Mandate
    <2>2. mandate' \in [Requests -> Mandate]
        BY <1>1, <1>4, <2>1 DEF Authorize
    <2>3. Ask("create", NoId) \in Call
        BY CallTypes DEF NoId
    <2>4. call' \in [Processes -> Call]
        BY <1>1, <1>4, <2>3, SlotTypes DEF Authorize, ServerTypeOK
    <2>5. creator' \in [Requests -> Creator]
        BY <1>2, <1>4 DEF Authorize
    <2>6. QED
        BY <1>4, <2>2, <2>4, <2>5 DEF Authorize, ServerTypeOK
<1>5. CASE CreationFailed(q)
    <2>1. Revoke(q) \in [Requests -> Mandate]
        BY <1>1 DEF Revoke, Mandate
    <2>2. call' \in [Processes -> Call]
        BY <1>1, <1>5, SlotTypes DEF CreationFailed
    <2>3. creator' \in [Requests -> Creator]
        BY <1>2, <1>5 DEF CreationFailed
    <2>4. QED
        BY <1>5, <2>1, <2>2, <2>3 DEF CreationFailed, ServerTypeOK
<1>6. CASE RecordSubscription(q)
    <2>1. PICK oid \in {subscriptionCount, NoId} :
            /\ row' = [row EXCEPT ![q] =
                 [NoRow EXCEPT !.status = "PENDING_PAYMENT",
                               !.next = call[q].start, !.oid = oid]]
            /\ IF oid = NoId
               THEN /\ creator' = [creator EXCEPT ![q].pc = "done"]
                    /\ call' = [call EXCEPT ![q] = NoCall]
               ELSE /\ creator' = [creator EXCEPT ![q].pc = "first"]
                    /\ call' = [call EXCEPT ![q] = Ask("execute", oid)]
        BY <1>6 DEF RecordSubscription
    <2>2. oid \in Nat /\ call[q].start \in Nat
        BY <1>1 DEF NoId, subscriptionCount, ContractTypeOK, Call
    <2> DEFINE new == [NoRow EXCEPT !.status = "PENDING_PAYMENT",
                                    !.next = call[q].start, !.oid = oid]
    <2>3. new \in Row
        BY <2>2, NoRowType, RowTypes
    <2> HIDE DEF new
    <2>4. row' \in [Requests -> Row]
        BY <1>1, <2>1, <2>3 DEF new
    <2>5. Ask("execute", oid) \in Call
        BY <2>2, CallTypes
    <2>6. call' \in [Processes -> Call]
        BY <1>1, <2>1, <2>5, SlotTypes
    <2>7. creator' \in [Requests -> Creator]
        BY <1>2, <2>1
    <2>8. QED
        BY <1>6, <2>4, <2>6, <2>7 DEF RecordSubscription, ServerTypeOK
<1>7. CASE FirstPayment(q)
    <2> DEFINE r == row[q]
               paid == [r EXCEPT !.status = "ACTIVE", !.total = 1,
                                 !.next = now + Interval, !.first = NoTime]
               unpaid == [r EXCEPT !.status = "PAST_DUE",
                                   !.next = now + Retry, !.first = now]
    <2>1. /\ now + Interval \in Nat /\ now + Retry \in Nat
          /\ r \in Row
        BY <1>1, Times
    <2>2. paid \in Row
        BY <2>1, RowTypes
    <2>3. unpaid \in Row
        BY <1>1, <2>1 DEF Row, DueStatus
    <2>4. row' = [row EXCEPT ![q] = IF Confirmed(q) THEN paid ELSE unpaid]
        BY <1>7 DEF FirstPayment
    <2> HIDE DEF paid, unpaid
    <2>5. row' \in [Requests -> Row]
        BY <1>1, <2>2, <2>3, <2>4
    <2>6. call' \in [Processes -> Call]
        BY <1>1, <1>7, SlotTypes DEF FirstPayment
    <2>7. creator' \in [Requests -> Creator]
        BY <1>2, <1>7 DEF FirstPayment
    <2>8. QED
        BY <1>7, <2>5, <2>6, <2>7 DEF FirstPayment, ServerTypeOK
<1>8. CASE Relay(q)
    BY <1>1, <1>8, RelayTypes
<1>9. QED
    BY <1>3, <1>4, <1>5, <1>6, <1>7, <1>8 DEF RequestStep

LEMMA CancelTypes ==
    ASSUME ServerTypeOK, ContractTypeOK, NEW c \in Cancels, CancelStep(c)
    PROVE  ServerTypeOK'
<1>1. /\ c \in Processes /\ now \in Nat /\ NoCall \in Call
      /\ mandate \in [Requests -> Mandate] /\ cancel \in [Cancels -> Cancel]
      /\ row \in [Requests -> Row]
    BY Times, NoCallType DEF Processes, ServerTypeOK
<1>2. ASSUME NEW q \in Requests, CancelRequest(c, q) PROVE ServerTypeOK'
    <2>1. [pc |-> "cancelling", target |-> q] \in Cancel
        BY DEF Cancel
    <2>2. cancel' \in [Cancels -> Cancel]
        BY <1>1, <1>2, <2>1 DEF CancelRequest
    <2>3. row[q].oid \in Nat
        BY <1>1 DEF Row
    <2>4. Ask("cancel", row[q].oid) \in Call
        BY <2>3, CallTypes
    <2>5. call' \in [Processes -> Call]
        BY <1>1, <1>2, <2>4, SlotTypes DEF CancelRequest, ServerTypeOK
    <2>6. QED
        BY <1>2, <2>2, <2>5 DEF CancelRequest, ServerTypeOK, tables
<1>3. CASE CancelCommit(c)
    <2> DEFINE q == cancel[c].target
    <2>1. \A x \in Requests : [row[x] EXCEPT !.status = "CANCELLED"] \in Row
        BY <1>1 DEF Row
    <2>2. row' = [row EXCEPT ![q].status = "CANCELLED"]
        BY <1>3 DEF CancelCommit
    <2>3. row' \in [Requests -> Row]
        BY <1>1, <2>1, <2>2
    <2>4. Revoke(q) \in [Requests -> Mandate]
        BY <1>1 DEF Revoke, Mandate
    <2>5. mandate' \in [Requests -> Mandate]
        BY <1>1, <1>3, <2>4 DEF CancelCommit
    <2>6. cancel' \in [Cancels -> Cancel]
        BY <1>1, <1>3 DEF CancelCommit, Cancel
    <2>7. call' \in [Processes -> Call]
        BY <1>1, <1>3, SlotTypes DEF CancelCommit
    <2>8. QED
        BY <1>3, <2>3, <2>5, <2>6, <2>7 DEF CancelCommit, ServerTypeOK
<1>4. CASE Relay(c)
    BY <1>1, <1>4, RelayTypes
<1>5. QED
    BY <1>2, <1>3, <1>4 DEF CancelStep

\* What a scheduler writes to a row.
LEMMA OutcomeTypes ==
    ASSUME ContractTypeOK, NEW r \in Row
    PROVE  Paid(r) \in Row /\ Unpaid(r) \in Row
<1>1. /\ now \in Nat /\ now + Interval \in Nat /\ now + Retry \in Nat
      /\ r.total + 1 \in Nat
    BY Times DEF Row
<1>2. Paid(r) \in Row
    <2> DEFINE total == r.total + 1
               next == now + Interval
               paid == [r EXCEPT !.status = "ACTIVE", !.total = total,
                                 !.next = next, !.first = NoTime]
    <2>1. Paid(r) = paid
        BY DEF Paid
    <2>2. total \in Nat /\ next \in Nat
        BY <1>1
    <2> HIDE DEF total, next
    <2>3. paid \in Row
        BY <2>2, RowTypes
    <2>4. QED
        BY <2>1, <2>3
<1>3. Unpaid(r) \in Row
    <2> DEFINE first == IF r.first = NoTime THEN now ELSE r.first
               retry == now + Retry
    <2>1. first \in Nat /\ retry \in Nat
        BY <1>1 DEF Row
    <2>2. Unpaid(r) = IF now - first >= Grace
                      THEN [r EXCEPT !.status = "PAUSED", !.first = first]
                      ELSE [r EXCEPT !.status = "PAST_DUE", !.first = first,
                                     !.next = retry]
        BY DEF Unpaid
    <2> HIDE DEF first, retry
    <2>3. [r EXCEPT !.status = "PAUSED", !.first = first] \in Row
        BY <2>1, RowTypes
    <2>4. [r EXCEPT !.status = "PAST_DUE", !.first = first, !.next = retry]
            \in Row
        BY <2>1, RowTypes
    <2>5. QED
        BY <2>2, <2>3, <2>4
<1>4. QED
    BY <1>2, <1>3

\* A cycle loads a batch of rows that are due, as they are.
LEMMA CycleIs ==
    ASSUME NEW w \in Workers, Cycle(w)
    PROVE  \E due, seen :
             /\ due \in SUBSET Requests
             /\ \A q \in due : Due(row[q])
             /\ seen = [q \in Requests |-> IF q \in due THEN row[q] ELSE NoRow]
             /\ worker[w] = IdleWorker
             /\ worker' = [worker EXCEPT ![w] =
                              [IdleWorker EXCEPT !.todo = due, !.seen = seen]]
             /\ UNCHANGED <<contract, tables, creator, cancel, call, late, crashes>>
<1> DEFINE all == {q \in Requests : Due(row[q])}
           rows(batch) == [q \in Requests |-> IF q \in batch THEN row[q] ELSE NoRow]
<1>1. PICK batch \in Batches(all) :
        /\ worker[w] = IdleWorker
        /\ worker' = [worker EXCEPT ![w] =
                         [IdleWorker EXCEPT !.todo = batch, !.seen = rows(batch)]]
        /\ UNCHANGED <<contract, tables, creator, cancel, call, late, crashes>>
    BY DEF Cycle
<1>2. batch \in SUBSET Requests /\ \A q \in batch : Due(row[q])
    BY DEF Batches
<1>3. QED
    BY <1>1, <1>2

\* The types hold after a step of a scheduler.
LEMMA WorkerTypes ==
    ASSUME ServerTypeOK, ContractTypeOK, NEW w \in Workers, WorkerStep(w)
    PROVE  ServerTypeOK'
<1>1. /\ w \in Processes /\ now \in Nat /\ NoCall \in Call
      /\ row \in [Requests -> Row] /\ worker \in [Workers -> Worker]
    BY Times, NoCallType DEF Processes, ServerTypeOK
<1>2. /\ worker[w].todo \in SUBSET Requests
      /\ worker[w].cur \in Requests \cup {"none"}
      /\ worker[w].seen \in [Requests -> Row]
    BY <1>1 DEF Worker
<1>3. Unseen \in [Requests -> Row]
    BY NoRowType DEF Unseen
<1>4. ASSUME NEW todo \in SUBSET Requests, NEW cur \in Requests \cup {"none"},
             NEW seen \in [Requests -> Row]
      PROVE  [todo |-> todo, cur |-> cur, seen |-> seen] \in Worker
    BY DEF Worker
<1>5. IdleWorker \in Worker
    BY <1>3 DEF IdleWorker, Worker
<1>6. CASE Cycle(w)
    <2>1. PICK due, seen :
             /\ due \in SUBSET Requests
             /\ \A q \in due : Due(row[q])
             /\ seen = [q \in Requests |-> IF q \in due THEN row[q] ELSE NoRow]
             /\ worker[w] = IdleWorker
             /\ worker' = [worker EXCEPT ![w] =
                              [IdleWorker EXCEPT !.todo = due, !.seen = seen]]
             /\ UNCHANGED <<contract, tables, creator, cancel, call, late, crashes>>
        BY <1>6, CycleIs
    <2> DEFINE new == [IdleWorker EXCEPT !.todo = due, !.seen = seen]
    <2>2. seen \in [Requests -> Row]
        BY <1>1, <2>1, NoRowType
    <2>3. new \in Worker
        BY <1>5, <2>1, <2>2 DEF Worker
    <2>4. worker' = [worker EXCEPT ![w] = new]
        BY <2>1
    <2> HIDE DEF new
    <2>5. worker' \in [Workers -> Worker]
        BY <1>1, <2>3, <2>4
    <2>6. QED
        BY <2>1, <2>5 DEF ServerTypeOK, tables
<1>7. CASE Reload(w)
    <2> DEFINE q == worker[w].cur
    <2>1. q \in Requests \/ q = "none"
        BY <1>2
    <2>2. q \in Requests
        BY <1>7, <2>1 DEF Reload
    <2>3. worker' = [worker EXCEPT ![w].seen[q] = row[q]]
        BY <1>7 DEF Reload
    <2> HIDE DEF q
    <2>4. [worker[w].seen EXCEPT ![q] = row[q]] \in [Requests -> Row]
        BY <1>1, <1>2, <2>2
    <2>5. worker[w] \in Worker
        BY <1>1
    <2> DEFINE read == [worker[w].seen EXCEPT ![q] = row[q]]
               fresh == [worker[w] EXCEPT !.seen = read]
    <2>6. fresh \in Worker
        <3>1. read \in [Requests -> Row]
            BY <2>4
        <3> HIDE DEF read
        <3>2. QED
            BY <2>5, <3>1 DEF Worker
    <2>7. worker' = [worker EXCEPT ![w] = fresh]
        BY <2>3
    <2> HIDE DEF fresh
    <2>8. worker' \in [Workers -> Worker]
        BY <1>1, <2>6, <2>7
    <2>9. QED
        BY <1>7, <2>8 DEF Reload, ServerTypeOK, tables
<1>8. ASSUME NEW q \in Requests, Begin(w, q) PROVE ServerTypeOK'
    <2> DEFINE rest == [worker[w] EXCEPT !.todo = @ \ {q}]
               r == Loaded(w, q)
               next == [rest EXCEPT !.cur = q, !.seen[q] = r]
    <2>1. r \in Row
        BY <1>1, <1>2 DEF Loaded
    <2>2. r.oid \in Nat
        BY <2>1 DEF Row
    <2>3. rest \in Worker
        BY <1>1 DEF Worker
    <2>4. \/ worker' = [worker EXCEPT ![w] = IdleWorker]
          \/ worker' = [worker EXCEPT ![w] = rest]
          \/ worker' = [worker EXCEPT ![w] = next]
        BY <1>8 DEF Begin
    <2>5. UNCHANGED call \/ call' = [call EXCEPT ![w] = Ask("execute", r.oid)]
        BY <1>8 DEF Begin
    <2>6. UNCHANGED <<row, mandate, receipts, creator, cancel, late, crashes>>
        BY <1>8 DEF Begin, tables
    <2> HIDE DEF r, rest
    <2>7. next \in Worker
        <3>1. [rest.seen EXCEPT ![q] = r] \in [Requests -> Row]
            BY <2>1, <2>3 DEF Worker
        <3>2. QED
            BY <2>3, <3>1 DEF Worker
    <2> HIDE DEF next
    <2>8. worker' \in [Workers -> Worker]
        BY <1>1, <1>5, <2>3, <2>4, <2>7
    <2>9. call' \in [Processes -> Call]
        BY <1>1, <2>2, <2>5, CallTypes, SlotTypes DEF ServerTypeOK
    <2>10. QED
        BY <2>6, <2>8, <2>9 DEF ServerTypeOK
<1>9. CASE Commit(w)
    <2> DEFINE q == worker[w].cur
               seen == worker[w].seen[q]
               wanted == IF Confirmed(w) THEN Paid(seen) ELSE Unpaid(seen)
               merged == Merge(seen, wanted, row[q])
    <2>1. q \in Requests \/ q = "none"
        BY <1>2
    <2>2. q \in Requests
        BY <1>9, <2>1 DEF Commit
    <2>3. /\ row' = [row EXCEPT ![q] = merged]
          /\ receipts' = [receipts EXCEPT ![q] =
                            IF Confirmed(w) THEN @ + 1 ELSE @]
          /\ worker' = [worker EXCEPT ![w].cur = "none", ![w].seen = Unseen]
          /\ call' = [call EXCEPT ![w] = NoCall]
        BY <1>9 DEF Commit
    <2>4. seen \in Row /\ row[q] \in Row
        BY <1>1, <1>2, <2>2
    <2>5. wanted \in Row
        BY <2>4, OutcomeTypes
    <2>6. merged \in Row
        BY <2>4, <2>5, MergeType
    <2> HIDE DEF merged, q
    <2>7. row' \in [Requests -> Row]
        BY <1>1, <2>3, <2>6
    <2>8. receipts' \in [Requests -> Nat]
        <3> DEFINE n == IF Confirmed(w) THEN receipts[q] + 1 ELSE receipts[q]
        <3>1. receipts \in [Requests -> Nat] /\ n \in Nat
            BY <2>2 DEF ServerTypeOK, q
        <3>2. receipts' = [receipts EXCEPT ![q] = n]
            BY <2>3
        <3> HIDE DEF n
        <3>3. QED
            BY <3>1, <3>2
    <2>9. worker' \in [Workers -> Worker]
        BY <1>1, <1>3, <2>3, ZenonT(30) DEF Worker
    <2>10. call' \in [Processes -> Call]
        BY <1>1, <2>3, SlotTypes
    <2>11. QED
        BY <1>9, <2>7, <2>8, <2>9, <2>10 DEF Commit, ServerTypeOK
<1>10. CASE Relay(w)
    BY <1>1, <1>10, RelayTypes
<1>11. QED
    BY <1>6, <1>7, <1>8, <1>9, <1>10 DEF WorkerStep

LEMMA CrashTypes ==
    ASSUME ServerTypeOK, NEW p \in Processes, Crash(p)
    PROVE  ServerTypeOK'
<1>1. \A q \in Requests : [mandate[q] EXCEPT !.status = "absent"] \in Mandate
    BY DEF ServerTypeOK, Mandate
<1>2. mandate' \in [Requests -> Mandate]
    BY <1>1 DEF Crash, ServerTypeOK
<1>3. \A q \in Requests : [creator[q] EXCEPT !.pc = "lost"] \in Creator
    BY DEF ServerTypeOK, Creator
<1>4. creator' \in [Requests -> Creator]
    BY <1>3 DEF Crash, ServerTypeOK
<1>5. \A c \in Cancels : [cancel[c] EXCEPT !.pc = "lost"] \in Cancel
    BY DEF ServerTypeOK, Cancel
<1>6. cancel' \in [Cancels -> Cancel]
    BY <1>5 DEF Crash, ServerTypeOK
<1>7. IdleWorker \in Worker
    <2>1. Unseen \in [Requests -> Row]
        BY NoRowType DEF Unseen
    <2>2. QED
        BY <2>1 DEF IdleWorker, Worker
<1>8. worker' \in [Workers -> Worker]
    BY <1>7 DEF Crash, ServerTypeOK
<1>9. call[p] \in Call
    BY DEF ServerTypeOK
<1>10. late' \in Seq(Call) /\ Len(late') <= MaxLate
    BY <1>9, LateTypes DEF Crash, ServerTypeOK
<1>11. call' \in [Processes -> Call]
    BY NoCallType, SlotTypes DEF Crash
<1>12. crashes' \in 0..MaxCrashes
    BY Web3Assumption DEF Crash, ServerTypeOK
<1>13. QED
    BY <1>2, <1>4, <1>6, <1>8, <1>10, <1>11, <1>12 DEF Crash, ServerTypeOK

\* The invariant: the types, and the schedule of the contract.
IInv == TypeOK /\ OnSchedule

LEMMA Parts == IInv <=> ContractInv /\ ServerTypeOK
BY DEF IInv, TypeOK, ContractInv, ServerTypeOK

LEMMA Initially == Init => IInv /\ Promise!Init
<1> SUFFICES ASSUME Init PROVE IInv /\ Promise!Init
    OBVIOUS
<1>1. ContractInv
    <2>1. /\ now = 0 /\ paused = FALSE /\ funded = TRUE
          /\ subscriptions = <<>>
        BY DEF Init, ContractInit
    <2>2. subscriptions \in Seq(SubscriptionData) /\ DOMAIN subscriptions = {}
        BY <2>1
    <2>3. now \in 0..MaxTime
        BY <2>1, ContractAssumption
    <2>4. OnSchedule
        BY <2>2 DEF OnSchedule
    <2>5. QED
        BY <2>1, <2>2, <2>3, <2>4 DEF ContractInv, ContractTypeOK
<1>2. Promise!Init
    <2>1. subscriptions = <<>> /\ now = 0
        BY DEF Init, ContractInit
    <2> DEFINE f == [i \in DOMAIN subscriptions |->
                       [open |-> subscriptions[i].active,
                        since |-> subscriptions[i].since,
                        charges |-> subscriptions[i].paymentCount]]
    <2>2. DOMAIN f = {}
        BY <2>1
    <2>3. f \in [1..0 -> {0}]
        BY <2>2
    <2>4. f \in Seq({0}) /\ Len(f) = 0
        <3> HIDE DEF f
        <3>1. QED
            BY <2>2, <2>3
    <2>5. f = <<>>
        <3> HIDE DEF f
        <3>1. QED
            BY <2>4, EmptySeq
    <2>6. QED
        BY <2>1, <2>5 DEF Promise!Init
<1>3. IdleWorker \in Worker
    <2>1. Unseen \in [Requests -> Row]
        BY NoRowType DEF Unseen
    <2>2. QED
        BY <2>1 DEF IdleWorker, Worker
<1>4. /\ mandate \in [Requests -> Mandate]
      /\ creator \in [Requests -> Creator]
      /\ cancel \in [Cancels -> Cancel]
    BY DEF Init, Mandate, Creator, Cancel
<1>5. late \in Seq(Call) /\ Len(late) <= MaxLate /\ crashes \in 0..MaxCrashes
    BY Web3Assumption DEF Init
<1>6. ServerTypeOK
    BY <1>3, <1>4, <1>5, NoRowType, NoCallType DEF Init, ServerTypeOK
<1>7. QED
    BY <1>1, <1>2, <1>6, Parts

\* What a process does to the contract, it does by a transaction.
LEMMA RelayContract ==
    ASSUME ServerTypeOK, NEW p \in Processes, Relay(p)
    PROVE  ContractNext \/ UNCHANGED contract
<1>1. call[p] \in Call
    BY DEF ServerTypeOK
<1>2. CASE Refuse(p) \/ Send(p) \/ Fail(p)
    BY <1>2 DEF Refuse, Send, Fail
<1>3. CASE Mine(p)
    BY <1>1, <1>3, IncludeStep DEF Mine
<1>4. QED
    BY <1>2, <1>3 DEF Relay

\* A step of the system, for the servers and for the contract.
LEMMA Step ==
    ASSUME IInv, Next
    PROVE  ServerTypeOK' /\ (ContractNext \/ UNCHANGED contract)
<1>1. ServerTypeOK /\ ContractTypeOK
    BY Parts DEF ContractInv
<1>2. /\ Workers \subseteq Processes /\ Requests \subseteq Processes
      /\ Cancels \subseteq Processes
    BY DEF Processes
<1>3. ASSUME NEW w \in Workers, WorkerStep(w)
      PROVE  ServerTypeOK' /\ (ContractNext \/ UNCHANGED contract)
    <2>1. Relay(w) \/ UNCHANGED contract
        BY <1>3, CycleIs DEF WorkerStep, Reload, Commit, Begin
    <2>2. QED
        BY <1>1, <1>2, <1>3, <2>1, WorkerTypes, RelayContract
<1>4. ASSUME NEW q \in Requests, RequestStep(q)
      PROVE  ServerTypeOK' /\ (ContractNext \/ UNCHANGED contract)
    <2>1. Relay(q) \/ UNCHANGED contract
        BY <1>4 DEF RequestStep, Sign, Authorize, CreationFailed,
                    RecordSubscription, FirstPayment
    <2>2. QED
        BY <1>1, <1>2, <1>4, <2>1, RequestTypes, RelayContract
<1>5. ASSUME NEW c \in Cancels, CancelStep(c)
      PROVE  ServerTypeOK' /\ (ContractNext \/ UNCHANGED contract)
    <2>1. Relay(c) \/ UNCHANGED contract
        BY <1>5 DEF CancelStep, CancelCommit, CancelRequest
    <2>2. QED
        BY <1>1, <1>2, <1>5, <2>1, CancelTypes, RelayContract
<1>6. ASSUME NEW p \in Processes, Crash(p)
      PROVE  ServerTypeOK' /\ UNCHANGED contract
    BY <1>1, <1>6, CrashTypes DEF Crash
<1>7. CASE MineLate
    <2>1. late \in Seq(Call) /\ Len(late) <= MaxLate /\ late # <<>>
        BY <1>1, <1>7 DEF ServerTypeOK, MineLate
    <2>2. Head(late) \in Call
        BY <2>1, HeadTailProperties
    <2>3. late' \in Seq(Call) /\ Len(late') <= MaxLate
        BY <1>7, <2>1, <2>2, LateTypes DEF MineLate
    <2>4. ServerTypeOK'
        BY <1>1, <1>7, <2>3 DEF MineLate, ServerTypeOK, tables
    <2>5. ContractNext \/ UNCHANGED contract
        BY <1>7, <2>2, IncludeStep DEF MineLate
    <2>6. QED
        BY <2>4, <2>5
<1>8. CASE Outside
    <2>1. ServerTypeOK'
        BY <1>1, <1>8 DEF Outside, ServerTypeOK, tables
    <2>2. ContractNext
        BY <1>8 DEF Outside, ContractNext
    <2>3. QED
        BY <2>1, <2>2
<1>9. QED
    BY <1>3, <1>4, <1>5, <1>6, <1>7, <1>8 DEF Next

LEMMA InvariantStep ==
    IInv /\ [Next]_vars => IInv' /\ [Promise!Next]_(Promise!vars)
<1> SUFFICES ASSUME IInv, [Next]_vars
             PROVE  IInv' /\ [Promise!Next]_(Promise!vars)
    OBVIOUS
<1>1. ContractInv /\ ServerTypeOK
    BY Parts
<1>2. ServerTypeOK' /\ (ContractNext \/ UNCHANGED contract)
    <2>1. CASE Next
        BY <2>1, Step
    <2>2. CASE UNCHANGED vars
        BY <1>1, <2>2 DEF vars, contract, ServerTypeOK
    <2>3. QED
        BY <2>1, <2>2
<1>3. ContractInv' /\ (Promise!Next \/ UNCHANGED Promise!vars)
    BY <1>1, <1>2, ContractStep
<1>4. IInv'
    BY <1>2, <1>3 DEF IInv, TypeOK, ContractInv, ServerTypeOK
<1>5. QED
    BY <1>3, <1>4
-----------------------------------------------------------------------------
\* Whatever requests, cancellations and schedulers there are, the servers'
\* tables and slots and the contract's agreements keep their types, and no
\* agreement falls due before its intervals have passed.
THEOREM Invariant == Spec => []IInv
<1>1. Init => IInv
    BY Initially
<1>2. IInv /\ [Next]_vars => IInv'
    BY InvariantStep
<1>3. QED
    BY <1>1, <1>2, PTL DEF Spec

\* Type correctness.
THEOREM TypeCorrect == Spec => []TypeOK
<1>1. IInv => TypeOK
    BY DEF IInv
<1>2. QED
    BY <1>1, Invariant, PTL

\* Refinement: however many schedulers charge the same row, and whether their
\* transactions are answered, lost or late, an agreement is charged at most
\* once per interval since its start and never after it was closed on chain.
THEOREM PromiseIsKept == Spec => KeepsPromise
<1>1. Init => Promise!Init
    BY Initially
<1>2. IInv /\ [Next]_vars => [Promise!Next]_(Promise!vars)
    BY InvariantStep
<1>3. QED
    BY <1>1, <1>2, Invariant, PTL DEF Spec, KeepsPromise, Promise!Spec
-----------------------------------------------------------------------------
(***************************************************************************)
(* The books.  A payment that was charged is counted at most once: it is   *)
(* recorded in a total or a receipt, or a process was told of it and has   *)
(* not recorded it yet (a claim).  The first payment has no receipt, so a  *)
(* ghost function says which rows counted theirs.                          *)
(***************************************************************************)

\* Requests whose row holds an id, and processes that were told of a payment
\* and did not record it yet.
RowsOf(i) == {q \in Requests : row[q].oid = i}
Claims(i) == {p \in Processes :
                 call[p].step = "confirmed" /\ call[p].fn = "execute" /\ call[p].id = i}

\* What a process asked the relayer for is what it is at.
RequestSlots ==
    \A q \in Requests :
      /\ creator[q].pc \notin {"creating", "first"} => call[q] = NoCall
      /\ creator[q].pc = "creating" => call[q].fn = "create"
      /\ creator[q].pc = "first" =>
           call[q].fn = "execute" /\ call[q].id = row[q].oid /\ row[q].oid # NoId
      /\ creator[q].pc \in {"new", "signed", "creating"} => row[q].status = "absent"
      /\ row[q].status = "absent" => row[q] = NoRow
      /\ row[q].oid <= Len(subscriptions)

CancelSlots ==
    \A c \in Cancels :
      /\ call[c] = NoCall \/ call[c].fn = "cancel"
      /\ cancel[c].pc = "cancelling" =>
           cancel[c].target \in Requests /\ row[cancel[c].target].status # "absent"

WorkerSlots ==
    \A w \in Workers :
      /\ worker[w].cur = "none" => call[w] = NoCall
      /\ \A q \in Requests :
           /\ worker[w].cur = q =>
                call[w].fn = "execute" /\ call[w].id = row[q].oid /\ row[q].oid # NoId
           /\ q \in worker[w].todo => row[q].status # "absent"
           /\ worker[w].seen[q] # NoRow =>
                row[q].status # "absent" /\ worker[w].seen[q].oid = row[q].oid

MandatesHeld ==
    \A q \in Requests : mandate[q].status = "flushed" =>
        creator[q].pc = "creating" /\ call[q].step # "confirmed"

\* A failure is no older than the agreement.
Dated(r) == r.first # NoTime => r.oid # NoId /\ r.first >= subscriptions[r.oid].since

Timely ==
    /\ \A i \in DOMAIN subscriptions : subscriptions[i].since <= now
    /\ \A p \in Processes : call[p].start <= now
    /\ \A k \in DOMAIN late : late[k].start <= now
    /\ \A q \in Requests : Dated(row[q])
    /\ \A w \in Workers, q \in Requests : Dated(worker[w].seen[q])

\* The first payment is recorded in no table: f says of which rows it was.
\* A row counts no payment beyond those recorded and its first one ...
Counted(f) ==
    \A q \in Requests :
      /\ row[q].status = "absent" => receipts[q] = 0 /\ f[q] = 0
      /\ creator[q].pc = "first" => f[q] = 0
      /\ row[q].total <= receipts[q] + f[q]
      /\ row[q].status = "ACTIVE" =>
           row[q].oid # NoId /\ subscriptions[row[q].oid].paymentCount > 0
      /\ \A w \in Workers : worker[w].seen[q].total <= receipts[q] + f[q]

\* ... and those, with the ones still to be recorded, were executed.
SumOver(h, S) == MapThenSumSet(LAMBDA q : h[q], S)
Booked(f) == [q \in Requests |-> receipts[q] + f[q]]
Backed(f) ==
    \A i \in DOMAIN subscriptions :
      /\ IsFiniteSet(Claims(i))
      /\ SumOver(Booked(f), RowsOf(i)) + Cardinality(Claims(i)) <= subscriptions[i].paymentCount

Firsts == [Requests -> {0, 1}]
Slots == RequestSlots /\ CancelSlots /\ WorkerSlots /\ MandatesHeld
BooksInv ==
    /\ IInv /\ Slots /\ MandateHasOwner /\ Timely
    /\ \E f \in Firsts : Counted(f) /\ Backed(f)

\* A sum over rows is one of the sums over all of them.
LEMMA SumIs ==
    ASSUME NEW U, IsFiniteSet(U), NEW S \in SUBSET U, NEW h, \A x \in U : h[x] \in Nat
    PROVE  \E F : SumsOf(U, h, F) /\ SumOver(h, S) = F[S]
<1> DEFINE Adds(iter) == iter = [T \in SUBSET S |->
               IF T = {} THEN 0 ELSE h[Pick(T)] + iter[T \ {Pick(T)}]]
           G == CHOOSE iter : Adds(iter)
<1>1. IsFiniteSet(S)
    BY FS_Subset
<1>2. SumOver(h, S) = G[S]
    BY DEF SumOver, MapThenSumSet, MapThenFoldSet, Pick
<1>3. \A iter : Adds(iter) <=> AddsUp(h, iter, SUBSET S)
    BY DEF AddsUp
<1>4. \A x \in S : h[x] \in Nat
    OBVIOUS
<1>5. PICK iter : SumsOf(S, h, iter)
    BY <1>1, <1>4, AddsUpExists
<1>6. Adds(iter)
    BY <1>3, <1>5 DEF SumsOf
<1>7. Adds(G)
    <2> HIDE DEF Adds
    <2>1. QED
        BY <1>6
<1>8. SumsOf(S, h, G)
    <2>1. AddsUp(h, G, SUBSET S)
        <3> HIDE DEF G
        <3>1. QED
            BY <1>3, <1>7
    <2> HIDE DEF G
    <2>2. QED
        BY <1>1, <1>4, <2>1 DEF SumsOf
<1> HIDE DEF G
<1>9. PICK F : SumsOf(U, h, F)
    BY AddsUpExists
<1>10. F[S] = G[S]
    BY <1>8, <1>9, AddsUpAgree
<1>11. QED
    BY <1>2, <1>9, <1>10

\* Sums of numbers that agree on a set are equal, and are numbers.
LEMMA SumsAgree ==
    ASSUME NEW S, IsFiniteSet(S), NEW h, NEW g, \A x \in S : h[x] \in Nat /\ g[x] = h[x]
    PROVE  SumOver(g, S) = SumOver(h, S) /\ SumOver(h, S) \in Nat
<1>1. PICK F : SumsOf(S, h, F) /\ SumOver(h, S) = F[S]
    BY SumIs
<1>2. PICK G : SumsOf(S, g, G) /\ SumOver(g, S) = G[S]
    BY SumIs
<1>3. F[S] = G[S]
    BY <1>1, <1>2, AddsUpAgree
<1>4. F[S] \in Nat
    BY <1>1, AddsUpElement
<1>5. QED
    BY <1>1, <1>2, <1>3, <1>4

\* One element more, that counts for n.
LEMMA SumAdds ==
    ASSUME NEW S, IsFiniteSet(S), NEW h, \A x \in S : h[x] \in Nat, NEW q \in S
    PROVE  SumOver(h, S) = SumOver(h, S \ {q}) + h[q] /\ SumOver(h, S \ {q}) \in Nat
<1>1. PICK F : SumsOf(S, h, F) /\ SumOver(h, S) = F[S]
    BY SumIs
<1>2. S \ {q} \in SUBSET S /\ IsFiniteSet(S \ {q})
    BY FS_Subset
<1>3. PICK G : SumsOf(S \ {q}, h, G) /\ SumOver(h, S \ {q}) = G[S \ {q}]
    BY <1>2, SumIs
<1>4. F[S \ {q}] = G[S \ {q}]
    BY <1>1, <1>2, <1>3, AddsUpAgree
<1>5. F[S] = h[q] + F[S \ {q}] /\ F[S \ {q}] \in Nat
    BY <1>1, <1>2, AddsUpElement
<1>6. QED
    BY <1>1, <1>3, <1>4, <1>5

\* Nothing adds up to 0.
LEMMA SumOfNothing == ASSUME NEW h PROVE SumOver(h, {}) = 0
<1>1. PICK F : SumsOf({}, h, F) /\ SumOver(h, {}) = F[{}]
    <2>1. IsFiniteSet({}) /\ {} \in SUBSET {} /\ \A x \in {} : h[x] \in Nat
        BY FS_EmptySet
    <2>2. QED
        BY <2>1, SumIs
<1>2. QED
    BY <1>1, AddsUpElement

\* Smaller numbers have a smaller sum.
LEMMA SumsCompare ==
    ASSUME NEW S, IsFiniteSet(S), NEW h, NEW g,
           \A x \in S : h[x] \in Nat /\ g[x] \in Nat /\ g[x] <= h[x]
    PROVE  SumOver(g, S) <= SumOver(h, S) /\ SumOver(g, S) \in Nat /\ SumOver(h, S) \in Nat
<1>1. PICK F : SumsOf(S, h, F) /\ SumOver(h, S) = F[S]
    BY SumIs
<1>2. PICK G : SumsOf(S, g, G) /\ SumOver(g, S) = G[S]
    BY SumIs
<1> DEFINE Good == {T \in SUBSET S : G[T] <= F[T]}
<1>3. /\ F[{}] = 0 /\ \A T \in SUBSET S : F[T] \in Nat /\ \A x \in T : F[T] = h[x] + F[T \ {x}]
      /\ G[{}] = 0 /\ \A T \in SUBSET S : G[T] \in Nat /\ \A x \in T : G[T] = g[x] + G[T \ {x}]
    <2>1. F[{}] = 0 /\ \A T \in SUBSET S : F[T] \in Nat /\ \A x \in T : F[T] = h[x] + F[T \ {x}]
        BY <1>1, AddsUpElement
    <2>2. G[{}] = 0 /\ \A T \in SUBSET S : G[T] \in Nat /\ \A x \in T : G[T] = g[x] + G[T \ {x}]
        BY <1>2, AddsUpElement
    <2>3. QED
        BY <2>1, <2>2
<1>4. {} \in Good
    BY <1>3
<1>5. ASSUME NEW T \in SUBSET S, T # {}, \A x \in T : T \ {x} \in Good
      PROVE  T \in Good
    <2>1. PICK x \in T : T \ {x} \in Good
        BY <1>5
    <2>2. G[T \ {x}] <= F[T \ {x}] /\ T \ {x} \in SUBSET S
        BY <2>1
    <2>3. /\ F[T] = h[x] + F[T \ {x}] /\ G[T] = g[x] + G[T \ {x}] /\ g[x] <= h[x]
          /\ F[T \ {x}] \in Nat /\ G[T \ {x}] \in Nat /\ h[x] \in Nat /\ g[x] \in Nat
        BY <1>3, <2>2
    <2>4. G[T] <= F[T]
        BY <2>2, <2>3
    <2>5. QED
        BY <2>4
<1> HIDE DEF Good
<1>6. SUBSET S \subseteq Good
    BY <1>4, <1>5, SubsetInduction
<1>7. G[S] <= F[S] /\ F[S] \in Nat /\ G[S] \in Nat
    BY <1>3, <1>6 DEF Good
<1>8. QED
    BY <1>1, <1>2, <1>7

-----------------------------------------------------------------------------
(***************************************************************************)
(* What happens to the contract.                                           *)
(***************************************************************************)

\* What the contract keeps whatever is done to it.
Grows ==
    /\ now <= now' /\ Len(subscriptions) <= Len(subscriptions')
    /\ \A i \in DOMAIN subscriptions :
         /\ subscriptions'[i].since = subscriptions[i].since
         /\ subscriptions[i].paymentCount <= subscriptions'[i].paymentCount
    /\ \A i \in DOMAIN subscriptions' \ DOMAIN subscriptions :
         subscriptions'[i].since <= now'

\* The types of the contract, field by field.
LEMMA ContractKnows ==
    ASSUME ContractInv
    PROVE  /\ now \in Nat /\ subscriptions \in Seq(SubscriptionData) /\ Len(subscriptions) \in Nat
           /\ DOMAIN subscriptions = 1..Len(subscriptions)
           /\ \A i \in DOMAIN subscriptions :
                /\ subscriptions[i] \in SubscriptionData /\ i \in Nat /\ i # NoId
                /\ subscriptions[i].since \in Nat /\ subscriptions[i].paymentCount \in Nat
<1>1. now \in Nat /\ subscriptions \in Seq(SubscriptionData)
    BY ContractAssumption DEF ContractInv, ContractTypeOK
<1>2. Len(subscriptions) \in Nat /\ DOMAIN subscriptions = 1..Len(subscriptions)
    BY <1>1
<1>3. ASSUME NEW i \in DOMAIN subscriptions
      PROVE  /\ subscriptions[i] \in SubscriptionData /\ i \in Nat /\ i # NoId
             /\ subscriptions[i].since \in Nat /\ subscriptions[i].paymentCount \in Nat
    <2>1. subscriptions[i] \in SubscriptionData /\ i \in Nat /\ i # NoId
        BY <1>1, <1>2 DEF NoId
    <2>2. QED
        BY <2>1 DEF SubscriptionData
<1>4. QED
    BY <1>1, <1>2, <1>3

\* An agreement that is charged counts one payment more, and one that is
\* closed none.
LEMMA ChargeGrows ==
    ASSUME ContractInv, NEW i \in DOMAIN subscriptions, ExecutePayment(i)
    PROVE  /\ Grows /\ now' = now
           /\ subscriptions'[i].paymentCount = subscriptions[i].paymentCount + 1
<1> DEFINE s == subscriptions[i]
           due == now + Interval
           new == [s EXCEPT !.paymentCount = @ + 1, !.nextPayment = due]
<1>1. /\ s \in SubscriptionData /\ due \in Nat /\ ContractTypeOK
      /\ DOMAIN subscriptions = 1..Len(subscriptions) /\ now \in Nat
      /\ \A j \in DOMAIN subscriptions : subscriptions[j].paymentCount \in Nat
    BY ContractKnows, ContractAssumption DEF ContractInv
<1>2. subscriptions' = [subscriptions EXCEPT ![i] = new] /\ UNCHANGED now
    BY DEF ExecutePayment
<1>3. new \in SubscriptionData
    BY <1>1, AgreementTypes
<1>4. new.since = s.since /\ new.paymentCount = s.paymentCount + 1
    BY <1>1 DEF SubscriptionData
<1> HIDE DEF new
<1>5. /\ subscriptions' \in Seq(SubscriptionData)
      /\ DOMAIN subscriptions' = DOMAIN subscriptions
      /\ \A j \in DOMAIN subscriptions :
           subscriptions'[j] = IF j = i THEN new ELSE subscriptions[j]
    BY <1>1, <1>2, <1>3, OneAgreement
<1>6. Len(subscriptions') = Len(subscriptions)
    BY <1>1, <1>2
<1>7. QED
    BY <1>1, <1>2, <1>4, <1>5, <1>6 DEF Grows

\* A closed agreement keeps its payments.
LEMMA CloseGrows ==
    ASSUME ContractInv, NEW i \in DOMAIN subscriptions, CancelSubscription(i)
    PROVE  Grows /\ now' = now
<1> DEFINE s == subscriptions[i]
           new == [s EXCEPT !.active = FALSE]
<1>1. /\ s \in SubscriptionData /\ ContractTypeOK /\ now \in Nat
      /\ DOMAIN subscriptions = 1..Len(subscriptions)
      /\ \A j \in DOMAIN subscriptions : subscriptions[j].paymentCount \in Nat
    BY ContractKnows DEF ContractInv
<1>2. subscriptions' = [subscriptions EXCEPT ![i] = new] /\ UNCHANGED now
    BY DEF CancelSubscription
<1>3. new \in SubscriptionData
    BY <1>1, AgreementTypes, 0 \in Nat
<1>4. new.since = s.since /\ new.paymentCount = s.paymentCount
    BY <1>1 DEF SubscriptionData
<1> HIDE DEF new
<1>5. /\ DOMAIN subscriptions' = DOMAIN subscriptions
      /\ \A j \in DOMAIN subscriptions :
           subscriptions'[j] = IF j = i THEN new ELSE subscriptions[j]
    BY <1>1, <1>2, <1>3, OneAgreement
<1>6. Len(subscriptions') = Len(subscriptions)
    BY <1>1, <1>2
<1>7. QED
    BY <1>1, <1>2, <1>4, <1>5, <1>6 DEF Grows

\* A new agreement starts no later than now.
LEMMA CreateGrows ==
    ASSUME ContractInv, NEW start \in Nat, start <= now, CreateSubscription(start)
    PROVE  Grows /\ now' = now
<1> DEFINE new == [active |-> TRUE, nextPayment |-> start, paymentCount |-> 0,
                   since |-> start]
<1>1. /\ subscriptions \in Seq(SubscriptionData) /\ now \in Nat
      /\ Len(subscriptions) \in Nat /\ DOMAIN subscriptions = 1..Len(subscriptions)
      /\ \A j \in DOMAIN subscriptions : subscriptions[j].paymentCount \in Nat
    BY ContractKnows
<1>2. new \in SubscriptionData /\ new.since = start
    BY DEF SubscriptionData
<1>3. subscriptions' = Append(subscriptions, new) /\ UNCHANGED now
    BY DEF CreateSubscription
<1> HIDE DEF new
<1>4. /\ subscriptions' \in Seq(SubscriptionData)
      /\ Len(subscriptions') = Len(subscriptions) + 1
      /\ \A i \in 1..Len(subscriptions) : subscriptions'[i] = subscriptions[i]
      /\ subscriptions'[Len(subscriptions) + 1] = new
    BY <1>1, <1>2, <1>3, AppendProperties
<1>5. DOMAIN subscriptions' = 1..(Len(subscriptions) + 1)
    BY <1>4
<1>6. QED
    BY <1>1, <1>2, <1>3, <1>4, <1>5 DEF Grows

\* The contract keeps what it has when nothing happens to it.
LEMMA StaysGrows ==
    ASSUME ContractInv, UNCHANGED subscriptions, now' = now \/ now' = now + 1
    PROVE  Grows
BY ContractKnows DEF Grows

\* A transaction that was sent before now, and is included.
LEMMA IncludeGrows ==
    ASSUME ContractInv, NEW c \in Call, c.start <= now, Include(c)
    PROVE  /\ Grows /\ now' = now
           /\ c.fn = "execute" /\ Accepts(c) =>
                /\ c.id \in DOMAIN subscriptions
                /\ subscriptions'[c.id].paymentCount = subscriptions[c.id].paymentCount + 1
<1>1. c.start \in Nat
    BY DEF Call
<1>2. CASE c.fn = "create" /\ CreateSubscription(c.start)
    BY <1>1, <1>2, CreateGrows
<1>3. CASE c.fn = "execute" /\ ExecutePayment(c.id)
    <2>1. c.id \in DOMAIN subscriptions
        BY <1>3 DEF ExecutePayment, CanExecute, IsActive
    <2>2. QED
        BY <1>3, <2>1, ChargeGrows
<1>4. CASE c.fn = "cancel" /\ CancelSubscription(c.id)
    <2>1. c.id \in DOMAIN subscriptions
        BY <1>4 DEF CancelSubscription, IsActive
    <2>2. QED
        BY <1>4, <2>1, CloseGrows
<1>5. CASE ~Accepts(c) /\ UNCHANGED contract
    <2>1. Grows /\ now' = now
        BY <1>5, StaysGrows DEF contract
    <2>2. QED
        BY <1>5, <2>1
<1>6. QED
    BY <1>2, <1>3, <1>4, <1>5 DEF Include

-----------------------------------------------------------------------------
(***************************************************************************)
(* What the processes hold.                                                *)
(***************************************************************************)

\* The types of what the servers hold, field by field.
LEMMA ServersKnow ==
    ASSUME ServerTypeOK
    PROVE  /\ \A p \in Processes : /\ call[p] \in Call /\ call[p].start \in Nat /\ call[p].id \in Nat
           /\ \A q \in Requests :
                /\ row[q] \in Row /\ row[q].total \in Nat /\ row[q].oid \in Nat
                /\ row[q].first \in Nat \cup {NoTime} /\ receipts[q] \in Nat
           /\ \A w \in Workers :
                /\ worker[w].cur \in Requests \cup {"none"} /\ worker[w].todo \in SUBSET Requests
                /\ worker[w].seen \in [Requests -> Row]
                /\ \A q \in Requests :
                     /\ worker[w].seen[q] \in Row /\ worker[w].seen[q].total \in Nat
                     /\ worker[w].seen[q].oid \in Nat
                     /\ worker[w].seen[q].first \in Nat \cup {NoTime}
<1>1. ASSUME NEW p \in Processes
      PROVE  call[p] \in Call /\ call[p].start \in Nat /\ call[p].id \in Nat
    <2>1. call[p] \in Call
        BY DEF ServerTypeOK
    <2>2. QED
        BY <2>1 DEF Call
<1>2. ASSUME NEW r \in Row
      PROVE  r.total \in Nat /\ r.oid \in Nat /\ r.first \in Nat \cup {NoTime}
    BY DEF Row
<1>3. \A q \in Requests : row[q] \in Row /\ receipts[q] \in Nat
    BY DEF ServerTypeOK
<1>4. ASSUME NEW w \in Workers
      PROVE  /\ worker[w].cur \in Requests \cup {"none"} /\ worker[w].todo \in SUBSET Requests
             /\ worker[w].seen \in [Requests -> Row]
    <2>1. worker[w] \in Worker
        BY DEF ServerTypeOK
    <2>2. QED
        BY <2>1 DEF Worker
<1>5. QED
    BY <1>1, <1>2, <1>3, <1>4

\* The fields of a request for the relayer.
LEMMA AskIs ==
    /\ NoCall.step = "idle" /\ NoCall.fn = "none" /\ NoCall.start = 0
    /\ \A fn, id : /\ Ask(fn, id).step = "asked" /\ Ask(fn, id).fn = fn
                   /\ Ask(fn, id).id = id /\ Ask(fn, id).start = 0
BY DEF Ask, NoCall

\* What changes with the answer to a call.
Answering(p) ==
    /\ call[p].step \in {"asked", "sent"} /\ call'[p].step \in {"sent"} \cup Answers
    /\ call'[p].fn = call[p].fn /\ call'[p].id = call[p].id
    /\ call'[p].start \in {call[p].start, now}
    /\ \A x \in Processes : x # p => call'[x] = call[x]

\* What the relayer's commit changes.
Committing(p) ==
    /\ \A q \in Requests :
         \/ mandate'[q] = mandate[q]
         \/ q = p /\ mandate[q].status = "flushed" /\ mandate'[q].status = "ACTIVE"
    /\ \A w \in Workers :
         /\ worker'[w].cur = worker[w].cur /\ worker'[w].todo = worker[w].todo
         /\ worker'[w].seen \in {worker[w].seen, Unseen}

\* What the relayer's commit does to the tables and to what a scheduler
\* loaded.
LEMMA CommittingIs ==
    ASSUME ServerTypeOK, NEW p \in Processes, CommitCaller(p)
    PROVE  /\ Committing(p) /\ UNCHANGED <<row, receipts, creator, cancel, crashes>>
           /\ p \in Requests => mandate'[p].status # "flushed"
<1>1. \A q \in Requests : [mandate[q] EXCEPT !.status = "ACTIVE"].status = "ACTIVE"
    BY DEF ServerTypeOK, Mandate
<1>2. \A q \in Requests :
        /\ mandate'[q] = IF q = p /\ mandate[q].status = "flushed"
                         THEN [mandate[q] EXCEPT !.status = "ACTIVE"] ELSE mandate[q]
    BY DEF CommitCaller
<1>3. ASSUME NEW w \in Workers
      PROVE  /\ worker'[w].cur = worker[w].cur /\ worker'[w].todo = worker[w].todo
             /\ worker'[w].seen \in {worker[w].seen, Unseen}
    <2>1. worker[w] \in Worker
        BY DEF ServerTypeOK
    <2>2. worker'[w] = IF w = p THEN [worker[w] EXCEPT !.seen = Unseen] ELSE worker[w]
        BY DEF CommitCaller
    <2>3. QED
        BY <2>1, <2>2 DEF Worker
<1>4. QED
    BY <1>1, <1>2, <1>3 DEF CommitCaller, Committing

\* A step of the relayer for a process.
LEMMA RelayIs ==
    ASSUME ServerTypeOK, NEW p \in Processes, Relay(p)
    PROVE  /\ Answering(p) /\ Committing(p)
           /\ UNCHANGED <<row, receipts, creator, cancel>>
           /\ late' \in {late, Append(late, call[p])}
           /\ \/ call'[p].step # "confirmed" /\ UNCHANGED contract
              \/ /\ Include(call[p])
                 /\ call'[p].step = "confirmed" => Accepts(call[p])
                 /\ call'[p].start = call[p].start
           /\ p \in Requests /\ call'[p].step = "confirmed" => mandate'[p].status # "flushed"
<1>1. call \in [Processes -> Call] /\ call[p] \in Call
    BY DEF ServerTypeOK
<1>2. ASSUME NEW s, call' = [call EXCEPT ![p].step = s]
      PROVE  /\ call'[p].step = s /\ call'[p].fn = call[p].fn /\ call'[p].id = call[p].id
             /\ call'[p].start = call[p].start
             /\ \A x \in Processes : x # p => call'[x] = call[x]
    BY <1>1, <1>2 DEF Call
<1>3. UNCHANGED <<mandate, worker>> => Committing(p)
    BY DEF Committing
<1>4. CASE Refuse(p)
    <2>1. /\ call[p].step = "asked" /\ call' = [call EXCEPT ![p].step = "refused"]
          /\ UNCHANGED <<contract, tables, creator, cancel, worker, late, crashes>>
        BY <1>4 DEF Refuse
    <2>2. Answering(p) /\ call'[p].step = "refused"
        BY <1>2, <2>1 DEF Answering, Answers
    <2>3. QED
        BY <1>3, <2>1, <2>2 DEF tables
<1>5. CASE Send(p)
    <2>1. /\ call[p].step = "asked" /\ call' = [call EXCEPT ![p].step = "sent", ![p].start = now]
          /\ UNCHANGED <<contract, tables, creator, cancel, worker, late, crashes>>
        BY <1>5 DEF Send
    <2>2. /\ call'[p].step = "sent" /\ call'[p].fn = call[p].fn /\ call'[p].id = call[p].id
          /\ call'[p].start = now
          /\ \A x \in Processes : x # p => call'[x] = call[x]
        BY <1>1, <2>1 DEF Call
    <2>3. Answering(p)
        BY <2>1, <2>2 DEF Answering
    <2>4. QED
        BY <1>3, <2>1, <2>2, <2>3 DEF tables
<1>6. CASE Mine(p)
    <2>1. PICK s : s = IF Accepts(call[p]) THEN "confirmed" ELSE "reverted"
        OBVIOUS
    <2>2. /\ call[p].step = "sent" /\ call' = [call EXCEPT ![p].step = s]
          /\ Include(call[p]) /\ CommitCaller(p) /\ UNCHANGED late
        BY <1>6, <2>1 DEF Mine
    <2>3. /\ call'[p].step = s /\ call'[p].fn = call[p].fn /\ call'[p].id = call[p].id
          /\ call'[p].start = call[p].start
          /\ \A x \in Processes : x # p => call'[x] = call[x]
        BY <1>2, <2>2
    <2>4. Answering(p)
        BY <2>1, <2>2, <2>3 DEF Answering, Answers
    <2>5. /\ Committing(p) /\ UNCHANGED <<row, receipts, creator, cancel, crashes>>
          /\ p \in Requests => mandate'[p].status # "flushed"
        BY <2>2, CommittingIs
    <2>6. QED
        BY <2>1, <2>2, <2>3, <2>4, <2>5
<1>7. CASE Fail(p)
    <2>1. /\ call[p].step = "sent" /\ call' = [call EXCEPT ![p].step = "failed"]
          /\ CommitCaller(p) /\ UNCHANGED contract
          /\ late' \in {late, Append(late, call[p])}
        BY <1>7 DEF Fail
    <2>2. call'[p].step = "failed" /\ Answering(p)
        BY <1>2, <2>1 DEF Answering, Answers
    <2>3. Committing(p) /\ UNCHANGED <<row, receipts, creator, cancel, crashes>>
        BY <2>1, CommittingIs
    <2>4. QED
        BY <2>1, <2>2, <2>3
<1>8. QED
    BY <1>4, <1>5, <1>6, <1>7 DEF Relay

\* A step of the relayer keeps what the processes know of their rows.
LEMMA RelayKeepsSlots ==
    ASSUME ServerTypeOK, Slots, MandateHasOwner, NEW p \in Processes, Relay(p),
           Len(subscriptions) \in Nat, Len(subscriptions)' \in Nat,
           Len(subscriptions) <= Len(subscriptions')
    PROVE  Slots' /\ MandateHasOwner'
<1>1. /\ Answering(p) /\ Committing(p)
      /\ UNCHANGED <<row, receipts, creator, cancel>>
      /\ p \in Requests /\ call'[p].step = "confirmed" => mandate'[p].status # "flushed"
    BY RelayIs
<1>2. \A q \in Requests : row[q].oid \in Nat
    BY ServersKnow
<1>3. /\ \A x \in Processes : call'[x].fn = call[x].fn /\ call'[x].id = call[x].id
      /\ \A x \in Processes : call[x] = NoCall => call'[x] = NoCall
    BY <1>1, AskIs DEF Answering
<1>4. /\ Requests \subseteq Processes /\ Cancels \subseteq Processes /\ Workers \subseteq Processes
    BY DEF Processes
<1>5. RequestSlots'
    BY <1>1, <1>2, <1>3, <1>4 DEF Slots, RequestSlots
<1>6. CancelSlots'
    BY <1>1, <1>3, <1>4 DEF Slots, CancelSlots
<1>7. WorkerSlots'
    <2>1. \A w \in Workers, q \in Requests :
            /\ worker'[w].cur = worker[w].cur /\ worker'[w].todo = worker[w].todo
            /\ worker'[w].seen[q] \in {worker[w].seen[q], NoRow}
        BY <1>1 DEF Committing, Unseen
    <2>2. ASSUME NEW w \in Workers, worker'[w].cur = "none" PROVE call'[w] = NoCall
        BY <1>3, <1>4, <2>2, <1>1 DEF Slots, WorkerSlots, Committing
    <2>3. ASSUME NEW w \in Workers, NEW q \in Requests
          PROVE  /\ worker'[w].cur = q =>
                      call'[w].fn = "execute" /\ call'[w].id = row[q].oid /\ row[q].oid # NoId
                 /\ q \in worker'[w].todo => row[q].status # "absent"
                 /\ worker'[w].seen[q] # NoRow =>
                      row[q].status # "absent" /\ worker'[w].seen[q].oid = row[q].oid
        <3>1. /\ worker[w].cur = q =>
                   call[w].fn = "execute" /\ call[w].id = row[q].oid /\ row[q].oid # NoId
              /\ q \in worker[w].todo => row[q].status # "absent"
              /\ worker[w].seen[q] # NoRow =>
                   row[q].status # "absent" /\ worker[w].seen[q].oid = row[q].oid
            BY DEF Slots, WorkerSlots
        <3>2. /\ worker'[w].cur = worker[w].cur /\ worker'[w].todo = worker[w].todo
              /\ worker'[w].seen[q] \in {worker[w].seen[q], NoRow}
            BY <2>1
        <3>3. call'[w].fn = call[w].fn /\ call'[w].id = call[w].id
            BY <1>3, <1>4
        <3>4. QED
            BY <3>1, <3>2, <3>3
    <2>4. row' = row
        BY <1>1
    <2>5. QED
        BY <2>2, <2>3, <2>4 DEF WorkerSlots
<1>8. MandatesHeld'
    <2>1. ASSUME NEW q \in Requests, mandate'[q].status = "flushed"
          PROVE  creator'[q].pc = "creating" /\ call'[q].step # "confirmed"
        <3>1. mandate[q].status = "flushed"
            BY <1>1, <2>1 DEF Committing
        <3>2. creator[q].pc = "creating" /\ call[q].step # "confirmed"
            BY <3>1 DEF Slots, MandatesHeld
        <3>3. CASE q = p
            BY <1>1, <2>1, <3>2, <3>3
        <3>4. CASE q # p
            BY <1>1, <1>4, <3>2, <3>4 DEF Answering
        <3>5. QED
            BY <3>3, <3>4
    <2>2. QED
        BY <2>1 DEF MandatesHeld
<1>9. MandateHasOwner'
    <2>1. \A q \in Requests :
            mandate'[q].status = "ACTIVE" =>
              \/ mandate[q].status = "ACTIVE"
              \/ (row[q].status = "absent" /\ creator[q].pc = "creating")
        BY <1>1 DEF Committing, Slots, MandatesHeld, RequestSlots
    <2>2. QED
        BY <1>1, <2>1 DEF MandateHasOwner
<1>10. QED
    BY <1>5, <1>6, <1>7, <1>8, <1>9 DEF Slots

\* What is known of one request and its mandate.
RequestSlot(q) ==
    /\ creator[q].pc \notin {"creating", "first"} => call[q] = NoCall
    /\ creator[q].pc = "creating" => call[q].fn = "create"
    /\ creator[q].pc = "first" =>
         call[q].fn = "execute" /\ call[q].id = row[q].oid /\ row[q].oid # NoId
    /\ creator[q].pc \in {"new", "signed", "creating"} => row[q].status = "absent"
    /\ row[q].status = "absent" => row[q] = NoRow
    /\ row[q].oid <= Len(subscriptions)
MandateHeld(q) ==
    mandate[q].status = "flushed" => creator[q].pc = "creating" /\ call[q].step # "confirmed"
HasOwner(q) ==
    mandate[q].status = "ACTIVE" =>
        \/ row[q].status \notin {"absent", "CANCELLED"}
        \/ (row[q].status = "absent" /\ creator[q].pc \in {"creating", "lost"})

\* A row keeps its agreement, once it has one.
RowStays(q) ==
    row[q].status # "absent" => row'[q].status # "absent" /\ row'[q].oid = row[q].oid

\* The facts about requests and mandates are facts about each of them.
LEMMA OneRequest ==
    /\ RequestSlots <=> \A q \in Requests : RequestSlot(q)
    /\ MandatesHeld <=> \A q \in Requests : MandateHeld(q)
    /\ MandateHasOwner <=> \A q \in Requests : HasOwner(q)
    /\ RequestSlots' <=> \A q \in Requests : RequestSlot(q)'
    /\ MandatesHeld' <=> \A q \in Requests : MandateHeld(q)'
    /\ MandateHasOwner' <=> \A q \in Requests : HasOwner(q)'
<1>1. RequestSlots <=> \A q \in Requests : RequestSlot(q)
    BY DEF RequestSlots, RequestSlot
<1>2. MandatesHeld <=> \A q \in Requests : MandateHeld(q)
    BY DEF MandatesHeld, MandateHeld
<1>3. MandateHasOwner <=> \A q \in Requests : HasOwner(q)
    BY DEF MandateHasOwner, HasOwner
<1>4. RequestSlots' <=> \A q \in Requests : RequestSlot(q)'
    BY DEF RequestSlots, RequestSlot
<1>5. MandatesHeld' <=> \A q \in Requests : MandateHeld(q)'
    BY DEF MandatesHeld, MandateHeld
<1>6. MandateHasOwner' <=> \A q \in Requests : HasOwner(q)'
    BY DEF MandateHasOwner, HasOwner
<1>7. QED
    BY <1>1, <1>2, <1>3, <1>4, <1>5, <1>6

\* Requests, cancellations and schedulers are different processes.
LEMMA WhoIsWho ==
    /\ Requests \subseteq Processes /\ Cancels \subseteq Processes /\ Workers \subseteq Processes
    /\ \A q \in Requests : q \notin Cancels /\ q \notin Workers /\ q # "none"
    /\ \A c \in Cancels : c \notin Workers
BY Web3Assumption DEF Processes

\* What a request does to its own row, mandate and call, and to no other.
LEMMA OneRequestSteps ==
    ASSUME ServerTypeOK, Slots, MandateHasOwner, NEW q \in Requests,
           \A x \in Processes : x # q => call'[x] = call[x],
           \A x \in Requests : x # q =>
             row'[x] = row[x] /\ mandate'[x] = mandate[x] /\ creator'[x] = creator[x],
           UNCHANGED <<subscriptions, worker, cancel>>,
           RowStays(q), RequestSlot(q)', MandateHeld(q)', HasOwner(q)'
    PROVE  Slots' /\ MandateHasOwner'
<1>1. \A x \in Requests : x # q => RequestSlot(x)' /\ MandateHeld(x)' /\ HasOwner(x)'
    <2>1. ASSUME NEW x \in Requests, x # q
          PROVE  RequestSlot(x)' /\ MandateHeld(x)' /\ HasOwner(x)'
        <3>1. RequestSlot(x) /\ MandateHeld(x) /\ HasOwner(x)
            BY OneRequest DEF Slots
        <3>2. /\ call'[x] = call[x] /\ row'[x] = row[x] /\ mandate'[x] = mandate[x]
              /\ creator'[x] = creator[x] /\ subscriptions' = subscriptions
            BY <2>1, WhoIsWho
        <3>3. RequestSlot(x)'
            BY <3>1, <3>2 DEF RequestSlot
        <3>4. MandateHeld(x)'
            BY <3>1, <3>2 DEF MandateHeld
        <3>5. HasOwner(x)'
            BY <3>1, <3>2 DEF HasOwner
        <3>6. QED
            BY <3>3, <3>4, <3>5
    <2>2. QED
        BY <2>1
<1>2. RequestSlots' /\ MandatesHeld' /\ MandateHasOwner'
    BY <1>1, OneRequest
<1>3. \A x \in Requests : RowStays(x)
    BY DEF RowStays
<1>4. CancelSlots'
    <2>1. \A c \in Cancels : call'[c] = call[c]
        BY WhoIsWho
    <2>2. QED
        BY <1>3, <2>1 DEF Slots, CancelSlots, RowStays
<1>5. WorkerSlots'
    <2>1. \A w \in Workers : call'[w] = call[w]
        BY WhoIsWho
    <2>2. \A w \in Workers : worker[w].cur = "none" => call[w] = NoCall
        BY DEF Slots, WorkerSlots
    <2>3. ASSUME NEW w \in Workers, NEW x \in Requests
          PROVE  /\ worker[w].cur = x =>
                      call[w].fn = "execute" /\ call[w].id = row'[x].oid /\ row'[x].oid # NoId
                 /\ x \in worker[w].todo => row'[x].status # "absent"
                 /\ worker[w].seen[x] # NoRow =>
                      row'[x].status # "absent" /\ worker[w].seen[x].oid = row'[x].oid
        <3>1. /\ worker[w].cur = x =>
                   call[w].fn = "execute" /\ call[w].id = row[x].oid /\ row[x].oid # NoId
              /\ x \in worker[w].todo => row[x].status # "absent"
              /\ worker[w].seen[x] # NoRow =>
                   row[x].status # "absent" /\ worker[w].seen[x].oid = row[x].oid
            BY DEF Slots, WorkerSlots
        <3>2. row[x].status = "absent" => row[x].oid = NoId
            BY DEF Slots, RequestSlots, NoRow
        <3>3. RowStays(x)
            BY <1>3
        <3>4. QED
            BY <3>1, <3>2, <3>3 DEF RowStays
    <2>4. QED
        BY <2>1, <2>2, <2>3 DEF WorkerSlots
<1>6. QED
    BY <1>2, <1>4, <1>5 DEF Slots

\* Steps that leave rows, mandates and requests alone.
LEMMA RequestsStay ==
    ASSUME ServerTypeOK, Slots, MandateHasOwner, UNCHANGED <<row, mandate, creator>>,
           \A q \in Requests : call'[q] = call[q],
           Len(subscriptions) \in Nat, Len(subscriptions)' \in Nat,
           Len(subscriptions) <= Len(subscriptions')
    PROVE  RequestSlots' /\ MandatesHeld' /\ MandateHasOwner'
<1>1. \A q \in Requests : row[q].oid \in Nat
    BY ServersKnow
<1>2. ASSUME NEW q \in Requests PROVE RequestSlot(q)' /\ MandateHeld(q)' /\ HasOwner(q)'
    <2>1. RequestSlot(q) /\ MandateHeld(q) /\ HasOwner(q)
        BY OneRequest DEF Slots
    <2>2. RequestSlot(q)'
        BY <1>1, <2>1 DEF RequestSlot
    <2>3. MandateHeld(q)' /\ HasOwner(q)'
        BY <2>1 DEF MandateHeld, HasOwner
    <2>4. QED
        BY <2>2, <2>3
<1>3. QED
    BY <1>2, OneRequest

-----------------------------------------------------------------------------
(***************************************************************************)
(* Requests.                                                               *)
(***************************************************************************)

\* Signing changes nothing that is recorded.
LEMMA SignSlots ==
    ASSUME IInv, Slots, MandateHasOwner, NEW q \in Requests, Sign(q)
    PROVE  Slots' /\ MandateHasOwner'
<1>1. ServerTypeOK /\ creator \in [Requests -> Creator]
    BY Parts DEF ServerTypeOK
<1>2. /\ creator[q].pc = "new" /\ creator' = [creator EXCEPT ![q] = [pc |-> "signed", nonce |-> NextNonce]]
      /\ UNCHANGED <<contract, tables, cancel, worker, call, late, crashes>>
    BY DEF Sign
<1>3. /\ creator'[q].pc = "signed" /\ \A x \in Requests : x # q => creator'[x] = creator[x]
      /\ UNCHANGED <<row, mandate, receipts, call, worker, cancel, subscriptions>>
    BY <1>1, <1>2 DEF tables, contract
<1>4. RequestSlot(q) /\ MandateHeld(q) /\ HasOwner(q)
    BY OneRequest DEF Slots
<1>5. RequestSlot(q)' /\ MandateHeld(q)' /\ HasOwner(q)' /\ RowStays(q)
    BY <1>2, <1>3, <1>4 DEF RequestSlot, MandateHeld, HasOwner, RowStays
<1>6. QED
    BY <1>1, <1>3, <1>5, OneRequestSteps

\* A refused nonce leaves nothing; an accepted one a mandate that waits for
\* its creation.
LEMMA AuthorizeSlots ==
    ASSUME IInv, Slots, MandateHasOwner, NEW q \in Requests, Authorize(q)
    PROVE  Slots' /\ MandateHasOwner'
<1>1. /\ ServerTypeOK /\ creator \in [Requests -> Creator] /\ mandate \in [Requests -> Mandate]
      /\ call \in [Processes -> Call] /\ q \in Processes /\ creator[q] \in Creator
    BY Parts, WhoIsWho DEF ServerTypeOK
<1>2. RequestSlot(q) /\ MandateHeld(q) /\ HasOwner(q)
    BY OneRequest DEF Slots
<1>3. /\ creator[q].pc = "signed" /\ UNCHANGED <<row, receipts, worker, cancel, subscriptions>>
    BY DEF Authorize, contract
<1>4. CASE creator[q].nonce = NextNonce
    <2>1. /\ mandate' = [mandate EXCEPT ![q] = [status |-> "flushed", nonce |-> creator[q].nonce]]
          /\ call' = [call EXCEPT ![q] = Ask("create", NoId)]
          /\ creator' = [creator EXCEPT ![q].pc = "creating"]
        BY <1>4 DEF Authorize
    <2>2. mandate'[q].status = "flushed" /\ call'[q] = Ask("create", NoId)
        BY <1>1, <2>1
    <2>3. creator'[q].pc = "creating"
        BY <1>1, <2>1 DEF Creator
    <2>4. /\ \A x \in Processes : x # q => call'[x] = call[x]
          /\ \A x \in Requests : x # q => mandate'[x] = mandate[x] /\ creator'[x] = creator[x]
        BY <1>1, <2>1
    <2>5. RequestSlot(q)' /\ MandateHeld(q)' /\ HasOwner(q)' /\ RowStays(q)
        BY <1>2, <1>3, <2>2, <2>3, AskIs DEF RequestSlot, MandateHeld, HasOwner, RowStays
    <2>6. QED
        BY <1>1, <1>3, <2>4, <2>5, OneRequestSteps
<1>5. CASE creator[q].nonce # NextNonce
    <2>1. creator' = [creator EXCEPT ![q].pc = "done"] /\ UNCHANGED <<mandate, call>>
        BY <1>5 DEF Authorize
    <2>2. creator'[q].pc = "done" /\ \A x \in Requests : x # q => creator'[x] = creator[x]
        BY <1>1, <2>1 DEF Creator
    <2>3. RequestSlot(q)' /\ MandateHeld(q)' /\ HasOwner(q)' /\ RowStays(q)
        BY <1>2, <1>3, <2>1, <2>2 DEF RequestSlot, MandateHeld, HasOwner, RowStays
    <2>4. QED
        BY <1>1, <1>3, <2>1, <2>2, <2>3, OneRequestSteps
<1>6. QED
    BY <1>4, <1>5

\* A failed creation revokes the mandate that waited for it.
LEMMA CreationFailedSlots ==
    ASSUME IInv, Slots, MandateHasOwner, NEW q \in Requests, CreationFailed(q)
    PROVE  Slots' /\ MandateHasOwner'
<1>1. /\ ServerTypeOK /\ creator \in [Requests -> Creator] /\ mandate \in [Requests -> Mandate]
      /\ call \in [Processes -> Call] /\ q \in Processes
    BY Parts, WhoIsWho DEF ServerTypeOK
<1>2. RequestSlot(q) /\ MandateHeld(q) /\ HasOwner(q)
    BY OneRequest DEF Slots
<1>3. /\ creator[q].pc = "creating" /\ UNCHANGED <<row, receipts, worker, cancel, subscriptions>>
      /\ mandate' = Revoke(q) /\ creator' = [creator EXCEPT ![q].pc = "done"]
      /\ call' = [call EXCEPT ![q] = NoCall]
    BY DEF CreationFailed, contract
<1>4. mandate'[q].status = "REVOKED" /\ \A x \in Requests : x # q => mandate'[x] = mandate[x]
    BY <1>1, <1>3 DEF Revoke, Mandate
<1>5. creator'[q].pc = "done" /\ \A x \in Requests : x # q => creator'[x] = creator[x]
    BY <1>1, <1>3 DEF Creator
<1>6. call'[q] = NoCall /\ \A x \in Processes : x # q => call'[x] = call[x]
    BY <1>1, <1>3
<1>7. RequestSlot(q)' /\ MandateHeld(q)' /\ HasOwner(q)' /\ RowStays(q)
    BY <1>2, <1>3, <1>4, <1>5, <1>6 DEF RequestSlot, MandateHeld, HasOwner, RowStays
<1>8. QED
    BY <1>1, <1>3, <1>4, <1>5, <1>6, <1>7, OneRequestSteps

\* What is recorded of a new agreement.
RecordedAs(q, oid) ==
    /\ row'[q].status = "PENDING_PAYMENT" /\ row'[q].first = NoTime
    /\ row'[q].total = 0 /\ row'[q].oid = oid
    /\ \A x \in Requests : x # q => row'[x] = row[x] /\ creator'[x] = creator[x]
    /\ oid = NoId => creator'[q].pc = "done" /\ call'[q] = NoCall
    /\ oid # NoId => creator'[q].pc = "first" /\ call'[q] = Ask("execute", oid)
    /\ \A x \in Processes : x # q => call'[x] = call[x]

\* What is recorded of a confirmed creation.
LEMMA RecordIs ==
    ASSUME ServerTypeOK, NEW q \in Requests, RecordSubscription(q)
    PROVE  /\ creator[q].pc = "creating" /\ call[q].step = "confirmed"
           /\ UNCHANGED <<contract, mandate, receipts, cancel, worker, late, crashes>>
           /\ \E oid \in {subscriptionCount, NoId} : RecordedAs(q, oid)
<1>1. /\ creator \in [Requests -> Creator] /\ row \in [Requests -> Row]
      /\ call \in [Processes -> Call] /\ q \in Processes
    BY WhoIsWho DEF ServerTypeOK
<1>2. /\ creator[q].pc = "creating" /\ call[q].step = "confirmed"
      /\ UNCHANGED <<contract, mandate, receipts, cancel, worker, late, crashes>>
    BY DEF RecordSubscription, Confirmed
<1>3. PICK oid \in {subscriptionCount, NoId} :
         /\ row' = [row EXCEPT ![q] = [NoRow EXCEPT !.status = "PENDING_PAYMENT",
                                          !.next = call[q].start, !.oid = oid]]
         /\ IF oid = NoId
            THEN creator' = [creator EXCEPT ![q].pc = "done"] /\ call' = [call EXCEPT ![q] = NoCall]
            ELSE /\ creator' = [creator EXCEPT ![q].pc = "first"]
                 /\ call' = [call EXCEPT ![q] = Ask("execute", oid)]
    BY DEF RecordSubscription
<1>4. PICK r : r = [NoRow EXCEPT !.status = "PENDING_PAYMENT", !.next = call[q].start, !.oid = oid]
    OBVIOUS
<1>5. row'[q] = r /\ \A x \in Requests : x # q => row'[x] = row[x]
    BY <1>1, <1>3, <1>4
<1>6. r.status = "PENDING_PAYMENT" /\ r.first = NoTime /\ r.total = 0 /\ r.oid = oid
    BY <1>4 DEF NoRow
<1>7. /\ oid = NoId => creator'[q].pc = "done" /\ call'[q] = NoCall
      /\ oid # NoId => creator'[q].pc = "first" /\ call'[q] = Ask("execute", oid)
    BY <1>1, <1>3 DEF Creator
<1>8. /\ \A x \in Requests : x # q => creator'[x] = creator[x]
      /\ \A x \in Processes : x # q => call'[x] = call[x]
    BY <1>1, <1>3
<1>9. RecordedAs(q, oid)
    BY <1>5, <1>6, <1>7, <1>8 DEF RecordedAs
<1>10. QED
    BY <1>2, <1>9

\* A recorded creation owns its mandate, and holds an id that exists.
LEMMA RecordSlots ==
    ASSUME IInv, Slots, MandateHasOwner, NEW q \in Requests, RecordSubscription(q)
    PROVE  Slots' /\ MandateHasOwner'
<1>1. ServerTypeOK /\ Len(subscriptions) \in Nat
    BY Parts, ContractKnows
<1>2. RequestSlot(q) /\ MandateHeld(q) /\ HasOwner(q)
    BY OneRequest DEF Slots
<1>3. /\ creator[q].pc = "creating" /\ call[q].step = "confirmed"
      /\ UNCHANGED <<mandate, worker, cancel, subscriptions>>
    BY <1>1, RecordIs DEF contract
<1>4. PICK oid \in {subscriptionCount, NoId} : RecordedAs(q, oid)
    BY <1>1, RecordIs
<1>5. oid <= Len(subscriptions)
    BY <1>1 DEF NoId, subscriptionCount
<1>6. RequestSlot(q)' /\ MandateHeld(q)' /\ HasOwner(q)' /\ RowStays(q)
    <2>1. /\ row'[q].status = "PENDING_PAYMENT" /\ row'[q].oid = oid
          /\ oid = NoId => creator'[q].pc = "done" /\ call'[q] = NoCall
          /\ oid # NoId => creator'[q].pc = "first" /\ call'[q] = Ask("execute", oid)
        BY <1>4 DEF RecordedAs
    <2>2. RequestSlot(q)'
        BY <1>3, <1>5, <2>1, AskIs DEF RequestSlot
    <2>3. MandateHeld(q)' /\ HasOwner(q)' /\ RowStays(q)
        BY <1>2, <1>3, <2>1 DEF RequestSlot, MandateHeld, HasOwner, RowStays
    <2>4. QED
        BY <2>2, <2>3
<1>7. /\ \A x \in Processes : x # q => call'[x] = call[x]
      /\ \A x \in Requests : x # q =>
           row'[x] = row[x] /\ mandate'[x] = mandate[x] /\ creator'[x] = creator[x]
    BY <1>3, <1>4 DEF RecordedAs
<1>8. QED
    BY <1>1, <1>3, <1>6, <1>7, OneRequestSteps

\* What is recorded of a first payment.
LEMMA FirstPaymentIs ==
    ASSUME ServerTypeOK, now \in Nat, NEW q \in Requests, FirstPayment(q)
    PROVE  /\ creator[q].pc = "first" /\ creator'[q].pc = "done" /\ call'[q] = NoCall
           /\ UNCHANGED <<contract, mandate, receipts, cancel, worker, late, crashes>>
           /\ row'[q].oid = row[q].oid
           /\ Confirmed(q) => row'[q].status = "ACTIVE" /\ row'[q].total = 1 /\ row'[q].first = NoTime
           /\ ~Confirmed(q) => /\ row'[q].status = "PAST_DUE" /\ row'[q].total = row[q].total
                               /\ row'[q].first = now
           /\ \A x \in Requests : x # q => row'[x] = row[x] /\ creator'[x] = creator[x]
           /\ \A x \in Processes : x # q => call'[x] = call[x]
<1>1. /\ creator \in [Requests -> Creator] /\ row \in [Requests -> Row]
      /\ call \in [Processes -> Call] /\ q \in Processes /\ row[q] \in Row
    BY WhoIsWho DEF ServerTypeOK
<1>2. PICK paid, unpaid :
        /\ paid = [row[q] EXCEPT !.status = "ACTIVE", !.total = 1, !.next = now + Interval, !.first = NoTime]
        /\ unpaid = [row[q] EXCEPT !.status = "PAST_DUE", !.next = now + Retry, !.first = now]
    OBVIOUS
<1>3. row' = [row EXCEPT ![q] = IF Confirmed(q) THEN paid ELSE unpaid]
    BY <1>1, <1>2 DEF FirstPayment
<1>4. paid.status = "ACTIVE" /\ paid.total = 1 /\ paid.first = NoTime /\ paid.oid = row[q].oid
    BY <1>1, <1>2 DEF Row
<1>5. /\ unpaid.status = "PAST_DUE" /\ unpaid.total = row[q].total /\ unpaid.first = now
      /\ unpaid.oid = row[q].oid
    BY <1>1, <1>2 DEF Row
<1>6. /\ row'[q] = IF Confirmed(q) THEN paid ELSE unpaid
      /\ \A x \in Requests : x # q => row'[x] = row[x]
    BY <1>1, <1>3
<1>7. /\ creator[q].pc = "first" /\ creator' = [creator EXCEPT ![q].pc = "done"]
      /\ call' = [call EXCEPT ![q] = NoCall]
      /\ UNCHANGED <<contract, mandate, receipts, cancel, worker, late, crashes>>
    BY DEF FirstPayment
<1>8. /\ creator'[q].pc = "done" /\ \A x \in Requests : x # q => creator'[x] = creator[x]
      /\ call'[q] = NoCall /\ \A x \in Processes : x # q => call'[x] = call[x]
    BY <1>1, <1>7 DEF Creator
<1>9. QED
    BY <1>4, <1>5, <1>6, <1>7, <1>8

\* The outcome of a first payment ends the request.
LEMMA FirstPaymentSlots ==
    ASSUME IInv, Slots, MandateHasOwner, NEW q \in Requests, FirstPayment(q)
    PROVE  Slots' /\ MandateHasOwner'
<1>1. ServerTypeOK /\ now \in Nat
    BY Parts, ContractKnows
<1>2. RequestSlot(q) /\ MandateHeld(q) /\ HasOwner(q)
    BY OneRequest DEF Slots
<1>3. /\ creator[q].pc = "first" /\ creator'[q].pc = "done" /\ call'[q] = NoCall
      /\ UNCHANGED <<mandate, worker, cancel, subscriptions>>
      /\ row'[q].oid = row[q].oid /\ row'[q].status \in {"ACTIVE", "PAST_DUE"}
      /\ \A x \in Requests : x # q => row'[x] = row[x] /\ creator'[x] = creator[x]
      /\ \A x \in Processes : x # q => call'[x] = call[x]
    BY <1>1, FirstPaymentIs DEF contract
<1>4. RequestSlot(q)' /\ MandateHeld(q)' /\ HasOwner(q)' /\ RowStays(q)
    BY <1>2, <1>3 DEF RequestSlot, MandateHeld, HasOwner, RowStays
<1>5. QED
    BY <1>1, <1>3, <1>4, OneRequestSteps

-----------------------------------------------------------------------------
(***************************************************************************)
(* Schedulers.                                                             *)
(***************************************************************************)

\* What is known of one scheduler.
WorkerSlot(w) ==
    /\ worker[w].cur = "none" => call[w] = NoCall
    /\ \A q \in Requests :
         /\ worker[w].cur = q =>
              call[w].fn = "execute" /\ call[w].id = row[q].oid /\ row[q].oid # NoId
         /\ q \in worker[w].todo => row[q].status # "absent"
         /\ worker[w].seen[q] # NoRow =>
              row[q].status # "absent" /\ worker[w].seen[q].oid = row[q].oid

\* The facts about schedulers are facts about each of them.
LEMMA OneWorker ==
    /\ WorkerSlots <=> \A w \in Workers : WorkerSlot(w)
    /\ WorkerSlots' <=> \A w \in Workers : WorkerSlot(w)'
<1>1. WorkerSlots <=> \A w \in Workers : WorkerSlot(w)
    BY DEF WorkerSlots, WorkerSlot
<1>2. WorkerSlots' <=> \A w \in Workers : WorkerSlot(w)'
    BY DEF WorkerSlots, WorkerSlot
<1>3. QED
    BY <1>1, <1>2

\* A scheduler that does nothing knows what it knew.
LEMMA WorkerStays ==
    ASSUME Slots, NEW w \in Workers, worker'[w] = worker[w], call'[w] = call[w],
           \A q \in Requests : RowStays(q)
    PROVE  WorkerSlot(w)'
<1>1. WorkerSlot(w)
    BY OneWorker DEF Slots
<1>2. ASSUME NEW x \in Requests
      PROVE  /\ worker[w].cur = x =>
                  call[w].fn = "execute" /\ call[w].id = row'[x].oid /\ row'[x].oid # NoId
             /\ x \in worker[w].todo => row'[x].status # "absent"
             /\ worker[w].seen[x] # NoRow =>
                  row'[x].status # "absent" /\ worker[w].seen[x].oid = row'[x].oid
    <2>1. /\ worker[w].cur = x =>
               call[w].fn = "execute" /\ call[w].id = row[x].oid /\ row[x].oid # NoId
          /\ x \in worker[w].todo => row[x].status # "absent"
          /\ worker[w].seen[x] # NoRow =>
               row[x].status # "absent" /\ worker[w].seen[x].oid = row[x].oid
        BY <1>1 DEF WorkerSlot
    <2>2. row[x].status = "absent" => row[x].oid = NoId
        BY DEF Slots, RequestSlots, NoRow
    <2>3. QED
        BY <2>1, <2>2 DEF RowStays
<1>3. QED
    BY <1>1, <1>2 DEF WorkerSlot

\* What a scheduler does leaves requests and cancellations alone, but for
\* the row it writes.
LEMMA OneWorkerSteps ==
    ASSUME ServerTypeOK, Slots, MandateHasOwner, NEW w \in Workers,
           \A x \in Processes : x # w => call'[x] = call[x],
           \A x \in Workers : x # w => worker'[x] = worker[x],
           UNCHANGED <<subscriptions, mandate, creator, cancel>>, WorkerSlot(w)',
           \A q \in Requests :
             \/ row'[q] = row[q]
             \/ /\ row[q].status # "absent" /\ row'[q].oid = row[q].oid
                /\ row'[q].status \in {row[q].status, "ACTIVE", "PAUSED", "PAST_DUE"}
    PROVE  Slots' /\ MandateHasOwner'
<1>1. \A q \in Requests : RowStays(q)
    BY DEF RowStays
<1>2. ASSUME NEW q \in Requests PROVE RequestSlot(q)' /\ MandateHeld(q)' /\ HasOwner(q)'
    <2>1. RequestSlot(q) /\ MandateHeld(q) /\ HasOwner(q)
        BY OneRequest DEF Slots
    <2>2. call'[q] = call[q]
        BY WhoIsWho
    <2>3. RequestSlot(q)'
        BY <2>1, <2>2 DEF RequestSlot
    <2>4. MandateHeld(q)' /\ HasOwner(q)'
        BY <2>1, <2>2 DEF MandateHeld, HasOwner
    <2>5. QED
        BY <2>3, <2>4
<1>3. CancelSlots'
    <2>1. \A c \in Cancels : call'[c] = call[c]
        BY WhoIsWho
    <2>2. QED
        BY <1>1, <2>1 DEF Slots, CancelSlots, RowStays
<1>4. WorkerSlots'
    <2>1. \A x \in Workers : x # w => WorkerSlot(x)'
        BY <1>1, WhoIsWho, WorkerStays
    <2>2. QED
        BY <2>1, OneWorker
<1>5. QED
    BY <1>2, <1>3, <1>4, OneRequest DEF Slots

\* What a cycle loads is what the rows are.
LEMMA CycleSlots ==
    ASSUME IInv, Slots, MandateHasOwner, NEW w \in Workers, Cycle(w)
    PROVE  Slots' /\ MandateHasOwner'
<1>1. ServerTypeOK /\ worker \in [Workers -> Worker]
    BY Parts DEF ServerTypeOK
<1>2. PICK due, seen :
        /\ due \in SUBSET Requests
        /\ \A q \in due : Due(row[q])
        /\ seen = [q \in Requests |-> IF q \in due THEN row[q] ELSE NoRow]
        /\ worker[w] = IdleWorker
        /\ worker' = [worker EXCEPT ![w] =
                         [IdleWorker EXCEPT !.todo = due, !.seen = seen]]
        /\ UNCHANGED <<contract, tables, creator, cancel, call, late, crashes>>
    BY CycleIs
<1>3. /\ worker[w] = IdleWorker
      /\ worker' = [worker EXCEPT ![w] = [IdleWorker EXCEPT !.todo = due, !.seen = seen]]
      /\ UNCHANGED <<contract, tables, creator, cancel, call, late, crashes>>
    BY <1>2
<1>4. /\ worker'[w] = [IdleWorker EXCEPT !.todo = due, !.seen = seen]
      /\ \A x \in Workers : x # w => worker'[x] = worker[x]
    BY <1>1, <1>3
<1>5. worker'[w].cur = "none" /\ worker'[w].todo = due /\ worker'[w].seen = seen
    BY <1>4 DEF IdleWorker
<1>6. call[w] = NoCall
    BY <1>3 DEF Slots, WorkerSlots, IdleWorker
<1>7. \A q \in due : q \in Requests /\ row[q].status # "absent"
    BY <1>2 DEF Due, DueStatus
<1>8. /\ worker'[w].cur = "none" /\ call' = call /\ row' = row
      /\ UNCHANGED <<subscriptions, mandate, creator, cancel>>
    BY <1>3, <1>5 DEF tables, contract
<1>9. WorkerSlot(w)'
    BY <1>2, <1>5, <1>6, <1>7, <1>8, WhoIsWho DEF WorkerSlot
<1>10. QED
    BY <1>1, <1>4, <1>8, <1>9, OneWorkerSteps

\* A scheduler that begins a row asks for a charge of the agreement the row
\* has: what it saw of the row, it saw with this agreement.
BeginsWith(w, q) ==
    LET r == Loaded(w, q) IN
    /\ worker'[w].cur = q /\ worker'[w].todo \subseteq worker[w].todo
    /\ r.oid # NoId /\ worker'[w].seen = [worker[w].seen EXCEPT ![q] = r]
    /\ call' = [call EXCEPT ![w] = Ask("execute", r.oid)]

Skips(w) ==
    /\ worker'[w].cur = "none" /\ worker'[w].todo \subseteq worker[w].todo
    /\ worker'[w].seen \in {worker[w].seen, Unseen} /\ UNCHANGED call

\* What the next row of a batch makes of a scheduler.
LEMMA BeginIs ==
    ASSUME ServerTypeOK, NEW w \in Workers, NEW q \in Requests, Begin(w, q)
    PROVE  /\ worker[w].cur = "none" /\ q \in worker[w].todo
           /\ BeginsWith(w, q) \/ Skips(w)
           /\ \A x \in Workers : x # w => worker'[x] = worker[x]
           /\ UNCHANGED <<contract, tables, creator, cancel, late, crashes>>
<1>1. worker \in [Workers -> Worker] /\ worker[w] \in Worker
    BY DEF ServerTypeOK
<1>2. PICK rest : rest = [worker[w] EXCEPT !.todo = @ \ {q}]
    OBVIOUS
<1>3. /\ rest.cur = worker[w].cur /\ rest.seen = worker[w].seen
      /\ rest.todo = worker[w].todo \ {q} /\ rest \in Worker
    BY <1>1, <1>2 DEF Worker
<1>4. PICK r : r = Loaded(w, q)
    OBVIOUS
<1>5. /\ worker[w].cur = "none" /\ q \in worker[w].todo
      /\ IF r.oid = NoId
         THEN /\ worker' = [worker EXCEPT ![w] = IF rest.todo = {} THEN IdleWorker ELSE rest]
              /\ UNCHANGED call
         ELSE /\ worker' = [worker EXCEPT ![w] = [rest EXCEPT !.cur = q, !.seen[q] = r]]
              /\ call' = [call EXCEPT ![w] = Ask("execute", r.oid)]
      /\ UNCHANGED <<contract, tables, creator, cancel, late, crashes>>
    BY <1>2, <1>4 DEF Begin
<1>6. CASE r.oid = NoId
    <2>1. worker'[w] \in {rest, IdleWorker}
        BY <1>1, <1>5, <1>6
    <2>2. IdleWorker.cur = "none" /\ IdleWorker.todo = {} /\ IdleWorker.seen = Unseen
        BY DEF IdleWorker
    <2>3. Skips(w)
        BY <1>3, <1>5, <1>6, <2>1, <2>2 DEF Skips
    <2>4. QED
        BY <1>1, <1>5, <1>6, <2>3
<1>7. CASE r.oid # NoId
    <2>1. worker'[w] = [rest EXCEPT !.cur = q, !.seen[q] = r]
        BY <1>1, <1>5, <1>7
    <2>2. /\ worker'[w].cur = q /\ worker'[w].todo = rest.todo
          /\ worker'[w].seen = [rest.seen EXCEPT ![q] = r]
        BY <1>3, <2>1 DEF Worker
    <2>3. BeginsWith(w, q)
        BY <1>3, <1>4, <1>5, <1>7, <2>2 DEF BeginsWith
    <2>4. QED
        BY <1>1, <1>5, <1>7, <2>3
<1>8. QED
    BY <1>6, <1>7

\* The charge a scheduler asks for is the one of the row it is at.
LEMMA BeginSlots ==
    ASSUME IInv, Slots, MandateHasOwner, NEW w \in Workers, NEW q \in Requests, Begin(w, q)
    PROVE  Slots' /\ MandateHasOwner'
<1>1. /\ ServerTypeOK /\ call \in [Processes -> Call] /\ w \in Processes
      /\ worker[w].seen \in [Requests -> Row]
    BY Parts, WhoIsWho, ServersKnow DEF ServerTypeOK
<1>2. WorkerSlot(w)
    BY OneWorker DEF Slots
<1>3. /\ worker[w].cur = "none" /\ q \in worker[w].todo
      /\ BeginsWith(w, q) \/ Skips(w)
      /\ \A x \in Workers : x # w => worker'[x] = worker[x]
      /\ UNCHANGED <<row, mandate, creator, cancel, subscriptions>>
    BY <1>1, BeginIs DEF tables, contract
<1>4. CASE Skips(w)
    <2>1. /\ worker'[w].cur = "none" /\ worker'[w].todo \subseteq worker[w].todo
          /\ \A x \in Requests : worker'[w].seen[x] \in {worker[w].seen[x], NoRow}
          /\ UNCHANGED call
        BY <1>4 DEF Skips, Unseen
    <2>2. WorkerSlot(w)'
        BY <1>2, <1>3, <2>1, WhoIsWho DEF WorkerSlot
    <2>3. QED
        BY <1>1, <1>3, <2>1, <2>2, OneWorkerSteps
<1>5. CASE BeginsWith(w, q)
    <2>1. PICK r : r = Loaded(w, q)
        OBVIOUS
    <2>2. /\ worker'[w].cur = q /\ worker'[w].todo \subseteq worker[w].todo
          /\ r.oid # NoId /\ worker'[w].seen = [worker[w].seen EXCEPT ![q] = r]
          /\ call' = [call EXCEPT ![w] = Ask("execute", r.oid)]
        BY <1>5, <2>1 DEF BeginsWith
    <2>3. row[q].status # "absent" /\ r.oid = row[q].oid
        BY <1>2, <1>3, <2>1 DEF WorkerSlot, Loaded
    <2>4. /\ call'[w] = Ask("execute", r.oid) /\ \A x \in Processes : x # w => call'[x] = call[x]
          /\ worker'[w].seen[q] = r
          /\ \A x \in Requests : x # q => worker'[w].seen[x] = worker[w].seen[x]
        BY <1>1, <2>2
    <2>5. call'[w].fn = "execute" /\ call'[w].id = r.oid
        BY <2>4, AskIs
    <2>6. WorkerSlot(w)'
        <3>1. worker'[w].cur # "none"
            BY <2>2, WhoIsWho
        <3>2. ASSUME NEW x \in Requests
              PROVE  /\ worker'[w].cur = x =>
                          call'[w].fn = "execute" /\ call'[w].id = row[x].oid /\ row[x].oid # NoId
                     /\ x \in worker'[w].todo => row[x].status # "absent"
                     /\ worker'[w].seen[x] # NoRow =>
                          row[x].status # "absent" /\ worker'[w].seen[x].oid = row[x].oid
            BY <1>2, <2>2, <2>3, <2>4, <2>5 DEF WorkerSlot
        <3>3. QED
            BY <1>3, <3>1, <3>2 DEF WorkerSlot
    <2>7. QED
        BY <1>1, <1>3, <2>4, <2>6, OneWorkerSteps
<1>6. QED
    BY <1>3, <1>4, <1>5

\* What a scheduler reads again.
LEMMA ReloadIs ==
    ASSUME ServerTypeOK, NEW w \in Workers, Reload(w)
    PROVE  \E q \in Requests :
             /\ worker[w].cur = q /\ worker'[w].cur = q /\ worker'[w].todo = worker[w].todo
             /\ worker'[w].seen[q] = row[q]
             /\ \A x \in Requests : x # q => worker'[w].seen[x] = worker[w].seen[x]
             /\ \A x \in Workers : x # w => worker'[x] = worker[x]
             /\ UNCHANGED <<contract, tables, creator, cancel, call, late, crashes>>
<1>1. /\ worker \in [Workers -> Worker] /\ worker[w] \in Worker
      /\ worker[w].cur \in Requests \cup {"none"} /\ worker[w].seen \in [Requests -> Row]
    BY ServersKnow DEF ServerTypeOK
<1>2. PICK q : q = worker[w].cur
    OBVIOUS
<1>3. /\ q # "none" /\ worker' = [worker EXCEPT ![w].seen[q] = row[q]]
      /\ UNCHANGED <<contract, tables, creator, cancel, call, late, crashes>>
    BY <1>2 DEF Reload
<1>4. q \in Requests
    BY <1>1, <1>2, <1>3
<1>5. /\ worker'[w] = [worker[w] EXCEPT !.seen[q] = row[q]]
      /\ \A x \in Workers : x # w => worker'[x] = worker[x]
    BY <1>1, <1>3
<1>6. /\ worker'[w].cur = q /\ worker'[w].todo = worker[w].todo
      /\ worker'[w].seen = [worker[w].seen EXCEPT ![q] = row[q]]
    BY <1>1, <1>2, <1>5 DEF Worker
<1>7. worker'[w].seen[q] = row[q] /\ \A x \in Requests : x # q => worker'[w].seen[x] = worker[w].seen[x]
    BY <1>1, <1>4, <1>6
<1>8. QED
    BY <1>2, <1>3, <1>4, <1>5, <1>6, <1>7

\* A row that is read again is the row as it is.
LEMMA ReloadSlots ==
    ASSUME IInv, Slots, MandateHasOwner, NEW w \in Workers, Reload(w)
    PROVE  Slots' /\ MandateHasOwner'
<1>1. ServerTypeOK
    BY Parts
<1>2. PICK q \in Requests :
             /\ worker[w].cur = q /\ worker'[w].cur = q /\ worker'[w].todo = worker[w].todo
             /\ worker'[w].seen[q] = row[q]
             /\ \A x \in Requests : x # q => worker'[w].seen[x] = worker[w].seen[x]
             /\ \A x \in Workers : x # w => worker'[x] = worker[x]
             /\ UNCHANGED <<row, mandate, creator, cancel, call, subscriptions>>
    BY <1>1, ReloadIs DEF tables, contract
<1>3. WorkerSlot(w)
    BY OneWorker DEF Slots
<1>4. row[q].status # "absent"
    BY <1>2, <1>3 DEF WorkerSlot, Slots, RequestSlots, NoRow
<1>5. WorkerSlot(w)'
    BY <1>2, <1>3, <1>4, WhoIsWho DEF WorkerSlot
<1>6. QED
    BY <1>1, <1>2, <1>5, OneWorkerSteps

-----------------------------------------------------------------------------
(***************************************************************************)
(* Outcomes, cancellations and crashes.                                    *)
(***************************************************************************)

\* When a scheduler says that a row failed first.
FailedFirst(seen) == IF seen.first = NoTime THEN now ELSE seen.first

\* What a scheduler makes of a row, column by column.
LEMMA OutcomeIs ==
    ASSUME NEW r \in Row
    PROVE  /\ /\ Paid(r).status = "ACTIVE" /\ Paid(r).total = r.total + 1
              /\ Paid(r).first = NoTime /\ Paid(r).oid = r.oid
           /\ /\ Unpaid(r).status \in {"PAUSED", "PAST_DUE"} /\ Unpaid(r).total = r.total
              /\ Unpaid(r).first = FailedFirst(r) /\ Unpaid(r).oid = r.oid
              /\ Unpaid(r).status = "PAUSED" => now - FailedFirst(r) >= Grace
<1>1. /\ Paid(r).status = "ACTIVE" /\ Paid(r).total = r.total + 1
      /\ Paid(r).first = NoTime /\ Paid(r).oid = r.oid
    BY DEF Paid, Row
<1>2. PICK first : first = FailedFirst(r)
    OBVIOUS
<1>3. Unpaid(r) = IF now - first >= Grace
                  THEN [r EXCEPT !.status = "PAUSED", !.first = first]
                  ELSE [r EXCEPT !.status = "PAST_DUE", !.first = first, !.next = now + Retry]
    BY <1>2 DEF Unpaid, FailedFirst
<1>4. CASE now - first >= Grace
    <2>1. Unpaid(r) = [r EXCEPT !.status = "PAUSED", !.first = first]
        BY <1>3, <1>4
    <2>2. /\ Unpaid(r).status = "PAUSED" /\ Unpaid(r).total = r.total
          /\ Unpaid(r).first = first /\ Unpaid(r).oid = r.oid
        BY <2>1 DEF Row
    <2>3. QED
        BY <1>1, <1>2, <1>4, <2>2
<1>5. CASE ~(now - first >= Grace)
    <2>1. Unpaid(r) = [r EXCEPT !.status = "PAST_DUE", !.first = first, !.next = now + Retry]
        BY <1>3, <1>5
    <2>2. /\ Unpaid(r).status = "PAST_DUE" /\ Unpaid(r).total = r.total
          /\ Unpaid(r).first = first /\ Unpaid(r).oid = r.oid
        BY <2>1 DEF Row
    <2>3. QED
        BY <1>1, <1>2, <2>2
<1>6. QED
    BY <1>4, <1>5

\* The columns a session writes.
LEMMA MergeIs ==
    ASSUME NEW a \in Row, NEW b \in Row, NEW c \in Row, b.oid = a.oid
    PROVE  \A m : m = Merge(a, b, c) =>
             /\ m.oid = c.oid
             /\ m.status \in {b.status, c.status} /\ m.first \in {b.first, c.first}
             /\ m.total = IF b.total # a.total THEN b.total ELSE c.total
BY DEF Merge, Row

\* What a scheduler records of row q, of which it saw s.
Records(w, q, s) ==
    /\ worker[w].cur = q /\ s = worker[w].seen[q] /\ s # NoRow
    /\ worker'[w].cur = "none" /\ worker'[w].todo = worker[w].todo /\ worker'[w].seen = Unseen
    /\ call'[w] = NoCall
    /\ row'[q].oid = row[q].oid
    /\ Confirmed(w) => /\ receipts'[q] = receipts[q] + 1
                       /\ row'[q].status \in {"ACTIVE", row[q].status}
                       /\ row'[q].first \in {NoTime, row[q].first}
                       /\ row'[q].total = s.total + 1
    /\ ~Confirmed(w) => /\ receipts'[q] = receipts[q] /\ row'[q].total = row[q].total
                        /\ row'[q].status \in {"PAUSED", "PAST_DUE", row[q].status}
                        /\ row'[q].first \in {FailedFirst(s), row[q].first}
                        /\ row'[q].status = "PAUSED" /\ row[q].status # "PAUSED" =>
                             now - FailedFirst(s) >= Grace
    /\ \A x \in Requests : x # q => row'[x] = row[x] /\ receipts'[x] = receipts[x]
    /\ \A x \in Workers : x # w => worker'[x] = worker[x]
    /\ \A x \in Processes : x # w => call'[x] = call[x]

\* What a scheduler commits.
LEMMA CommitIs ==
    ASSUME IInv, NEW w \in Workers, Commit(w)
    PROVE  /\ \E q \in Requests : \E s \in Row : Records(w, q, s)
           /\ UNCHANGED <<contract, mandate, creator, cancel, late, crashes>>
<1>1. ServerTypeOK /\ ContractTypeOK
    BY Parts DEF ContractInv
<1>2. /\ worker \in [Workers -> Worker] /\ worker[w] \in Worker /\ w \in Processes
      /\ row \in [Requests -> Row] /\ receipts \in [Requests -> Nat]
      /\ call \in [Processes -> Call]
      /\ worker[w].cur \in Requests \cup {"none"} /\ worker[w].seen \in [Requests -> Row]
    BY <1>1, ServersKnow, WhoIsWho DEF ServerTypeOK
<1>3. PICK q, s, wanted :
        /\ q = worker[w].cur /\ s = worker[w].seen[q]
        /\ wanted = IF Confirmed(w) THEN Paid(s) ELSE Unpaid(s)
    OBVIOUS
<1>4. /\ q # "none" /\ s # NoRow
      /\ row' = [row EXCEPT ![q] = Merge(s, wanted, @)]
      /\ receipts' = [receipts EXCEPT ![q] = IF Confirmed(w) THEN @ + 1 ELSE @]
      /\ worker' = [worker EXCEPT ![w].cur = "none", ![w].seen = Unseen]
      /\ call' = [call EXCEPT ![w] = NoCall]
      /\ UNCHANGED <<contract, mandate, creator, cancel, late, crashes>>
    BY <1>3 DEF Commit
<1>5. q \in Requests /\ s \in Row /\ row[q] \in Row
    BY <1>2, <1>3, <1>4
<1>6. PICK m : m = Merge(s, wanted, row[q])
    OBVIOUS
<1>7. row'[q] = m /\ \A x \in Requests : x # q => row'[x] = row[x]
    BY <1>2, <1>4, <1>5, <1>6
<1>8. wanted \in Row
    BY <1>1, <1>3, <1>5, OutcomeTypes
<1>9. /\ Confirmed(w) => /\ wanted.status = "ACTIVE" /\ wanted.total = s.total + 1
                         /\ wanted.first = NoTime /\ wanted.oid = s.oid
      /\ ~Confirmed(w) => /\ wanted.status \in {"PAUSED", "PAST_DUE"} /\ wanted.total = s.total
                          /\ wanted.first = FailedFirst(s) /\ wanted.oid = s.oid
                          /\ wanted.status = "PAUSED" => now - FailedFirst(s) >= Grace
    BY <1>3, <1>5, OutcomeIs
<1>10. wanted.oid = s.oid /\ s.total \in Nat
    BY <1>5, <1>9 DEF Row
<1>11. /\ m.oid = row[q].oid
       /\ m.status \in {wanted.status, row[q].status} /\ m.first \in {wanted.first, row[q].first}
       /\ m.total = IF wanted.total # s.total THEN wanted.total ELSE row[q].total
    BY <1>5, <1>6, <1>8, <1>10, MergeIs
<1>12. /\ receipts'[q] = IF Confirmed(w) THEN receipts[q] + 1 ELSE receipts[q]
       /\ \A x \in Requests : x # q => receipts'[x] = receipts[x]
    BY <1>2, <1>4, <1>5
<1>13. /\ worker'[w] = [worker[w] EXCEPT !.cur = "none", !.seen = Unseen]
       /\ \A x \in Workers : x # w => worker'[x] = worker[x]
    BY <1>2, <1>4
<1>14. worker'[w].cur = "none" /\ worker'[w].todo = worker[w].todo /\ worker'[w].seen = Unseen
    BY <1>2, <1>13 DEF Worker
<1>15. call'[w] = NoCall /\ \A x \in Processes : x # w => call'[x] = call[x]
    BY <1>2, <1>4
<1>16. /\ Confirmed(w) => /\ receipts'[q] = receipts[q] + 1
                          /\ row'[q].status \in {"ACTIVE", row[q].status}
                          /\ row'[q].first \in {NoTime, row[q].first}
                          /\ row'[q].total = s.total + 1
       /\ ~Confirmed(w) => /\ receipts'[q] = receipts[q] /\ row'[q].total = row[q].total
                           /\ row'[q].status \in {"PAUSED", "PAST_DUE", row[q].status}
                           /\ row'[q].first \in {FailedFirst(s), row[q].first}
                           /\ row'[q].status = "PAUSED" /\ row[q].status # "PAUSED" =>
                                now - FailedFirst(s) >= Grace
    BY <1>7, <1>9, <1>10, <1>11, <1>12
<1>17. Records(w, q, s)
    BY <1>3, <1>4, <1>7, <1>11, <1>12, <1>13, <1>14, <1>15, <1>16 DEF Records
<1>18. QED
    BY <1>4, <1>5, <1>17

\* A committed outcome leaves the row its id.
LEMMA CommitSlots ==
    ASSUME IInv, Slots, MandateHasOwner, NEW w \in Workers, Commit(w)
    PROVE  Slots' /\ MandateHasOwner'
<1>1. ServerTypeOK
    BY Parts
<1>2. PICK q \in Requests : \E s \in Row : Records(w, q, s)
    BY CommitIs
<1>3. PICK s \in Row : Records(w, q, s)
    BY <1>2
<1>4. UNCHANGED <<mandate, creator, cancel, subscriptions>>
    BY CommitIs DEF contract
<1>5. WorkerSlot(w)
    BY OneWorker DEF Slots
<1>6. row[q].status # "absent"
    BY <1>3, <1>5 DEF WorkerSlot, Records
<1>7. \A x \in Requests :
        \/ row'[x] = row[x]
        \/ /\ row[x].status # "absent" /\ row'[x].oid = row[x].oid
           /\ row'[x].status \in {row[x].status, "ACTIVE", "PAUSED", "PAST_DUE"}
    BY <1>3, <1>6 DEF Records
<1>8. WorkerSlot(w)'
    <2>1. /\ worker'[w].cur = "none" /\ worker'[w].todo = worker[w].todo
          /\ \A x \in Requests : worker'[w].seen[x] = NoRow
          /\ call'[w] = NoCall
        BY <1>3 DEF Records, Unseen
    <2>2. \A x \in Requests : x \in worker[w].todo => row'[x].status # "absent"
        BY <1>5, <1>7 DEF WorkerSlot
    <2>3. QED
        BY <2>1, <2>2, WhoIsWho DEF WorkerSlot
<1>9. /\ \A x \in Processes : x # w => call'[x] = call[x]
      /\ \A x \in Workers : x # w => worker'[x] = worker[x]
    BY <1>3 DEF Records
<1>10. QED
    BY <1>1, <1>4, <1>7, <1>8, <1>9, OneWorkerSteps

\* A cancellation is asked for a row that there is.
LEMMA CancelRequestSlots ==
    ASSUME IInv, Slots, MandateHasOwner, NEW c \in Cancels, NEW q \in Requests, CancelRequest(c, q)
    PROVE  Slots' /\ MandateHasOwner'
<1>1. /\ ServerTypeOK /\ cancel \in [Cancels -> Cancel] /\ call \in [Processes -> Call]
      /\ c \in Processes /\ Len(subscriptions) \in Nat
    BY Parts, WhoIsWho, ContractKnows DEF ServerTypeOK
<1>2. /\ row[q].status \notin {"absent", "CANCELLED"}
      /\ cancel' = [cancel EXCEPT ![c] = [pc |-> "cancelling", target |-> q]]
      /\ call' \in {call, [call EXCEPT ![c] = Ask("cancel", row[q].oid)]}
      /\ UNCHANGED <<row, mandate, creator, worker, subscriptions>>
    BY DEF CancelRequest, tables, contract
<1>3. /\ \A x \in Processes : x # c => call'[x] = call[x]
      /\ call'[c] = call[c] \/ call'[c].fn = "cancel"
    BY <1>1, <1>2, AskIs
<1>4. cancel'[c].target = q /\ \A x \in Cancels : x # c => cancel'[x] = cancel[x]
    BY <1>1, <1>2
<1>5. RequestSlots' /\ MandatesHeld' /\ MandateHasOwner'
    <2>1. \A x \in Requests : call'[x] = call[x]
        BY <1>3, WhoIsWho
    <2>2. QED
        BY <1>1, <1>2, <2>1, RequestsStay
<1>6. CancelSlots'
    BY <1>2, <1>3, <1>4, WhoIsWho DEF Slots, CancelSlots
<1>7. WorkerSlots'
    <2>1. ASSUME NEW w \in Workers PROVE WorkerSlot(w)'
        <3>1. call'[w] = call[w] /\ worker'[w] = worker[w]
            BY <1>2, <1>3, WhoIsWho
        <3>2. \A x \in Requests : RowStays(x)
            BY <1>2 DEF RowStays
        <3>3. QED
            BY <3>1, <3>2, WorkerStays
    <2>2. QED
        BY <2>1, OneWorker
<1>8. QED
    BY <1>5, <1>6, <1>7 DEF Slots

\* What a cancellation records.
LEMMA CancelCommitIs ==
    ASSUME ServerTypeOK, Slots, NEW c \in Cancels, CancelCommit(c)
    PROVE  \E q \in Requests :
             /\ cancel[c].target = q /\ row[q].status # "absent" /\ cancel'[c].pc = "done"
             /\ row'[q].status = "CANCELLED" /\ row'[q].oid = row[q].oid
             /\ row'[q].total = row[q].total /\ row'[q].first = row[q].first
             /\ mandate'[q].status # "ACTIVE" /\ mandate'[q].status \in {mandate[q].status, "REVOKED"}
             /\ \A x \in Requests : x # q => row'[x] = row[x] /\ mandate'[x] = mandate[x]
             /\ \A x \in Cancels : x # c => cancel'[x] = cancel[x]
             /\ call'[c] = NoCall /\ \A x \in Processes : x # c => call'[x] = call[x]
             /\ UNCHANGED <<contract, receipts, creator, worker, late, crashes>>
<1>1. /\ cancel \in [Cancels -> Cancel] /\ call \in [Processes -> Call]
      /\ c \in Processes /\ row \in [Requests -> Row] /\ mandate \in [Requests -> Mandate]
    BY WhoIsWho DEF ServerTypeOK
<1>2. PICK q : q = cancel[c].target
    OBVIOUS
<1>3. /\ cancel[c].pc = "cancelling"
      /\ row' = [row EXCEPT ![q].status = "CANCELLED"]
      /\ mandate' = IF mandate[q].status = "ACTIVE" THEN Revoke(q) ELSE mandate
      /\ cancel' = [cancel EXCEPT ![c].pc = "done"]
      /\ call' = [call EXCEPT ![c] = NoCall]
      /\ UNCHANGED <<contract, receipts, creator, worker, late, crashes>>
    BY <1>2 DEF CancelCommit
<1>4. q \in Requests /\ row[q].status # "absent"
    BY <1>2, <1>3 DEF Slots, CancelSlots
<1>5. row[q] \in Row /\ row'[q] = [row[q] EXCEPT !.status = "CANCELLED"]
    BY <1>1, <1>3, <1>4
<1>6. /\ row'[q].status = "CANCELLED" /\ row'[q].oid = row[q].oid
      /\ row'[q].total = row[q].total /\ row'[q].first = row[q].first
    BY <1>5 DEF Row
<1>7. /\ mandate'[q].status # "ACTIVE" /\ mandate'[q].status \in {mandate[q].status, "REVOKED"}
      /\ \A x \in Requests : x # q => row'[x] = row[x] /\ mandate'[x] = mandate[x]
    BY <1>1, <1>3, <1>4 DEF Revoke, Mandate
<1>8. cancel'[c].pc = "done" /\ \A x \in Cancels : x # c => cancel'[x] = cancel[x]
    BY <1>1, <1>3 DEF Cancel
<1>9. call'[c] = NoCall /\ \A x \in Processes : x # c => call'[x] = call[x]
    BY <1>1, <1>3
<1>10. QED
    BY <1>2, <1>3, <1>4, <1>6, <1>7, <1>8, <1>9

\* A cancelled row leaves no authorization.
LEMMA CancelCommitSlots ==
    ASSUME IInv, Slots, MandateHasOwner, NEW c \in Cancels, CancelCommit(c)
    PROVE  Slots' /\ MandateHasOwner'
<1>1. ServerTypeOK
    BY Parts
<1>2. PICK q \in Requests :
             /\ row[q].status # "absent" /\ cancel'[c].pc = "done"
             /\ row'[q].status = "CANCELLED" /\ row'[q].oid = row[q].oid
             /\ mandate'[q].status # "ACTIVE" /\ mandate'[q].status \in {mandate[q].status, "REVOKED"}
             /\ \A x \in Requests : x # q => row'[x] = row[x] /\ mandate'[x] = mandate[x]
             /\ \A x \in Cancels : x # c => cancel'[x] = cancel[x]
             /\ call'[c] = NoCall /\ \A x \in Processes : x # c => call'[x] = call[x]
             /\ UNCHANGED <<subscriptions, creator, worker>>
    BY <1>1, CancelCommitIs DEF contract
<1>3. \A x \in Requests : RowStays(x)
    BY <1>2 DEF RowStays
<1>4. ASSUME NEW x \in Requests PROVE RequestSlot(x)' /\ MandateHeld(x)' /\ HasOwner(x)'
    <2>1. RequestSlot(x) /\ MandateHeld(x) /\ HasOwner(x)
        BY OneRequest DEF Slots
    <2>2. call'[x] = call[x]
        BY <1>2, WhoIsWho
    <2>3. CASE x = q
        <3>1. RequestSlot(x)'
            BY <1>2, <2>1, <2>2, <2>3 DEF RequestSlot
        <3>2. MandateHeld(x)' /\ HasOwner(x)'
            BY <1>2, <2>1, <2>2, <2>3 DEF MandateHeld, HasOwner
        <3>3. QED
            BY <3>1, <3>2
    <2>4. CASE x # q
        BY <1>2, <2>1, <2>2, <2>4 DEF RequestSlot, MandateHeld, HasOwner
    <2>5. QED
        BY <2>3, <2>4
<1>5. CancelSlots'
    BY <1>2, <1>3, WhoIsWho DEF Slots, CancelSlots, RowStays
<1>6. WorkerSlots'
    <2>1. ASSUME NEW w \in Workers PROVE WorkerSlot(w)'
        <3>1. call'[w] = call[w] /\ worker'[w] = worker[w]
            BY <1>2, WhoIsWho
        <3>2. QED
            BY <1>3, <3>1, WorkerStays
    <2>2. QED
        BY <2>1, OneWorker
<1>7. QED
    BY <1>4, <1>5, <1>6, OneRequest DEF Slots

\* What is lost in a crash.
LEMMA CrashIs ==
    ASSUME ServerTypeOK, NEW p \in Processes, Crash(p)
    PROVE  /\ call'[p] = NoCall /\ \A x \in Processes : x # p => call'[x] = call[x]
           /\ late' \in {late, Append(late, call[p])}
           /\ \A q \in Requests :
                /\ mandate'[q].status = IF q = p /\ mandate[q].status = "flushed"
                                        THEN "absent" ELSE mandate[q].status
                /\ creator'[q].pc = IF q = p THEN "lost" ELSE creator[q].pc
           /\ \A c \in Cancels : cancel'[c].pc = (IF c = p THEN "lost" ELSE cancel[c].pc)
                                 /\ cancel'[c].target = cancel[c].target
           /\ \A w \in Workers : worker'[w] = IF w = p THEN IdleWorker ELSE worker[w]
           /\ UNCHANGED <<contract, row, receipts>>
<1>1. /\ mandate \in [Requests -> Mandate] /\ creator \in [Requests -> Creator]
      /\ cancel \in [Cancels -> Cancel] /\ call \in [Processes -> Call]
    BY DEF ServerTypeOK
<1>2. call'[p] = NoCall /\ \A x \in Processes : x # p => call'[x] = call[x]
    BY <1>1 DEF Crash
<1>3. ASSUME NEW q \in Requests
      PROVE  /\ mandate'[q].status = IF q = p /\ mandate[q].status = "flushed"
                                     THEN "absent" ELSE mandate[q].status
             /\ creator'[q].pc = IF q = p THEN "lost" ELSE creator[q].pc
    <2>1. /\ mandate'[q] = IF q = p /\ mandate[q].status = "flushed"
                           THEN [mandate[q] EXCEPT !.status = "absent"] ELSE mandate[q]
          /\ creator'[q] = IF q = p THEN [creator[q] EXCEPT !.pc = "lost"] ELSE creator[q]
        BY DEF Crash
    <2>2. mandate[q] \in Mandate /\ creator[q] \in Creator
        BY <1>1
    <2>3. QED
        BY <2>1, <2>2 DEF Mandate, Creator
<1>4. ASSUME NEW c \in Cancels
      PROVE  cancel'[c].pc = (IF c = p THEN "lost" ELSE cancel[c].pc)
             /\ cancel'[c].target = cancel[c].target
    <2>1. cancel'[c] = IF c = p THEN [cancel[c] EXCEPT !.pc = "lost"] ELSE cancel[c]
        BY DEF Crash
    <2>2. cancel[c] \in Cancel
        BY <1>1
    <2>3. QED
        BY <2>1, <2>2 DEF Cancel
<1>5. \A w \in Workers : worker'[w] = IF w = p THEN IdleWorker ELSE worker[w]
    BY DEF Crash
<1>6. late' \in {late, Append(late, call[p])} /\ UNCHANGED <<contract, row, receipts>>
    BY DEF Crash
<1>7. QED
    BY <1>2, <1>3, <1>4, <1>5, <1>6

\* A crash leaves no call, and only requests that are known to be lost.
LEMMA CrashSlots ==
    ASSUME IInv, Slots, MandateHasOwner, NEW p \in Processes, Crash(p)
    PROVE  Slots' /\ MandateHasOwner'
<1>1. ServerTypeOK
    BY Parts
<1>2. /\ call'[p] = NoCall /\ \A x \in Processes : x # p => call'[x] = call[x]
      /\ \A q \in Requests :
           /\ mandate'[q].status = IF q = p /\ mandate[q].status = "flushed"
                                   THEN "absent" ELSE mandate[q].status
           /\ creator'[q].pc = IF q = p THEN "lost" ELSE creator[q].pc
      /\ \A c \in Cancels : cancel'[c].pc = (IF c = p THEN "lost" ELSE cancel[c].pc)
                            /\ cancel'[c].target = cancel[c].target
      /\ \A w \in Workers : worker'[w] = IF w = p THEN IdleWorker ELSE worker[w]
      /\ UNCHANGED <<subscriptions, row>>
    BY <1>1, CrashIs DEF contract
<1>3. ASSUME NEW x \in Requests PROVE RequestSlot(x)' /\ MandateHeld(x)' /\ HasOwner(x)'
    <2>1. RequestSlot(x) /\ MandateHeld(x) /\ HasOwner(x)
        BY OneRequest DEF Slots
    <2>2. x # p => call'[x] = call[x]
        BY <1>2, WhoIsWho
    <2>3. RequestSlot(x)'
        BY <1>2, <2>1, <2>2 DEF RequestSlot
    <2>4. MandateHeld(x)'
        BY <1>2, <2>1, <2>2 DEF MandateHeld
    <2>5. HasOwner(x)'
        BY <1>2, <2>1 DEF HasOwner
    <2>6. QED
        BY <2>3, <2>4, <2>5
<1>4. CancelSlots'
    BY <1>2, WhoIsWho DEF Slots, CancelSlots
<1>5. WorkerSlots'
    <2>1. ASSUME NEW w \in Workers PROVE WorkerSlot(w)'
        <3>1. CASE w = p
            <4>1. /\ worker'[w].cur = "none" /\ worker'[w].todo = {} /\ call'[w] = NoCall
                  /\ \A x \in Requests : worker'[w].seen[x] = NoRow
                BY <1>2, <3>1 DEF IdleWorker, Unseen
            <4>2. QED
                BY <4>1, WhoIsWho DEF WorkerSlot
        <3>2. CASE w # p
            <4>1. call'[w] = call[w] /\ worker'[w] = worker[w]
                BY <1>2, <3>2, WhoIsWho
            <4>2. \A x \in Requests : RowStays(x)
                BY <1>2 DEF RowStays
            <4>3. QED
                BY <4>1, <4>2, WorkerStays
        <3>3. QED
            BY <3>1, <3>2
    <2>2. QED
        BY <2>1, OneWorker
<1>6. QED
    BY <1>3, <1>4, <1>5, OneRequest DEF Slots

\* What happens on chain and without a caller changes nothing the servers
\* hold.
LEMMA ServersStaySlots ==
    ASSUME IInv, Slots, MandateHasOwner, Grows, ContractInv',
           UNCHANGED <<tables, creator, cancel, worker, call>>
    PROVE  Slots' /\ MandateHasOwner'
<1>1. /\ ServerTypeOK /\ Len(subscriptions) \in Nat /\ Len(subscriptions)' \in Nat
      /\ Len(subscriptions) <= Len(subscriptions') /\ UNCHANGED <<row, mandate, creator>>
      /\ \A q \in Requests : call'[q] = call[q]
    <2>1. Len(subscriptions)' \in Nat
        BY DEF ContractInv, ContractTypeOK
    <2>2. QED
        BY <2>1, Parts, ContractKnows DEF Grows, tables
<1>2. RequestSlots' /\ MandatesHeld' /\ MandateHasOwner'
    BY <1>1, RequestsStay
<1>3. CancelSlots' /\ WorkerSlots'
    BY <1>1 DEF Slots, CancelSlots, WorkerSlots
<1>4. QED
    BY <1>2, <1>3 DEF Slots

-----------------------------------------------------------------------------
(***************************************************************************)
(* Times, and sums.                                                        *)
(***************************************************************************)

\* Elements that count for nothing do not change a sum.
LEMMA SumDropsZeros ==
    ASSUME NEW S, IsFiniteSet(S), NEW h, \A x \in S : h[x] \in Nat, NEW T \in SUBSET S,
           \A x \in S \ T : h[x] = 0
    PROVE  SumOver(h, S) = SumOver(h, T)
<1>1. PICK F : SumsOf(S, h, F) /\ SumOver(h, S) = F[S]
    BY SumIs
<1>2. PICK G : SumsOf(S, h, G) /\ SumOver(h, T) = G[T]
    BY SumIs
<1>3. F[T] = G[T]
    BY <1>1, <1>2, AddsUpAgree
<1>4. \A R \in SUBSET S : F[R] \in Nat /\ \A x \in R : F[R] = h[x] + F[R \ {x}]
    BY <1>1, AddsUpElement
<1> DEFINE U == S \ T
           Good == {R \in SUBSET U : F[T \cup R] = F[T]}
<1>5. IsFiniteSet(U)
    BY FS_Subset
<1>6. {} \in Good
    <2>1. T \cup {} = T
        OBVIOUS
    <2>2. QED
        BY <2>1
<1>7. ASSUME NEW R \in SUBSET U, R # {}, \A x \in R : R \ {x} \in Good
      PROVE  R \in Good
    <2>1. PICK x \in R : R \ {x} \in Good
        BY <1>7
    <2>2. F[T \cup (R \ {x})] = F[T] /\ h[x] = 0 /\ x \in T \cup R /\ x \notin T
        BY <2>1
    <2>3. (T \cup R) \ {x} = T \cup (R \ {x}) /\ (T \cup R) \in SUBSET S
        BY <2>2
    <2>4. F[T \cup R] = h[x] + F[(T \cup R) \ {x}]
        BY <1>4, <2>2, <2>3
    <2>5. F[T] \in Nat
        BY <1>4
    <2>6. F[T \cup R] = F[T]
        BY <2>2, <2>3, <2>4, <2>5
    <2>7. QED
        BY <2>6
<1>8. SUBSET U \subseteq Good
    <2> HIDE DEF Good, U
    <2>1. QED
        BY <1>5, <1>6, <1>7, SubsetInduction
<1>9. F[T \cup U] = F[T] /\ T \cup U = S
    BY <1>8
<1>10. QED
    BY <1>1, <1>2, <1>3, <1>9

\* Sets that differ in elements that count for nothing.
LEMMA SumsMatch ==
    ASSUME NEW S, NEW T, IsFiniteSet(S), IsFiniteSet(T), NEW h, NEW g,
           \A x \in S \cup T : h[x] \in Nat /\ g[x] = h[x],
           \A x \in S \ T : h[x] = 0, \A x \in T \ S : h[x] = 0
    PROVE  SumOver(g, T) = SumOver(h, S) /\ SumOver(h, S) \in Nat
<1> DEFINE M == S \cap T
<1>1. M \in SUBSET S /\ M \in SUBSET T /\ S \ M = S \ T /\ T \ M = T \ S
    OBVIOUS
<1>2. SumOver(h, S) = SumOver(h, M)
    BY <1>1, SumDropsZeros
<1>3. SumOver(h, T) = SumOver(h, M)
    BY <1>1, SumDropsZeros
<1>4. SumOver(g, T) = SumOver(h, T)
    BY SumsAgree
<1>5. SumOver(h, S) \in Nat
    BY SumsAgree
<1>6. QED
    BY <1>2, <1>3, <1>4, <1>5

\* What steps do to times.
CallsInTime == \A p \in Processes : call'[p].start \in {call[p].start, now, 0}
LateInTime ==
    \/ late' = late
    \/ \E p \in Processes : late' = Append(late, call[p])
    \/ late # <<>> /\ late' = Tail(late)
RowsInTime ==
    \A q \in Requests :
        \/ row'[q].first = NoTime
        \/ /\ row'[q].oid = row[q].oid
           /\ \/ row'[q].first = row[q].first
              \/ row[q].oid # NoId /\ row'[q].first >= subscriptions[row[q].oid].since
SeenInTime ==
    \A w \in Workers, q \in Requests : worker'[w].seen[q] \in {worker[w].seen[q], row[q], NoRow}

\* The agreement a row has is one of the contract's.
LEMMA RowsKnown ==
    ASSUME IInv, Slots
    PROVE  /\ \A q \in Requests : row[q].oid # NoId => row[q].oid \in DOMAIN subscriptions
           /\ \A w \in Workers, q \in Requests :
                /\ worker[w].seen[q].oid # NoId => worker[w].seen[q].oid \in DOMAIN subscriptions
                /\ worker[w].seen[q] = NoRow \/ worker[w].seen[q].oid = row[q].oid
<1>1. ServerTypeOK /\ Len(subscriptions) \in Nat /\ DOMAIN subscriptions = 1..Len(subscriptions)
    BY Parts, ContractKnows
<1>2. \A q \in Requests : row[q].oid \in Nat /\ row[q].oid <= Len(subscriptions)
    BY <1>1, ServersKnow DEF Slots, RequestSlots
<1>3. \A q \in Requests : row[q].oid # NoId => row[q].oid \in DOMAIN subscriptions
    BY <1>1, <1>2 DEF NoId
<1>4. \A w \in Workers, q \in Requests :
        worker[w].seen[q] = NoRow \/ worker[w].seen[q].oid = row[q].oid
    BY DEF Slots, WorkerSlots
<1>5. NoRow.oid = NoId
    BY DEF NoRow
<1>6. QED
    BY <1>3, <1>4, <1>5

\* Transactions that are still to be mined were sent in the past.
LEMMA LateStarts ==
    ASSUME IInv, Timely, LateInTime, now' >= now, now' \in Nat
    PROVE  \A k \in DOMAIN late' : late'[k].start <= now'
<1>1. /\ ServerTypeOK /\ late \in Seq(Call) /\ now \in Nat
    BY Parts, ContractKnows DEF ServerTypeOK
<1>2. /\ \A k \in DOMAIN late : late[k].start <= now /\ late[k] \in Call
      /\ \A p \in Processes : call[p].start <= now /\ call[p] \in Call
    BY <1>1, ServersKnow DEF Timely
<1>3. \A c \in Call : c.start \in Nat
    BY DEF Call
<1>4. \A c \in Call : c.start <= now => c.start <= now'
    BY <1>1, <1>3
<1>5. CASE late' = late
    BY <1>2, <1>4, <1>5
<1>6. ASSUME NEW p \in Processes, late' = Append(late, call[p])
      PROVE  \A k \in DOMAIN late' : late'[k].start <= now'
    <2>1. /\ late' \in Seq(Call) /\ Len(late') = Len(late) + 1
          /\ \A k \in 1..Len(late) : late'[k] = late[k]
          /\ late'[Len(late) + 1] = call[p]
        BY <1>1, <1>2, <1>6, AppendProperties
    <2>2. DOMAIN late' = 1..(Len(late) + 1) /\ DOMAIN late = 1..Len(late) /\ Len(late) \in Nat
        BY <1>1, <2>1
    <2>3. QED
        BY <1>2, <1>4, <2>1, <2>2
<1>7. CASE late # <<>> /\ late' = Tail(late)
    <2>1. /\ late' \in Seq(Call) /\ Len(late') = Len(late) - 1 /\ Len(late) \in Nat
          /\ \A k \in 1..Len(late') : late'[k] = late[k + 1]
        BY <1>1, <1>7, HeadTailProperties
    <2>2. DOMAIN late' = 1..Len(late') /\ DOMAIN late = 1..Len(late)
        BY <1>1, <2>1
    <2>3. ASSUME NEW k \in DOMAIN late' PROVE late'[k].start <= now'
        <3>1. k \in 1..Len(late') /\ k + 1 \in 1..Len(late)
            BY <2>1, <2>2
        <3>2. late'[k] = late[k + 1] /\ k + 1 \in DOMAIN late
            BY <2>1, <2>2, <3>1
        <3>3. late[k + 1].start <= now /\ late[k + 1] \in Call
            BY <1>2, <3>2
        <3>4. QED
            BY <1>4, <3>2, <3>3
    <2>4. QED
        BY <2>3
<1>8. QED
    BY <1>5, <1>6, <1>7 DEF LateInTime

\* Dated, for given agreements.
DatedIn(r, agreements) ==
    r.first # NoTime => r.oid # NoId /\ r.first >= agreements[r.oid].since

\* Times stay in order: no step dates a failure before its agreement.
LEMMA TimelyStep ==
    ASSUME IInv, ContractInv', ServerTypeOK', Slots, Timely, Grows,
           CallsInTime, LateInTime, RowsInTime, SeenInTime
    PROVE  Timely'
<1>1. /\ now \in Nat /\ \A i \in DOMAIN subscriptions : subscriptions[i].since \in Nat
      /\ ServerTypeOK
    BY Parts, ContractKnows
<1>2. /\ now' \in Nat /\ now <= now'
      /\ \A i \in DOMAIN subscriptions : subscriptions'[i].since = subscriptions[i].since
    <2>1. now' \in Nat
        BY ContractAssumption DEF ContractInv, ContractTypeOK
    <2>2. QED
        BY <2>1 DEF Grows
<1>3. \A i \in DOMAIN subscriptions' : subscriptions'[i].since <= now'
    BY <1>1, <1>2 DEF Grows, Timely
<1>4. \A p \in Processes : call'[p].start <= now'
    <2>1. ASSUME NEW p \in Processes PROVE call'[p].start <= now'
        <3>1. call[p].start \in Nat /\ call[p].start <= now
            BY <1>1, ServersKnow DEF Timely
        <3>2. call'[p].start \in {call[p].start, now, 0}
            BY DEF CallsInTime
        <3>3. QED
            BY <1>1, <1>2, <3>1, <3>2
    <2>2. QED
        BY <2>1
<1>5. \A k \in DOMAIN late' : late'[k].start <= now'
    BY <1>2, LateStarts
<1>6. ASSUME NEW r, DatedIn(r, subscriptions), r.oid # NoId => r.oid \in DOMAIN subscriptions
      PROVE  DatedIn(r, subscriptions')
    BY <1>2, <1>6 DEF DatedIn
<1>7. \A q \in Requests : DatedIn(row[q], subscriptions')
    <2>1. \A q \in Requests : DatedIn(row[q], subscriptions)
        BY DEF Timely, Dated, DatedIn
    <2>2. QED
        BY <1>6, <2>1, RowsKnown
<1>8. ASSUME NEW q \in Requests PROVE DatedIn(row'[q], subscriptions')
    <2>1. CASE row'[q].first = NoTime
        BY <2>1 DEF DatedIn
    <2>2. CASE row'[q].oid = row[q].oid /\ row'[q].first = row[q].first
        BY <1>7, <2>2 DEF DatedIn
    <2>3. CASE /\ row'[q].oid = row[q].oid /\ row[q].oid # NoId
               /\ row'[q].first >= subscriptions[row[q].oid].since
        <3>1. subscriptions'[row[q].oid].since = subscriptions[row[q].oid].since
            BY <1>2, <2>3, RowsKnown
        <3>2. QED
            BY <2>3, <3>1 DEF DatedIn
    <2>4. QED
        BY <2>1, <2>2, <2>3 DEF RowsInTime
<1>9. ASSUME NEW w \in Workers, NEW q \in Requests
      PROVE  DatedIn(worker'[w].seen[q], subscriptions')
    <2>1. DatedIn(worker[w].seen[q], subscriptions')
        <3>1. DatedIn(worker[w].seen[q], subscriptions)
            BY DEF Timely, Dated, DatedIn
        <3>2. QED
            BY <1>6, <3>1, RowsKnown
    <2>2. worker'[w].seen[q] \in {worker[w].seen[q], row[q], NoRow}
        BY DEF SeenInTime
    <2>3. DatedIn(NoRow, subscriptions')
        BY DEF NoRow, DatedIn
    <2>4. QED
        BY <1>7, <2>1, <2>2, <2>3
<1>10. /\ \A q \in Requests : Dated(row[q])'
       /\ \A w \in Workers, q \in Requests : Dated(worker[w].seen[q])'
    BY <1>8, <1>9 DEF Dated, DatedIn
<1>11. QED
    BY <1>3, <1>4, <1>5, <1>10 DEF Timely

-----------------------------------------------------------------------------
(***************************************************************************)
(* Totals, receipts and claims.                                            *)
(***************************************************************************)

\* A step that records no payment.
RowsCount ==
    \A q \in Requests :
      /\ receipts'[q] = receipts[q] /\ RowStays(q) /\ row'[q].total <= row[q].total
      /\ row'[q].status = "ACTIVE" => row[q].status = "ACTIVE"
      /\ creator'[q].pc = "first" => creator[q].pc = "first" \/ row[q].status = "absent"

\* A step that neither answers a charge nor records one; and one that may
\* only forget it.
ClaimsStay ==
    \A p \in Processes :
        call'[p].step = "confirmed" /\ call'[p].fn = "execute" =>
          call[p].step = "confirmed" /\ call[p].fn = "execute" /\ call[p].id = call'[p].id

\* What the books say, in the types.
LEMMA BooksKnow ==
    ASSUME IInv, Slots, NEW f \in Firsts
    PROVE  /\ \A q \in Requests :
                /\ f[q] \in Nat /\ receipts[q] \in Nat /\ Booked(f)[q] \in Nat
                /\ Booked(f)[q] = receipts[q] + f[q]
                /\ row[q].status = "absent" => row[q].oid = NoId /\ row[q].total = 0
           /\ \A i : RowsOf(i) \subseteq Requests /\ IsFiniteSet(RowsOf(i))
           /\ \A p \in Processes : call[p].fn = "execute" => call[p].id \in DOMAIN subscriptions
<1>1. ServerTypeOK
    BY Parts
<1>2. \A q \in Requests : f[q] \in Nat /\ receipts[q] \in Nat
    BY <1>1, ServersKnow DEF Firsts
<1>3. \A q \in Requests : Booked(f)[q] = receipts[q] + f[q] /\ Booked(f)[q] \in Nat
    BY <1>2 DEF Booked
<1>4. \A q \in Requests : row[q].status = "absent" => row[q].oid = NoId /\ row[q].total = 0
    BY DEF Slots, RequestSlots, NoRow
<1>5. \A i : RowsOf(i) \subseteq Requests /\ IsFiniteSet(RowsOf(i))
    BY Web3Assumption, FS_Subset DEF RowsOf
<1>6. ASSUME NEW p \in Processes, call[p].fn = "execute"
      PROVE  call[p].id \in DOMAIN subscriptions
    <2>1. call[p] # NoCall
        BY <1>6, AskIs
    <2>2. CASE p \in Requests
        BY <1>6, <2>1, <2>2, RowsKnown DEF Slots, RequestSlots
    <2>3. CASE p \in Cancels
        BY <1>6, <2>1, <2>3 DEF Slots, CancelSlots
    <2>4. CASE p \in Workers
        <3>1. worker[p].cur \in Requests
            BY <1>1, <2>1, <2>4, ServersKnow DEF Slots, WorkerSlots
        <3>2. QED
            BY <2>4, <3>1, RowsKnown DEF Slots, WorkerSlots
    <2>5. QED
        BY <2>2, <2>3, <2>4 DEF Processes
<1>7. QED
    BY <1>2, <1>3, <1>4, <1>5, <1>6

\* The sums stay as well.
LEMMA SumsStay ==
    ASSUME IInv, IInv', Slots, Slots', NEW f \in Firsts, Counted(f), RowsCount,
           NEW i \in DOMAIN subscriptions'
    PROVE  /\ SumOver(Booked(f), RowsOf(i))' \in Nat
           /\ i \in DOMAIN subscriptions =>
                SumOver(Booked(f), RowsOf(i))' = SumOver(Booked(f), RowsOf(i))
           /\ i \notin DOMAIN subscriptions => SumOver(Booked(f), RowsOf(i))' = 0
<1>1. /\ \A q \in Requests :
                /\ Booked(f)[q] \in Nat /\ Booked(f)[q] = receipts[q] + f[q]
                /\ row[q].status = "absent" => row[q].oid = NoId
      /\ \A j : RowsOf(j) \subseteq Requests /\ IsFiniteSet(RowsOf(j))
    BY BooksKnow
<1>2. PICK T, g : T = RowsOf(i)' /\ g = Booked(f)'
    OBVIOUS
<1>3. IsFiniteSet(T) /\ T = {q \in Requests : row'[q].oid = i}
    BY <1>2, Web3Assumption, FS_Subset DEF RowsOf
<1>4. PICK S, h : S = RowsOf(i) /\ h = Booked(f)
    OBVIOUS
<1>5. S = {q \in Requests : row[q].oid = i} /\ IsFiniteSet(S)
    BY <1>1, <1>4 DEF RowsOf
<1>6. \A q \in Requests : h[q] \in Nat /\ h[q] = receipts[q] + f[q] /\ g[q] = h[q]
    <2>1. \A q \in Requests : h[q] \in Nat /\ h[q] = receipts[q] + f[q]
        BY <1>1, <1>4
    <2>2. \A q \in Requests : g[q] = receipts'[q] + f[q]
        BY <1>2 DEF Booked
    <2>3. QED
        BY <2>1, <2>2 DEF RowsCount
<1>7. \A q \in Requests : row[q].status = "absent" => h[q] = 0 /\ row[q].oid = NoId
    BY <1>1, <1>6 DEF Counted
<1>8. i \in Nat \ {NoId}
    BY Parts, ContractKnows DEF IInv, TypeOK, ContractTypeOK, NoId
<1>9. \A q \in Requests : row[q].status # "absent" => row'[q].oid = row[q].oid
    BY DEF RowsCount, RowStays
<1>10. SumOver(g, T) = SumOver(h, S) /\ SumOver(h, S) \in Nat
    <2>1. \A x \in S : x \in T
        BY <1>3, <1>5, <1>7, <1>8, <1>9
    <2>2. \A x \in T \ S : h[x] = 0
        BY <1>3, <1>5, <1>7, <1>9
    <2>3. \A x \in S \cup T : h[x] \in Nat /\ g[x] = h[x]
        BY <1>3, <1>5, <1>6
    <2>4. \A x \in S \ T : h[x] = 0
        BY <2>1
    <2>5. QED
        BY <1>3, <1>5, <2>2, <2>3, <2>4, SumsMatch
<1>11. i \notin DOMAIN subscriptions => SumOver(h, S) = 0
    <2> SUFFICES ASSUME i \notin DOMAIN subscriptions PROVE SumOver(h, S) = 0
        OBVIOUS
    <2>1. S = {}
        BY <1>5, <1>8, RowsKnown
    <2>2. QED
        BY <2>1, SumOfNothing
<1>12. SumOver(Booked(f), RowsOf(i))' = SumOver(g, T)
    BY <1>2
<1>13. SumOver(Booked(f), RowsOf(i)) = SumOver(h, S)
    BY <1>4
<1>14. QED
    BY <1>10, <1>11, <1>12, <1>13

\* A row is active because of a payment, and still is.
LEMMA ActiveStays ==
    ASSUME IInv, IInv', Slots, Grows, NEW q \in Requests, NEW oid, oid = row[q].oid, oid # NoId,
           subscriptions[oid].paymentCount > 0
    PROVE  subscriptions'[oid].paymentCount > 0
<1>1. oid \in DOMAIN subscriptions
    BY RowsKnown
<1>2. subscriptions[oid].paymentCount \in Nat
    BY <1>1, Parts, ContractKnows
<1>3. oid \in DOMAIN subscriptions' /\ subscriptions' \in Seq(SubscriptionData)
    <2>1. /\ Len(subscriptions) \in Nat /\ DOMAIN subscriptions = 1..Len(subscriptions)
        BY Parts, ContractKnows
    <2>2. subscriptions' \in Seq(SubscriptionData)
        BY DEF IInv, TypeOK, ContractTypeOK
    <2>3. Len(subscriptions') \in Nat /\ DOMAIN subscriptions' = 1..Len(subscriptions')
        BY <2>2
    <2>4. QED
        BY <1>1, <2>1, <2>2, <2>3 DEF Grows
<1>4. subscriptions'[oid].paymentCount \in Nat
    <2>1. subscriptions'[oid] \in SubscriptionData
        BY <1>3
    <2>2. QED
        BY <2>1 DEF SubscriptionData
<1>5. subscriptions[oid].paymentCount <= subscriptions'[oid].paymentCount
    BY <1>1 DEF Grows
<1>6. QED
    BY <1>2, <1>4, <1>5

\* No row counts more than it did.
LEMMA CountedStays ==
    ASSUME IInv, IInv', Slots, Slots', Grows, NEW f \in Firsts, Counted(f), RowsCount, SeenInTime
    PROVE  Counted(f)'
<1>1. ServerTypeOK /\ ServerTypeOK'
    BY Parts DEF IInv, TypeOK, ServerTypeOK
<1>2. ASSUME NEW q \in Requests
      PROVE  /\ row'[q].status = "absent" => receipts'[q] = 0 /\ f[q] = 0
             /\ creator'[q].pc = "first" => f[q] = 0
             /\ row'[q].total <= receipts'[q] + f[q]
             /\ row'[q].status = "ACTIVE" =>
                  row'[q].oid # NoId /\ subscriptions'[row'[q].oid].paymentCount > 0
             /\ \A w \in Workers : worker'[w].seen[q].total <= receipts'[q] + f[q]
    <2>1. /\ row[q].status = "absent" => receipts[q] = 0 /\ f[q] = 0
          /\ creator[q].pc = "first" => f[q] = 0
          /\ row[q].total <= receipts[q] + f[q]
          /\ row[q].status = "ACTIVE" =>
               row[q].oid # NoId /\ subscriptions[row[q].oid].paymentCount > 0
          /\ \A w \in Workers : worker[w].seen[q].total <= receipts[q] + f[q]
        BY DEF Counted
    <2>2. /\ receipts'[q] = receipts[q] /\ row'[q].total <= row[q].total
          /\ row[q].status # "absent" => row'[q].status # "absent" /\ row'[q].oid = row[q].oid
          /\ row'[q].status = "ACTIVE" => row[q].status = "ACTIVE"
          /\ creator'[q].pc = "first" => creator[q].pc = "first" \/ row[q].status = "absent"
        BY DEF RowsCount, RowStays
    <2>3. f[q] \in Nat /\ receipts[q] \in Nat /\ row[q].total \in Nat
        BY <1>1, BooksKnow, ServersKnow
    <2>4. row'[q].total \in Nat
        <3>1. row' \in [Requests -> Row]
            BY <1>1 DEF ServerTypeOK
        <3>2. row'[q] \in Row
            BY <3>1
        <3>3. QED
            BY <3>2 DEF Row
    <2>5. row'[q].total <= receipts'[q] + f[q]
        BY <2>1, <2>2, <2>3, <2>4
    <2>6. ASSUME NEW w \in Workers PROVE worker'[w].seen[q].total <= receipts'[q] + f[q]
        <3>1. worker'[w].seen[q] \in {worker[w].seen[q], row[q], NoRow}
            BY DEF SeenInTime
        <3>2. NoRow.total = 0
            BY DEF NoRow
        <3>3. QED
            BY <2>1, <2>2, <2>3, <3>1, <3>2
    <2>7. ASSUME row'[q].status = "ACTIVE"
          PROVE  row'[q].oid # NoId /\ subscriptions'[row'[q].oid].paymentCount > 0
        <3>1. /\ row[q].status = "ACTIVE" /\ row'[q].oid = row[q].oid
              /\ row[q].oid # NoId /\ subscriptions[row[q].oid].paymentCount > 0
            BY <2>1, <2>2, <2>7
        <3>2. PICK oid : oid = row[q].oid
            OBVIOUS
        <3>3. subscriptions'[oid].paymentCount > 0
            BY <3>1, <3>2, ActiveStays
        <3>4. QED
            BY <3>1, <3>2, <3>3
    <2>8. QED
        BY <2>1, <2>2, <2>5, <2>6, <2>7
<1>3. QED
    BY <1>2 DEF Counted

\* Charges that are answered were counted by the contract.
LEMMA BackedStays ==
    ASSUME IInv, IInv', Slots, Slots', Grows, NEW f \in Firsts, Counted(f), Backed(f),
           RowsCount, ClaimsStay
    PROVE  Backed(f)'
<1>1. ASSUME NEW i \in DOMAIN subscriptions'
      PROVE  /\ IsFiniteSet(Claims(i)')
             /\ SumOver(Booked(f), RowsOf(i))' + Cardinality(Claims(i)') <= subscriptions'[i].paymentCount
    <2>1. subscriptions'[i].paymentCount \in Nat
        <3>1. subscriptions' \in Seq(SubscriptionData)
            BY DEF IInv, TypeOK, ContractTypeOK
        <3>2. subscriptions'[i] \in SubscriptionData
            BY <3>1
        <3>3. QED
            BY <3>2 DEF SubscriptionData
    <2>2. Claims(i)' \subseteq Claims(i)
        BY DEF Claims, ClaimsStay
    <2>3. /\ SumOver(Booked(f), RowsOf(i))' \in Nat
          /\ i \in DOMAIN subscriptions =>
               SumOver(Booked(f), RowsOf(i))' = SumOver(Booked(f), RowsOf(i))
          /\ i \notin DOMAIN subscriptions => SumOver(Booked(f), RowsOf(i))' = 0
        BY SumsStay
    <2>4. CASE i \in DOMAIN subscriptions
        <3>1. /\ IsFiniteSet(Claims(i))
              /\ SumOver(Booked(f), RowsOf(i)) + Cardinality(Claims(i)) <= subscriptions[i].paymentCount
            BY <2>4 DEF Backed
        <3>2. IsFiniteSet(Claims(i)') /\ Cardinality(Claims(i)') <= Cardinality(Claims(i))
            BY <2>2, <3>1, FS_Subset
        <3>3. Cardinality(Claims(i)') \in Nat /\ Cardinality(Claims(i)) \in Nat
            BY <3>1, <3>2, FS_CardinalityType
        <3>4. /\ subscriptions[i].paymentCount \in Nat
              /\ subscriptions[i].paymentCount <= subscriptions'[i].paymentCount
            BY <2>4, Parts, ContractKnows DEF Grows
        <3>5. QED
            BY <2>1, <2>3, <2>4, <3>1, <3>2, <3>3, <3>4
    <2>5. CASE i \notin DOMAIN subscriptions
        <3>1. Claims(i) = {}
            BY <2>5, BooksKnow DEF Claims
        <3>2. Claims(i)' = {}
            BY <2>2, <3>1
        <3>3. IsFiniteSet(Claims(i)') /\ Cardinality(Claims(i)') = 0
            BY <3>2, FS_EmptySet
        <3>4. QED
            BY <2>1, <2>3, <2>5, <3>3
    <2>6. QED
        BY <2>4, <2>5
<1>2. QED
    BY <1>1 DEF Backed

\* A charge that was executed is one claim more, and one payment more.
LEMMA BackedByCharge ==
    ASSUME IInv, IInv', Slots, Slots', Grows, NEW f \in Firsts, Counted(f), Backed(f), RowsCount,
           NEW p \in Processes, NEW id, id \in DOMAIN subscriptions,
           subscriptions'[id].paymentCount = subscriptions[id].paymentCount + 1,
           \A i : Claims(i)' = IF i = id THEN Claims(i) \cup {p} ELSE Claims(i)
    PROVE  Backed(f)'
<1>1. ASSUME NEW i \in DOMAIN subscriptions'
      PROVE  /\ IsFiniteSet(Claims(i)')
             /\ SumOver(Booked(f), RowsOf(i))' + Cardinality(Claims(i)') <= subscriptions'[i].paymentCount
    <2>1. subscriptions'[i].paymentCount \in Nat
        <3>1. subscriptions' \in Seq(SubscriptionData)
            BY DEF IInv, TypeOK, ContractTypeOK
        <3>2. subscriptions'[i] \in SubscriptionData
            BY <3>1
        <3>3. QED
            BY <3>2 DEF SubscriptionData
    <2>2. Claims(i)' = IF i = id THEN Claims(i) \cup {p} ELSE Claims(i)
        OBVIOUS
    <2>3. /\ SumOver(Booked(f), RowsOf(i))' \in Nat
          /\ i \in DOMAIN subscriptions =>
               SumOver(Booked(f), RowsOf(i))' = SumOver(Booked(f), RowsOf(i))
          /\ i \notin DOMAIN subscriptions => SumOver(Booked(f), RowsOf(i))' = 0
        BY SumsStay
    <2>4. CASE i \in DOMAIN subscriptions
        <3>1. /\ IsFiniteSet(Claims(i))
              /\ SumOver(Booked(f), RowsOf(i)) + Cardinality(Claims(i)) <= subscriptions[i].paymentCount
            BY <2>4 DEF Backed
        <3>2. Cardinality(Claims(i)) \in Nat
            BY <3>1, FS_CardinalityType
        <3>3. /\ subscriptions[i].paymentCount \in Nat
              /\ subscriptions[i].paymentCount <= subscriptions'[i].paymentCount
            BY <2>4, Parts, ContractKnows DEF Grows
        <3>4. CASE i = id
            <4>1. /\ IsFiniteSet(Claims(i) \cup {p})
                  /\ Cardinality(Claims(i) \cup {p}) \in {Cardinality(Claims(i)), Cardinality(Claims(i)) + 1}
                BY <3>1, FS_AddElement
            <4>2. Claims(i)' = Claims(i) \cup {p}
                BY <2>2, <3>4
            <4>3. subscriptions'[i].paymentCount = subscriptions[i].paymentCount + 1
                BY <3>4
            <4>4. PICK n : n = Cardinality(Claims(i)')
                OBVIOUS
            <4>5. n <= Cardinality(Claims(i)) + 1 /\ n \in Nat
                BY <3>2, <4>1, <4>2, <4>4
            <4>6. QED
                BY <2>3, <2>4, <3>1, <3>2, <3>3, <4>1, <4>2, <4>3, <4>4, <4>5
        <3>5. CASE i # id
            <4>1. Claims(i)' = Claims(i)
                BY <2>2, <3>5
            <4>2. QED
                BY <2>1, <2>3, <2>4, <3>1, <3>2, <3>3, <4>1
        <3>6. QED
            BY <3>4, <3>5
    <2>5. CASE i \notin DOMAIN subscriptions
        <3>1. Claims(i) = {}
            BY <2>5, BooksKnow DEF Claims
        <3>2. Claims(i)' = {}
            BY <2>2, <2>5, <3>1
        <3>3. IsFiniteSet(Claims(i)') /\ Cardinality(Claims(i)') = 0
            BY <3>2, FS_EmptySet
        <3>4. QED
            BY <2>1, <2>3, <2>5, <3>3
    <2>6. QED
        BY <2>4, <2>5
<1>2. QED
    BY <1>1 DEF Backed

\* A payment that is recorded is one claim less, and one record more.
LEMMA BackedByRecord ==
    ASSUME IInv, Slots, NEW f \in Firsts, Backed(f), NEW g \in Firsts,
           UNCHANGED subscriptions, NEW q \in Requests, NEW p \in Processes,
           \A x \in Requests : row'[x].oid = row[x].oid,
           \A x \in Requests : receipts'[x] \in Nat,
           \A x \in Requests : x # q => receipts'[x] + g[x] = receipts[x] + f[x],
           receipts'[q] + g[q] = receipts[q] + f[q] + 1,
           p \in Claims(row[q].oid),
           \A i : Claims(i)' = Claims(i) \ {p}
    PROVE  Backed(g)' /\ subscriptions[row[q].oid].paymentCount > 0
<1>1. /\ \A x \in Requests : Booked(f)[x] \in Nat /\ Booked(f)[x] = receipts[x] + f[x]
      /\ \A i : RowsOf(i) \subseteq Requests /\ IsFiniteSet(RowsOf(i))
      /\ \A x \in Processes : call[x].fn = "execute" => call[x].id \in DOMAIN subscriptions
    BY BooksKnow
<1>2. PICK h, k : h = Booked(f) /\ k = Booked(g)'
    OBVIOUS
<1>3. \A x \in Requests : k[x] \in Nat /\ k[x] = receipts'[x] + g[x]
    <2>1. \A x \in Requests : k[x] = receipts'[x] + g[x]
        BY <1>2 DEF Booked
    <2>2. \A x \in Requests : g[x] \in Nat
        BY DEF Firsts
    <2>3. QED
        BY <2>1, <2>2
<1>4. \A x \in Requests : h[x] \in Nat /\ h[x] = receipts[x] + f[x]
    BY <1>1, <1>2
<1>5. (\A x \in Requests : x # q => k[x] = h[x]) /\ k[q] = h[q] + 1
    BY <1>3, <1>4
<1>6. ASSUME NEW i \in DOMAIN subscriptions
      PROVE  /\ IsFiniteSet(Claims(i)')
             /\ SumOver(k, RowsOf(i)) + Cardinality(Claims(i)') <= subscriptions[i].paymentCount
             /\ p \in Claims(i) => subscriptions[i].paymentCount > 0
    <2>1. /\ IsFiniteSet(Claims(i))
          /\ SumOver(h, RowsOf(i)) + Cardinality(Claims(i)) <= subscriptions[i].paymentCount
        BY <1>2 DEF Backed
    <2>2. RowsOf(i) \subseteq Requests /\ IsFiniteSet(RowsOf(i))
        BY <1>1
    <2>3. SumOver(h, RowsOf(i)) \in Nat
        BY <1>4, <2>2, SumsAgree
    <2>4. subscriptions[i].paymentCount \in Nat /\ Cardinality(Claims(i)) \in Nat
        BY <2>1, Parts, ContractKnows, FS_CardinalityType
    <2>5. CASE i = row[q].oid
        <3>1. q \in RowsOf(i) /\ p \in Claims(i)
            BY <2>5 DEF RowsOf
        <3>2. PICK R : R = RowsOf(i) \ {q}
            OBVIOUS
        <3>3. IsFiniteSet(R) /\ R \subseteq Requests /\ q \notin R
            BY <2>2, <3>2, FS_Subset
        <3>4. SumOver(h, RowsOf(i)) = SumOver(h, R) + h[q] /\ SumOver(h, R) \in Nat
            BY <1>4, <2>2, <3>1, <3>2, SumAdds
        <3>5. SumOver(k, RowsOf(i)) = SumOver(k, R) + k[q]
            BY <1>3, <2>2, <3>1, <3>2, SumAdds
        <3>6. SumOver(k, R) = SumOver(h, R)
            BY <1>4, <1>5, <3>3, SumsAgree
        <3>7. SumOver(k, RowsOf(i)) = SumOver(h, RowsOf(i)) + 1
            BY <1>4, <1>5, <3>4, <3>5, <3>6
        <3>8. PICK C : C = Claims(i) \ {p}
            OBVIOUS
        <3>9. IsFiniteSet(C) /\ Cardinality(C) = Cardinality(Claims(i)) - 1 /\ Claims(i)' = C
            BY <2>1, <3>1, <3>8, FS_RemoveElement
        <3>10. Cardinality(C) \in Nat
            BY <3>9, FS_CardinalityType
        <3>11. QED
            BY <2>1, <2>3, <2>4, <3>7, <3>9, <3>10
    <2>6. CASE i # row[q].oid
        <3>1. q \notin RowsOf(i)
            BY <2>6 DEF RowsOf
        <3>2. SumOver(k, RowsOf(i)) = SumOver(h, RowsOf(i))
            BY <1>4, <1>5, <2>2, <3>1, SumsAgree
        <3>3. p \notin Claims(i)
            BY <2>6 DEF Claims
        <3>4. Claims(i)' = Claims(i)
            BY <3>3
        <3>5. QED
            BY <2>1, <3>2, <3>3, <3>4
    <2>7. QED
        BY <2>5, <2>6
<1>7. \A i : RowsOf(i)' = RowsOf(i)
    BY DEF RowsOf
<1>8. \A i : SumOver(Booked(g), RowsOf(i))' = SumOver(k, RowsOf(i))
    BY <1>2, <1>7
<1>9. Backed(g)'
    BY <1>6, <1>8 DEF Backed
<1>10. row[q].oid \in DOMAIN subscriptions
    BY <1>1 DEF Claims
<1>11. QED
    BY <1>6, <1>9, <1>10

-----------------------------------------------------------------------------
(***************************************************************************)
(* Steps that record no payment.                                           *)
(***************************************************************************)

Moves == Grows /\ CallsInTime /\ LateInTime /\ RowsInTime /\ SeenInTime
Plain == RowsCount /\ ClaimsStay

\* A step that records nothing keeps the books.
LEMMA PlainStep ==
    ASSUME BooksInv, IInv', Slots', MandateHasOwner', Moves, Plain
    PROVE  BooksInv'
<1>1. /\ IInv /\ Slots /\ Timely /\ Grows /\ CallsInTime /\ LateInTime /\ RowsInTime /\ SeenInTime
      /\ RowsCount /\ ClaimsStay
    BY DEF BooksInv, Moves, Plain
<1>2. ContractInv' /\ ServerTypeOK'
    BY DEF IInv, TypeOK, ContractInv, ServerTypeOK
<1>3. Timely'
    BY <1>1, <1>2, TimelyStep
<1>4. PICK f \in Firsts : Counted(f) /\ Backed(f)
    BY DEF BooksInv
<1>5. Counted(f)'
    BY <1>1, <1>4, CountedStays
<1>6. Backed(f)'
    BY <1>1, <1>4, BackedStays
<1>7. Firsts' = Firsts
    BY DEF Firsts
<1>8. \E g \in Firsts : Counted(g)' /\ Backed(g)'
    BY <1>4, <1>5, <1>6
<1>9. QED
    BY <1>3, <1>7, <1>8 DEF BooksInv

\* Nothing is done on chain.
LEMMA NothingOnChain == ASSUME IInv, UNCHANGED contract PROVE Grows
<1>1. ContractInv /\ UNCHANGED subscriptions /\ now' = now
    BY Parts DEF contract
<1>2. QED
    BY <1>1, StaysGrows

\* Steps that leave rows, records and what schedulers saw.
LEMMA QuietStep ==
    ASSUME IInv, UNCHANGED <<contract, row, receipts, worker, late>>,
           \A p \in Processes :
             call'[p] = call[p] \/ (call'[p].start = 0 /\ call'[p].step # "confirmed"),
           \A q \in Requests : creator'[q].pc = "first" => creator[q].pc = "first"
    PROVE  Moves /\ Plain
<1>1. Grows
    BY NothingOnChain
<1>2. CallsInTime /\ ClaimsStay
    BY DEF CallsInTime, ClaimsStay
<1>3. LateInTime /\ RowsInTime /\ SeenInTime
    BY DEF LateInTime, RowsInTime, SeenInTime
<1>4. RowsCount
    <2>1. \A q \in Requests : row[q].total <= row[q].total
        BY Parts, ServersKnow
    <2>2. QED
        BY <2>1 DEF RowsCount, RowStays
<1>5. QED
    BY <1>1, <1>2, <1>3, <1>4 DEF Moves, Plain

\* No call is no confirmation.
LEMMA IdleCall == NoCall.step # "confirmed" /\ NoCall.start = 0
BY AskIs

\* Until its row is recorded a request touches no book.
LEMMA BeforeTheRow ==
    ASSUME IInv, NEW q \in Requests, Sign(q) \/ Authorize(q) \/ CreationFailed(q)
    PROVE  Moves /\ Plain
<1>1. /\ call \in [Processes -> Call] /\ q \in Processes /\ creator \in [Requests -> Creator]
    BY Parts, WhoIsWho DEF ServerTypeOK
<1>2. CASE Sign(q)
    <2>1. /\ creator' = [creator EXCEPT ![q] = [pc |-> "signed", nonce |-> NextNonce]]
          /\ UNCHANGED <<contract, row, receipts, worker, late, call>>
        BY <1>2 DEF Sign, tables
    <2>2. \A x \in Requests : creator'[x].pc = "first" => creator[x].pc = "first"
        BY <1>1, <2>1
    <2>3. QED
        BY <2>1, <2>2, QuietStep
<1>3. CASE Authorize(q)
    <2>1. /\ call' \in {call, [call EXCEPT ![q] = Ask("create", NoId)]}
          /\ creator' \in {[creator EXCEPT ![q].pc = "creating"], [creator EXCEPT ![q].pc = "done"]}
          /\ UNCHANGED <<contract, row, receipts, worker, late>>
        BY <1>3 DEF Authorize
    <2>2. \A x \in Requests : creator'[x].pc = "first" => creator[x].pc = "first"
        BY <1>1, <2>1 DEF Creator
    <2>3. \A p \in Processes : call'[p] = call[p] \/ call'[p] = Ask("create", NoId)
        BY <1>1, <2>1
    <2>4. QED
        BY <2>1, <2>2, <2>3, AskIs, QuietStep
<1>4. CASE CreationFailed(q)
    <2>1. /\ call' = [call EXCEPT ![q] = NoCall]
          /\ creator' = [creator EXCEPT ![q].pc = "done"]
          /\ UNCHANGED <<contract, row, receipts, worker, late>>
        BY <1>4 DEF CreationFailed
    <2>2. \A x \in Requests : creator'[x].pc = "first" => creator[x].pc = "first"
        BY <1>1, <2>1 DEF Creator
    <2>3. \A p \in Processes : call'[p] = call[p] \/ call'[p] = NoCall
        BY <1>1, <2>1
    <2>4. QED
        BY <2>1, <2>2, <2>3, IdleCall, QuietStep
<1>5. QED
    BY <1>2, <1>3, <1>4

\* A recorded creation counts no payment.
LEMMA RecordMoves ==
    ASSUME IInv, Slots, NEW q \in Requests, RecordSubscription(q)
    PROVE  Moves /\ Plain
<1>1. ServerTypeOK /\ q \in Processes
    BY Parts, WhoIsWho
<1>2. /\ creator[q].pc = "creating" /\ UNCHANGED <<contract, receipts, worker, late>>
    BY <1>1, RecordIs
<1>3. PICK oid \in {subscriptionCount, NoId} : RecordedAs(q, oid)
    BY <1>1, RecordIs
<1>4. /\ row'[q].status = "PENDING_PAYMENT" /\ row'[q].first = NoTime /\ row'[q].total = 0
      /\ \A x \in Requests : x # q => row'[x] = row[x] /\ creator'[x] = creator[x]
      /\ call'[q] \in {NoCall, Ask("execute", oid)}
      /\ \A x \in Processes : x # q => call'[x] = call[x]
    BY <1>3 DEF RecordedAs
<1>5. row[q].status = "absent"
    BY <1>2 DEF Slots, RequestSlots
<1>6. Grows
    BY <1>2, NothingOnChain
<1>7. \A p \in Processes :
             call'[p] = call[p] \/ (call'[p].start = 0 /\ call'[p].step # "confirmed")
    BY <1>4, AskIs
<1>8. CallsInTime /\ ClaimsStay
    BY <1>7 DEF CallsInTime, ClaimsStay
<1>9. LateInTime /\ RowsInTime /\ SeenInTime
    BY <1>2, <1>4 DEF LateInTime, RowsInTime, SeenInTime
<1>10. RowsCount
    <2>1. \A x \in Requests : row[x].total \in Nat
        BY <1>1, ServersKnow
    <2>2. ASSUME NEW x \in Requests
          PROVE  /\ receipts'[x] = receipts[x] /\ RowStays(x) /\ row'[x].total <= row[x].total
                 /\ row'[x].status = "ACTIVE" => row[x].status = "ACTIVE"
                 /\ creator'[x].pc = "first" => creator[x].pc = "first" \/ row[x].status = "absent"
        BY <1>2, <1>4, <1>5, <2>1 DEF RowStays
    <2>3. QED
        BY <2>2 DEF RowsCount
<1>11. QED
    BY <1>6, <1>8, <1>9, <1>10 DEF Moves, Plain

\* When a charge failed, the agreement it was for existed already.
LEMMA FailedInTime ==
    ASSUME IInv, Slots, Timely, NEW q \in Requests, row[q].oid # NoId
    PROVE  /\ now >= subscriptions[row[q].oid].since
           /\ \A w \in Workers : \A s : s = worker[w].seen[q] /\ s # NoRow =>
                FailedFirst(s) >= subscriptions[row[q].oid].since
<1>1. /\ now \in Nat /\ \A i \in DOMAIN subscriptions : subscriptions[i].since \in Nat
    BY Parts, ContractKnows
<1>2. row[q].oid \in DOMAIN subscriptions
    BY RowsKnown
<1>3. now >= subscriptions[row[q].oid].since
    BY <1>1, <1>2 DEF Timely
<1>4. ASSUME NEW w \in Workers, NEW s, s = worker[w].seen[q], s # NoRow
      PROVE  FailedFirst(s) >= subscriptions[row[q].oid].since
    <2>1. s.oid = row[q].oid /\ Dated(s)
        BY <1>4, RowsKnown DEF Timely
    <2>2. QED
        BY <1>3, <2>1 DEF Dated, FailedFirst
<1>5. QED
    BY <1>3, <1>4

\* A failed first payment is dated after the agreement.
LEMMA FirstPaymentTimes ==
    ASSUME IInv, Slots, Timely, NEW q \in Requests, FirstPayment(q)
    PROVE  Moves
<1>1. ServerTypeOK /\ now \in Nat /\ q \in Processes
    BY Parts, ContractKnows, WhoIsWho
<1>2. /\ creator[q].pc = "first" /\ call'[q] = NoCall
      /\ UNCHANGED <<contract, worker, late>>
      /\ row'[q].oid = row[q].oid /\ row'[q].first \in {NoTime, now}
      /\ \A x \in Requests : x # q => row'[x] = row[x]
      /\ \A x \in Processes : x # q => call'[x] = call[x]
    BY <1>1, FirstPaymentIs
<1>3. row[q].oid # NoId
    BY <1>2 DEF Slots, RequestSlots
<1>4. now >= subscriptions[row[q].oid].since
    BY <1>3, FailedInTime
<1>5. Grows
    BY <1>2, NothingOnChain
<1>6. CallsInTime
    BY <1>2, IdleCall DEF CallsInTime
<1>7. LateInTime /\ SeenInTime
    BY <1>2 DEF LateInTime, SeenInTime
<1>8. RowsInTime
    BY <1>2, <1>3, <1>4 DEF RowsInTime
<1>9. QED
    BY <1>5, <1>6, <1>7, <1>8 DEF Moves

\* A failed first payment counts nothing.
LEMMA FirstFailsPlain ==
    ASSUME IInv, Slots, NEW q \in Requests, FirstPayment(q), ~Confirmed(q)
    PROVE  Plain
<1>1. ServerTypeOK /\ now \in Nat
    BY Parts, ContractKnows
<1>2. /\ creator'[q].pc = "done" /\ call'[q] = NoCall /\ UNCHANGED receipts
      /\ row'[q].oid = row[q].oid /\ row'[q].status = "PAST_DUE" /\ row'[q].total = row[q].total
      /\ \A x \in Requests : x # q => row'[x] = row[x] /\ creator'[x] = creator[x]
      /\ \A x \in Processes : x # q => call'[x] = call[x]
    BY <1>1, FirstPaymentIs
<1>3. ClaimsStay
    BY <1>2, IdleCall DEF ClaimsStay
<1>4. \A x \in Requests : row[x].total \in Nat
    BY <1>1, ServersKnow
<1>5. RowsCount
    BY <1>2, <1>4 DEF RowsCount, RowStays
<1>6. QED
    BY <1>3, <1>5 DEF Plain

\* A failure that a scheduler records is dated after the agreement.
LEMMA CommitTimes ==
    ASSUME IInv, Slots, Timely, NEW w \in Workers, Commit(w)
    PROVE  Moves
<1>1. PICK q \in Requests : \E s \in Row : Records(w, q, s)
    BY CommitIs
<1>2. PICK s \in Row : Records(w, q, s)
    BY <1>1
<1>3. UNCHANGED <<contract, late>>
    BY CommitIs
<1>4. /\ worker[w].cur = q /\ s = worker[w].seen[q] /\ s # NoRow /\ call'[w] = NoCall
      /\ worker'[w].seen = Unseen
      /\ row'[q].oid = row[q].oid /\ row'[q].first \in {NoTime, FailedFirst(s), row[q].first}
      /\ \A x \in Requests : x # q => row'[x] = row[x]
      /\ \A x \in Workers : x # w => worker'[x] = worker[x]
      /\ \A x \in Processes : x # w => call'[x] = call[x]
    BY <1>2 DEF Records
<1>5. row[q].oid # NoId
    BY <1>4 DEF Slots, WorkerSlots
<1>6. FailedFirst(s) >= subscriptions[row[q].oid].since
    BY <1>4, <1>5, FailedInTime
<1>7. Grows
    BY <1>3, NothingOnChain
<1>8. CallsInTime
    BY <1>4, IdleCall DEF CallsInTime
<1>9. LateInTime
    BY <1>3 DEF LateInTime
<1>10. SeenInTime
    BY <1>4 DEF SeenInTime, Unseen
<1>11. RowsInTime
    BY <1>4, <1>5, <1>6 DEF RowsInTime
<1>12. QED
    BY <1>7, <1>8, <1>9, <1>10, <1>11 DEF Moves

\* A failure that a scheduler records counts nothing.
LEMMA CommitFailsPlain ==
    ASSUME IInv, Slots, NEW w \in Workers, Commit(w), ~Confirmed(w)
    PROVE  Plain
<1>1. PICK q \in Requests : \E s \in Row : Records(w, q, s)
    BY CommitIs
<1>2. PICK s \in Row : Records(w, q, s)
    BY <1>1
<1>3. UNCHANGED creator
    BY CommitIs
<1>4. /\ worker[w].cur = q /\ s = worker[w].seen[q] /\ s # NoRow /\ call'[w] = NoCall
      /\ row'[q].oid = row[q].oid /\ row'[q].total = row[q].total /\ receipts'[q] = receipts[q]
      /\ row'[q].status \in {"PAUSED", "PAST_DUE", row[q].status}
      /\ \A x \in Requests : x # q => row'[x] = row[x] /\ receipts'[x] = receipts[x]
      /\ \A x \in Processes : x # w => call'[x] = call[x]
    BY <1>2 DEF Records
<1>5. ClaimsStay
    BY <1>4, IdleCall DEF ClaimsStay
<1>6. \A x \in Requests : row[x].total \in Nat
    BY Parts, ServersKnow
<1>7. RowsCount
    BY <1>3, <1>4, <1>6 DEF RowsCount, RowStays
<1>8. QED
    BY <1>5, <1>7 DEF Plain

\* Reading touches no book.
LEMMA ReadMoves ==
    ASSUME IInv, Slots, NEW w \in Workers,
           Cycle(w) \/ Reload(w) \/ (\E q \in Requests : Begin(w, q))
    PROVE  Moves /\ Plain
<1>1. /\ ServerTypeOK /\ worker \in [Workers -> Worker] /\ call \in [Processes -> Call]
      /\ worker[w].seen \in [Requests -> Row]
    BY Parts, ServersKnow DEF ServerTypeOK
<1>2. SUFFICES ASSUME UNCHANGED <<contract, row, receipts, creator, late>>, SeenInTime,
                      \A p \in Processes : call'[p] = call[p] \/ (call'[p].start = 0 /\ call'[p].step # "confirmed")
               PROVE  Moves /\ Plain
    <2>1. CASE Cycle(w)
        <3>1. PICK due, seen :
                 /\ due \in SUBSET Requests
                 /\ \A q \in due : Due(row[q])
                 /\ seen = [q \in Requests |-> IF q \in due THEN row[q] ELSE NoRow]
                 /\ worker[w] = IdleWorker
                 /\ worker' = [worker EXCEPT ![w] =
                                  [IdleWorker EXCEPT !.todo = due, !.seen = seen]]
                 /\ UNCHANGED <<contract, tables, creator, cancel, call, late, crashes>>
            BY <2>1, CycleIs
        <3>2. UNCHANGED <<contract, row, receipts, creator, late, call>>
            BY <3>1 DEF tables
        <3>3. worker' = [worker EXCEPT ![w] = [IdleWorker EXCEPT !.todo = due, !.seen = seen]]
            BY <3>1
        <3>4. worker'[w].seen = seen /\ \A x \in Workers : x # w => worker'[x] = worker[x]
            BY <1>1, <3>3 DEF IdleWorker
        <3>5. SeenInTime
            BY <3>1, <3>4 DEF SeenInTime
        <3>6. QED
            BY <1>2, <3>2, <3>5
    <2>2. CASE Reload(w)
        <3>1. PICK q \in Requests :
                 /\ worker'[w].seen[q] = row[q]
                 /\ \A x \in Requests : x # q => worker'[w].seen[x] = worker[w].seen[x]
                 /\ \A x \in Workers : x # w => worker'[x] = worker[x]
                 /\ UNCHANGED <<contract, tables, creator, cancel, call, late, crashes>>
            BY <1>1, <2>2, ReloadIs
        <3>2. SeenInTime
            BY <3>1 DEF SeenInTime
        <3>3. QED
            BY <1>2, <3>1, <3>2 DEF tables
    <2>3. ASSUME NEW q \in Requests, Begin(w, q) PROVE Moves /\ Plain
        <3>1. /\ BeginsWith(w, q) \/ Skips(w)
              /\ \A x \in Workers : x # w => worker'[x] = worker[x]
              /\ UNCHANGED <<contract, tables, creator, cancel, late, crashes>>
            BY <1>1, <2>3, BeginIs
        <3>2. CASE Skips(w)
            <4>1. SeenInTime
                BY <3>1, <3>2 DEF SeenInTime, Skips, Unseen
            <4>2. QED
                BY <1>2, <3>1, <3>2, <4>1 DEF Skips, tables
        <3>3. CASE BeginsWith(w, q)
            <4>1. PICK r : r = Loaded(w, q)
                OBVIOUS
            <4>2. /\ worker'[w].seen = [worker[w].seen EXCEPT ![q] = r]
                  /\ call' = [call EXCEPT ![w] = Ask("execute", r.oid)]
                BY <3>3, <4>1 DEF BeginsWith
            <4>3. r \in {row[q], worker[w].seen[q]}
                BY <4>1 DEF Loaded
            <4>4. SeenInTime
                BY <1>1, <3>1, <4>2, <4>3 DEF SeenInTime
            <4>5. \A p \in Processes : call'[p] = call[p] \/ call'[p] = Ask("execute", r.oid)
                BY <1>1, <4>2
            <4>6. QED
                BY <1>2, <3>1, <4>4, <4>5, AskIs DEF tables
        <3>4. QED
            BY <3>1, <3>2, <3>3
    <2>4. QED
        BY <2>1, <2>2, <2>3
<1>3. Grows
    BY <1>2, NothingOnChain
<1>4. CallsInTime /\ ClaimsStay
    BY <1>2 DEF CallsInTime, ClaimsStay
<1>5. LateInTime /\ RowsInTime
    BY <1>2 DEF LateInTime, RowsInTime
<1>6. RowsCount
    <2>1. \A q \in Requests : row[q].total <= row[q].total
        BY <1>1, ServersKnow
    <2>2. QED
        BY <1>2, <2>1 DEF RowsCount, RowStays
<1>7. QED
    BY <1>2, <1>3, <1>4, <1>5, <1>6 DEF Moves, Plain

-----------------------------------------------------------------------------
(***************************************************************************)
(* Steps that are told of a payment, or record one.                        *)
(***************************************************************************)

\* A charge that a receipt confirms is one that the contract executed.
LEMMA RelayMoves ==
    ASSUME IInv, Slots, Timely, NEW p \in Processes, Relay(p)
    PROVE  /\ Moves /\ RowsCount
           /\ ClaimsStay \/ (/\ call[p].id \in DOMAIN subscriptions
                             /\ subscriptions'[call[p].id].paymentCount = subscriptions[call[p].id].paymentCount + 1
                             /\ \A i : Claims(i)' = IF i = call[p].id THEN Claims(i) \cup {p} ELSE Claims(i))
<1>1. ServerTypeOK /\ ContractInv /\ call[p] \in Call /\ call[p].start <= now
    BY Parts, ServersKnow DEF Timely
<1>2. /\ Answering(p) /\ Committing(p)
      /\ UNCHANGED <<row, receipts, creator, cancel>>
      /\ late' \in {late, Append(late, call[p])}
      /\ \/ call'[p].step # "confirmed" /\ UNCHANGED contract
         \/ /\ Include(call[p])
            /\ call'[p].step = "confirmed" => Accepts(call[p])
            /\ call'[p].start = call[p].start
    BY <1>1, RelayIs
<1>3. CallsInTime
    BY <1>2 DEF CallsInTime, Answering
<1>4. LateInTime /\ RowsInTime
    BY <1>2 DEF LateInTime, RowsInTime
<1>5. SeenInTime
    BY <1>2 DEF SeenInTime, Committing, Unseen
<1>6. RowsCount
    <2>1. \A q \in Requests : row[q].total <= row[q].total
        BY <1>1, ServersKnow
    <2>2. QED
        BY <1>2, <2>1 DEF RowsCount, RowStays
<1>7. /\ call[p].step # "confirmed" /\ call'[p].fn = call[p].fn /\ call'[p].id = call[p].id
      /\ \A x \in Processes : x # p => call'[x] = call[x]
    BY <1>2 DEF Answering
<1>8. CASE call'[p].step # "confirmed" /\ UNCHANGED contract
    <2>1. ClaimsStay
        BY <1>7, <1>8 DEF ClaimsStay
    <2>2. Grows
        BY <1>8, NothingOnChain
    <2>3. QED
        BY <1>3, <1>4, <1>5, <1>6, <2>1, <2>2 DEF Moves
<1>9. CASE /\ Include(call[p])
           /\ call'[p].step = "confirmed" => Accepts(call[p])
    <2>1. PICK c : c = call[p]
        OBVIOUS
    <2>2. /\ Grows
          /\ c.fn = "execute" /\ Accepts(c) =>
               /\ c.id \in DOMAIN subscriptions
               /\ subscriptions'[c.id].paymentCount = subscriptions[c.id].paymentCount + 1
        BY <1>1, <1>9, <2>1, IncludeGrows
    <2>3. CASE call'[p].step = "confirmed" /\ c.fn = "execute"
        <3>1. /\ c.id \in DOMAIN subscriptions
              /\ subscriptions'[c.id].paymentCount = subscriptions[c.id].paymentCount + 1
            BY <1>9, <2>1, <2>2, <2>3
        <3>2. \A i : Claims(i)' = IF i = c.id THEN Claims(i) \cup {p} ELSE Claims(i)
            <4>1. ASSUME NEW i
                  PROVE  \A x : x \in Claims(i)' <=> x \in Claims(i) \/ (x = p /\ i = c.id)
                <5>1. \A x : x \in Claims(i)' <=>
                        x \in Processes /\ call'[x].step = "confirmed" /\ call'[x].fn = "execute"
                        /\ call'[x].id = i
                    BY DEF Claims
                <5>2. \A x : x \in Claims(i) <=>
                        x \in Processes /\ call[x].step = "confirmed" /\ call[x].fn = "execute"
                        /\ call[x].id = i
                    BY DEF Claims
                <5>3. QED
                    BY <1>7, <2>1, <2>3, <5>1, <5>2
            <4>2. QED
                BY <4>1
        <3>3. QED
            BY <1>3, <1>4, <1>5, <1>6, <2>1, <2>2, <3>1, <3>2 DEF Moves
    <2>4. CASE ~(call'[p].step = "confirmed" /\ c.fn = "execute")
        <3>1. ClaimsStay
            BY <1>7, <2>1, <2>4 DEF ClaimsStay
        <3>2. QED
            BY <1>3, <1>4, <1>5, <1>6, <2>2, <3>1 DEF Moves
    <2>5. QED
        BY <2>3, <2>4
<1>10. QED
    BY <1>2, <1>8, <1>9

\* The relayer keeps the books.
LEMMA RelayBooks ==
    ASSUME BooksInv, IInv', NEW p \in Processes, Relay(p)
    PROVE  BooksInv'
<1>1. IInv /\ Slots /\ Timely /\ MandateHasOwner /\ ServerTypeOK
    BY Parts DEF BooksInv
<1>2. /\ Moves /\ RowsCount
      /\ ClaimsStay \/ (/\ call[p].id \in DOMAIN subscriptions
                        /\ subscriptions'[call[p].id].paymentCount = subscriptions[call[p].id].paymentCount + 1
                        /\ \A i : Claims(i)' = IF i = call[p].id THEN Claims(i) \cup {p} ELSE Claims(i))
    BY <1>1, RelayMoves
<1>3. Slots' /\ MandateHasOwner'
    <2>1. Len(subscriptions) \in Nat /\ Len(subscriptions)' \in Nat
        <3>1. Len(subscriptions)' \in Nat
            BY DEF IInv, TypeOK, ContractTypeOK
        <3>2. QED
            BY <1>1, <3>1, Parts, ContractKnows
    <2>2. Len(subscriptions) <= Len(subscriptions')
        BY <1>2 DEF Moves, Grows
    <2>3. QED
        BY <1>1, <2>1, <2>2, RelayKeepsSlots
<1>4. CASE ClaimsStay
    BY <1>2, <1>3, <1>4, PlainStep DEF Plain
<1>5. CASE /\ call[p].id \in DOMAIN subscriptions
           /\ subscriptions'[call[p].id].paymentCount = subscriptions[call[p].id].paymentCount + 1
           /\ \A i : Claims(i)' = IF i = call[p].id THEN Claims(i) \cup {p} ELSE Claims(i)
    <2>1. /\ Grows /\ CallsInTime /\ LateInTime /\ RowsInTime /\ SeenInTime
        BY <1>2 DEF Moves
    <2>2. ContractInv' /\ ServerTypeOK'
        BY DEF IInv, TypeOK, ContractInv, ServerTypeOK
    <2>3. Timely'
        BY <1>1, <2>1, <2>2, TimelyStep
    <2>4. PICK f \in Firsts : Counted(f) /\ Backed(f)
        BY DEF BooksInv
    <2>5. Counted(f)'
        BY <1>1, <1>2, <1>3, <2>1, <2>4, CountedStays
    <2>6. PICK id : id = call[p].id
        OBVIOUS
    <2>7. Backed(f)'
        BY <1>1, <1>2, <1>3, <1>5, <2>1, <2>4, <2>6, BackedByCharge
    <2>8. Firsts' = Firsts
        BY DEF Firsts
    <2>9. \E g \in Firsts : Counted(g)' /\ Backed(g)'
        BY <2>4, <2>5, <2>7
    <2>10. QED
        BY <1>3, <2>3, <2>8, <2>9 DEF BooksInv
<1>6. QED
    BY <1>2, <1>4, <1>5

\* Claims after an answer was recorded.
LEMMA ClaimsWithout ==
    ASSUME NEW p \in Processes, call'[p] = NoCall,
           \A x \in Processes : x # p => call'[x] = call[x]
    PROVE  \A i : Claims(i)' = Claims(i) \ {p}
<1>1. call'[p].step # "confirmed"
    BY IdleCall
<1>2. ASSUME NEW i PROVE \A x : x \in Claims(i)' <=> x \in Claims(i) \ {p}
    <2>1. \A x : x \in Claims(i)' <=>
            x \in Processes /\ call'[x].step = "confirmed" /\ call'[x].fn = "execute"
            /\ call'[x].id = i
        BY DEF Claims
    <2>2. \A x : x \in Claims(i) <=>
            x \in Processes /\ call[x].step = "confirmed" /\ call[x].fn = "execute"
            /\ call[x].id = i
        BY DEF Claims
    <2>3. QED
        BY <1>1, <2>1, <2>2
<1>3. QED
    BY <1>2

\* A first payment that was confirmed is counted from now on.
LEMMA FirstPaymentBooks ==
    ASSUME BooksInv, IInv', NEW q \in Requests, FirstPayment(q)
    PROVE  BooksInv'
<1>1. /\ IInv /\ Slots /\ Timely /\ MandateHasOwner /\ ServerTypeOK /\ q \in Processes
      /\ now \in Nat
    BY Parts, WhoIsWho, ContractKnows DEF BooksInv
<1>2. Slots' /\ MandateHasOwner'
    BY <1>1, FirstPaymentSlots
<1>3. Moves
    BY <1>1, FirstPaymentTimes
<1>4. CASE ~Confirmed(q)
    BY <1>1, <1>2, <1>3, <1>4, FirstFailsPlain, PlainStep
<1>5. CASE Confirmed(q)
    <2>1. PICK f \in Firsts : Counted(f) /\ Backed(f)
        BY DEF BooksInv
    <2>2. PICK g : g = [f EXCEPT ![q] = 1]
        OBVIOUS
    <2>3. /\ g \in Firsts /\ g[q] = 1 /\ \A x \in Requests : x # q => g[x] = f[x]
        BY <2>1, <2>2 DEF Firsts
    <2>4. /\ creator[q].pc = "first" /\ creator'[q].pc = "done" /\ call'[q] = NoCall
          /\ UNCHANGED <<contract, mandate, receipts, cancel, worker, late, crashes>>
          /\ row'[q].oid = row[q].oid
          /\ row'[q].status = "ACTIVE" /\ row'[q].total = 1
          /\ \A x \in Requests : x # q => row'[x] = row[x] /\ creator'[x] = creator[x]
          /\ \A x \in Processes : x # q => call'[x] = call[x]
        BY <1>1, <1>5, FirstPaymentIs
    <2>5. /\ call[q].fn = "execute" /\ call[q].id = row[q].oid /\ row[q].oid # NoId
        BY <1>1, <2>4 DEF Slots, RequestSlots
    <2>6. f[q] = 0
        BY <2>1, <2>4 DEF Counted
    <2>7. q \in Claims(row[q].oid)
        BY <1>1, <1>5, <2>5 DEF Claims, Confirmed
    <2>8. \A i : Claims(i)' = Claims(i) \ {q}
        BY <1>1, <2>4, ClaimsWithout
    <2>9. \A x \in Requests : receipts[x] \in Nat /\ f[x] \in Nat
        BY <1>1, <2>1, BooksKnow
    <2>10. Backed(g)' /\ subscriptions[row[q].oid].paymentCount > 0
        <3>1. UNCHANGED subscriptions /\ receipts' = receipts
            BY <2>4 DEF contract
        <3>2. \A x \in Requests : row'[x].oid = row[x].oid
            BY <2>4
        <3>3. /\ \A x \in Requests : receipts'[x] \in Nat
              /\ \A x \in Requests : x # q => receipts'[x] + g[x] = receipts[x] + f[x]
              /\ receipts'[q] + g[q] = receipts[q] + f[q] + 1
            BY <2>3, <2>6, <2>9, <3>1
        <3>4. QED
            BY <1>1, <2>1, <2>3, <2>7, <2>8, <3>1, <3>2, <3>3, BackedByRecord
    <2>11. Counted(g)'
        <3>1. ASSUME NEW x \in Requests
              PROVE  /\ row'[x].status = "absent" => receipts'[x] = 0 /\ g[x] = 0
                     /\ creator'[x].pc = "first" => g[x] = 0
                     /\ row'[x].total <= receipts'[x] + g[x]
                     /\ row'[x].status = "ACTIVE" =>
                          row'[x].oid # NoId /\ subscriptions'[row'[x].oid].paymentCount > 0
                     /\ \A w \in Workers : worker'[w].seen[x].total <= receipts'[x] + g[x]
            <4>1. /\ row[x].status = "absent" => receipts[x] = 0 /\ f[x] = 0
                  /\ creator[x].pc = "first" => f[x] = 0
                  /\ row[x].total <= receipts[x] + f[x]
                  /\ row[x].status = "ACTIVE" =>
                       row[x].oid # NoId /\ subscriptions[row[x].oid].paymentCount > 0
                  /\ \A w \in Workers : worker[w].seen[x].total <= receipts[x] + f[x]
                BY <2>1 DEF Counted
            <4>2. UNCHANGED <<receipts, worker, subscriptions>>
                BY <2>4 DEF contract
            <4>3. CASE x # q
                BY <2>3, <2>4, <4>1, <4>2, <4>3
            <4>4. CASE x = q
                <5>1. \A w \in Workers : worker[w].seen[q].total \in Nat
                    BY <1>1, ServersKnow
                <5>2. \A w \in Workers : worker'[w].seen[q].total <= receipts'[q] + g[q]
                    BY <2>3, <2>6, <2>9, <4>1, <4>2, <4>4, <5>1
                <5>3. row'[q].total <= receipts'[q] + g[q]
                    BY <2>3, <2>4, <2>9, <4>2
                <5>4. row'[q].oid # NoId /\ subscriptions'[row'[q].oid].paymentCount > 0
                    BY <2>4, <2>5, <2>10, <4>2
                <5>5. QED
                    BY <2>4, <4>4, <5>2, <5>3, <5>4
            <4>5. QED
                BY <4>3, <4>4
        <3>2. QED
            BY <3>1 DEF Counted
    <2>12. Timely'
        <3>1. ContractInv' /\ ServerTypeOK'
            BY DEF IInv, TypeOK, ContractInv, ServerTypeOK
        <3>2. QED
            BY <1>1, <1>3, <3>1, TimelyStep DEF Moves
    <2>13. Firsts' = Firsts
        BY DEF Firsts
    <2>14. \E k \in Firsts : Counted(k)' /\ Backed(k)'
        BY <2>3, <2>10, <2>11
    <2>15. QED
        BY <1>2, <2>12, <2>13, <2>14 DEF BooksInv
<1>6. QED
    BY <1>4, <1>5

\* A payment that a scheduler was told of is recorded with one payment more.
LEMMA CommitBooks ==
    ASSUME BooksInv, IInv', NEW w \in Workers, Commit(w)
    PROVE  BooksInv'
<1>1. /\ IInv /\ Slots /\ Timely /\ MandateHasOwner /\ ServerTypeOK /\ w \in Processes
    BY Parts, WhoIsWho DEF BooksInv
<1>2. Slots' /\ MandateHasOwner'
    BY <1>1, CommitSlots
<1>3. Moves
    BY <1>1, CommitTimes
<1>4. CASE ~Confirmed(w)
    BY <1>1, <1>2, <1>3, <1>4, CommitFailsPlain, PlainStep
<1>5. CASE Confirmed(w)
    <2>1. PICK f \in Firsts : Counted(f) /\ Backed(f)
        BY DEF BooksInv
    <2>2. PICK q \in Requests : \E s \in Row : Records(w, q, s)
        BY <1>1, CommitIs
    <2>3. PICK s \in Row : Records(w, q, s)
        BY <2>2
    <2>4. UNCHANGED <<contract, mandate, creator, cancel, late, crashes>>
        BY <1>1, CommitIs
    <2>5. /\ worker[w].cur = q /\ s = worker[w].seen[q] /\ s # NoRow /\ call'[w] = NoCall
          /\ worker'[w].seen = Unseen
          /\ row'[q].oid = row[q].oid /\ receipts'[q] = receipts[q] + 1
          /\ row'[q].status \in {"ACTIVE", row[q].status} /\ row'[q].total = s.total + 1
          /\ \A x \in Requests : x # q => row'[x] = row[x] /\ receipts'[x] = receipts[x]
          /\ \A x \in Workers : x # w => worker'[x] = worker[x]
          /\ \A x \in Processes : x # w => call'[x] = call[x]
        BY <1>5, <2>3 DEF Records
    <2>6. /\ call[w].fn = "execute" /\ call[w].id = row[q].oid /\ row[q].oid # NoId
          /\ row[q].status # "absent"
        BY <1>1, <2>5 DEF Slots, WorkerSlots
    <2>7. w \in Claims(row[q].oid)
        BY <1>1, <1>5, <2>6 DEF Claims, Confirmed
    <2>8. \A i : Claims(i)' = Claims(i) \ {w}
        BY <1>1, <2>5, ClaimsWithout
    <2>9. \A x \in Requests : receipts[x] \in Nat /\ f[x] \in Nat
        BY <1>1, <2>1, BooksKnow
    <2>10. Backed(f)' /\ subscriptions[row[q].oid].paymentCount > 0
        <3>1. UNCHANGED subscriptions
            BY <2>4 DEF contract
        <3>2. \A x \in Requests : row'[x].oid = row[x].oid
            BY <2>5
        <3>3. /\ \A x \in Requests : receipts'[x] \in Nat
              /\ \A x \in Requests : x # q => receipts'[x] + f[x] = receipts[x] + f[x]
              /\ receipts'[q] + f[q] = receipts[q] + f[q] + 1
            BY <2>5, <2>9
        <3>4. QED
            BY <1>1, <2>1, <2>7, <2>8, <3>1, <3>2, <3>3, BackedByRecord
    <2>11. Counted(f)'
        <3>1. ASSUME NEW x \in Requests
              PROVE  /\ row'[x].status = "absent" => receipts'[x] = 0 /\ f[x] = 0
                     /\ creator'[x].pc = "first" => f[x] = 0
                     /\ row'[x].total <= receipts'[x] + f[x]
                     /\ row'[x].status = "ACTIVE" =>
                          row'[x].oid # NoId /\ subscriptions'[row'[x].oid].paymentCount > 0
                     /\ \A v \in Workers : worker'[v].seen[x].total <= receipts'[x] + f[x]
            <4>1. /\ row[x].status = "absent" => receipts[x] = 0 /\ f[x] = 0
                  /\ creator[x].pc = "first" => f[x] = 0
                  /\ row[x].total <= receipts[x] + f[x]
                  /\ row[x].status = "ACTIVE" =>
                       row[x].oid # NoId /\ subscriptions[row[x].oid].paymentCount > 0
                  /\ \A v \in Workers : worker[v].seen[x].total <= receipts[x] + f[x]
                BY <2>1 DEF Counted
            <4>2. UNCHANGED <<creator, subscriptions>>
                BY <2>4 DEF contract
            <4>3. /\ \A v \in Workers : worker[v].seen[x].total \in Nat
                  /\ NoRow.total = 0 /\ receipts[x] \in Nat /\ f[x] \in Nat
                BY <1>1, <2>9, ServersKnow DEF NoRow
            <4>4. \A v \in Workers : worker'[v].seen[x] \in {worker[v].seen[x], NoRow}
                BY <2>5 DEF Unseen
            <4>5. CASE x # q
                <5>1. /\ row'[x] = row[x] /\ receipts'[x] = receipts[x]
                    BY <2>5, <4>5
                <5>2. \A v \in Workers : worker'[v].seen[x].total <= receipts[x] + f[x]
                    BY <4>1, <4>3, <4>4
                <5>3. QED
                    BY <4>1, <4>2, <5>1, <5>2
            <4>6. CASE x = q
                <5>1. \A v \in Workers : worker'[v].seen[q].total <= receipts[q] + 1 + f[q]
                    <6>1. ASSUME NEW v \in Workers
                          PROVE  worker'[v].seen[q].total <= receipts[q] + 1 + f[q]
                        <7>1. worker[v].seen[q].total \in Nat /\ worker[v].seen[q].total <= receipts[q] + f[q]
                            BY <4>1, <4>3, <4>6
                        <7>2. worker'[v].seen[q].total \in {worker[v].seen[q].total, 0}
                            BY <4>3, <4>4, <4>6
                        <7>3. receipts[q] \in Nat /\ f[q] \in Nat
                            BY <2>9
                        <7>4. QED
                            BY <7>1, <7>2, <7>3
                    <6>2. QED
                        BY <6>1
                <5>2. row'[q].total <= receipts[q] + 1 + f[q]
                    <6>1. s.total \in Nat /\ s.total <= receipts[q] + f[q]
                        BY <2>5, <4>1, <4>3, <4>6
                    <6>2. QED
                        BY <2>5, <2>9, <6>1
                <5>3. row'[q].oid # NoId /\ subscriptions'[row'[q].oid].paymentCount > 0
                    BY <2>5, <2>6, <2>10, <4>2
                <5>4. row'[q].status # "absent"
                    BY <2>5, <2>6
                <5>5. creator'[q].pc = "first" => f[q] = 0
                    BY <4>1, <4>2, <4>6
                <5>6. QED
                    BY <2>5, <4>6, <5>1, <5>2, <5>3, <5>4, <5>5
            <4>7. QED
                BY <4>5, <4>6
        <3>2. QED
            BY <3>1 DEF Counted
    <2>12. Timely'
        <3>1. ContractInv' /\ ServerTypeOK'
            BY DEF IInv, TypeOK, ContractInv, ServerTypeOK
        <3>2. QED
            BY <1>1, <1>3, <3>1, TimelyStep DEF Moves
    <2>13. Firsts' = Firsts
        BY DEF Firsts
    <2>14. \E k \in Firsts : Counted(k)' /\ Backed(k)'
        BY <2>1, <2>10, <2>11
    <2>15. QED
        BY <1>2, <2>12, <2>13, <2>14 DEF BooksInv
<1>6. QED
    BY <1>4, <1>5

-----------------------------------------------------------------------------
(***************************************************************************)
(* Every step.                                                             *)
(***************************************************************************)

\* A cancellation touches no book.
LEMMA CancelMoves ==
    ASSUME IInv, Slots, NEW c \in Cancels,
           CancelCommit(c) \/ (\E q \in Requests : CancelRequest(c, q))
    PROVE  Moves /\ Plain
<1>1. /\ ServerTypeOK /\ call \in [Processes -> Call] /\ c \in Processes
      /\ \A x \in Requests : row[x].total \in Nat
    BY Parts, ServersKnow, WhoIsWho DEF ServerTypeOK
<1>2. ASSUME NEW q \in Requests, CancelRequest(c, q) PROVE Moves /\ Plain
    <2>1. /\ call' \in {call, [call EXCEPT ![c] = Ask("cancel", row[q].oid)]}
          /\ UNCHANGED <<contract, row, receipts, worker, late, creator>>
        BY <1>2 DEF CancelRequest, tables
    <2>2. \A p \in Processes : call'[p] = call[p] \/ call'[p] = Ask("cancel", row[q].oid)
        BY <1>1, <2>1
    <2>3. QED
        BY <2>1, <2>2, AskIs, QuietStep
<1>3. CASE CancelCommit(c)
    <2>1. PICK q \in Requests :
             /\ row[q].status # "absent"
             /\ row'[q].status = "CANCELLED" /\ row'[q].oid = row[q].oid
             /\ row'[q].total = row[q].total /\ row'[q].first = row[q].first
             /\ \A x \in Requests : x # q => row'[x] = row[x]
             /\ call'[c] = NoCall /\ \A x \in Processes : x # c => call'[x] = call[x]
             /\ UNCHANGED <<contract, receipts, creator, worker, late>>
        BY <1>1, <1>3, CancelCommitIs
    <2>2. Grows
        BY <2>1, NothingOnChain
    <2>3. CallsInTime /\ ClaimsStay
        BY <2>1, IdleCall DEF CallsInTime, ClaimsStay
    <2>4. LateInTime /\ RowsInTime /\ SeenInTime
        BY <2>1 DEF LateInTime, RowsInTime, SeenInTime
    <2>5. RowsCount
        BY <1>1, <2>1 DEF RowsCount, RowStays
    <2>6. QED
        BY <2>2, <2>3, <2>4, <2>5 DEF Moves, Plain
<1>4. QED
    BY <1>2, <1>3

\* A crash only forgets claims.
LEMMA CrashMoves ==
    ASSUME IInv, NEW p \in Processes, Crash(p)
    PROVE  Moves /\ Plain
<1>1. ServerTypeOK /\ \A x \in Requests : row[x].total \in Nat
    BY Parts, ServersKnow
<1>2. /\ call'[p] = NoCall /\ \A x \in Processes : x # p => call'[x] = call[x]
      /\ late' \in {late, Append(late, call[p])}
      /\ \A q \in Requests : creator'[q].pc = IF q = p THEN "lost" ELSE creator[q].pc
      /\ \A w \in Workers : worker'[w] = IF w = p THEN IdleWorker ELSE worker[w]
      /\ UNCHANGED <<contract, row, receipts>>
    BY <1>1, CrashIs
<1>3. Grows
    BY <1>2, NothingOnChain
<1>4. CallsInTime /\ ClaimsStay
    BY <1>2, IdleCall DEF CallsInTime, ClaimsStay
<1>5. LateInTime /\ RowsInTime
    BY <1>2 DEF LateInTime, RowsInTime
<1>6. SeenInTime
    BY <1>2 DEF SeenInTime, IdleWorker, Unseen
<1>7. RowsCount
    BY <1>1, <1>2 DEF RowsCount, RowStays
<1>8. QED
    BY <1>3, <1>4, <1>5, <1>6, <1>7 DEF Moves, Plain

\* What happens outside the backend only adds payments.
LEMMA ChainMoves ==
    ASSUME IInv, Timely, MineLate \/ Outside
    PROVE  Moves /\ Plain /\ UNCHANGED <<tables, creator, cancel, worker, call>>
<1>1. /\ ServerTypeOK /\ ContractInv /\ \A x \in Requests : row[x].total <= row[x].total
    BY Parts, ServersKnow
<1>2. /\ UNCHANGED <<tables, creator, cancel, worker, call>>
      /\ late' = late \/ (late # <<>> /\ late' = Tail(late))
    BY DEF MineLate, Outside
<1>3. Grows
    <2>1. CASE MineLate
        <3>1. late # <<>> /\ late \in Seq(Call)
            BY <1>1, <2>1 DEF MineLate, ServerTypeOK
        <3>2. Head(late) \in Call /\ Head(late) = late[1] /\ 1 \in DOMAIN late
            BY <3>1, HeadTailProperties
        <3>3. Head(late).start <= now
            BY <3>2 DEF Timely
        <3>4. Include(Head(late))
            BY <2>1 DEF MineLate
        <3>5. QED
            BY <1>1, <3>2, <3>3, <3>4, IncludeGrows
    <2>2. CASE Outside
        <3>1. CASE Tick \/ TogglePause \/ ToggleFunds
            BY <1>1, <3>1, StaysGrows DEF Tick, TogglePause, ToggleFunds
        <3>2. CASE \E i \in DOMAIN subscriptions : CancelSubscription(i)
            BY <1>1, <3>2, CloseGrows
        <3>3. QED
            BY <2>2, <3>1, <3>2 DEF Outside
    <2>3. QED
        BY <2>1, <2>2
<1>4. CallsInTime /\ ClaimsStay /\ LateInTime /\ RowsInTime /\ SeenInTime
    BY <1>2 DEF CallsInTime, ClaimsStay, LateInTime, RowsInTime, SeenInTime, tables
<1>5. RowsCount
    BY <1>1, <1>2 DEF RowsCount, RowStays, tables
<1>6. QED
    BY <1>2, <1>3, <1>4, <1>5 DEF Moves, Plain

\* Every step keeps the books.
LEMMA BooksStep ==
    ASSUME BooksInv, [Next]_vars
    PROVE  BooksInv'
<1>1. IInv /\ Slots /\ Timely /\ MandateHasOwner
    BY DEF BooksInv
<1>2. IInv'
    BY <1>1, InvariantStep
<1>3. /\ Workers \subseteq Processes /\ Requests \subseteq Processes /\ Cancels \subseteq Processes
    BY WhoIsWho
<1>4. ASSUME NEW q \in Requests, RequestStep(q) PROVE BooksInv'
    <2>1. CASE Sign(q)
        BY <1>1, <1>2, <2>1, SignSlots, BeforeTheRow, PlainStep
    <2>2. CASE Authorize(q)
        BY <1>1, <1>2, <2>2, AuthorizeSlots, BeforeTheRow, PlainStep
    <2>3. CASE CreationFailed(q)
        BY <1>1, <1>2, <2>3, CreationFailedSlots, BeforeTheRow, PlainStep
    <2>4. CASE RecordSubscription(q)
        BY <1>1, <1>2, <2>4, RecordSlots, RecordMoves, PlainStep
    <2>5. CASE FirstPayment(q)
        BY <1>2, <2>5, FirstPaymentBooks
    <2>6. CASE Relay(q)
        BY <1>2, <1>3, <2>6, RelayBooks
    <2>7. QED
        BY <1>4, <2>1, <2>2, <2>3, <2>4, <2>5, <2>6 DEF RequestStep
<1>5. ASSUME NEW c \in Cancels, CancelStep(c) PROVE BooksInv'
    <2>1. CASE CancelCommit(c)
        BY <1>1, <1>2, <2>1, CancelCommitSlots, CancelMoves, PlainStep
    <2>2. ASSUME NEW q \in Requests, CancelRequest(c, q) PROVE BooksInv'
        <3>1. Slots' /\ MandateHasOwner'
            BY <1>1, <2>2, CancelRequestSlots
        <3>2. Moves /\ Plain
            BY <1>1, <2>2, CancelMoves
        <3>3. QED
            BY <1>2, <3>1, <3>2, PlainStep
    <2>3. CASE Relay(c)
        BY <1>2, <1>3, <2>3, RelayBooks
    <2>4. QED
        BY <1>5, <2>1, <2>2, <2>3 DEF CancelStep
<1>6. ASSUME NEW w \in Workers, WorkerStep(w) PROVE BooksInv'
    <2>1. CASE Cycle(w)
        BY <1>1, <1>2, <2>1, CycleSlots, ReadMoves, PlainStep
    <2>2. CASE Reload(w)
        BY <1>1, <1>2, <2>2, ReloadSlots, ReadMoves, PlainStep
    <2>3. ASSUME NEW q \in Requests, Begin(w, q) PROVE BooksInv'
        <3>1. Slots' /\ MandateHasOwner'
            BY <1>1, <2>3, BeginSlots
        <3>2. Moves /\ Plain
            BY <1>1, <2>3, ReadMoves
        <3>3. QED
            BY <1>2, <3>1, <3>2, PlainStep
    <2>4. CASE Commit(w)
        BY <1>2, <2>4, CommitBooks
    <2>5. CASE Relay(w)
        BY <1>2, <1>3, <2>5, RelayBooks
    <2>6. QED
        BY <1>6, <2>1, <2>2, <2>3, <2>4, <2>5 DEF WorkerStep
<1>7. ASSUME NEW p \in Processes, Crash(p) PROVE BooksInv'
    BY <1>1, <1>2, <1>7, CrashSlots, CrashMoves, PlainStep
<1>8. CASE MineLate \/ Outside
    <2>1. Moves /\ Plain /\ UNCHANGED <<tables, creator, cancel, worker, call>>
        BY <1>1, <1>8, ChainMoves
    <2>2. ContractInv'
        BY <1>2 DEF IInv, TypeOK, ContractInv
    <2>3. Slots' /\ MandateHasOwner'
        BY <1>1, <2>1, <2>2, ServersStaySlots DEF Moves
    <2>4. QED
        BY <1>2, <2>1, <2>3, PlainStep
<1>9. CASE UNCHANGED vars
    <2>1. UNCHANGED <<contract, tables, creator, cancel, worker, call, late>>
        BY <1>9 DEF vars, contract, tables
    <2>2. Moves /\ Plain
        BY <1>1, <2>1, QuietStep DEF tables
    <2>3. ContractInv'
        BY <1>2 DEF IInv, TypeOK, ContractInv
    <2>4. Slots' /\ MandateHasOwner'
        BY <1>1, <2>1, <2>2, <2>3, ServersStaySlots DEF Moves
    <2>5. QED
        BY <1>2, <2>2, <2>4, PlainStep
<1>10. QED
    BY <1>4, <1>5, <1>6, <1>7, <1>8, <1>9 DEF Next

\* The books are kept from the start.
LEMMA BooksInitially == Init => BooksInv
<1> SUFFICES ASSUME Init PROVE BooksInv
    OBVIOUS
<1>1. IInv
    BY Initially
<1>2. /\ row = [q \in Requests |-> NoRow] /\ receipts = [q \in Requests |-> 0]
      /\ creator = [q \in Requests |-> [pc |-> "new", nonce |-> 0]]
      /\ cancel = [c \in Cancels |-> [pc |-> "idle", target |-> "none"]]
      /\ worker = [w \in Workers |-> IdleWorker] /\ call = [p \in Processes |-> NoCall]
      /\ mandate = [q \in Requests |-> [status |-> "absent", nonce |-> 0]]
      /\ late = <<>> /\ subscriptions = <<>> /\ now = 0
    BY DEF Init, ContractInit
<1>3. /\ NoRow.status = "absent" /\ NoRow.oid = 0 /\ NoRow.total = 0 /\ NoRow.first = NoTime
      /\ IdleWorker.cur = "none" /\ IdleWorker.todo = {} /\ \A q \in Requests : IdleWorker.seen[q] = NoRow
    BY DEF NoRow, NoId, IdleWorker, Unseen
<1>4. Len(subscriptions) = 0 /\ DOMAIN subscriptions = {} /\ DOMAIN late = {}
    BY <1>2
<1>5. RequestSlots
    BY <1>2, <1>3, <1>4, WhoIsWho DEF RequestSlots
<1>6. CancelSlots
    BY <1>2, WhoIsWho DEF CancelSlots
<1>7. WorkerSlots
    BY <1>2, <1>3, WhoIsWho DEF WorkerSlots
<1>8. MandatesHeld /\ MandateHasOwner
    BY <1>2 DEF MandatesHeld, MandateHasOwner
<1>9. Timely
    BY <1>2, <1>3, <1>4, IdleCall DEF Timely, Dated
<1>10. PICK f : f = [q \in Requests |-> 0]
    OBVIOUS
<1>11. f \in Firsts
    BY <1>10 DEF Firsts
<1>12. Counted(f)
    BY <1>2, <1>3, <1>10 DEF Counted
<1>13. Backed(f)
    BY <1>4 DEF Backed
<1>14. QED
    BY <1>1, <1>5, <1>6, <1>7, <1>8, <1>9, <1>11, <1>12, <1>13 DEF BooksInv, Slots

\* Totals and records are no more than what was booked.
LEMMA BooksAreKept == BooksInv => BooksAreBacked
<1> SUFFICES ASSUME BooksInv, NEW i \in DOMAIN subscriptions
             PROVE  /\ MapThenSumSet(LAMBDA q : row[q].total, RowsOf(i)) <= subscriptions[i].paymentCount
                    /\ MapThenSumSet(LAMBDA q : receipts[q], RowsOf(i)) <= subscriptions[i].paymentCount
                    /\ \A q \in RowsOf(i) : row[q].status = "ACTIVE" => subscriptions[i].paymentCount > 0
    BY DEF BooksAreBacked, RowsOf
<1>1. IInv /\ Slots /\ ServerTypeOK /\ subscriptions[i].paymentCount \in Nat
    BY Parts, ContractKnows DEF BooksInv
<1>2. PICK f \in Firsts : Counted(f) /\ Backed(f)
    BY DEF BooksInv
<1>3. PICK R, h, t : /\ R = RowsOf(i) /\ h = Booked(f) /\ t = [q \in Requests |-> row[q].total]
    OBVIOUS
<1>4. /\ R \subseteq Requests /\ IsFiniteSet(R)
      /\ \A q \in Requests : h[q] \in Nat /\ h[q] = receipts[q] + f[q]
                             /\ receipts[q] \in Nat /\ f[q] \in Nat
    BY <1>1, <1>2, <1>3, BooksKnow
<1>5. \A q \in Requests : row[q].total \in Nat /\ t[q] = row[q].total /\ t[q] <= h[q]
    BY <1>1, <1>2, <1>3, <1>4, ServersKnow DEF Counted
<1>6. SumOver(h, R) <= subscriptions[i].paymentCount
    <2>1. /\ IsFiniteSet(Claims(i))
          /\ SumOver(h, R) + Cardinality(Claims(i)) <= subscriptions[i].paymentCount
        BY <1>2, <1>3 DEF Backed
    <2>2. Cardinality(Claims(i)) \in Nat
        BY <2>1, FS_CardinalityType
    <2>3. SumOver(h, R) \in Nat
        BY <1>4, SumsAgree
    <2>4. QED
        BY <1>1, <2>1, <2>2, <2>3
<1>7. SumOver(t, R) <= SumOver(h, R) /\ SumOver(t, R) \in Nat /\ SumOver(h, R) \in Nat
    BY <1>4, <1>5, SumsCompare
<1>8. SumOver(receipts, R) <= SumOver(h, R) /\ SumOver(receipts, R) \in Nat
    BY <1>4, SumsCompare
<1>9. MapThenSumSet(LAMBDA q : row[q].total, RowsOf(i)) = SumOver(t, R)
    <2> DEFINE Left(iter, s) == IF s = {} THEN 0
                   ELSE row[Pick(s)].total + iter[s \ {Pick(s)}]
               Right(iter, s) == IF s = {} THEN 0
                   ELSE t[Pick(s)] + iter[s \ {Pick(s)}]
               AddsLeft(iter) == iter = [s \in SUBSET R |-> Left(iter, s)]
               AddsRight(iter) == iter = [s \in SUBSET R |-> Right(iter, s)]
    <2>1. \A s \in SUBSET R : s # {} => row[Pick(s)].total = t[Pick(s)]
        BY <1>4, <1>5, PickedElement
    <2>2. \A iter : \A s \in SUBSET R : Left(iter, s) = Right(iter, s)
        BY <2>1
    <2>3. MapThenSumSet(LAMBDA q : row[q].total, RowsOf(i)) = (CHOOSE iter : AddsLeft(iter))[R]
        BY <1>3 DEF MapThenSumSet, MapThenFoldSet, Pick
    <2>4. SumOver(t, R) = (CHOOSE iter : AddsRight(iter))[R]
        BY DEF SumOver, MapThenSumSet, MapThenFoldSet, Pick
    <2> HIDE DEF Left, Right
    <2>5. \A iter : AddsLeft(iter) <=> AddsRight(iter)
        <3> TAKE iter
        <3>1. [s \in SUBSET R |-> Left(iter, s)] = [s \in SUBSET R |-> Right(iter, s)]
            BY <2>2
        <3>2. QED
            BY <3>1
    <2> HIDE DEF AddsLeft, AddsRight
    <2>6. (CHOOSE iter : AddsLeft(iter)) = (CHOOSE iter : AddsRight(iter))
        BY <2>5
    <2>7. QED
        BY <2>3, <2>4, <2>6
<1>10. MapThenSumSet(LAMBDA q : receipts[q], RowsOf(i)) = SumOver(receipts, R)
    BY <1>3 DEF SumOver
<1>11. \A q \in RowsOf(i) : row[q].status = "ACTIVE" => subscriptions[i].paymentCount > 0
    BY <1>2 DEF Counted, RowsOf
<1>12. QED
    BY <1>1, <1>6, <1>7, <1>8, <1>9, <1>10, <1>11

\* A row is suspended by a step only when it could have failed for the grace
\* period.
PausesLate(q) ==
    row'[q].status = "PAUSED" /\ row[q].status # "PAUSED" =>
        now - subscriptions[row'[q].oid].since >= Grace

\* A scheduler that records an outcome suspends only what failed long ago.
LEMMA CommitPausesLate ==
    ASSUME IInv, Slots, Timely, NEW w \in Workers, Commit(w), NEW x \in Requests
    PROVE  PausesLate(x)
<1>1. PICK q \in Requests : \E s \in Row : Records(w, q, s)
    BY CommitIs
<1>2. PICK s \in Row : Records(w, q, s)
    BY <1>1
<1>3. /\ worker[w].cur = q /\ s = worker[w].seen[q] /\ s # NoRow
      /\ row'[q].oid = row[q].oid
      /\ Confirmed(w) => row'[q].status \in {"ACTIVE", row[q].status}
      /\ ~Confirmed(w) => (row'[q].status = "PAUSED" /\ row[q].status # "PAUSED" =>
                             now - FailedFirst(s) >= Grace)
      /\ x # q => row'[x] = row[x]
    BY <1>2 DEF Records
<1>4. row[q].oid # NoId
    BY <1>3 DEF Slots, WorkerSlots
<1>5. FailedFirst(s) >= subscriptions[row[q].oid].since
    BY <1>3, <1>4, FailedInTime
<1>6. /\ now \in Nat /\ subscriptions[row[q].oid].since \in Nat
    BY <1>4, Parts, ContractKnows, RowsKnown
<1>7. FailedFirst(s) \in Nat
    <2>1. s.first \in Nat \cup {NoTime}
        BY DEF Row
    <2>2. QED
        BY <1>6, <2>1 DEF FailedFirst
<1>8. CASE x = q /\ row'[q].status = "PAUSED" /\ row[q].status # "PAUSED"
    <2>1. now - FailedFirst(s) >= Grace
        BY <1>3, <1>8
    <2>2. now - subscriptions[row'[q].oid].since >= Grace
        BY <1>3, <1>5, <1>6, <1>7, <2>1, Web3Assumption
    <2>3. QED
        BY <1>8, <2>2 DEF PausesLate
<1>9. QED
    BY <1>3, <1>8 DEF PausesLate

\* No other step suspends.
LEMMA StepPausesLate ==
    ASSUME BooksInv, [Next]_vars, NEW x \in Requests
    PROVE  PausesLate(x)
<1>1. /\ IInv /\ Slots /\ Timely /\ ServerTypeOK /\ now \in Nat
    BY Parts, ContractKnows DEF BooksInv
<1>2. UNCHANGED row => PausesLate(x)
    BY DEF PausesLate
<1>3. ASSUME NEW p \in Processes, Relay(p) PROVE UNCHANGED row
    BY <1>1, <1>3, RelayIs
<1>4. ASSUME NEW q \in Requests, RequestStep(q) PROVE PausesLate(x)
    <2>1. CASE Sign(q) \/ Authorize(q) \/ CreationFailed(q)
        BY <1>2, <2>1 DEF Sign, Authorize, CreationFailed, tables
    <2>2. CASE RecordSubscription(q)
        <3>1. PICK oid \in {subscriptionCount, NoId} : RecordedAs(q, oid)
            BY <1>1, <2>2, RecordIs
        <3>2. QED
            BY <3>1 DEF RecordedAs, PausesLate
    <2>3. CASE FirstPayment(q)
        <3>1. row'[q].status \in {"ACTIVE", "PAST_DUE"} /\ \A y \in Requests : y # q => row'[y] = row[y]
            BY <1>1, <2>3, FirstPaymentIs
        <3>2. QED
            BY <3>1 DEF PausesLate
    <2>4. CASE Relay(q)
        BY <1>2, <1>3, <2>4, WhoIsWho
    <2>5. QED
        BY <1>4, <2>1, <2>2, <2>3, <2>4 DEF RequestStep
<1>5. ASSUME NEW c \in Cancels, CancelStep(c) PROVE PausesLate(x)
    <2>1. CASE CancelCommit(c)
        <3>1. PICK q \in Requests : /\ row'[q].status = "CANCELLED"
                                    /\ \A y \in Requests : y # q => row'[y] = row[y]
            BY <1>1, <2>1, CancelCommitIs
        <3>2. QED
            BY <3>1 DEF PausesLate
    <2>2. ASSUME NEW q \in Requests, CancelRequest(c, q) PROVE UNCHANGED row
        BY <2>2 DEF CancelRequest, tables
    <2>3. CASE Relay(c)
        BY <1>2, <1>3, <2>3, WhoIsWho
    <2>4. QED
        BY <1>2, <1>5, <2>1, <2>2, <2>3 DEF CancelStep
<1>6. ASSUME NEW w \in Workers, WorkerStep(w) PROVE PausesLate(x)
    <2>1. CASE Cycle(w) \/ Reload(w)
        BY <1>2, <2>1 DEF Cycle, Reload, tables
    <2>2. ASSUME NEW q \in Requests, Begin(w, q) PROVE UNCHANGED row
        BY <2>2 DEF Begin, tables
    <2>3. CASE Commit(w)
        BY <1>1, <2>3, CommitPausesLate
    <2>4. CASE Relay(w)
        BY <1>2, <1>3, <2>4, WhoIsWho
    <2>5. QED
        BY <1>2, <1>6, <2>1, <2>2, <2>3, <2>4 DEF WorkerStep
<1>7. ASSUME NEW p \in Processes, Crash(p) PROVE UNCHANGED row
    BY <1>7 DEF Crash
<1>8. CASE MineLate \/ Outside
    BY <1>2, <1>8 DEF MineLate, Outside, tables
<1>9. CASE UNCHANGED vars
    BY <1>2, <1>9 DEF vars, tables
<1>10. QED
    BY <1>2, <1>4, <1>5, <1>6, <1>7, <1>8, <1>9 DEF Next

\* Whatever crashes, whatever is cancelled on chain meanwhile: the books are
\* kept together with what every process at work holds (BooksInv).
THEOREM BooksInvariant == Spec => []BooksInv
<1>1. Init => BooksInv
    BY BooksInitially
<1>2. BooksInv /\ [Next]_vars => BooksInv'
    BY BooksStep
<1>3. QED
    BY <1>1, <1>2, PTL DEF Spec

\* No book claims more than was charged: totals and receipts of the rows of an
\* agreement are covered by payments executed on chain.
THEOREM BooksBacked == Spec => []BooksAreBacked
BY BooksInvariant, BooksAreKept, PTL

\* A failed creation leaves no authorization behind.
THEOREM MandatesOwned == Spec => []MandateHasOwner
<1>1. BooksInv => MandateHasOwner
    BY DEF BooksInv
<1>2. QED
    BY <1>1, BooksInvariant, PTL

\* No subscription is suspended before it could have failed for the grace
\* period.
THEOREM PausesAreLate == Spec => NoEarlyPause
<1>1. BooksInv /\ [Next]_vars =>
        [\A q \in Requests : row'[q].status = "PAUSED" /\ row[q].status # "PAUSED" =>
            now - subscriptions[row'[q].oid].since >= Grace]_row
    BY StepPausesLate DEF PausesLate
<1>2. QED
    BY <1>1, BooksInvariant, PTL DEF Spec, NoEarlyPause
=============================================================================
