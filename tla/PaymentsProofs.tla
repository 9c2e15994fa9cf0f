--------------------------- MODULE PaymentsProofs ---------------------------
(***************************************************************************)
(* Proofs about Payments: for any number of sessions, transfers, requests  *)
(* and crashes, whichever listeners run, the payment subsystem keeps its   *)
(* safety properties and implements PaymentPromise.                        *)
(*                                                                         *)
(* The argument has two parts.  IInv: what an agent holds between two      *)
(* transactions was true when it read it and cannot become false, because  *)
(* payments and confirmations only advance; so a stale write shows what    *)
(* was paid, and every credit and every coupon usage an agent still owes   *)
(* was backed by a commit of PAID.  Lives: a listener that takes a         *)
(* transfer gives up its one claim to it, so claims and payments together  *)
(* never exceed one per listener and restart.                              *)
(***************************************************************************)
EXTENDS Payments, FiniteSetTheorems, WellFoundedInduction, TLAPS

(***************************************************************************)
(* Numbers.                                                                *)
(***************************************************************************)
\* A nonempty set of natural numbers has a least element.
LEMMA LeastElement ==
    ASSUME NEW T \in SUBSET Nat, T # {}
    PROVE  \E x \in T : \A y \in T : x <= y
<1> DEFINE R == OpToRel(<, Nat)
<1>1. IsWellFoundedOn(R, Nat)
    BY NatLessThanWellFounded
<1>2. \A x, y \in Nat : y < x => <<y, x>> \in R
    BY DEF OpToRel
<1> HIDE DEF R
<1>3. PICK x \in T : \A y \in T : ~ (<<y, x>> \in R)
    BY <1>1, WFMin
<1>4. \A y \in T : ~ (y < x)
    BY <1>2, <1>3
<1>5. \A y \in T : x <= y
    BY <1>4, x \in Nat
<1>6. QED
    BY <1>5

\* Induction over the natural numbers, for a set.
LEMMA SetInduction ==
    ASSUME NEW T \in SUBSET Nat, 0 \in T, \A n \in T : n + 1 \in T
    PROVE  T = Nat
<1> SUFFICES ASSUME Nat \ T # {} PROVE FALSE
    OBVIOUS
<1> DEFINE U == Nat \ T
<1>1. U \in SUBSET Nat /\ U # {}
    OBVIOUS
<1> HIDE DEF U
<1>2. PICK x \in U : \A y \in U : x <= y
    BY <1>1, LeastElement
<1>3. x \in Nat /\ x # 0
    BY <1>2 DEF U
<1>4. x - 1 \in T
    BY <1>2, <1>3 DEF U
<1>5. QED
    BY <1>2, <1>3, <1>4 DEF U

\* The total of f over all sessions, as UsageIsBacked has it.
Pick(S) == CHOOSE x \in S : TRUE
Total(f) == MapThenSumSet(LAMBDA s : f[s], Sessions)

\* iter adds f up over the sets of D.
AddsUp(f, iter, D) ==
    iter = [S \in D |-> IF S = {} THEN 0 ELSE f[Pick(S)] + iter[S \ {Pick(S)}]]

\* The definition of the community module, one fold deep.
LEMMA TotalUnfolds == \A f : Total(f) = (CHOOSE iter : AddsUp(f, iter, SUBSET Sessions))[Sessions]
BY DEF Total, MapThenSumSet, MapThenFoldSet, AddsUp, Pick

\* There are finitely many sessions.
LEMMA FiniteSessions == IsFiniteSet(Sessions) /\ Cardinality(Sessions) = MaxSessions
BY PaymentsAssumption, FS_Interval DEF Sessions

\* The sets of at most n sessions.
UpTo(n) == {S \in SUBSET Sessions : Cardinality(S) <= n}

\* A set of sessions shrinks by one when its pick is removed.
LEMMA SmallerSet ==
    ASSUME NEW S \in SUBSET Sessions, S # {}
    PROVE  /\ Pick(S) \in S /\ Pick(S) \in Sessions
           /\ S \ {Pick(S)} \in SUBSET Sessions
           /\ Cardinality(S) \in Nat /\ Cardinality(S) # 0
           /\ Cardinality(S \ {Pick(S)}) = Cardinality(S) - 1
<1>1. Pick(S) \in S
    BY DEF Pick
<1>2. IsFiniteSet(S)
    BY FiniteSessions, FS_Subset
<1>3. Cardinality(S) \in Nat /\ Cardinality(S) # 0
    BY <1>2, FS_CardinalityType, FS_EmptySet
<1>4. Cardinality(S \ {Pick(S)}) = Cardinality(S) - 1
    BY <1>1, <1>2, FS_RemoveElement
<1>5. QED
    BY <1>1, <1>3, <1>4

\* Only the empty set has no session.
LEMMA NothingLeft == \A S \in UpTo(0) : S = {}
<1> SUFFICES ASSUME NEW S \in UpTo(0), S # {} PROVE FALSE
    OBVIOUS
<1>1. S \in SUBSET Sessions /\ Cardinality(S) <= 0
    BY DEF UpTo
<1>2. Cardinality(S) \in Nat /\ Cardinality(S) # 0
    BY <1>1, SmallerSet
<1>3. QED
    BY <1>1, <1>2

\* Sets of sessions have a cardinality.
LEMMA EmptyIsZero == Cardinality({}) = 0 /\ \A S \in SUBSET Sessions : Cardinality(S) \in Nat
<1>1. \A S \in SUBSET Sessions : IsFiniteSet(S)
    BY FiniteSessions, FS_Subset
<1>2. QED
    BY <1>1, FS_EmptySet, FS_CardinalityType

\* Such a function exists: over the empty set it is 0, and it extends to sets
\* of one session more.
LEMMA AddsUpExists ==
    ASSUME NEW f \in [Sessions -> Nat]
    PROVE  \E iter : AddsUp(f, iter, SUBSET Sessions)
<1> DEFINE T == {n \in Nat : \E iter : AddsUp(f, iter, UpTo(n))}
<1>1. 0 \in T
    <2> DEFINE it == [S \in UpTo(0) |-> 0]
    <2>1. \A S \in UpTo(0) : S = {}
        BY NothingLeft
    <2>2. AddsUp(f, it, UpTo(0))
        BY <2>1 DEF AddsUp
    <2>3. QED
        BY <2>2
<1>2. ASSUME NEW n \in T PROVE n + 1 \in T
    <2>1. PICK it : AddsUp(f, it, UpTo(n))
        OBVIOUS
    <2>2. n \in Nat
        OBVIOUS
    <2> DEFINE more == [S \in UpTo(n + 1) |-> IF S = {} THEN 0 ELSE f[Pick(S)] + it[S \ {Pick(S)}]]
    <2>3. \A S \in UpTo(n) : more[S] = it[S]
        <3>1. UpTo(n) \subseteq UpTo(n + 1)
            BY <2>2, EmptyIsZero DEF UpTo
        <3>2. QED
            BY <2>1, <3>1 DEF AddsUp
    <2>4. \A S \in UpTo(n + 1) : S # {} => S \ {Pick(S)} \in UpTo(n)
        BY <2>2, SmallerSet DEF UpTo
    <2>5. AddsUp(f, more, UpTo(n + 1))
        BY <2>3, <2>4 DEF AddsUp
    <2> HIDE DEF more
    <2>6. QED
        BY <2>2, <2>5
<1>3. T = Nat
    <2> HIDE DEF T
    <2>1. T \in SUBSET Nat
        BY DEF T
    <2>2. QED
        BY <1>1, <1>2, <2>1, SetInduction
<1>4. MaxSessions \in T
    BY <1>3, PaymentsAssumption
<1>5. UpTo(MaxSessions) = SUBSET Sessions
    <2>1. \A S \in SUBSET Sessions : Cardinality(S) <= MaxSessions
        BY FiniteSessions, FS_Subset
    <2>2. QED
        BY <2>1 DEF UpTo
<1>6. QED
    BY <1>4, <1>5

\* The total is computed session by session.
LEMMA SumOf ==
    ASSUME NEW f \in [Sessions -> Nat]
    PROVE  \E iter : Total(f) = iter[Sessions] /\ \A S \in SUBSET Sessions :
              iter[S] = IF S = {} THEN 0 ELSE f[Pick(S)] + iter[S \ {Pick(S)}]
<1> DEFINE it == CHOOSE iter : AddsUp(f, iter, SUBSET Sessions)
<1>1. AddsUp(f, it, SUBSET Sessions)
    BY AddsUpExists
<1>2. Total(f) = it[Sessions]
    BY TotalUnfolds
<1> HIDE DEF it
<1>3. \A S \in SUBSET Sessions :
              it[S] = IF S = {} THEN 0 ELSE f[Pick(S)] + it[S \ {Pick(S)}]
    BY <1>1 DEF AddsUp
<1>4. QED
    BY <1>2, <1>3

\* What is added to one session is added to the total, which is a number.
LEMMA TotalGrows ==
    ASSUME NEW f \in [Sessions -> Nat], NEW g \in [Sessions -> Nat], NEW s \in Sessions,
           g = [f EXCEPT ![s] = @ + 1]
    PROVE  Total(f) \in Nat /\ Total(g) = Total(f) + 1
<1>1. PICK F : Total(f) = F[Sessions] /\ \A S \in SUBSET Sessions :
              F[S] = IF S = {} THEN 0 ELSE f[Pick(S)] + F[S \ {Pick(S)}]
    BY SumOf
<1>2. PICK G : Total(g) = G[Sessions] /\ \A S \in SUBSET Sessions :
              G[S] = IF S = {} THEN 0 ELSE g[Pick(S)] + G[S \ {Pick(S)}]
    BY SumOf
<1> DEFINE Good(S) == F[S] \in Nat /\ G[S] = F[S] + (IF s \in S THEN 1 ELSE 0)
           T == {n \in Nat : \A S \in UpTo(n) : Good(S)}
<1>3. 0 \in T
    <2>1. \A S \in UpTo(0) : S = {}
        BY NothingLeft
    <2>2. F[{}] = 0 /\ G[{}] = 0 /\ s \notin {}
        BY <1>1, <1>2
    <2>3. Good({})
        BY <2>2
    <2> HIDE DEF Good
    <2>4. QED
        BY <2>1, <2>3
<1>4. ASSUME NEW n \in T PROVE n + 1 \in T
    <2> SUFFICES ASSUME NEW S \in UpTo(n + 1) PROVE Good(S)
        OBVIOUS
    <2>1. S \in SUBSET Sessions /\ n \in Nat
        BY DEF UpTo
    <2>2. CASE S = {}
        <3>1. F[{}] = 0 /\ G[{}] = 0 /\ s \notin {}
            BY <1>1, <1>2
        <3>2. QED
            BY <2>2, <3>1
    <2>3. CASE S # {}
        <3> DEFINE x == Pick(S)
        <3>1. x \in S /\ x \in Sessions /\ S \ {x} \in UpTo(n)
            BY <2>1, <2>3, SmallerSet DEF UpTo
        <3>2. F[S] = f[x] + F[S \ {x}] /\ G[S] = g[x] + G[S \ {x}]
            BY <1>1, <1>2, <2>1, <2>3
        <3> HIDE DEF x
        <3>3. Good(S \ {x})
            BY <3>1
        <3>4. f[x] \in Nat /\ g[x] = f[x] + (IF x = s THEN 1 ELSE 0)
            BY <3>1
        <3>5. QED
            BY <3>1, <3>2, <3>3, <3>4
    <2>4. QED
        BY <2>2, <2>3
<1>5. T = Nat
    <2> HIDE DEF T
    <2>1. T \in SUBSET Nat
        BY DEF T
    <2>2. QED
        BY <1>3, <1>4, <2>1, SetInduction
<1>6. Sessions \in UpTo(MaxSessions)
    BY FiniteSessions, PaymentsAssumption DEF UpTo
<1>7. Good(Sessions)
    <2> HIDE DEF Good
    <2>1. QED
        BY <1>5, <1>6, PaymentsAssumption
<1>8. QED
    BY <1>1, <1>2, <1>7

\* A total is a natural number.
LEMMA TotalIsNat ==
    ASSUME NEW f \in [Sessions -> Nat]
    PROVE  Total(f) \in Nat
<1>1. 1 \in Sessions
    BY PaymentsAssumption DEF Sessions
<1>2. [f EXCEPT ![1] = @ + 1] \in [Sessions -> Nat]
    BY <1>1
<1>3. QED
    BY <1>1, <1>2, TotalGrows

\* The community module's Max is well defined on sets of small numbers.
LEMMA MaxOfBounded ==
    ASSUME NEW n \in Nat, NEW S \in SUBSET (1..n), S # {}
    PROVE  Max(S) \in S /\ \A y \in S : Max(S) >= y
<1> DEFINE T == {n - x : x \in S}
<1>1. T \in SUBSET Nat /\ T # {}
    <2>1. \A x \in S : n - x \in Nat
        OBVIOUS
    <2>2. PICK x \in S : TRUE
        OBVIOUS
    <2>3. n - x \in T
        BY <2>2
    <2>4. QED
        BY <2>1, <2>3
<1>2. PICK k \in T : \A y \in T : k <= y
    BY <1>1, LeastElement
<1>3. PICK x \in S : k = n - x
    BY <1>2
<1>4. \A y \in S : n - x <= n - y
    BY <1>2, <1>3
<1>5. \A y \in S : x >= y
    BY <1>4
<1>6. QED
    BY <1>5 DEF Max

(***************************************************************************)
(* Agents.                                                                 *)
(***************************************************************************)
\* Agents are finitely many; requests are no listeners.
LEMMA AgentFacts ==
    /\ IsFiniteSet(Agents) /\ IsFiniteSet(Listeners)
    /\ Requests \subseteq Agents /\ Listeners \subseteq Agents
    /\ \A q \in Requests : q \notin Listeners /\ q # "poller" /\ q # "stream"
    /\ \A a \in Listeners : a \notin Requests /\ a \in {"poller", "stream"}
<1>1. IsFiniteSet({"poller", "stream"})
    <2>1. IsFiniteSet({"poller"})
        BY FS_Singleton
    <2>2. IsFiniteSet({"poller"} \cup {"stream"})
        BY <2>1, FS_AddElement
    <2>3. {"poller"} \cup {"stream"} = {"poller", "stream"}
        OBVIOUS
    <2>4. QED
        BY <2>2, <2>3
<1>2. IsFiniteSet(Listeners)
    BY <1>1, FS_Subset, PaymentsAssumption
<1>3. IsFiniteSet(Agents)
    BY <1>2, FS_Union, PaymentsAssumption DEF Agents
<1>4. QED
    BY <1>2, <1>3, PaymentsAssumption DEF Agents

\* Counting a set of agents that one agent may enter or leave.
LEMMA Counting ==
    ASSUME NEW S \in SUBSET Agents, NEW T \in SUBSET Agents
    PROVE  /\ Cardinality(S) \in Nat /\ Cardinality(T) \in Nat
           /\ S \subseteq T => Cardinality(S) <= Cardinality(T)
           /\ \A a \in Agents : S \subseteq T \cup {a} =>
                  Cardinality(S) <= Cardinality(T) + 1
           /\ \A a \in T : S \subseteq T \ {a} =>
                  Cardinality(S) <= Cardinality(T) - 1
<1>1. IsFiniteSet(S) /\ IsFiniteSet(T)
    BY AgentFacts, FS_Subset
<1>2. Cardinality(S) \in Nat /\ Cardinality(T) \in Nat
    BY <1>1, FS_CardinalityType
<1>3. S \subseteq T => Cardinality(S) <= Cardinality(T)
    BY <1>1, FS_Subset
<1>4. ASSUME NEW a \in Agents, S \subseteq T \cup {a}
      PROVE  Cardinality(S) <= Cardinality(T) + 1
    <2>1. IsFiniteSet(T \cup {a}) /\ Cardinality(T \cup {a}) <= Cardinality(T) + 1
        <3>1. /\ IsFiniteSet(T \cup {a})
              /\ Cardinality(T \cup {a}) =
                   IF a \in T THEN Cardinality(T) ELSE Cardinality(T) + 1
            BY <1>1, FS_AddElement
        <3>2. QED
            BY <1>2, <3>1
    <2>2. Cardinality(S) <= Cardinality(T \cup {a})
        BY <1>4, <2>1, FS_Subset
    <2>3. Cardinality(T \cup {a}) \in Nat
        BY <2>1, FS_CardinalityType
    <2>4. QED
        BY <1>2, <2>1, <2>2, <2>3
<1>5. ASSUME NEW a \in T, S \subseteq T \ {a}
      PROVE  Cardinality(S) <= Cardinality(T) - 1
    <2>1. IsFiniteSet(T \ {a}) /\ Cardinality(T \ {a}) = Cardinality(T) - 1
        BY <1>1, FS_RemoveElement
    <2>2. QED
        BY <1>5, <2>1, FS_Subset
<1>6. QED
    BY <1>2, <1>3, <1>4, <1>5

(***************************************************************************)
(* The inductive invariant.                                                *)
(***************************************************************************)
\* What an agent holds was true when it read it, and still is.
SoundFlow(a, f) ==
    /\ f \in Flow
    /\ f.step \notin {"idle", "done"} => f.session \in Sessions
    /\ f.step = "write" /\ f.status \in Settled => paid[f.session] > 0
    /\ f.step = "pay" /\ f.transfer # NoTransfer => MayPay(f.transfer)
    /\ f.step = "count" => f.seen <= redeemed
    /\ a \in Requests => f.transfer = NoTransfer

SoundFlows ==
    /\ flow \in [Agents -> Flow]
    /\ \A a \in Agents : SoundFlow(a, flow[a])

SoundRows ==
    /\ session \in [Sessions -> Row]
    /\ SettledWasPaid
    /\ \A s \in Sessions : session[s].refunds => paid[s] > 0

\* Transfers are numbered without gaps; Stellar knows no confirmations; only
\* a transfer that was sent can lack its block.
SoundChains ==
    /\ transfer \in [Transfers -> Transfer]
    /\ \A t \in Sent : transfer[t].route \in Routes
    /\ \A t \in Sent : ChainOf(t) = "stellar" => transfer[t].state = "confirmed"
    /\ \A t \in Transfers \ Sent : transfer[t].block
    /\ \E n \in 0..MaxTransfers : Sent = 1..n

SoundMemory ==
    /\ poller \in Poller
    /\ stream \in 1..(MaxTransfers + 1)
    /\ restarts \in 0..MaxRestarts
    /\ lost \in SUBSET Transfers

Owing(s) == {a \in Agents : flow[a].step = "credit" /\ flow[a].session = s}
Claiming == {a \in Agents : flow[a].step \in {"credit", "usage", "count"}}

SoundBooks ==
    /\ spent \in [Transfers -> Nat]
    /\ paid \in [Sessions -> Nat]
    /\ credited \in [Sessions -> Nat]
    /\ used \in Nat
    /\ redeemed \in Nat
    /\ \A s \in Sessions : credited[s] + Cardinality(Owing(s)) <= paid[s]
    /\ redeemed + Cardinality(Claiming) <= Total(paid)
    /\ used <= redeemed

IInv == SoundFlows /\ SoundRows /\ SoundChains /\ SoundMemory /\ SoundBooks

\* Transfers are numbered in the order they are sent.
LEMMA Numbering ==
    ASSUME SoundChains
    PROVE  /\ Now \in 1..(MaxTransfers + 1) /\ Sent = 1..(Now - 1)
           /\ Sent \subseteq Transfers
<1>1. PICK n \in 0..MaxTransfers : Sent = 1..n
    BY DEF SoundChains
<1>2. Cardinality(1..n) = n
    BY <1>1, FS_Interval
<1>3. Now = n + 1
    BY <1>1, <1>2 DEF Now
<1>4. QED
    BY <1>1, <1>3, PaymentsAssumption DEF Transfers, Sent

\* An agent that is idle or done holds nothing.
LEMMA Blank ==
    /\ Idle \in Flow /\ Done \in Flow
    /\ Idle.step = "idle" /\ Done.step = "done"
    /\ Idle.transfer = NoTransfer /\ Done.transfer = NoTransfer
    /\ \A a : SoundFlow(a, Idle) /\ SoundFlow(a, Done)
    /\ \A a \in Agents : Finish(a) \in {Idle, Done}
BY DEF Idle, Done, Flow, Step, Status, NoSession, NoTransfer, NoRoute, SoundFlow, Finish

\* Rows and transfers that do not exist yet have their types.
LEMMA BlankData == NoRow \in Row /\ NoMove \in Transfer
<1>1. (CHOOSE x \in Amounts : TRUE) \in Amounts
    BY PaymentsAssumption
<1>2. QED
    BY <1>1 DEF NoRow, NoMove, Row, Transfer, Status, NoRoute, NoSession

\* The invariant implies the properties that the runs check.
LEMMA Consequences ==
    ASSUME IInv
    PROVE  TypeOK /\ SettledWasPaid /\ CreditsAreBacked /\ UsageIsBacked
<1>1. TypeOK
    BY DEF IInv, TypeOK, SoundFlows, SoundRows, SoundChains, SoundMemory, SoundBooks
<1>2. SettledWasPaid
    BY DEF IInv, SoundRows
<1>3. CreditsAreBacked
    BY DEF IInv, SoundBooks, CreditsAreBacked, Owing
<1>4. UsageIsBacked
    <2> DEFINE U == {a \in Agents : flow[a].step \in {"usage", "count"}}
    <2>1. U \subseteq Claiming /\ U \in SUBSET Agents /\ Claiming \in SUBSET Agents
        BY DEF Claiming
    <2>2. /\ Cardinality(U) <= Cardinality(Claiming)
          /\ Cardinality(U) \in Nat /\ Cardinality(Claiming) \in Nat
        BY <2>1, Counting
    <2>3. /\ redeemed + Cardinality(Claiming) <= Total(paid) /\ used <= redeemed
          /\ redeemed \in Nat /\ Total(paid) \in Nat
        BY TotalIsNat DEF IInv, SoundBooks
    <2>4. redeemed + Cardinality(U) <= Total(paid)
        BY <2>2, <2>3
    <2>5. QED
        BY <2>3, <2>4 DEF UsageIsBacked, Total
<1>5. QED
    BY <1>1, <1>2, <1>3, <1>4

memory == <<poller, stream, restarts, lost>>
books == <<spent, paid, credited, used, redeemed>>

(***************************************************************************)
(* One agent moves.                                                        *)
(***************************************************************************)

\* What was sound stays sound while payments and transfers only advance.
LEMMA FlowsStaySound ==
    ASSUME SoundFlows, NEW a \in Agents, NEW f,
           flow' = [flow EXCEPT ![a] = f], SoundFlow(a, f)',
           \A s \in Sessions : paid[s] > 0 => paid'[s] > 0,
           \A t \in Transfers : MayPay(t) => MayPay(t)',
           redeemed \in Nat, redeemed' \in Nat, redeemed' >= redeemed
    PROVE  SoundFlows'
<1>1. f \in Flow /\ flow' \in [Agents -> Flow]
    BY DEF SoundFlow, SoundFlows
<1>2. ASSUME NEW b \in Agents PROVE SoundFlow(b, flow[b])'
    <2>1. CASE b = a
        BY <2>1 DEF SoundFlows
    <2>2. CASE b # a
        <3>1. flow'[b] = flow[b] /\ SoundFlow(b, flow[b]) /\ flow[b] \in Flow
            BY <2>2 DEF SoundFlows
        <3>2. flow[b].transfer # NoTransfer => flow[b].transfer \in Transfers
            BY <3>1 DEF Flow
        <3>3. flow[b].step # "idle" => flow[b].session \in Sessions \/ flow[b].step = "done"
            BY <3>1 DEF SoundFlow
        <3>4. flow[b].seen \in Nat
            BY <3>1 DEF Flow
        <3>5. QED
            BY <3>1, <3>2, <3>3, <3>4 DEF SoundFlow
    <2>3. QED
        BY <2>1, <2>2
<1>3. QED
    BY <1>1, <1>2 DEF SoundFlows

\* An agent that takes on no credit, and nothing of a coupon unless it was
\* about to, leaves the books balanced.
LEMMA BooksStayBalanced ==
    ASSUME SoundFlows, SoundBooks, NEW a \in Agents, NEW f,
           flow' = [flow EXCEPT ![a] = f],
           f.step # "credit",
           f.step \in {"usage", "count"} =>
               flow[a].step \in {"credit", "usage", "count"},
           UNCHANGED books
    PROVE  SoundBooks'
<1>1. \A s \in Sessions : Cardinality(Owing(s))' <= Cardinality(Owing(s))
                          /\ Cardinality(Owing(s))' \in Nat /\ Cardinality(Owing(s)) \in Nat
    <2> SUFFICES ASSUME NEW s \in Sessions
                 PROVE  Cardinality(Owing(s)') <= Cardinality(Owing(s))
                        /\ Cardinality(Owing(s)') \in Nat /\ Cardinality(Owing(s)) \in Nat
        OBVIOUS
    <2>1. Owing(s)' \subseteq Owing(s) /\ Owing(s)' \in SUBSET Agents /\ Owing(s) \in SUBSET Agents
        BY DEF Owing, SoundFlows
    <2>2. QED
        BY <2>1, Counting
<1>2. Cardinality(Claiming') <= Cardinality(Claiming)
      /\ Cardinality(Claiming') \in Nat /\ Cardinality(Claiming) \in Nat
    <2>1. Claiming' \subseteq Claiming /\ Claiming' \in SUBSET Agents /\ Claiming \in SUBSET Agents
        BY DEF Claiming, SoundFlows
    <2>2. QED
        BY <2>1, Counting
<1>3. Total(paid)' = Total(paid) /\ Total(paid) \in Nat
    BY TotalIsNat DEF SoundBooks, books
<1>4. \A s \in Sessions : credited[s] \in Nat /\ paid[s] \in Nat
    BY DEF SoundBooks
<1>5. \A s \in Sessions : (credited[s] + Cardinality(Owing(s)) <= paid[s])'
    <2> SUFFICES ASSUME NEW s \in Sessions
                 PROVE  credited[s] + Cardinality(Owing(s))' <= paid[s]
        BY DEF books
    <2>1. credited[s] + Cardinality(Owing(s)) <= paid[s]
        BY DEF SoundBooks
    <2>2. QED
        BY <1>1, <1>4, <2>1
<1>6. redeemed \in Nat /\ redeemed + Cardinality(Claiming) <= Total(paid)
    BY DEF SoundBooks
<1>7. redeemed' + Cardinality(Claiming)' <= Total(paid)'
    BY <1>2, <1>3, <1>6 DEF books
<1>8. QED
    BY <1>5, <1>7 DEF SoundBooks, books

\* Rows change only when sessions or payments do.
LEMMA RowsStay ==
    ASSUME SoundRows, UNCHANGED <<session, paid>> PROVE SoundRows'
BY DEF SoundRows, SettledWasPaid

\* The chains change only when transfers do.
LEMMA ChainsStay ==
    ASSUME SoundChains, UNCHANGED transfer PROVE SoundChains'
BY DEF SoundChains, Sent, ChainOf

\* The memory of the listeners changes only when it is written.
LEMMA MemoryStays ==
    ASSUME SoundMemory, UNCHANGED memory PROVE SoundMemory'
BY DEF SoundMemory, memory

\* An agent moves, rows may be written, nothing is paid.
LEMMA MoveKeeps ==
    ASSUME IInv, NEW a \in Agents, NEW f,
           flow' = [flow EXCEPT ![a] = f], SoundFlow(a, f),
           f.step # "credit",
           f.step \in {"usage", "count"} =>
               flow[a].step \in {"credit", "usage", "count"},
           UNCHANGED transfer, UNCHANGED books, SoundRows', SoundMemory'
    PROVE  IInv'
<1>1. SoundFlow(a, f)'
    BY DEF SoundFlow, books, MayPay, PollsCount
<1>2. redeemed \in Nat /\ redeemed' \in Nat /\ redeemed' >= redeemed
    BY DEF IInv, SoundBooks, books
<1>3. SoundFlows'
    <2>1. /\ \A s \in Sessions : paid[s] > 0 => paid'[s] > 0
          /\ \A t \in Transfers : MayPay(t) => MayPay(t)'
        BY DEF books, MayPay, PollsCount
    <2>2. SoundFlows
        BY DEF IInv
    <2>3. QED
        BY <1>1, <1>2, <2>1, <2>2, FlowsStaySound
<1>4. SoundBooks'
    BY BooksStayBalanced DEF IInv
<1>5. SoundChains'
    BY ChainsStay DEF IInv
<1>6. QED
    BY <1>3, <1>4, <1>5 DEF IInv

\* An agent only reads.
LEMMA HoldKeeps ==
    ASSUME IInv, NEW a \in Agents, NEW f, Hold(a, f), SoundFlow(a, f),
           f.step # "credit",
           f.step \in {"usage", "count"} =>
               flow[a].step \in {"credit", "usage", "count"}
    PROVE  IInv'
<1>1. SoundRows' /\ SoundMemory'
    BY RowsStay, MemoryStays DEF IInv, Hold, memory
<1>2. QED
    BY <1>1, MoveKeeps DEF Hold, books

\* An agent writes one row: a settled status needs a payment.
LEMMA WriteKeeps ==
    ASSUME IInv, NEW a \in Agents, NEW f, NEW s \in Sessions, NEW row \in Row,
           flow' = [flow EXCEPT ![a] = f], SoundFlow(a, f),
           f.step \notin {"credit", "usage", "count"},
           session' = [session EXCEPT ![s] = row],
           row.status \in Settled \/ row.refunds => paid[s] > 0,
           UNCHANGED transfer, UNCHANGED books, UNCHANGED memory
    PROVE  IInv'
<1>1. session' \in [Sessions -> Row] /\ paid' = paid
    BY DEF IInv, SoundRows, books
<1>2. ASSUME NEW r \in Sessions
      PROVE  session'[r].status \in Settled \/ session'[r].refunds => paid[r] > 0
    <2>1. session'[r] = IF r = s THEN row ELSE session[r]
        BY DEF IInv, SoundRows
    <2>2. QED
        BY <2>1 DEF IInv, SoundRows, SettledWasPaid
<1>3. SoundRows'
    BY <1>1, <1>2 DEF SoundRows, SettledWasPaid
<1>4. SoundMemory'
    BY MemoryStays DEF IInv
<1>5. QED
    BY <1>3, <1>4, MoveKeeps

(***************************************************************************)
(* Session handlers.                                                       *)
(***************************************************************************)
\* What the invariant says of a row.
LEMMA RowFacts ==
    ASSUME IInv
    PROVE  /\ session \in [Sessions -> Row]
           /\ \A s \in Sessions : session[s] \in Row
           /\ \A s \in Sessions : session[s].status \in Settled \/ session[s].refunds
                 => paid[s] > 0
BY DEF IInv, SoundRows, SettledWasPaid

\* What the invariant says of an agent.
LEMMA FlowFacts ==
    ASSUME IInv
    PROVE  \A a \in Agents : flow[a] \in Flow /\ SoundFlow(a, flow[a])
BY DEF IInv, SoundFlows

\* A new row is neither paid nor refunded.
LEMMA CreateKeeps ==
    ASSUME IInv, NEW q \in Requests, NEW s \in Sessions, Create(q, s)
    PROVE  IInv'
<1>1. PICK amount \in Amounts, r \in Routes \cup {NoRoute} :
         session' = [session EXCEPT ![s].status = "CREATED",
                                    ![s].amount = amount,
                                    ![s].route = r]
    BY DEF Create
<1> DEFINE row == [session[s] EXCEPT !.status = "CREATED", !.amount = amount,
                                     !.route = r]
<1>2. row \in Row /\ row.status = "CREATED" /\ row.refunds = session[s].refunds
    BY RowFacts DEF Row, Status
<1>3. session' = [session EXCEPT ![s] = row]
    BY <1>1, RowFacts
<1> HIDE DEF row
<1>4. row.status \in Settled \/ row.refunds => paid[s] > 0
    BY <1>2, RowFacts DEF Settled
<1>5. QED
    BY <1>2, <1>3, <1>4, WriteKeeps, Blank, AgentFacts
       DEF Create, memory, books

\* A request that has read a session may hold what it is about to write.
LEMMA ReadingKeeps ==
    ASSUME IInv, NEW q \in Requests, NEW f, Hold(q, f), f \in Flow,
           f.transfer = NoTransfer, f.session \in Sessions,
           f.step \in {"route", "start", "pay", "write"},
           f.step = "write" /\ f.status \in Settled => paid[f.session] > 0
    PROVE  IInv'
<1>1. SoundFlow(q, f)
    BY DEF SoundFlow
<1>2. QED
    BY <1>1, HoldKeeps, AgentFacts

\* What the handlers hold has the type of a flow.
LEMMA Reading ==
    ASSUME NEW s \in Sessions
    PROVE  /\ \A r \in Routes :
                [Idle EXCEPT !.step = "route", !.session = s, !.route = r] \in Flow
           /\ \A r \in Routes :
                [Idle EXCEPT !.step = "start", !.session = s, !.route = r] \in Flow
           /\ \A new \in Status :
                [Idle EXCEPT !.step = "write", !.session = s, !.status = new] \in Flow
           /\ [Idle EXCEPT !.step = "pay", !.session = s] \in Flow
BY DEF Idle, Flow, Step, Status, NoSession, NoTransfer, NoRoute

\* Selecting a route reads the session only.
LEMMA BeginSelectKeeps ==
    ASSUME IInv, NEW q \in Requests, NEW s \in Sessions, NEW r \in Routes,
           BeginSelect(q, s, r)
    PROVE  IInv'
<1> DEFINE f == [Idle EXCEPT !.step = "route", !.session = s, !.route = r]
<1>1. f \in Flow /\ Hold(q, f)
    BY Reading DEF BeginSelect
<1>2. f.transfer = NoTransfer /\ f.session = s /\ f.step = "route"
    BY DEF Idle
<1> HIDE DEF f
<1>3. QED
    BY <1>1, <1>2, ReadingKeeps

\* Expiring a session is a write of a status that is not settled.
LEMMA ExpiringKeeps ==
    ASSUME IInv, NEW q \in Requests, NEW s \in Sessions,
           Hold(q, [Idle EXCEPT !.step = "write", !.session = s,
                                !.status = "EXPIRED"])
    PROVE  IInv'
<1> DEFINE f == [Idle EXCEPT !.step = "write", !.session = s, !.status = "EXPIRED"]
<1>1. f \in Flow
    BY Reading DEF Status
<1>2. f.transfer = NoTransfer /\ f.session = s /\ f.step = "write"
      /\ f.status = "EXPIRED"
    BY DEF Idle
<1>3. Hold(q, f)
    OBVIOUS
<1> HIDE DEF f
<1>4. QED
    BY <1>1, <1>2, <1>3, ReadingKeeps DEF Settled

\* The checkout page reads the session first, and may expire it.
LEMMA BeginPageKeeps ==
    ASSUME IInv, NEW q \in Requests, NEW s \in Sessions, NEW r \in Routes,
           BeginPage(q, s, r)
    PROVE  IInv'
<1> DEFINE f == [Idle EXCEPT !.step = "start", !.session = s, !.route = r]
           g == [Idle EXCEPT !.step = "route", !.session = s, !.route = r]
<1>1. CASE Hold(q, f)
    <2>1. f \in Flow /\ f.transfer = NoTransfer /\ f.session = s /\ f.step = "start"
        BY Reading DEF Idle
    <2> HIDE DEF f
    <2>2. QED
        BY <1>1, <2>1, ReadingKeeps
<1>2. CASE Hold(q, g)
    <2>1. g \in Flow /\ g.transfer = NoTransfer /\ g.session = s /\ g.step = "route"
        BY Reading DEF Idle
    <2> HIDE DEF g
    <2>2. QED
        BY <1>2, <2>1, ReadingKeeps
<1>3. CASE Hold(q, [Idle EXCEPT !.step = "write", !.session = s,
                                !.status = "EXPIRED"])
    BY <1>3, ExpiringKeeps
<1>4. QED
    BY <1>1, <1>2, <1>3 DEF BeginPage

\* The start of the payment leaves the status alone.
LEMMA CommitStartKeeps ==
    ASSUME IInv, NEW q \in Requests, CommitStart(q)
    PROVE  IInv'
<1> DEFINE s == flow[q].session
           r == flow[q].route
           row == [session[s] EXCEPT !.started = TRUE]
           f == IF session[s].status = "CREATED" /\ session[s].route # r
                THEN [flow[q] EXCEPT !.step = "route"] ELSE Done
<1>1. q \in Agents /\ s \in Sessions /\ SoundFlow(q, flow[q]) /\ flow[q] \in Flow
    BY FlowFacts, AgentFacts DEF CommitStart, SoundFlow
<1>2. row \in Row /\ row.status = session[s].status
      /\ row.refunds = session[s].refunds
    BY <1>1, RowFacts DEF Row
<1>3. session' = [session EXCEPT ![s] = row] /\ flow' = [flow EXCEPT ![q] = f]
    BY <1>1, RowFacts DEF CommitStart, IInv, SoundFlows
<1>4. SoundFlow(q, f) /\ f.step \in {"route", "done"}
    BY <1>1, Blank DEF SoundFlow, Flow, Step
<1>5. row.status \in Settled \/ row.refunds => paid[s] > 0
    BY <1>1, <1>2, RowFacts
<1> HIDE DEF f, row, s, r
<1>6. QED
    BY <1>1, <1>2, <1>3, <1>4, <1>5, WriteKeeps DEF CommitStart, memory, books

\* A route leaves the status alone.
LEMMA CommitRouteKeeps ==
    ASSUME IInv, NEW q \in Requests, CommitRoute(q)
    PROVE  IInv'
<1> DEFINE s == flow[q].session
           row == [session[s] EXCEPT !.route = flow[q].route]
<1>1. q \in Agents /\ s \in Sessions /\ flow[q] \in Flow
    BY FlowFacts, AgentFacts DEF CommitRoute, SoundFlow
<1>2. row \in Row /\ row.status = session[s].status
      /\ row.refunds = session[s].refunds
    BY <1>1, RowFacts DEF Row, Flow
<1>3. session' = [session EXCEPT ![s] = row]
    BY <1>1, RowFacts DEF CommitRoute
<1>4. row.status \in Settled \/ row.refunds => paid[s] > 0
    BY <1>1, <1>2, RowFacts
<1> HIDE DEF row, s
<1>5. QED
    BY <1>1, <1>2, <1>3, <1>4, WriteKeeps, Blank DEF CommitRoute, memory, books

\* Status polls and cancellations expire sessions.
LEMMA BeginPollKeeps ==
    ASSUME IInv, NEW q \in Requests, NEW s \in Sessions,
           BeginPoll(q, s) \/ BeginCancel(q, s)
    PROVE  IInv'
BY ExpiringKeeps DEF BeginPoll, BeginCancel

\* A refund writes to sessions that were paid: they are settled, or have
\* refunds.
LEMMA BeginRefundKeeps ==
    ASSUME IInv, NEW q \in Requests, NEW s \in Sessions, NEW new \in Settled,
           BeginRefund(q, s, new)
    PROVE  IInv'
<1> DEFINE f == [Idle EXCEPT !.step = "write", !.session = s, !.status = new]
<1>1. f \in Flow /\ Hold(q, f)
    BY Reading DEF BeginRefund, Settled, Status
<1>2. f.transfer = NoTransfer /\ f.session = s /\ f.step = "write"
    BY DEF Idle
<1>3. paid[s] > 0
    BY RowFacts DEF BeginRefund, Refundable, Settled
<1> HIDE DEF f
<1>4. QED
    BY <1>1, <1>2, <1>3, ReadingKeeps

\* A settled status is written to sessions that were paid.
LEMMA CommitWriteKeeps ==
    ASSUME IInv, NEW q \in Requests, CommitWrite(q)
    PROVE  IInv'
<1> DEFINE s == flow[q].session
           new == flow[q].status
<1>1. q \in Agents /\ s \in Sessions /\ flow[q] \in Flow /\ SoundFlow(q, flow[q])
    BY FlowFacts, AgentFacts DEF CommitWrite, SoundFlow
<1>2. PICK b \in BOOLEAN : b = (session[s].refunds \/ new \in Settled)
    OBVIOUS
<1>3. PICK old \in Row : old = session[s]
    BY <1>1, RowFacts
<1> DEFINE row == [old EXCEPT !.status = new, !.refunds = b]
<1>4. row \in Row /\ row.status = new /\ row.refunds = b
    <2>1. new \in Status
        BY <1>1 DEF Flow
    <2> HIDE DEF new
    <2>2. QED
        BY <2>1 DEF Row
<1>5. session' = [session EXCEPT ![s] = row]
    BY <1>2, <1>1, <1>3, RowFacts DEF CommitWrite
<1>6. row.status \in Settled \/ row.refunds => paid[s] > 0
    BY <1>2, <1>1, <1>4, RowFacts DEF CommitWrite, SoundFlow
<1> HIDE DEF row, s, new
<1>7. QED
    BY <1>1, <1>4, <1>5, <1>6, WriteKeeps, Blank DEF CommitWrite, memory, books

\* Applying a coupon leaves the status alone.
LEMMA ApplyCouponKeeps ==
    ASSUME IInv, NEW q \in Requests, NEW s \in Sessions, ApplyCoupon(q, s)
    PROVE  IInv'
<1> DEFINE row == [session[s] EXCEPT !.coupon = TRUE]
<1>1. row \in Row /\ row.status = session[s].status
      /\ row.refunds = session[s].refunds
    BY RowFacts DEF Row
<1>2. session' = [session EXCEPT ![s] = row]
    BY RowFacts DEF ApplyCoupon
<1>3. row.status \in Settled \/ row.refunds => paid[s] > 0
    BY <1>1, RowFacts
<1> HIDE DEF row
<1>4. QED
    BY <1>1, <1>2, <1>3, WriteKeeps, Blank, AgentFacts, ZenonT(30)
       DEF ApplyCoupon, memory, books

\* The coupon handler reads the session first.
LEMMA BeginCouponKeeps ==
    ASSUME IInv, NEW q \in Requests, NEW s \in Sessions, BeginCoupon(q, s)
    PROVE  IInv'
<1> DEFINE f == [Idle EXCEPT !.step = "pay", !.session = s]
<1>1. f \in Flow /\ Hold(q, f)
    BY Reading DEF BeginCoupon
<1>2. f.transfer = NoTransfer /\ f.session = s /\ f.step = "pay"
    BY DEF Idle
<1> HIDE DEF f
<1>3. QED
    BY <1>1, <1>2, ReadingKeeps

\* Every handler keeps the invariant.
LEMMA HandlerKeeps ==
    ASSUME IInv, NEW q \in Requests, Handler(q) PROVE IInv'
BY CreateKeeps, BeginPollKeeps, ApplyCouponKeeps, BeginCouponKeeps,
   BeginSelectKeeps, BeginPageKeeps, BeginRefundKeeps, CommitStartKeeps,
   CommitRouteKeeps, CommitWriteKeeps
   DEF Handler

\* The books change only when they are written or agents move.
LEMMA SameBooks ==
    ASSUME SoundBooks, UNCHANGED flow, UNCHANGED books PROVE SoundBooks'
<1>1. Total(paid)' = Total(paid) /\ Claiming' = Claiming
      /\ \A s \in Sessions : Owing(s)' = Owing(s)
    BY DEF books, Claiming, Owing
<1>2. QED
    BY <1>1 DEF SoundBooks, books

\* Time only moves clocks.
LEMMA ElapseKeeps ==
    ASSUME IInv, NEW s \in Sessions, Elapse(s) PROVE IInv'
<1>1. PICK c \in {"open", "lapsed", "late"} : session' = [session EXCEPT ![s].clock = c]
    BY DEF Elapse
<1>2. SoundRows'
    BY <1>1 DEF Elapse, IInv, SoundRows, SettledWasPaid, Row
<1>3. SoundFlows'
    BY DEF Elapse, IInv, SoundFlows, SoundFlow, MayPay, PollsCount
<1>4. SoundBooks'
    BY SameBooks DEF Elapse, IInv, books
<1>5. SoundChains' /\ SoundMemory'
    BY ChainsStay, MemoryStays DEF IInv, Elapse, memory
<1>6. QED
    BY <1>2, <1>3, <1>4, <1>5 DEF IInv

(***************************************************************************)
(* Paying a session.                                                       *)
(***************************************************************************)
\* The agents that owe something can be counted.
LEMMA CountsAreNat ==
    ASSUME SoundFlows, SoundFlows'
    PROVE  /\ \A s \in Sessions : /\ Owing(s) \in SUBSET Agents
                                  /\ Owing(s)' \in SUBSET Agents
                                  /\ Cardinality(Owing(s)) \in Nat
                                  /\ Cardinality(Owing(s)') \in Nat
           /\ Claiming \in SUBSET Agents /\ Claiming' \in SUBSET Agents
           /\ Cardinality(Claiming) \in Nat /\ Cardinality(Claiming') \in Nat
<1>1. /\ Claiming \in SUBSET Agents /\ Claiming' \in SUBSET Agents
      /\ \A s \in Sessions : Owing(s) \in SUBSET Agents /\ Owing(s)' \in SUBSET Agents
    BY DEF Claiming, Owing
<1>2. QED
    BY <1>1, Counting

\* A PAID commit backs the credit and the coupon usage its agent goes on to.
LEMMA CommitPayKeeps ==
    ASSUME IInv, NEW a \in Agents, CommitPay(a)
    PROVE  IInv'
<1> DEFINE s == flow[a].session
           t == flow[a].transfer
<1>0. PICK f : f = [flow[a] EXCEPT !.step = "credit"]
    OBVIOUS
<1>1. s \in Sessions /\ flow[a] \in Flow /\ SoundFlow(a, flow[a])
    BY FlowFacts DEF CommitPay, SoundFlow
<1>2. /\ flow \in [Agents -> Flow] /\ paid \in [Sessions -> Nat]
      /\ spent \in [Transfers -> Nat] /\ redeemed \in Nat
    BY DEF IInv, SoundFlows, SoundBooks
<1>3. flow' = [flow EXCEPT ![a] = f] /\ f \in Flow /\ f.step = "credit"
      /\ f.session = s /\ f.transfer = t
    BY <1>0, <1>1, <1>2 DEF CommitPay, Flow, Step
<1>4. paid' = [paid EXCEPT ![s] = @ + 1] /\ redeemed' = redeemed
      /\ transfer' = transfer /\ credited' = credited /\ used' = used
    BY DEF CommitPay
<1>5. paid' \in [Sessions -> Nat] /\ paid'[s] = paid[s] + 1
      /\ \A r \in Sessions : r # s => paid'[r] = paid[r]
    BY <1>1, <1>2, <1>4
<1>6. SoundFlow(a, f)'
    BY <1>1, <1>3, <1>4 DEF SoundFlow
<1>7. SoundFlows'
    <2>1. \A r \in Sessions : paid[r] > 0 => paid'[r] > 0
        BY <1>1, <1>2, <1>5
    <2>2. redeemed' \in Nat /\ redeemed' >= redeemed
          /\ \A u \in Transfers : MayPay(u) => MayPay(u)'
        BY <1>2, <1>4 DEF MayPay, PollsCount
    <2>3. SoundFlows
        BY DEF IInv
    <2>4. QED
        BY <1>2, <1>3, <1>6, <2>1, <2>2, <2>3, FlowsStaySound DEF MayPay, PollsCount
<1>8. SoundRows'
    <2>1. PICK b \in BOOLEAN : b = (session[s].coupon \/ t = NoTransfer)
        OBVIOUS
    <2>2. PICK old \in Row : old = session[s]
        BY <1>1, RowFacts
    <2> DEFINE row == [old EXCEPT !.status = "PAID", !.coupon = b]
    <2>3. session' = [session EXCEPT ![s] = row]
        BY <1>1, <2>1, <2>2, RowFacts DEF CommitPay
    <2>4. row \in Row
        BY DEF Row, Status
    <2> HIDE DEF row
    <2>5. session' \in [Sessions -> Row]
        BY <1>1, <2>3, <2>4, RowFacts
    <2>6. ASSUME NEW r \in Sessions
          PROVE  session'[r].status \in Settled \/ session'[r].refunds => paid'[r] > 0
        <3>1. CASE r = s
            BY <3>1, <1>1, <1>2, <1>5
        <3>2. CASE r # s
            BY <3>2, <1>5, <2>3, RowFacts
        <3>3. QED
            BY <3>1, <3>2
    <2>7. QED
        BY <2>5, <2>6 DEF SoundRows, SettledWasPaid
<1>9. SoundBooks'
    <2>1. spent' \in [Transfers -> Nat]
        <3>1. spent' = [u \in Transfers |-> spent[u] + (IF u = t THEN 1 ELSE 0)]
            BY DEF CommitPay
        <3>2. QED
            BY <1>2, <3>1
    <2>2. ASSUME NEW r \in Sessions
          PROVE  credited[r] + Cardinality(Owing(r)') <= paid'[r]
        <3>1. credited[r] \in Nat /\ credited[r] + Cardinality(Owing(r)) <= paid[r]
            BY DEF IInv, SoundBooks
        <3>2. CASE r = s
            <4>1. Owing(r)' \subseteq Owing(r) \cup {a}
                BY <1>2, <1>3 DEF Owing
            <4>2. Cardinality(Owing(r)') <= Cardinality(Owing(r)) + 1
                BY <4>1, <1>7, CountsAreNat, Counting DEF IInv
            <4>3. QED
                BY <3>1, <3>2, <4>2, <1>2, <1>5, <1>7, CountsAreNat DEF IInv
        <3>3. CASE r # s
            <4>1. Owing(r)' \subseteq Owing(r)
                BY <1>2, <1>3, <3>3 DEF Owing
            <4>2. Cardinality(Owing(r)') <= Cardinality(Owing(r))
                BY <4>1, <1>7, CountsAreNat, Counting DEF IInv
            <4>3. QED
                BY <3>1, <3>3, <4>2, <1>2, <1>5, <1>7, CountsAreNat DEF IInv
        <3>4. QED
            BY <3>2, <3>3
    <2>3. redeemed + Cardinality(Claiming') <= Total(paid')
        <3>1. Claiming' \subseteq Claiming \cup {a}
            BY <1>2, <1>3 DEF Claiming
        <3>2. Cardinality(Claiming') <= Cardinality(Claiming) + 1
            BY <3>1, <1>7, CountsAreNat, Counting DEF IInv
        <3>3. Total(paid) \in Nat /\ Total(paid') = Total(paid) + 1
            BY <1>1, <1>2, <1>4, <1>5, TotalGrows
        <3>4. redeemed + Cardinality(Claiming) <= Total(paid)
            BY DEF IInv, SoundBooks
        <3>5. QED
            BY <3>2, <3>3, <3>4, <1>2, <1>7, CountsAreNat DEF IInv
    <2>4. Total(paid)' = Total(paid')
        BY DEF Total, MapThenSumSet, MapThenFoldSet
    <2>5. QED
        BY <1>4, <1>5, <2>1, <2>2, <2>3, <2>4 DEF IInv, SoundBooks
<1>10. SoundChains' /\ SoundMemory'
    BY ChainsStay, MemoryStays DEF CommitPay, IInv, memory
<1>11. QED
    BY <1>7, <1>8, <1>9, <1>10 DEF IInv

\* The agent that credits a session is one of those it owed a credit to.
LEMMA CommitCreditKeeps ==
    ASSUME IInv, NEW a \in Agents, CommitCredit(a)
    PROVE  IInv'
<1> DEFINE s == flow[a].session
<1>0. PICK f : f = AfterCredit(a)
    OBVIOUS
<1>1. s \in Sessions /\ flow[a] \in Flow /\ SoundFlow(a, flow[a])
    BY FlowFacts DEF CommitCredit, SoundFlow
<1>2. /\ flow \in [Agents -> Flow] /\ paid \in [Sessions -> Nat]
      /\ credited \in [Sessions -> Nat] /\ redeemed \in Nat
    BY DEF IInv, SoundFlows, SoundBooks
<1>3. flow' = [flow EXCEPT ![a] = f] /\ SoundFlow(a, f)
      /\ f.step \in {"usage", "idle", "done"}
    <2>1. CASE Records(a)
        BY <2>1, <1>0, <1>1 DEF CommitCredit, AfterCredit, SoundFlow, Flow, Step
    <2>2. CASE ~Records(a)
        BY <2>2, <1>0, Blank DEF CommitCredit, AfterCredit
    <2>3. QED
        BY <2>1, <2>2
<1>4. PICK n \in {0, 1} : credited' = [credited EXCEPT ![s] = @ + n]
    BY DEF CommitCredit
<1>5. credited' \in [Sessions -> Nat] /\ credited'[s] = credited[s] + n
      /\ \A r \in Sessions : r # s => credited'[r] = credited[r]
    BY <1>1, <1>2, <1>4
<1>6. UNCHANGED <<session, transfer, poller, stream, used, restarts, lost,
                  spent, paid, redeemed>>
    BY DEF CommitCredit
<1>7. SoundFlows'
    <2>1. SoundFlow(a, f)'
        BY <1>3, <1>6 DEF SoundFlow
    <2>2. redeemed' \in Nat /\ redeemed' >= redeemed
        BY <1>2, <1>6
    <2>3. SoundFlows
        BY DEF IInv
    <2>4. QED
        BY <1>2, <1>3, <1>6, <2>1, <2>2, <2>3, FlowsStaySound DEF MayPay, PollsCount
<1>8. SoundBooks'
    <2>1. ASSUME NEW r \in Sessions
          PROVE  credited'[r] + Cardinality(Owing(r)') <= paid[r]
        <3>1. credited[r] \in Nat /\ credited[r] + Cardinality(Owing(r)) <= paid[r]
            BY DEF IInv, SoundBooks
        <3>2. CASE r = s
            <4>1. Owing(r)' \subseteq Owing(r) \ {a} /\ a \in Owing(r)
                BY <1>2, <1>3, <3>2 DEF Owing, CommitCredit
            <4>2. Cardinality(Owing(r)') <= Cardinality(Owing(r)) - 1
                BY <4>1, <1>7, CountsAreNat, Counting DEF IInv
            <4>3. QED
                BY <3>1, <3>2, <4>2, <1>2, <1>5, <1>7, CountsAreNat DEF IInv
        <3>3. CASE r # s
            <4>1. Owing(r)' \subseteq Owing(r)
                BY <1>2, <1>3 DEF Owing
            <4>2. Cardinality(Owing(r)') <= Cardinality(Owing(r))
                BY <4>1, <1>7, CountsAreNat, Counting DEF IInv
            <4>3. QED
                BY <3>1, <3>3, <4>2, <1>2, <1>5, <1>7, CountsAreNat DEF IInv
        <3>4. QED
            BY <3>2, <3>3
    <2>2. redeemed + Cardinality(Claiming') <= Total(paid)
        <3>1. Claiming' \subseteq Claiming
            BY <1>2, <1>3 DEF Claiming, CommitCredit
        <3>2. Cardinality(Claiming') <= Cardinality(Claiming)
            BY <3>1, <1>7, CountsAreNat, Counting DEF IInv
        <3>3. Total(paid) \in Nat
            BY <1>2, TotalIsNat
        <3>4. redeemed + Cardinality(Claiming) <= Total(paid)
            BY DEF IInv, SoundBooks
        <3>5. QED
            BY <3>2, <3>3, <3>4, <1>2, <1>7, CountsAreNat DEF IInv
    <2>3. Total(paid)' = Total(paid)
        BY <1>6
    <2>4. QED
        BY <1>5, <1>6, <2>1, <2>2, <2>3 DEF IInv, SoundBooks
<1>9. SoundRows' /\ SoundChains' /\ SoundMemory'
    BY <1>6, RowsStay, ChainsStay, MemoryStays DEF IInv, memory
<1>10. QED
    BY <1>7, <1>8, <1>9 DEF IInv

\* The usage count that is read is not ahead of the rows.
LEMMA ReadUsageKeeps ==
    ASSUME IInv, NEW a \in Agents, ReadUsage(a)
    PROVE  IInv'
<1> DEFINE f == [flow[a] EXCEPT !.step = "count", !.seen = used]
<1>1. flow[a] \in Flow /\ SoundFlow(a, flow[a]) /\ flow[a].step = "usage"
    BY FlowFacts DEF ReadUsage
<1>2. used \in Nat /\ used <= redeemed
    BY DEF IInv, SoundBooks
<1>3. SoundFlow(a, f) /\ f.step = "count"
    BY <1>1, <1>2 DEF SoundFlow, Flow, Step
<1>4. Hold(a, f)
    BY DEF ReadUsage
<1> HIDE DEF f
<1>5. QED
    BY <1>1, <1>3, <1>4, HoldKeeps

\* A usage row takes the place of the agent that was about to insert it; the
\* count it writes is at most one more than the rows of before.
LEMMA CommitUsageKeeps ==
    ASSUME IInv, NEW a \in Agents, CommitUsage(a)
    PROVE  IInv'
<1>0. PICK f : f = Finish(a)
    OBVIOUS
<1>1. flow[a] \in Flow /\ SoundFlow(a, flow[a]) /\ flow[a].step = "count"
    BY FlowFacts DEF CommitUsage
<1>2. /\ flow \in [Agents -> Flow] /\ paid \in [Sessions -> Nat]
      /\ used \in Nat /\ redeemed \in Nat /\ flow[a].seen <= redeemed
      /\ flow[a].seen \in Nat
    BY <1>1 DEF IInv, SoundFlows, SoundBooks, SoundFlow, Flow
<1>3. flow' = [flow EXCEPT ![a] = f] /\ f \in {Idle, Done}
    BY <1>0, Blank DEF CommitUsage
<1>4. used' = flow[a].seen + 1 /\ redeemed' = redeemed + 1
    BY DEF CommitUsage
<1>5. UNCHANGED <<session, transfer, poller, stream, restarts, lost, spent,
                  paid, credited>>
    BY DEF CommitUsage
<1>6. SoundFlows'
    <2>1. SoundFlow(a, f)'
        BY <1>3 DEF SoundFlow, Idle, Done, Flow, Step, Status, NoSession,
                    NoTransfer, NoRoute
    <2>2. redeemed' \in Nat /\ redeemed' >= redeemed
        BY <1>2, <1>4
    <2>3. QED
        BY <1>2, <1>3, <1>5, <2>1, <2>2, FlowsStaySound
           DEF IInv, MayPay, PollsCount
<1>7. SoundBooks'
    <2>1. f.step \in {"idle", "done"}
        BY <1>3, Blank
    <2>2. ASSUME NEW r \in Sessions
          PROVE  credited[r] + Cardinality(Owing(r)') <= paid[r]
        <3>1. Owing(r)' \subseteq Owing(r)
            BY <1>2, <1>3, <2>1 DEF Owing
        <3>2. Cardinality(Owing(r)') <= Cardinality(Owing(r))
            BY <3>1, <1>6, CountsAreNat, Counting DEF IInv
        <3>3. credited[r] \in Nat /\ credited[r] + Cardinality(Owing(r)) <= paid[r]
            BY DEF IInv, SoundBooks
        <3>4. QED
            BY <3>2, <3>3, <1>2, <1>6, CountsAreNat DEF IInv
    <2>3. redeemed' + Cardinality(Claiming') <= Total(paid)
        <3>1. Claiming' \subseteq Claiming \ {a} /\ a \in Claiming
            BY <1>1, <1>2, <1>3, <2>1 DEF Claiming
        <3>2. Cardinality(Claiming') <= Cardinality(Claiming) - 1
            BY <3>1, <1>6, CountsAreNat, Counting DEF IInv
        <3>3. Total(paid) \in Nat
            BY <1>2, TotalIsNat
        <3>4. redeemed + Cardinality(Claiming) <= Total(paid)
            BY DEF IInv, SoundBooks
        <3>5. QED
            BY <3>2, <3>3, <3>4, <1>2, <1>4, <1>6, CountsAreNat DEF IInv
    <2>4. Total(paid)' = Total(paid)
        BY <1>5
    <2>5. used' \in Nat /\ redeemed' \in Nat /\ used' <= redeemed'
        BY <1>2, <1>4
    <2>6. QED
        BY <1>5, <2>2, <2>3, <2>4, <2>5 DEF IInv, SoundBooks
<1>8. SoundRows' /\ SoundChains' /\ SoundMemory'
    BY <1>5, RowsStay, ChainsStay, MemoryStays DEF IInv, memory
<1>9. QED
    BY <1>6, <1>7, <1>8 DEF IInv

\* Every step of a payment keeps the invariant.
LEMMA PayingKeeps ==
    ASSUME IInv, NEW a \in Agents, Paying(a) PROVE IInv'
BY CommitPayKeeps, CommitCreditKeeps, ReadUsageKeeps, CommitUsageKeeps DEF Paying

\* A transaction that fails leaves the tables as they were.
LEMMA FailCommitKeeps ==
    ASSUME IInv, NEW a \in Agents, FailCommit(a)
    PROVE  IInv'
<1>1. UNCHANGED transfer /\ UNCHANGED books /\ UNCHANGED <<session, poller, stream, restarts>>
    BY DEF FailCommit, books
<1>2. SoundFlow(a, Finish(a)) /\ Finish(a).step \in {"idle", "done"}
    BY Blank
<1>3. flow' = [flow EXCEPT ![a] = Finish(a)] /\ lost' \in SUBSET Transfers
    BY DEF FailCommit, IInv, SoundMemory
<1>4. SoundRows' /\ SoundMemory'
    BY <1>1, <1>3, RowsStay DEF IInv, SoundMemory, books
<1>5. QED
    BY <1>1, <1>2, <1>3, <1>4, MoveKeeps

(***************************************************************************)
(* Listeners.                                                              *)
(***************************************************************************)
\* A match is a session, or there is none.
LEMMA MatchIsASession ==
    ASSUME NEW t \in Transfers, NEW statuses
    PROVE  Match(t, statuses) \in {NoSession} \cup Sessions
<1> DEFINE onRoute == {s \in Sessions : /\ session[s].status \in statuses
                                        /\ session[s].route = transfer[t].route}
           exact == {s \in onRoute : session[s].amount = transfer[t].amount}
<1>1. onRoute \in SUBSET (1..MaxSessions) /\ exact \in SUBSET (1..MaxSessions)
    BY DEF Sessions
<1>2. exact # {} => Max(exact) \in exact
    BY <1>1, MaxOfBounded, PaymentsAssumption
<1>3. onRoute # {} => Max(onRoute) \in onRoute
    BY <1>1, MaxOfBounded, PaymentsAssumption
<1>4. Cardinality(onRoute) = 1 => onRoute # {}
    <2> HIDE DEF onRoute
    <2>1. QED
        BY FS_EmptySet
<1> HIDE DEF onRoute
<1>5. QED
    BY <1>1, <1>2, <1>3, <1>4 DEF Match, Sessions, onRoute

\* What a listener takes on: a session to pay only for a transfer that may.
LEMMA TakenIsSound ==
    ASSUME NEW a \in Listeners, NEW t \in Transfers, NEW statuses,
           NEW step \in {"pay", "mark"},
           step = "pay" => MayPay(t)
    PROVE  /\ SoundFlow(a, Took(step, t, statuses))
           /\ Took(step, t, statuses).step \in {step, "idle"}
<1> DEFINE s == Match(t, statuses)
<1>1. s \in {NoSession} \cup Sessions
    BY MatchIsASession
<1> HIDE DEF s
<1>2. CASE s = NoSession
    BY <1>2, Blank DEF Took, s
<1>3. CASE s # NoSession
    <2> DEFINE f == [Idle EXCEPT !.step = step, !.session = s, !.transfer = t]
    <2>1. f \in Flow /\ f.step = step /\ f.session = s /\ f.transfer = t
        BY <1>1, <1>3 DEF Idle, Flow, Step, Status, NoSession, NoTransfer, NoRoute
    <2>2. Took(step, t, statuses) = f
        BY <1>3 DEF Took, s
    <2> HIDE DEF f
    <2>3. SoundFlow(a, f)
        BY <1>1, <1>3, <2>1, AgentFacts DEF SoundFlow
    <2>4. QED
        BY <2>1, <2>2, <2>3
<1>4. QED
    BY <1>2, <1>3

\* The callback of a transfer that may pay pays a session or does nothing.
LEMMA CallbackIsSound ==
    ASSUME NEW a \in Listeners, NEW t \in Transfers, MayPay(t)
    PROVE  SoundFlow(a, Callback(t)) /\ Callback(t).step \in {"pay", "idle"}
BY TakenIsSound, Blank DEF Callback

\* A turn of the poller changes its memory and its flow only.
LEMMA PollerTurnKeeps ==
    ASSUME IInv, "poller" \in Listeners, NEW p \in Poller, NEW f,
           PollerTurn(p, f), SoundFlow("poller", f),
           f.step \in {"pay", "mark", "idle"}
    PROVE  IInv'
<1>1. SoundMemory'
    BY DEF IInv, SoundMemory, PollerTurn
<1>2. SoundRows'
    BY RowsStay DEF IInv, PollerTurn
<1>3. flow' = [flow EXCEPT !["poller"] = f] /\ UNCHANGED transfer /\ UNCHANGED books
    BY DEF PollerTurn, books
<1>4. "poller" \in Agents
    BY AgentFacts
<1>5. QED
    BY <1>1, <1>2, <1>3, <1>4, MoveKeeps

\* What the invariant says of the chains and of the poller.
LEMMA PollerFacts ==
    ASSUME IInv
    PROVE  /\ poller \in Poller /\ transfer \in [Transfers -> Transfer]
           /\ \A t \in Transfers : transfer[t] \in Transfer
           /\ Now \in 1..(MaxTransfers + 1) /\ Sent \subseteq Transfers
           /\ MaxTransfers \in Nat
BY Numbering, PaymentsAssumption DEF IInv, SoundMemory, SoundChains

\* Stellar transfers are confirmed when they are seen.
LEMMA PollStellarKeeps ==
    ASSUME IInv, NEW t \in Transfers, PollStellar(t)
    PROVE  IInv'
<1>1. PICK kept \in Memory(t) :
        PollerTurn([poller EXCEPT !.seen = kept], Callback(t))
    BY DEF PollStellar
<1>2. "poller" \in Listeners /\ transfer[t].state = "confirmed"
    BY DEF PollStellar, PollerIdle, IInv, SoundChains
<1>3. kept \in SUBSET Transfers
    BY PollerFacts DEF Memory, Poller
<1>4. [poller EXCEPT !.seen = kept] \in Poller
    BY <1>3, PollerFacts DEF Poller
<1>5. SoundFlow("poller", Callback(t)) /\ Callback(t).step \in {"pay", "idle"}
    BY <1>2, CallbackIsSound DEF MayPay
<1>6. QED
    BY <1>1, <1>2, <1>4, <1>5, PollerTurnKeeps

\* A fetch pays nothing.
LEMMA FetchKeeps ==
    ASSUME IInv, NEW c \in Polled, NEW batch \in SUBSET Transfers,
           NEW next \in 0..(MaxTransfers + 1), Fetch(c, batch, next)
    PROVE  IInv'
<1> DEFINE p == [poller EXCEPT !.todo[c] = batch, !.next[c] = next]
<1>1. p \in Poller
    BY PollerFacts DEF Poller
<1>2. PollerTurn(p, Idle) /\ "poller" \in Listeners
    BY DEF Fetch, PollerIdle
<1> HIDE DEF p
<1>3. QED
    BY <1>1, <1>2, PollerTurnKeeps, Blank

\* The cursor of the Tron poller stays within the chain.
LEMMA PollTronKeeps ==
    ASSUME IInv, NEW r \in Routes, PollTron(r)
    PROVE  IInv'
<1> DEFINE batch == {t \in Sent : transfer[t].route = r /\ t >= poller.cursor["tron"]}
<1>1. batch \in SUBSET (1..MaxTransfers) /\ batch # {}
      /\ Fetch("tron", batch, Max(batch) + 1)
    BY PollerFacts DEF PollTron, Fetch, Transfers
<1> HIDE DEF batch
<1>2. Max(batch) \in 1..MaxTransfers
    BY <1>1, MaxOfBounded, PollerFacts
<1>3. Max(batch) + 1 \in 0..(MaxTransfers + 1) /\ "tron" \in Polled
    BY <1>2, PollerFacts DEF Polled
<1>4. QED
    BY <1>1, <1>3, FetchKeeps DEF Transfers

\* The cursor of the EVM poller stays within the chain.
LEMMA ScanEvmKeeps ==
    ASSUME IInv, ScanEvm
    PROVE  IInv'
<1> DEFINE batch == {t \in Sent : ChainOf(t) = "evm" /\ t >= poller.cursor["evm"]}
<1>1. batch \in SUBSET Transfers /\ Fetch("evm", batch, Now)
    BY PollerFacts DEF ScanEvm
<1>2. Now \in 0..(MaxTransfers + 1) /\ "evm" \in Polled
    BY PollerFacts DEF Polled
<1> HIDE DEF batch
<1>3. QED
    BY <1>1, <1>2, FetchKeeps

\* A transfer of a batch is paid when it is confirmed, else tracked.
LEMMA ExamineKeeps ==
    ASSUME IInv, NEW c \in Polled, NEW t \in Transfers, Examine(c, t)
    PROVE  IInv'
<1>1. "poller" \in Listeners
    BY DEF Examine, PollerIdle
<1>2. CASE /\ Confirmed(t)
           /\ PollerTurn([poller EXCEPT !.todo[c] = @ \ {t}], Callback(t))
    <2>1. [poller EXCEPT !.todo[c] = @ \ {t}] \in Poller
        BY PollerFacts DEF Poller
    <2>2. SoundFlow("poller", Callback(t)) /\ Callback(t).step \in {"pay", "idle"}
        BY <1>1, <1>2, CallbackIsSound DEF Confirmed, MayPay
    <2>3. QED
        BY <1>1, <1>2, <2>1, <2>2, PollerTurnKeeps
<1>3. CASE PollerTurn([poller EXCEPT !.todo[c] = @ \ {t},
                                     !.tracked = @ \cup {t}],
                      Took("mark", t, {"CREATED"}))
    <2>1. [poller EXCEPT !.todo[c] = @ \ {t}, !.tracked = @ \cup {t}] \in Poller
        BY PollerFacts DEF Poller
    <2>2. /\ SoundFlow("poller", Took("mark", t, {"CREATED"}))
          /\ Took("mark", t, {"CREATED"}).step \in {"mark", "idle"}
        BY <1>1, TakenIsSound
    <2>3. QED
        BY <1>1, <1>3, <2>1, <2>2, PollerTurnKeeps
<1>4. QED
    BY <1>2, <1>3 DEF Examine

\* The cursor moves to where the batch ended.
LEMMA EndBatchKeeps ==
    ASSUME IInv, NEW c \in Polled, EndBatch(c)
    PROVE  IInv'
<1> DEFINE p == [poller EXCEPT !.cursor[c] = poller.next[c], !.next[c] = NoBatch]
<1>1. poller.next[c] \in 1..(MaxTransfers + 1)
    BY PollerFacts DEF EndBatch, Poller, NoBatch
<1>2. p \in Poller
    <2>1. PICK cursor : cursor = [poller.cursor EXCEPT ![c] = poller.next[c]]
        OBVIOUS
    <2>2. PICK next : next = [poller.next EXCEPT ![c] = NoBatch]
        OBVIOUS
    <2>3. cursor \in [Polled -> 1..(MaxTransfers + 1)]
        BY <1>1, <2>1, PollerFacts DEF Poller
    <2>4. next \in [Polled -> 0..(MaxTransfers + 1)]
        BY <2>2, PollerFacts DEF Poller, NoBatch
    <2>5. [poller EXCEPT !.cursor = cursor, !.next = next] \in Poller
        BY <2>3, <2>4, PollerFacts DEF Poller
    <2>6. QED
        BY <2>1, <2>2, <2>5, PollerFacts DEF Poller
<1>3. PollerTurn(p, Idle) /\ "poller" \in Listeners
    BY DEF EndBatch, PollerIdle
<1> HIDE DEF p
<1>4. QED
    BY <1>2, <1>3, PollerTurnKeeps, Blank

\* A tracked transfer is paid when it is confirmed, or when its block is not
\* known.
LEMMA PromoteKeeps ==
    ASSUME IInv, NEW t \in Transfers, Promote(t)
    PROVE  IInv'
<1>1. "poller" \in Listeners /\ MayPay(t)
      /\ PollerTurn([poller EXCEPT !.tracked = @ \ {t}], Callback(t))
    BY DEF Promote, PollerIdle, Confirmed, MayPay
<1>2. [poller EXCEPT !.tracked = @ \ {t}] \in Poller
    BY PollerFacts DEF Poller
<1>3. SoundFlow("poller", Callback(t)) /\ Callback(t).step \in {"pay", "idle"}
    BY <1>1, CallbackIsSound
<1>4. QED
    BY <1>1, <1>2, <1>3, PollerTurnKeeps

\* PENDING is not a settled status.
LEMMA CommitMarkKeeps ==
    ASSUME IInv, "poller" \in Listeners, CommitMark("poller")
    PROVE  IInv'
<1> DEFINE a == "poller"
           s == flow[a].session
           row == [session[s] EXCEPT !.status = "PENDING"]
<1>1. a \in Agents /\ s \in Sessions
    BY FlowFacts, AgentFacts DEF CommitMark, SoundFlow
<1>2. row \in Row /\ row.status = "PENDING" /\ row.refunds = session[s].refunds
    BY <1>1, RowFacts DEF Row, Status
<1>3. session' = [session EXCEPT ![s] = row]
    BY <1>1, RowFacts DEF CommitMark
<1>4. row.status \in Settled \/ row.refunds => paid[s] > 0
    BY <1>1, <1>2, RowFacts DEF Settled
<1>5. flow' = [flow EXCEPT ![a] = Idle] /\ UNCHANGED transfer
      /\ UNCHANGED books /\ UNCHANGED memory
    BY DEF CommitMark, books, memory
<1> HIDE DEF row, s, a
<1>6. QED
    BY <1>1, <1>2, <1>3, <1>4, <1>5, WriteKeeps, Blank

\* The streaming listener pays from Stellar transfers only.
LEMMA StreamNextKeeps ==
    ASSUME IInv, StreamNext
    PROVE  IInv'
<1> DEFINE t == stream
           s == transfer[t].for
<1>1. "stream" \in Listeners /\ "stream" \in Agents /\ t \in Sent
      /\ t \in Transfers /\ transfer[t] \in Transfer
    BY AgentFacts, PollerFacts DEF StreamNext
<1>2. PICK f : f = IF /\ ChainOf(t) = "stellar"
                      /\ s # NoSession
                      /\ session[s].status # "PAID"
                      /\ session[s].amount = transfer[t].amount
                   THEN [Idle EXCEPT !.step = "pay", !.session = s, !.transfer = t]
                   ELSE Idle
    OBVIOUS
<1>3. flow' = [flow EXCEPT !["stream"] = f]
    BY <1>2 DEF StreamNext
<1>4. s \in {NoSession} \cup Sessions
    BY <1>1 DEF Transfer
<1>5. ChainOf(t) = "stellar" => transfer[t].state = "confirmed"
    BY <1>1 DEF IInv, SoundChains
<1>6. SoundFlow("stream", f) /\ f.step \in {"pay", "idle"}
    <2> HIDE DEF s, t
    <2>1. CASE f = Idle
        BY <2>1, Blank
    <2>2. CASE f # Idle
        <3>1. /\ f = [Idle EXCEPT !.step = "pay", !.session = s, !.transfer = t]
              /\ ChainOf(t) = "stellar" /\ s # NoSession
            BY <1>2, <2>2
        <3>2. f \in Flow /\ f.step = "pay" /\ f.session = s /\ f.transfer = t
            BY <1>1, <1>4, <3>1 DEF Idle, Flow, Step, Status, NoSession, NoTransfer, NoRoute
        <3>3. QED
            BY <1>1, <1>4, <1>5, <3>1, <3>2, AgentFacts DEF SoundFlow, MayPay
    <2>3. QED
        BY <2>1, <2>2
<1>7. SoundMemory'
    BY <1>1, PollerFacts DEF StreamNext, IInv, SoundMemory, Transfers
<1>8. SoundRows' /\ UNCHANGED transfer /\ UNCHANGED books
    BY RowsStay DEF StreamNext, IInv, books
<1>9. QED
    BY <1>1, <1>3, <1>6, <1>7, <1>8, MoveKeeps

(***************************************************************************)
(* Chains, crashes.                                                        *)
(***************************************************************************)
\* Transfers that are sent or confirmed disturb nothing.
LEMMA MoreTransfersKeep ==
    ASSUME IInv, SoundChains',
           \A t \in Transfers : MayPay(t) => MayPay(t)',
           UNCHANGED <<session, flow>>, UNCHANGED memory, UNCHANGED books
    PROVE  IInv'
<1>1. SoundRows' /\ SoundMemory' /\ SoundBooks'
    BY RowsStay, MemoryStays, SameBooks DEF IInv, books
<1>2. SoundFlows'
    <2> SUFFICES ASSUME NEW a \in Agents PROVE SoundFlow(a, flow[a])'
        BY DEF IInv, SoundFlows
    <2>1. SoundFlow(a, flow[a]) /\ flow[a] \in Flow /\ flow' = flow
        BY FlowFacts
    <2>2. flow[a].transfer # NoTransfer => flow[a].transfer \in Transfers
        BY <2>1 DEF Flow
    <2>3. QED
        BY <2>1, <2>2 DEF SoundFlow, books
<1>3. QED
    BY <1>1, <1>2 DEF IInv

\* A new transfer takes the next number.
LEMMA TransactKeeps ==
    ASSUME IInv, NEW t \in Transfers, NEW r \in Routes, NEW amount \in Amounts,
           NEW for \in {NoSession} \cup Sessions, Transact(t, r, amount, for)
    PROVE  IInv'
<1>0. PICK block \in BOOLEAN :
        transfer' = [transfer EXCEPT ![t] =
            [state |-> IF Chain[r] = "stellar" THEN "confirmed" ELSE "sent",
             route |-> r, amount |-> amount, for |-> for, block |-> block]]
    BY DEF Transact
<1> DEFINE new == [state |-> IF Chain[r] = "stellar" THEN "confirmed" ELSE "sent",
                   route |-> r, amount |-> amount, for |-> for, block |-> block]
<1>1. new \in Transfer /\ new.state \in {"sent", "confirmed"} /\ new.route = r
      /\ (Chain[r] = "stellar" => new.state = "confirmed")
    BY DEF Transfer
<1>2. transfer' = [transfer EXCEPT ![t] = new] /\ t = Now
    BY <1>0 DEF Transact
<1> HIDE DEF new
<1>3. transfer' \in [Transfers -> Transfer] /\ transfer'[t] = new
      /\ \A u \in Transfers : u # t => transfer'[u] = transfer[u]
    BY <1>1, <1>2, PollerFacts
<1>4. Sent = 1..(t - 1) /\ t \in 1..MaxTransfers
    BY <1>2, Numbering DEF IInv, Transfers
<1>5. Sent' = Sent \cup {t}
    BY <1>1, <1>3 DEF Sent
<1>6. Sent' = 1..t /\ t \in 0..MaxTransfers
    BY <1>4, <1>5
<1>7. SoundChains'
    <2>1. \A u \in Sent' : transfer'[u].route \in Routes
        BY <1>1, <1>3, <1>5, PollerFacts DEF IInv, SoundChains
    <2>2. \A u \in Sent' : Chain[transfer'[u].route] = "stellar" =>
              transfer'[u].state = "confirmed"
        BY <1>1, <1>3, <1>5, PollerFacts DEF IInv, SoundChains, ChainOf
    <2>3. \A u \in Transfers \ Sent' : transfer'[u].block
        BY <1>3, <1>5 DEF IInv, SoundChains
    <2>4. QED
        BY <1>3, <1>6, <2>1, <2>2, <2>3 DEF SoundChains, ChainOf
<1>8. \A u \in Transfers : MayPay(u) => MayPay(u)'
    <2>1. t \notin Sent
        BY <1>4
    <2>2. ~MayPay(t)
        BY <2>1 DEF Sent, MayPay, PollsCount, IInv, SoundChains
    <2>3. QED
        BY <1>3, <2>2 DEF MayPay, PollsCount
<1>9. QED
    BY <1>7, <1>8, MoreTransfersKeep DEF Transact, memory, books

\* A confirmation changes no route and no number.
LEMMA ConfirmKeeps ==
    ASSUME IInv, NEW t \in Transfers, Confirm(t)
    PROVE  IInv'
<1>1. transfer' = [transfer EXCEPT ![t].state = "confirmed"]
      /\ transfer[t].state = "sent"
    BY DEF Confirm
<1>2. transfer' \in [Transfers -> Transfer]
      /\ \A u \in Transfers : /\ transfer'[u].route = transfer[u].route
                              /\ transfer'[u].block = transfer[u].block
                              /\ u # t => transfer'[u] = transfer[u]
      /\ transfer'[t].state = "confirmed"
    BY <1>1, PollerFacts DEF Transfer
<1>3. Sent' = Sent
    BY <1>1, <1>2 DEF Sent
<1>4. SoundChains'
    BY <1>2, <1>3, PollerFacts DEF IInv, SoundChains, ChainOf
<1>5. \A u \in Transfers : MayPay(u) => MayPay(u)'
    BY <1>2 DEF MayPay, PollsCount
<1>6. QED
    BY <1>4, <1>5, MoreTransfersKeep DEF Confirm, memory, books

\* Every step of a chain keeps the invariant.
LEMMA ChainStepKeeps ==
    ASSUME IInv, ChainStep PROVE IInv'
<1>1. ASSUME NEW t \in Transfers, NEW s \in Sessions, CustomerPays(t, s)
      PROVE  IInv'
    <2>1. session[s].route \in Routes /\ session[s].amount \in Amounts
        BY <1>1, RowFacts DEF CustomerPays, Row
    <2>2. QED
        BY <1>1, <2>1, TransactKeeps DEF CustomerPays
<1>2. ASSUME NEW t \in Transfers, NEW r \in Routes, NEW amount \in Amounts,
             OtherTransfer(t, r, amount)
      PROVE  IInv'
    BY <1>2, TransactKeeps DEF OtherTransfer
<1>3. QED
    BY <1>1, <1>2, ConfirmKeeps DEF ChainStep

\* A crash loses what the agents of a process held, and restarts its memory.
LEMMA RestartKeeps ==
    ASSUME IInv, NEW m \in Poller, NEW c \in 1..(MaxTransfers + 1),
           NEW Q \in SUBSET Agents, Restart(m, c, Q)
    PROVE  IInv'
<1>1. UNCHANGED <<session, transfer>> /\ UNCHANGED books
      /\ restarts' = restarts + 1 /\ restarts < MaxRestarts /\ lost' = lost
      /\ poller' = m /\ stream' = c
    BY DEF Restart, books
<1>2. \A a \in Agents : flow'[a] = flow[a] \/ flow'[a] \in {Idle, Done}
    BY Blank DEF Restart
<1>3. flow' \in [Agents -> Flow]
    <2>1. \A a \in Agents : flow'[a] \in Flow
        BY <1>2, FlowFacts, Blank
    <2>2. flow' = [a \in Agents |-> flow'[a]]
        BY DEF Restart
    <2>3. QED
        BY <2>1, <2>2
<1>4. SoundFlows'
    <2> SUFFICES ASSUME NEW a \in Agents PROVE SoundFlow(a, flow[a])'
        BY <1>3 DEF SoundFlows
    <2>1. SoundFlow(a, flow'[a])
        BY <1>2, FlowFacts, Blank
    <2>2. QED
        BY <1>1, <2>1 DEF SoundFlow, books, MayPay, PollsCount
<1>5. SoundBooks'
    <2>1. ASSUME NEW s \in Sessions
          PROVE  credited[s] + Cardinality(Owing(s)') <= paid[s]
        <3>1. Owing(s)' \subseteq Owing(s)
            BY <1>2, Blank DEF Owing
        <3>2. Cardinality(Owing(s)') <= Cardinality(Owing(s))
            BY <3>1, <1>4, CountsAreNat, Counting DEF IInv
        <3>3. credited[s] \in Nat /\ paid[s] \in Nat
              /\ credited[s] + Cardinality(Owing(s)) <= paid[s]
            BY DEF IInv, SoundBooks
        <3>4. QED
            BY <3>2, <3>3, <1>4, CountsAreNat DEF IInv
    <2>2. redeemed + Cardinality(Claiming') <= Total(paid)
        <3>1. Claiming' \subseteq Claiming
            BY <1>2, Blank DEF Claiming
        <3>2. Cardinality(Claiming') <= Cardinality(Claiming)
            BY <3>1, <1>4, CountsAreNat, Counting DEF IInv
        <3>3. redeemed \in Nat /\ Total(paid) \in Nat
              /\ redeemed + Cardinality(Claiming) <= Total(paid)
            BY TotalIsNat DEF IInv, SoundBooks
        <3>4. QED
            BY <3>2, <3>3, <1>4, CountsAreNat DEF IInv
    <2>3. Total(paid)' = Total(paid)
        BY <1>1 DEF books
    <2>4. QED
        BY <1>1, <2>1, <2>2, <2>3 DEF IInv, SoundBooks, books
<1>6. SoundMemory'
    BY <1>1, PaymentsAssumption DEF IInv, SoundMemory
<1>7. SoundRows' /\ SoundChains'
    BY <1>1, RowsStay, ChainsStay DEF IInv, books
<1>8. QED
    BY <1>4, <1>5, <1>6, <1>7 DEF IInv

\* A listener that starts has a memory of the right type.
LEMMA FreshMemory ==
    ASSUME NEW now \in 1..(MaxTransfers + 1), NEW block \in 1..now
    PROVE  Fresh(now, block) \in Poller
BY PaymentsAssumption DEF Fresh, Poller, Polled, NoBatch

\* Every crash keeps the invariant.
LEMMA CrashKeeps ==
    ASSUME IInv, RestartPoller \/ RestartStream \/ CrashApi PROVE IInv'
<1>1. CASE RestartPoller
    <2>1. PICK block \in 1..Now : Restart(Fresh(Now, block), stream, {"poller"})
        BY <1>1 DEF RestartPoller
    <2>2. Fresh(Now, block) \in Poller
        BY FreshMemory, PollerFacts
    <2>3. stream \in 1..(MaxTransfers + 1) /\ {"poller"} \in SUBSET Agents
        BY <1>1, AgentFacts DEF IInv, SoundMemory, RestartPoller
    <2>4. QED
        BY <2>1, <2>2, <2>3, RestartKeeps
<1>2. CASE RestartStream
    BY <1>2, RestartKeeps, PollerFacts, AgentFacts DEF RestartStream
<1>3. CASE CrashApi
    <2>1. PICK Q \in SUBSET Requests : Restart(poller, stream, Q)
        BY <1>3 DEF CrashApi
    <2>2. Q \in SUBSET Agents /\ stream \in 1..(MaxTransfers + 1)
        BY AgentFacts DEF IInv, SoundMemory
    <2>3. QED
        BY <2>1, <2>2, RestartKeeps, PollerFacts
<1>4. QED
    BY <1>1, <1>2, <1>3

(***************************************************************************)
(* The invariant.                                                          *)
(***************************************************************************)
\* The initial state satisfies the invariant.
LEMMA InitSound == Init => IInv
<1> SUFFICES ASSUME Init PROVE IInv
    OBVIOUS
<1>1. SoundFlows
    BY Blank DEF Init, SoundFlows
<1>2. SoundRows
    BY BlankData DEF Init, SoundRows, SettledWasPaid, NoRow, Settled
<1>3. SoundChains
    <2>1. \A t \in Transfers : transfer[t] = NoMove
        BY DEF Init
    <2>2. Sent = {}
        <3>1. NoMove.state = "none"
            BY DEF NoMove
        <3>2. QED
            BY <2>1, <3>1 DEF Sent
    <2>3. Sent = 1..0 /\ 0 \in 0..MaxTransfers
        BY <2>2, PaymentsAssumption
    <2>4. \A t \in Transfers : transfer[t].block
        <3>1. NoMove.block
            BY DEF NoMove
        <3>2. QED
            BY <2>1, <3>1
    <2>5. QED
        BY <2>2, <2>3, <2>4, BlankData DEF Init, SoundChains
<1>4. SoundMemory
    BY FreshMemory, PaymentsAssumption DEF Init, SoundMemory
<1>5. SoundBooks
    <2>1. \A s \in Sessions : Owing(s) = {}
        BY Blank DEF Init, Owing
    <2>2. Claiming = {}
        BY Blank DEF Init, Claiming
    <2>3. Total(paid) \in Nat
        BY TotalIsNat DEF Init
    <2>4. /\ spent \in [Transfers -> Nat] /\ paid \in [Sessions -> Nat]
          /\ credited \in [Sessions -> Nat] /\ used = 0 /\ redeemed = 0
          /\ \A s \in Sessions : credited[s] = 0 /\ paid[s] = 0
        BY DEF Init
    <2>5. \A s \in Sessions : Cardinality(Owing(s)) = 0
        BY <2>1, EmptyIsZero
    <2>6. Cardinality(Claiming) = 0
        BY <2>2, EmptyIsZero
    <2>7. \A s \in Sessions : credited[s] + Cardinality(Owing(s)) <= paid[s]
        BY <2>4, <2>5
    <2>8. redeemed + Cardinality(Claiming) <= Total(paid)
        BY <2>3, <2>4, <2>6
    <2>9. QED
        BY <2>4, <2>7, <2>8 DEF SoundBooks
<1>6. QED
    BY <1>1, <1>2, <1>3, <1>4, <1>5 DEF IInv

\* Every step of a listener keeps the invariant.
LEMMA PollerStepKeeps ==
    ASSUME IInv, PollerStep \/ StreamStep PROVE IInv'
<1>1. "poller" \in Listeners /\ Paying("poller") => IInv'
    BY PayingKeeps, AgentFacts
<1>2. "stream" \in Listeners /\ Paying("stream") => IInv'
    BY PayingKeeps, AgentFacts
<1>3. QED
    BY <1>1, <1>2, PollStellarKeeps, PromoteKeeps, PollTronKeeps, ScanEvmKeeps,
       EndBatchKeeps, ExamineKeeps, CommitMarkKeeps, StreamNextKeeps
       DEF PollerStep, StreamStep

\* Every step keeps the invariant.
LEMMA NextKeeps == IInv /\ [Next]_vars => IInv'
<1> SUFFICES ASSUME IInv, [Next]_vars PROVE IInv'
    OBVIOUS
<1>1. ASSUME NEW q \in Requests, Handler(q) \/ Paying(q) PROVE IInv'
    BY <1>1, HandlerKeeps, PayingKeeps, AgentFacts
<1>2. CASE UNCHANGED vars
    <2>1. SoundFlows'
        BY <1>2 DEF vars, IInv, SoundFlows, SoundFlow, MayPay, PollsCount
    <2>2. SoundRows' /\ SoundChains' /\ SoundMemory' /\ SoundBooks'
        BY <1>2, RowsStay, ChainsStay, MemoryStays, SameBooks
           DEF vars, IInv, memory, books
    <2>3. QED
        BY <2>1, <2>2 DEF IInv
<1>3. QED
    BY <1>1, <1>2, PollerStepKeeps, ChainStepKeeps, CrashKeeps, ElapseKeeps,
       FailCommitKeeps DEF Next

\* In every reachable state agents hold what was true, and the books balance.
THEOREM Invariant == Spec => []IInv
<1>1. QED
    BY InitSound, NextKeeps, PTL DEF Spec

\* Rows, chains, flows and the listeners' memory keep their types, for every
\* number of sessions, transfers, requests and crashes.
THEOREM TypeCorrect == Spec => []TypeOK
<1>1. IInv => TypeOK
    BY Consequences
<1>2. QED
    BY <1>1, Invariant, PTL

\* A session reads PAID, or refunded, only if it was paid, whatever stale
\* statuses handlers and listeners write over each other.
THEOREM StatusesAreEarned == Spec => []SettledWasPaid
<1>1. IInv => SettledWasPaid
    BY Consequences
<1>2. QED
    BY <1>1, Invariant, PTL

\* No merchant is credited without a PAID commit of its own, however many
\* agents hold the same session.
THEOREM CreditsWereBacked == Spec => []CreditsAreBacked
<1>1. IInv => CreditsAreBacked
    BY Consequences
<1>2. QED
    BY <1>1, Invariant, PTL

\* No coupon usage row without a PAID commit, and the usage count never gets
\* ahead of the rows.
THEOREM UsageWasBacked == Spec => []UsageIsBacked
<1>1. IInv => UsageIsBacked
    BY Consequences
<1>2. QED
    BY <1>1, Invariant, PTL

(***************************************************************************)
(* The promise.                                                            *)
(***************************************************************************)
Cleared == {t \in Transfers : MayPay(t)}
Shown == {s \in Sessions : session[s].status \in Settled}
money == <<spent, paid, credited>>

\* Whoever writes a status shows what was paid.
LEMMA Showing ==
    ASSUME IInv', UNCHANGED money, Cleared' = Cleared
    PROVE  Promise!Show
BY DEF IInv, SoundRows, SettledWasPaid, money, Cleared, Promise!Show

\* Steps that pay and credit nothing show, at most, what was paid.
LEMMA QuietSteps ==
    ASSUME IInv', NEW a,
           \/ Handler(a) \/ ReadUsage(a) \/ CommitUsage(a)
           \/ CommitMark(a) \/ (\E s \in Sessions : Elapse(s))
           \/ \E t \in Transfers : PollStellar(t) \/ Promote(t)
           \/ (\E r \in Routes : PollTron(r))
           \/ ScanEvm
           \/ (\E c \in Polled : EndBatch(c) \/ \E t \in Transfers : Examine(c, t))
           \/ FailCommit(a) \/ StreamNext \/ RestartPoller \/ RestartStream \/ CrashApi
    PROVE  Promise!Show
<1>1. UNCHANGED money /\ UNCHANGED transfer
    BY DEF money, Handler, Create, BeginPoll, BeginCancel, ApplyCoupon,
           BeginCoupon, BeginSelect, BeginPage, BeginRefund, CommitStart,
           CommitRoute, CommitWrite, Hold, ReadUsage, CommitUsage, CommitMark,
           Elapse, PollStellar, Promote, PollTron, ScanEvm, Fetch, EndBatch,
           FailCommit, Examine, PollerTurn, StreamNext, RestartPoller, RestartStream,
           CrashApi, Restart
<1>2. Cleared' = Cleared
    BY <1>1 DEF Cleared, MayPay, PollsCount
<1>3. QED
    BY <1>1, <1>2, Showing

\* A commit of PAID spends a transfer that may pay or waives the payment.
LEMMA PayIsPromised ==
    ASSUME IInv, NEW a \in Agents, CommitPay(a)
    PROVE  Promise!Accept \/ Promise!Waive
<1> DEFINE s == flow[a].session
           t == flow[a].transfer
<1>1. s \in Sessions /\ flow[a] \in Flow /\ SoundFlow(a, flow[a])
      /\ flow[a].step = "pay"
    BY FlowFacts DEF CommitPay, SoundFlow
<1>2. /\ paid \in [Sessions -> Nat] /\ spent \in [Transfers -> Nat]
    BY DEF IInv, SoundBooks
<1>3. paid' = [paid EXCEPT ![s] = @ + 1] /\ transfer' = transfer
      /\ credited' = credited
      /\ spent' = [u \in Transfers |-> spent[u] + (IF u = t THEN 1 ELSE 0)]
    BY DEF CommitPay
<1>4. Shown' = Shown \cup {s}
    <2>1. \A r \in Sessions : session'[r].status =
            IF r = s THEN "PAID" ELSE session[r].status
        BY <1>1, RowFacts DEF CommitPay, Row
    <2>2. QED
        BY <1>1, <2>1 DEF Shown, Settled
<1>5. CASE t = NoTransfer
    <2>1. spent' = spent
        <3>1. \A u \in Transfers : u # t /\ spent[u] \in Nat
            BY <1>2, <1>5 DEF Transfers, NoTransfer
        <3>2. \A u \in Transfers : spent'[u] = spent[u]
            BY <1>3, <3>1
        <3>3. QED
            BY <1>2, <1>3, <3>2
    <2>2. QED
        BY <1>1, <1>3, <1>4, <2>1 DEF Promise!Waive, Shown, MayPay, PollsCount
<1>6. CASE t # NoTransfer
    <2>1. t \in Transfers /\ MayPay(t)
        BY <1>1, <1>6 DEF Flow, SoundFlow
    <2>2. spent' = [spent EXCEPT ![t] = @ + 1]
        <3> HIDE DEF t
        <3>1. \A u \in Transfers : spent[u] \in Nat
            BY <1>2
        <3>2. \A u \in Transfers : spent'[u] = [spent EXCEPT ![t] = @ + 1][u]
            BY <1>2, <1>3, <3>1
        <3>3. spent' = [u \in Transfers |-> spent'[u]]
            BY <1>3
        <3>4. QED
            BY <1>2, <3>2, <3>3
    <2>3. QED
        BY <1>1, <1>3, <1>4, <2>1, <2>2 DEF Promise!Accept, Shown, MayPay, PollsCount
<1>7. QED
    BY <1>5, <1>6

\* A credit that is committed was backed.
LEMMA CreditIsPromised ==
    ASSUME IInv, IInv', NEW a \in Agents, CommitCredit(a)
    PROVE  Promise!Credit \/ Promise!Show
<1> DEFINE s == flow[a].session
<1>1. s \in Sessions /\ flow[a].step = "credit"
    BY FlowFacts DEF CommitCredit, SoundFlow
<1>2. UNCHANGED <<session, transfer, spent, paid>>
    BY DEF CommitCredit
<1>3. credited \in [Sessions -> Nat] /\ paid \in [Sessions -> Nat]
      /\ credited[s] + Cardinality(Owing(s)) <= paid[s]
    BY <1>1 DEF IInv, SoundBooks
<1>4. PICK n \in {0, 1} : credited' = [credited EXCEPT ![s] = @ + n]
    BY DEF CommitCredit
<1>5. CASE n = 0
    <2>1. credited' = credited
        BY <1>1, <1>3, <1>4, <1>5
    <2>2. QED
        BY <1>2, <2>1, Showing DEF money, Cleared, MayPay, PollsCount
<1>6. CASE n = 1
    <2>1. a \in Owing(s) /\ Owing(s) \in SUBSET Agents
        BY <1>1 DEF Owing
    <2>2. Cardinality(Owing(s)) \in Nat /\ Cardinality(Owing(s)) >= 1
        <3>1. {} \in SUBSET Agents /\ {} \subseteq Owing(s) \ {a}
            OBVIOUS
        <3>2. Cardinality({}) <= Cardinality(Owing(s)) - 1
              /\ Cardinality(Owing(s)) \in Nat
            BY <2>1, <3>1, Counting
        <3>3. QED
            BY <3>2, FS_EmptySet
    <2>3. credited[s] < paid[s]
        BY <1>1, <1>3, <2>2
    <2>4. QED
        BY <1>1, <1>2, <1>4, <1>6, <2>3 DEF Promise!Credit, MayPay, PollsCount
<1>7. QED
    BY <1>5, <1>6

\* A chain confirms transfers.
LEMMA ChainIsPromised ==
    ASSUME IInv, IInv', ChainStep
    PROVE  Promise!Settle \/ Promise!Show
<1>1. PICK t \in Transfers, new \in Transfer :
        /\ transfer' = [transfer EXCEPT ![t] = new]
        /\ MayPay(t) => new.state = "confirmed" \/ ~new.block
    <2>1. ASSUME NEW t \in Transfers, NEW r \in Routes, NEW amount \in Amounts,
                 NEW for \in {NoSession} \cup Sessions, Transact(t, r, amount, for)
          PROVE  \E new \in Transfer :
                    /\ transfer' = [transfer EXCEPT ![t] = new]
                    /\ MayPay(t) => new.state = "confirmed" \/ ~new.block
        <3>0. PICK block \in BOOLEAN :
                transfer' = [transfer EXCEPT ![t] =
                    [state |-> IF Chain[r] = "stellar" THEN "confirmed" ELSE "sent",
                     route |-> r, amount |-> amount, for |-> for, block |-> block]]
            BY <2>1 DEF Transact
        <3> DEFINE new == [state |-> IF Chain[r] = "stellar" THEN "confirmed" ELSE "sent",
                           route |-> r, amount |-> amount, for |-> for,
                           block |-> block]
        <3>1. new \in Transfer /\ transfer' = [transfer EXCEPT ![t] = new] /\ t = Now
            BY <2>1, <3>0 DEF Transact, Transfer
        <3> HIDE DEF new
        <3>2. ~MayPay(t)
            <4>1. t \notin Sent
                BY <3>1, Numbering DEF IInv
            <4>2. QED
                BY <4>1 DEF Sent, MayPay, PollsCount, IInv, SoundChains
        <3>3. QED
            BY <3>1, <3>2
    <2>2. ASSUME NEW t \in Transfers, Confirm(t)
          PROVE  \E new \in Transfer :
                    /\ transfer' = [transfer EXCEPT ![t] = new]
                    /\ MayPay(t) => new.state = "confirmed" \/ ~new.block
        <3> DEFINE new == [transfer[t] EXCEPT !.state = "confirmed"]
        <3>1. new \in Transfer /\ transfer' = [transfer EXCEPT ![t] = new]
              /\ new.state = "confirmed"
            BY <2>2, PollerFacts DEF Confirm, Transfer
        <3> HIDE DEF new
        <3>2. QED
            BY <3>1
    <2>3. ASSUME NEW t \in Transfers, NEW s \in Sessions, CustomerPays(t, s)
          PROVE  session[s].route \in Routes /\ session[s].amount \in Amounts
                 /\ s \in {NoSession} \cup Sessions
                 /\ Transact(t, session[s].route, session[s].amount, s)
        BY <2>3, RowFacts DEF CustomerPays, Row
    <2>4. QED
        BY <2>1, <2>2, <2>3 DEF ChainStep, OtherTransfer
<1>2. UNCHANGED <<session, spent, paid, credited>>
    BY DEF ChainStep, CustomerPays, OtherTransfer, Transact, Confirm
<1>3. \A u \in Transfers : transfer'[u] = IF u = t THEN new ELSE transfer[u]
    BY <1>1, PollerFacts
<1>4. Cleared' = Cleared \/ Cleared' = Cleared \cup {t}
    BY <1>1, <1>3 DEF Cleared, MayPay, PollsCount
<1>5. CASE Cleared' = Cleared
    BY <1>2, <1>5, Showing DEF money
<1>6. CASE Cleared' = Cleared \cup {t}
    BY <1>2, <1>6 DEF Promise!Settle, Cleared
<1>7. QED
    BY <1>4, <1>5, <1>6

\* The payment subsystem implements PaymentPromise: only transfers that are
\* confirmed, or that the Tron listener cannot place in a block and takes for
\* confirmed after some polls, and full coupons pay; only paid sessions are
\* shown as such or credited.
THEOREM PromiseIsKept == Spec => KeepsPromise
<1>1. Init => Promise!Init
    BY BlankData DEF Init, Promise!Init, NoRow, NoMove, Settled, MayPay, PollsCount
<1>2. IInv /\ IInv' /\ [Next]_vars => [Promise!Next]_(Promise!vars)
    <2> SUFFICES ASSUME IInv, IInv', Next
                 PROVE  Promise!Next
        BY DEF vars, Promise!vars, MayPay, PollsCount
    <2>1. ASSUME NEW a \in Agents, Paying(a) PROVE Promise!Next
        BY <2>1, PayIsPromised, CreditIsPromised, QuietSteps DEF Paying, Promise!Next
    <2>2. ASSUME NEW q \in Requests, Handler(q) PROVE Promise!Next
        BY <2>2, QuietSteps DEF Promise!Next
    <2>3. CASE PollerStep
        BY <2>1, <2>3, QuietSteps, AgentFacts DEF PollerStep, Promise!Next
    <2>4. CASE StreamStep
        BY <2>1, <2>4, QuietSteps, AgentFacts DEF StreamStep, Promise!Next
    <2>5. CASE ChainStep
        BY <2>5, ChainIsPromised DEF Promise!Next
    <2>6. CASE \/ RestartPoller \/ RestartStream \/ CrashApi
               \/ \E a \in Agents : FailCommit(a)
               \/ \E s \in Sessions : Elapse(s)
        BY <2>6, QuietSteps DEF Promise!Next
    <2>7. QED
        BY <2>1, <2>2, <2>3, <2>4, <2>5, <2>6, AgentFacts DEF Next
<1>3. QED
    BY <1>1, <1>2, Invariant, PTL DEF Spec, KeepsPromise, Promise!Spec

\* The first transfer of chain c that no batch has been fetched from.
Edge(c) == IF poller.next[c] = NoBatch THEN poller.cursor[c] ELSE poller.next[c]

\* A transfer the poller has not taken: it is yet to come, to be looked at,
\* or to be confirmed.
Waiting(t) ==
    \/ t \notin Sent
    \/ ChainOf(t) = "stellar" /\ t \notin poller.seen
    \/ \E c \in Polled : /\ ChainOf(t) = c
                         /\ t \in poller.todo[c] \cup poller.tracked \/ t >= Edge(c)

Spends(l, t) == flow[l].step = "pay" /\ flow[l].transfer = t

\* What the poller holds was sent on a chain it polls, and lies behind the
\* edge; what waits for confirmations is not in a batch.
TidyMemory ==
    /\ \A c \in Polled : \A t \in poller.todo[c] :
         t \in Sent /\ ChainOf(t) = c /\ t < poller.next[c]
    /\ \A t \in poller.tracked :
         /\ t \in Sent /\ ChainOf(t) \in Polled
         /\ t < Edge(ChainOf(t)) /\ t \notin poller.todo[ChainOf(t)]

\* A transfer that is being spent has been taken.
TakenOnce ==
    /\ "poller" \in Listeners =>
         \A t \in Transfers : Spends("poller", t) => ~Waiting(t)
    /\ "stream" \in Listeners =>
         \A t \in Transfers : Spends("stream", t) => t < stream

\* The listeners that spend t now or may do so before they restart.
Holders(t) ==
    {l \in Listeners : \/ Spends(l, t)
                       \/ l = "poller" /\ Waiting(t)
                       \/ l = "stream" /\ stream <= t}

Rationed ==
    \A t \in Transfers :
        spent[t] + Cardinality(Holders(t)) <= Cardinality(Listeners) + restarts

Lives == TidyMemory /\ TakenOnce /\ Rationed

\* The listeners that may spend a transfer can be counted.
LEMMA HoldersAreCounted ==
    ASSUME IInv
    PROVE  /\ \A t \in Transfers : /\ Holders(t) \in SUBSET Agents
                                   /\ Holders(t)' \in SUBSET Agents
                                   /\ Cardinality(Holders(t)) \in Nat
                                   /\ Cardinality(Holders(t)') \in Nat
                                   /\ Cardinality(Holders(t)) <= Cardinality(Listeners)
           /\ Cardinality(Listeners) \in Nat
           /\ \A t \in Transfers : spent[t] \in Nat
           /\ restarts \in Nat
<1>1. \A t \in Transfers : Holders(t) \in SUBSET Agents /\ Holders(t)' \in SUBSET Agents
                           /\ Holders(t) \subseteq Listeners
    BY AgentFacts DEF Holders
<1>2. Listeners \in SUBSET Agents
    BY AgentFacts
<1>3. restarts \in Nat /\ \A t \in Transfers : spent[t] \in Nat
    BY DEF IInv, SoundBooks, SoundMemory
<1>4. QED
    BY <1>1, <1>2, <1>3, Counting

\* Where nothing is spent and no claim is gained, the ration holds.
LEMMA RationStays ==
    ASSUME IInv, Rationed, UNCHANGED <<spent, restarts>>,
           \A t \in Transfers : Holders(t)' \subseteq Holders(t)
    PROVE  Rationed'
<1> SUFFICES ASSUME NEW t \in Transfers
             PROVE  spent[t] + Cardinality(Holders(t)') <= Cardinality(Listeners) + restarts
    BY DEF Rationed
<1>1. Cardinality(Holders(t)') <= Cardinality(Holders(t))
    BY HoldersAreCounted, Counting
<1>2. spent[t] + Cardinality(Holders(t)) <= Cardinality(Listeners) + restarts
    BY DEF Rationed
<1>3. QED
    BY <1>1, <1>2, HoldersAreCounted

\* What is waiting depends on the chains and on the memory of the poller.
LEMMA SameMemory ==
    ASSUME UNCHANGED <<transfer, poller>>
    PROVE  /\ TidyMemory => TidyMemory'
           /\ \A t : Waiting(t)' = Waiting(t)
BY DEF TidyMemory, Waiting, Sent, ChainOf, Edge

\* Steps in which no listener takes a transfer, and none is spent.
LEMMA NothingTaken ==
    ASSUME IInv, Lives, UNCHANGED <<transfer, poller, stream, restarts, spent>>,
           \A l \in Listeners, t \in Transfers : Spends(l, t)' => Spends(l, t)
    PROVE  Lives'
<1>1. TidyMemory' /\ \A t : Waiting(t)' = Waiting(t)
    BY SameMemory DEF Lives
<1>2. TakenOnce'
    BY <1>1 DEF Lives, TakenOnce
<1>3. \A t \in Transfers : Holders(t)' \subseteq Holders(t)
    BY <1>1 DEF Holders
<1>4. QED
    BY <1>1, <1>2, <1>3, RationStays DEF Lives

\* A session handler is no listener.
LEMMA HandlerLives ==
    ASSUME IInv, Lives, NEW q \in Requests, Handler(q) PROVE Lives'
<1>1. UNCHANGED <<transfer, poller, stream, restarts, spent>>
    BY DEF Handler, Create, BeginPoll, BeginCancel, ApplyCoupon,
           BeginCoupon, BeginSelect, BeginPage, BeginRefund, CommitStart,
           CommitRoute, CommitWrite, Hold
<1>2. \E f : flow' = [flow EXCEPT ![q] = f]
    BY DEF Handler, Create, BeginPoll, BeginCancel, ApplyCoupon,
           BeginCoupon, BeginSelect, BeginPage, BeginRefund, CommitStart,
           CommitRoute, CommitWrite, Hold
<1>3. \A l \in Listeners : flow'[l] = flow[l]
    BY <1>2, AgentFacts DEF IInv, SoundFlows
<1>4. QED
    BY <1>1, <1>3, NothingTaken DEF Spends

\* After PAID is committed, the rest is not about the transfer.
LEMMA AfterPaymentLives ==
    ASSUME IInv, Lives, NEW a \in Agents,
           \/ CommitCredit(a) \/ ReadUsage(a) \/ CommitUsage(a)
           \/ CommitMark(a) \/ FailCommit(a)
    PROVE  Lives'
<1>1. UNCHANGED <<transfer, poller, stream, restarts, spent>>
    BY DEF CommitCredit, ReadUsage, CommitUsage, CommitMark, FailCommit, Hold
<1>2. PICK f : flow' = [flow EXCEPT ![a] = f] /\ f.step # "pay"
    <2>1. AfterCredit(a).step # "pay"
        <3>1. Finish(a).step # "pay"
            BY Blank
        <3>2. [flow[a] EXCEPT !.step = "usage"].step = "usage"
            BY FlowFacts DEF Flow
        <3>3. QED
            BY <3>1, <3>2 DEF AfterCredit
    <2>2. [flow[a] EXCEPT !.step = "count", !.seen = used].step = "count"
        BY FlowFacts DEF Flow
    <2>3. QED
        BY <2>1, <2>2, Blank
           DEF CommitCredit, ReadUsage, CommitUsage, CommitMark, FailCommit, Hold
<1>3. \A l \in Listeners : \A t : Spends(l, t)' => Spends(l, t)
    BY <1>2, AgentFacts DEF IInv, SoundFlows, Spends
<1>4. QED
    BY <1>1, <1>3, NothingTaken

\* A coupon spends no transfer; a listener spends the one it holds.
LEMMA CommitPayLives ==
    ASSUME IInv, IInv', Lives, NEW a \in Agents, CommitPay(a) PROVE Lives'
<1> DEFINE t == flow[a].transfer
<1>1. /\ flow[a] \in Flow /\ SoundFlow(a, flow[a]) /\ flow \in [Agents -> Flow]
      /\ flow[a].step = "pay"
    BY FlowFacts DEF CommitPay, IInv, SoundFlows
<1>2. UNCHANGED <<transfer, poller, stream, restarts>>
      /\ spent' = [u \in Transfers |-> spent[u] + (IF u = t THEN 1 ELSE 0)]
    BY DEF CommitPay
<1>3. flow'[a].step = "credit" /\ \A b \in Agents : b # a => flow'[b] = flow[b]
    BY <1>1 DEF CommitPay, Flow
<1>4. \A l \in Listeners, u \in Transfers : Spends(l, u)' => Spends(l, u) /\ l # a
    BY <1>3, AgentFacts DEF Spends
<1>5. CASE a \in Requests
    <2>1. t = NoTransfer
        BY <1>1, <1>5 DEF SoundFlow
    <2>2. \A u \in Transfers : u # t /\ spent[u] \in Nat
        BY <2>1, HoldersAreCounted DEF Transfers, NoTransfer
    <2>3. \A u \in Transfers : spent'[u] = spent[u]
        BY <1>2, <2>2
    <2>4. spent' = spent
        BY <1>2, <2>3 DEF IInv, SoundBooks
    <2>5. QED
        BY <1>2, <1>4, <2>4, NothingTaken
<1>6. CASE a \in Listeners
    <2>1. TidyMemory' /\ \A u : Waiting(u)' = Waiting(u)
        BY <1>2, SameMemory DEF Lives
    <2>2. TakenOnce'
        BY <1>2, <1>4, <2>1 DEF Lives, TakenOnce
    <2>3. ASSUME NEW u \in Transfers
          PROVE  spent'[u] + Cardinality(Holders(u)') <= Cardinality(Listeners) + restarts
        <3>1. Holders(u)' \subseteq Holders(u)
            BY <1>2, <1>4, <2>1 DEF Holders
        <3>2. spent[u] + Cardinality(Holders(u)) <= Cardinality(Listeners) + restarts
            BY DEF Lives, Rationed
        <3>3. CASE u = t
            <4>1. a \in Holders(u)
                BY <1>1, <1>6, <3>3 DEF Holders, Spends
            <4>2. a \notin Holders(u)'
                <5>1. Spends(a, u) /\ ~Spends(a, u)'
                    BY <1>1, <1>3, <3>3 DEF Spends
                <5>2. a = "poller" => ~Waiting(u)'
                    BY <1>6, <2>1, <5>1 DEF Lives, TakenOnce
                <5>3. a = "stream" => ~(stream <= u)
                    <6>1. stream \in Int /\ u \in Int
                        BY PaymentsAssumption DEF IInv, SoundMemory, Transfers
                    <6>2. QED
                        BY <1>6, <5>1, <6>1 DEF Lives, TakenOnce
                <5>4. QED
                    BY <1>2, <5>1, <5>2, <5>3 DEF Holders
            <4>3. Cardinality(Holders(u)') <= Cardinality(Holders(u)) - 1
                BY <3>1, <4>1, <4>2, HoldersAreCounted, Counting
            <4>4. spent'[u] = spent[u] + 1
                BY <1>2, <3>3
            <4>5. QED
                BY <3>2, <4>3, <4>4, HoldersAreCounted
        <3>4. CASE u # t
            <4>1. Cardinality(Holders(u)') <= Cardinality(Holders(u))
                BY <3>1, HoldersAreCounted, Counting
            <4>2. spent'[u] = spent[u]
                BY <1>2, <3>4, HoldersAreCounted
            <4>3. QED
                BY <3>2, <4>1, <4>2, HoldersAreCounted
        <3>5. QED
            BY <3>3, <3>4
    <2>4. Rationed'
        BY <1>2, <2>3 DEF Rationed
    <2>5. QED
        BY <2>1, <2>2, <2>4 DEF Lives
<1>7. QED
    BY <1>5, <1>6 DEF Agents

(***************************************************************************)
(* Turns of the poller.                                                    *)
(***************************************************************************)
\* A turn of the poller that pays from a transfer takes it.
LEMMA TurnLives ==
    ASSUME IInv, Lives, NEW p, NEW f, PollerIdle, PollerTurn(p, f), TidyMemory',
           \A t \in Transfers : Waiting(t)' => Waiting(t),
           \A t \in Transfers : f.step = "pay" /\ f.transfer = t =>
               Waiting(t) /\ ~Waiting(t)'
    PROVE  Lives'
<1>1. "poller" \in Listeners /\ "poller" \in Agents
      /\ flow' = [flow EXCEPT !["poller"] = f]
      /\ UNCHANGED <<transfer, stream, restarts, spent>>
    BY AgentFacts DEF PollerIdle, PollerTurn
<1>2. flow'["poller"] = f /\ flow'["stream"] = flow["stream"]
    BY <1>1 DEF IInv, SoundFlows
<1>3. TakenOnce'
    BY <1>1, <1>2 DEF Lives, TakenOnce, Spends
<1>4. ASSUME NEW t \in Transfers PROVE Holders(t)' \subseteq Holders(t)
    <2> SUFFICES ASSUME NEW l \in Holders(t)' PROVE l \in Holders(t)
        OBVIOUS
    <2>1. l \in Listeners
        BY DEF Holders
    <2>2. CASE l = "poller"
        BY <1>2, <2>2 DEF Holders, Spends
    <2>3. CASE l = "stream"
        BY <1>1, <1>2, <2>3 DEF Holders, Spends
    <2>4. QED
        BY <2>1, <2>2, <2>3, AgentFacts
<1>5. QED
    BY <1>1, <1>3, <1>4, RationStays DEF Lives

\* An agent spends the transfer it took on.
LEMMA TakenTransfer ==
    ASSUME NEW t \in Transfers, NEW u \in Transfers, NEW statuses, NEW step
    PROVE  /\ Took(step, t, statuses).step = "pay"
                /\ Took(step, t, statuses).transfer = u
             => u = t /\ step = "pay"
           /\ Callback(t).step = "pay" /\ Callback(t).transfer = u => u = t
<1>1. ASSUME NEW stp, NEW sts, Took(stp, t, sts).step = "pay"
      PROVE  Took(stp, t, sts).transfer = t /\ stp = "pay"
    <2>1. Took(stp, t, sts) # Idle
        BY <1>1, Blank
    <2>2. Took(stp, t, sts) = [Idle EXCEPT !.step = stp, !.session = Match(t, sts),
                                           !.transfer = t]
        BY <2>1 DEF Took
    <2>3. QED
        BY <1>1, <2>2 DEF Idle
<1>2. QED
    BY <1>1, Blank DEF Callback

\* While the memory is not cut, an operation is seen once.
LEMMA PollStellarLives ==
    ASSUME IInv, Lives, MaxTransfers <= SeenCap, NEW t \in Transfers, PollStellar(t)
    PROVE  Lives'
<1>1. PICK kept \in Memory(t) :
        PollerTurn([poller EXCEPT !.seen = kept], Callback(t))
    BY DEF PollStellar
<1>2. PollerIdle /\ t \in Sent /\ ChainOf(t) = "stellar" /\ t \notin poller.seen
    BY DEF PollStellar, Unseen
<1>3. kept = poller.seen \cup {t}
    <2> DEFINE all == poller.seen \cup {t}
    <2>1. all \in SUBSET Transfers
        BY PollerFacts DEF Poller
    <2>2. IsFiniteSet(Transfers) /\ Cardinality(Transfers) = MaxTransfers
        BY FS_Interval, PaymentsAssumption DEF Transfers
    <2>3. Cardinality(all) <= MaxTransfers /\ Cardinality(all) \in Nat
        BY <2>1, <2>2, FS_Subset, FS_CardinalityType
    <2> HIDE DEF all
    <2>4. Cardinality(all) <= SeenCap
        BY <2>3, PaymentsAssumption
    <2>5. QED
        BY <2>4 DEF Memory, all
<1>4. /\ poller'.seen = poller.seen \cup {t} /\ poller'.todo = poller.todo
      /\ poller'.tracked = poller.tracked /\ poller'.next = poller.next
      /\ poller'.cursor = poller.cursor /\ transfer' = transfer
    BY <1>1, <1>3, PollerFacts DEF PollerTurn, Poller
<1>5. \A c : Edge(c)' = Edge(c)
    BY <1>4 DEF Edge
<1>6. Sent' = Sent /\ \A u : ChainOf(u)' = ChainOf(u)
    BY <1>4 DEF Sent, ChainOf
<1>7. TidyMemory'
    BY <1>4, <1>5, <1>6 DEF Lives, TidyMemory
<1>8. \A u \in Transfers : Waiting(u)' => Waiting(u) /\ u # t
    BY <1>2, <1>4, <1>5, <1>6 DEF Waiting, Polled
<1>9. Waiting(t)
    BY <1>2 DEF Waiting
<1>10. QED
    BY <1>1, <1>2, <1>7, <1>8, <1>9, TurnLives, TakenTransfer

\* A transfer leaves a batch, or those that wait for confirmations, and is in
\* neither afterwards.
LEMMA PromoteLives ==
    ASSUME IInv, Lives, NEW t \in Transfers, Promote(t)
    PROVE  Lives'
<1>1. /\ PollerIdle /\ t \in poller.tracked
      /\ PollerTurn([poller EXCEPT !.tracked = @ \ {t}], Callback(t))
    BY DEF Promote
<1>2. /\ poller'.seen = poller.seen /\ poller'.todo = poller.todo
      /\ poller'.tracked = poller.tracked \ {t} /\ poller'.next = poller.next
      /\ poller'.cursor = poller.cursor /\ transfer' = transfer
    BY <1>1, PollerFacts DEF PollerTurn, Poller
<1>3. \A c : Edge(c)' = Edge(c)
    BY <1>2 DEF Edge
<1>4. Sent' = Sent /\ \A u : ChainOf(u)' = ChainOf(u)
    BY <1>2 DEF Sent, ChainOf
<1>5. TidyMemory'
    BY <1>2, <1>3, <1>4 DEF Lives, TidyMemory
<1>6. \A u \in Transfers : Waiting(u)' => Waiting(u)
    BY <1>2, <1>3, <1>4 DEF Waiting
<1>7. /\ t \in Sent /\ ChainOf(t) \in Polled
      /\ t < Edge(ChainOf(t)) /\ t \notin poller.todo[ChainOf(t)]
    BY <1>1 DEF Lives, TidyMemory
<1>8. Waiting(t)
    BY <1>1, <1>7 DEF Waiting
<1>9. ~Waiting(t)'
    <2>1. Edge(ChainOf(t)) \in Int /\ t \in Int
        BY <1>7, PollerFacts DEF Edge, Poller, Transfers
    <2>2. QED
        BY <1>2, <1>3, <1>4, <1>7, <2>1 DEF Waiting, Polled
<1>10. QED
    BY <1>1, <1>5, <1>6, <1>8, <1>9, TurnLives, TakenTransfer

\* A transfer that is examined leaves its batch.
LEMMA ExamineLives ==
    ASSUME IInv, Lives, NEW c \in Polled, NEW t \in Transfers, Examine(c, t)
    PROVE  Lives'
<1>1. PollerIdle /\ t \in poller.todo[c]
    BY DEF Examine
<1>2. /\ t \in Sent /\ ChainOf(t) = c /\ t < poller.next[c]
      /\ poller.next[c] # NoBatch /\ Edge(c) = poller.next[c]
    <2>1. t \in Sent /\ ChainOf(t) = c /\ t < poller.next[c]
        BY <1>1 DEF Lives, TidyMemory
    <2>2. poller.next[c] \in Nat /\ t \in Nat /\ t > 0
        BY PollerFacts DEF Poller, Transfers
    <2>3. QED
        BY <2>1, <2>2 DEF NoBatch, Edge
<1>3. Waiting(t)
    BY <1>1, <1>2 DEF Waiting
<1>4. t \notin poller.tracked
    BY <1>1, <1>2 DEF Lives, TidyMemory
<1>5. CASE PollerTurn([poller EXCEPT !.todo[c] = @ \ {t}], Callback(t))
    <2>1. /\ poller'.seen = poller.seen
          /\ poller'.todo = [poller.todo EXCEPT ![c] = @ \ {t}]
          /\ poller'.tracked = poller.tracked /\ poller'.next = poller.next
          /\ poller'.cursor = poller.cursor /\ transfer' = transfer
        BY <1>5, PollerFacts DEF PollerTurn, Poller
    <2>2. \A d \in Polled : poller'.todo[d] = IF d = c THEN poller.todo[c] \ {t}
                                              ELSE poller.todo[d]
        BY <2>1, PollerFacts DEF Poller
    <2>3. /\ \A d : Edge(d)' = Edge(d)
          /\ Sent' = Sent /\ \A u : ChainOf(u)' = ChainOf(u)
        BY <2>1 DEF Edge, Sent, ChainOf
    <2>4. TidyMemory'
        BY <2>1, <2>2, <2>3 DEF Lives, TidyMemory
    <2>5. \A u \in Transfers : Waiting(u)' => Waiting(u)
        BY <2>1, <2>2, <2>3 DEF Waiting
    <2>6. ~Waiting(t)'
        <3>1. poller.next[c] \in Int /\ t \in Int
            BY PollerFacts DEF Poller, Transfers
        <3>2. QED
            BY <1>2, <1>4, <2>1, <2>2, <2>3, <3>1 DEF Waiting, Polled
    <2>7. QED
        BY <1>1, <1>3, <1>5, <2>4, <2>5, <2>6, TurnLives, TakenTransfer
<1>6. CASE PollerTurn([poller EXCEPT !.todo[c] = @ \ {t},
                                     !.tracked = @ \cup {t}],
                      Took("mark", t, {"CREATED"}))
    <2>1. /\ poller'.seen = poller.seen
          /\ poller'.todo = [poller.todo EXCEPT ![c] = @ \ {t}]
          /\ poller'.tracked = poller.tracked \cup {t} /\ poller'.next = poller.next
          /\ poller'.cursor = poller.cursor /\ transfer' = transfer
        BY <1>6, PollerFacts DEF PollerTurn, Poller
    <2>2. \A d \in Polled : poller'.todo[d] = IF d = c THEN poller.todo[c] \ {t}
                                              ELSE poller.todo[d]
        BY <2>1, PollerFacts DEF Poller
    <2>3. /\ \A d : Edge(d)' = Edge(d)
          /\ Sent' = Sent /\ \A u : ChainOf(u)' = ChainOf(u)
        BY <2>1 DEF Edge, Sent, ChainOf
    <2>4. TidyMemory'
        BY <1>2, <2>1, <2>2, <2>3 DEF Lives, TidyMemory
    <2>5. \A u \in Transfers : Waiting(u)' => Waiting(u)
        BY <1>3, <2>1, <2>2, <2>3 DEF Waiting
    <2>6. QED
        BY <1>1, <1>6, <2>4, <2>5, TurnLives, TakenTransfer
<1>7. QED
    BY <1>5, <1>6 DEF Examine

\* The end of a batch moves no edge.
LEMMA EndBatchLives ==
    ASSUME IInv, Lives, NEW c \in Polled, EndBatch(c)
    PROVE  Lives'
<1>1. /\ PollerIdle /\ poller.next[c] # NoBatch /\ poller.todo[c] = {}
      /\ PollerTurn([poller EXCEPT !.cursor[c] = poller.next[c], !.next[c] = NoBatch],
                    Idle)
    BY DEF EndBatch
<1>2. /\ poller'.seen = poller.seen /\ poller'.todo = poller.todo
      /\ poller'.tracked = poller.tracked
      /\ poller'.next = [poller.next EXCEPT ![c] = NoBatch]
      /\ poller'.cursor = [poller.cursor EXCEPT ![c] = poller.next[c]]
      /\ transfer' = transfer
    BY <1>1, PollerFacts DEF PollerTurn, Poller
<1>3. \A d \in Polled : Edge(d)' = Edge(d)
    BY <1>1, <1>2, PollerFacts DEF Edge, Poller
<1>4. Sent' = Sent /\ \A u : ChainOf(u)' = ChainOf(u)
    BY <1>2 DEF Sent, ChainOf
<1>5. TidyMemory'
    BY <1>1, <1>2, <1>3, <1>4, PollerFacts DEF Lives, TidyMemory, Poller
<1>6. \A u \in Transfers : Waiting(u)' => Waiting(u)
    BY <1>2, <1>3, <1>4 DEF Waiting
<1>7. QED
    BY <1>1, <1>5, <1>6, TurnLives, Blank

\* A batch lies between the old edge and the new one.
LEMMA FetchLives ==
    ASSUME IInv, Lives, NEW c \in Polled, NEW batch, NEW next \in Nat,
           \A t \in batch : /\ t \in Sent /\ ChainOf(t) = c
                            /\ t >= poller.cursor[c] /\ t < next,
           Fetch(c, batch, next)
    PROVE  Lives'
<1>1. /\ PollerIdle /\ poller.next[c] = NoBatch /\ batch # {}
      /\ PollerTurn([poller EXCEPT !.todo[c] = batch, !.next[c] = next], Idle)
    BY DEF Fetch
<1>2. /\ poller'.seen = poller.seen
      /\ poller'.todo = [poller.todo EXCEPT ![c] = batch]
      /\ poller'.tracked = poller.tracked
      /\ poller'.next = [poller.next EXCEPT ![c] = next]
      /\ poller'.cursor = poller.cursor
      /\ transfer' = transfer
    BY <1>1, PollerFacts DEF PollerTurn, Poller
<1>3. Sent' = Sent /\ \A u : ChainOf(u)' = ChainOf(u)
    BY <1>2 DEF Sent, ChainOf
<1>4. Sent \subseteq Int /\ poller.cursor[c] \in Nat
    BY PollerFacts DEF Transfers, Poller
<1>5. next # NoBatch /\ poller.cursor[c] < next
    <2>1. PICK t \in batch : TRUE
        BY <1>1
    <2>2. t \in Int /\ poller.cursor[c] <= t /\ t < next
        BY <1>4, <2>1
    <2>3. QED
        BY <1>4, <2>2 DEF NoBatch
<1>6. /\ Edge(c) = poller.cursor[c] /\ Edge(c)' = next
      /\ poller'.next[c] = next /\ poller'.todo[c] = batch
      /\ \A d \in Polled : d # c => /\ Edge(d)' = Edge(d)
                                    /\ poller'.next[d] = poller.next[d]
                                    /\ poller'.todo[d] = poller.todo[d]
    BY <1>1, <1>2, <1>5, PollerFacts DEF Edge, Poller
<1>7. TidyMemory'
    <2>1. ASSUME NEW d \in Polled, NEW t \in poller'.todo[d]
          PROVE  t \in Sent /\ ChainOf(t) = d /\ t < poller'.next[d]
        <3>1. CASE d = c
            BY <1>6, <2>1, <3>1
        <3>2. CASE d # c
            BY <1>6, <2>1, <3>2 DEF Lives, TidyMemory
        <3>3. QED
            BY <3>1, <3>2
    <2>2. ASSUME NEW t \in poller.tracked
          PROVE  /\ t \in Sent /\ ChainOf(t) \in Polled
                 /\ t < Edge(ChainOf(t))' /\ t \notin poller'.todo[ChainOf(t)]
        <3>1. /\ t \in Sent /\ ChainOf(t) \in Polled /\ t < Edge(ChainOf(t))
              /\ t \notin poller.todo[ChainOf(t)]
            BY DEF Lives, TidyMemory
        <3>2. CASE ChainOf(t) = c
            <4>1. t < poller.cursor[c] /\ t \in Int
                BY <1>4, <1>6, <3>1, <3>2
            <4>2. t < next /\ t \notin batch
                BY <1>4, <1>5, <4>1
            <4>3. Edge(ChainOf(t))' = next
                BY <1>3, <1>6, <3>2
            <4>4. QED
                BY <1>6, <3>1, <3>2, <4>2, <4>3
        <3>3. CASE ChainOf(t) # c
            <4>1. Edge(ChainOf(t))' = Edge(ChainOf(t))
                BY <1>3, <1>6, <3>1, <3>3
            <4>2. QED
                BY <1>6, <3>1, <3>3, <4>1
        <3>4. QED
            BY <3>2, <3>3
    <2>3. QED
        BY <1>2, <1>3, <2>1, <2>2 DEF TidyMemory
<1>8. ASSUME NEW u \in Transfers, Waiting(u)' PROVE Waiting(u)
    <2>1. CASE u \notin Sent
        BY <2>1 DEF Waiting
    <2>2. CASE ChainOf(u) = "stellar" /\ u \notin poller.seen
        BY <2>2 DEF Waiting
    <2>3. CASE u \in Sent /\ ~(ChainOf(u) = "stellar" /\ u \notin poller.seen)
        <3>1. PICK d \in Polled : /\ ChainOf(u) = d
                                  /\ u \in poller'.todo[d] \cup poller.tracked
                                     \/ u >= Edge(d)'
            BY <1>2, <1>3, <1>8, <2>3 DEF Waiting
        <3>2. CASE d = c
            <4>1. u \in poller.tracked \/ u >= poller.cursor[c]
                <5>1. u \in Int
                    BY <1>4, <2>3
                <5>2. QED
                    BY <1>4, <1>5, <1>6, <3>1, <3>2, <5>1
            <4>2. QED
                BY <1>6, <3>1, <3>2, <4>1 DEF Waiting
        <3>3. CASE d # c
            BY <1>6, <3>1, <3>3 DEF Waiting
        <3>4. QED
            BY <3>2, <3>3
    <2>4. QED
        BY <2>1, <2>2, <2>3
<1>9. QED
    BY <1>1, <1>7, <1>8, TurnLives, Blank

\* A batch of the Tron poller is fetched once.
LEMMA PollTronLives ==
    ASSUME IInv, Lives, NEW r \in Routes, PollTron(r)
    PROVE  Lives'
<1> DEFINE batch == {t \in Sent : transfer[t].route = r /\ t >= poller.cursor["tron"]}
<1>1. Chain[r] = "tron" /\ Fetch("tron", batch, Max(batch) + 1)
    BY DEF PollTron
<1>2. batch \in SUBSET (1..MaxTransfers) /\ batch # {}
    BY <1>1, PollerFacts DEF Fetch, Transfers
<1>3. Max(batch) \in batch /\ \A t \in batch : Max(batch) >= t
    <2> HIDE DEF batch
    <2>1. QED
        BY <1>2, MaxOfBounded, PollerFacts
<1>4. \A t \in batch : /\ t \in Sent /\ ChainOf(t) = "tron"
                       /\ t >= poller.cursor["tron"]
    BY <1>1 DEF ChainOf
<1>5. "tron" \in Polled
    BY DEF Polled
<1> HIDE DEF batch
<1>6. Max(batch) \in Nat /\ batch \subseteq Nat
    <2>1. 1..MaxTransfers \subseteq Nat
        OBVIOUS
    <2>2. batch \subseteq Nat
        BY <1>2, <2>1
    <2>3. QED
        BY <1>3, <2>2
<1>7. \A t \in batch : t < Max(batch) + 1
    BY <1>3, <1>6
<1>8. Max(batch) + 1 \in Nat
    BY <1>6
<1>9. QED
    BY <1>1, <1>4, <1>5, <1>7, <1>8, FetchLives

\* A range of the EVM poller is scanned once.
LEMMA ScanEvmLives ==
    ASSUME IInv, Lives, ScanEvm
    PROVE  Lives'
<1> DEFINE batch == {t \in Sent : ChainOf(t) = "evm" /\ t >= poller.cursor["evm"]}
<1>1. Fetch("evm", batch, Now) /\ "evm" \in Polled
    BY DEF ScanEvm, Polled
<1>2. Now \in Nat /\ \A t \in Sent : t < Now
    BY Numbering, PaymentsAssumption DEF IInv
<1>3. \A t \in batch : /\ t \in Sent /\ ChainOf(t) = "evm"
                       /\ t >= poller.cursor["evm"] /\ t < Now
    BY <1>2
<1> HIDE DEF batch
<1>4. QED
    BY <1>1, <1>2, <1>3, FetchLives

(***************************************************************************)
(* The stream, the chains, crashes.                                        *)
(***************************************************************************)
\* The cursor of the stream passes the transfer that is taken.
LEMMA StreamNextLives ==
    ASSUME IInv, Lives, StreamNext PROVE Lives'
<1>1. /\ "stream" \in Listeners /\ "stream" \in Agents
      /\ stream' = stream + 1 /\ stream \in Nat
      /\ UNCHANGED <<transfer, poller, spent, restarts>>
    BY AgentFacts, PaymentsAssumption DEF StreamNext, IInv, SoundMemory
<1>2. PICK f : /\ flow' = [flow EXCEPT !["stream"] = f]
               /\ f = Idle \/ f.transfer = stream
    <2>1. [Idle EXCEPT !.step = "pay", !.session = transfer[stream].for,
                       !.transfer = stream].transfer = stream
        BY DEF Idle
    <2>2. QED
        BY <2>1 DEF StreamNext
<1>3. flow'["stream"] = f /\ flow'["poller"] = flow["poller"]
    BY <1>1, <1>2 DEF IInv, SoundFlows
<1>4. TidyMemory' /\ \A t : Waiting(t)' = Waiting(t)
    BY <1>1, SameMemory DEF Lives
<1>5. \A t : Spends("stream", t)' => t = stream
    BY <1>2, <1>3, Blank DEF Spends
<1>6. TakenOnce'
    <2>1. "poller" \in Listeners =>
            \A t \in Transfers : Spends("poller", t)' => ~Waiting(t)'
        BY <1>3, <1>4 DEF Lives, TakenOnce, Spends
    <2>2. \A t \in Transfers : Spends("stream", t)' => t < stream'
        BY <1>1, <1>5
    <2>3. QED
        BY <2>1, <2>2 DEF TakenOnce
<1>7. ASSUME NEW t \in Transfers, NEW l \in Holders(t)' PROVE l \in Holders(t)
    <2>1. l \in Listeners
        BY <1>7 DEF Holders
    <2>2. CASE l = "poller"
        BY <1>3, <1>4, <1>7, <2>2 DEF Holders, Spends
    <2>3. CASE l = "stream"
        <3>1. Spends("stream", t)' \/ stream' <= t
            BY <1>7, <2>3 DEF Holders
        <3>2. stream <= t
            <4>1. t \in Nat
                BY DEF Transfers
            <4>2. QED
                BY <1>1, <1>5, <3>1, <4>1
        <3>3. QED
            BY <2>1, <2>3, <3>2 DEF Holders
    <2>4. QED
        BY <2>1, <2>2, <2>3, AgentFacts
<1>8. Rationed'
    BY <1>1, <1>7, RationStays DEF Lives
<1>9. QED
    BY <1>4, <1>6, <1>8 DEF Lives

\* A transfer that is sent or confirmed was waiting, and still is.
LEMMA ChainLives ==
    ASSUME IInv, Lives, ChainStep PROVE Lives'
<1>1. UNCHANGED <<flow, poller, stream, spent, restarts>>
    BY DEF ChainStep, CustomerPays, OtherTransfer, Transact, Confirm
<1>2. /\ Sent \subseteq Sent'
      /\ \A u \in Sent : ChainOf(u)' = ChainOf(u)
    <2>1. ASSUME NEW t \in Transfers, NEW new,
                 transfer' = [transfer EXCEPT ![t] = new], t \notin Sent
          PROVE  \A u \in Sent : u \in Sent' /\ ChainOf(u)' = ChainOf(u)
        BY <2>1, PollerFacts DEF Sent, ChainOf
    <2>2. ASSUME NEW t \in Transfers, Confirm(t)
          PROVE  \A u \in Sent : u \in Sent' /\ ChainOf(u)' = ChainOf(u)
        <3>1. \A u \in Transfers : /\ transfer'[u].route = transfer[u].route
                                   /\ transfer'[u].state =
                                        IF u = t THEN "confirmed" ELSE transfer[u].state
            BY <2>2, PollerFacts DEF Confirm, Transfer
        <3>2. QED
            BY <3>1 DEF Sent, ChainOf
    <2>3. ASSUME NEW t \in Transfers, NEW r, NEW amount, NEW for,
                 Transact(t, r, amount, for)
          PROVE  \A u \in Sent : u \in Sent' /\ ChainOf(u)' = ChainOf(u)
        <3>1. t \notin Sent
            BY <2>3, Numbering DEF Transact, IInv
        <3>2. QED
            BY <2>1, <2>3, <3>1 DEF Transact
    <2>4. QED
        BY <2>2, <2>3 DEF ChainStep, CustomerPays, OtherTransfer
<1>3. \A c : Edge(c)' = Edge(c)
    BY <1>1 DEF Edge
<1>4. TidyMemory'
    <2>1. \A c \in Polled : \A t \in poller.todo[c] :
            t \in Sent' /\ ChainOf(t)' = c /\ t < poller.next[c]
        BY <1>2 DEF Lives, TidyMemory
    <2>2. \A t \in poller.tracked :
            /\ t \in Sent' /\ ChainOf(t)' \in Polled
            /\ t < Edge(ChainOf(t)') /\ t \notin poller.todo[ChainOf(t)']
        BY <1>2 DEF Lives, TidyMemory
    <2>3. \A t \in poller.tracked : Edge(ChainOf(t))' = Edge(ChainOf(t)')
        BY <1>1 DEF Edge
    <2>4. QED
        BY <1>1, <2>1, <2>2, <2>3 DEF TidyMemory
<1>5. ASSUME NEW t \in Transfers, Waiting(t)' PROVE Waiting(t)
    <2>1. CASE t \notin Sent
        BY <2>1 DEF Waiting
    <2>2. CASE t \in Sent
        BY <1>1, <1>2, <1>3, <1>5, <2>2 DEF Waiting
    <2>3. QED
        BY <2>1, <2>2
<1>6. TakenOnce'
    BY <1>1, <1>5 DEF Lives, TakenOnce, Spends
<1>7. \A t \in Transfers : Holders(t)' \subseteq Holders(t)
    BY <1>1, <1>5 DEF Holders, Spends
<1>8. Rationed'
    BY <1>1, <1>7, RationStays DEF Lives
<1>9. QED
    BY <1>4, <1>6, <1>8 DEF Lives

\* A restart gives one listener everything once more, and counts as one.
LEMMA RestartRations ==
    ASSUME IInv, Rationed, NEW a \in Agents,
           spent' = spent, restarts' = restarts + 1,
           \A t \in Transfers : Holders(t)' \subseteq Holders(t) \cup {a}
    PROVE  Rationed'
<1> SUFFICES ASSUME NEW t \in Transfers
             PROVE  spent[t] + Cardinality(Holders(t)')
                        <= Cardinality(Listeners) + (restarts + 1)
    BY DEF Rationed
<1>1. Cardinality(Holders(t)') <= Cardinality(Holders(t)) + 1
    BY HoldersAreCounted, Counting
<1>2. spent[t] + Cardinality(Holders(t)) <= Cardinality(Listeners) + restarts
    BY DEF Rationed
<1>3. QED
    BY <1>1, <1>2, HoldersAreCounted

\* The poller that restarts may take every transfer again.
LEMMA RestartPollerLives ==
    ASSUME IInv, Lives, RestartPoller PROVE Lives'
<1>1. PICK block \in 1..Now : Restart(Fresh(Now, block), stream, {"poller"})
    BY DEF RestartPoller
<1>2. /\ UNCHANGED <<transfer, stream, spent>> /\ restarts' = restarts + 1
      /\ poller' = Fresh(Now, block) /\ "poller" \in Agents
    BY <1>1, AgentFacts DEF Restart, RestartPoller
<1>3. /\ flow'["poller"] \in {Idle, Done}
      /\ \A a \in Agents : a # "poller" => flow'[a] = flow[a]
    BY <1>1, <1>2, Blank DEF Restart
<1>4. TidyMemory'
    BY <1>2 DEF TidyMemory, Fresh
<1>5. TakenOnce'
    BY <1>2, <1>3, Blank, AgentFacts DEF Lives, TakenOnce, Spends
<1>6. \A t \in Transfers : Holders(t)' \subseteq Holders(t) \cup {"poller"}
    BY <1>2, <1>3, AgentFacts DEF Holders, Spends
<1>7. Rationed'
    BY <1>2, <1>6, RestartRations DEF Lives
<1>8. QED
    BY <1>4, <1>5, <1>7 DEF Lives

\* The stream that restarts begins at the present.
LEMMA RestartStreamLives ==
    ASSUME IInv, Lives, RestartStream PROVE Lives'
<1>1. /\ UNCHANGED <<transfer, poller, spent>> /\ restarts' = restarts + 1
      /\ "stream" \in Agents /\ Restart(poller, Now, {"stream"})
    BY AgentFacts DEF Restart, RestartStream
<1>2. /\ flow'["stream"] \in {Idle, Done}
      /\ \A a \in Agents : a # "stream" => flow'[a] = flow[a]
    BY <1>1, Blank DEF Restart
<1>3. TidyMemory' /\ \A t : Waiting(t)' = Waiting(t)
    BY <1>1, SameMemory DEF Lives
<1>4. TakenOnce'
    BY <1>2, <1>3, Blank, AgentFacts DEF Lives, TakenOnce, Spends
<1>5. \A t \in Transfers : Holders(t)' \subseteq Holders(t) \cup {"stream"}
    BY <1>2, <1>3, AgentFacts DEF Holders, Spends
<1>6. Rationed'
    BY <1>1, <1>5, RestartRations DEF Lives
<1>7. QED
    BY <1>3, <1>4, <1>6 DEF Lives

\* A crash of the API touches no listener.
LEMMA CrashApiLives ==
    ASSUME IInv, Lives, CrashApi PROVE Lives'
<1>1. PICK Q \in SUBSET Requests : Restart(poller, stream, Q)
    BY DEF CrashApi
<1>2. /\ UNCHANGED <<transfer, poller, stream, spent>> /\ restarts' = restarts + 1
    BY <1>1 DEF Restart
<1>3. \A l \in Listeners : flow'[l] = flow[l]
    BY <1>1, AgentFacts DEF Restart
<1>4. TidyMemory' /\ \A t : Waiting(t)' = Waiting(t)
    BY <1>2, SameMemory DEF Lives
<1>5. TakenOnce'
    BY <1>2, <1>3, <1>4 DEF Lives, TakenOnce, Spends
<1>6. \A t \in Transfers : Holders(t)' \subseteq Holders(t)
    BY <1>2, <1>3, <1>4 DEF Holders, Spends
<1>7. Rationed'
    <2> SUFFICES ASSUME NEW t \in Transfers
                 PROVE  spent[t] + Cardinality(Holders(t)')
                            <= Cardinality(Listeners) + (restarts + 1)
        BY <1>2 DEF Rationed
    <2>1. Cardinality(Holders(t)') <= Cardinality(Holders(t))
        BY <1>6, HoldersAreCounted, Counting
    <2>2. spent[t] + Cardinality(Holders(t)) <= Cardinality(Listeners) + restarts
        BY DEF Lives, Rationed
    <2>3. QED
        BY <2>1, <2>2, HoldersAreCounted
<1>8. QED
    BY <1>4, <1>5, <1>7 DEF Lives

\* Before anything is spent every listener has one claim.
LEMMA InitLives == Init => Lives
<1> SUFFICES ASSUME Init PROVE Lives
    OBVIOUS
<1>1. IInv
    BY InitSound
<1>2. TidyMemory
    BY DEF Init, TidyMemory, Fresh
<1>3. TakenOnce
    BY Blank, AgentFacts DEF Init, TakenOnce, Spends
<1>4. Rationed
    <2> SUFFICES ASSUME NEW t \in Transfers
                 PROVE  spent[t] + Cardinality(Holders(t)) <= Cardinality(Listeners) + restarts
        BY DEF Rationed
    <2>1. spent[t] = 0 /\ restarts = 0
        BY DEF Init
    <2>2. QED
        BY <1>1, <2>1, HoldersAreCounted
<1>5. QED
    BY <1>2, <1>3, <1>4 DEF Lives

\* Every step keeps the claims within the ration.
LEMMA NextLives ==
    ASSUME MaxTransfers <= SeenCap, IInv, IInv', Lives, [Next]_vars
    PROVE  Lives'
<1>1. ASSUME NEW a \in Agents, Paying(a) PROVE Lives'
    BY <1>1, CommitPayLives, AfterPaymentLives DEF Paying
<1>2. CASE \E q \in Requests : Handler(q) \/ Paying(q)
    BY <1>1, <1>2, HandlerLives, AgentFacts
<1>3. CASE PollerStep
    <2>1. "poller" \in Listeners /\ CommitMark("poller") => Lives'
        BY AfterPaymentLives, AgentFacts
    <2>2. "poller" \in Listeners /\ Paying("poller") => Lives'
        BY <1>1, AgentFacts
    <2>3. QED
        BY <1>3, <2>1, <2>2, PollStellarLives, PromoteLives, PollTronLives,
           ScanEvmLives, EndBatchLives, ExamineLives DEF PollerStep
<1>4. CASE StreamStep
    <2>1. "stream" \in Listeners /\ Paying("stream") => Lives'
        BY <1>1, AgentFacts
    <2>2. QED
        BY <1>4, <2>1, StreamNextLives DEF StreamStep
<1>5. CASE ChainStep
    BY <1>5, ChainLives
<1>6. CASE RestartPoller \/ RestartStream \/ CrashApi
    BY <1>6, RestartPollerLives, RestartStreamLives, CrashApiLives
<1>7. CASE \E s \in Sessions : Elapse(s)
    BY <1>7, NothingTaken DEF Elapse, Spends
<1>8. CASE UNCHANGED vars
    BY <1>8, NothingTaken DEF vars, Spends
<1>9. CASE \E a \in Agents : FailCommit(a)
    BY <1>9, AfterPaymentLives
<1>10. QED
    BY <1>2, <1>3, <1>4, <1>5, <1>6, <1>7, <1>8, <1>9 DEF Next

\* Within the ration, a transfer is spent at most once per life.
LEMMA LivesAreRationed ==
    ASSUME IInv, Lives
    PROVE  \A t \in Transfers : spent[t] <= Cardinality(Listeners) + restarts
<1> SUFFICES ASSUME NEW t \in Transfers
             PROVE  spent[t] <= Cardinality(Listeners) + restarts
    OBVIOUS
<1>1. spent[t] + Cardinality(Holders(t)) <= Cardinality(Listeners) + restarts
    BY DEF Lives, Rationed
<1>2. QED
    BY <1>1, HoldersAreCounted

\* A transfer pays at most one session per life of a listener process, as long
\* as the memory of seen operations is not cut.
THEOREM SpentOnce == Spec => []SpentOncePerLife
<1> DEFINE CapInv == IInv /\ (MaxTransfers <= SeenCap => Lives)
<1>1. Init => CapInv
    BY InitSound, InitLives
<1>2. CapInv /\ [Next]_vars => CapInv'
    BY NextKeeps, NextLives
<1>3. CapInv => SpentOncePerLife
    BY LivesAreRationed DEF SpentOncePerLife
<1> HIDE DEF CapInv
<1>4. QED
    BY <1>1, <1>2, <1>3, PTL DEF Spec
=============================================================================
