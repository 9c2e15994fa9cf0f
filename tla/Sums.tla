--------------------------------- MODULE Sums ---------------------------------
(***************************************************************************)
(* Lemmas about sums over finite sets, for the proofs about totals of      *)
(* amounts and counts.  MapThenSumSet of the community modules unfolds to  *)
(* a function that adds up the sets below a set, one picked element at a   *)
(* time; these say that there is one, and what every such function does.   *)
(***************************************************************************)
EXTENDS Integers, FiniteSets, FiniteSetTheorems, WellFoundedInduction, TLAPS

\* A nonempty set of natural numbers has a least element.
LEMMA LeastElement ==
    ASSUME NEW T \in SUBSET Nat, T # {}
    PROVE  \E x \in T : \A y \in T : x <= y
<1> DEFINE R == OpToRel(<, Nat)
<1>1. IsWellFoundedOn(R, Nat)
    BY NatLessThanWellFounded
<1>2. \A x, y \in Nat : y < x => <<y, x>> \in R
    BY DEF OpToRel
<1> HIDE DEF R
<1>3. PICK x \in T : \A y \in T : ~ (<<y, x>> \in R)
    BY <1>1, WFMin
<1>4. \A y \in T : ~ (y < x)
    BY <1>2, <1>3
<1>5. \A y \in T : x <= y
    BY <1>4, x \in Nat
<1>6. QED
    BY <1>5

\* Induction over the natural numbers, for a set.
LEMMA SetInduction ==
    ASSUME NEW T \in SUBSET Nat, 0 \in T, \A n \in T : n + 1 \in T
    PROVE  T = Nat
<1> SUFFICES ASSUME Nat \ T # {} PROVE FALSE
    OBVIOUS
<1> DEFINE U == Nat \ T
<1>1. U \in SUBSET Nat /\ U # {}
    OBVIOUS
<1> HIDE DEF U
<1>2. PICK x \in U : \A y \in U : x <= y
    BY <1>1, LeastElement
<1>3. x \in Nat /\ x # 0
    BY <1>2 DEF U
<1>4. x - 1 \in T
    BY <1>2, <1>3 DEF U
<1>5. QED
    BY <1>2, <1>3, <1>4 DEF U

Pick(S) == CHOOSE x \in S : TRUE

\* iter adds f up over the sets of D.
AddsUp(f, iter, D) ==
    iter = [S \in D |-> IF S = {} THEN 0 ELSE f[Pick(S)] + iter[S \ {Pick(S)}]]

\* F adds natural numbers f up over the subsets of the finite set U.
SumsOf(U, f, F) ==
    IsFiniteSet(U) /\ (\A x \in U : f[x] \in Nat) /\ AddsUp(f, F, SUBSET U)

\* The subsets of U with at most n elements.
UpTo(U, n) == {S \in SUBSET U : Cardinality(S) <= n}

\* Subsets of a finite set have a cardinality, 0 for the empty set only.
LEMMA SubsetsAreFinite ==
    ASSUME NEW U, IsFiniteSet(U)
    PROVE  /\ \A S \in SUBSET U : /\ IsFiniteSet(S) /\ Cardinality(S) \in Nat
                                  /\ Cardinality(S) <= Cardinality(U)
                                  /\ Cardinality(S) = 0 <=> S = {}
           /\ UpTo(U, 0) = {{}}
           /\ UpTo(U, Cardinality(U)) = SUBSET U
<1>1. \A S \in SUBSET U : /\ IsFiniteSet(S) /\ Cardinality(S) <= Cardinality(U)
    BY FS_Subset
<1>2. \A S \in SUBSET U : Cardinality(S) \in Nat
    BY <1>1, FS_CardinalityType
<1>3. \A S \in SUBSET U : Cardinality(S) = 0 <=> S = {}
    BY <1>1, FS_EmptySet
<1>4. UpTo(U, 0) = {{}}
    <2>1. \A S \in SUBSET U : Cardinality(S) <= 0 <=> S = {}
        BY <1>2, <1>3
    <2>2. QED
        BY <2>1 DEF UpTo
<1>5. UpTo(U, Cardinality(U)) = SUBSET U
    BY <1>1 DEF UpTo
<1>6. QED
    BY <1>1, <1>2, <1>3, <1>4, <1>5

\* Removing an element makes a set smaller by one.
LEMMA SmallerSet ==
    ASSUME NEW U, IsFiniteSet(U), NEW S \in SUBSET U, NEW x \in S
    PROVE  /\ S \ {x} \in SUBSET U
           /\ Cardinality(S \ {x}) = Cardinality(S) - 1
BY SubsetsAreFinite, FS_RemoveElement

\* What is picked from a set is in it.
LEMMA PickedElement == \A S : S # {} => Pick(S) \in S
BY DEF Pick

\* A set that has the empty set, and every subset of U that has one element
\* more than all those it already has, has all the subsets of U.
LEMMA SubsetInduction ==
    ASSUME NEW U, IsFiniteSet(U), NEW Good, {} \in Good,
           \A S \in SUBSET U :
               S # {} /\ (\A x \in S : S \ {x} \in Good) => S \in Good
    PROVE  SUBSET U \subseteq Good
<1> DEFINE T == {n \in Nat : UpTo(U, n) \subseteq Good}
<1>1. 0 \in T
    BY SubsetsAreFinite
<1>2. ASSUME NEW n \in T PROVE n + 1 \in T
    <2> SUFFICES ASSUME NEW S \in UpTo(U, n + 1) PROVE S \in Good
        OBVIOUS
    <2>1. S \in SUBSET U /\ Cardinality(S) <= n + 1 /\ n \in Nat
        BY DEF UpTo
    <2>2. CASE S # {}
        <3> SUFFICES ASSUME NEW x \in S PROVE S \ {x} \in Good
            BY <2>1, <2>2
        <3>1. S \ {x} \in SUBSET U /\ Cardinality(S \ {x}) = Cardinality(S) - 1
            BY <2>1, SmallerSet
        <3>2. Cardinality(S) \in Nat
            BY <2>1, SubsetsAreFinite
        <3>3. S \ {x} \in UpTo(U, n)
            BY <2>1, <3>1, <3>2 DEF UpTo
        <3>4. QED
            BY <3>3
    <2>3. QED
        BY <2>2
<1>3. T = Nat
    <2> HIDE DEF T
    <2>1. T \in SUBSET Nat
        BY DEF T
    <2>2. QED
        BY <1>1, <1>2, <2>1, SetInduction
<1>4. Cardinality(U) \in Nat
    BY FS_CardinalityType
<1>5. UpTo(U, Cardinality(U)) \subseteq Good
    BY <1>3, <1>4
<1>6. QED
    BY <1>5, SubsetsAreFinite

\* Such a function exists: over the empty set it is 0, and it extends to sets
\* of one element more.
LEMMA AddsUpExists ==
    ASSUME NEW U, IsFiniteSet(U), NEW f, \A x \in U : f[x] \in Nat
    PROVE  \E iter : SumsOf(U, f, iter)
<1> DEFINE T == {n \in Nat : \E iter : AddsUp(f, iter, UpTo(U, n))}
<1>1. 0 \in T
    <2> DEFINE it == [S \in UpTo(U, 0) |-> 0]
    <2>1. \A S \in UpTo(U, 0) : S = {}
        BY SubsetsAreFinite
    <2>2. AddsUp(f, it, UpTo(U, 0))
        BY <2>1 DEF AddsUp
    <2>3. QED
        BY <2>2
<1>2. ASSUME NEW n \in T PROVE n + 1 \in T
    <2>1. PICK it : AddsUp(f, it, UpTo(U, n))
        OBVIOUS
    <2>2. n \in Nat
        OBVIOUS
    <2> DEFINE more == [S \in UpTo(U, n + 1) |->
                           IF S = {} THEN 0 ELSE f[Pick(S)] + it[S \ {Pick(S)}]]
    <2>3. \A S \in UpTo(U, n) : more[S] = it[S]
        <3>1. UpTo(U, n) \subseteq UpTo(U, n + 1)
            BY <2>2, SubsetsAreFinite DEF UpTo
        <3>2. QED
            BY <2>1, <3>1 DEF AddsUp
    <2>4. \A S \in UpTo(U, n + 1) : S # {} => S \ {Pick(S)} \in UpTo(U, n)
        <3> SUFFICES ASSUME NEW S \in UpTo(U, n + 1), S # {}
                     PROVE  S \ {Pick(S)} \in UpTo(U, n)
            OBVIOUS
        <3>1. Pick(S) \in S /\ S \in SUBSET U /\ Cardinality(S) <= n + 1
            BY PickedElement DEF UpTo
        <3>2. S \ {Pick(S)} \in SUBSET U /\ Cardinality(S \ {Pick(S)}) = Cardinality(S) - 1
            BY <3>1, SmallerSet
        <3>3. Cardinality(S) \in Nat
            BY <3>1, SubsetsAreFinite
        <3>4. QED
            BY <2>2, <3>1, <3>2, <3>3 DEF UpTo
    <2>5. AddsUp(f, more, UpTo(U, n + 1))
        BY <2>3, <2>4 DEF AddsUp
    <2> HIDE DEF more
    <2>6. QED
        BY <2>2, <2>5
<1>3. T = Nat
    <2> HIDE DEF T
    <2>1. T \in SUBSET Nat
        BY DEF T
    <2>2. QED
        BY <1>1, <1>2, <2>1, SetInduction
<1>4. Cardinality(U) \in T
    BY <1>3, FS_CardinalityType
<1>5. QED
    BY <1>4, SubsetsAreFinite, ZenonT(30) DEF SumsOf

\* Two of them agree on a set on which what they add up agrees.
LEMMA AddsUpAgree ==
    ASSUME NEW U, NEW V, NEW f, NEW g, NEW F, NEW G,
           SumsOf(U, f, F), SumsOf(V, g, G),
           NEW S \in SUBSET U, S \subseteq V, \A x \in S : f[x] = g[x]
    PROVE  F[S] = G[S]
<1> DEFINE Good == {R \in SUBSET S : F[R] = G[R]}
<1>1. \A R \in SUBSET S :
        /\ F[R] = IF R = {} THEN 0 ELSE f[Pick(R)] + F[R \ {Pick(R)}]
        /\ G[R] = IF R = {} THEN 0 ELSE g[Pick(R)] + G[R \ {Pick(R)}]
    BY DEF AddsUp, SumsOf
<1>2. {} \in Good
    BY <1>1
<1>3. ASSUME NEW R \in SUBSET S, R # {}, \A x \in R : R \ {x} \in Good
      PROVE  R \in Good
    <2>1. Pick(R) \in R
        BY <1>3, PickedElement
    <2>2. F[R \ {Pick(R)}] = G[R \ {Pick(R)}]
        BY <1>3, <2>1
    <2>3. f[Pick(R)] = g[Pick(R)]
        BY <2>1
    <2>4. QED
        BY <1>1, <1>3, <2>2, <2>3
<1>4. SUBSET S \subseteq Good
    <2>1. IsFiniteSet(S)
        BY FS_Subset DEF SumsOf
    <2> HIDE DEF Good
    <2>2. QED
        BY <1>2, <1>3, <2>1, SubsetInduction
<1>5. QED
    BY <1>4

\* They give natural numbers, and whichever element is added last.
LEMMA AddsUpElement ==
    ASSUME NEW U, NEW f, NEW F, SumsOf(U, f, F)
    PROVE  /\ F[{}] = 0
           /\ \A S \in SUBSET U : /\ F[S] \in Nat
                                  /\ \A x \in S : F[S] = f[x] + F[S \ {x}]
<1> DEFINE Sound == {R \in SUBSET U : F[R] \in Nat}
           Good == {R \in SUBSET U : \A x \in R : F[R] = f[x] + F[R \ {x}]}
<1> USE DEF SumsOf
<1>1. \A R \in SUBSET U : F[R] = IF R = {} THEN 0 ELSE f[Pick(R)] + F[R \ {Pick(R)}]
    BY DEF AddsUp
<1>2. F[{}] = 0
    BY <1>1
<1>3. SUBSET U \subseteq Sound
    <2>1. {} \in Sound
        BY <1>2
    <2>2. ASSUME NEW R \in SUBSET U, R # {}, \A x \in R : R \ {x} \in Sound
          PROVE  R \in Sound
        <3>1. Pick(R) \in R
            BY <2>2, PickedElement
        <3>2. F[R \ {Pick(R)}] \in Nat /\ f[Pick(R)] \in Nat
            BY <2>2, <3>1
        <3>3. PICK a \in Nat, b \in Nat : a = f[Pick(R)] /\ b = F[R \ {Pick(R)}]
            BY <3>2
        <3>4. F[R] = a + b
            BY <1>1, <2>2, <3>3
        <3>5. QED
            BY <3>4
    <2> HIDE DEF Sound
    <2>3. QED
        BY <2>1, <2>2, SubsetInduction
<1>4. {} \in Good
    OBVIOUS
<1>5. ASSUME NEW R \in SUBSET U, R # {}, \A x \in R : R \ {x} \in Good
      PROVE  R \in Good
    <2>1. PICK y : y = Pick(R)
        OBVIOUS
    <2>2. y \in R /\ F[R] = f[y] + F[R \ {y}]
        BY <1>1, <1>5, <2>1, PickedElement
    <2>3. ASSUME NEW x \in R PROVE F[R] = f[x] + F[R \ {x}]
        <3>1. CASE x = y
            BY <2>2, <3>1
        <3>2. CASE x # y
            <4>1. x \in R \ {y} /\ y \in R \ {x}
                BY <2>2, <3>2
            <4>2. PICK Q : Q = R \ {x, y}
                OBVIOUS
            <4>3. (R \ {y}) \ {x} = Q /\ (R \ {x}) \ {y} = Q /\ Q \in SUBSET U
                BY <4>2
            <4>4. F[R \ {y}] = f[x] + F[Q]
                BY <1>5, <2>2, <4>1, <4>3
            <4>5. F[R \ {x}] = f[y] + F[Q]
                BY <1>5, <4>1, <4>3
            <4>6. f[x] \in Nat /\ f[y] \in Nat /\ F[Q] \in Nat
                BY <1>3, <2>2, <4>3
            <4>7. QED
                BY <2>2, <4>4, <4>5, <4>6
        <3>3. QED
            BY <3>1, <3>2
    <2>4. QED
        BY <2>3
<1>6. SUBSET U \subseteq Good
    <2> HIDE DEF Good
    <2>1. QED
        BY <1>4, <1>5, SubsetInduction
<1>7. QED
    BY <1>2, <1>3, <1>6

\* A larger set adds up to no less.
LEMMA AddsUpMonotone ==
    ASSUME NEW U, NEW f, NEW F, SumsOf(U, f, F),
           NEW S, NEW V \in SUBSET U, S \subseteq V
    PROVE  F[S] <= F[V]
<1> DEFINE Good == {R \in SUBSET (V \ S) : F[S] <= F[S \cup R]}
<1>1. /\ F[{}] = 0
      /\ \A R \in SUBSET U : /\ F[R] \in Nat
                             /\ \A x \in R : F[R] = f[x] + F[R \ {x}]
    BY AddsUpElement
<1>2. {} \in Good
    <2>1. F[S] \in Nat /\ S \cup {} = S
        BY <1>1
    <2>2. QED
        BY <2>1
<1>3. ASSUME NEW R \in SUBSET (V \ S), R # {}, \A x \in R : R \ {x} \in Good
      PROVE  R \in Good
    <2>1. PICK x : x \in R
        BY <1>3
    <2>2. (S \cup R) \ {x} = S \cup (R \ {x}) /\ S \cup R \in SUBSET U /\ x \in S \cup R
          /\ S \cup (R \ {x}) \in SUBSET U /\ x \in U /\ S \in SUBSET U
        BY <2>1
    <2>3. F[S \cup R] = f[x] + F[S \cup (R \ {x})] /\ F[S \cup (R \ {x})] \in Nat
        BY <1>1, <2>2, ZenonT(30)
    <2>4. F[S] <= F[S \cup (R \ {x})] /\ f[x] \in Nat /\ F[S] \in Nat
        BY <1>1, <1>3, <2>1, <2>2 DEF SumsOf
    <2>5. F[S] <= F[S \cup R]
        BY <2>3, <2>4
    <2>6. QED
        BY <2>5
<1>4. IsFiniteSet(V \ S)
    BY FS_Subset DEF SumsOf
<1>5. SUBSET (V \ S) \subseteq Good
    <2> HIDE DEF Good
    <2>1. QED
        BY <1>2, <1>3, <1>4, SubsetInduction
<1>6. V \ S \in Good
    BY <1>5
<1>7. S \cup (V \ S) = V
    OBVIOUS
<1>8. QED
    BY <1>6, <1>7

\* Disjoint sets add up separately.
LEMMA AddsUpUnion ==
    ASSUME NEW U, NEW f, NEW F, SumsOf(U, f, F),
           NEW S \in SUBSET U, NEW V \in SUBSET U, S \cap V = {}
    PROVE  F[S \cup V] = F[S] + F[V]
<1> DEFINE Good == {R \in SUBSET V : F[S \cup R] = F[S] + F[R]}
<1>1. /\ F[{}] = 0
      /\ \A R \in SUBSET U : /\ F[R] \in Nat
                             /\ \A x \in R : F[R] = f[x] + F[R \ {x}]
    BY AddsUpElement
<1>2. {} \in Good
    <2>1. F[S] \in Nat /\ S \cup {} = S
        BY <1>1
    <2>2. QED
        BY <1>1, <2>1
<1>3. ASSUME NEW R \in SUBSET V, R # {}, \A x \in R : R \ {x} \in Good
      PROVE  R \in Good
    <2>1. PICK x : x \in R
        BY <1>3
    <2>2. PICK Q : Q = R \ {x}
        OBVIOUS
    <2>3. /\ (S \cup R) \ {x} = S \cup Q /\ S \cup R \in SUBSET U /\ x \in S \cup R
          /\ S \cup Q \in SUBSET U /\ x \in U /\ Q \in SUBSET U /\ R \in SUBSET U
        BY <2>1, <2>2
    <2>4. F[S \cup R] = f[x] + F[S \cup Q] /\ F[R] = f[x] + F[Q]
        <3>1. F[S \cup R] = f[x] + F[(S \cup R) \ {x}]
            BY <1>1, <2>3
        <3>2. F[R] = f[x] + F[R \ {x}]
            BY <1>1, <2>1, <2>3
        <3>3. QED
            BY <2>2, <2>3, <3>1, <3>2
    <2>5. F[S \cup Q] = F[S] + F[Q]
        BY <1>3, <2>1, <2>2
    <2>6. f[x] \in Nat /\ F[S] \in Nat /\ F[Q] \in Nat
        BY <1>1, <2>3 DEF SumsOf
    <2>7. F[S \cup R] = F[S] + F[R]
        BY <2>4, <2>5, <2>6
    <2>8. QED
        BY <2>7
<1>4. SUBSET V \subseteq Good
    <2>1. IsFiniteSet(V)
        BY FS_Subset DEF SumsOf
    <2> HIDE DEF Good
    <2>2. QED
        BY <1>2, <1>3, <2>1, SubsetInduction
<1>5. QED
    BY <1>4
===============================================================================
