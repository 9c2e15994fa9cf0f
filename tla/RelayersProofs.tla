-------------------------- MODULE RelayersProofs ---------------------------
(***************************************************************************)
(* Proofs about the relayers: for any number of processes and              *)
(* transactions, what a chain decides is what the rows come to say, and    *)
(* every nonce below one that was taken is held or lost.                   *)
(***************************************************************************)
EXTENDS Relayers, Sums

(***************************************************************************)
(* The transactions the relayers send, of two accounts that number theirs. *)
(* The nonces from the number of the account up to any that was taken are  *)
(* accounted for: a transaction holds them, or they were lost.             *)
(***************************************************************************)
\* What a transaction is to the two accounts with numbers.
PooledEvm(x) == x.fate = "pool" /\ x.chain \in OnEvm
TookEvm(x) == x.chain = "evm" /\ x.at = "taken"
MinedEvm(x) == x.fate \in {"ok", "bad"} /\ x.chain \in OnEvm
MinedStellar(x) == x.fate \in {"ok", "bad"} /\ x.chain = "stellar"

\* A transaction is sent after its nonce was taken, and after it is over only
\* a chain that nobody waits for, or watches, changes its fate.
TxSays(x) ==
    /\ x.at \in {"new", "taken"} => x.fate = "none"
    /\ TookEvm(x) => x.row = "none"
    /\ x.chain = "polygon" => x.at = "over"
    /\ x.fate = "pool" /\ x.at \in {"over", "dead"} /\ x.chain # "polygon" => x.cut
    /\ x.row = "CONFIRMED" => x.fate = "ok" \/ (x.chain = "solana" /\ x.fate = "bad")
    /\ x.row = "REVERTED" => x.fate = "bad" \/ (x.chain = "stellar" /\ x.cut)
    /\ x.fate = "ok" /\ x.at \in {"over", "dead"} /\ x.chain # "polygon" /\ ~x.cut => x.row = "CONFIRMED"

\* Of the transactions T.
Holders(T) == {t \in Sends : PooledEvm(T[t]) \/ TookEvm(T[t])}
PoolOf(T) == {t \in Sends : PooledEvm(T[t])}
MinedOf(T) == {t \in Sends : MinedEvm(T[t])}
StellarOf(T) == {t \in Sends : MinedStellar(T[t])}
NoncesOf(T, S) == {T[t].nonce : t \in S}

Accounted(T, lost) == NoncesOf(T, Holders(T)) \union lost

InOrder == \A t, u \in Sends : u < t /\ tx[t].at # "new" => tx[u].at # "new"

CountsSay ==
    mined["evm"] = Cardinality(MinedOf(tx)) /\ mined["stellar"] = Cardinality(StellarOf(tx))

\* A process remembers a nonce past all it took, and no larger than there are
\* transactions that began.
LocalSays ==
    \A p \in Relays :
      /\ \A t \in Sends : tx[t].at = "new" => localNonce[p] < t
      /\ \A t \in taken[p] : tx[t].at # "new" /\ tx[t].nonce < localNonce[p]

\* Between the account's nonce and any that was taken there is no gap that is
\* not accounted for.
CoverSays ==
    /\ \A p \in Relays : mined["evm"]..(localNonce[p] - 1) \subseteq Accounted(tx, lostNonces)
    /\ \A t \in Holders(tx) : mined["evm"]..tx[t].nonce \subseteq Accounted(tx, lostNonces)

YInv ==
    /\ RelayTypeOK /\ \A t \in Sends : TxSays(tx[t])
    /\ InOrder /\ CountsSay /\ LocalSays /\ CoverSays /\ NoncesAreFresh

\* There are at most MaxSends transactions, and so of any of them.
LEMMA SendsAre ==
    /\ MaxSends \in Nat /\ MaxCrashed \in Nat /\ IsFiniteSet(Sends) /\ Cardinality(Sends) = MaxSends
    /\ \A t \in Sends : t \in Nat /\ t >= 1 /\ t <= MaxSends
    /\ \A S \in SUBSET Sends : /\ IsFiniteSet(S) /\ Cardinality(S) \in Nat
                               /\ Cardinality(S) <= MaxSends
<1>1. MaxSends \in Nat /\ MaxCrashed \in Nat
    BY RelayersAssumption
<1>2. IsFiniteSet(Sends) /\ Cardinality(Sends) = MaxSends
    BY <1>1, FS_Interval DEF Sends
<1>3. \A S \in SUBSET Sends : /\ IsFiniteSet(S) /\ Cardinality(S) \in Nat
                               /\ Cardinality(S) <= MaxSends
    <2>1. \A S \in SUBSET Sends : /\ IsFiniteSet(S) /\ Cardinality(S) \in Nat
                                   /\ Cardinality(S) <= Cardinality(Sends)
        BY <1>2, SubsetsAreFinite
    <2>2. QED
        BY <1>2, <2>1
<1>4. QED
    BY <1>1, <1>2, <1>3 DEF Sends

\* No more nonces than transactions.
LEMMA FewNonces ==
    ASSUME NEW T, NEW S \in SUBSET Sends
    PROVE  IsFiniteSet(NoncesOf(T, S)) /\ Cardinality(NoncesOf(T, S)) <= Cardinality(S)
<1> DEFINE f == [t \in S |-> T[t].nonce]
<1>1. f \in Surjection(S, NoncesOf(T, S))
    BY DEF Surjection, NoncesOf
<1>2. IsFiniteSet(S)
    BY SendsAre
<1>3. QED
    BY <1>1, <1>2, FS_Surjection

\* What is in a block or in the pool has begun, and is counted once.
LEMMA BegunAreFew ==
    ASSUME YInv, NEW t \in Sends, tx[t].at = "new"
    PROVE  /\ mined["evm"] \in Nat /\ mined["stellar"] \in Nat /\ mined["stellar"] <= t - 1
           /\ mined["evm"] + Cardinality(PoolOf(tx)) <= t - 1
<1>1. t \in Nat /\ t >= 1 /\ t <= MaxSends
    BY SendsAre
<1>2. \A u \in Sends : tx[u].at # "new" => u \in 1..(t - 1)
    <2>1. ASSUME NEW u \in Sends, tx[u].at # "new" PROVE u \in 1..(t - 1)
        <3>1. u \in Nat /\ u >= 1
            BY SendsAre
        <3>2. ~(t < u) /\ u # t
            BY <2>1 DEF YInv, InOrder
        <3>3. QED
            BY <1>1, <3>1, <3>2
    <2>2. QED
        BY <2>1
<1>3. IsFiniteSet(1..(t - 1)) /\ Cardinality(1..(t - 1)) = t - 1
    BY <1>1, FS_Interval
<1>4. \A u \in Sends : tx[u].fate # "none" => tx[u].at # "new"
    BY DEF YInv, TxSays
<1>5. PICK P, M, S : P = PoolOf(tx) /\ M = MinedOf(tx) /\ S = StellarOf(tx)
    OBVIOUS
<1>6. /\ M \union P \in SUBSET (1..(t - 1)) /\ S \in SUBSET (1..(t - 1)) /\ M \cap P = {}
      /\ M \in SUBSET Sends /\ P \in SUBSET Sends /\ S \in SUBSET Sends
    BY <1>2, <1>4, <1>5 DEF PoolOf, MinedOf, StellarOf, PooledEvm, MinedEvm, MinedStellar
<1>7. /\ Cardinality(M \union P) <= t - 1 /\ Cardinality(S) <= t - 1
    <2>1. PICK B : B = 1..(t - 1)
        OBVIOUS
    <2>2. IsFiniteSet(B) /\ Cardinality(B) = t - 1 /\ M \union P \in SUBSET B /\ S \in SUBSET B
        BY <1>3, <1>6, <2>1
    <2>3. Cardinality(M \union P) <= Cardinality(B) /\ Cardinality(S) <= Cardinality(B)
        BY <2>2, FS_Subset
    <2>4. QED
        BY <2>2, <2>3
<1>8. IsFiniteSet(M) /\ IsFiniteSet(P) /\ Cardinality(M) \in Nat /\ Cardinality(P) \in Nat
      /\ Cardinality(S) \in Nat
    BY <1>6, SendsAre
<1>9. Cardinality(M \union P) = Cardinality(M) + Cardinality(P) - Cardinality(M \cap P)
    BY <1>8, FS_Union
<1>10. Cardinality(M \cap P) = 0
    BY <1>6, FS_EmptySet
<1>11. mined["evm"] = Cardinality(M) /\ mined["stellar"] = Cardinality(S)
    BY <1>5 DEF YInv, CountsSay
<1>12. QED
    BY <1>5, <1>7, <1>8, <1>9, <1>10, <1>11

\* What the node counts: the first gap is there, and small.
LEMMA PendingCountIs ==
    ASSUME YInv, NEW t \in Sends, tx[t].at = "new"
    PROVE  /\ PendingCount \in Nat /\ PendingCount <= t - 1 /\ mined["evm"] <= PendingCount
           /\ mined["evm"]..(PendingCount - 1) \subseteq NoncesOf(tx, PoolOf(tx))
<1>1. PICK P : P = NoncesOf(tx, PoolOf(tx))
    OBVIOUS
<1>2. PoolNonces = P
    BY <1>1 DEF PoolNonces, EvmPool, InPool, NoncesOf, PoolOf, PooledEvm
<1>3. PoolOf(tx) \in SUBSET Sends
    BY DEF PoolOf
<1>4. IsFiniteSet(P) /\ Cardinality(P) <= Cardinality(PoolOf(tx))
    BY <1>1, <1>3, FewNonces
<1>5. PICK m \in Nat, c \in Nat, k \in Nat :
         m = mined["evm"] /\ c = Cardinality(P) /\ k = Cardinality(PoolOf(tx))
    BY <1>3, <1>4, BegunAreFew, SendsAre, FS_CardinalityType
<1>6. c <= k /\ m + k <= t - 1 /\ t \in Nat /\ t <= MaxSends /\ MaxSends \in Nat
    BY <1>4, <1>5, BegunAreFew, SendsAre
<1> DEFINE Gaps == {n \in Nat : n >= m /\ n \notin P}
<1>7. \E n \in Gaps : n <= m + c
    <2> SUFFICES ASSUME \A n \in Gaps : ~(n <= m + c) PROVE FALSE
        OBVIOUS
    <2>1. m..(m + c) \in SUBSET P
        OBVIOUS
    <2>2. Cardinality(m..(m + c)) = c + 1
        <3>1. Cardinality(m..(m + c)) = IF m > m + c THEN 0 ELSE (m + c) - m + 1
            BY FS_Interval
        <3>2. QED
            BY <3>1
    <2>3. Cardinality(m..(m + c)) <= Cardinality(P)
        BY <1>4, <2>1, FS_Subset
    <2>4. QED
        BY <1>5, <2>2, <2>3
<1>8. PICK n \in Gaps : \A j \in Gaps : n <= j
    <2>1. Gaps \in SUBSET Nat /\ Gaps # {}
        BY <1>7
    <2> HIDE DEF Gaps
    <2>2. QED
        BY <2>1, LeastElement
<1>9. n \in m..MaxSends /\ n \notin P /\ m..(n - 1) \subseteq P
    <2>1. n <= m + c /\ n \in Nat /\ n >= m
        BY <1>7, <1>8
    <2>2. n \in m..MaxSends
        BY <1>6, <2>1
    <2>3. ASSUME NEW j \in m..(n - 1) PROVE j \in P
        <3>1. j \in Nat /\ j >= m /\ ~(n <= j)
            BY <2>1
        <3>2. QED
            BY <1>8, <3>1
    <2>4. QED
        BY <1>8, <2>2, <2>3
<1>10. PICK g : g = PendingCount
    OBVIOUS
<1>11. g \in m..MaxSends /\ g \notin P /\ m..(g - 1) \subseteq P
    BY <1>2, <1>5, <1>9, <1>10 DEF PendingCount
<1>12. g \in Nat /\ m <= g
    BY <1>11
<1>13. g - m <= c
    <2>1. m..(g - 1) \in SUBSET P
        BY <1>11
    <2>2. Cardinality(m..(g - 1)) <= Cardinality(P)
        BY <1>4, <2>1, FS_Subset
    <2>3. Cardinality(m..(g - 1)) = IF m > g - 1 THEN 0 ELSE (g - 1) - m + 1
        BY <1>12, FS_Interval
    <2>4. QED
        BY <1>5, <1>12, <2>2, <2>3
<1>14. QED
    BY <1>1, <1>5, <1>6, <1>10, <1>11, <1>12, <1>13

\* A step of the transactions: none begins before the one before it, and what
\* began keeps its nonce.
Goes(T, U) ==
    /\ U \in [Sends -> Tx] /\ \A u \in Sends : TxSays(U[u])
    /\ \A u \in Sends : T[u].at # "new" => U[u].at # "new" /\ U[u].nonce = T[u].nonce
    /\ \A u \in Sends : T[u].at = "new" /\ U[u].at # "new" => \A v \in 1..(u - 1) : T[v].at # "new"

\* No account executes anything.
SameMined(T, U) ==
    \A u \in Sends : (MinedEvm(U[u]) <=> MinedEvm(T[u])) /\ (MinedStellar(U[u]) <=> MinedStellar(T[u]))

\* Transactions that began stay begun: the order is kept.
LEMMA OrderStep ==
    ASSUME YInv, Goes(tx, tx')
    PROVE  InOrder'
<1>1. ASSUME NEW t \in Sends, NEW u \in Sends, u < t, tx'[t].at # "new" PROVE tx'[u].at # "new"
    <2>1. tx[u].at # "new"
        <3>1. CASE tx[t].at # "new"
            BY <1>1, <3>1 DEF YInv, InOrder
        <3>2. CASE tx[t].at = "new"
            <4>1. \A v \in 1..(t - 1) : tx[v].at # "new"
                BY <1>1, <3>2 DEF Goes
            <4>2. u \in 1..(t - 1)
                BY <1>1, SendsAre
            <4>3. QED
                BY <4>1, <4>2
        <3>3. QED
            BY <3>1, <3>2
    <2>2. QED
        BY <2>1 DEF Goes
<1>2. QED
    BY <1>1 DEF InOrder

\* A step that takes no nonce keeps what a process remembers past all it
\* took.
LEMMA LocalStep ==
    ASSUME YInv, Goes(tx, tx'), UNCHANGED <<localNonce, taken>>
    PROVE  LocalSays' /\ NoncesAreFresh'
<1>1. \A u \in Sends : /\ tx'[u].at = "new" => tx[u].at = "new"
                       /\ tx[u].at # "new" => tx'[u].at # "new" /\ tx'[u].nonce = tx[u].nonce
    BY DEF Goes
<1>2. \A p \in Relays : taken[p] \subseteq Sends
    BY DEF YInv, RelayTypeOK
<1>3. LocalSays'
    BY <1>1, <1>2 DEF YInv, LocalSays
<1>4. \A p \in Relays : \A t \in taken[p] : tx'[t].nonce = tx[t].nonce
    BY <1>1, <1>2 DEF YInv, LocalSays
<1>5. NoncesAreFresh'
    BY <1>4 DEF YInv, NoncesAreFresh
<1>6. QED
    BY <1>3, <1>5

\* A step that executes nothing leaves the counts of executed transactions.
LEMMA CountStep ==
    ASSUME YInv, SameMined(tx, tx'), UNCHANGED mined
    PROVE  CountsSay'
<1>1. MinedOf(tx') = MinedOf(tx) /\ StellarOf(tx') = StellarOf(tx)
    BY DEF SameMined, MinedOf, StellarOf
<1>2. QED
    BY <1>1 DEF YInv, CountsSay

\* The nonces that were accounted for still are, or are past, and whoever is
\* new is covered.
LEMMA CoverStep ==
    ASSUME YInv, mined' \in [{"evm", "stellar"} -> Nonces], mined["evm"] <= mined'["evm"],
           localNonce' \in [Relays -> Nat], tx' \in [Sends -> Tx],
           \A n \in Accounted(tx, lostNonces) : n \in Accounted(tx', lostNonces') \/ n < mined'["evm"],
           \A u \in Holders(tx') :
             \/ u \in Holders(tx) /\ tx'[u].nonce = tx[u].nonce
             \/ mined'["evm"]..tx'[u].nonce \subseteq Accounted(tx', lostNonces'),
           \A p \in Relays :
             \/ localNonce'[p] <= localNonce[p]
             \/ mined'["evm"]..(localNonce'[p] - 1) \subseteq Accounted(tx', lostNonces')
    PROVE  CoverSays'
<1>1. PICK A, B : A = Accounted(tx, lostNonces) /\ B = Accounted(tx', lostNonces')
    OBVIOUS
<1>2. /\ mined["evm"] \in Nat /\ mined'["evm"] \in Nat
      /\ \A p \in Relays : localNonce[p] \in Nat /\ localNonce'[p] \in Nat
      /\ \A u \in Sends : tx[u].nonce \in Nat
    BY SendsAre DEF YInv, RelayTypeOK, Nonces, Tx
<1>3. PICK m \in Nat, k \in Nat : m = mined["evm"] /\ k = mined'["evm"]
    BY <1>2
<1>4. m <= k /\ \A n \in A : n \in B \/ n < k
    BY <1>1, <1>3
<1>5. \A j \in Int : m..j \subseteq A => k..j \subseteq B
    <2> SUFFICES ASSUME NEW j \in Int, m..j \subseteq A, NEW n \in k..j PROVE n \in B
        OBVIOUS
    <2>1. n \in m..j /\ ~(n < k)
        BY <1>4
    <2>2. QED
        BY <1>4, <2>1
<1>6. \A p \in Relays : k..(localNonce'[p] - 1) \subseteq B
    <2> SUFFICES ASSUME NEW p \in Relays PROVE k..(localNonce'[p] - 1) \subseteq B
        OBVIOUS
    <2>1. CASE localNonce'[p] <= localNonce[p]
        <3>1. m..(localNonce[p] - 1) \subseteq A
            BY <1>1, <1>3 DEF YInv, CoverSays
        <3>2. k..(localNonce[p] - 1) \subseteq B
            BY <1>2, <1>5, <3>1
        <3>3. k..(localNonce'[p] - 1) \subseteq k..(localNonce[p] - 1)
            BY <1>2, <2>1
        <3>4. QED
            BY <3>2, <3>3
    <2>2. CASE mined'["evm"]..(localNonce'[p] - 1) \subseteq Accounted(tx', lostNonces')
        BY <1>1, <1>3, <2>2
    <2>3. QED
        BY <2>1, <2>2
<1>7. \A u \in Holders(tx') : k..tx'[u].nonce \subseteq B
    <2> SUFFICES ASSUME NEW u \in Holders(tx') PROVE k..tx'[u].nonce \subseteq B
        OBVIOUS
    <2>1. CASE u \in Holders(tx) /\ tx'[u].nonce = tx[u].nonce
        <3>1. m..tx[u].nonce \subseteq A
            BY <1>1, <1>3, <2>1 DEF YInv, CoverSays
        <3>2. u \in Sends
            BY DEF Holders
        <3>3. PICK j \in Nat : j = tx[u].nonce
            BY <1>2, <3>2
        <3>4. k..j \subseteq B
            BY <1>5, <3>1, <3>3
        <3>5. QED
            BY <2>1, <3>3, <3>4
    <2>2. CASE mined'["evm"]..tx'[u].nonce \subseteq Accounted(tx', lostNonces')
        BY <1>1, <1>3, <2>2
    <2>3. QED
        BY <2>1, <2>2
<1>8. QED
    BY <1>1, <1>3, <1>6, <1>7 DEF CoverSays

\* A transaction that only keeps what it is to the accounts.
LEMMA QuietStep ==
    ASSUME YInv, NEW t \in Sends, NEW s \in Tx, tx' = [tx EXCEPT ![t] = s],
           s.at # "new", TxSays(s),
           tx[t].at = "new" => \A u \in 1..(t - 1) : tx[u].at # "new",
           tx[t].at # "new" => s.nonce = tx[t].nonce,
           PooledEvm(s) <=> PooledEvm(tx[t]), TookEvm(s) <=> TookEvm(tx[t]),
           MinedEvm(s) <=> MinedEvm(tx[t]), MinedStellar(s) <=> MinedStellar(tx[t]),
           UNCHANGED <<mined, localNonce, taken, lostNonces, relayDeaths>>
    PROVE  YInv'
<1>1. tx \in [Sends -> Tx] /\ RelayTypeOK
    BY DEF YInv, RelayTypeOK
<1>2. /\ tx' \in [Sends -> Tx] /\ tx'[t] = s
      /\ \A u \in Sends : u # t => tx'[u] = tx[u]
    BY <1>1
<1>3. RelayTypeOK'
    BY <1>1, <1>2 DEF RelayTypeOK
<1>4. Goes(tx, tx')
    <2>1. \A u \in Sends : TxSays(tx[u])
        BY DEF YInv
    <2>2. QED
        BY <1>2, <2>1 DEF Goes
<1>5. SameMined(tx, tx')
    BY <1>2 DEF SameMined
<1>6. tx[t].at = "new" => t \notin Holders(tx)
    <2>1. TxSays(tx[t])
        BY DEF YInv
    <2>2. QED
        BY <2>1 DEF TxSays, Holders, PooledEvm, TookEvm
<1>7. Holders(tx') = Holders(tx) /\ \A u \in Holders(tx) : tx'[u].nonce = tx[u].nonce
    <2>1. Holders(tx') = Holders(tx)
        BY <1>2 DEF Holders
    <2>2. ASSUME NEW u \in Holders(tx) PROVE tx'[u].nonce = tx[u].nonce
        BY <1>2, <1>6 DEF Holders
    <2>3. QED
        BY <2>1, <2>2
<1>8. Accounted(tx', lostNonces') = Accounted(tx, lostNonces)
    BY <1>7 DEF Accounted, NoncesOf
<1>9. CoverSays'
    <2>1. mined' \in [{"evm", "stellar"} -> Nonces] /\ localNonce' \in [Relays -> Nat]
        BY <1>1 DEF RelayTypeOK
    <2>2. mined["evm"] <= mined'["evm"] /\ \A p \in Relays : localNonce'[p] <= localNonce[p]
        BY <1>1, SendsAre DEF RelayTypeOK, Nonces
    <2>3. QED
        BY <1>2, <1>7, <1>8, <2>1, <2>2, CoverStep
<1>10. QED
    BY <1>3, <1>4, <1>5, <1>9, OrderStep, LocalStep, CountStep DEF YInv, Goes

\* The fields of a transaction.
LEMMA TxIs ==
    ASSUME YInv, NEW t \in Sends
    PROVE  /\ tx \in [Sends -> Tx] /\ tx[t] \in Tx /\ TxSays(tx[t])
           /\ tx[t].at \in {"new", "taken", "sent", "over", "dead"}
           /\ tx[t].row \in {"none", "flushed", "CONFIRMED", "REVERTED", "FAILED"}
           /\ tx[t].fate \in {"none", "pool", "ok", "bad", "gone"}
           /\ tx[t].chain \in SubChains \union {"none"} /\ tx[t].nonce \in Nonces
           /\ tx[t].cut \in BOOLEAN
<1>1. tx \in [Sends -> Tx] /\ tx[t] \in Tx /\ TxSays(tx[t])
    BY DEF YInv, RelayTypeOK
<1>2. QED
    BY <1>1 DEF Tx

\* A transaction that begins has its chain and its nonce, and was not sent.
LEMMA BegunIs ==
    ASSUME NEW t, NEW p \in Relays \union {"nobody"}, NEW c \in SubChains, NEW n \in Nonces
    PROVE  /\ Begun(t, p, c, n) \in Tx
           /\ Begun(t, p, c, n).chain = c /\ Begun(t, p, c, n).at = "taken"
           /\ Begun(t, p, c, n).nonce = n /\ Begun(t, p, c, n).row = "none"
           /\ Begun(t, p, c, n).fate = "none" /\ Begun(t, p, c, n).cut = FALSE
<1>1. 0 \in Nonces
    BY SendsAre DEF Nonces
<1>2. QED
    BY <1>1 DEF Begun, NewTx, Tx, SubChains

\* A transaction that did not begin is with neither account.
LEMMA NewIs ==
    ASSUME YInv, NEW t \in Sends, tx[t].at = "new"
    PROVE  /\ tx[t].fate = "none" /\ ~PooledEvm(tx[t]) /\ ~TookEvm(tx[t])
           /\ ~MinedEvm(tx[t]) /\ ~MinedStellar(tx[t])
<1>1. TxSays(tx[t])
    BY DEF YInv
<1>2. QED
    BY <1>1 DEF TxSays, PooledEvm, TookEvm, MinedEvm, MinedStellar

\* A transaction for Tron, Solana or Stellar keeps the invariant when it
\* begins.
LEMMA BeginInThreadKeeps ==
    ASSUME YInv, NEW t \in Sends, NEW p \in Relays, NEW c \in {"tron", "solana", "stellar"},
           NEW n \in Nonces, BeginInThread(t, p, c, n)
    PROVE  YInv'
<1>1. PICK s : s = [Begun(t, p, c, n) EXCEPT !.row = "flushed"]
    OBVIOUS
<1>2. c \in SubChains /\ p \in Relays \union {"nobody"} /\ c \notin OnEvm /\ c # "evm"
    BY DEF SubChains, OnEvm
<1>3. s \in Tx /\ s.chain = c /\ s.at = "taken" /\ s.row = "flushed" /\ s.fate = "none"
    <2>1. PICK b \in Tx : b = Begun(t, p, c, n)
        BY <1>2, BegunIs
    <2>2. /\ Begun(t, p, c, n).chain = c /\ Begun(t, p, c, n).at = "taken"
          /\ Begun(t, p, c, n).fate = "none"
        BY DEF Begun, NewTx
    <2>3. s = [b EXCEPT !.row = "flushed"]
        BY <1>1, <2>1
    <2>4. QED
        BY <2>1, <2>2, <2>3 DEF Tx
<1>4. /\ tx[t].at = "new" /\ \A u \in 1..(t - 1) : tx[u].at # "new"
      /\ tx' = [tx EXCEPT ![t] = s]
      /\ UNCHANGED <<mined, localNonce, taken, lostNonces, relayDeaths>>
    BY <1>1 DEF BeginInThread, MayBegin
<1>5. TxSays(s)
    BY <1>2, <1>3 DEF TxSays, TookEvm
<1>6. ~PooledEvm(s) /\ ~TookEvm(s) /\ ~MinedEvm(s) /\ ~MinedStellar(s)
    BY <1>2, <1>3 DEF PooledEvm, TookEvm, MinedEvm, MinedStellar
<1>7. QED
    BY <1>3, <1>4, <1>5, <1>6, NewIs, QuietStep

\* So it does on each of the three chains; the sequence number of Stellar is
\* the count of what it executed.
LEMMA BeginsKeep ==
    ASSUME YInv, NEW t \in Sends, NEW p \in Relays,
           BeginTron(t, p) \/ BeginSolana(t, p) \/ BeginStellar(t, p)
    PROVE  YInv'
<1>1. 0 \in Nonces
    BY SendsAre DEF Nonces
<1>2. mined["stellar"] \in Nonces
    BY DEF YInv, RelayTypeOK
<1>3. QED
    BY <1>1, <1>2, BeginInThreadKeeps DEF BeginTron, BeginSolana, BeginStellar

\* What becomes of a transaction that is over, by the verdict.
LEMMA OverIs ==
    ASSUME YInv, NEW t \in Sends, NEW r \in {"CONFIRMED", "REVERTED", "FAILED"}
    PROVE  \E s \in Tx :
             /\ Over(t, r) = [tx EXCEPT ![t] = s] /\ s.at = "over" /\ s.row = r
             /\ s.chain = tx[t].chain /\ s.nonce = tx[t].nonce /\ s.fate = tx[t].fate
             /\ s.cut = tx[t].cut
<1>1. PICK x \in Tx : x = tx[t]
    BY TxIs
<1>2. tx \in [Sends -> Tx]
    BY TxIs
<1>3. PICK s : s = [[[x EXCEPT !.at = "over"] EXCEPT !.by = "nobody"] EXCEPT !.row = r]
    OBVIOUS
<1>4. Over(t, r) = [tx EXCEPT ![t] = s]
    BY <1>1, <1>2, <1>3 DEF Over
<1>5. /\ s \in Tx /\ s.at = "over" /\ s.row = r /\ s.chain = x.chain /\ s.nonce = x.nonce
      /\ s.fate = x.fate /\ s.cut = x.cut
    BY <1>3 DEF Tx
<1>6. QED
    BY <1>1, <1>4, <1>5

\* A transaction that failed where it was sent is over, with its fate.
LEMMA EndedIs ==
    ASSUME YInv, NEW t \in Sends, NEW fate \in {"none", "pool"}
    PROVE  \E s \in Tx :
             /\ Ended(t, fate) = [tx EXCEPT ![t] = s] /\ s.at = "over" /\ s.row = "FAILED"
             /\ s.chain = tx[t].chain /\ s.nonce = tx[t].nonce /\ s.fate = fate
             /\ s.cut = (fate = "pool")
<1>1. PICK c \in BOOLEAN : c = (fate = "pool")
    OBVIOUS
<1>2. PICK q \in Tx :
         /\ Over(t, "FAILED") = [tx EXCEPT ![t] = q] /\ q.at = "over" /\ q.row = "FAILED"
         /\ q.chain = tx[t].chain /\ q.nonce = tx[t].nonce
    BY OverIs
<1>3. tx \in [Sends -> Tx]
    BY TxIs
<1>4. PICK s : s = [[q EXCEPT !.fate = fate] EXCEPT !.cut = c]
    OBVIOUS
<1>5. Ended(t, fate) = [tx EXCEPT ![t] = s]
    <2>1. PICK T : T = Over(t, "FAILED")
        OBVIOUS
    <2>2. T = [tx EXCEPT ![t] = q] /\ T[t] = q /\ T \in [Sends -> Tx]
        BY <1>2, <1>3, <2>1
    <2>3. Ended(t, fate) = [[T EXCEPT ![t].fate = fate] EXCEPT ![t].cut = c]
        BY <1>1, <2>1 DEF Ended
    <2>4. [[T EXCEPT ![t].fate = fate] EXCEPT ![t].cut = c] = [T EXCEPT ![t] = s]
        BY <1>4, <2>2
    <2>5. [T EXCEPT ![t] = s] = [tx EXCEPT ![t] = s]
        BY <1>3, <2>2
    <2>6. QED
        BY <2>3, <2>4, <2>5
<1>6. /\ s \in Tx /\ s.at = "over" /\ s.row = "FAILED" /\ s.chain = q.chain /\ s.nonce = q.nonce
      /\ s.fate = fate /\ s.cut = c
    BY <1>2, <1>4 DEF Tx
<1>7. QED
    BY <1>1, <1>2, <1>5, <1>6

\* A transaction of a thread, sent or given up.
LEMMA SubmitInThreadKeeps ==
    ASSUME YInv, NEW t \in Sends, SubmitInThread(t)
    PROVE  YInv'
<1>1. PICK x \in Tx : x = tx[t]
    BY TxIs
<1>2. x.at = "taken" /\ x.row = "flushed" /\ TxSays(x)
    BY <1>1, TxIs DEF SubmitInThread
<1>3. x.fate = "none" /\ x.chain \notin OnEvm
    BY <1>2 DEF TxSays, TookEvm, OnEvm
<1>4. tx \in [Sends -> Tx]
    BY TxIs
<1>5. PICK s \in Tx :
        /\ tx' = [tx EXCEPT ![t] = s] /\ s.fate \in {"none", "pool"}
        /\ s.nonce = x.nonce /\ s.chain = x.chain
        /\ \/ s.at = "sent" /\ s.row = "flushed"
           \/ s.at = "over" /\ s.row = "FAILED" /\ (s.fate = "pool" => s.cut)
    <2>1. CASE tx' = [tx EXCEPT ![t].at = "sent", ![t].fate = "pool"]
        <3>1. PICK s : s = [[x EXCEPT !.at = "sent"] EXCEPT !.fate = "pool"]
            OBVIOUS
        <3>2. tx' = [tx EXCEPT ![t] = s]
            BY <1>1, <1>4, <2>1, <3>1
        <3>3. s \in Tx /\ s.fate = "pool" /\ s.nonce = x.nonce /\ s.chain = x.chain
              /\ s.at = "sent" /\ s.row = "flushed"
            BY <1>2, <3>1 DEF Tx
        <3>4. QED
            BY <3>2, <3>3
    <2>2. CASE tx' = [tx EXCEPT ![t].at = "sent"]
        <3>1. PICK s : s = [x EXCEPT !.at = "sent"]
            OBVIOUS
        <3>2. tx' = [tx EXCEPT ![t] = s]
            BY <1>1, <2>2, <3>1
        <3>3. s \in Tx /\ s.fate = "none" /\ s.nonce = x.nonce /\ s.chain = x.chain
              /\ s.at = "sent" /\ s.row = "flushed"
            BY <1>2, <1>3, <3>1 DEF Tx
        <3>4. QED
            BY <3>2, <3>3
    <2>3. ASSUME NEW fate \in {"none", "pool"}, tx' = Ended(t, fate)
          PROVE  \E s \in Tx : /\ tx' = [tx EXCEPT ![t] = s] /\ s.fate \in {"none", "pool"}
                               /\ s.nonce = x.nonce /\ s.chain = x.chain
                               /\ s.at = "over" /\ s.row = "FAILED" /\ (s.fate = "pool" => s.cut)
        <3>1. PICK s \in Tx :
                /\ Ended(t, fate) = [tx EXCEPT ![t] = s] /\ s.at = "over" /\ s.row = "FAILED"
                /\ s.chain = tx[t].chain /\ s.nonce = tx[t].nonce /\ s.fate = fate
                /\ s.cut = (fate = "pool")
            BY EndedIs
        <3>2. s.fate = "pool" => s.cut
            BY <3>1
        <3>3. QED
            BY <1>1, <2>3, <3>1, <3>2
    <2>4. QED
        BY <2>1, <2>2, <2>3 DEF SubmitInThread
<1>6. TxSays(s)
    BY <1>2, <1>3, <1>5 DEF TxSays, TookEvm, OnEvm
<1>7. /\ ~TookEvm(s) /\ ~TookEvm(x) /\ ~MinedEvm(s) /\ ~MinedStellar(s)
      /\ ~MinedEvm(x) /\ ~MinedStellar(x) /\ ~PooledEvm(s) /\ ~PooledEvm(x)
    BY <1>3, <1>5 DEF TookEvm, MinedEvm, MinedStellar, PooledEvm, OnEvm
<1>8. x.at # "new" /\ s.at # "new" /\ UNCHANGED <<mined, localNonce, taken, lostNonces, relayDeaths>>
    BY <1>2, <1>5 DEF SubmitInThread
<1>9. QED
    BY <1>1, <1>5, <1>6, <1>7, <1>8, QuietStep

\* A receipt that is read closes a transaction with the outcome it had on its
\* chain.
LEMMA ConcludeKeeps ==
    ASSUME YInv, NEW t \in Sends, Conclude(t)
    PROVE  YInv'
<1>1. PICK x \in Tx : x = tx[t]
    BY TxIs
<1>2. x.at = "sent" /\ x.fate \in {"ok", "bad"} /\ TxSays(x)
    BY <1>1, TxIs DEF Conclude, InBlock
<1>3. PICK r \in {"CONFIRMED", "REVERTED"} :
        /\ tx' = Over(t, r)
        /\ r = "CONFIRMED" => x.fate = "ok" \/ (x.chain = "solana" /\ x.fate = "bad")
        /\ r = "REVERTED" => x.fate = "bad"
    <2>1. PICK r \in Verdicts(t) : tx' = Over(t, r)
        BY DEF Conclude
    <2>2. QED
        BY <1>1, <1>2, <2>1 DEF Verdicts, OfFate
<1>4. PICK s \in Tx :
        /\ Over(t, r) = [tx EXCEPT ![t] = s] /\ s.at = "over" /\ s.row = r
        /\ s.chain = tx[t].chain /\ s.nonce = tx[t].nonce /\ s.fate = tx[t].fate
        /\ s.cut = tx[t].cut
    BY OverIs
<1>5. TxSays(s)
    BY <1>1, <1>2, <1>3, <1>4 DEF TxSays, TookEvm
<1>6. /\ PooledEvm(s) <=> PooledEvm(x)
      /\ TookEvm(s) <=> TookEvm(x)
      /\ MinedEvm(s) <=> MinedEvm(x)
      /\ MinedStellar(s) <=> MinedStellar(x)
    BY <1>1, <1>2, <1>4 DEF TookEvm, MinedEvm, MinedStellar, PooledEvm
<1>7. x.at # "new" /\ s.at # "new" /\ UNCHANGED <<mined, localNonce, taken, lostNonces, relayDeaths>>
    BY <1>2, <1>4 DEF Conclude
<1>8. QED
    BY <1>1, <1>3, <1>4, <1>5, <1>6, <1>7, QuietStep

\* A process that stops waiting for a receipt leaves the transaction marked
\* as cut.
LEMMA StopWaitingKeeps ==
    ASSUME YInv, NEW t \in Sends, StopWaiting(t)
    PROVE  YInv'
<1>1. PICK x \in Tx : x = tx[t]
    BY TxIs
<1>2. x.at = "sent" /\ TxSays(x)
    BY <1>1, TxIs DEF StopWaiting
<1>3. PICK r \in {"FAILED", "REVERTED"} :
        /\ r = "REVERTED" => x.chain = "stellar"
        /\ tx' = [Over(t, r) EXCEPT ![t].cut = TRUE]
    BY <1>1 DEF StopWaiting
<1>4. PICK q \in Tx :
        /\ Over(t, r) = [tx EXCEPT ![t] = q] /\ q.at = "over" /\ q.row = r
        /\ q.chain = tx[t].chain /\ q.nonce = tx[t].nonce /\ q.fate = tx[t].fate
        /\ q.cut = tx[t].cut
    BY OverIs
<1>5. PICK s : s = [q EXCEPT !.cut = TRUE]
    OBVIOUS
<1>6. s \in Tx /\ s.at = "over" /\ s.row = r /\ s.chain = x.chain /\ s.nonce = x.nonce
      /\ s.fate = x.fate /\ s.cut = TRUE
    BY <1>1, <1>4, <1>5 DEF Tx
<1>7. tx' = [tx EXCEPT ![t] = s]
    <2>1. PICK T : T = Over(t, r)
        OBVIOUS
    <2>2. tx \in [Sends -> Tx]
        BY TxIs
    <2>3. T = [tx EXCEPT ![t] = q] /\ T[t] = q /\ tx' = [T EXCEPT ![t].cut = TRUE]
        BY <1>3, <1>4, <2>1, <2>2
    <2>4. QED
        BY <1>5, <2>2, <2>3
<1>8. TxSays(s)
    BY <1>2, <1>3, <1>6 DEF TxSays, TookEvm
<1>9. /\ PooledEvm(s) <=> PooledEvm(x)
      /\ TookEvm(s) <=> TookEvm(x)
      /\ MinedEvm(s) <=> MinedEvm(x)
      /\ MinedStellar(s) <=> MinedStellar(x)
    BY <1>2, <1>6 DEF TookEvm, MinedEvm, MinedStellar, PooledEvm
<1>10. x.at # "new" /\ s.at # "new" /\ UNCHANGED <<mined, localNonce, taken, lostNonces, relayDeaths>>
    BY <1>2, <1>6 DEF StopWaiting
<1>11. QED
    BY <1>1, <1>6, <1>7, <1>8, <1>9, <1>10, QuietStep

\* What the chain decides of a transaction changes nothing else of it.
LEMMA FateIs ==
    ASSUME YInv, NEW t \in Sends, NEW f \in {"ok", "bad", "gone"}
    PROVE  \E s \in Tx :
             /\ [tx EXCEPT ![t].fate = f] = [tx EXCEPT ![t] = s] /\ s.fate = f
             /\ s.at = tx[t].at /\ s.row = tx[t].row /\ s.chain = tx[t].chain
             /\ s.nonce = tx[t].nonce /\ s.cut = tx[t].cut
<1>1. PICK x \in Tx : x = tx[t]
    BY TxIs
<1>2. PICK s : s = [x EXCEPT !.fate = f]
    OBVIOUS
<1>3. s \in Tx /\ s.fate = f /\ s.at = x.at /\ s.row = x.row /\ s.chain = x.chain
      /\ s.nonce = x.nonce /\ s.cut = x.cut
    BY <1>2 DEF Tx
<1>4. QED
    BY <1>1, <1>2, <1>3

\* One transaction that goes on leaves the others, and nothing begins out of
\* order.
LEMMA OneTxGoes ==
    ASSUME YInv, NEW t \in Sends, NEW s \in Tx, tx' = [tx EXCEPT ![t] = s],
           s.at # "new", TxSays(s),
           tx[t].at = "new" => \A u \in 1..(t - 1) : tx[u].at # "new",
           tx[t].at # "new" => s.nonce = tx[t].nonce
    PROVE  Goes(tx, tx') /\ tx'[t] = s /\ \A u \in Sends : u # t => tx'[u] = tx[u]
<1>1. tx \in [Sends -> Tx] /\ \A u \in Sends : TxSays(tx[u])
    BY DEF YInv, RelayTypeOK
<1>2. /\ tx' \in [Sends -> Tx] /\ tx'[t] = s
      /\ \A u \in Sends : u # t => tx'[u] = tx[u]
    BY <1>1
<1>3. QED
    BY <1>1, <1>2 DEF Goes

\* The accounts stay where they are; what was accounted for still is.
LEMMA AccountStep ==
    ASSUME YInv, Goes(tx, tx'), SameMined(tx, tx'), UNCHANGED <<mined, localNonce, taken>>,
           lostNonces' \subseteq Nat, relayDeaths' \in 0..MaxCrashed,
           Accounted(tx, lostNonces) \subseteq Accounted(tx', lostNonces'),
           \A u \in Holders(tx') :
             \/ u \in Holders(tx) /\ tx'[u].nonce = tx[u].nonce
             \/ mined["evm"]..tx'[u].nonce \subseteq Accounted(tx', lostNonces')
    PROVE  YInv'
<1>1. RelayTypeOK /\ RelayTypeOK'
    BY DEF YInv, RelayTypeOK, Goes
<1>2. /\ mined' \in [{"evm", "stellar"} -> Nonces] /\ localNonce' \in [Relays -> Nat]
      /\ tx' \in [Sends -> Tx]
    BY <1>1 DEF RelayTypeOK
<1>3. mined["evm"] <= mined'["evm"] /\ \A p \in Relays : localNonce'[p] <= localNonce[p]
    BY <1>1, SendsAre DEF RelayTypeOK, Nonces
<1>4. CoverSays'
    BY <1>2, <1>3, CoverStep
<1>5. QED
    BY <1>1, <1>4, OrderStep, LocalStep, CountStep DEF YInv, Goes

\* The nonce of a transaction whose estimate fails is lost: it stays
\* accounted for.
LEMMA FailEstimateKeeps ==
    ASSUME YInv, NEW t \in Sends, FailEstimate(t)
    PROVE  YInv'
<1>1. PICK x \in Tx : x = tx[t]
    BY TxIs
<1>2. x.at = "taken" /\ x.chain = "evm" /\ TxSays(x) /\ x.nonce \in Nat
    BY <1>1, TxIs, SendsAre DEF FailEstimate, Nonces
<1>3. x.fate = "none" /\ x.row = "none"
    BY <1>2 DEF TxSays, TookEvm
<1>4. PICK s : s = [[x EXCEPT !.at = "over"] EXCEPT !.by = "nobody"]
    OBVIOUS
<1>5. /\ s \in Tx /\ s.at = "over" /\ s.row = "none" /\ s.fate = "none" /\ s.chain = "evm"
      /\ s.nonce = x.nonce
    BY <1>2, <1>3, <1>4 DEF Tx
<1>6. tx' = [tx EXCEPT ![t] = s] /\ lostNonces' = lostNonces \union {x.nonce}
      /\ UNCHANGED <<mined, localNonce, taken, relayDeaths>>
    <2>1. tx \in [Sends -> Tx]
        BY TxIs
    <2>2. QED
        BY <1>1, <1>4, <2>1 DEF FailEstimate
<1>7. TxSays(s)
    BY <1>5 DEF TxSays, TookEvm
<1>8. Goes(tx, tx') /\ tx'[t] = s /\ \A u \in Sends : u # t => tx'[u] = tx[u]
    BY <1>1, <1>2, <1>5, <1>6, <1>7, OneTxGoes
<1>9. ~MinedEvm(s) /\ ~MinedStellar(s) /\ ~MinedEvm(x) /\ ~MinedStellar(x) /\ ~PooledEvm(s)
      /\ ~TookEvm(s)
    BY <1>3, <1>5 DEF MinedEvm, MinedStellar, PooledEvm, TookEvm
<1>10. SameMined(tx, tx')
    BY <1>1, <1>8, <1>9 DEF SameMined
<1>11. lostNonces \subseteq Nat /\ relayDeaths \in 0..MaxCrashed
    BY DEF YInv, RelayTypeOK
<1>12. \A u \in Holders(tx') : u \in Holders(tx) /\ tx'[u].nonce = tx[u].nonce
    BY <1>8, <1>9 DEF Holders
<1>13. Accounted(tx, lostNonces) \subseteq Accounted(tx', lostNonces')
    <2>1. ASSUME NEW u \in Holders(tx) PROVE tx[u].nonce \in Accounted(tx', lostNonces')
        <3>1. CASE u = t
            BY <1>1, <1>6, <3>1 DEF Accounted
        <3>2. CASE u # t
            <4>1. u \in Holders(tx') /\ tx'[u].nonce = tx[u].nonce
                BY <1>8, <3>2 DEF Holders
            <4>2. QED
                BY <4>1 DEF Accounted, NoncesOf
        <3>3. QED
            BY <3>1, <3>2
    <2>2. QED
        BY <1>6, <2>1 DEF Accounted, NoncesOf
<1>14. lostNonces' \subseteq Nat /\ relayDeaths' \in 0..MaxCrashed
    BY <1>2, <1>6, <1>11
<1>15. QED
    BY <1>6, <1>8, <1>10, <1>12, <1>13, <1>14, AccountStep

\* A transaction that is dropped leaves its nonce among the lost ones, if it
\* is one of the EVM account.
LEMMA DropTxKeeps ==
    ASSUME YInv, NEW t \in Sends, DropTx(t)
    PROVE  YInv'
<1>1. PICK x \in Tx : x = tx[t]
    BY TxIs
<1>2. x.fate = "pool" /\ TxSays(x) /\ x.nonce \in Nat
    BY <1>1, TxIs, SendsAre DEF DropTx, InPool, Nonces
<1>3. PICK s \in Tx :
        /\ tx' = [tx EXCEPT ![t] = s] /\ s.fate = "gone"
        /\ s.at = x.at /\ s.row = x.row /\ s.chain = x.chain
        /\ s.nonce = x.nonce /\ s.cut = x.cut
    BY <1>1, FateIs DEF DropTx
<1>4. x.at \notin {"new", "taken"}
    BY <1>2 DEF TxSays
<1>5. TxSays(s)
    BY <1>2, <1>3, <1>4 DEF TxSays, TookEvm
<1>6. /\ lostNonces' = lostNonces \union (IF x.chain \in OnEvm THEN {x.nonce} ELSE {})
      /\ UNCHANGED <<mined, localNonce, taken, relayDeaths>>
    BY <1>1 DEF DropTx
<1>7. Goes(tx, tx') /\ tx'[t] = s /\ \A u \in Sends : u # t => tx'[u] = tx[u]
    BY <1>1, <1>3, <1>4, <1>5, OneTxGoes
<1>8. ~MinedEvm(s) /\ ~MinedStellar(s) /\ ~MinedEvm(x) /\ ~MinedStellar(x) /\ ~PooledEvm(s)
      /\ ~TookEvm(s) /\ ~TookEvm(x)
    BY <1>2, <1>3, <1>4 DEF MinedEvm, MinedStellar, PooledEvm, TookEvm
<1>9. SameMined(tx, tx')
    BY <1>1, <1>7, <1>8 DEF SameMined
<1>10. lostNonces \subseteq Nat /\ relayDeaths \in 0..MaxCrashed
    BY DEF YInv, RelayTypeOK
<1>11. \A u \in Holders(tx') : u \in Holders(tx) /\ tx'[u].nonce = tx[u].nonce
    BY <1>7, <1>8 DEF Holders
<1>12. Accounted(tx, lostNonces) \subseteq Accounted(tx', lostNonces')
    <2>1. ASSUME NEW u \in Holders(tx) PROVE tx[u].nonce \in Accounted(tx', lostNonces')
        <3>1. CASE u = t
            <4>1. x.chain \in OnEvm
                BY <1>1, <1>8, <2>1, <3>1 DEF Holders, PooledEvm
            <4>2. QED
                BY <1>1, <1>6, <3>1, <4>1 DEF Accounted
        <3>2. CASE u # t
            <4>1. u \in Holders(tx') /\ tx'[u].nonce = tx[u].nonce
                BY <1>7, <3>2 DEF Holders
            <4>2. QED
                BY <4>1 DEF Accounted, NoncesOf
        <3>3. QED
            BY <3>1, <3>2
    <2>2. QED
        BY <1>6, <2>1 DEF Accounted, NoncesOf
<1>13. lostNonces' \subseteq Nat /\ relayDeaths' \in 0..MaxCrashed
    BY <1>2, <1>6, <1>10
<1>14. QED
    BY <1>6, <1>7, <1>9, <1>11, <1>12, <1>13, AccountStep

\* The node takes it, in the place of others with its nonce.
LEMMA AcceptedKeeps ==
    ASSUME YInv, NEW t \in Sends, NEW s \in Tx, Accepted(t, s.nonce, [tx EXCEPT ![t] = s]),
           s.at # "new", TxSays(s), PooledEvm(s), ~TookEvm(s),
           tx[t].at = "new" =>
             s.nonce = mined["evm"] /\ \A u \in 1..(t - 1) : tx[u].at # "new",
           tx[t].at # "new" => s.nonce = tx[t].nonce /\ TookEvm(tx[t]),
           UNCHANGED <<mined, localNonce, taken, lostNonces, relayDeaths>>
    PROVE  YInv'
<1>1. tx \in [Sends -> Tx] /\ \A u \in Sends : TxSays(tx[u])
    BY DEF YInv, RelayTypeOK
<1>2. PICK R : R = {u \in Sends : u # t /\ u \in EvmPool /\ tx[u].nonce = s.nonce}
    OBVIOUS
<1>3. /\ tx' = [u \in Sends |-> IF u \in R THEN [tx[u] EXCEPT !.fate = "gone"]
                                ELSE IF u = t THEN s ELSE tx[u]]
      /\ R \subseteq Sends /\ t \notin R
    BY <1>1, <1>2 DEF Accepted
<1>4. \A u \in R : PooledEvm(tx[u]) /\ tx[u].nonce = s.nonce
    BY <1>2 DEF EvmPool, InPool, PooledEvm
<1>5. /\ tx'[t] = s /\ \A u \in Sends \ (R \union {t}) : tx'[u] = tx[u]
      /\ \A u \in R : tx'[u] = [tx[u] EXCEPT !.fate = "gone"]
    BY <1>3
<1>6. ASSUME NEW u \in R
      PROVE  /\ tx'[u] \in Tx /\ TxSays(tx'[u]) /\ tx'[u].at # "new" /\ tx[u].at # "new"
             /\ tx'[u].nonce = tx[u].nonce /\ tx'[u].fate = "gone" /\ ~TookEvm(tx'[u])
    <2>1. PICK x \in Tx : x = tx[u]
        BY <1>1, <1>3
    <2>2. x.fate = "pool" /\ x.chain \in OnEvm /\ TxSays(x) /\ u \in Sends
        BY <1>1, <1>3, <1>4, <2>1 DEF PooledEvm
    <2>3. x.at \notin {"new", "taken"}
        BY <2>2 DEF TxSays
    <2>4. PICK y : y = [x EXCEPT !.fate = "gone"]
        OBVIOUS
    <2>5. /\ y \in Tx /\ y.fate = "gone" /\ y.at = x.at /\ y.chain = x.chain /\ y.row = x.row
          /\ y.nonce = x.nonce /\ y.cut = x.cut
        BY <2>4 DEF Tx
    <2>6. TxSays(y)
        BY <2>2, <2>3, <2>5 DEF TxSays, TookEvm, OnEvm
    <2>7. tx'[u] = y
        BY <1>5, <2>1, <2>4
    <2>8. QED
        BY <2>1, <2>3, <2>5, <2>6, <2>7 DEF TookEvm
<1>7. Goes(tx, tx')
    <2>1. tx' \in [Sends -> Tx]
        BY <1>1, <1>3, <1>6
    <2>2. \A u \in Sends : TxSays(tx'[u])
        BY <1>1, <1>5, <1>6
    <2>3. \A u \in Sends : tx[u].at # "new" => tx'[u].at # "new" /\ tx'[u].nonce = tx[u].nonce
        BY <1>5, <1>6
    <2>4. \A u \in Sends : tx[u].at = "new" /\ tx'[u].at # "new" => \A v \in 1..(u - 1) : tx[v].at # "new"
        BY <1>5, <1>6
    <2>5. QED
        BY <2>1, <2>2, <2>3, <2>4 DEF Goes
<1>8. tx[t].fate = "none"
    BY <1>1 DEF TxSays, TookEvm
<1>9. SameMined(tx, tx')
    <2>1. \A u \in R : /\ ~MinedEvm(tx[u]) /\ ~MinedStellar(tx[u])
                       /\ ~MinedEvm(tx'[u]) /\ ~MinedStellar(tx'[u])
        BY <1>4, <1>6 DEF MinedEvm, MinedStellar, PooledEvm
    <2>2. /\ ~MinedEvm(tx[t]) /\ ~MinedStellar(tx[t])
          /\ ~MinedEvm(tx'[t]) /\ ~MinedStellar(tx'[t])
        BY <1>5, <1>8 DEF MinedEvm, MinedStellar, PooledEvm
    <2>3. QED
        BY <1>5, <2>1, <2>2 DEF SameMined
<1>10. t \in Holders(tx') /\ \A u \in R : u \notin Holders(tx')
    BY <1>5, <1>6 DEF Holders, PooledEvm
<1>11. Accounted(tx, lostNonces) \subseteq Accounted(tx', lostNonces')
    <2>1. s.nonce \in NoncesOf(tx', Holders(tx'))
        BY <1>5, <1>10 DEF NoncesOf
    <2>2. ASSUME NEW u \in Holders(tx) PROVE tx[u].nonce \in NoncesOf(tx', Holders(tx'))
        <3>1. CASE u \in R
            BY <1>4, <2>1, <3>1
        <3>2. CASE u = t
            <4>1. tx[t].at # "new"
                BY <1>8, <3>2 DEF Holders, PooledEvm, TookEvm
            <4>2. QED
                BY <2>1, <3>2, <4>1
        <3>3. CASE u \notin R /\ u # t
            <4>1. u \in Sends /\ tx'[u] = tx[u]
                BY <1>5, <3>3 DEF Holders
            <4>2. u \in Holders(tx')
                BY <4>1 DEF Holders
            <4>3. QED
                BY <4>1, <4>2 DEF NoncesOf
        <3>4. QED
            BY <3>1, <3>2, <3>3
    <2>3. lostNonces' = lostNonces
        OBVIOUS
    <2>4. QED
        BY <2>2, <2>3 DEF Accounted, NoncesOf
<1>12. ASSUME NEW u \in Holders(tx')
       PROVE  \/ u \in Holders(tx) /\ tx'[u].nonce = tx[u].nonce
              \/ mined["evm"]..tx'[u].nonce \subseteq Accounted(tx', lostNonces')
    <2>1. CASE u = t /\ tx[t].at = "new"
        <3>1. tx'[u].nonce = mined["evm"] /\ mined["evm"] \in Nat
            BY <1>5, <2>1, SendsAre DEF YInv, RelayTypeOK, Nonces
        <3>2. mined["evm"] \in Accounted(tx', lostNonces')
            BY <3>1 DEF Accounted, NoncesOf
        <3>3. mined["evm"]..mined["evm"] = {mined["evm"]}
            BY <3>1
        <3>4. QED
            BY <3>1, <3>2, <3>3
    <2>2. CASE u = t /\ tx[t].at # "new"
        BY <1>5, <2>2 DEF Holders
    <2>3. CASE u # t
        <3>1. u \in Sends /\ u \notin R
            BY <1>10 DEF Holders
        <3>2. tx'[u] = tx[u]
            BY <1>5, <2>3, <3>1
        <3>3. QED
            BY <3>1, <3>2 DEF Holders
    <2>4. QED
        BY <2>1, <2>2, <2>3
<1>13. lostNonces' \subseteq Nat /\ relayDeaths' \in 0..MaxCrashed
    BY DEF YInv, RelayTypeOK
<1>14. QED
    BY <1>7, <1>9, <1>11, <1>12, <1>13, AccountStep

\* sendRawTransaction puts the nonce that was taken into the pool.
LEMMA SendEvmKeeps ==
    ASSUME YInv, NEW t \in Sends, SendEvm(t)
    PROVE  YInv'
<1>1. PICK x \in Tx : x = tx[t]
    BY TxIs
<1>2. x.at = "taken" /\ x.chain = "evm" /\ TxSays(x) /\ x.nonce \in Nat
    BY <1>1, TxIs, SendsAre DEF SendEvm, Nonces
<1>3. x.fate = "none" /\ x.row = "none" /\ TookEvm(x) /\ tx \in [Sends -> Tx]
    BY <1>2, TxIs DEF TxSays, TookEvm
<1>4. UNCHANGED <<mined, localNonce, taken, relayDeaths>>
    BY DEF SendEvm
<1>5. CASE /\ Accepted(t, tx[t].nonce,
                       [tx EXCEPT ![t].at = "sent", ![t].row = "flushed", ![t].fate = "pool"])
           /\ UNCHANGED lostNonces
    <2>1. PICK s : s = [[[x EXCEPT !.at = "sent"] EXCEPT !.row = "flushed"] EXCEPT !.fate = "pool"]
        OBVIOUS
    <2>2. /\ s \in Tx /\ s.at = "sent" /\ s.row = "flushed" /\ s.fate = "pool"
          /\ s.chain = "evm" /\ s.nonce = x.nonce
        BY <1>2, <2>1 DEF Tx
    <2>3. [tx EXCEPT ![t].at = "sent", ![t].row = "flushed", ![t].fate = "pool"]
          = [tx EXCEPT ![t] = s]
        BY <1>1, <1>3, <2>1
    <2>4. Accepted(t, s.nonce, [tx EXCEPT ![t] = s])
        BY <1>1, <1>5, <2>2, <2>3
    <2>5. TxSays(s) /\ PooledEvm(s) /\ ~TookEvm(s)
        BY <2>2 DEF TxSays, PooledEvm, TookEvm, OnEvm
    <2>6. QED
        BY <1>1, <1>2, <1>3, <1>4, <1>5, <2>2, <2>4, <2>5, AcceptedKeeps
<1>6. CASE Accepted(t, tx[t].nonce, Ended(t, "pool")) /\ UNCHANGED lostNonces
    <2>1. PICK s \in Tx :
            /\ Ended(t, "pool") = [tx EXCEPT ![t] = s] /\ s.at = "over" /\ s.row = "FAILED"
            /\ s.chain = tx[t].chain /\ s.nonce = tx[t].nonce /\ s.fate = "pool"
            /\ s.cut = ("pool" = "pool")
        BY EndedIs
    <2>2. Accepted(t, s.nonce, [tx EXCEPT ![t] = s])
        BY <1>6, <2>1
    <2>3. TxSays(s) /\ PooledEvm(s) /\ ~TookEvm(s)
        BY <1>1, <1>2, <2>1 DEF TxSays, PooledEvm, TookEvm, OnEvm
    <2>4. QED
        BY <1>1, <1>2, <1>3, <1>4, <1>6, <2>1, <2>2, <2>3, AcceptedKeeps
<1>7. CASE tx' = Ended(t, "none") /\ lostNonces' = lostNonces \union {tx[t].nonce}
    <2>1. PICK s \in Tx :
            /\ Ended(t, "none") = [tx EXCEPT ![t] = s] /\ s.at = "over" /\ s.row = "FAILED"
            /\ s.chain = tx[t].chain /\ s.nonce = tx[t].nonce /\ s.fate = "none"
            /\ s.cut = ("none" = "pool")
        BY EndedIs
    <2>2. TxSays(s)
        BY <1>1, <1>2, <2>1 DEF TxSays, TookEvm
    <2>3. Goes(tx, tx') /\ tx'[t] = s /\ \A u \in Sends : u # t => tx'[u] = tx[u]
        <3>1. tx' = [tx EXCEPT ![t] = s] /\ s.at # "new" /\ tx[t].at # "new"
            BY <1>1, <1>2, <1>7, <2>1
        <3>2. QED
            BY <2>1, <2>2, <3>1, OneTxGoes
    <2>4. ~MinedEvm(s) /\ ~MinedStellar(s) /\ ~MinedEvm(x) /\ ~MinedStellar(x) /\ ~PooledEvm(s)
          /\ ~TookEvm(s)
        BY <1>3, <2>1 DEF MinedEvm, MinedStellar, PooledEvm, TookEvm
    <2>5. SameMined(tx, tx')
        BY <1>1, <2>3, <2>4 DEF SameMined
    <2>6. lostNonces \subseteq Nat /\ relayDeaths \in 0..MaxCrashed
        BY DEF YInv, RelayTypeOK
    <2>7. \A u \in Holders(tx') : u \in Holders(tx) /\ tx'[u].nonce = tx[u].nonce
        BY <2>3, <2>4 DEF Holders
    <2>8. Accounted(tx, lostNonces) \subseteq Accounted(tx', lostNonces')
        <3>1. ASSUME NEW u \in Holders(tx) PROVE tx[u].nonce \in Accounted(tx', lostNonces')
            <4>1. CASE u = t
                BY <1>1, <1>7, <4>1 DEF Accounted
            <4>2. CASE u # t
                <5>1. u \in Holders(tx') /\ tx'[u].nonce = tx[u].nonce
                    BY <2>3, <4>2 DEF Holders
                <5>2. QED
                    BY <5>1 DEF Accounted, NoncesOf
            <4>3. QED
                BY <4>1, <4>2
        <3>2. QED
            BY <1>7, <3>1 DEF Accounted, NoncesOf
    <2>9. lostNonces' \subseteq Nat /\ relayDeaths' \in 0..MaxCrashed
        BY <1>1, <1>2, <1>4, <1>7, <2>6
    <2>10. QED
        BY <1>4, <2>3, <2>5, <2>7, <2>8, <2>9, AccountStep
<1>8. QED
    BY <1>5, <1>6, <1>7 DEF SendEvm

\* A refund asks the node for the next nonce, and sends it at once.
LEMMA SendRefundKeeps ==
    ASSUME YInv, NEW t \in Sends, NEW p \in Relays, SendRefund(t, p)
    PROVE  YInv'
<1>1. mined["evm"] \in Nonces /\ "polygon" \in SubChains /\ "nobody" \in Relays \union {"nobody"}
    BY DEF YInv, RelayTypeOK, SubChains
<1>2. PICK b : b = Begun(t, "nobody", "polygon", mined["evm"])
    OBVIOUS
<1>3. b \in Tx /\ b.chain = "polygon" /\ b.fate = "none" /\ b.nonce = mined["evm"] /\ b.row = "none"
    <2>1. b \in Tx
        BY <1>1, <1>2, BegunIs
    <2>2. QED
        BY <1>2, <2>1 DEF Begun, NewTx
<1>4. PICK r : r = [b EXCEPT !.at = "over"]
    OBVIOUS
<1>5. /\ r \in Tx /\ r.chain = "polygon" /\ r.at = "over" /\ r.fate = "none"
      /\ r.nonce = mined["evm"] /\ r.row = "none"
    BY <1>3, <1>4 DEF Tx
<1>6. PICK s : s = [r EXCEPT !.fate = "pool"]
    OBVIOUS
<1>7. /\ s \in Tx /\ s.chain = "polygon" /\ s.at = "over" /\ s.fate = "pool"
      /\ s.nonce = mined["evm"] /\ s.row = "none"
    BY <1>5, <1>6 DEF Tx
<1>8. /\ tx[t].at = "new" /\ \A u \in 1..(t - 1) : tx[u].at # "new"
      /\ \/ Accepted(t, mined["evm"], [tx EXCEPT ![t] = s])
         \/ tx' = [tx EXCEPT ![t] = r]
      /\ UNCHANGED <<mined, localNonce, taken, lostNonces, relayDeaths>>
    BY <1>2, <1>4, <1>6 DEF SendRefund, MayBegin
<1>9. CASE Accepted(t, mined["evm"], [tx EXCEPT ![t] = s])
    <2>1. TxSays(s) /\ PooledEvm(s) /\ ~TookEvm(s)
        BY <1>7 DEF TxSays, PooledEvm, TookEvm, OnEvm
    <2>2. Accepted(t, s.nonce, [tx EXCEPT ![t] = s])
        BY <1>7, <1>9
    <2>3. QED
        BY <1>7, <1>8, <2>1, <2>2, AcceptedKeeps
<1>10. CASE tx' = [tx EXCEPT ![t] = r]
    <2>1. TxSays(r) /\ ~PooledEvm(r) /\ ~TookEvm(r) /\ ~MinedEvm(r) /\ ~MinedStellar(r)
        BY <1>5 DEF TxSays, PooledEvm, TookEvm, MinedEvm, MinedStellar
    <2>2. QED
        BY <1>5, <1>8, <1>10, <2>1, NewIs, QuietStep
<1>11. QED
    BY <1>8, <1>9, <1>10

\* A relayer takes the larger of what it remembers and what the node counts:
\* all between the account and it are accounted for.
LEMMA TakeNonceKeeps ==
    ASSUME YInv, NEW t \in Sends, NEW p \in Relays, TakeNonce(t, p)
    PROVE  YInv'
<1>1. /\ tx[t].at = "new" /\ \A u \in 1..(t - 1) : tx[u].at # "new"
      /\ UNCHANGED <<mined, lostNonces, relayDeaths>>
      /\ taken' = [taken EXCEPT ![p] = @ \union {t}]
    BY DEF TakeNonce, MayBegin
<1>2. PICK seen \in 0..PendingCount :
        /\ tx' = [tx EXCEPT ![t] = Begun(t, p, "evm", NextNonce(p, seen))]
        /\ localNonce' = [localNonce EXCEPT ![p] = NextNonce(p, seen) + 1]
    BY DEF TakeNonce
<1>3. /\ localNonce \in [Relays -> Nat] /\ taken \in [Relays -> SUBSET Sends]
      /\ mined \in [{"evm", "stellar"} -> Nonces] /\ mined["evm"] \in Nat
    BY SendsAre DEF YInv, RelayTypeOK, Nonces
<1>4. PICK l \in Nat : l = localNonce[p]
    BY <1>3
<1>5. /\ l < t /\ t \in Nat /\ t >= 1 /\ t <= MaxSends /\ MaxSends \in Nat
    BY <1>1, <1>4, SendsAre DEF YInv, LocalSays
<1>6. PICK g \in Nat : /\ g = PendingCount /\ g <= t - 1 /\ mined["evm"] <= g
                       /\ mined["evm"]..(g - 1) \subseteq NoncesOf(tx, PoolOf(tx))
    BY <1>1, PendingCountIs
<1>7. PICK n \in Nat : /\ n = NextNonce(p, seen) /\ n >= l /\ n <= t - 1 /\ (n <= g \/ n = l)
    <2>1. seen \in Nat /\ seen <= g
        BY <1>6
    <2>2. CASE seen > l
        <3>1. NextNonce(p, seen) = seen
            BY <1>4, <2>2 DEF NextNonce
        <3>2. QED
            BY <1>5, <1>6, <2>1, <2>2, <3>1
    <2>3. CASE ~(seen > l)
        <3>1. NextNonce(p, seen) = l
            BY <1>4, <2>3 DEF NextNonce
        <3>2. QED
            BY <1>5, <1>6, <2>1, <2>3, <3>1
    <2>4. QED
        BY <2>2, <2>3
<1>8. PICK s : s = Begun(t, p, "evm", n)
    OBVIOUS
<1>9. /\ s \in Tx /\ s.chain = "evm" /\ s.at = "taken" /\ s.nonce = n /\ s.row = "none"
      /\ s.fate = "none"
    <2>1. n \in Nonces /\ "evm" \in SubChains /\ p \in Relays \union {"nobody"}
        BY <1>5, <1>7 DEF Nonces, SubChains
    <2>2. s \in Tx
        BY <1>8, <2>1, BegunIs
    <2>3. QED
        BY <1>8, <2>2 DEF Begun, NewTx
<1>10. TxSays(s) /\ TookEvm(s) /\ ~MinedEvm(s) /\ ~MinedStellar(s)
    BY <1>9 DEF TxSays, TookEvm, MinedEvm, MinedStellar
<1>11. Goes(tx, tx') /\ tx'[t] = s /\ \A u \in Sends : u # t => tx'[u] = tx[u]
    <2>1. tx' = [tx EXCEPT ![t] = s] /\ s.at # "new"
        BY <1>2, <1>7, <1>8, <1>9
    <2>2. QED
        BY <1>1, <1>9, <1>10, <2>1, OneTxGoes
<1>12. SameMined(tx, tx')
    BY <1>1, <1>10, <1>11, NewIs DEF SameMined
<1>13. localNonce' = [localNonce EXCEPT ![p] = n + 1] /\ localNonce' \in [Relays -> Nat]
       /\ taken' \in [Relays -> SUBSET Sends]
    BY <1>1, <1>2, <1>3, <1>7
<1>14. RelayTypeOK'
    BY <1>1, <1>11, <1>13 DEF YInv, RelayTypeOK, Goes
<1>15. t \in Holders(tx') /\ \A u \in Sends \ {t} : u \in Holders(tx') <=> u \in Holders(tx)
    BY <1>10, <1>11 DEF Holders
<1>16. t \notin Holders(tx) /\ t \notin PoolOf(tx)
    BY <1>1, NewIs DEF Holders, PoolOf
<1>17. Accounted(tx, lostNonces) \subseteq Accounted(tx', lostNonces')
       /\ n \in Accounted(tx', lostNonces')
    <2>1. ASSUME NEW u \in Holders(tx) PROVE tx[u].nonce \in NoncesOf(tx', Holders(tx'))
        <3>1. u \in Sends \ {t}
            BY <1>16 DEF Holders
        <3>2. u \in Holders(tx') /\ tx'[u].nonce = tx[u].nonce
            BY <1>11, <1>15, <3>1
        <3>3. QED
            BY <3>2 DEF NoncesOf
    <2>2. n \in NoncesOf(tx', Holders(tx'))
        BY <1>9, <1>11, <1>15 DEF NoncesOf
    <2>3. QED
        BY <1>1, <2>1, <2>2 DEF Accounted, NoncesOf
<1>18. mined["evm"]..n \subseteq Accounted(tx', lostNonces')
    <2>1. PICK m \in Nat, A \in {Accounted(tx, lostNonces)} : m = mined["evm"]
        BY <1>3
    <2>2. m..(n - 1) \subseteq A
        <3>1. CASE n <= g
            <4>1. m..(g - 1) \subseteq A
                <5>1. NoncesOf(tx, PoolOf(tx)) \subseteq A
                    BY <2>1 DEF NoncesOf, PoolOf, Accounted, Holders
                <5>2. QED
                    BY <1>6, <2>1, <5>1
            <4>2. m..(n - 1) \subseteq m..(g - 1)
                BY <3>1
            <4>3. QED
                BY <4>1, <4>2
        <3>2. CASE n = l
            BY <1>4, <2>1, <3>2 DEF YInv, CoverSays
        <3>3. QED
            BY <1>7, <3>1, <3>2
    <2>3. \A j \in m..n : j = n \/ j \in m..(n - 1)
        OBVIOUS
    <2>4. QED
        BY <1>17, <2>1, <2>2, <2>3
<1>19. CoverSays'
    <2>1. \A u \in Holders(tx') :
             \/ u \in Holders(tx) /\ tx'[u].nonce = tx[u].nonce
             \/ mined'["evm"]..tx'[u].nonce \subseteq Accounted(tx', lostNonces')
        <3>1. ASSUME NEW u \in Holders(tx'), u # t
              PROVE  u \in Holders(tx) /\ tx'[u].nonce = tx[u].nonce
            <4>1. u \in Sends \ {t}
                BY <3>1 DEF Holders
            <4>2. QED
                BY <1>11, <1>15, <3>1, <4>1
        <3>2. mined'["evm"]..tx'[t].nonce \subseteq Accounted(tx', lostNonces')
            BY <1>1, <1>9, <1>11, <1>18
        <3>3. QED
            BY <3>1, <3>2
    <2>2. \A q \in Relays :
             \/ localNonce'[q] <= localNonce[q]
             \/ mined'["evm"]..(localNonce'[q] - 1) \subseteq Accounted(tx', lostNonces')
        <3>1. localNonce'[p] = n + 1 /\ (n + 1) - 1 = n
            BY <1>3, <1>13
        <3>2. \A q \in Relays : q # p => localNonce'[q] <= localNonce[q]
            BY <1>3, <1>13
        <3>3. mined'["evm"]..(localNonce'[p] - 1) \subseteq Accounted(tx', lostNonces')
            BY <1>1, <1>18, <3>1
        <3>4. QED
            BY <3>2, <3>3
    <2>3. mined["evm"] <= mined'["evm"] /\ mined' \in [{"evm", "stellar"} -> Nonces]
        BY <1>1, <1>3
    <2>4. tx' \in [Sends -> Tx]
        BY <1>11 DEF Goes
    <2>5. QED
        BY <1>13, <1>17, <2>1, <2>2, <2>3, <2>4, CoverStep
<1>20. LocalSays'
    <2>1. ASSUME NEW q \in Relays, NEW u \in Sends, tx'[u].at = "new" PROVE localNonce'[q] < u
        <3>1. u # t /\ tx[u].at = "new"
            BY <1>9, <1>11, <2>1
        <3>2. localNonce[q] < u
            BY <3>1 DEF YInv, LocalSays
        <3>3. t < u
            <4>1. u \in Nat /\ u >= 1
                BY SendsAre
            <4>2. ~(u < t)
                BY <1>1, <1>5, <3>1, <4>1
            <4>3. QED
                BY <1>5, <3>1, <4>1, <4>2
        <3>4. CASE q = p
            <4>1. localNonce'[q] = n + 1 /\ u \in Nat
                BY <1>3, <1>13, <3>4, SendsAre
            <4>2. QED
                BY <1>5, <1>7, <3>3, <4>1
        <3>5. CASE q # p
            BY <1>3, <1>13, <3>2, <3>5
        <3>6. QED
            BY <3>4, <3>5
    <2>2. ASSUME NEW q \in Relays, NEW u \in taken'[q]
          PROVE  tx'[u].at # "new" /\ tx'[u].nonce < localNonce'[q]
        <3>1. CASE u = t
            <4>1. t \notin taken[q] => q = p
                BY <1>1, <1>3, <3>1
            <4>2. t \notin taken[q]
                BY <1>1 DEF YInv, LocalSays
            <4>3. localNonce'[q] = n + 1
                BY <1>3, <1>13, <4>1, <4>2
            <4>4. QED
                BY <1>9, <1>11, <3>1, <4>3
        <3>2. CASE u # t
            <4>1. u \in taken[q] /\ u \in Sends
                BY <1>1, <1>3, <3>2
            <4>2. tx[u].at # "new" /\ tx[u].nonce < localNonce[q] /\ tx'[u] = tx[u]
                BY <1>11, <3>2, <4>1 DEF YInv, LocalSays
            <4>3. q # p => localNonce'[q] = localNonce[q]
                BY <1>3, <1>13
            <4>4. q = p => tx[u].nonce < n + 1
                <5>1. tx[u].nonce \in Nat
                    BY <4>1, SendsAre DEF YInv, RelayTypeOK, Tx, Nonces
                <5>2. QED
                    BY <1>4, <1>7, <4>2, <5>1
            <4>5. QED
                BY <1>3, <1>13, <4>2, <4>3, <4>4
        <3>3. QED
            BY <3>1, <3>2
    <2>3. QED
        BY <2>1, <2>2 DEF LocalSays
<1>21. NoncesAreFresh'
    <2>1. ASSUME NEW q \in Relays, NEW u \in taken'[q], NEW v \in taken'[q], u # v
          PROVE  tx'[u].nonce # tx'[v].nonce
        <3>1. ASSUME NEW w \in taken[q] PROVE w # t /\ tx'[w].nonce = tx[w].nonce
            BY <1>1, <1>3, <1>11 DEF YInv, LocalSays
        <3>2. u \in taken[q] \/ (u = t /\ q = p)
            BY <1>1, <1>3
        <3>3. v \in taken[q] \/ (v = t /\ q = p)
            BY <1>1, <1>3
        <3>4. ASSUME NEW w \in taken[p] PROVE tx[w].nonce # n
            <4>1. tx[w].nonce < l /\ tx[w].nonce \in Nat
                BY <1>3, <1>4, SendsAre DEF YInv, LocalSays, RelayTypeOK, Tx, Nonces
            <4>2. QED
                BY <1>7, <4>1
        <3>5. tx'[t].nonce = n
            BY <1>9, <1>11
        <3>6. QED
            BY <2>1, <3>1, <3>2, <3>3, <3>4, <3>5 DEF YInv, NoncesAreFresh
    <2>2. QED
        BY <2>1 DEF NoncesAreFresh
<1>22. QED
    BY <1>1, <1>11, <1>12, <1>14, <1>19, <1>20, <1>21, OrderStep, CountStep DEF YInv, Goes

\* A transaction is executed in the order of the nonces, once; the counts
\* grow with it.
LEMMA MineTxKeeps ==
    ASSUME YInv, NEW t \in Sends, MineTx(t)
    PROVE  YInv'
<1>1. PICK x \in Tx : x = tx[t]
    BY TxIs
<1>2. x.fate = "pool" /\ TxSays(x) /\ x.nonce \in Nat
    BY <1>1, TxIs, SendsAre DEF MineTx, InPool, Nonces
<1>3. PICK f \in {"ok", "bad"} : tx' = [tx EXCEPT ![t].fate = f]
    BY DEF MineTx
<1>4. PICK s \in Tx :
        /\ tx' = [tx EXCEPT ![t] = s] /\ s.fate = f
        /\ s.at = x.at /\ s.row = x.row /\ s.chain = x.chain
        /\ s.nonce = x.nonce /\ s.cut = x.cut
    <2>1. f \in {"ok", "bad", "gone"}
        OBVIOUS
    <2>2. PICK s \in Tx :
             /\ [tx EXCEPT ![t].fate = f] = [tx EXCEPT ![t] = s] /\ s.fate = f
             /\ s.at = tx[t].at /\ s.row = tx[t].row /\ s.chain = tx[t].chain
             /\ s.nonce = tx[t].nonce /\ s.cut = tx[t].cut
        BY <2>1, FateIs
    <2>3. QED
        BY <1>1, <1>3, <2>2
<1>5. x.at \notin {"new", "taken"}
    BY <1>2 DEF TxSays
<1>6. TxSays(s)
    BY <1>2, <1>4, <1>5 DEF TxSays, TookEvm
<1>7. Goes(tx, tx') /\ tx'[t] = s /\ \A u \in Sends : u # t => tx'[u] = tx[u]
    BY <1>1, <1>4, <1>5, <1>6, OneTxGoes
<1>8. UNCHANGED <<localNonce, taken, lostNonces, relayDeaths>>
    BY DEF MineTx
<1>9. /\ mined \in [{"evm", "stellar"} -> Nonces] /\ mined["evm"] \in Nat /\ mined["stellar"] \in Nat
      /\ localNonce \in [Relays -> Nat]
    BY SendsAre DEF YInv, RelayTypeOK, Nonces
<1>10. MinedOf(tx) \in SUBSET Sends /\ StellarOf(tx) \in SUBSET Sends
       /\ MinedOf(tx') \in SUBSET Sends /\ StellarOf(tx') \in SUBSET Sends
    BY DEF MinedOf, StellarOf
<1>11. t \notin MinedOf(tx) /\ t \notin StellarOf(tx)
    BY <1>1, <1>2 DEF MinedOf, StellarOf, MinedEvm, MinedStellar
<1>12. /\ \A S \in SUBSET Sends : IsFiniteSet(S) /\ Cardinality(S) \in Nat /\ Cardinality(S) <= MaxSends
       /\ MaxSends \in Nat
    BY SendsAre
<1>13. CASE x.chain \in OnEvm
    <2>1. x.nonce = mined["evm"] /\ mined' = [mined EXCEPT !["evm"] = @ + 1]
        BY <1>1, <1>9, <1>13 DEF MineTx
    <2>2. MinedOf(tx') = MinedOf(tx) \union {t}
        BY <1>3, <1>4, <1>7, <1>13 DEF MinedOf, MinedEvm
    <2>3. StellarOf(tx') = StellarOf(tx)
        BY <1>4, <1>7, <1>11, <1>13 DEF StellarOf, MinedStellar, OnEvm
    <2>4. Cardinality(MinedOf(tx')) = Cardinality(MinedOf(tx)) + 1
        BY <1>10, <1>11, <1>12, <2>2, FS_AddElement
    <2>5. mined'["evm"] = mined["evm"] + 1 /\ mined'["stellar"] = mined["stellar"]
        BY <1>9, <2>1
    <2>6. CountsSay'
        BY <2>3, <2>4, <2>5 DEF YInv, CountsSay
    <2>7. mined' \in [{"evm", "stellar"} -> Nonces]
        <3>1. mined'["evm"] \in Nonces
            BY <1>10, <1>12, <2>6 DEF CountsSay, Nonces
        <3>2. mined' \in [{"evm", "stellar"} -> Nat]
            BY <1>9, <1>12, <2>1 DEF Nonces
        <3>3. mined'["stellar"] \in Nonces
            BY <1>9, <2>5
        <3>4. QED
            BY <3>1, <3>2, <3>3
    <2>8. RelayTypeOK'
        BY <1>7, <1>8, <2>7 DEF YInv, RelayTypeOK, Goes
    <2>9. Holders(tx') = Holders(tx) \ {t}
        BY <1>3, <1>4, <1>5, <1>7 DEF Holders, PooledEvm, TookEvm
    <2>10. \A u \in Holders(tx') : u \in Holders(tx) /\ tx'[u].nonce = tx[u].nonce
        <3>1. ASSUME NEW u \in Holders(tx') PROVE u \in Holders(tx) /\ tx'[u].nonce = tx[u].nonce
            <4>1. u \in Holders(tx) /\ u # t
                BY <2>9
            <4>2. u \in Sends
                BY <4>1 DEF Holders
            <4>3. QED
                BY <1>7, <4>1, <4>2
        <3>2. QED
            BY <3>1
    <2>11. \A n \in Accounted(tx, lostNonces) : n \in Accounted(tx', lostNonces') \/ n < mined'["evm"]
        <3>1. ASSUME NEW u \in Holders(tx)
              PROVE  tx[u].nonce \in Accounted(tx', lostNonces') \/ tx[u].nonce < mined'["evm"]
            <4>1. CASE u = t
                <5>1. tx[u].nonce = mined["evm"] /\ mined["evm"] < mined'["evm"]
                    BY <1>1, <1>9, <2>1, <2>5, <4>1
                <5>2. QED
                    BY <5>1
            <4>2. CASE u # t
                <5>1. u \in Holders(tx') /\ tx'[u].nonce = tx[u].nonce
                    BY <2>9, <2>10, <4>2
                <5>2. QED
                    BY <5>1 DEF Accounted, NoncesOf
            <4>3. QED
                BY <4>1, <4>2
        <3>2. QED
            BY <1>8, <3>1 DEF Accounted, NoncesOf
    <2>12. /\ mined["evm"] <= mined'["evm"] /\ localNonce' \in [Relays -> Nat]
           /\ \A p \in Relays : localNonce'[p] <= localNonce[p]
        BY <1>8, <1>9, <2>5
    <2>13. CoverSays'
        BY <1>7, <2>7, <2>10, <2>11, <2>12, CoverStep DEF Goes
    <2>14. QED
        BY <1>7, <1>8, <2>6, <2>8, <2>13, OrderStep, LocalStep DEF YInv, Goes
<1>14. CASE x.chain = "stellar"
    <2>1. x.nonce = mined["stellar"] /\ mined' = [mined EXCEPT !["stellar"] = @ + 1]
        BY <1>1, <1>9, <1>14 DEF MineTx, OnEvm
    <2>2. StellarOf(tx') = StellarOf(tx) \union {t}
        BY <1>3, <1>4, <1>7, <1>14 DEF StellarOf, MinedStellar
    <2>3. MinedOf(tx') = MinedOf(tx)
        BY <1>4, <1>7, <1>11, <1>14 DEF MinedOf, MinedEvm, OnEvm
    <2>4. Cardinality(StellarOf(tx')) = Cardinality(StellarOf(tx)) + 1
        BY <1>10, <1>11, <1>12, <2>2, FS_AddElement
    <2>5. mined'["stellar"] = mined["stellar"] + 1 /\ mined'["evm"] = mined["evm"]
        BY <1>9, <2>1
    <2>6. CountsSay'
        BY <2>3, <2>4, <2>5 DEF YInv, CountsSay
    <2>7. mined' \in [{"evm", "stellar"} -> Nonces]
        <3>1. mined'["stellar"] \in Nonces
            BY <1>10, <1>12, <2>6 DEF CountsSay, Nonces
        <3>2. mined' \in [{"evm", "stellar"} -> Nat]
            BY <1>9, <1>12, <2>1 DEF Nonces
        <3>3. mined'["evm"] \in Nonces
            BY <1>9, <2>5
        <3>4. QED
            BY <3>1, <3>2, <3>3
    <2>8. RelayTypeOK'
        BY <1>7, <1>8, <2>7 DEF YInv, RelayTypeOK, Goes
    <2>9. Holders(tx') = Holders(tx)
        BY <1>1, <1>4, <1>5, <1>7, <1>14 DEF Holders, PooledEvm, TookEvm, OnEvm
    <2>10. \A u \in Holders(tx') : u \in Holders(tx) /\ tx'[u].nonce = tx[u].nonce
        BY <1>1, <1>4, <1>7, <2>9 DEF Holders
    <2>11. \A n \in Accounted(tx, lostNonces) : n \in Accounted(tx', lostNonces') \/ n < mined'["evm"]
        BY <1>8, <2>9, <2>10 DEF Accounted, NoncesOf
    <2>12. /\ mined["evm"] <= mined'["evm"] /\ localNonce' \in [Relays -> Nat]
           /\ \A p \in Relays : localNonce'[p] <= localNonce[p]
        BY <1>8, <1>9, <2>5
    <2>13. CoverSays'
        BY <1>7, <2>7, <2>10, <2>11, <2>12, CoverStep DEF Goes
    <2>14. QED
        BY <1>7, <1>8, <2>6, <2>8, <2>13, OrderStep, LocalStep DEF YInv, Goes
<1>15. CASE x.chain \notin OnEvm /\ x.chain # "stellar"
    <2>1. UNCHANGED mined
        BY <1>1, <1>9, <1>15 DEF MineTx, OnEvm
    <2>2. /\ PooledEvm(s) <=> PooledEvm(x)
          /\ TookEvm(s) <=> TookEvm(x)
          /\ MinedEvm(s) <=> MinedEvm(x)
          /\ MinedStellar(s) <=> MinedStellar(x)
        BY <1>4, <1>15 DEF TookEvm, MinedEvm, MinedStellar, PooledEvm, OnEvm
    <2>3. QED
        BY <1>1, <1>4, <1>5, <1>6, <1>8, <2>1, <2>2, QuietStep
<1>16. QED
    BY <1>13, <1>14, <1>15

\* A process that dies forgets what it remembered; what it took and did not
\* send is lost.
LEMMA CrashRelayKeeps ==
    ASSUME YInv, NEW p \in Relays, CrashRelay(p)
    PROVE  YInv'
<1>1. PICK D : D = {t \in Sends : tx[t].by = p /\ tx[t].at \in {"taken", "sent"}}
    OBVIOUS
<1>2. PICK L : L = {tx[t].nonce : t \in {u \in D : tx[u].chain = "evm" /\ tx[u].at = "taken"}}
    OBVIOUS
<1>3. /\ relayDeaths < MaxCrashed /\ relayDeaths' = relayDeaths + 1
      /\ tx' = [t \in Sends |-> IF t \notin D THEN tx[t]
                 ELSE [tx[t] EXCEPT !.at = "dead", !.by = "nobody", !.row = "none", !.cut = TRUE]]
      /\ lostNonces' = lostNonces \union L
      /\ localNonce' = [localNonce EXCEPT ![p] = 0] /\ taken' = [taken EXCEPT ![p] = {}]
      /\ mined' = mined
    BY <1>1, <1>2 DEF CrashRelay
<1>4. tx \in [Sends -> Tx] /\ (\A u \in Sends : TxSays(tx[u])) /\ RelayTypeOK
    BY DEF YInv, RelayTypeOK
<1>5. ASSUME NEW u \in D
      PROVE  /\ tx'[u] \in Tx /\ TxSays(tx'[u]) /\ tx'[u].at = "dead" /\ tx[u].at # "new"
             /\ tx'[u].nonce = tx[u].nonce /\ tx'[u].fate = tx[u].fate
             /\ tx'[u].chain = tx[u].chain /\ u \in Sends
    <2>1. u \in Sends /\ tx[u].at \in {"taken", "sent"}
        BY <1>1
    <2>2. PICK x \in Tx : x = tx[u]
        BY <1>4, <2>1
    <2>3. x.at \in {"taken", "sent"} /\ TxSays(x)
        BY <1>4, <2>1, <2>2
    <2>4. PICK y : y = [[[[x EXCEPT !.at = "dead"] EXCEPT !.by = "nobody"] EXCEPT !.row = "none"]
                         EXCEPT !.cut = TRUE]
        OBVIOUS
    <2>5. /\ y \in Tx /\ y.fate = x.fate /\ y.at = "dead" /\ y.chain = x.chain /\ y.row = "none"
          /\ y.nonce = x.nonce /\ y.cut = TRUE
        BY <2>4 DEF Tx
    <2>6. TxSays(y)
        BY <2>3, <2>5 DEF TxSays, TookEvm
    <2>7. tx'[u] = y
        BY <1>3, <2>1, <2>2, <2>4
    <2>8. QED
        BY <2>1, <2>2, <2>3, <2>5, <2>6, <2>7
<1>6. \A u \in Sends \ D : tx'[u] = tx[u]
    BY <1>3
<1>7. Goes(tx, tx')
    <2>1. tx' \in [Sends -> Tx]
        BY <1>3, <1>4, <1>5
    <2>2. \A u \in Sends : TxSays(tx'[u])
        BY <1>4, <1>5, <1>6
    <2>3. \A u \in Sends : tx[u].at # "new" => tx'[u].at # "new" /\ tx'[u].nonce = tx[u].nonce
        BY <1>5, <1>6
    <2>4. \A u \in Sends : tx[u].at = "new" => tx'[u].at = "new"
        BY <1>5, <1>6
    <2>5. QED
        BY <2>1, <2>2, <2>3, <2>4 DEF Goes
<1>8. SameMined(tx, tx')
    <2>1. ASSUME NEW u \in Sends
          PROVE  (MinedEvm(tx'[u]) <=> MinedEvm(tx[u])) /\ (MinedStellar(tx'[u]) <=> MinedStellar(tx[u]))
        BY <1>5, <1>6 DEF MinedEvm, MinedStellar
    <2>2. QED
        BY <2>1 DEF SameMined
<1>9. L \subseteq Nat /\ lostNonces' \subseteq Nat
    <2>1. \A u \in D : tx[u].nonce \in Nat
        BY <1>4, <1>5, SendsAre DEF Tx, Nonces
    <2>2. QED
        BY <1>2, <1>3, <1>4, <2>1 DEF RelayTypeOK
<1>10. /\ localNonce' \in [Relays -> Nat] /\ localNonce'[p] = 0 /\ taken'[p] = {}
       /\ \A q \in Relays : q # p => localNonce'[q] = localNonce[q] /\ taken'[q] = taken[q]
       /\ taken' \in [Relays -> SUBSET Sends]
    BY <1>3, <1>4 DEF RelayTypeOK
<1>11. relayDeaths' \in 0..MaxCrashed
    <2>1. relayDeaths < MaxCrashed /\ relayDeaths' = relayDeaths + 1
        BY <1>3
    <2>2. relayDeaths \in 0..MaxCrashed /\ MaxCrashed \in Nat
        BY <1>4, SendsAre DEF RelayTypeOK
    <2>3. QED
        BY <2>1, <2>2
<1>12. RelayTypeOK'
    BY <1>3, <1>4, <1>7, <1>9, <1>10, <1>11 DEF RelayTypeOK, Goes
<1>13. \A u \in Holders(tx') : u \in Holders(tx) /\ tx'[u].nonce = tx[u].nonce
    <2>1. ASSUME NEW u \in Holders(tx') PROVE u \in Holders(tx) /\ tx'[u].nonce = tx[u].nonce
        <3>1. CASE u \in D
            <4>1. PooledEvm(tx'[u])
                BY <1>5, <3>1 DEF Holders, TookEvm
            <4>2. QED
                BY <1>5, <3>1, <4>1 DEF Holders, PooledEvm
        <3>2. CASE u \notin D
            BY <1>6, <3>2 DEF Holders
        <3>3. QED
            BY <3>1, <3>2
    <2>2. QED
        BY <2>1
<1>14. Accounted(tx, lostNonces) \subseteq Accounted(tx', lostNonces')
    <2>1. ASSUME NEW u \in Holders(tx) PROVE tx[u].nonce \in Accounted(tx', lostNonces')
        <3>1. CASE u \in D /\ TookEvm(tx[u])
            BY <1>2, <1>3, <3>1 DEF Accounted, TookEvm
        <3>2. CASE u \in D /\ ~TookEvm(tx[u])
            <4>1. PooledEvm(tx'[u])
                BY <1>5, <3>2 DEF Holders, PooledEvm
            <4>2. u \in Holders(tx') /\ tx'[u].nonce = tx[u].nonce
                BY <1>5, <3>2, <4>1 DEF Holders
            <4>3. QED
                BY <4>2 DEF Accounted, NoncesOf
        <3>3. CASE u \notin D
            <4>1. u \in Holders(tx') /\ tx'[u].nonce = tx[u].nonce
                BY <1>6, <3>3 DEF Holders
            <4>2. QED
                BY <4>1 DEF Accounted, NoncesOf
        <3>4. QED
            BY <3>1, <3>2, <3>3
    <2>2. QED
        BY <1>3, <2>1 DEF Accounted, NoncesOf
<1>15. CoverSays'
    <2>1. /\ mined["evm"] <= mined'["evm"] /\ mined' \in [{"evm", "stellar"} -> Nonces]
        <3>1. mined' = mined
            BY <1>3
        <3>2. mined \in [{"evm", "stellar"} -> Nonces] /\ \A n \in Nonces : n <= n
            BY <1>4, SendsAre DEF RelayTypeOK, Nonces
        <3>3. mined["evm"] \in Nonces
            BY <3>2
        <3>4. QED
            BY <3>1, <3>2, <3>3
    <2>2. \A q \in Relays : localNonce'[q] <= localNonce[q]
        BY <1>4, <1>10 DEF RelayTypeOK
    <2>3. QED
        BY <1>7, <1>10, <1>13, <1>14, <2>1, <2>2, CoverStep DEF Goes
<1>16. \A q \in Relays : taken'[q] \subseteq Sends /\ taken'[q] \subseteq taken[q]
    BY <1>4, <1>10 DEF RelayTypeOK
<1>17. LocalSays'
    <2>1. ASSUME NEW q \in Relays, NEW u \in Sends, tx'[u].at = "new" PROVE localNonce'[q] < u
        <3>1. tx[u].at = "new" /\ u >= 1 /\ u \in Nat
            BY <1>5, <1>6, <2>1, SendsAre
        <3>2. localNonce[q] < u
            BY <3>1 DEF YInv, LocalSays
        <3>3. QED
            BY <1>10, <3>1, <3>2
    <2>2. ASSUME NEW q \in Relays, NEW u \in taken'[q]
          PROVE  tx'[u].at # "new" /\ tx'[u].nonce < localNonce'[q]
        <3>1. q # p /\ u \in taken[q] /\ u \in Sends
            BY <1>10, <1>16
        <3>2. tx[u].at # "new" /\ tx[u].nonce < localNonce[q]
            BY <3>1 DEF YInv, LocalSays
        <3>3. tx'[u].at # "new" /\ tx'[u].nonce = tx[u].nonce
            BY <1>7, <3>1, <3>2 DEF Goes
        <3>4. QED
            BY <1>10, <3>1, <3>2, <3>3
    <2>3. QED
        BY <2>1, <2>2 DEF LocalSays
<1>18. NoncesAreFresh'
    <2>1. ASSUME NEW q \in Relays, NEW u \in taken'[q] PROVE u \in taken[q] /\ tx'[u].nonce = tx[u].nonce
        <3>1. u \in taken[q] /\ u \in Sends
            BY <1>16
        <3>2. tx[u].at # "new"
            BY <3>1 DEF YInv, LocalSays
        <3>3. QED
            BY <1>7, <3>1, <3>2 DEF Goes
    <2>2. QED
        BY <2>1 DEF YInv, NoncesAreFresh
<1>19. QED
    BY <1>3, <1>7, <1>8, <1>12, <1>15, <1>17, <1>18, OrderStep, CountStep DEF YInv, Goes

\* The invariant holds before anything is sent.
LEMMA RelaysInitially == RelayInit => YInv
<1> SUFFICES ASSUME RelayInit PROVE YInv
    OBVIOUS
<1>1. \A t \in Sends : /\ tx[t] = NewTx /\ tx[t].at = "new" /\ tx[t].fate = "none"
                       /\ tx[t].row = "none" /\ tx[t].chain = "none"
    BY DEF RelayInit, NewTx
<1>2. NewTx \in Tx /\ 0 \in Nonces
    BY SendsAre DEF NewTx, Tx, Nonces
<1>3. RelayTypeOK
    BY <1>2, SendsAre DEF RelayInit, RelayTypeOK
<1>4. (\A t \in Sends : TxSays(tx[t])) /\ InOrder
    BY <1>1 DEF TxSays, TookEvm, InOrder
<1>5. Holders(tx) = {} /\ MinedOf(tx) = {} /\ StellarOf(tx) = {}
    BY <1>1 DEF Holders, MinedOf, StellarOf, PooledEvm, TookEvm, MinedEvm, MinedStellar
<1>6. CountsSay
    BY <1>5, FS_EmptySet DEF RelayInit, CountsSay
<1>7. LocalSays /\ NoncesAreFresh
    BY SendsAre DEF RelayInit, LocalSays, NoncesAreFresh
<1>8. CoverSays
    <2>1. \A p \in Relays : localNonce[p] = 0 /\ mined["evm"] = 0
        BY DEF RelayInit
    <2>2. 0..(0 - 1) = {}
        OBVIOUS
    <2>3. \A p \in Relays : mined["evm"]..(localNonce[p] - 1) \subseteq Accounted(tx, lostNonces)
        BY <2>1, <2>2
    <2>4. QED
        BY <1>5, <2>3 DEF CoverSays
<1>9. QED
    BY <1>3, <1>4, <1>6, <1>7, <1>8 DEF YInv

\* Every step of a relayer, a node or a chain keeps the invariant.
LEMMA RelayStepKeeps == YInv /\ [RelayNext]_relayVars => YInv'
<1> SUFFICES ASSUME YInv, [RelayNext]_relayVars PROVE YInv'
    OBVIOUS
<1>1. CASE UNCHANGED relayVars
    <2>1. UNCHANGED <<tx, mined, localNonce, taken, lostNonces, relayDeaths>>
        BY <1>1 DEF relayVars
    <2>2. RelayTypeOK' /\ InOrder' /\ CountsSay' /\ LocalSays' /\ CoverSays' /\ NoncesAreFresh'
        BY <2>1 DEF YInv, RelayTypeOK, InOrder, CountsSay, LocalSays, CoverSays, NoncesAreFresh
    <2>3. (\A t \in Sends : TxSays(tx[t]))'
        BY <2>1 DEF YInv
    <2>4. QED
        BY <2>2, <2>3 DEF YInv
<1>2. ASSUME NEW t \in Sends, NEW p \in Relays,
             \/ TakeNonce(t, p) \/ SendRefund(t, p)
             \/ BeginTron(t, p) \/ BeginSolana(t, p) \/ BeginStellar(t, p)
      PROVE  YInv'
    BY <1>2, TakeNonceKeeps, SendRefundKeeps, BeginsKeep
<1>3. ASSUME NEW t \in Sends,
             \/ FailEstimate(t) \/ SendEvm(t) \/ SubmitInThread(t) \/ Conclude(t) \/ StopWaiting(t)
             \/ MineTx(t) \/ DropTx(t)
      PROVE  YInv'
    BY <1>3, FailEstimateKeeps, SendEvmKeeps, SubmitInThreadKeeps, ConcludeKeeps, StopWaitingKeeps,
       MineTxKeeps, DropTxKeeps
<1>4. ASSUME NEW p \in Relays, CrashRelay(p) PROVE YInv'
    BY <1>4, CrashRelayKeeps
<1>5. QED
    BY <1>1, <1>2, <1>3, <1>4 DEF RelayNext

\* The invariant implies the types and RelayersHold.
LEMMA RelayInvariantHolds == YInv => RelayTypeOK /\ RelayersHold
<1> SUFFICES ASSUME YInv PROVE RelayTypeOK /\ RelayersHold
    OBVIOUS
<1>1. GapIsAccounted
    <2> SUFFICES ASSUME NEW t \in EvmPool, NEW n \in mined["evm"]..tx[t].nonce
                 PROVE  \/ n \in PoolNonces \union lostNonces
                        \/ \E u \in Sends : tx[u].chain = "evm" /\ tx[u].at = "taken" /\ tx[u].nonce = n
        BY DEF GapIsAccounted
    <2>1. t \in Holders(tx)
        BY DEF EvmPool, InPool, Holders, PooledEvm
    <2>2. n \in Accounted(tx, lostNonces)
        BY <2>1 DEF YInv, CoverSays
    <2>3. CASE n \in lostNonces
        BY <2>3
    <2>4. CASE n \in NoncesOf(tx, Holders(tx))
        BY <2>4 DEF NoncesOf, Holders, PooledEvm, TookEvm, PoolNonces, EvmPool, InPool
    <2>5. QED
        BY <2>2, <2>3, <2>4 DEF Accounted
<1>2. RelaysAreRecorded
    BY DEF YInv, TxSays, RelaysAreRecorded
<1>3. QED
    BY <1>1, <1>2 DEF YInv, RelayersHold

\* Whatever the relayers, the nodes and the chains do: the states are typed,
\* no process takes a nonce twice, a gap below a pending transaction is a
\* nonce somebody lost or holds, and a row says CONFIRMED or REVERTED of a
\* transaction as its chain decided (gasless_relayer.py, the relayers
\* of the other chains, refund_processor.py).
THEOREM RelayInvariant == RelayInit /\ [][RelayNext]_relayVars => [](RelayTypeOK /\ RelayersHold)
<1>1. YInv /\ [RelayNext]_relayVars => YInv'
    BY RelayStepKeeps
<1>2. QED
    BY <1>1, RelaysInitially, RelayInvariantHolds, PTL
=============================================================================
