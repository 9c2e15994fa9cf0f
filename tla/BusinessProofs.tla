-------------------------- MODULE BusinessProofs ---------------------------
(***************************************************************************)
(* Proofs about the merchant's side: Merchants, Team, PaymentLinks,        *)
(* Invoices, Withdrawals and TeamSessions, for any number of processes,    *)
(* and for their composition MCBusiness.                                   *)
(*                                                                         *)
(* Everywhere a process decides on what it read and commits later, over    *)
(* what others committed in between. The inductive invariants therefore    *)
(* speak of drafts: what was true of the rows of the process itself when   *)
(* it decided, and cannot have become false since, because no other        *)
(* process writes in its name.                                             *)
(***************************************************************************)
EXTENDS MCBusiness, Sums, SequenceTheorems, FiniteSetTheorems, TLAPS

(***************************************************************************)
(* Merchants.  An order writes columns it decided on earlier: it only sets *)
(* what is never unset, and completes the onboarding together with the     *)
(* wallets that equip it.                                                  *)
(***************************************************************************)
MerchantColumns == DOMAIN NoMerchant
Flags == {"exists", "active", "key", "google", "named", "completed"}

\* The columns a draft writes have their types.
MerchantTyped(set) ==
    /\ DOMAIN set \subseteq MerchantColumns
    /\ \A c \in Flags : c \in DOMAIN set => set[c] \in BOOLEAN
    /\ "step" \in DOMAIN set => set["step"] \in 0..3
    /\ "accepted" \in DOMAIN set => set["accepted"] \in SUBSET Chains
    /\ \A c \in {"secret", "previous"} : c \in DOMAIN set => set[c] \in Nat

HasRow == \E c \in Chains : Row(c)

\* A name and a key are never taken away; the account is completed by a draft
\* that was decided with a name, and that gives the key and a wallet unless
\* they are there.
SoundOrder(d) ==
    /\ DOMAIN d = {"set", "insert", "update", "on", "lists"}
    /\ MerchantTyped(d.set)
    /\ d.insert \subseteq Chains /\ d.update \subseteq Chains /\ d.on \in BOOLEAN
    /\ \A c \in {"named", "key", "completed"} : c \in DOMAIN d.set => d.set[c] = TRUE
    /\ "completed" \in DOMAIN d.set =>
         /\ merchant.named
         /\ "key" \in DOMAIN d.set \/ merchant.key
         /\ d.insert # {} \/ HasRow

MInv ==
    /\ MerchantTypeOK
    /\ DOMAIN worker = Workers
    /\ DOMAIN shelf = Workers
    /\ listed \in [Workers -> [Chains -> Nat]]
    /\ silent \in [Workers -> SUBSET Chains]
    /\ \A p \in Workers : SoundOrder(worker[p])
    /\ \A c \in Chains : wallet[c].active => Row(c)
    /\ \A p \in Workers, c \in Chains : listed[p][c] <= wallet[c].version
    /\ CompletedIsEquipped
    /\ OwnAnswersAreListed

\* Columns written over the merchant's row make a row.
LEMMA MerchantOverlay ==
    ASSUME NEW set, NEW m \in MerchantRow, MerchantTyped(set)
    PROVE  /\ Overlay(set, m) \in MerchantRow
           /\ \A c \in Flags : Overlay(set, m)[c] = IF c \in DOMAIN set THEN set[c] ELSE m[c]
<1> DEFINE o == Overlay(set, m)
<1>1. DOMAIN m = MerchantColumns
    BY DEF MerchantColumns, NoMerchant, MerchantRow
<1>2. o = [c \in MerchantColumns |-> IF c \in DOMAIN set THEN set[c] ELSE m[c]]
    BY <1>1 DEF Overlay, MerchantTyped
<1>3. MerchantColumns = {"exists", "active", "key", "google", "named", "step",
                         "completed", "accepted", "secret", "previous"}
    BY DEF MerchantColumns, NoMerchant
<1>4. \A c \in MerchantColumns : o[c] = IF c \in DOMAIN set THEN set[c] ELSE m[c]
    BY <1>2
<1>5. o = [c \in MerchantColumns |-> o[c]]
    BY <1>2
<1> HIDE DEF o
<1>6. /\ \A c \in Flags : m[c] \in BOOLEAN
      /\ m["step"] \in 0..3 /\ m["accepted"] \in SUBSET Chains
      /\ m["secret"] \in Nat /\ m["previous"] \in Nat
    BY DEF MerchantRow, Flags
<1>7. \A c \in Flags : o[c] = (IF c \in DOMAIN set THEN set[c] ELSE m[c]) /\ o[c] \in BOOLEAN
    BY <1>3, <1>4, <1>6 DEF MerchantTyped, Flags
<1>8. o["step"] \in 0..3 /\ o["accepted"] \in SUBSET Chains
      /\ o["secret"] \in Nat /\ o["previous"] \in Nat
    BY <1>3, <1>4, <1>6 DEF MerchantTyped
<1>9. /\ o["exists"] \in BOOLEAN /\ o["active"] \in BOOLEAN /\ o["key"] \in BOOLEAN
      /\ o["google"] \in BOOLEAN /\ o["named"] \in BOOLEAN /\ o["completed"] \in BOOLEAN
    BY <1>7 DEF Flags
<1>10. o \in MerchantRow
    BY <1>3, <1>5, <1>8, <1>9 DEF MerchantRow
<1>11. QED
    BY <1>7, <1>10 DEF o

\* A process that gets a sound order keeps the invariant.
LEMMA OrderKeeps ==
    ASSUME MInv, NEW p \in Workers, NEW draft, Order(p, draft),
           SoundOrder(draft)
    PROVE  MInv'
<1>1. PICK set : set = Differing(draft.set)
    OBVIOUS
<1>2. /\ DOMAIN set \subseteq DOMAIN draft.set
      /\ \A c \in DOMAIN set : set[c] = draft.set[c]
      /\ \A c \in DOMAIN draft.set : c \notin DOMAIN set => merchant[c] = draft.set[c]
    BY <1>1 DEF Differing
<1>3. PICK d : d = [draft EXCEPT !.set = set]
    OBVIOUS
<1>4. /\ worker' = [worker EXCEPT ![p] = d]
      /\ UNCHANGED <<merchant, wallet, shelf, listed, silent>>
      /\ orders' \in 0..MaxOrders
    <2>1. orders' \in 0..MaxOrders
        BY MerchantAssumption DEF Order, MInv, MerchantTypeOK
    <2>2. QED
        BY <1>1, <1>3, <2>1 DEF Order
<1>5. /\ DOMAIN d = {"set", "insert", "update", "on", "lists"}
      /\ d.set = set /\ d.insert = draft.insert /\ d.update = draft.update
      /\ d.on = draft.on /\ d.lists = draft.lists
    BY <1>3 DEF SoundOrder
<1>6. MerchantTyped(set)
    BY <1>2 DEF SoundOrder, MerchantTyped
<1>7. "key" \in DOMAIN draft.set /\ "key" \notin DOMAIN set => merchant.key
    BY <1>2 DEF SoundOrder
<1>8. SoundOrder(d)
    BY <1>2, <1>5, <1>6, <1>7 DEF SoundOrder
<1>9. /\ DOMAIN worker' = Workers /\ worker'[p] = d
      /\ \A w \in Workers \ {p} : worker'[w] = worker[w]
    BY <1>4 DEF MInv
<1>10. \A w \in Workers : SoundOrder(worker[w])'
    BY <1>4, <1>8, <1>9 DEF MInv, SoundOrder, MerchantTyped, HasRow, Row
<1>11. MerchantTypeOK'
    <2>1. \A w \in Workers : /\ worker'[w].insert \cup worker'[w].update \subseteq Chains
                             /\ DOMAIN worker'[w].set \subseteq DOMAIN NoMerchant
        BY <1>10 DEF SoundOrder, MerchantTyped, MerchantColumns
    <2>2. QED
        BY <1>4, <2>1 DEF MInv, MerchantTypeOK
<1>12. QED
    BY <1>4, <1>9, <1>10, <1>11 DEF MInv, CompletedIsEquipped, OwnAnswersAreListed, Row

\* Drafts that change columns only.
LEMMA AssignIsSound ==
    ASSUME NEW set, MerchantTyped(set),
           \A c \in {"named", "key", "completed"} : c \in DOMAIN set => set[c] = TRUE,
           "completed" \notin DOMAIN set
    PROVE  SoundOrder(Assign(set))
BY DEF SoundOrder, Assign, Ready

\* Registration assigns a sound order.
LEMMA RegisterKeeps ==
    ASSUME MInv, NEW p \in Workers, NEW google \in BOOLEAN,
           BeginRegister(p, google)
    PROVE  MInv'
<1>1. PICK set : set = [exists |-> TRUE, active |-> TRUE, key |-> TRUE,
                        google |-> google, secret |-> 1]
    OBVIOUS
<1>2. MerchantTyped(set)
    BY <1>1 DEF MerchantTyped, MerchantColumns, NoMerchant, Flags
<1>3. SoundOrder(Assign(set))
    <2>1. \A c \in {"named", "key", "completed"} : c \in DOMAIN set => set[c] = TRUE
        BY <1>1
    <2>2. "completed" \notin DOMAIN set
        BY <1>1
    <2>3. QED
        BY <1>2, <2>1, <2>2, AssignIsSound
<1>4. PICK d : d = Assign(set)
    OBVIOUS
<1>5. QED
    BY <1>1, <1>3, <1>4, OrderKeeps DEF BeginRegister

\* So do the requests that set a single column.
LEMMA ColumnsKeep ==
    ASSUME MInv, NEW p \in Workers,
           BeginGoogle(p) \/ BeginDetails(p) \/ BeginRotate(p) \/ BeginErase(p)
    PROVE  MInv'
<1>1. merchant \in MerchantRow /\ orders \in Nat
    BY DEF MInv, MerchantTypeOK
<1>2. AtLeast(1) \in 0..3 /\ merchant.secret \in Nat /\ orders + 2 \in Nat
    BY <1>1 DEF AtLeast, MerchantRow
<1>3. PICK step : step = AtLeast(1)
    OBVIOUS
<1>4. PICK set : /\ \/ set = [google |-> TRUE, key |-> TRUE]
                    \/ set = [named |-> TRUE, step |-> step]
                    \/ set = [previous |-> merchant.secret, secret |-> orders + 2]
                    \/ set = [active |-> FALSE, google |-> FALSE]
                 /\ Order(p, Assign(set))
    BY <1>3 DEF BeginGoogle, BeginDetails, BeginRotate, BeginErase
<1>5. MerchantTyped(set)
    <2>1. CASE set = [google |-> TRUE, key |-> TRUE]
        BY <2>1 DEF MerchantTyped, MerchantColumns, NoMerchant, Flags
    <2>2. CASE set = [named |-> TRUE, step |-> step]
        BY <1>2, <1>3, <2>2 DEF MerchantTyped, MerchantColumns, NoMerchant, Flags
    <2>3. CASE set = [previous |-> merchant.secret, secret |-> orders + 2]
        <3>1. DOMAIN set = {"previous", "secret"}
            BY <2>3
        <3>2. set["previous"] \in Nat /\ set["secret"] \in Nat
            BY <1>2, <2>3
        <3>3. QED
            BY <3>1, <3>2 DEF MerchantTyped, MerchantColumns, NoMerchant, Flags
    <2>4. CASE set = [active |-> FALSE, google |-> FALSE]
        BY <2>4 DEF MerchantTyped, MerchantColumns, NoMerchant, Flags
    <2>5. QED
        BY <1>4, <2>1, <2>2, <2>3, <2>4
<1>6. SoundOrder(Assign(set))
    <2>1. \A c \in {"named", "key", "completed"} : c \in DOMAIN set => set[c] = TRUE
        BY <1>4
    <2>2. "completed" \notin DOMAIN set
        BY <1>4
    <2>3. QED
        BY <1>5, <2>1, <2>2, AssignIsSound
<1>7. PICK d : d = Assign(set)
    OBVIOUS
<1>8. QED
    BY <1>4, <1>6, <1>7, OrderKeeps

\* The setup of wallets adds rows or updates those that are there.
LEMMA SetupKeeps ==
    ASSUME MInv, NEW p \in Workers,
           NEW accepted \in SUBSET Chains, NEW generated \in SUBSET Chains,
           BeginSetup(p, accepted, generated)
    PROVE  MInv'
<1>1. merchant \in MerchantRow
    BY DEF MInv, MerchantTypeOK
<1>2. PICK step \in 0..3 : step = AtLeast(2)
    BY <1>1 DEF AtLeast, MerchantRow
<1>3. PICK new \in SUBSET Chains : new = Missing(generated)
    BY DEF Missing
<1>4. PICK set : set = [accepted |-> accepted, step |-> step]
    OBVIOUS
<1>5. PICK d : d = [Assign(set) EXCEPT !.insert = new]
    OBVIOUS
<1>6. MerchantTyped(set)
    BY <1>4 DEF MerchantTyped, MerchantColumns, NoMerchant, Flags
<1>7. SoundOrder(d)
    BY <1>4, <1>5, <1>6 DEF SoundOrder, Assign, Ready
<1>8. QED
    BY <1>2, <1>3, <1>4, <1>5, <1>7, OrderKeeps DEF BeginSetup

\* Onboarding is completed together with a wallet for what was chosen.
LEMMA CompleteKeeps ==
    ASSUME MInv, NEW p \in Workers,
           NEW accepted \in SUBSET Chains, NEW generated \in SUBSET Chains,
           BeginComplete(p, accepted, generated)
    PROVE  MInv'
<1>1. PICK chosen \in SUBSET Chains : chosen = OrDefault(accepted) /\ chosen # {}
    BY MerchantAssumption DEF OrDefault
<1>2. PICK new \in SUBSET Chains : new = ToGenerate(accepted, generated)
    BY <1>1 DEF ToGenerate, Missing
<1>3. new # {} \/ HasRow
    <2>1. CASE Missing(generated) # {}
        BY <1>2, <2>1 DEF ToGenerate
    <2>2. CASE \E c \in Chains : wallet[c].active
        BY <2>2 DEF MInv, HasRow
    <2>3. CASE Missing(generated) = {} /\ ~\E c \in Chains : wallet[c].active
        <3>1. new = Missing(chosen)
            BY <1>1, <1>2, <2>3 DEF ToGenerate
        <3>2. QED
            BY <1>1, <3>1 DEF Missing, HasRow
    <2>4. QED
        BY <2>1, <2>2, <2>3
<1>4. PICK set : set = [accepted |-> chosen, key |-> TRUE, completed |-> TRUE, step |-> 3]
    OBVIOUS
<1>5. PICK d : d = [Assign(set) EXCEPT !.insert = new]
    OBVIOUS
<1>6. MerchantTyped(set)
    BY <1>4 DEF MerchantTyped, MerchantColumns, NoMerchant, Flags
<1>7. SoundOrder(d)
    BY <1>3, <1>4, <1>5, <1>6 DEF SoundOrder, Assign, Ready, BeginComplete
<1>8. Order(p, d)
    BY <1>1, <1>2, <1>4, <1>5 DEF BeginComplete
<1>9. QED
    BY <1>7, <1>8, OrderKeeps

\* Wallets that are added or put away.
LEMMA WalletsKeep ==
    ASSUME MInv, NEW p \in Workers, NEW c \in Chains,
           BeginAddWallet(p, c) \/ BeginDropWallet(p, c)
    PROVE  MInv'
<1>1. PICK d : /\ \/ d = [Ready EXCEPT !.update = {c}, !.lists = TRUE]
                  \/ d = [Ready EXCEPT !.insert = {c}, !.lists = TRUE]
                  \/ d = [Ready EXCEPT !.update = {c}, !.on = FALSE]
               /\ Order(p, d)
    BY DEF BeginAddWallet, BeginDropWallet
<1>2. SoundOrder(d)
    <2>1. DOMAIN NoneSet = {}
        BY DEF NoneSet
    <2>2. MerchantTyped(NoneSet)
        BY <2>1 DEF MerchantTyped
    <2>3. /\ DOMAIN d = {"set", "insert", "update", "on", "lists"}
          /\ d.set = NoneSet /\ d.insert \subseteq Chains /\ d.update \subseteq Chains
          /\ d.on \in BOOLEAN
        BY <1>1 DEF Ready
    <2>4. QED
        BY <2>1, <2>2, <2>3 DEF SoundOrder
<1>3. QED
    BY <1>1, <1>2, OrderKeeps

\* A commit keeps the invariant, whatever others committed since it was
\* decided.
LEMMA CommitOrderKeeps ==
    ASSUME MInv, NEW p \in Workers, CommitOrder(p)
    PROVE  MInv'
<1>1. PICK d : d = worker[p]
    OBVIOUS
<1>2. /\ SoundOrder(d) /\ SoundOrder(Ready)
      /\ worker' = [worker EXCEPT ![p] = Ready] /\ UNCHANGED orders
      /\ DOMAIN worker = Workers
    <2>1. DOMAIN NoneSet = {}
        BY DEF NoneSet
    <2>2. MerchantTyped(NoneSet)
        BY <2>1 DEF MerchantTyped
    <2>3. SoundOrder(Ready)
        BY <2>1, <2>2 DEF SoundOrder, Ready
    <2>4. QED
        BY <1>1, <2>3 DEF CommitOrder, MInv
<1>3. \A w \in Workers : worker'[w] = worker[w] \/ worker'[w] = Ready
    BY <1>2
<1>4. CASE Clashes(d)
    <2>1. UNCHANGED <<merchant, wallet, shelf, listed, silent>>
        BY <1>1, <1>4 DEF CommitOrder
    <2>2. \A w \in Workers : SoundOrder(worker[w])'
        BY <1>2, <1>3, <2>1 DEF MInv, SoundOrder, MerchantTyped, HasRow, Row
    <2>3. MerchantTypeOK'
        <3>1. \A w \in Workers : /\ worker'[w].insert \cup worker'[w].update \subseteq Chains
                                 /\ DOMAIN worker'[w].set \subseteq DOMAIN NoMerchant
            BY <2>2 DEF SoundOrder, MerchantTyped, MerchantColumns
        <3>2. QED
            BY <1>2, <2>1, <3>1 DEF MInv, MerchantTypeOK
    <2>4. QED
        BY <1>2, <2>1, <2>2, <2>3 DEF MInv, CompletedIsEquipped, OwnAnswersAreListed, Row
<1>5. CASE ~Clashes(d)
    <2> DEFINE touched == d.insert \cup d.update
    <2>1. /\ merchant' = Overlay(d.set, merchant)
          /\ wallet' = [c \in Chains |->
               IF c \in touched
               THEN [version |-> wallet[c].version + 1, active |-> d.on] ELSE wallet[c]]
          /\ shelf' = Invalidated(p)
          /\ listed' = [listed EXCEPT ![p] = [c \in Chains |->
                IF c \in touched THEN wallet'[c].version ELSE @[c]]]
          /\ silent' = [silent EXCEPT ![p] = IF d.lists THEN {} ELSE @ \cup touched]
        BY <1>1, <1>5 DEF CommitOrder
    <2>2. merchant \in MerchantRow /\ wallet \in [Chains -> Wallet]
        BY DEF MInv, MerchantTypeOK
    <2>3. merchant' \in MerchantRow
        BY <1>2, <2>1, <2>2, MerchantOverlay DEF SoundOrder
    <2>4. \A c \in {"named", "key"} : merchant[c] => merchant'[c]
        <3>1. \A c \in {"named", "key"} :
                merchant'[c] = IF c \in DOMAIN d.set THEN d.set[c] ELSE merchant[c]
            BY <1>2, <2>1, <2>2, MerchantOverlay DEF SoundOrder, Flags
        <3>2. QED
            BY <1>2, <3>1 DEF SoundOrder
    <2>5. \A c \in Chains : wallet'[c] \in Wallet /\ wallet[c].version <= wallet'[c].version
        <3> SUFFICES ASSUME NEW c \in Chains
                     PROVE  wallet'[c] \in Wallet /\ wallet[c].version <= wallet'[c].version
            OBVIOUS
        <3>1. wallet[c] \in Wallet /\ wallet[c].version \in Nat /\ d.on \in BOOLEAN
            BY <1>2, <2>2 DEF Wallet, SoundOrder
        <3>2. CASE c \in touched
            <4>1. wallet'[c] = [version |-> wallet[c].version + 1, active |-> d.on]
                BY <2>1, <3>2
            <4>2. QED
                BY <3>1, <4>1 DEF Wallet
        <3>3. CASE c \notin touched
            BY <2>1, <3>1, <3>3
        <3>4. QED
            BY <3>2, <3>3
    <2>6. wallet' \in [Chains -> Wallet]
        BY <2>1, <2>5
    <2>7. \A c \in Chains : /\ Row(c) => Row(c)'
                            /\ c \in touched => Row(c)'
        <3> SUFFICES ASSUME NEW c \in Chains
                     PROVE  /\ Row(c) => Row(c)'
                            /\ c \in touched => Row(c)'
            OBVIOUS
        <3>1. /\ wallet[c].version \in Nat /\ wallet'[c].version \in Nat
              /\ wallet[c].version <= wallet'[c].version
            BY <2>2, <2>5 DEF Wallet
        <3>2. c \in touched => wallet'[c].version = wallet[c].version + 1
            BY <2>1
        <3>3. QED
            BY <3>1, <3>2 DEF Row
    <2>8. \A c \in Chains : wallet'[c].active => Row(c)'
        <3> SUFFICES ASSUME NEW c \in Chains, wallet'[c].active PROVE Row(c)'
            OBVIOUS
        <3>1. CASE c \in touched
            BY <2>7, <3>1
        <3>2. CASE c \notin touched
            <4>1. wallet[c].active
                BY <2>1, <3>2
            <4>2. QED
                BY <2>7, <4>1 DEF MInv
        <3>3. QED
            BY <3>1, <3>2
    <2>9. HasRow => HasRow'
        BY <2>7 DEF HasRow
    <2>10. d.insert # {} => HasRow'
        <3> SUFFICES ASSUME NEW c \in d.insert PROVE HasRow'
            OBVIOUS
        <3>1. c \in Chains
            BY <1>2 DEF SoundOrder
        <3>2. Row(c)'
            BY <2>7, <3>1
        <3>3. QED
            BY <3>1, <3>2 DEF HasRow
    <2>11. \A w \in Workers : SoundOrder(worker[w])'
        <3> SUFFICES ASSUME NEW w \in Workers PROVE SoundOrder(worker[w])'
            OBVIOUS
        <3>1. PICK e : e = worker'[w]
            OBVIOUS
        <3>2. SoundOrder(e)
            BY <1>2, <1>3, <3>1 DEF MInv
        <3>3. SoundOrder(e)'
            BY <2>4, <2>9, <3>2 DEF SoundOrder, MerchantTyped
        <3>4. QED
            BY <3>1, <3>3 DEF SoundOrder, MerchantTyped
    <2>12. MerchantTypeOK'
        <3>1. \A w \in Workers : shelf'[w] = NotCached \/ shelf'[w] = shelf[w]
            BY <2>1 DEF Invalidated, MInv
        <3>2. \A w \in Workers : shelf'[w] = NotCached \/ shelf'[w] \in [Chains -> Wallet]
            BY <3>1 DEF MInv, MerchantTypeOK
        <3>3. \A w \in Workers : /\ worker'[w].insert \cup worker'[w].update \subseteq Chains
                                 /\ DOMAIN worker'[w].set \subseteq DOMAIN NoMerchant
            BY <2>11 DEF SoundOrder, MerchantTyped, MerchantColumns
        <3>4. QED
            BY <1>2, <2>3, <2>6, <3>2, <3>3 DEF MInv, MerchantTypeOK
    <2>13. /\ listed' \in [Workers -> [Chains -> Nat]]
           /\ \A w \in Workers, c \in Chains : listed'[w][c] <= wallet'[c].version
           /\ \A w \in Workers \ {p} : listed'[w] = listed[w]
           /\ \A c \in Chains \ touched : listed'[p][c] = listed[p][c]
        <3>1. \A c \in Chains : /\ wallet[c].version \in Nat /\ wallet'[c].version \in Nat
                                /\ wallet[c].version <= wallet'[c].version
            BY <2>2, <2>5 DEF Wallet
        <3>2. \A w \in Workers, c \in Chains :
                listed[w][c] \in Nat /\ listed[w][c] <= wallet'[c].version
            BY <3>1 DEF MInv
        <3>3. PICK new : new = [c \in Chains |->
                   IF c \in touched THEN wallet'[c].version ELSE listed[p][c]]
            OBVIOUS
        <3>4. \A c \in Chains : new[c] \in Nat /\ new[c] <= wallet'[c].version
            BY <3>1, <3>2, <3>3
        <3>5. new \in [Chains -> Nat]
            BY <3>3, <3>4
        <3>6. listed' = [listed EXCEPT ![p] = new]
            BY <2>1, <3>3
        <3>7. \A c \in Chains \ touched : new[c] = listed[p][c]
            BY <3>3
        <3>8. QED
            BY <3>2, <3>4, <3>5, <3>6, <3>7 DEF MInv
    <2>14. DOMAIN shelf' = Workers
        BY <2>1 DEF Invalidated, MInv
    <2>15. CompletedIsEquipped'
        <3> SUFFICES ASSUME merchant'.completed
                     PROVE  merchant'.named /\ merchant'.key /\ HasRow'
            BY DEF CompletedIsEquipped, HasRow
        <3>1. \A c \in {"key", "completed"} :
                merchant'[c] = IF c \in DOMAIN d.set THEN d.set[c] ELSE merchant[c]
            BY <1>2, <2>1, <2>2, MerchantOverlay DEF SoundOrder, Flags
        <3>2. CASE "completed" \in DOMAIN d.set
            <4>1. /\ merchant.named
                  /\ "key" \in DOMAIN d.set \/ merchant.key
                  /\ d.insert # {} \/ HasRow
                BY <1>2, <3>2 DEF SoundOrder
            <4>2. merchant'.key
                <5>1. "key" \in DOMAIN d.set => d.set["key"] = TRUE
                    BY <1>2 DEF SoundOrder
                <5>2. QED
                    BY <3>1, <4>1, <5>1
            <4>3. QED
                BY <2>4, <2>9, <2>10, <4>1, <4>2
        <3>3. CASE "completed" \notin DOMAIN d.set
            <4>1. merchant.completed
                BY <3>1, <3>3
            <4>2. merchant.named /\ merchant.key /\ HasRow
                BY <4>1 DEF MInv, CompletedIsEquipped, HasRow
            <4>3. QED
                BY <2>4, <2>9, <4>2
        <3>4. QED
            BY <3>2, <3>3
    <2>16. /\ silent' \in [Workers -> SUBSET Chains]
           /\ \A w \in Workers \ {p} : silent'[w] = silent[w]
           /\ ~d.lists => silent'[p] = silent[p] \cup touched
        <3>1. touched \subseteq Chains
            BY <1>2 DEF SoundOrder
        <3>2. QED
            BY <2>1, <3>1 DEF MInv
    <2>17. OwnAnswersAreListed'
        <3> SUFFICES ASSUME NEW w \in Workers, shelf'[w] # NotCached,
                            NEW c \in Chains, c \notin silent'[w]
                     PROVE  shelf'[w][c].version >= listed'[w][c]
            BY DEF OwnAnswersAreListed
        <3>1. shelf'[w] = shelf[w] /\ (w = p => ~d.lists)
            BY <1>1, <2>1 DEF Invalidated, MInv
        <3>2. c \notin silent[w] /\ listed'[w][c] = listed[w][c]
            <4>1. CASE w = p
                BY <2>13, <2>16, <3>1, <4>1
            <4>2. CASE w # p
                BY <2>13, <2>16, <4>2
            <4>3. QED
                BY <4>1, <4>2
        <3>3. QED
            BY <3>1, <3>2 DEF MInv, OwnAnswersAreListed
    <2>18. DOMAIN worker' = Workers
        BY <1>2
    <2>19. QED
        BY <2>8, <2>11, <2>12, <2>13, <2>14, <2>15, <2>16, <2>17, <2>18 DEF MInv
<1>6. QED
    BY <1>4, <1>5

\* A list of wallets is read into the cache of a process, or expires there.
LEMMA ShelvesKeep ==
    ASSUME MInv, NEW p \in Workers, ListWallets(p) \/ Forget(p)
    PROVE  MInv'
<1>1. PICK list : shelf' = [shelf EXCEPT ![p] = list]
                  /\ (list = NotCached \/ list = wallet)
    BY DEF ListWallets, Forget
<1>2. /\ UNCHANGED <<merchant, wallet, worker, orders, listed>>
      /\ silent' \in [Workers -> SUBSET Chains]
      /\ \A w \in Workers \ {p} : silent'[w] = silent[w]
    BY DEF ListWallets, Forget, MInv
<1>3. /\ DOMAIN shelf' = Workers /\ shelf'[p] = list
      /\ \A w \in Workers \ {p} : shelf'[w] = shelf[w]
    BY <1>1 DEF MInv
<1>4. wallet \in [Chains -> Wallet]
    BY DEF MInv, MerchantTypeOK
<1>5. \A w \in Workers : shelf'[w] = NotCached \/ shelf'[w] \in [Chains -> Wallet]
    BY <1>1, <1>3, <1>4 DEF MInv, MerchantTypeOK
<1>6. MerchantTypeOK'
    BY <1>2, <1>5 DEF MInv, MerchantTypeOK
<1>7. OwnAnswersAreListed'
    <2> SUFFICES ASSUME NEW w \in Workers, shelf'[w] # NotCached,
                        NEW c \in Chains, c \notin silent'[w]
                 PROVE  shelf'[w][c].version >= listed[w][c]
        BY <1>2 DEF OwnAnswersAreListed
    <2>1. CASE w = p
        <3>1. shelf'[w] = wallet
            BY <1>1, <1>3, <2>1
        <3>2. wallet[c].version \in Nat /\ listed[w][c] \in Nat
              /\ listed[w][c] <= wallet[c].version
            BY <1>4 DEF Wallet, MInv
        <3>3. QED
            BY <3>1, <3>2
    <2>2. CASE w # p
        BY <1>2, <1>3, <2>2 DEF MInv, OwnAnswersAreListed
    <2>3. QED
        BY <2>1, <2>2
<1>8. \A w \in Workers : SoundOrder(worker[w])'
    BY <1>2 DEF MInv, SoundOrder, MerchantTyped, HasRow, Row
<1>9. QED
    BY <1>2, <1>3, <1>6, <1>7, <1>8 DEF MInv, CompletedIsEquipped, Row

\* A step of somebody else.
LEMMA MerchantStutters ==
    ASSUME MInv, UNCHANGED merchantVars
    PROVE  MInv'
BY DEF MInv, merchantVars, MerchantTypeOK, SoundOrder, MerchantTyped, HasRow, Row,
       CompletedIsEquipped, OwnAnswersAreListed

\* Every step of a process keeps the invariant.
LEMMA MerchantStepKeeps ==
    ASSUME MInv, NEW p \in Workers, WorkerStep(p)
    PROVE  MInv'
<1>1. ASSUME NEW S \in SUBSET Chains, NEW T \in {S, {}},
             BeginSetup(p, S, T) \/ BeginComplete(p, S, T)
      PROVE  MInv'
    <2>1. T \in SUBSET Chains
        OBVIOUS
    <2>2. QED
        BY <1>1, <2>1, SetupKeeps, CompleteKeeps
<1>2. ASSUME BeginComplete(p, merchant.accepted, {})
      PROVE  MInv'
    <2>1. PICK S \in SUBSET Chains : S = merchant.accepted
        BY DEF MInv, MerchantTypeOK, MerchantRow
    <2>2. PICK T \in SUBSET Chains : T = {}
        OBVIOUS
    <2>3. BeginComplete(p, S, T)
        BY <1>2, <2>1, <2>2
    <2>4. QED
        BY <2>3, CompleteKeeps
<1>3. QED
    BY <1>1, <1>2, RegisterKeeps, ColumnsKeep, WalletsKeep, CommitOrderKeeps, ShelvesKeep
    DEF WorkerStep

\* It holds before the merchant registers.
LEMMA MerchantInitially ==
    ASSUME MerchantInit
    PROVE  MInv
<1>1. DOMAIN NoneSet = {}
    BY DEF NoneSet
<1>2. MerchantTyped(NoneSet)
    BY <1>1 DEF MerchantTyped
<1>3. SoundOrder(Ready)
    BY <1>1, <1>2 DEF SoundOrder, Ready
<1>4. \A p \in Workers : worker[p] = Ready
    BY DEF MerchantInit
<1>5. \A p \in Workers : SoundOrder(worker[p])
    BY <1>3, <1>4
<1>6. MerchantTypeOK
    <2>1. merchant \in MerchantRow
        BY DEF MerchantInit, NoMerchant, MerchantRow
    <2>2. wallet \in [Chains -> Wallet]
        BY DEF MerchantInit, NoWallet, Wallet
    <2>3. orders \in 0..MaxOrders
        BY MerchantAssumption DEF MerchantInit
    <2>4. \A p \in Workers : shelf[p] = NotCached
        BY DEF MerchantInit
    <2>5. \A p \in Workers : /\ worker[p].insert \cup worker[p].update \subseteq Chains
                             /\ DOMAIN worker[p].set \subseteq DOMAIN NoMerchant
        BY <1>5 DEF SoundOrder, MerchantTyped, MerchantColumns
    <2>6. QED
        BY <2>1, <2>2, <2>3, <2>4, <2>5 DEF MerchantTypeOK
<1>7. CompletedIsEquipped /\ OwnAnswersAreListed
    BY DEF MerchantInit, CompletedIsEquipped, OwnAnswersAreListed, NoMerchant
<1>8. /\ DOMAIN worker = Workers /\ DOMAIN shelf = Workers
      /\ listed \in [Workers -> [Chains -> Nat]]
      /\ silent \in [Workers -> SUBSET Chains]
      /\ \A c \in Chains : ~wallet[c].active
      /\ \A p \in Workers, c \in Chains : listed[p][c] <= wallet[c].version
    BY DEF MerchantInit, NoWallet
<1>9. QED
    BY <1>5, <1>6, <1>7, <1>8 DEF MInv

\* The inductive invariant of the accounts is an invariant.
THEOREM MerchantInvariant == MerchantSpec => []MInv
<1>1. MerchantInit => MInv
    BY MerchantInitially
<1>2. MInv /\ [MerchantNext]_merchantVars => MInv'
    BY MerchantStepKeeps, MerchantStutters DEF MerchantNext
<1>3. QED
    BY <1>1, <1>2, PTL DEF MerchantSpec

\* A completed account has its name, its key and a wallet, and what a process
\* answered of its own wallet writes is in the list it shows, unless the write
\* was one that leaves the list cached, however requests overlap.
THEOREM AccountsHoldAlways == MerchantSpec => []AccountsHold
<1>1. MInv => AccountsHold
    BY DEF MInv, AccountsHold
<1>2. QED
    BY <1>1, MerchantInvariant, PTL

(***************************************************************************)
(* Team.  Whether an invitation is open is read before the commit that     *)
(* closes it, but a password once set stays, so a process finds its own    *)
(* acceptance.                                                             *)
(***************************************************************************)
MemberColumns == DOMAIN NoMember

\* A password is set and never taken away.
SoundChange(set) ==
    /\ DOMAIN set \subseteq MemberColumns
    /\ \A c \in {"exists", "active"} : c \in DOMAIN set => set[c] \in BOOLEAN
    /\ "role" \in DOMAIN set => set["role"] \in Roles
    /\ "invite" \in DOMAIN set => set["invite"] \in {"none", "sent", "expired"}
    /\ "password" \in DOMAIN set => set["password"] = TRUE

SoundDesk(d) ==
    /\ DOMAIN d = {"email", "set", "accept"}
    /\ d.email \subseteq Emails /\ d.accept \in BOOLEAN
    /\ SoundChange(d.set)

TInv ==
    /\ MemberTypeOK
    /\ DOMAIN desk = Managers
    /\ accepts \in [Managers -> [Emails -> Nat]]
    /\ \A p \in Managers : SoundDesk(desk[p])
    /\ \A p \in Managers, e \in Emails :
         /\ accepts[p][e] <= 1
         /\ accepts[p][e] > 0 => member[e].password
         /\ desk[p].accept /\ e \in desk[p].email =>
              accepts[p][e] = 0 /\ "password" \in DOMAIN desk[p].set

\* Columns written over a member's row make a row, and never take a password
\* away.
LEMMA MemberOverlay ==
    ASSUME NEW set, NEW m \in MemberRow, SoundChange(set)
    PROVE  /\ Overlay(set, m) \in MemberRow
           /\ m.password \/ "password" \in DOMAIN set => Overlay(set, m).password
<1> DEFINE o == Overlay(set, m)
<1>1. DOMAIN m = MemberColumns
    BY DEF MemberColumns, NoMember, MemberRow
<1>2. o = [c \in MemberColumns |-> IF c \in DOMAIN set THEN set[c] ELSE m[c]]
    BY <1>1 DEF Overlay, SoundChange
<1>3. MemberColumns = {"exists", "active", "role", "password", "invite"}
    BY DEF MemberColumns, NoMember
<1>4. \A c \in MemberColumns : o[c] = IF c \in DOMAIN set THEN set[c] ELSE m[c]
    BY <1>2
<1>5. o = [c \in MemberColumns |-> o[c]]
    BY <1>2
<1> HIDE DEF o
<1>6. /\ m["exists"] \in BOOLEAN /\ m["active"] \in BOOLEAN /\ m["role"] \in Roles
      /\ m["password"] \in BOOLEAN /\ m["invite"] \in {"none", "sent", "expired"}
    BY DEF MemberRow
<1>7. o["exists"] \in BOOLEAN /\ o["active"] \in BOOLEAN /\ o["role"] \in Roles
    BY <1>3, <1>4, <1>6 DEF SoundChange
<1>8. o["invite"] \in {"none", "sent", "expired"}
    BY <1>3, <1>4, <1>6 DEF SoundChange
<1>9. o["password"] \in BOOLEAN /\ (m["password"] \/ "password" \in DOMAIN set => o["password"])
    <2>1. CASE "password" \in DOMAIN set
        BY <1>3, <1>4, <2>1 DEF SoundChange
    <2>2. CASE "password" \notin DOMAIN set
        BY <1>3, <1>4, <1>6, <2>2
    <2>3. QED
        BY <2>1, <2>2
<1>10. o \in MemberRow
    BY <1>3, <1>5, <1>7, <1>8, <1>9 DEF MemberRow
<1>11. QED
    BY <1>9, <1>10 DEF o

\* A manager that gets a sound draft keeps the invariant.
LEMMA RequestKeeps ==
    ASSUME TInv, NEW p \in Managers, NEW e \in Emails, NEW set, NEW accept \in BOOLEAN,
           Request(p, e, set, accept), SoundChange(set),
           accept => "password" \in DOMAIN set /\ ~member[e].password
    PROVE  TInv'
<1>1. PICK diff : diff = [c \in Assignments(e, set) |-> set[c]]
    OBVIOUS
<1>2. PICK d : d = [email |-> {e}, accept |-> accept, set |-> diff]
    OBVIOUS
<1>3. /\ desk' = [desk EXCEPT ![p] = d]
      /\ UNCHANGED <<member, custom, accepts>>
      /\ asks' \in 0..MaxAsks
    <2>1. asks' \in 0..MaxAsks
        BY MemberAssumption DEF Request, TInv, MemberTypeOK
    <2>2. QED
        BY <1>1, <1>2, <2>1 DEF Request
<1>4. /\ DOMAIN diff = Assignments(e, set) /\ DOMAIN diff \subseteq DOMAIN set
      /\ \A c \in DOMAIN diff : diff[c] = set[c]
    BY <1>1 DEF Assignments
<1>5. SoundChange(diff)
    BY <1>4 DEF SoundChange
<1>6. DOMAIN d = {"email", "set", "accept"} /\ d.email = {e} /\ d.set = diff /\ d.accept = accept
    BY <1>2
<1>7. SoundDesk(d)
    BY <1>5, <1>6 DEF SoundDesk
<1>8. DOMAIN desk' = Managers /\ desk'[p] = d /\ \A q \in Managers \ {p} : desk'[q] = desk[q]
    BY <1>3 DEF TInv
<1>9. \A q \in Managers : SoundDesk(desk[q])'
    BY <1>7, <1>8 DEF TInv, SoundDesk, SoundChange
<1>10. accept => accepts[p][e] = 0 /\ "password" \in DOMAIN diff
    <2> SUFFICES ASSUME accept PROVE accepts[p][e] = 0 /\ "password" \in DOMAIN diff
        OBVIOUS
    <2>1. accepts[p][e] \in Nat /\ ~(accepts[p][e] > 0)
        BY DEF TInv
    <2>2. set["password"] # member[e]["password"]
        <3>1. member[e]["password"] = FALSE
            BY DEF TInv, MemberTypeOK, MemberRow
        <3>2. set["password"] = TRUE
            BY DEF SoundChange
        <3>3. QED
            BY <3>1, <3>2
    <2>3. QED
        BY <1>4, <2>1, <2>2 DEF Assignments
<1>11. \A q \in Managers, f \in Emails : desk'[q].accept /\ f \in desk'[q].email =>
           accepts[q][f] = 0 /\ "password" \in DOMAIN desk'[q].set
    BY <1>6, <1>8, <1>10 DEF TInv
<1>12. MemberTypeOK'
    <2>1. \A q \in Managers : /\ desk'[q].email \subseteq Emails
                              /\ DOMAIN desk'[q].set \subseteq DOMAIN NoMember
        BY <1>9 DEF SoundDesk, SoundChange, MemberColumns
    <2>2. QED
        BY <1>3, <2>1 DEF TInv, MemberTypeOK
<1>13. QED
    BY <1>3, <1>8, <1>9, <1>11, <1>12 DEF TInv

\* Every request makes a sound draft; one that accepts an invitation sets the
\* password.
LEMMA BeginsKeep ==
    ASSUME TInv, NEW p \in Managers, NEW e \in Emails, NEW role \in Roles, NEW active \in BOOLEAN,
           \/ BeginInvite(p, e, role) \/ BeginCreateMember(p, e, role)
           \/ BeginUpdateMember(p, e, role, active) \/ BeginRemove(p, e)
           \/ BeginResend(p, e) \/ BeginAccept(p, e)
    PROVE  TInv'
<1>1. PICK one : one = Appointed(role)
    OBVIOUS
<1>2. one = [exists |-> TRUE, active |-> TRUE, role |-> role]
    BY <1>1 DEF Appointed
<1>3. CASE BeginInvite(p, e, role)
    <2>1. PICK set : set = Overlay(one, [invite |-> "sent"])
        OBVIOUS
    <2>2. DOMAIN set = {"exists", "active", "role", "invite"}
        BY <1>2, <2>1 DEF Overlay
    <2>3. \A c \in DOMAIN set : set[c] = IF c \in DOMAIN one THEN one[c] ELSE [invite |-> "sent"][c]
        BY <2>1 DEF Overlay
    <2>4. SoundChange(set)
        BY <1>2, <2>2, <2>3 DEF SoundChange, MemberColumns, NoMember
    <2>5. Request(p, e, set, FALSE)
        BY <1>1, <1>3, <2>1 DEF BeginInvite
    <2>6. QED
        BY <2>4, <2>5, RequestKeeps
<1>4. CASE BeginCreateMember(p, e, role)
    <2>1. PICK set : set = Overlay(one, [password |-> TRUE])
        OBVIOUS
    <2>2. DOMAIN set = {"exists", "active", "role", "password"}
        BY <1>2, <2>1 DEF Overlay
    <2>3. \A c \in DOMAIN set : set[c] = IF c \in DOMAIN one THEN one[c] ELSE [password |-> TRUE][c]
        BY <2>1 DEF Overlay
    <2>4. SoundChange(set)
        BY <1>2, <2>2, <2>3 DEF SoundChange, MemberColumns, NoMember
    <2>5. Request(p, e, set, FALSE)
        BY <1>1, <1>4, <2>1 DEF BeginCreateMember
    <2>6. QED
        BY <2>4, <2>5, RequestKeeps
<1>5. CASE BeginUpdateMember(p, e, role, active)
    <2>1. PICK set : set = [role |-> role, active |-> active]
        OBVIOUS
    <2>2. SoundChange(set)
        BY <2>1 DEF SoundChange, MemberColumns, NoMember
    <2>3. QED
        BY <1>5, <2>1, <2>2, RequestKeeps DEF BeginUpdateMember
<1>6. CASE BeginRemove(p, e)
    <2>1. PICK set : set = [active |-> FALSE]
        OBVIOUS
    <2>2. SoundChange(set)
        BY <2>1 DEF SoundChange, MemberColumns, NoMember
    <2>3. QED
        BY <1>6, <2>1, <2>2, RequestKeeps DEF BeginRemove
<1>7. CASE BeginResend(p, e)
    <2>1. PICK set : set = [invite |-> "sent"]
        OBVIOUS
    <2>2. SoundChange(set)
        BY <2>1 DEF SoundChange, MemberColumns, NoMember
    <2>3. QED
        BY <1>7, <2>1, <2>2, RequestKeeps DEF BeginResend
<1>8. CASE BeginAccept(p, e)
    <2>1. PICK set : set = [password |-> TRUE, invite |-> "none"]
        OBVIOUS
    <2>2. SoundChange(set) /\ "password" \in DOMAIN set
        BY <2>1 DEF SoundChange, MemberColumns, NoMember
    <2>3. QED
        BY <1>8, <2>1, <2>2, RequestKeeps DEF BeginAccept
<1>9. QED
    BY <1>3, <1>4, <1>5, <1>6, <1>7, <1>8

\* A commit keeps the invariant: what is accepted is never open again.
LEMMA CommitMemberKeeps ==
    ASSUME TInv, NEW p \in Managers, CommitMember(p)
    PROVE  TInv'
<1>1. PICK e \in desk[p].email :
        /\ IF Violates(p, e) THEN UNCHANGED <<member, accepts>>
           ELSE /\ member' = [member EXCEPT ![e] = Overlay(desk[p].set, @)]
                /\ accepts' = IF desk[p].accept
                     THEN [accepts EXCEPT ![p][e] = @ + 1] ELSE accepts
        /\ desk' = [desk EXCEPT ![p] = EmptyDesk]
        /\ UNCHANGED <<custom, asks>>
    BY DEF CommitMember
<1>2. SoundDesk(desk[p]) /\ e \in Emails
    BY <1>1 DEF TInv, SoundDesk
<1>3. SoundDesk(EmptyDesk)
    <2>1. DOMAIN NothingSet = {}
        BY DEF NothingSet
    <2>2. SoundChange(NothingSet)
        BY <2>1 DEF SoundChange
    <2>3. QED
        BY <2>2 DEF SoundDesk, EmptyDesk
<1>4. /\ DOMAIN desk' = Managers /\ desk'[p] = EmptyDesk
      /\ \A q \in Managers \ {p} : desk'[q] = desk[q]
    BY <1>1 DEF TInv
<1>5. \A q \in Managers : SoundDesk(desk[q])'
    BY <1>3, <1>4 DEF TInv, SoundDesk, SoundChange
<1>6. /\ member' \in [Emails -> MemberRow]
      /\ \A f \in Emails : member[f].password => member'[f].password
    <2>1. CASE member' = member
        BY <2>1 DEF TInv, MemberTypeOK
    <2>2. CASE member' = [member EXCEPT ![e] = Overlay(desk[p].set, @)]
        <3>1. member \in [Emails -> MemberRow]
            BY DEF TInv, MemberTypeOK
        <3>2. PICK o : o = Overlay(desk[p].set, member[e])
            OBVIOUS
        <3>3. o \in MemberRow /\ (member[e].password => o.password)
            BY <1>2, <3>1, <3>2, MemberOverlay DEF SoundDesk
        <3>4. member' = [member EXCEPT ![e] = o]
            BY <2>2, <3>2
        <3>5. QED
            BY <1>2, <3>1, <3>3, <3>4
    <2>3. QED
        BY <1>1, <2>1, <2>2
<1>7. /\ accepts' \in [Managers -> [Emails -> Nat]]
      /\ \A q \in Managers, f \in Emails :
           /\ accepts'[q][f] <= 1
           /\ accepts'[q][f] > 0 => member'[f].password
           /\ q # p => accepts'[q][f] = accepts[q][f]
    <2>1. accepts \in [Managers -> [Emails -> Nat]]
        BY DEF TInv
    <2>2. CASE accepts' = accepts
        BY <1>6, <2>1, <2>2 DEF TInv
    <2>3. CASE /\ ~Violates(p, e) /\ desk[p].accept
               /\ accepts' = [accepts EXCEPT ![p][e] = @ + 1]
        <3>1. accepts[p][e] = 0 /\ "password" \in DOMAIN desk[p].set
            BY <1>1, <1>2, <2>3 DEF TInv
        <3>2. member'[e].password
            <4>1. member \in [Emails -> MemberRow] /\ member[e] \in MemberRow
                BY <1>2 DEF TInv, MemberTypeOK
            <4>2. member'[e] = Overlay(desk[p].set, member[e])
                BY <1>1, <1>2, <2>3, <4>1
            <4>3. QED
                BY <1>2, <3>1, <4>1, <4>2, MemberOverlay DEF SoundDesk
        <3>3. accepts'[p][e] = 1
            BY <1>2, <2>1, <2>3, <3>1
        <3>4. \A q \in Managers, f \in Emails :
                (q # p \/ f # e) => accepts'[q][f] = accepts[q][f]
            BY <1>2, <2>1, <2>3
        <3>5. accepts' \in [Managers -> [Emails -> Nat]]
            BY <1>2, <2>1, <2>3
        <3>6. QED
            BY <1>6, <3>2, <3>3, <3>4, <3>5 DEF TInv
    <2>4. QED
        BY <1>1, <2>2, <2>3
<1>8. \A q \in Managers, f \in Emails : desk'[q].accept /\ f \in desk'[q].email =>
           accepts'[q][f] = 0 /\ "password" \in DOMAIN desk'[q].set
    BY <1>4, <1>7 DEF TInv, EmptyDesk
<1>9. MemberTypeOK'
    <2>1. \A q \in Managers : /\ desk'[q].email \subseteq Emails
                              /\ DOMAIN desk'[q].set \subseteq DOMAIN NoMember
        BY <1>5 DEF SoundDesk, SoundChange, MemberColumns
    <2>2. QED
        BY <1>1, <1>6, <2>1 DEF TInv, MemberTypeOK
<1>10. QED
    BY <1>4, <1>5, <1>7, <1>8, <1>9 DEF TInv

\* Permissions and the expiry of invitations leave the drafts alone.
LEMMA RowsAloneKeep ==
    ASSUME TInv, NEW e \in Emails,
           \/ InviteExpires(e)
           \/ \E c \in Permissions, d \in {"granted", "revoked"} : Decide(e, c, d)
    PROVE  TInv'
<1>1. UNCHANGED <<desk, accepts>>
    BY DEF InviteExpires, Decide
<1>2. /\ member' \in [Emails -> MemberRow]
      /\ \A f \in Emails : member[f].password => member'[f].password
    <2>1. member \in [Emails -> MemberRow]
        BY DEF TInv, MemberTypeOK
    <2>2. CASE member' = member
        BY <2>1, <2>2
    <2>3. CASE InviteExpires(e)
        <3>1. PICK m : m = [member[e] EXCEPT !.invite = "expired"]
            OBVIOUS
        <3>2. m \in MemberRow /\ m.password = member[e].password
            BY <2>1, <3>1 DEF MemberRow
        <3>3. member' = [member EXCEPT ![e] = m]
            BY <2>3, <3>1 DEF InviteExpires
        <3>4. QED
            BY <2>1, <3>2, <3>3
    <2>4. QED
        BY <2>2, <2>3 DEF Decide
<1>3. custom' \in [Emails -> [Permissions -> Decisions]] /\ asks' \in 0..MaxAsks
    <2>1. CASE InviteExpires(e)
        BY <2>1 DEF InviteExpires, TInv, MemberTypeOK
    <2>2. CASE \E c \in Permissions, d \in {"granted", "revoked"} : Decide(e, c, d)
        <3>1. PICK c \in Permissions, d \in {"granted", "revoked"} : Decide(e, c, d)
            BY <2>2
        <3>2. custom \in [Emails -> [Permissions -> Decisions]] /\ d \in Decisions
            BY DEF TInv, MemberTypeOK, Decisions
        <3>3. custom' = [custom EXCEPT ![e][c] = d]
            BY <3>1 DEF Decide
        <3>4. asks' \in 0..MaxAsks
            BY <3>1, MemberAssumption DEF Decide, TInv, MemberTypeOK
        <3>5. QED
            BY <3>2, <3>3, <3>4
    <2>3. QED
        BY <2>1, <2>2
<1>4. \A q \in Managers : SoundDesk(desk[q])'
    BY <1>1 DEF TInv, SoundDesk, SoundChange
<1>5. MemberTypeOK'
    BY <1>1, <1>2, <1>3 DEF TInv, MemberTypeOK
<1>6. QED
    BY <1>1, <1>2, <1>4, <1>5 DEF TInv

\* A step of somebody else.
LEMMA MemberStutters ==
    ASSUME TInv, UNCHANGED memberVars
    PROVE  TInv'
BY DEF TInv, memberVars, MemberTypeOK, SoundDesk, SoundChange

\* Every step keeps the invariant.
LEMMA MemberStepKeeps ==
    ASSUME TInv, MemberNext
    PROVE  TInv'
<1>1. ASSUME NEW p \in Managers, ManagerStep(p)
      PROVE  TInv'
    <2>1. "viewer" \in Roles /\ TRUE \in BOOLEAN
        BY DEF Roles, RolePermissions
    <2>2. ASSUME NEW e \in Emails, BeginRemove(p, e) \/ BeginResend(p, e) \/ BeginAccept(p, e)
          PROVE  TInv'
        BY <2>1, <2>2, BeginsKeep
    <2>3. QED
        BY <1>1, <2>2, <2>1, BeginsKeep, CommitMemberKeeps DEF ManagerStep
<1>2. QED
    BY <1>1, RowsAloneKeep DEF MemberNext

\* It holds before anybody is invited.
LEMMA MemberInitially ==
    ASSUME MemberInit
    PROVE  TInv
<1>1. DOMAIN NothingSet = {}
    BY DEF NothingSet
<1>2. SoundChange(NothingSet)
    BY <1>1 DEF SoundChange
<1>3. SoundDesk(EmptyDesk)
    BY <1>2 DEF SoundDesk, EmptyDesk
<1>4. DOMAIN desk = Managers /\ \A p \in Managers : desk[p] = EmptyDesk
    BY DEF MemberInit
<1>5. \A p \in Managers : SoundDesk(desk[p])
    BY <1>3, <1>4
<1>6. NoMember \in MemberRow
    BY DEF NoMember, MemberRow, Roles, RolePermissions
<1>7. MemberTypeOK
    <2>1. \A p \in Managers : /\ desk[p].email \subseteq Emails
                              /\ DOMAIN desk[p].set \subseteq DOMAIN NoMember
        BY <1>5 DEF SoundDesk, SoundChange, MemberColumns
    <2>2. asks \in 0..MaxAsks
        BY MemberAssumption DEF MemberInit
    <2>3. QED
        BY <1>6, <2>1, <2>2 DEF MemberInit, MemberTypeOK, Decisions
<1>8. /\ accepts \in [Managers -> [Emails -> Nat]]
      /\ \A p \in Managers, e \in Emails : accepts[p][e] = 0
    BY DEF MemberInit
<1>9. \A p \in Managers : desk[p].accept = FALSE
    BY <1>4 DEF EmptyDesk
<1>10. QED
    BY <1>4, <1>5, <1>7, <1>8, <1>9 DEF TInv

\* A decision about one permission decides, unless the role holds a wildcard.
LEMMA DecisionsAreKept ==
    ASSUME NEW e \in Emails, NEW c \in Permissions
    PROVE  /\ custom[e][c] = "granted" => Has(Effective(e), c)
           /\ custom[e][c] = "revoked" /\ Has(Effective(e), c) =>
                RolePermissions[member[e].role] \cap {"*", Categories[c]} # {}
<1>1. PICK role : role = RolePermissions[member[e].role]
    OBVIOUS
<1>2. Effective(e) = IF "*" \in role THEN {"*"}
                     ELSE (role \cup Decided(e, "granted")) \ Decided(e, "revoked")
    BY <1>1 DEF Effective
<1>3. "*" \notin Permissions /\ Categories[c] \notin Permissions
    BY DEF Permissions, Categories
<1>4. \A d : Decided(e, d) \subseteq Permissions /\ (c \in Decided(e, d) <=> custom[e][c] = d)
    BY DEF Decided
<1>5. CASE "*" \in role
    BY <1>1, <1>2, <1>5 DEF Has
<1>6. CASE "*" \notin role
    <2>1. Effective(e) = (role \cup Decided(e, "granted")) \ Decided(e, "revoked")
        BY <1>2, <1>6
    <2>2. custom[e][c] = "granted" => c \in Effective(e)
        BY <1>4, <2>1
    <2>3. custom[e][c] = "revoked" => c \notin Effective(e)
        BY <1>4, <2>1
    <2>4. \A x \in Effective(e) : x \notin Permissions => x \in role
        BY <1>4, <2>1
    <2>5. QED
        BY <1>1, <1>3, <2>2, <2>3, <2>4 DEF Has
<1>7. QED
    BY <1>5, <1>6

\* The inductive invariant of the team is an invariant.
THEOREM MemberInvariant == MemberSpec => []TInv
<1>1. MemberInit => TInv
    BY MemberInitially
<1>2. TInv /\ [MemberNext]_memberVars => TInv'
    BY MemberStepKeeps, MemberStutters
<1>3. QED
    BY <1>1, <1>2, PTL DEF MemberSpec

\* No process accepts one invitation twice, and a permission granted or
\* revoked by name is as it was decided.
THEOREM MembersHoldAlways == MemberSpec => []MembersHold
<1>1. TInv => MembersHold
    BY DecisionsAreKept DEF TInv, MembersHold, AcceptedOncePerProcess, DecisionsHold
<1>2. QED
    BY <1>1, MemberInvariant, PTL

(***************************************************************************)
(* Payment links.  What a request read of the views was counted before, so *)
(* writing one more than it never counts too many.                         *)
(***************************************************************************)
\* A request counts views that were there when it read the link, and has an
\* amount; a token lives from when it was made.
LInv ==
    /\ LinkTypeOK
    /\ redis \in [up: BOOLEAN, client: [Processes -> {"untried", "on", "off"}]]
    /\ ViewsAreBacked
    /\ \A o \in Openers : /\ opener[o].views <= Len(opened)
                          /\ opener[o] = NotOpening \/ opener[o].amount \in Prices
    /\ \A n \in DOMAIN vault : vault[n].until >= TokenTTL
    /\ TokensAreFresh

\* A process that finds out whether Redis is there keeps the invariant.
LEMMA ContactKeeps ==
    ASSUME LInv, NEW p \in Processes, Contact(p)
    PROVE  redis' \in [up: BOOLEAN, client: [Processes -> {"untried", "on", "off"}]]
<1>1. redis \in [up: BOOLEAN, client: [Processes -> {"untried", "on", "off"}]]
    BY DEF LInv
<1>2. PICK client : client = ClientOf(p)
    OBVIOUS
<1>3. client \in {"untried", "on", "off"}
    BY <1>1, <1>2 DEF ClientOf
<1>4. redis' = [redis EXCEPT !.client[p] = client]
    BY <1>2 DEF Contact
<1>5. QED
    BY <1>1, <1>3, <1>4

\* Tokens that are lost leave the rest as they were.
LEMMA VaultKeeps ==
    ASSUME LInv, NEW x, vault' = [n \in DOMAIN vault |->
             IF vault[n].at = x THEN [vault[n] EXCEPT !.at = "gone"] ELSE vault[n]]
    PROVE  /\ vault' \in Seq(Token) /\ Len(vault') = Len(vault)
           /\ \A n \in DOMAIN vault' : vault'[n].until >= TokenTTL
<1>1. vault \in Seq(Token)
    BY DEF LInv, LinkTypeOK
<1>2. \A n \in 1..Len(vault) : vault[n] \in Token
    BY <1>1
<1>3. DOMAIN vault = 1..Len(vault) /\ Len(vault) \in Nat
    BY <1>1
<1>4. DOMAIN vault' = 1..Len(vault)
    BY <1>3
<1>5. \A n \in 1..Len(vault) : vault'[n] \in Token /\ vault'[n].until = vault[n].until
    <2> SUFFICES ASSUME NEW n \in 1..Len(vault)
                 PROVE  vault'[n] \in Token /\ vault'[n].until = vault[n].until
        OBVIOUS
    <2>1. vault[n] \in Token
        BY <1>2
    <2>2. "gone" \in Places
        BY DEF Places
    <2>3. [vault[n] EXCEPT !.at = "gone"] \in Token
          /\ [vault[n] EXCEPT !.at = "gone"].until = vault[n].until
        BY <2>1, <2>2 DEF Token
    <2>4. QED
        BY <1>3, <2>1, <2>3
<1>6. vault' = [n \in 1..Len(vault) |-> vault'[n]]
    BY <1>3
<1>7. vault' \in Seq(Token) /\ Len(vault') = Len(vault)
    BY <1>3, <1>4, <1>5, <1>6, IsASeq
<1>8. QED
    BY <1>3, <1>4, <1>5, <1>7 DEF LInv

\* Changes of the link.
LEMMA UpdateKeeps ==
    ASSUME LInv, UpdateLink \/ DeleteLink
    PROVE  LInv'
<1>1. link \in LinkRow /\ tick \in 0..MaxTick
    BY DEF LInv, LinkTypeOK
<1>2. link' \in LinkRow /\ link'.views = link.views
    <2>1. CASE \E a \in BOOLEAN : link' = [link EXCEPT !.active = a]
        BY <1>1, <2>1 DEF LinkRow
    <2>2. CASE \E p \in Prices \cup {NoPrice} : link' = [link EXCEPT !.price = p]
        BY <1>1, <2>2 DEF LinkRow
    <2>3. CASE \E t \in {tick, Never} : link' = [link EXCEPT !.expires = t]
        BY <1>1, <2>3 DEF LinkRow
    <2>4. QED
        BY <2>1, <2>2, <2>3 DEF UpdateLink, DeleteLink
<1>3. UNCHANGED <<opened, opener, redis, vault, tick, oldest>>
    BY DEF UpdateLink, DeleteLink
<1>4. QED
    BY <1>2, <1>3 DEF LInv, LinkTypeOK, ViewsAreBacked, TokensAreFresh

\* A token that is resolved is within its lifetime.
LEMMA ResolveKeeps ==
    ASSUME LInv, NEW p \in Processes, NEW n \in DOMAIN vault, ResolveToken(p, n)
    PROVE  LInv'
<1>1. UNCHANGED <<link, opened, opener, vault, tick>>
    BY DEF ResolveToken
<1>2. PICK until : until = vault[n].until
    OBVIOUS
<1>3. until \in Nat /\ until >= TokenTTL
    <2>1. vault \in Seq(Token)
        BY DEF LInv, LinkTypeOK
    <2>2. vault[n] \in Token
        BY <2>1, ElementOfSeq
    <2>3. QED
        BY <1>2, <2>2 DEF Token, LInv
<1>4. /\ tick <= until
      /\ oldest' = IF tick - (until - TokenTTL) > oldest
                   THEN tick - (until - TokenTTL) ELSE oldest
    BY <1>2 DEF ResolveToken, Found
<1>5. /\ tick \in 0..MaxTick /\ oldest \in 0..MaxTick /\ TokenTTL \in Nat /\ MaxTick \in Nat
      /\ oldest <= TokenTTL
    BY LinkAssumption DEF LInv, LinkTypeOK, TokensAreFresh
<1>6. oldest' \in 0..MaxTick /\ oldest' <= TokenTTL
    BY <1>3, <1>4, <1>5
<1>7. redis' \in [up: BOOLEAN, client: [Processes -> {"untried", "on", "off"}]]
    BY ContactKeeps DEF ResolveToken
<1>8. QED
    BY <1>1, <1>6, <1>7 DEF LInv, LinkTypeOK, ViewsAreBacked, TokensAreFresh

\* Redis and processes that go and come back.
LEMMA RedisKeeps ==
    ASSUME LInv, RedisChange \/ \E p \in Processes : RestartProcess(p)
    PROVE  LInv'
<1>1. UNCHANGED <<link, opened, tick, oldest>>
    BY DEF RedisChange, RestartProcess
<1>2. redis' \in [up: BOOLEAN, client: [Processes -> {"untried", "on", "off"}]]
    <2>1. redis \in [up: BOOLEAN, client: [Processes -> {"untried", "on", "off"}]]
        BY DEF LInv
    <2>2. CASE redis' = [redis EXCEPT !.up = ~@]
        BY <2>1, <2>2
    <2>3. CASE \E p \in Processes : redis' = [redis EXCEPT !.client[p] = "untried"]
        BY <2>1, <2>3
    <2>4. QED
        BY <2>2, <2>3 DEF RedisChange, RestartProcess
<1>3. /\ vault' \in Seq(Token) /\ Len(vault') = Len(vault)
      /\ \A n \in DOMAIN vault' : vault'[n].until >= TokenTTL
    <2>1. CASE UNCHANGED vault
        BY <2>1 DEF LInv, LinkTypeOK
    <2>2. ASSUME NEW x, vault' = [n \in DOMAIN vault |->
             IF vault[n].at = x THEN [vault[n] EXCEPT !.at = "gone"] ELSE vault[n]]
          PROVE  <1>3
        BY <2>2, VaultKeeps
    <2>3. QED
        BY <2>1, <2>2 DEF RedisChange, RestartProcess
<1>4. /\ opener' \in [Openers -> Opening]
      /\ \A o \in Openers : opener'[o] = opener[o] \/ opener'[o] = NotOpening
    <2>1. opener \in [Openers -> Opening] /\ NotOpening \in Opening
        BY DEF LInv, LinkTypeOK, Opening, NotOpening
    <2>2. QED
        BY <2>1 DEF RedisChange, RestartProcess
<1>5. Len(opened) \in Nat
    BY DEF LInv, LinkTypeOK
<1>6. \A o \in Openers : /\ opener'[o].views <= Len(opened)
                         /\ opener'[o] = NotOpening \/ opener'[o].amount \in Prices
    BY <1>4, <1>5 DEF LInv, NotOpening
<1>7. QED
    BY <1>1, <1>2, <1>3, <1>4, <1>6 DEF LInv, LinkTypeOK, ViewsAreBacked, TokensAreFresh

\* A request that opens the link reads how many views were counted.
LEMMA BeginOpenKeeps ==
    ASSUME LInv, NEW o \in Openers, NEW a \in Prices, BeginOpen(o, a)
    PROVE  LInv'
<1>1. PICK h : h = [amount |-> a, views |-> link.views]
    OBVIOUS
<1>2. /\ UNCHANGED <<link, opened, redis, vault, tick, oldest>>
      /\ opener' = [opener EXCEPT ![o] = h]
    BY <1>1 DEF BeginOpen
<1>3. opener \in [Openers -> Opening] /\ link.views \in Nat
    BY DEF LInv, LinkTypeOK, LinkRow
<1>4. h \in Opening /\ h.amount \in Prices /\ h.views = link.views
    BY <1>1, <1>3 DEF Opening
<1>5. /\ opener' \in [Openers -> Opening] /\ opener'[o] = h
      /\ \A x \in Openers \ {o} : opener'[x] = opener[x]
    BY <1>2, <1>3, <1>4
<1>6. QED
    BY <1>2, <1>4, <1>5 DEF LInv, LinkTypeOK, ViewsAreBacked, TokensAreFresh

\* A session is opened, with its token, and the view counted from what was
\* read.
LEMMA FinishOpenKeeps ==
    ASSUME LInv, NEW o \in Openers, FinishOpen(o)
    PROVE  LInv'
<1>1. PICK row : row = [amount |-> opener[o].amount]
    OBVIOUS
<1>2. PICK token : token = NewToken(HomeOf[o])
    OBVIOUS
<1>3. PICK views : views = opener[o].views
    OBVIOUS
<1>4. /\ opened' = Append(opened, row) /\ vault' = Append(vault, token)
      /\ link' = [link EXCEPT !.views = views + 1]
      /\ opener' = [opener EXCEPT ![o] = NotOpening]
      /\ UNCHANGED <<tick, oldest>> /\ Len(opened) < MaxOpened
    BY <1>1, <1>2, <1>3 DEF FinishOpen
<1>5. /\ opener \in [Openers -> Opening] /\ NotOpening \in Opening
      /\ opened \in Seq(Opened) /\ vault \in Seq(Token) /\ Len(vault) = Len(opened)
      /\ link \in LinkRow /\ tick \in Nat /\ TokenTTL \in Nat /\ MaxOpened \in Nat
    BY LinkAssumption DEF LInv, LinkTypeOK, Opening, NotOpening
<1>6. row \in Opened /\ views \in Nat /\ views <= Len(opened)
    BY <1>1, <1>3, <1>5 DEF FinishOpen, LInv, Opened, Opening
<1>7. HomeOf[o] \in Processes
    BY LinkAssumption
<1>8. token \in Token /\ token.until >= TokenTTL
    <2>1. token = [at |-> IF Reached(HomeOf[o]) THEN "redis" ELSE HomeOf[o],
                   until |-> tick + TokenTTL]
        BY <1>2 DEF NewToken
    <2>2. PICK at \in Places : at = IF Reached(HomeOf[o]) THEN "redis" ELSE HomeOf[o]
        BY <1>7 DEF Places
    <2>3. token = [at |-> at, until |-> tick + TokenTTL]
        BY <2>1, <2>2
    <2>4. QED
        BY <1>5, <2>3 DEF Token
<1>9. redis' \in [up: BOOLEAN, client: [Processes -> {"untried", "on", "off"}]]
    BY <1>7, ContactKeeps DEF FinishOpen
<1>10. /\ opened' \in Seq(Opened) /\ Len(opened') = Len(opened) + 1
       /\ Len(opened) \in Nat /\ Len(opened') <= MaxOpened
    BY <1>4, <1>5, <1>6
<1>11. /\ vault' \in Seq(Token) /\ Len(vault') = Len(vault) + 1
       /\ \A n \in DOMAIN vault' : vault'[n].until >= TokenTTL
    <2>1. /\ vault' \in Seq(Token) /\ Len(vault') = Len(vault) + 1
          /\ \A n \in 1..Len(vault) : vault'[n] = vault[n]
          /\ vault'[Len(vault) + 1] = token
        BY <1>4, <1>5, <1>8, AppendProperties
    <2>2. DOMAIN vault' = 1..(Len(vault) + 1) /\ DOMAIN vault = 1..Len(vault)
        BY <2>1, <1>5
    <2>3. \A n \in DOMAIN vault' : vault'[n].until >= TokenTTL
        <3> SUFFICES ASSUME NEW n \in DOMAIN vault' PROVE vault'[n].until >= TokenTTL
            OBVIOUS
        <3>1. n \in 1..Len(vault) \/ n = Len(vault) + 1
            BY <1>5, <2>2
        <3>2. QED
            BY <1>8, <2>1, <2>2, <3>1 DEF LInv
    <2>4. QED
        BY <2>1, <2>3
<1>12. link' \in LinkRow /\ link'.views = views + 1
    <2>1. PICK seen \in Nat : seen = views + 1
        BY <1>6
    <2>2. link' = [link EXCEPT !.views = seen]
        BY <1>4, <2>1
    <2>3. link' \in LinkRow /\ link'.views = seen
        BY <1>5, <2>2 DEF LinkRow
    <2>4. QED
        BY <2>1, <2>3
<1>13. ViewsAreBacked'
    BY <1>6, <1>10, <1>12 DEF ViewsAreBacked
<1>14. opener' \in [Openers -> Opening]
       /\ \A x \in Openers : opener'[x] = opener[x] \/ opener'[x] = NotOpening
    BY <1>4, <1>5
<1>15. \A x \in Openers : /\ opener'[x].views <= Len(opened')
                          /\ opener'[x] = NotOpening \/ opener'[x].amount \in Prices
    <2> SUFFICES ASSUME NEW x \in Openers
                 PROVE  /\ opener'[x].views <= Len(opened')
                        /\ opener'[x] = NotOpening \/ opener'[x].amount \in Prices
        OBVIOUS
    <2>1. CASE opener'[x] = NotOpening
        BY <1>10, <2>1 DEF NotOpening
    <2>2. CASE opener'[x] = opener[x]
        <3>1. opener[x].views \in Nat /\ opener[x].views <= Len(opened)
            BY <1>5 DEF LInv, Opening
        <3>2. QED
            BY <1>10, <2>2, <3>1 DEF LInv
    <2>3. QED
        BY <1>14, <2>1, <2>2
<1>16. QED
    BY <1>4, <1>5, <1>9, <1>10, <1>11, <1>12, <1>13, <1>14, <1>15
    DEF LInv, LinkTypeOK, TokensAreFresh

\* Every step keeps the invariant.
LEMMA LinkStepKeeps ==
    ASSUME LInv, [LinkNext]_linkVars
    PROVE  LInv'
<1>1. CASE UNCHANGED linkVars
    BY <1>1 DEF LInv, linkVars, LinkTypeOK, ViewsAreBacked, TokensAreFresh
<1>2. CASE Tick
    <2>1. UNCHANGED <<link, opened, opener, redis, vault, oldest>> /\ tick' \in 0..MaxTick
        BY <1>2, LinkAssumption DEF Tick, LInv, LinkTypeOK
    <2>2. QED
        BY <2>1 DEF LInv, LinkTypeOK, ViewsAreBacked, TokensAreFresh
<1>3. QED
    BY <1>1, <1>2, UpdateKeeps, ResolveKeeps, RedisKeeps, BeginOpenKeeps, FinishOpenKeeps
    DEF LinkNext

\* A link that was made is a row.
LEMMA NewLinkIsARow ==
    ASSUME NEW l \in NewLink
    PROVE  l \in LinkRow /\ l.views = 0
<1>1. PICK fixed \in BOOLEAN, price \in Prices \cup {NoPrice},
           min \in Prices \cup {NoPrice}, max \in Prices \cup {NoPrice} :
        l = [active |-> TRUE, fixed |-> fixed, price |-> price, min |-> min,
             max |-> max, expires |-> Never, views |-> 0]
    <2>1. NoPrice \in Prices \cup {NoPrice}
        OBVIOUS
    <2>2. \/ \E p \in Prices \cup {NoPrice} :
               l = [active |-> TRUE, fixed |-> TRUE, price |-> p, min |-> NoPrice,
                    max |-> NoPrice, expires |-> Never, views |-> 0]
          \/ \E b \in (Prices \cup {NoPrice}) \X (Prices \cup {NoPrice}) :
               l = [active |-> TRUE, fixed |-> FALSE, price |-> NoPrice, min |-> b[1],
                    max |-> b[2], expires |-> Never, views |-> 0]
        BY DEF NewLink
    <2>3. QED
        BY <2>1, <2>2
<1>2. QED
    BY <1>1 DEF LinkRow

\* The invariant holds for every link a merchant can make.
LEMMA LinkInitially ==
    ASSUME LinkInit
    PROVE  LInv
<1>1. link \in LinkRow /\ link.views = 0
    BY NewLinkIsARow DEF LinkInit
<1>2. NotOpening \in Opening /\ NotOpening.views = 0
    BY DEF NotOpening, Opening
<1>3. opener \in [Openers -> Opening] /\ \A o \in Openers : opener[o] = NotOpening
    BY <1>2 DEF LinkInit
<1>4. opened = <<>> /\ vault = <<>> /\ Len(opened) = 0 /\ Len(vault) = 0 /\ DOMAIN vault = {}
    BY DEF LinkInit
<1>5. opened \in Seq(Opened) /\ vault \in Seq(Token)
    BY <1>4
<1>6. redis \in [up: BOOLEAN, client: [Processes -> {"untried", "on", "off"}]]
    BY DEF LinkInit
<1>7. tick \in 0..MaxTick /\ oldest \in 0..MaxTick /\ oldest <= TokenTTL /\ 0 <= MaxOpened
    BY LinkAssumption DEF LinkInit
<1>8. LinkTypeOK
    BY <1>1, <1>3, <1>4, <1>5, <1>6, <1>7 DEF LinkTypeOK
<1>9. QED
    BY <1>1, <1>2, <1>3, <1>4, <1>6, <1>7, <1>8 DEF LInv, ViewsAreBacked, TokensAreFresh

\* The inductive invariant of the links is an invariant.
THEOREM LinkInvariant == LinkSpec => []LInv
<1>1. LinkInit => LInv
    BY LinkInitially
<1>2. LInv /\ [LinkNext]_linkVars => LInv'
    BY LinkStepKeeps
<1>3. QED
    BY <1>1, <1>2, PTL DEF LinkSpec

\* Views never say more than were opened, nor nothing once one was, and no
\* process resolves a token past its lifetime.
THEOREM LinksHoldAlways == LinkSpec => []LinksHold
<1>1. LInv => LinksHold
    BY DEF LInv, LinksHold
<1>2. QED
    BY <1>1, LinkInvariant, PTL

(***************************************************************************)
(* Invoices.  A process numbers after its own rows, and holds one edit at  *)
(* a time: of the processes that read an invoice as a draft, each edits it *)
(* once.                                                                   *)
(***************************************************************************)
InvoiceColumns == {"number", "status", "tax", "total", "session", "by", "late"}
Totals == {Subtotal} \cup {Subtotal + tax : tax \in Taxes}

\* A write sets a tax with the total it makes, or a status of SENT or CANCELLED.
SoundColumns(set) ==
    \/ /\ DOMAIN set = {"tax", "total"}
       /\ set["tax"] \in Taxes /\ set["total"] \in Totals
    \/ /\ DOMAIN set = {"status"}
       /\ set["status"] \in {"SENT", "CANCELLED"}

\* A row to insert has a number above those of its process, and a payment that
\* has no invoice of its process; a row to write is no payment's.
SoundInsert(p, d) ==
    /\ DOMAIN d = {"kind", "row"} /\ d.kind = "insert"
    /\ d.row \in InvoiceRow
    /\ d.row.by = p /\ d.row.late = 0 /\ d.row.number <= Len(invoice) + 1
    /\ d.row.session # {} => d.row.status = "PAID"
    /\ \A i \in RowsOf(p) : /\ invoice[i].number < d.row.number
                            /\ invoice[i].session \cap d.row.session = {}
SoundWrite(d) ==
    /\ DOMAIN d = {"kind", "at", "set"} /\ d.kind = "write"
    /\ d.at \in DOMAIN invoice /\ SoundColumns(d.set)
    /\ invoice[d.at].session = {}
SoundClerk(p) == clerk[p] = NoDraft \/ SoundInsert(p, clerk[p]) \/ SoundWrite(clerk[p])

\* Who is about to write the total of a row.
Editors(i) ==
    {p \in Clerks : clerk[p] # NoDraft /\ clerk[p].kind = "write"
                    /\ clerk[p].at = i /\ "total" \in DOMAIN clerk[p].set}

NInv ==
    /\ InvoiceTypeOK
    /\ DOMAIN clerk = Clerks
    /\ \A p \in Clerks : SoundClerk(p)
    /\ \A i \in DOMAIN invoice :
         /\ invoice[i].number <= i
         /\ invoice[i].session # {} => invoice[i].status = "PAID"
         /\ invoice[i].status = "DRAFT" => invoice[i].late = 0
         /\ invoice[i].status # "DRAFT" =>
              invoice[i].late + Cardinality(Editors(i)) < Cardinality(Clerks)
    /\ NumbersPerProcess
    /\ InvoicedOncePerProcess

\* The types of rows and clerks.
LEMMA InvoiceFacts ==
    ASSUME NInv
    PROVE  /\ invoice \in Seq(InvoiceRow) /\ Len(invoice) \in Nat
           /\ DOMAIN invoice = 1..Len(invoice)
           /\ \A i \in DOMAIN invoice : invoice[i] \in InvoiceRow
<1>1. invoice \in Seq(InvoiceRow)
    BY DEF NInv, InvoiceTypeOK
<1>2. QED
    BY <1>1

\* The processes about to edit an invoice are finitely many.
LEMMA EditorsAreFew ==
    /\ IsFiniteSet(Clerks) /\ Cardinality(Clerks) \in Nat
    /\ \A i : IsFiniteSet(Editors(i)) /\ Cardinality(Editors(i)) \in Nat
<1>1. IsFiniteSet(Clerks)
    BY InvoiceAssumption
<1>2. \A i : Editors(i) \subseteq Clerks
    BY DEF Editors
<1>3. QED
    BY <1>1, <1>2, FS_Subset, FS_CardinalityType

\* Rows that stay as they are, while one clerk gets a draft.
LEMMA DraftKeeps ==
    ASSUME NInv, NEW p \in Clerks, NEW d,
           clerk[p] = NoDraft, clerk' = [clerk EXCEPT ![p] = d], UNCHANGED invoice,
           edits' \in 0..MaxEdits,
           SoundInsert(p, d) \/ SoundWrite(d),
           d.kind = "write" /\ "total" \in DOMAIN d.set => invoice[d.at].status = "DRAFT"
    PROVE  NInv'
<1>1. DOMAIN clerk' = Clerks /\ clerk'[p] = d /\ \A q \in Clerks \ {p} : clerk'[q] = clerk[q]
    BY DEF NInv
<1>2. RowsOf(p)' = RowsOf(p) /\ \A q \in Clerks : RowsOf(q)' = RowsOf(q)
    BY DEF RowsOf
<1>3. \A q \in Clerks : SoundClerk(q)'
    <2> SUFFICES ASSUME NEW q \in Clerks PROVE SoundClerk(q)'
        OBVIOUS
    <2>1. CASE q = p
        BY <1>1, <2>1 DEF SoundClerk, SoundInsert, SoundWrite, RowsOf, SoundColumns
    <2>2. CASE q # p
        <3>1. clerk'[q] = clerk[q] /\ SoundClerk(q)
            BY <1>1, <2>2 DEF NInv
        <3>2. QED
            BY <3>1 DEF SoundClerk, SoundInsert, SoundWrite, RowsOf, SoundColumns
    <2>3. QED
        BY <2>1, <2>2
<1>4. InvoiceTypeOK'
    <2>1. \A q \in Clerks :
            \/ clerk'[q] = NoDraft
            \/ clerk'[q].kind = "insert" /\ clerk'[q].row \in InvoiceRow
            \/ clerk'[q].kind = "write" /\ clerk'[q].at \in DOMAIN invoice
        BY <1>3 DEF SoundClerk, SoundInsert, SoundWrite
    <2>2. QED
        BY <2>1 DEF NInv, InvoiceTypeOK
<1>5. \A i \in DOMAIN invoice : invoice[i].status # "DRAFT" => Editors(i)' = Editors(i)
    <2> SUFFICES ASSUME NEW i \in DOMAIN invoice, invoice[i].status # "DRAFT"
                 PROVE  Editors(i)' = Editors(i)
        OBVIOUS
    <2>1. p \notin Editors(i)
        BY DEF Editors
    <2>2. p \notin Editors(i)'
        BY <1>1 DEF Editors
    <2>3. \A q \in Clerks \ {p} : q \in Editors(i)' <=> q \in Editors(i)
        BY <1>1 DEF Editors
    <2>4. QED
        BY <2>1, <2>2, <2>3 DEF Editors
<1>6. \A i \in DOMAIN invoice : invoice[i].status # "DRAFT" =>
        invoice[i].late + Cardinality(Editors(i)') < Cardinality(Clerks)
    BY <1>5 DEF NInv
<1>7. \A i \in DOMAIN invoice' : invoice'[i].status # "DRAFT" =>
        (invoice[i].late + Cardinality(Editors(i)) < Cardinality(Clerks))'
    BY <1>6
<1>8. QED
    BY <1>1, <1>2, <1>3, <1>4, <1>7 DEF NInv, NumbersPerProcess, InvoicedOncePerProcess

\* ... so it does with an invoice to insert.
LEMMA InsertDraftKeeps ==
    ASSUME NInv, NEW p \in Clerks, NEW row \in InvoiceRow, BeginInsert(p, row),
           row.by = p, row.late = 0, row.number = NextNumber,
           row.session # {} => row.status = "PAID",
           \A i \in RowsOf(p) : invoice[i].session \cap row.session = {}
    PROVE  NInv'
<1>1. PICK d : d = [kind |-> "insert", row |-> row]
    OBVIOUS
<1>2. \A i \in RowsOf(p) : invoice[i].number < row.number
    <2> SUFFICES ASSUME NEW i \in RowsOf(p) PROVE invoice[i].number < row.number
        OBVIOUS
    <2>1. i \in 1..Len(invoice) /\ Len(invoice) \in Nat /\ invoice[i].number \in Nat
          /\ invoice[i].number <= i
        BY InvoiceFacts DEF RowsOf, NInv, InvoiceRow
    <2>2. QED
        BY <2>1 DEF NextNumber
<1>3. row.number <= Len(invoice) + 1
    BY InvoiceFacts DEF NextNumber
<1>4. DOMAIN d = {"kind", "row"} /\ d.kind = "insert" /\ d.row = row
    BY <1>1
<1>5. SoundInsert(p, d)
    BY <1>2, <1>3, <1>4 DEF SoundInsert
<1>6. /\ clerk[p] = NoDraft /\ clerk' = [clerk EXCEPT ![p] = d]
      /\ UNCHANGED invoice /\ edits' \in 0..MaxEdits
    BY <1>1 DEF BeginInsert, NInv, InvoiceTypeOK
<1>7. d.kind # "write"
    BY <1>4
<1>8. QED
    BY <1>5, <1>6, <1>7, DraftKeeps

\* Such an invoice is a row.
LEMMA NewInvoiceIsARow ==
    ASSUME NInv, NEW p \in Clerks, NEW status \in InvoiceStatus, NEW tax \in Taxes,
           NEW total \in Totals, NEW session \in SUBSET PaidSessions
    PROVE  LET row == [number |-> NextNumber, status |-> status, tax |-> tax,
                       total |-> total, session |-> session, by |-> p, late |-> 0]
           IN /\ row \in InvoiceRow
              /\ row.by = p /\ row.late = 0 /\ row.number = NextNumber
              /\ row.session = session /\ row.status = status
<1>1. NextNumber \in Nat
    BY InvoiceFacts DEF NextNumber
<1>2. QED
    BY <1>1 DEF InvoiceRow, Totals

\* The requests that insert: the next number is one the process did not
\* write.
LEMMA InsertsKeep ==
    ASSUME NInv, NEW p \in Clerks,
           \/ BeginCreateInvoice(p)
           \/ \E s \in PaidSessions : BeginInvoicePayment(p, s) \/ BeginReceipt(p, s)
           \/ \E i \in DOMAIN invoice : BeginDuplicate(p, i)
    PROVE  NInv'
<1>1. PICK status \in InvoiceStatus, tax \in Taxes, total \in Totals,
           session \in SUBSET PaidSessions :
        /\ BeginInsert(p, [number |-> NextNumber, status |-> status, tax |-> tax,
                           total |-> total, session |-> session, by |-> p, late |-> 0])
        /\ session # {} => status = "PAID"
        /\ \A i \in DOMAIN invoice : invoice[i].session \cap session = {}
    <2>1. {} \in SUBSET PaidSessions /\ Subtotal \in Totals
          /\ \A tax \in Taxes : Subtotal + tax \in Totals
        BY DEF Totals
    <2>2. CASE BeginCreateInvoice(p)
        <3>1. PICK status \in {"DRAFT", "SENT"}, tax \in Taxes :
                BeginInsert(p, NewInvoice(p, status, tax))
            BY <2>2 DEF BeginCreateInvoice
        <3>2. NewInvoice(p, status, tax) =
                [number |-> NextNumber, status |-> status, tax |-> tax,
                 total |-> Subtotal + tax, session |-> {}, by |-> p, late |-> 0]
            BY DEF NewInvoice
        <3>3. status \in InvoiceStatus
            BY DEF InvoiceStatus
        <3>4. QED
            BY <2>1, <3>1, <3>2, <3>3
    <2>3. CASE \E i \in DOMAIN invoice : BeginDuplicate(p, i)
        <3>1. PICK i \in DOMAIN invoice : BeginDuplicate(p, i)
            BY <2>3
        <3>2. invoice[i].tax \in Taxes /\ invoice[i].total \in Totals
            BY InvoiceFacts DEF InvoiceRow, Totals
        <3>3. PICK tax \in Taxes, total \in Totals :
                tax = invoice[i].tax /\ total = invoice[i].total
            BY <3>2
        <3>4. [NewInvoice(p, "DRAFT", tax) EXCEPT !.total = total] =
                [number |-> NextNumber, status |-> "DRAFT", tax |-> tax,
                 total |-> total, session |-> {}, by |-> p, late |-> 0]
            BY DEF NewInvoice
        <3>5. BeginInsert(p, [number |-> NextNumber, status |-> "DRAFT", tax |-> tax,
                 total |-> total, session |-> {}, by |-> p, late |-> 0])
            BY <3>1, <3>3, <3>4 DEF BeginDuplicate
        <3>6. "DRAFT" \in InvoiceStatus
            BY DEF InvoiceStatus
        <3>7. QED
            BY <2>1, <3>5, <3>6
    <2>4. CASE \E s \in PaidSessions : BeginInvoicePayment(p, s) \/ BeginReceipt(p, s)
        <3>0. PICK s \in PaidSessions : BeginInvoicePayment(p, s) \/ BeginReceipt(p, s)
            BY <2>4
        <3>1. PICK tax \in Taxes, total \in Totals :
                /\ NotInvoiced(s)
                /\ BeginInsert(p, [PaidInvoice(p, s, tax) EXCEPT !.total = total])
            <4>1. CASE BeginInvoicePayment(p, s)
                <5>1. PICK tax \in Taxes :
                        NotInvoiced(s) /\ BeginInsert(p, PaidInvoice(p, s, tax))
                    BY <4>1 DEF BeginInvoicePayment
                <5>2. PICK total \in Totals : total = Subtotal + tax
                    BY <2>1
                <5>3. PaidInvoice(p, s, tax) = [PaidInvoice(p, s, tax) EXCEPT !.total = total]
                    <6>1. PaidInvoice(p, s, tax) =
                            [number |-> NextNumber, status |-> "PAID", tax |-> tax,
                             total |-> total, session |-> {s}, by |-> p, late |-> 0]
                        BY <5>2 DEF PaidInvoice, NewInvoice
                    <6>2. QED
                        BY <6>1
                <5>4. QED
                    BY <5>1, <5>3
            <4>2. CASE BeginReceipt(p, s)
                BY <2>1, <4>2 DEF BeginReceipt
            <4>3. QED
                BY <3>0, <4>1, <4>2
        <3>2. [PaidInvoice(p, s, tax) EXCEPT !.total = total] =
                [number |-> NextNumber, status |-> "PAID", tax |-> tax,
                 total |-> total, session |-> {s}, by |-> p, late |-> 0]
            <4>1. PaidInvoice(p, s, tax) =
                    [number |-> NextNumber, status |-> "PAID", tax |-> tax,
                     total |-> Subtotal + tax, session |-> {s}, by |-> p, late |-> 0]
                BY DEF PaidInvoice, NewInvoice
            <4>2. QED
                BY <4>1
        <3>3. \A i \in DOMAIN invoice : invoice[i].session \cap {s} = {}
            BY <3>1 DEF NotInvoiced
        <3>4. "PAID" \in InvoiceStatus /\ {s} \in SUBSET PaidSessions
            BY DEF InvoiceStatus
        <3>5. QED
            BY <3>1, <3>2, <3>3, <3>4
    <2>5. QED
        BY <2>2, <2>3, <2>4
<1>2. PICK row : row = [number |-> NextNumber, status |-> status, tax |-> tax,
                        total |-> total, session |-> session, by |-> p, late |-> 0]
    OBVIOUS
<1>3. /\ row \in InvoiceRow
      /\ row.by = p /\ row.late = 0 /\ row.number = NextNumber
      /\ row.session = session /\ row.status = status
    BY <1>2, NewInvoiceIsARow
<1>4. \A i \in RowsOf(p) : invoice[i].session \cap row.session = {}
    BY <1>1, <1>3 DEF RowsOf
<1>5. BeginInsert(p, row)
    BY <1>1, <1>2
<1>6. QED
    BY <1>1, <1>3, <1>4, <1>5, InsertDraftKeeps

\* The requests that edit.
LEMMA EditsKeep ==
    ASSUME NInv, NEW p \in Clerks, NEW i \in DOMAIN invoice,
           BeginUpdateInvoice(p, i) \/ BeginSend(p, i) \/ BeginCancelInvoice(p, i)
    PROVE  NInv'
<1>1. PICK set : /\ BeginWrite(p, i, set) /\ SoundColumns(set)
                 /\ "total" \in DOMAIN set => invoice[i].status = "DRAFT"
                 /\ invoice[i].status # "PAID"
    <2>1. CASE BeginUpdateInvoice(p, i)
        <3>1. PICK tax \in Taxes : /\ invoice[i].status = "DRAFT"
                                   /\ BeginWrite(p, i, [tax |-> tax, total |-> Subtotal + tax])
            BY <2>1 DEF BeginUpdateInvoice
        <3>2. PICK total \in Totals : total = Subtotal + tax
            BY DEF Totals
        <3>3. PICK set : set = [tax |-> tax, total |-> total]
            OBVIOUS
        <3>4. DOMAIN set = {"tax", "total"} /\ set["tax"] = tax /\ set["total"] = total
            BY <3>3
        <3>5. SoundColumns(set)
            BY <3>4 DEF SoundColumns
        <3>6. QED
            BY <3>1, <3>2, <3>3, <3>5
    <2>2. CASE BeginSend(p, i)
        <3>1. PICK set : set = [status |-> "SENT"]
            OBVIOUS
        <3>2. DOMAIN set = {"status"} /\ set["status"] = "SENT"
            BY <3>1
        <3>3. QED
            BY <2>2, <3>1, <3>2 DEF BeginSend, SoundColumns
    <2>3. CASE BeginCancelInvoice(p, i)
        <3>1. PICK set : set = [status |-> "CANCELLED"]
            OBVIOUS
        <3>2. DOMAIN set = {"status"} /\ set["status"] = "CANCELLED"
            BY <3>1
        <3>3. QED
            BY <2>3, <3>1, <3>2 DEF BeginCancelInvoice, SoundColumns
    <2>4. QED
        BY <2>1, <2>2, <2>3
<1>2. PICK d : d = [kind |-> "write", at |-> i, set |-> set]
    OBVIOUS
<1>3. DOMAIN d = {"kind", "at", "set"} /\ d.kind = "write" /\ d.at = i /\ d.set = set
    BY <1>2
<1>4. invoice[i].session = {}
    BY <1>1 DEF NInv
<1>5. SoundWrite(d)
    BY <1>1, <1>3, <1>4 DEF SoundWrite
<1>6. /\ clerk[p] = NoDraft /\ clerk' = [clerk EXCEPT ![p] = d]
      /\ UNCHANGED invoice /\ edits' \in 0..MaxEdits
    <2>1. edits' \in 0..MaxEdits
        BY <1>1, InvoiceAssumption DEF BeginWrite, NInv, InvoiceTypeOK
    <2>2. QED
        BY <1>1, <1>2, <2>1 DEF BeginWrite
<1>7. QED
    BY <1>1, <1>3, <1>5, <1>6, DraftKeeps

\* The row after an edit.
LEMMA RewrittenRow ==
    ASSUME NEW row \in InvoiceRow, NEW set, SoundColumns(set)
    PROVE  LET new == Rewritten(row, set) IN
           /\ new \in InvoiceRow
           /\ new.number = row.number /\ new.session = row.session /\ new.by = row.by
           /\ new.status = IF "status" \in DOMAIN set THEN set["status"] ELSE row.status
           /\ new.late = IF "total" \in DOMAIN set /\ row.status # "DRAFT"
                         THEN row.late + 1 ELSE row.late
<1> DEFINE o == Overlay(set, row)
<1>1. DOMAIN row = InvoiceColumns
    BY DEF InvoiceColumns, InvoiceRow
<1>2. DOMAIN set \subseteq InvoiceColumns
    BY DEF SoundColumns, InvoiceColumns
<1>3. o = [c \in InvoiceColumns |-> IF c \in DOMAIN set THEN set[c] ELSE row[c]]
    BY <1>1, <1>2 DEF Overlay
<1>4. \A c \in InvoiceColumns : o[c] = IF c \in DOMAIN set THEN set[c] ELSE row[c]
    BY <1>3
<1>5. o = [c \in InvoiceColumns |-> o[c]]
    BY <1>3
<1>6. Rewritten(row, set) = IF "total" \in DOMAIN set /\ row.status # "DRAFT"
                            THEN [o EXCEPT !.late = row.late + 1] ELSE o
    BY DEF Rewritten
<1> HIDE DEF o
<1>7. \A c \in {"number", "session", "by", "late"} : c \notin DOMAIN set
    BY DEF SoundColumns
<1>8. /\ o["number"] = row["number"] /\ o["session"] = row["session"]
      /\ o["by"] = row["by"] /\ o["late"] = row["late"]
    BY <1>4, <1>7 DEF InvoiceColumns
<1>9. o["status"] = IF "status" \in DOMAIN set THEN set["status"] ELSE row["status"]
    BY <1>4 DEF InvoiceColumns
<1>10. o["tax"] \in Taxes /\ o["total"] \in Totals /\ o["status"] \in InvoiceStatus
    <2>1. row["tax"] \in Taxes /\ row["total"] \in Totals /\ row["status"] \in InvoiceStatus
        BY DEF InvoiceRow, Totals
    <2>2. QED
        BY <1>4, <2>1 DEF InvoiceColumns, SoundColumns, InvoiceStatus
<1>11. o \in InvoiceRow
    <2>1. /\ o["number"] \in Nat /\ o["session"] \in SUBSET PaidSessions
          /\ o["by"] \in Clerks /\ o["late"] \in Nat
        BY <1>8 DEF InvoiceRow
    <2>2. QED
        BY <1>5, <1>10, <2>1 DEF InvoiceRow, InvoiceColumns, Totals
<1>12. PICK late \in Nat : late = row.late + 1
    BY DEF InvoiceRow
<1>13. /\ [o EXCEPT !.late = late] \in InvoiceRow
       /\ \A c \in InvoiceColumns \ {"late"} : [o EXCEPT !.late = late][c] = o[c]
       /\ [o EXCEPT !.late = late]["late"] = late
    BY <1>11 DEF InvoiceRow, InvoiceColumns
<1>14. QED
    BY <1>6, <1>8, <1>9, <1>11, <1>12, <1>13 DEF InvoiceColumns

\* The commit of a new invoice.
LEMMA CommitInsertKeeps ==
    ASSUME NInv, NEW p \in Clerks, CommitInvoice(p), SoundInsert(p, clerk[p])
    PROVE  NInv'
<1>1. PICK row : row = clerk[p].row
    OBVIOUS
<1>2. /\ row \in InvoiceRow /\ row.by = p /\ row.late = 0
      /\ row.number <= Len(invoice) + 1
      /\ row.session # {} => row.status = "PAID"
      /\ \A i \in RowsOf(p) : /\ invoice[i].number < row.number
                              /\ invoice[i].session \cap row.session = {}
    BY <1>1 DEF SoundInsert
<1>3. /\ invoice' = Append(invoice, row)
      /\ clerk' = [clerk EXCEPT ![p] = NoDraft] /\ UNCHANGED edits
    BY <1>1 DEF CommitInvoice, SoundInsert
<1>4. /\ invoice \in Seq(InvoiceRow) /\ Len(invoice) \in Nat
      /\ DOMAIN invoice = 1..Len(invoice)
    BY InvoiceFacts
<1>5. PICK n : n = Len(invoice) + 1
    OBVIOUS
<1>6. /\ invoice' \in Seq(InvoiceRow) /\ Len(invoice') = n
      /\ DOMAIN invoice' = 1..n /\ invoice'[n] = row
      /\ \A i \in DOMAIN invoice : invoice'[i] = invoice[i]
      /\ DOMAIN invoice' = DOMAIN invoice \cup {n}
      /\ n \notin DOMAIN invoice /\ n \in Nat
      /\ \A i \in DOMAIN invoice : i < n
    <2>1. /\ invoice' \in Seq(InvoiceRow) /\ Len(invoice') = Len(invoice) + 1
          /\ \A i \in 1..Len(invoice) : invoice'[i] = invoice[i]
          /\ invoice'[Len(invoice) + 1] = row
        BY <1>2, <1>3, <1>4, AppendProperties
    <2>2. DOMAIN invoice' = 1..n
        BY <1>5, <2>1
    <2>3. QED
        BY <1>4, <1>5, <2>1, <2>2
<1>7. /\ DOMAIN clerk' = Clerks /\ clerk'[p] = NoDraft
      /\ \A q \in Clerks \ {p} : clerk'[q] = clerk[q]
    BY <1>3 DEF NInv
<1>8. \A q \in Clerks \ {p} : RowsOf(q)' = RowsOf(q)
    BY <1>2, <1>6 DEF RowsOf
<1>9. RowsOf(p)' = RowsOf(p) \cup {n}
    BY <1>2, <1>6 DEF RowsOf
<1>10. \A q \in Clerks : RowsOf(q) \subseteq DOMAIN invoice
    BY DEF RowsOf
<1>11. \A q \in Clerks : SoundClerk(q)'
    <2> SUFFICES ASSUME NEW q \in Clerks PROVE SoundClerk(q)'
        OBVIOUS
    <2>1. CASE q = p
        BY <1>7, <2>1 DEF SoundClerk
    <2>2. CASE q # p
        <3>1. clerk'[q] = clerk[q] /\ SoundClerk(q)
            BY <1>7, <2>2 DEF NInv
        <3>2. CASE clerk[q] = NoDraft
            BY <3>1, <3>2 DEF SoundClerk
        <3>3. CASE SoundInsert(q, clerk[q])
            <4>1. Len(invoice') = Len(invoice) + 1 /\ clerk[q].row.number \in Nat
                BY <1>5, <1>6, <3>3 DEF SoundInsert, InvoiceRow
            <4>2. clerk[q].row.number <= Len(invoice') + 1
                BY <1>4, <3>3, <4>1 DEF SoundInsert
            <4>3. \A i \in RowsOf(q)' : invoice'[i] = invoice[i] /\ i \in RowsOf(q)
                BY <1>6, <1>8, <1>10, <2>2
            <4>4. SoundInsert(q, clerk[q])'
                BY <3>1, <3>3, <4>2, <4>3 DEF SoundInsert
            <4>5. QED
                BY <4>4 DEF SoundClerk
        <3>4. CASE SoundWrite(clerk[q])
            <4>1. SoundWrite(clerk[q])'
                BY <1>6, <3>1, <3>4 DEF SoundWrite, SoundColumns
            <4>2. QED
                BY <4>1 DEF SoundClerk
        <3>5. QED
            BY <3>1, <3>2, <3>3, <3>4 DEF SoundClerk
    <2>3. QED
        BY <2>1, <2>2
<1>12. InvoiceTypeOK'
    <2>1. \A q \in Clerks :
            \/ clerk'[q] = NoDraft
            \/ clerk'[q].kind = "insert" /\ clerk'[q].row \in InvoiceRow
            \/ clerk'[q].kind = "write" /\ clerk'[q].at \in DOMAIN invoice'
        BY <1>11 DEF SoundClerk, SoundInsert, SoundWrite
    <2>2. QED
        BY <1>3, <1>6, <2>1 DEF NInv, InvoiceTypeOK
<1>13. \A i \in DOMAIN invoice : Editors(i)' = Editors(i)
    <2> SUFFICES ASSUME NEW i \in DOMAIN invoice PROVE Editors(i)' = Editors(i)
        OBVIOUS
    <2>1. p \notin Editors(i) /\ p \notin Editors(i)'
        BY <1>7 DEF Editors, SoundInsert
    <2>2. \A q \in Clerks \ {p} : q \in Editors(i)' <=> q \in Editors(i)
        BY <1>7 DEF Editors
    <2>3. QED
        BY <2>1, <2>2 DEF Editors
<1>14. Editors(n)' = {}
    <2> SUFFICES ASSUME NEW q \in Editors(n)' PROVE FALSE
        OBVIOUS
    <2>1. q \in Clerks /\ clerk'[q] # NoDraft /\ clerk'[q].kind = "write" /\ clerk'[q].at = n
        BY DEF Editors
    <2>2. q # p /\ clerk'[q] = clerk[q]
        BY <1>7, <2>1
    <2>3. clerk[q].at \in DOMAIN invoice
        BY <2>1, <2>2 DEF NInv, SoundClerk, SoundInsert, SoundWrite
    <2>4. QED
        BY <1>6, <2>1, <2>2, <2>3
<1>15. Cardinality(Editors(n)') = 0 /\ 0 < Cardinality(Clerks)
    BY <1>14, EditorsAreFew, FS_EmptySet
<1>16. \A i \in DOMAIN invoice' :
         /\ invoice'[i].number <= i
         /\ invoice'[i].session # {} => invoice'[i].status = "PAID"
         /\ invoice'[i].status = "DRAFT" => invoice'[i].late = 0
         /\ invoice'[i].status # "DRAFT" =>
              invoice'[i].late + Cardinality(Editors(i)') < Cardinality(Clerks)
    <2> SUFFICES ASSUME NEW i \in DOMAIN invoice'
         PROVE  /\ invoice'[i].number <= i
                /\ invoice'[i].session # {} => invoice'[i].status = "PAID"
                /\ invoice'[i].status = "DRAFT" => invoice'[i].late = 0
                /\ invoice'[i].status # "DRAFT" =>
                     invoice'[i].late + Cardinality(Editors(i)') < Cardinality(Clerks)
        OBVIOUS
    <2>1. CASE i = n
        BY <1>2, <1>5, <1>6, <1>15, <2>1
    <2>2. CASE i \in DOMAIN invoice
        BY <1>6, <1>13, <2>2 DEF NInv
    <2>3. QED
        BY <1>6, <2>1, <2>2
<1>17. \A i \in DOMAIN invoice' :
         (invoice[i].status # "DRAFT" =>
              invoice[i].late + Cardinality(Editors(i)) < Cardinality(Clerks))'
    BY <1>16
<1>18. NumbersPerProcess'
    <2> SUFFICES ASSUME NEW q \in Clerks, NEW i \in RowsOf(q)', NEW j \in RowsOf(q)', i < j
                 PROVE  invoice'[i].number < invoice'[j].number
        BY DEF NumbersPerProcess
    <2>1. CASE i \in RowsOf(q) /\ j \in RowsOf(q)
        BY <1>6, <1>10, <2>1 DEF NInv, NumbersPerProcess
    <2>2. CASE q = p /\ j = n /\ i \in RowsOf(p)
        BY <1>2, <1>6, <1>10, <2>2
    <2>3. CASE q = p /\ i = n
        <3>1. j = n \/ j < n
            BY <1>6, <1>9, <1>10, <2>3
        <3>2. QED
            BY <1>6, <2>3, <3>1, <1>9, <1>10, <1>4
    <2>4. QED
        BY <1>8, <1>9, <2>1, <2>2, <2>3
<1>19. InvoicedOncePerProcess'
    <2> SUFFICES ASSUME NEW q \in Clerks, NEW i \in RowsOf(q)', NEW j \in RowsOf(q)', i # j
                 PROVE  invoice'[i].session \cap invoice'[j].session = {}
        BY DEF InvoicedOncePerProcess
    <2>1. CASE i \in RowsOf(q) /\ j \in RowsOf(q)
        BY <1>6, <1>10, <2>1 DEF NInv, InvoicedOncePerProcess
    <2>2. CASE q = p /\ j = n /\ i \in RowsOf(p)
        BY <1>2, <1>6, <1>10, <2>2
    <2>3. CASE q = p /\ i = n /\ j \in RowsOf(p)
        BY <1>2, <1>6, <1>10, <2>3
    <2>4. QED
        BY <1>8, <1>9, <2>1, <2>2, <2>3
<1>20. QED
    BY <1>7, <1>11, <1>12, <1>16, <1>17, <1>18, <1>19 DEF NInv

\* The commit of an edit: what is edited late was about to be edited when the
\* invoice was sent, and each process held one such edit.
LEMMA CommitWriteKeepsInvoices ==
    ASSUME NInv, NEW p \in Clerks, CommitInvoice(p), SoundWrite(clerk[p])
    PROVE  NInv'
<1>1. PICK n, set : n = clerk[p].at /\ set = clerk[p].set
    OBVIOUS
<1>2. /\ n \in DOMAIN invoice /\ SoundColumns(set) /\ invoice[n].session = {}
      /\ clerk[p].kind = "write" /\ clerk[p] # NoDraft
    BY <1>1 DEF SoundWrite, CommitInvoice
<1>3. PICK new : new = Rewritten(invoice[n], set)
    OBVIOUS
<1>4. /\ invoice' = [invoice EXCEPT ![n] = new]
      /\ clerk' = [clerk EXCEPT ![p] = NoDraft] /\ UNCHANGED edits
    BY <1>1, <1>2, <1>3 DEF CommitInvoice
<1>5. /\ invoice \in Seq(InvoiceRow) /\ Len(invoice) \in Nat
      /\ DOMAIN invoice = 1..Len(invoice)
      /\ \A i \in DOMAIN invoice : invoice[i] \in InvoiceRow
    BY InvoiceFacts
<1>6. /\ new \in InvoiceRow
      /\ new.number = invoice[n].number /\ new.session = {} /\ new.by = invoice[n].by
      /\ new.status = IF "status" \in DOMAIN set THEN set["status"] ELSE invoice[n].status
      /\ new.late = IF "total" \in DOMAIN set /\ invoice[n].status # "DRAFT"
                    THEN invoice[n].late + 1 ELSE invoice[n].late
    BY <1>2, <1>3, <1>5, RewrittenRow
<1>7. /\ invoice' \in Seq(InvoiceRow) /\ Len(invoice') = Len(invoice)
      /\ DOMAIN invoice' = DOMAIN invoice /\ invoice'[n] = new
      /\ \A i \in DOMAIN invoice \ {n} : invoice'[i] = invoice[i]
    BY <1>2, <1>4, <1>5, <1>6, ExceptSeq
<1>8. \A i \in DOMAIN invoice : /\ invoice'[i].number = invoice[i].number
                                /\ invoice'[i].session = invoice[i].session
                                /\ invoice'[i].by = invoice[i].by
    BY <1>2, <1>6, <1>7
<1>9. \A q \in Clerks : RowsOf(q)' = RowsOf(q) /\ RowsOf(q) \subseteq DOMAIN invoice
    BY <1>7, <1>8 DEF RowsOf
<1>10. /\ DOMAIN clerk' = Clerks /\ clerk'[p] = NoDraft
       /\ \A q \in Clerks \ {p} : clerk'[q] = clerk[q]
    BY <1>4 DEF NInv
<1>11. \A q \in Clerks : SoundClerk(q)'
    <2> SUFFICES ASSUME NEW q \in Clerks PROVE SoundClerk(q)'
        OBVIOUS
    <2>1. CASE q = p
        BY <1>10, <2>1 DEF SoundClerk
    <2>2. CASE q # p
        <3>1. clerk'[q] = clerk[q] /\ SoundClerk(q)
            BY <1>10, <2>2 DEF NInv
        <3>2. CASE clerk[q] = NoDraft
            BY <3>1, <3>2 DEF SoundClerk
        <3>3. CASE SoundInsert(q, clerk[q])
            <4>1. \A i \in RowsOf(q)' : /\ i \in RowsOf(q)
                                        /\ invoice'[i].number = invoice[i].number
                                        /\ invoice'[i].session = invoice[i].session
                BY <1>8, <1>9
            <4>2. SoundInsert(q, clerk[q])'
                BY <1>7, <3>1, <3>3, <4>1 DEF SoundInsert
            <4>3. QED
                BY <4>2 DEF SoundClerk
        <3>4. CASE SoundWrite(clerk[q])
            <4>1. SoundWrite(clerk[q])'
                BY <1>7, <1>8, <3>1, <3>4 DEF SoundWrite, SoundColumns
            <4>2. QED
                BY <4>1 DEF SoundClerk
        <3>5. QED
            BY <3>1, <3>2, <3>3, <3>4 DEF SoundClerk
    <2>3. QED
        BY <2>1, <2>2
<1>12. InvoiceTypeOK'
    <2>1. \A q \in Clerks :
            \/ clerk'[q] = NoDraft
            \/ clerk'[q].kind = "insert" /\ clerk'[q].row \in InvoiceRow
            \/ clerk'[q].kind = "write" /\ clerk'[q].at \in DOMAIN invoice'
        BY <1>11 DEF SoundClerk, SoundInsert, SoundWrite
    <2>2. QED
        BY <1>4, <1>7, <2>1 DEF NInv, InvoiceTypeOK
<1>13. \A i : Editors(i)' = Editors(i) \ {p}
    <2> SUFFICES ASSUME NEW i PROVE Editors(i)' = Editors(i) \ {p}
        OBVIOUS
    <2>1. p \notin Editors(i)'
        BY <1>10 DEF Editors
    <2>2. \A q \in Clerks \ {p} : q \in Editors(i)' <=> q \in Editors(i)
        BY <1>10 DEF Editors
    <2>3. QED
        BY <2>1, <2>2 DEF Editors
<1>14. \A i : /\ Cardinality(Editors(i)') <= Cardinality(Editors(i))
              /\ p \in Editors(i) => Cardinality(Editors(i)') = Cardinality(Editors(i)) - 1
              /\ Cardinality(Editors(i)') < Cardinality(Clerks)
              /\ Cardinality(Editors(i)') \in Nat
    <2> SUFFICES ASSUME NEW i
                 PROVE  /\ Cardinality(Editors(i)') <= Cardinality(Editors(i))
                        /\ p \in Editors(i) => Cardinality(Editors(i)') = Cardinality(Editors(i)) - 1
                        /\ Cardinality(Editors(i)') < Cardinality(Clerks)
                        /\ Cardinality(Editors(i)') \in Nat
        OBVIOUS
    <2>1. /\ IsFiniteSet(Clerks) /\ Cardinality(Clerks) \in Nat
          /\ IsFiniteSet(Editors(i)) /\ Cardinality(Editors(i)) \in Nat
        BY EditorsAreFew
    <2>2. IsFiniteSet(Clerks \ {p}) /\ Cardinality(Clerks \ {p}) = Cardinality(Clerks) - 1
        BY <2>1, FS_RemoveElement
    <2>3. Editors(i)' \subseteq Clerks \ {p} /\ Editors(i)' = Editors(i) \ {p}
        BY <1>13 DEF Editors
    <2>4. /\ IsFiniteSet(Editors(i)') /\ Cardinality(Editors(i)') \in Nat
          /\ Cardinality(Editors(i)') <= Cardinality(Clerks \ {p})
        BY <2>2, <2>3, FS_Subset, FS_CardinalityType
    <2>5. Cardinality(Editors(i)') = IF p \in Editors(i) THEN Cardinality(Editors(i)) - 1
                                     ELSE Cardinality(Editors(i))
        BY <2>1, <2>3, FS_RemoveElement
    <2>6. QED
        BY <2>1, <2>2, <2>4, <2>5
<1>15. "total" \in DOMAIN set <=> p \in Editors(n)
    BY <1>1, <1>2 DEF Editors
<1>16. \A i \in DOMAIN invoice' :
         /\ invoice'[i].status = "DRAFT" => invoice'[i].late = 0
         /\ invoice'[i].status # "DRAFT" =>
              invoice'[i].late + Cardinality(Editors(i)') < Cardinality(Clerks)
    <2> SUFFICES ASSUME NEW i \in DOMAIN invoice
         PROVE  /\ invoice'[i].status = "DRAFT" => invoice'[i].late = 0
                /\ invoice'[i].status # "DRAFT" =>
                     invoice'[i].late + Cardinality(Editors(i)') < Cardinality(Clerks)
        BY <1>7
    <2>1. /\ Cardinality(Clerks) \in Nat /\ Cardinality(Editors(i)) \in Nat
          /\ invoice[i].late \in Nat
        BY <1>5, EditorsAreFew DEF InvoiceRow
    <2>2. CASE i # n
        <3>1. invoice'[i] = invoice[i]
            BY <1>7, <2>2
        <3>2. QED
            BY <1>14, <2>1, <3>1 DEF NInv
    <2>3. CASE i = n /\ "total" \in DOMAIN set
        <3>1. invoice'[i].status = invoice[i].status
            BY <1>2, <1>6, <1>7, <2>3 DEF SoundColumns
        <3>2. invoice'[i].late = IF invoice[i].status # "DRAFT"
                                 THEN invoice[i].late + 1 ELSE invoice[i].late
            BY <1>6, <1>7, <2>3
        <3>3. QED
            BY <1>14, <1>15, <2>1, <2>3, <3>1, <3>2 DEF NInv
    <2>4. CASE i = n /\ "total" \notin DOMAIN set
        <3>1. invoice'[i].status # "DRAFT" /\ invoice'[i].late = invoice[i].late
            BY <1>2, <1>6, <1>7, <2>4 DEF SoundColumns
        <3>2. CASE invoice[i].status = "DRAFT"
            BY <1>14, <2>1, <3>1, <3>2 DEF NInv
        <3>3. CASE invoice[i].status # "DRAFT"
            BY <1>14, <2>1, <3>1, <3>3 DEF NInv
        <3>4. QED
            BY <3>2, <3>3
    <2>5. QED
        BY <2>2, <2>3, <2>4
<1>17. \A i \in DOMAIN invoice' :
         (invoice[i].status # "DRAFT" =>
              invoice[i].late + Cardinality(Editors(i)) < Cardinality(Clerks))'
    BY <1>16
<1>18. \A i \in DOMAIN invoice' : /\ invoice'[i].number <= i
                                  /\ invoice'[i].session # {} => invoice'[i].status = "PAID"
    BY <1>6, <1>7, <1>8 DEF NInv
<1>19. NumbersPerProcess' /\ InvoicedOncePerProcess'
    BY <1>8, <1>9 DEF NInv, NumbersPerProcess, InvoicedOncePerProcess
<1>20. QED
    BY <1>10, <1>11, <1>12, <1>16, <1>17, <1>18, <1>19 DEF NInv

\* Every step keeps the invariant.
LEMMA InvoiceStepKeeps ==
    ASSUME NInv, [InvoiceNext]_invoiceVars
    PROVE  NInv'
<1>1. CASE UNCHANGED invoiceVars
    <2>1. UNCHANGED <<invoice, clerk, edits>>
        BY <1>1 DEF invoiceVars
    <2>2. \A i : Editors(i)' = Editors(i)
        BY <2>1 DEF Editors
    <2>3. \A p \in Clerks : SoundClerk(p)'
        BY <2>1 DEF NInv, SoundClerk, SoundInsert, SoundWrite, SoundColumns, RowsOf
    <2>4. \A i \in DOMAIN invoice' :
         (invoice[i].status # "DRAFT" =>
              invoice[i].late + Cardinality(Editors(i)) < Cardinality(Clerks))'
        BY <2>1, <2>2 DEF NInv
    <2>5. QED
        BY <2>1, <2>3, <2>4 DEF NInv, InvoiceTypeOK, NumbersPerProcess,
                                InvoicedOncePerProcess, RowsOf
<1>2. ASSUME NEW p \in Clerks, ClerkStep(p)
      PROVE  NInv'
    <2>1. CASE CommitInvoice(p)
        <3>1. SoundInsert(p, clerk[p]) \/ SoundWrite(clerk[p])
            BY <2>1 DEF CommitInvoice, NInv, SoundClerk
        <3>2. QED
            BY <2>1, <3>1, CommitInsertKeeps, CommitWriteKeepsInvoices
    <2>2. QED
        BY <1>2, <2>1, InsertsKeep, EditsKeep DEF ClerkStep
<1>3. QED
    BY <1>1, <1>2 DEF InvoiceNext

\* It holds with no invoice.
LEMMA InvoiceInitially ==
    ASSUME InvoiceInit
    PROVE  NInv
<1>1. invoice = <<>> /\ DOMAIN invoice = {} /\ invoice \in Seq(InvoiceRow)
    BY DEF InvoiceInit
<1>2. DOMAIN clerk = Clerks /\ \A p \in Clerks : clerk[p] = NoDraft
    BY DEF InvoiceInit
<1>3. edits \in 0..MaxEdits
    BY InvoiceAssumption DEF InvoiceInit
<1>4. \A p : RowsOf(p) = {}
    BY <1>1 DEF RowsOf
<1>5. QED
    BY <1>1, <1>2, <1>3, <1>4 DEF NInv, InvoiceTypeOK, SoundClerk, NumbersPerProcess,
                                  InvoicedOncePerProcess

\* The inductive invariant of the invoices is an invariant.
THEOREM InvoiceInvariant == InvoiceSpec => []NInv
<1>1. InvoiceInit => NInv
    BY InvoiceInitially
<1>2. NInv /\ [InvoiceNext]_invoiceVars => NInv'
    BY InvoiceStepKeeps
<1>3. QED
    BY <1>1, <1>2, PTL DEF InvoiceSpec

\* One process never gives a number twice nor invoices a payment twice, a
\* paid invoice of a payment stays paid, and fewer edits come after sending
\* than there are processes.
THEOREM InvoicesHoldAlways == InvoiceSpec => []InvoicesHold
<1>1. NInv => InvoicesHold
    <2> SUFFICES ASSUME NInv PROVE InvoicesHold
        OBVIOUS
    <2>1. EditsAfterSending
        <3> SUFFICES ASSUME NEW i \in DOMAIN invoice
                     PROVE  invoice[i].late < Cardinality(Clerks)
            BY DEF EditsAfterSending
        <3>1. /\ Cardinality(Clerks) \in Nat /\ Cardinality(Editors(i)) \in Nat
              /\ invoice[i].late \in Nat /\ invoice[i].by \in Clerks
            BY InvoiceFacts, EditorsAreFew DEF InvoiceRow
        <3>2. Cardinality(Clerks) # 0
            BY <3>1, EditorsAreFew, FS_EmptySet
        <3>3. QED
            BY <3>1, <3>2 DEF NInv
    <2>2. PaymentsInvoicesStayPaid
        BY DEF NInv, PaymentsInvoicesStayPaid
    <2>3. QED
        BY <2>1, <2>2 DEF NInv, InvoicesHold
<1>2. QED
    BY <1>1, InvoiceInvariant, PTL

(***************************************************************************)
(* Withdrawals and the plan.  What a process decided was decided when its  *)
(* own rows left room for it, and those only shrink until it commits.      *)
(***************************************************************************)
\* Sums and sets of rows, for any list of rows.
AmountsOf(w, S) == MapThenSumSet(LAMBDA i : w[i].amount, S)
PendingIn(w) == {i \in DOMAIN w : w[i].status = "pending"}
OwnPending(w, p) == {i \in PendingIn(w) : w[i].by = p}
Day(t) == t \div DayLength
SameDay(w, S, t) == {i \in S : Day(w[i].at) = Day(t)}
Before(w, p, i) == {j \in OwnPending(w, p) : j < i}

RowFits(w, p, i) ==
    /\ AmountsOf(w, SameDay(w, Before(w, p, i) \cup ({i} \cap PendingIn(w)), w[i].at))
         <= Limits[w[i].under].daily
    /\ \A j \in Before(w, p, i) : w[j].at + Limits[w[i].under].cooldown <= w[i].at

\* What a process is about to insert was decided when what it has pending, and
\* that only shrinks, left room for it.
InsertFits(w, p, row) ==
    /\ row \in WithdrawalRow /\ row.by = p /\ row.status = "pending"
    /\ \A i \in OwnPending(w, p) : w[i].at + Limits[row.under].cooldown <= row.at
    /\ AmountsOf(w, SameDay(w, OwnPending(w, p), row.at)) + row.amount
         <= Limits[row.under].daily
    /\ AmountsOf(w, OwnPending(w, p)) + row.amount <= MaxBalance

PlanKeys == {"tier", "price", "volume", "team"}

\* A draft of the plan sets the status alone, or all that follows the tier.
SoundPlan(c) ==
    \/ DOMAIN c = {}
    \/ DOMAIN c = {"status"} /\ c["status"] \in {"active", "cancelled"}
    \/ /\ PlanKeys \subseteq DOMAIN c /\ DOMAIN c \subseteq {"tier"} \cup PlanColumns
       /\ c["tier"] \in Tiers
       /\ \A x \in PlanColumns : x \in DOMAIN c => c[x] = Plans[c["tier"]][x]

SoundDraft(w, p, now, d) ==
    /\ DOMAIN d = {"insert", "cancel", "plan", "tier", "seen"}
    /\ \/ d.insert = {}
       \/ \E row \in WithdrawalRow :
            d.insert = {row} /\ InsertFits(w, p, row) /\ row.at <= now
    /\ d.cancel \subseteq DOMAIN w /\ d.tier \subseteq Tiers
    /\ SoundPlan(d.plan)

RowsFit(w, now) ==
    /\ \A i \in DOMAIN w : w[i].at <= now /\ RowFits(w, w[i].by, i)
    /\ \A p \in Cashiers : AmountsOf(w, OwnPending(w, p)) <= MaxBalance

WInv ==
    /\ WithdrawalTypeOK
    /\ minute \in 0..MaxMinute
    /\ DOMAIN cashier = Cashiers
    /\ DOMAIN plan = {"tier", "status"} \cup PlanColumns
    /\ RowsFit(withdrawal, minute)
    /\ \A p \in Cashiers : SoundDraft(withdrawal, p, minute, cashier[p])
    /\ PriceFollowsTier

\* A moment between two of one day is of that day.
LEMMA DaysInOrder ==
    ASSUME NEW a \in Nat, NEW b \in Nat, NEW c \in Nat, a <= b, b <= c, Day(a) = Day(c)
    PROVE  Day(a) = Day(b)
<1>1. PICK D \in Nat : D = DayLength /\ D > 0
    BY WithdrawalAssumption
<1>2. a \div D <= b \div D /\ b \div D <= c \div D
    BY <1>1
<1>3. a \div D \in Int /\ b \div D \in Int /\ c \div D \in Int
    BY <1>1
<1>4. a \div D = c \div D
    BY <1>1 DEF Day
<1>5. a \div D = b \div D
    BY <1>2, <1>3, <1>4
<1>6. QED
    BY <1>1, <1>5 DEF Day

\* The types of the rows.
LEMMA RowTypes ==
    ASSUME NEW w \in Seq(WithdrawalRow)
    PROVE  /\ Len(w) \in Nat /\ DOMAIN w = 1..Len(w) /\ IsFiniteSet(DOMAIN w)
           /\ \A i \in DOMAIN w : /\ w[i] \in WithdrawalRow
                                  /\ w[i].amount \in Nat /\ w[i].at \in Nat
                                  /\ w[i].by \in Cashiers /\ w[i].under \in Tiers
<1>1. Len(w) \in Nat /\ DOMAIN w = 1..Len(w)
    OBVIOUS
<1>2. IsFiniteSet(DOMAIN w)
    BY <1>1, FS_Interval
<1>3. \A i \in DOMAIN w : w[i] \in WithdrawalRow
    OBVIOUS
<1>4. QED
    BY <1>1, <1>2, <1>3, WithdrawalAssumption DEF WithdrawalRow

\* The sum unfolds to a function that adds the amounts up.
LEMMA AmountsAddUp ==
    ASSUME NEW w \in Seq(WithdrawalRow), NEW S \in SUBSET DOMAIN w
    PROVE  \E f, F : /\ SumsOf(S, f, F) /\ AmountsOf(w, S) = F[S]
                     /\ \A i \in S : f[i] = w[i].amount
<1> DEFINE f == [i \in S |-> w[i].amount]
           Adds(iter) == iter = [T \in SUBSET S |->
               IF T = {} THEN 0 ELSE w[Pick(T)].amount + iter[T \ {Pick(T)}]]
           F == CHOOSE iter : Adds(iter)
<1>1. IsFiniteSet(S) /\ \A i \in S : f[i] \in Nat
    BY RowTypes, FS_Subset
<1>2. \A iter : Adds(iter) <=> AddsUp(f, iter, SUBSET S)
    <2>1. \A T \in SUBSET S : T # {} => Pick(T) \in S
        BY PickedElement
    <2>2. \A T \in SUBSET S : T # {} => f[Pick(T)] = w[Pick(T)].amount
        BY <2>1
    <2> HIDE DEF f
    <2>3. \A iter : [T \in SUBSET S |->
                       IF T = {} THEN 0 ELSE w[Pick(T)].amount + iter[T \ {Pick(T)}]]
                  = [T \in SUBSET S |->
                       IF T = {} THEN 0 ELSE f[Pick(T)] + iter[T \ {Pick(T)}]]
        BY <2>2
    <2>4. QED
        BY <2>3 DEF AddsUp
<1>3. PICK iter : SumsOf(S, f, iter)
    <2> HIDE DEF f
    <2>1. QED
        BY <1>1, AddsUpExists
<1>4. Adds(iter)
    BY <1>2, <1>3 DEF SumsOf
<1>5. Adds(F)
    <2> HIDE DEF Adds
    <2>1. QED
        BY <1>4
<1>6. SumsOf(S, f, F)
    <2>1. AddsUp(f, F, SUBSET S)
        <3> HIDE DEF F, f
        <3>1. QED
            BY <1>2, <1>5
    <2> HIDE DEF F, f
    <2>2. QED
        BY <1>1, <2>1 DEF SumsOf
<1>7. AmountsOf(w, S) = F[S]
    BY DEF AmountsOf, MapThenSumSet, MapThenFoldSet, Pick
<1>8. \A i \in S : f[i] = w[i].amount
    OBVIOUS
<1> HIDE DEF f, F
<1>9. QED
    BY <1>6, <1>7, <1>8

\* Lists that agree on the amounts have the same sum.
LEMMA AmountsAgree ==
    ASSUME NEW w \in Seq(WithdrawalRow), NEW v \in Seq(WithdrawalRow),
           NEW S \in SUBSET DOMAIN w, S \subseteq DOMAIN v,
           \A i \in S : w[i].amount = v[i].amount
    PROVE  AmountsOf(w, S) = AmountsOf(v, S)
<1>1. PICK f, F : /\ SumsOf(S, f, F) /\ AmountsOf(w, S) = F[S]
                  /\ \A i \in S : f[i] = w[i].amount
    BY AmountsAddUp
<1>2. PICK g, G : /\ SumsOf(S, g, G) /\ AmountsOf(v, S) = G[S]
                  /\ \A i \in S : g[i] = v[i].amount
    <2>1. S \in SUBSET DOMAIN v
        OBVIOUS
    <2>2. QED
        BY <2>1, AmountsAddUp
<1>3. \A i \in S : f[i] = g[i]
    BY <1>1, <1>2
<1>4. F[S] = G[S]
    BY <1>1, <1>2, <1>3, AddsUpAgree
<1>5. QED
    BY <1>1, <1>2, <1>4

\* Sums of amounts: natural, monotone, and split over disjoint sets.
LEMMA AmountFacts ==
    ASSUME NEW w \in Seq(WithdrawalRow), NEW S \in SUBSET DOMAIN w
    PROVE  /\ AmountsOf(w, S) \in Nat
           /\ S = {} => AmountsOf(w, S) = 0
           /\ \A T \in SUBSET S : AmountsOf(w, T) <= AmountsOf(w, S)
           /\ \A T \in SUBSET S :
                AmountsOf(w, S) = AmountsOf(w, T) + AmountsOf(w, S \ T)
           /\ \A x \in S : AmountsOf(w, S) = w[x].amount + AmountsOf(w, S \ {x})
<1>1. PICK f, F : /\ SumsOf(S, f, F) /\ AmountsOf(w, S) = F[S]
                  /\ \A i \in S : f[i] = w[i].amount
    BY AmountsAddUp
<1>2. \A T \in SUBSET S : AmountsOf(w, T) = F[T]
    <2> SUFFICES ASSUME NEW T \in SUBSET S PROVE AmountsOf(w, T) = F[T]
        OBVIOUS
    <2>1. PICK g, G : /\ SumsOf(T, g, G) /\ AmountsOf(w, T) = G[T]
                      /\ \A i \in T : g[i] = w[i].amount
        <3>1. T \in SUBSET DOMAIN w
            OBVIOUS
        <3>2. QED
            BY <3>1, AmountsAddUp
    <2>2. \A i \in T : f[i] = g[i]
        BY <1>1, <2>1
    <2>3. F[T] = G[T]
        BY <1>1, <2>1, <2>2, AddsUpAgree
    <2>4. QED
        BY <2>1, <2>3
<1>3. /\ F[{}] = 0
      /\ \A T \in SUBSET S : /\ F[T] \in Nat
                             /\ \A x \in T : F[T] = f[x] + F[T \ {x}]
    BY <1>1, AddsUpElement
<1>4. \A T \in SUBSET S : F[T] <= F[S]
    BY <1>1, AddsUpMonotone
<1>5. \A T \in SUBSET S : F[S] = F[T] + F[S \ T]
    <2> SUFFICES ASSUME NEW T \in SUBSET S PROVE F[S] = F[T] + F[S \ T]
        OBVIOUS
    <2>1. F[T \cup (S \ T)] = F[T] + F[S \ T]
        BY <1>1, AddsUpUnion
    <2>2. T \cup (S \ T) = S
        OBVIOUS
    <2>3. QED
        BY <2>1, <2>2
<1>6. \A x \in S : S \ {x} \in SUBSET S
    OBVIOUS
<1>7. QED
    BY <1>1, <1>2, <1>3, <1>4, <1>5, <1>6

\* The rows after a process cancelled one, and after it inserted one.
WithCancelled(w, n) == [w EXCEPT ![n].status = "cancelled"]
WithInserted(w, row, now) == Append(w, [row EXCEPT !.at = now])

\* Rows that stay fit when other rows were cancelled.
LEMMA RowStillFits ==
    ASSUME NEW w \in Seq(WithdrawalRow), NEW v \in Seq(WithdrawalRow),
           NEW p, NEW i \in DOMAIN w, i \in DOMAIN v,
           RowFits(w, p, i), Before(v, p, i) \subseteq Before(w, p, i),
           i \in PendingIn(v) => i \in PendingIn(w),
           v[i].at = w[i].at, v[i].amount = w[i].amount, v[i].under = w[i].under,
           \A j \in Before(v, p, i) : v[j].at = w[j].at /\ v[j].amount = w[j].amount
    PROVE  RowFits(v, p, i)
<1>1. PICK S : S = SameDay(w, Before(w, p, i) \cup ({i} \cap PendingIn(w)), w[i].at)
    OBVIOUS
<1>2. PICK T : T = SameDay(v, Before(v, p, i) \cup ({i} \cap PendingIn(v)), v[i].at)
    OBVIOUS
<1>3. T \subseteq S
    BY <1>1, <1>2 DEF SameDay
<1>4. S \subseteq DOMAIN w /\ T \subseteq DOMAIN v /\ T \subseteq DOMAIN w
    BY <1>1, <1>2, <1>3 DEF SameDay, Before, OwnPending, PendingIn
<1>5. \A j \in T : w[j].amount = v[j].amount
    BY <1>2 DEF SameDay
<1>6. T \in SUBSET DOMAIN w /\ S \in SUBSET DOMAIN w
    BY <1>4
<1>7. AmountsOf(v, T) = AmountsOf(w, T)
    BY <1>4, <1>5, <1>6, AmountsAgree
<1>8. AmountsOf(w, T) <= AmountsOf(w, S) /\ AmountsOf(w, S) \in Nat /\ AmountsOf(w, T) \in Nat
    BY <1>3, <1>6, AmountFacts
<1>9. AmountsOf(w, S) <= Limits[w[i].under].daily /\ Limits[w[i].under].daily \in Nat
    <2>1. AmountsOf(w, S) <= Limits[w[i].under].daily
        BY <1>1 DEF RowFits
    <2>2. w[i].under \in Tiers
        BY RowTypes
    <2>3. QED
        BY <2>1, <2>2, WithdrawalAssumption DEF Tiers
<1>10. AmountsOf(v, T) <= Limits[v[i].under].daily
    BY <1>7, <1>8, <1>9
<1>11. \A j \in Before(v, p, i) : v[j].at + Limits[v[i].under].cooldown <= v[i].at
    BY DEF RowFits
<1>12. QED
    BY <1>2, <1>10, <1>11 DEF RowFits

\* What a process has pending and is about to add, when rows were cancelled.
LEMMA DraftStillFits ==
    ASSUME NEW w \in Seq(WithdrawalRow), NEW v \in Seq(WithdrawalRow), NEW p,
           OwnPending(v, p) \subseteq OwnPending(w, p),
           \A j \in OwnPending(v, p) : v[j].at = w[j].at /\ v[j].amount = w[j].amount
    PROVE  /\ AmountsOf(v, OwnPending(v, p)) <= AmountsOf(w, OwnPending(w, p))
           /\ \A row \in WithdrawalRow : InsertFits(w, p, row) => InsertFits(v, p, row)
<1>1. PICK S, T : S = OwnPending(w, p) /\ T = OwnPending(v, p)
    OBVIOUS
<1>2. S \in SUBSET DOMAIN w /\ T \in SUBSET DOMAIN v /\ T \in SUBSET DOMAIN w /\ T \in SUBSET S
    BY <1>1 DEF OwnPending, PendingIn
<1>3. AmountsOf(v, T) = AmountsOf(w, T)
    BY <1>1, <1>2, AmountsAgree
<1>4. /\ AmountsOf(w, T) <= AmountsOf(w, S)
      /\ AmountsOf(w, S) \in Nat /\ AmountsOf(w, T) \in Nat
    BY <1>2, AmountFacts
<1>5. ASSUME NEW row \in WithdrawalRow, InsertFits(w, p, row) PROVE InsertFits(v, p, row)
    <2>1. PICK A, B : A = SameDay(w, S, row.at) /\ B = SameDay(v, T, row.at)
        OBVIOUS
    <2>2. B \subseteq A
        BY <1>1, <1>2, <2>1 DEF SameDay
    <2>3. A \in SUBSET DOMAIN w /\ B \in SUBSET DOMAIN v /\ B \in SUBSET DOMAIN w
          /\ B \in SUBSET A
        BY <1>2, <2>1, <2>2 DEF SameDay
    <2>4. \A j \in B : w[j].amount = v[j].amount
        BY <1>1, <2>1 DEF SameDay
    <2>5. AmountsOf(v, B) = AmountsOf(w, B)
        BY <2>3, <2>4, AmountsAgree
    <2>6. /\ AmountsOf(w, B) <= AmountsOf(w, A)
          /\ AmountsOf(w, A) \in Nat /\ AmountsOf(w, B) \in Nat
        BY <2>3, AmountFacts
    <2>7. row.amount \in Nat /\ row.under \in Tiers
        BY WithdrawalAssumption DEF WithdrawalRow
    <2>8. /\ Limits[row.under].daily \in Nat /\ MaxBalance \in Nat
        BY <2>7, WithdrawalAssumption DEF Tiers
    <2>9. /\ AmountsOf(w, A) + row.amount <= Limits[row.under].daily
          /\ AmountsOf(w, S) + row.amount <= MaxBalance
        BY <1>1, <1>5, <2>1 DEF InsertFits
    <2>10. /\ AmountsOf(v, B) + row.amount <= Limits[row.under].daily
           /\ AmountsOf(v, T) + row.amount <= MaxBalance
        BY <1>3, <1>4, <2>5, <2>6, <2>7, <2>8, <2>9, SMTT(30)
    <2>11. \A j \in OwnPending(v, p) : v[j].at + Limits[row.under].cooldown <= row.at
        BY <1>5 DEF InsertFits
    <2>12. QED
        BY <1>1, <1>5, <2>1, <2>10, <2>11 DEF InsertFits
<1>6. QED
    BY <1>1, <1>3, <1>4, <1>5

\* A cancelled row leaves all others and all drafts fit.
LEMMA CancelFits ==
    ASSUME NEW w \in Seq(WithdrawalRow), NEW now \in Nat, RowsFit(w, now),
           NEW n \in DOMAIN w, NEW v, v = WithCancelled(w, n)
    PROVE  /\ v \in Seq(WithdrawalRow) /\ DOMAIN v = DOMAIN w
           /\ RowsFit(v, now)
           /\ \A p \in Cashiers : \A row \in WithdrawalRow :
                InsertFits(w, p, row) => InsertFits(v, p, row)
<1>1. PICK r : r = [w[n] EXCEPT !.status = "cancelled"]
    OBVIOUS
<1>2. /\ Len(w) \in Nat /\ DOMAIN w = 1..Len(w)
      /\ \A i \in DOMAIN w : w[i] \in WithdrawalRow
    BY RowTypes
<1>3. /\ r \in WithdrawalRow /\ r.status = "cancelled"
      /\ r.amount = w[n].amount /\ r.at = w[n].at /\ r.by = w[n].by /\ r.under = w[n].under
    BY <1>1, <1>2 DEF WithdrawalRow
<1>4. v = [w EXCEPT ![n] = r]
    BY <1>1 DEF WithCancelled
<1>5. /\ v \in Seq(WithdrawalRow) /\ DOMAIN v = DOMAIN w
      /\ v[n] = r /\ \A i \in DOMAIN w \ {n} : v[i] = w[i]
    BY <1>2, <1>3, <1>4, ExceptSeq
<1>6. \A i \in DOMAIN w : /\ v[i].amount = w[i].amount /\ v[i].at = w[i].at
                          /\ v[i].by = w[i].by /\ v[i].under = w[i].under
    BY <1>3, <1>5
<1>7. PendingIn(v) = PendingIn(w) \ {n}
    BY <1>3, <1>5 DEF PendingIn
<1>8. \A p : /\ OwnPending(v, p) \subseteq OwnPending(w, p)
             /\ OwnPending(v, p) \subseteq DOMAIN w
             /\ \A i : Before(v, p, i) \subseteq Before(w, p, i)
                       /\ Before(v, p, i) \subseteq DOMAIN w
    BY <1>6, <1>7 DEF OwnPending, Before, PendingIn
<1>9. \A p : /\ AmountsOf(v, OwnPending(v, p)) <= AmountsOf(w, OwnPending(w, p))
             /\ \A row \in WithdrawalRow : InsertFits(w, p, row) => InsertFits(v, p, row)
    <2> SUFFICES ASSUME NEW p
                 PROVE  /\ AmountsOf(v, OwnPending(v, p)) <= AmountsOf(w, OwnPending(w, p))
                        /\ \A row \in WithdrawalRow :
                             InsertFits(w, p, row) => InsertFits(v, p, row)
        OBVIOUS
    <2>1. \A j \in OwnPending(v, p) : v[j].at = w[j].at /\ v[j].amount = w[j].amount
        BY <1>6, <1>8
    <2>2. OwnPending(v, p) \subseteq OwnPending(w, p)
        BY <1>8
    <2>3. QED
        BY <1>5, <2>1, <2>2, DraftStillFits
<1>10. \A i \in DOMAIN v : v[i].at <= now /\ RowFits(v, v[i].by, i)
    <2> SUFFICES ASSUME NEW i \in DOMAIN w PROVE v[i].at <= now /\ RowFits(v, v[i].by, i)
        BY <1>5
    <2>1. PICK p : p = w[i].by
        OBVIOUS
    <2>2. w[i].at <= now /\ RowFits(w, p, i)
        BY <2>1 DEF RowsFit
    <2>3. \A j \in Before(v, p, i) : v[j].at = w[j].at /\ v[j].amount = w[j].amount
        BY <1>6, <1>8
    <2>4. Before(v, p, i) \subseteq Before(w, p, i) /\ i \in DOMAIN v
          /\ (i \in PendingIn(v) => i \in PendingIn(w))
        BY <1>5, <1>7, <1>8
    <2>5. v[i].at = w[i].at /\ v[i].amount = w[i].amount /\ v[i].under = w[i].under
        BY <1>6
    <2>6. RowFits(v, p, i)
        BY <1>5, <2>2, <2>3, <2>4, <2>5, RowStillFits
    <2>7. QED
        BY <1>6, <2>1, <2>2, <2>6
<1>11. \A p \in Cashiers : AmountsOf(v, OwnPending(v, p)) <= MaxBalance
    <2> SUFFICES ASSUME NEW p \in Cashiers PROVE AmountsOf(v, OwnPending(v, p)) <= MaxBalance
        OBVIOUS
    <2>1. /\ OwnPending(w, p) \in SUBSET DOMAIN w /\ OwnPending(v, p) \in SUBSET DOMAIN v
        BY DEF OwnPending, PendingIn
    <2>2. AmountsOf(w, OwnPending(w, p)) \in Nat /\ AmountsOf(v, OwnPending(v, p)) \in Nat
        BY <1>5, <2>1, AmountFacts
    <2>3. MaxBalance \in Nat
        BY WithdrawalAssumption
    <2>4. AmountsOf(w, OwnPending(w, p)) <= MaxBalance
        BY DEF RowsFit
    <2>5. AmountsOf(v, OwnPending(v, p)) <= AmountsOf(w, OwnPending(w, p))
        BY <1>9
    <2>6. QED
        BY <2>2, <2>3, <2>4, <2>5
<1>12. QED
    BY <1>5, <1>9, <1>10, <1>11 DEF RowsFit

\* A row that fitted when it was decided fits when it is inserted, on that
\* day or on a later one; what other processes decided still fits.
LEMMA AppendFits ==
    ASSUME NEW w \in Seq(WithdrawalRow), NEW now \in Nat, RowsFit(w, now),
           NEW p \in Cashiers, NEW row \in WithdrawalRow, InsertFits(w, p, row), row.at <= now,
           NEW v, v = WithInserted(w, row, now)
    PROVE  /\ v \in Seq(WithdrawalRow) /\ DOMAIN w \subseteq DOMAIN v
           /\ RowsFit(v, now)
           /\ \A q \in Cashiers \ {p} : \A other \in WithdrawalRow :
                InsertFits(w, q, other) => InsertFits(v, q, other)
<1>1. PICK r, n : r = [row EXCEPT !.at = now] /\ n = Len(w) + 1
    OBVIOUS
<1>2. /\ Len(w) \in Nat /\ DOMAIN w = 1..Len(w)
      /\ \A i \in DOMAIN w : /\ w[i] \in WithdrawalRow /\ w[i].amount \in Nat
                             /\ w[i].at \in Nat /\ w[i].by \in Cashiers /\ w[i].under \in Tiers
    BY RowTypes
<1>3. /\ r \in WithdrawalRow /\ r.status = "pending" /\ r.by = p
      /\ r.amount = row.amount /\ r.at = now /\ r.under = row.under
      /\ row.amount \in Nat /\ row.at \in Nat /\ row.under \in Tiers
    BY <1>1, WithdrawalAssumption DEF WithdrawalRow, InsertFits
<1>4. /\ v \in Seq(WithdrawalRow) /\ DOMAIN v = DOMAIN w \cup {n} /\ n \notin DOMAIN w
      /\ v[n] = r /\ \A i \in DOMAIN w : v[i] = w[i]
      /\ n \in Nat /\ \A i \in DOMAIN w : i < n
    <2>1. /\ v \in Seq(WithdrawalRow) /\ Len(v) = Len(w) + 1
          /\ \A i \in 1..Len(w) : v[i] = w[i]
          /\ v[Len(w) + 1] = r
        BY <1>1, <1>3, AppendProperties DEF WithInserted
    <2>2. DOMAIN v = 1..n
        BY <1>1, <2>1
    <2>3. QED
        BY <1>1, <1>2, <2>1, <2>2
<1>5. PendingIn(v) = PendingIn(w) \cup {n}
    BY <1>3, <1>4 DEF PendingIn
<1>6. /\ OwnPending(v, p) = OwnPending(w, p) \cup {n}
      /\ \A q : q # p => OwnPending(v, q) = OwnPending(w, q)
      /\ \A q : OwnPending(w, q) \subseteq DOMAIN w
    BY <1>3, <1>4, <1>5 DEF OwnPending, PendingIn
<1>7. /\ \A q : \A i \in DOMAIN w : Before(v, q, i) = Before(w, q, i)
      /\ Before(v, p, n) = OwnPending(w, p)
      /\ \A q, i : Before(w, q, i) \subseteq DOMAIN w
    BY <1>4, <1>5, <1>6, <1>2 DEF OwnPending, Before, PendingIn
<1>8. ASSUME NEW q, q # p
      PROVE  /\ AmountsOf(v, OwnPending(v, q)) <= AmountsOf(w, OwnPending(w, q))
             /\ \A other \in WithdrawalRow : InsertFits(w, q, other) => InsertFits(v, q, other)
    <2>1. \A j \in OwnPending(v, q) : v[j].at = w[j].at /\ v[j].amount = w[j].amount
        BY <1>4, <1>6, <1>8
    <2>2. OwnPending(v, q) \subseteq OwnPending(w, q)
        BY <1>6, <1>8
    <2>3. QED
        BY <1>4, <2>1, <2>2, DraftStillFits
<1>9. ASSUME NEW i \in DOMAIN w PROVE v[i].at <= now /\ RowFits(v, v[i].by, i)
    <2>1. PICK q : q = w[i].by
        OBVIOUS
    <2>2. w[i].at <= now /\ RowFits(w, q, i)
        BY <2>1 DEF RowsFit
    <2>3. \A j \in Before(v, q, i) : v[j].at = w[j].at /\ v[j].amount = w[j].amount
        BY <1>4, <1>7
    <2>4. Before(v, q, i) \subseteq Before(w, q, i) /\ i \in DOMAIN v
          /\ (i \in PendingIn(v) => i \in PendingIn(w))
        BY <1>4, <1>5, <1>7
    <2>5. v[i] = w[i]
        BY <1>4
    <2>6. RowFits(v, q, i)
        BY <1>4, <2>2, <2>3, <2>4, <2>5, RowStillFits
    <2>7. QED
        BY <2>1, <2>2, <2>5, <2>6
<1>10. PICK S : S = OwnPending(w, p)
    OBVIOUS
<1>11. S \in SUBSET DOMAIN w /\ S \cup {n} \in SUBSET DOMAIN v /\ S \in SUBSET DOMAIN v
    BY <1>4, <1>6, <1>10
<1>12. \A T \in SUBSET S : AmountsOf(v, T \cup {n}) = row.amount + AmountsOf(w, T)
    <2> SUFFICES ASSUME NEW T \in SUBSET S
                 PROVE  AmountsOf(v, T \cup {n}) = row.amount + AmountsOf(w, T)
        OBVIOUS
    <2>1. PICK V : V = T \cup {n}
        OBVIOUS
    <2>2. V \in SUBSET DOMAIN v /\ n \in V /\ V \ {n} = T
          /\ T \in SUBSET DOMAIN w /\ T \subseteq DOMAIN v
        BY <1>4, <1>11, <2>1
    <2>3. AmountsOf(v, V) = v[n].amount + AmountsOf(v, V \ {n})
        <3>1. v \in Seq(WithdrawalRow) /\ V \in SUBSET DOMAIN v
            BY <1>4, <2>2
        <3>2. \A x \in V : AmountsOf(v, V) = v[x].amount + AmountsOf(v, V \ {x})
            BY <3>1, AmountFacts
        <3>3. QED
            BY <2>2, <3>2
    <2>4. \A j \in T : w[j].amount = v[j].amount
        BY <1>4, <2>2
    <2>5. AmountsOf(w, T) = AmountsOf(v, T)
        BY <1>4, <2>2, <2>4, AmountsAgree
    <2>6. QED
        BY <1>3, <1>4, <2>1, <2>2, <2>3, <2>5
<1>13. AmountsOf(v, OwnPending(v, p)) <= MaxBalance
    <2>1. AmountsOf(v, OwnPending(v, p)) = row.amount + AmountsOf(w, S)
        BY <1>6, <1>10, <1>12
    <2>2. AmountsOf(w, S) + row.amount <= MaxBalance /\ AmountsOf(w, S) \in Nat
        BY <1>10, <1>11, AmountFacts DEF InsertFits
    <2>3. QED
        BY <1>3, <2>1, <2>2
<1>14. \A j \in S : w[j].at + Limits[row.under].cooldown <= row.at
    BY <1>10 DEF InsertFits
<1>15. Limits[row.under].cooldown \in Nat /\ Limits[row.under].daily \in Nat
    BY <1>3, WithdrawalAssumption DEF Tiers
<1>16. \A j \in S : /\ w[j].at <= row.at /\ w[j].at \in Nat
                    /\ w[j].at + Limits[row.under].cooldown <= now
    <2> SUFFICES ASSUME NEW j \in S
                 PROVE  /\ w[j].at <= row.at /\ w[j].at \in Nat
                        /\ w[j].at + Limits[row.under].cooldown <= now
        OBVIOUS
    <2>1. w[j].at \in Nat /\ w[j].at + Limits[row.under].cooldown <= row.at
        BY <1>2, <1>11, <1>14
    <2>2. QED
        BY <1>3, <1>15, <2>1
<1>17. PICK T : T = SameDay(w, S, now)
    OBVIOUS
<1>18. T \in SUBSET S
    BY <1>17 DEF SameDay
<1>19. AmountsOf(w, T) + row.amount <= Limits[row.under].daily
    <2>1. PICK A : A = SameDay(w, S, row.at)
        OBVIOUS
    <2>2. A \in SUBSET DOMAIN w /\ T \in SUBSET DOMAIN w
        BY <1>11, <1>18, <2>1 DEF SameDay
    <2>3. AmountsOf(w, A) + row.amount <= Limits[row.under].daily
        BY <1>10, <2>1 DEF InsertFits
    <2>4. T \in SUBSET A
        <3> SUFFICES ASSUME NEW j \in T PROVE j \in A
            OBVIOUS
        <3>1. j \in S /\ Day(w[j].at) = Day(now)
            BY <1>17 DEF SameDay
        <3>2. Day(w[j].at) = Day(row.at)
            BY <1>3, <1>16, <3>1, DaysInOrder
        <3>3. QED
            BY <2>1, <3>1, <3>2 DEF SameDay
    <2>5. AmountsOf(w, T) <= AmountsOf(w, A)
        BY <2>2, <2>4, AmountFacts
    <2>6. AmountsOf(w, T) \in Nat /\ AmountsOf(w, A) \in Nat
        BY <2>2, AmountFacts
    <2>7. QED
        BY <1>3, <1>15, <2>3, <2>5, <2>6
<1>20. RowFits(v, p, n)
    <2>1. SameDay(v, Before(v, p, n) \cup ({n} \cap PendingIn(v)), v[n].at) = T \cup {n}
        <3>1. Before(v, p, n) \cup ({n} \cap PendingIn(v)) = S \cup {n}
            BY <1>5, <1>7, <1>10
        <3>2. v[n].at = now
            BY <1>3, <1>4
        <3>3. SameDay(v, S \cup {n}, now) = T \cup {n}
            BY <1>4, <1>11, <1>17, <3>2 DEF SameDay
        <3>4. QED
            BY <3>1, <3>2, <3>3
    <2>2. AmountsOf(v, T \cup {n}) = row.amount + AmountsOf(w, T)
        BY <1>12, <1>18
    <2>3. AmountsOf(w, T) \in Nat
        BY <1>11, <1>18, AmountFacts
    <2>4. AmountsOf(v, T \cup {n}) <= Limits[row.under].daily
        BY <1>3, <1>15, <1>19, <2>2, <2>3
    <2>5. \A j \in Before(v, p, n) : v[j].at + Limits[row.under].cooldown <= now
        BY <1>4, <1>7, <1>10, <1>11, <1>16
    <2>6. v[n].under = row.under /\ v[n].at = now
        BY <1>3, <1>4
    <2>7. QED
        BY <2>1, <2>4, <2>5, <2>6 DEF RowFits
<1>21. \A i \in DOMAIN v : v[i].at <= now /\ RowFits(v, v[i].by, i)
    <2>1. v[n].at <= now /\ v[n].by = p
        <3>1. v[n].at = now /\ v[n].by = p
            BY <1>3, <1>4
        <3>2. now <= now
            OBVIOUS
        <3>3. QED
            BY <3>1, <3>2
    <2>2. QED
        BY <1>4, <1>9, <1>20, <2>1
<1>22. \A q \in Cashiers : AmountsOf(v, OwnPending(v, q)) <= MaxBalance
    <2> SUFFICES ASSUME NEW q \in Cashiers, q # p
                 PROVE  AmountsOf(v, OwnPending(v, q)) <= MaxBalance
        BY <1>13
    <2>1. OwnPending(w, q) \in SUBSET DOMAIN w /\ OwnPending(v, q) \in SUBSET DOMAIN v
        BY DEF OwnPending, PendingIn
    <2>2. AmountsOf(w, OwnPending(w, q)) \in Nat /\ AmountsOf(v, OwnPending(v, q)) \in Nat
        BY <1>4, <2>1, AmountFacts
    <2>3. AmountsOf(w, OwnPending(w, q)) <= MaxBalance /\ MaxBalance \in Nat
        BY WithdrawalAssumption DEF RowsFit
    <2>4. QED
        BY <1>8, <2>2, <2>3
<1>23. QED
    BY <1>4, <1>8, <1>21, <1>22 DEF RowsFit

\* A process that holds nothing holds nothing wrong.
LEMMA IdleFits ==
    \A w, p, now : SoundDraft(w, p, now, Idle)
<1>1. DOMAIN NoColumns = {}
    BY DEF NoColumns
<1>2. QED
    BY <1>1 DEF SoundDraft, Idle, SoundPlan

\* The drafts have their types.
LEMMA DraftsAreTyped ==
    ASSUME NEW w, NEW now, NEW c, \A p \in Cashiers : SoundDraft(w, p, now, c[p])
    PROVE  \A p \in Cashiers : /\ c[p].insert \subseteq WithdrawalRow
                               /\ c[p].cancel \subseteq DOMAIN w
                               /\ c[p].tier \subseteq Tiers
                               /\ Cardinality(c[p].insert) <= 1
<1> SUFFICES ASSUME NEW p \in Cashiers
             PROVE  /\ c[p].insert \subseteq WithdrawalRow
                    /\ c[p].cancel \subseteq DOMAIN w
                    /\ c[p].tier \subseteq Tiers
                    /\ Cardinality(c[p].insert) <= 1
    OBVIOUS
<1>1. PICK S : S = c[p].insert
    OBVIOUS
<1>2. S \subseteq WithdrawalRow /\ (S = {} \/ \E row : S = {row})
    BY <1>1 DEF SoundDraft
<1>3. Cardinality(S) = 0 \/ Cardinality(S) = 1
    BY <1>2, FS_EmptySet, FS_Singleton
<1>4. Cardinality(S) <= 1
    BY <1>3
<1>5. QED
    BY <1>1, <1>2, <1>4 DEF SoundDraft

\* One process gets a draft.
LEMMA DeskKeeps ==
    ASSUME WInv, NEW p \in Cashiers, NEW d, cashier' = [cashier EXCEPT ![p] = d],
           SoundDraft(withdrawal, p, minute, d),
           UNCHANGED <<withdrawal, balance, plan, tier, minute>>, asked' \in 0..MaxAsked
    PROVE  WInv'
<1>1. DOMAIN cashier' = Cashiers /\ \A q \in Cashiers : cashier'[q] = IF q = p THEN d ELSE cashier[q]
    BY DEF WInv
<1>2. \A q \in Cashiers : SoundDraft(withdrawal, q, minute, cashier'[q])
    BY <1>1 DEF WInv
<1>3. PICK c : c = cashier'
    OBVIOUS
<1>4. \A q \in Cashiers : /\ cashier'[q].insert \subseteq WithdrawalRow
                          /\ cashier'[q].cancel \subseteq DOMAIN withdrawal
                          /\ cashier'[q].tier \subseteq Tiers
                          /\ Cardinality(cashier'[q].insert) <= 1
    BY <1>2, <1>3, DraftsAreTyped
<1>5. WithdrawalTypeOK'
    BY <1>4 DEF WInv, WithdrawalTypeOK
<1>6. QED
    BY <1>1, <1>2, <1>5 DEF WInv, PriceFollowsTier

\* A process that takes a request was idle.
LEMMA TakeBounds ==
    ASSUME WInv, NEW p \in Cashiers, Take(p)
    PROVE  asked' \in 0..MaxAsked /\ cashier[p] = Idle
<1>1. asked \in 0..MaxAsked /\ MaxAsked \in Nat
    BY WithdrawalAssumption DEF WInv, WithdrawalTypeOK
<1>2. QED
    BY <1>1 DEF Take

\* The checks of a withdrawal leave room for it among what the process has
\* pending.
LEMMA WithdrawFits ==
    ASSUME WInv, NEW p \in Cashiers, NEW amount \in Amounts, BeginWithdraw(p, amount)
    PROVE  WInv'
<1>1. PICK row : row = [amount |-> amount, at |-> minute, status |-> "pending",
                        by |-> p, under |-> tier]
    OBVIOUS
<1>2. /\ withdrawal \in Seq(WithdrawalRow) /\ minute \in Nat /\ tier \in Tiers
      /\ balance \in 0..MaxBalance /\ MaxBalance \in Nat /\ Flat \in Nat /\ amount \in Nat
    BY WithdrawalAssumption DEF WInv, WithdrawalTypeOK
<1>3. /\ row \in WithdrawalRow /\ row.by = p /\ row.status = "pending"
      /\ row.at = minute /\ row.amount = amount /\ row.under = tier
    BY <1>1, <1>2 DEF WithdrawalRow
<1>4. PICK w : w = withdrawal
    OBVIOUS
<1>5. PICK S, O, A, B : /\ S = PendingIn(w) /\ O = OwnPending(w, p)
                        /\ A = SameDay(w, S, minute) /\ B = SameDay(w, O, minute)
    OBVIOUS
<1>6. /\ S \in SUBSET DOMAIN w /\ O \in SUBSET S /\ A \in SUBSET DOMAIN w /\ B \in SUBSET A
      /\ O \in SUBSET DOMAIN w /\ B \in SUBSET DOMAIN w
    BY <1>5 DEF PendingIn, OwnPending, SameDay
<1>7. AmountsOf(w, O) <= AmountsOf(w, S) /\ AmountsOf(w, B) <= AmountsOf(w, A)
      /\ AmountsOf(w, S) \in Nat /\ AmountsOf(w, O) \in Nat
      /\ AmountsOf(w, A) \in Nat /\ AmountsOf(w, B) \in Nat
    <2>1. w \in Seq(WithdrawalRow)
        BY <1>2, <1>4
    <2>2. QED
        BY <1>6, <2>1, AmountFacts
<1>8. S = Counted /\ A = {i \in Counted : withdrawal[i].at \div DayLength = Today}
    BY <1>4, <1>5 DEF PendingIn, Counted, SameDay, Day, Today
<1>9. PendingAmount = AmountsOf(w, S)
    BY <1>4, <1>8 DEF PendingAmount, AmountOf, AmountsOf
<1>10. DailyUsed = AmountsOf(w, A)
    BY <1>4, <1>8 DEF DailyUsed, AmountOf, AmountsOf
<1>11. Limits[tier].daily \in Nat /\ Limits[tier].cooldown \in Nat
    BY <1>2, WithdrawalAssumption DEF Tiers
<1>12. AmountsOf(w, A) + amount <= Limits[tier].daily
    BY <1>10 DEF BeginWithdraw, WithinLimits
<1>13. amount + Flat <= balance - AmountsOf(w, S)
    BY <1>9 DEF BeginWithdraw, Affordable
<1>14. AmountsOf(w, B) + amount <= Limits[tier].daily /\ AmountsOf(w, O) + amount <= MaxBalance
    BY <1>2, <1>7, <1>11, <1>12, <1>13, SMTT(30)
<1>15. \A i \in O : w[i].at + Limits[tier].cooldown <= minute
    <2>1. \A i \in Counted : withdrawal[i].at + Limits[tier].cooldown <= minute
        BY DEF BeginWithdraw, CooledDown
    <2>2. QED
        BY <1>4, <1>6, <1>8, <2>1
<1>16. InsertFits(w, p, row)
    BY <1>3, <1>5, <1>14, <1>15 DEF InsertFits
<1>17. PICK d : d = [Idle EXCEPT !.insert = {row}]
    OBVIOUS
<1>18. SoundDraft(withdrawal, p, minute, d)
    <2>1. /\ DOMAIN d = {"insert", "cancel", "plan", "tier", "seen"}
          /\ d.insert = {row} /\ d.cancel = {} /\ d.tier = {} /\ d.plan = NoColumns
        BY <1>17 DEF Idle
    <2>2. SoundPlan(NoColumns)
        BY DEF SoundPlan, NoColumns
    <2>3. row.at <= minute
        BY <1>2, <1>3
    <2>4. QED
        BY <1>3, <1>4, <1>16, <2>1, <2>2, <2>3 DEF SoundDraft
<1>19. asked' \in 0..MaxAsked /\ cashier[p] = Idle
    BY TakeBounds DEF BeginWithdraw
<1>20. cashier' = [cashier EXCEPT ![p] = d]
    BY <1>1, <1>17, <1>19 DEF BeginWithdraw
<1>21. QED
    BY <1>18, <1>19, <1>20, DeskKeeps DEF BeginWithdraw

\* Any two plans differ in what follows the tier.
LEMMA PlansDiffer ==
    ASSUME NEW t \in Tiers, NEW u \in Tiers, t # u
    PROVE  \A c \in {"price", "volume", "team"} : Plans[t][c] # Plans[u][c]
<1>1. /\ Plans["free"] = [price |-> 0, volume |-> 1000, links |-> 2, team |-> 1]
      /\ Plans["growth"] = [price |-> 29, volume |-> 50000, links |-> Unlimited, team |-> 3]
      /\ Plans["business"] = [price |-> 99, volume |-> 500000, links |-> Unlimited, team |-> 10]
      /\ Plans["enterprise"] = [price |-> 300, volume |-> Unlimited, links |-> Unlimited, team |-> 999]
    BY DEF Plans
<1>2. t \in {"free", "growth", "business", "enterprise"}
      /\ u \in {"free", "growth", "business", "enterprise"}
    BY WithdrawalAssumption DEF Tiers
<1>3. Plans[t]["price"] # Plans[u]["price"]
    BY <1>1, <1>2
<1>4. Plans[t]["volume"] # Plans[u]["volume"]
    BY <1>1, <1>2 DEF Unlimited
<1>5. Plans[t]["team"] # Plans[u]["team"]
    BY <1>1, <1>2
<1>6. QED
    BY <1>3, <1>4, <1>5

\* The columns of a plan.
LEMMA PlanHasColumns ==
    ASSUME NEW t \in Tiers
    PROVE  DOMAIN Plans[t] = PlanColumns
<1>1. t \in {"free", "growth", "business", "enterprise"}
    BY WithdrawalAssumption DEF Tiers
<1>2. QED
    BY <1>1 DEF Plans, PlanColumns

\* The requests about the plan, and the choice of a row to cancel.
LEMMA PlanDraftsKeep ==
    ASSUME WInv, NEW p \in Cashiers,
           \/ BeginUpgrade(p) \/ BeginCancelPlan(p) \/ BeginReactivatePlan(p)
           \/ \E i \in DOMAIN withdrawal : BeginCancelWithdrawal(p, i)
           \/ \E t \in Tiers : LoadPlan(p, t)
    PROVE  WInv'
<1>1. SoundDraft(withdrawal, p, minute, cashier[p]) /\ tier \in Tiers
    BY DEF WInv, WithdrawalTypeOK
<1>2. CASE BeginUpgrade(p)
    <2>1. PICK d : d = [Idle EXCEPT !.seen = {tier}]
        OBVIOUS
    <2>2. SoundDraft(withdrawal, p, minute, d)
        BY <2>1, IdleFits DEF SoundDraft, Idle
    <2>3. asked' \in 0..MaxAsked /\ cashier' = [cashier EXCEPT ![p] = d]
        BY <1>2, <2>1, TakeBounds DEF BeginUpgrade
    <2>4. QED
        BY <1>2, <2>2, <2>3, DeskKeeps DEF BeginUpgrade
<1>3. CASE BeginCancelPlan(p) \/ BeginReactivatePlan(p)
    <2>1. PICK status \in {"active", "cancelled"} :
            /\ Take(p) /\ cashier' = [cashier EXCEPT ![p].plan = [status |-> status]]
            /\ UNCHANGED <<withdrawal, balance, plan, tier, minute>>
        BY <1>3 DEF BeginCancelPlan, BeginReactivatePlan
    <2>2. PICK c : c = [status |-> status]
        OBVIOUS
    <2>3. PICK d : d = [Idle EXCEPT !.plan = c]
        OBVIOUS
    <2>4. SoundPlan(c)
        <3>1. DOMAIN c = {"status"} /\ c["status"] = status
            BY <2>2
        <3>2. QED
            BY <3>1 DEF SoundPlan
    <2>5. SoundDraft(withdrawal, p, minute, d)
        BY <2>3, <2>4 DEF SoundDraft, Idle
    <2>6. asked' \in 0..MaxAsked /\ cashier' = [cashier EXCEPT ![p] = d]
        BY <2>1, <2>2, <2>3, TakeBounds
    <2>7. QED
        BY <2>1, <2>5, <2>6, DeskKeeps
<1>4. CASE \E i \in DOMAIN withdrawal : BeginCancelWithdrawal(p, i)
    <2>1. PICK i \in DOMAIN withdrawal : BeginCancelWithdrawal(p, i)
        BY <1>4
    <2>2. PICK d : d = [Idle EXCEPT !.cancel = {i}]
        OBVIOUS
    <2>3. SoundDraft(withdrawal, p, minute, d)
        BY <2>2, IdleFits DEF SoundDraft, Idle
    <2>4. asked' \in 0..MaxAsked /\ cashier' = [cashier EXCEPT ![p] = d]
        BY <2>1, <2>2, TakeBounds DEF BeginCancelWithdrawal
    <2>5. QED
        BY <2>1, <2>3, <2>4, DeskKeeps DEF BeginCancelWithdrawal
<1>5. CASE \E t \in Tiers : LoadPlan(p, t)
    <2>1. PICK t \in Tiers : LoadPlan(p, t)
        BY <1>5
    <2>2. UNCHANGED <<withdrawal, balance, plan, tier, minute>> /\ asked' \in 0..MaxAsked
        BY <2>1 DEF LoadPlan, WInv, WithdrawalTypeOK
    <2>3. CASE plan.tier = t
        <3>1. cashier' = [cashier EXCEPT ![p] = Idle]
            BY <2>1, <2>3 DEF LoadPlan
        <3>2. PICK d : d = Idle
            OBVIOUS
        <3>3. QED
            BY <2>2, <3>1, <3>2, IdleFits, DeskKeeps
    <2>4. CASE plan.tier # t
        <3>1. PICK c : c = PlanChanges(t)
            OBVIOUS
        <3>2. PICK T : T = {t} \ cashier[p].seen
            OBVIOUS
        <3>3. PICK d : d = [cashier[p] EXCEPT !.plan = c, !.tier = T]
            OBVIOUS
        <3>4. PICK one : one = [tier |-> t]
            OBVIOUS
        <3>5. PICK new : new = Overlay(one, Plans[t])
            OBVIOUS
        <3>6. /\ DOMAIN new = {"tier"} \cup PlanColumns
              /\ new["tier"] = t /\ \A x \in PlanColumns : new[x] = Plans[t][x]
            <4>1. DOMAIN one = {"tier"} /\ one["tier"] = t /\ DOMAIN Plans[t] = PlanColumns
                BY <3>4, PlanHasColumns
            <4>2. new = [x \in {"tier"} \cup PlanColumns |->
                           IF x \in {"tier"} THEN one[x] ELSE Plans[t][x]]
                BY <3>5, <4>1 DEF Overlay
            <4>3. "tier" \notin PlanColumns
                BY DEF PlanColumns
            <4>4. QED
                BY <4>1, <4>2, <4>3
        <3>7. /\ DOMAIN c = {x \in DOMAIN new : plan[x] # new[x]}
              /\ \A x \in DOMAIN c : c[x] = new[x]
            BY <3>1, <3>4, <3>5 DEF PlanChanges
        <3>8. plan.tier \in Tiers /\ \A x \in {"price", "volume", "team"} : plan[x] = Plans[plan.tier][x]
            BY DEF WInv, WithdrawalTypeOK, PriceFollowsTier
        <3>9. \A x \in {"price", "volume", "team"} : plan[x] # new[x]
            BY <2>4, <3>6, <3>8, PlansDiffer DEF PlanColumns
        <3>10. SoundPlan(c)
            <4>1. PlanKeys \subseteq DOMAIN c /\ DOMAIN c \subseteq {"tier"} \cup PlanColumns
                BY <2>4, <3>6, <3>7, <3>9 DEF PlanKeys, PlanColumns
            <4>2. c["tier"] = t
                BY <3>6, <3>7, <4>1 DEF PlanKeys
            <4>3. \A x \in PlanColumns : x \in DOMAIN c => c[x] = Plans[t][x]
                BY <3>6, <3>7
            <4>4. QED
                BY <4>1, <4>2, <4>3 DEF SoundPlan
        <3>11. SoundDraft(withdrawal, p, minute, d)
            <4>1. /\ DOMAIN d = {"insert", "cancel", "plan", "tier", "seen"}
                  /\ d.insert = cashier[p].insert /\ d.cancel = cashier[p].cancel
                  /\ d.plan = c /\ d.tier = T
                BY <1>1, <3>3 DEF SoundDraft
            <4>2. T \subseteq Tiers
                BY <3>2
            <4>3. QED
                BY <1>1, <3>10, <4>1, <4>2 DEF SoundDraft
        <3>12. cashier' = [cashier EXCEPT ![p] = d]
            BY <2>1, <2>4, <3>1, <3>2, <3>3 DEF LoadPlan, WInv
        <3>13. QED
            BY <2>2, <3>11, <3>12, DeskKeeps
    <2>5. QED
        BY <2>3, <2>4
<1>6. QED
    BY <1>2, <1>3, <1>4, <1>5

\* The rows change, the drafts of the others still fit, and p is done.
LEMMA RowsKeep ==
    ASSUME WInv, NEW p \in Cashiers, NEW v \in Seq(WithdrawalRow),
           withdrawal' = v, DOMAIN withdrawal \subseteq DOMAIN v, RowsFit(v, minute),
           \A q \in Cashiers \ {p} : \A row \in WithdrawalRow :
               InsertFits(withdrawal, q, row) => InsertFits(v, q, row),
           cashier' = [cashier EXCEPT ![p] = Idle],
           UNCHANGED <<balance, plan, tier, minute, asked>>
    PROVE  WInv'
<1>1. /\ DOMAIN cashier' = Cashiers /\ cashier'[p] = Idle
      /\ \A q \in Cashiers \ {p} : cashier'[q] = cashier[q]
    BY DEF WInv
<1>2. \A q \in Cashiers : SoundDraft(v, q, minute, cashier'[q])
    <2> SUFFICES ASSUME NEW q \in Cashiers \ {p}
                 PROVE  SoundDraft(v, q, minute, cashier'[q])
        BY <1>1, IdleFits
    <2>1. PICK d : d = cashier[q]
        OBVIOUS
    <2>2. SoundDraft(withdrawal, q, minute, d)
        BY <2>1 DEF WInv
    <2>3. SoundDraft(v, q, minute, d)
        BY <2>2 DEF SoundDraft
    <2>4. QED
        BY <1>1, <2>1, <2>3
<1>3. PICK c : c = cashier'
    OBVIOUS
<1>4. \A q \in Cashiers : /\ cashier'[q].insert \subseteq WithdrawalRow
                          /\ cashier'[q].cancel \subseteq DOMAIN v
                          /\ cashier'[q].tier \subseteq Tiers
                          /\ Cardinality(cashier'[q].insert) <= 1
    BY <1>2, <1>3, DraftsAreTyped
<1>5. WithdrawalTypeOK'
    BY <1>4 DEF WInv, WithdrawalTypeOK
<1>6. QED
    BY <1>1, <1>2, <1>5 DEF WInv, PriceFollowsTier

\* A row is inserted or cancelled.
LEMMA CommitWithdrawalKeeps ==
    ASSUME WInv, NEW p \in Cashiers, CommitWithdrawal(p)
    PROVE  WInv'
<1>1. PICK w, now : w = withdrawal /\ now = minute
    OBVIOUS
<1>2. /\ w \in Seq(WithdrawalRow) /\ now \in Nat /\ RowsFit(w, now)
      /\ SoundDraft(w, p, now, cashier[p])
    BY <1>1, WithdrawalAssumption DEF WInv, WithdrawalTypeOK
<1>3. /\ cashier' = [cashier EXCEPT ![p] = Idle]
      /\ UNCHANGED <<balance, plan, tier, minute, asked>>
    BY DEF CommitWithdrawal
<1>4. CASE \E row \in cashier[p].insert : withdrawal' = Append(withdrawal, [row EXCEPT !.at = minute])
    <2>1. PICK row \in cashier[p].insert :
              withdrawal' = Append(withdrawal, [row EXCEPT !.at = minute])
        BY <1>4
    <2>2. row \in WithdrawalRow /\ InsertFits(w, p, row) /\ row.at <= now
        BY <1>2, <2>1 DEF SoundDraft
    <2>3. PICK v : v = WithInserted(w, row, now)
        OBVIOUS
    <2>4. /\ v \in Seq(WithdrawalRow) /\ DOMAIN w \subseteq DOMAIN v /\ RowsFit(v, now)
          /\ \A q \in Cashiers \ {p} : \A other \in WithdrawalRow :
               InsertFits(w, q, other) => InsertFits(v, q, other)
        BY <1>2, <2>2, <2>3, AppendFits
    <2>5. withdrawal' = v
        BY <1>1, <2>1, <2>3 DEF WithInserted
    <2>6. QED
        BY <1>1, <1>3, <2>4, <2>5, RowsKeep
<1>5. CASE \E i \in cashier[p].cancel : withdrawal' = [withdrawal EXCEPT ![i].status = "cancelled"]
    <2>1. PICK i \in cashier[p].cancel :
              withdrawal' = [withdrawal EXCEPT ![i].status = "cancelled"]
        BY <1>5
    <2>2. i \in DOMAIN w
        BY <1>2, <2>1 DEF SoundDraft
    <2>3. PICK v : v = WithCancelled(w, i)
        OBVIOUS
    <2>4. /\ v \in Seq(WithdrawalRow) /\ DOMAIN v = DOMAIN w /\ RowsFit(v, now)
          /\ \A q \in Cashiers : \A other \in WithdrawalRow :
               InsertFits(w, q, other) => InsertFits(v, q, other)
        BY <1>2, <2>2, <2>3, CancelFits
    <2>5. withdrawal' = v
        BY <1>1, <2>1, <2>3 DEF WithCancelled
    <2>6. QED
        BY <1>1, <1>3, <2>4, <2>5, RowsKeep
<1>6. QED
    BY <1>4, <1>5 DEF CommitWithdrawal

\* A commit of the plan writes the tier with all that is charged for it, or
\* neither.
LEMMA CommitPlanKeeps ==
    ASSUME WInv, NEW p \in Cashiers, CommitPlan(p)
    PROVE  WInv'
<1>1. PICK c, old, new : c = cashier[p].plan /\ old = plan /\ new = Overlay(c, old)
    OBVIOUS
<1>2. plan' = new /\ SoundPlan(c)
    BY <1>1 DEF CommitPlan, WInv, SoundDraft
<1>3. /\ DOMAIN old = {"tier", "status"} \cup PlanColumns
      /\ old["tier"] \in Tiers /\ old["status"] \in {"active", "cancelled"}
      /\ \A x \in PlanColumns : \E t \in Tiers : old[x] = Plans[t][x]
      /\ \A x \in {"price", "volume", "team"} : old[x] = Plans[old["tier"]][x]
    BY <1>1 DEF WInv, WithdrawalTypeOK, PriceFollowsTier
<1>4. DOMAIN new = DOMAIN c \cup DOMAIN old
      /\ \A x \in DOMAIN c \cup DOMAIN old : new[x] = IF x \in DOMAIN c THEN c[x] ELSE old[x]
    BY <1>1 DEF Overlay
<1>5. PlanColumns = {"price", "volume", "links", "team"}
    BY DEF PlanColumns
<1>6. /\ DOMAIN new = {"tier", "status"} \cup PlanColumns
      /\ new["tier"] \in Tiers /\ new["status"] \in {"active", "cancelled"}
      /\ \A x \in PlanColumns : \E t \in Tiers : new[x] = Plans[t][x]
      /\ \A x \in {"price", "volume", "team"} : new[x] = Plans[new["tier"]][x]
    <2>1. CASE DOMAIN c = {}
        BY <1>3, <1>4, <1>5, <2>1
    <2>2. CASE DOMAIN c = {"status"} /\ c["status"] \in {"active", "cancelled"}
        BY <1>3, <1>4, <1>5, <2>2
    <2>3. CASE /\ PlanKeys \subseteq DOMAIN c /\ DOMAIN c \subseteq {"tier"} \cup PlanColumns
               /\ c["tier"] \in Tiers
               /\ \A x \in PlanColumns : x \in DOMAIN c => c[x] = Plans[c["tier"]][x]
        <3>1. {"tier", "price", "volume", "team"} \subseteq DOMAIN c
            BY <2>3 DEF PlanKeys
        <3>2. new["tier"] = c["tier"] /\ new["status"] = old["status"]
            BY <1>3, <1>4, <1>5, <2>3, <3>1
        <3>3. \A x \in {"price", "volume", "team"} : new[x] = Plans[c["tier"]][x]
            BY <1>4, <1>5, <2>3, <3>1
        <3>4. \A x \in PlanColumns : \E t \in Tiers : new[x] = Plans[t][x]
            <4> SUFFICES ASSUME NEW x \in PlanColumns PROVE \E t \in Tiers : new[x] = Plans[t][x]
                OBVIOUS
            <4>1. CASE x \in DOMAIN c
                BY <1>4, <2>3, <4>1
            <4>2. CASE x \notin DOMAIN c
                BY <1>3, <1>4, <4>2
            <4>3. QED
                BY <4>1, <4>2
        <3>5. DOMAIN new = {"tier", "status"} \cup PlanColumns
            BY <1>3, <1>4, <2>3
        <3>6. QED
            BY <1>3, <2>3, <3>2, <3>3, <3>4, <3>5
    <2>4. QED
        BY <1>2, <2>1, <2>2, <2>3 DEF SoundPlan
<1>7. tier' \in Tiers
    <2>1. cashier[p].tier \subseteq Tiers /\ tier \in Tiers
        BY DEF WInv, WithdrawalTypeOK
    <2>2. PICK T : T = cashier[p].tier
        OBVIOUS
    <2>3. T # {} => (CHOOSE t \in T : TRUE) \in T
        OBVIOUS
    <2>4. QED
        BY <2>1, <2>2, <2>3 DEF CommitPlan
<1>8. /\ DOMAIN cashier' = Cashiers /\ cashier'[p] = Idle
      /\ \A q \in Cashiers \ {p} : cashier'[q] = cashier[q]
      /\ UNCHANGED <<withdrawal, balance, minute, asked>>
    BY DEF WInv, CommitPlan
<1>9. \A q \in Cashiers : SoundDraft(withdrawal, q, minute, cashier'[q])
    BY <1>8, IdleFits DEF WInv
<1>10. PICK e : e = cashier'
    OBVIOUS
<1>11. \A q \in Cashiers : /\ cashier'[q].insert \subseteq WithdrawalRow
                           /\ cashier'[q].cancel \subseteq DOMAIN withdrawal
                           /\ cashier'[q].tier \subseteq Tiers
                           /\ Cardinality(cashier'[q].insert) <= 1
    BY <1>9, <1>10, DraftsAreTyped
<1>12. WithdrawalTypeOK'
    BY <1>2, <1>6, <1>7, <1>8, <1>11 DEF WInv, WithdrawalTypeOK
<1>13. QED
    BY <1>2, <1>6, <1>8, <1>9, <1>12 DEF WInv, PriceFollowsTier

\* Time passes.
LEMMA PassMinuteKeeps ==
    ASSUME WInv, PassMinute
    PROVE  WInv'
<1>1. PICK w, now : w = withdrawal /\ now = minute
    OBVIOUS
<1>2. /\ w \in Seq(WithdrawalRow) /\ now \in Nat /\ minute' = now + 1 /\ now + 1 \in 0..MaxMinute
    BY <1>1, WithdrawalAssumption DEF WInv, WithdrawalTypeOK, PassMinute
<1>3. RowsFit(w, now) /\ \A q \in Cashiers : SoundDraft(w, q, now, cashier[q])
    BY <1>1 DEF WInv
<1>4. RowsFit(w, now + 1)
    BY <1>2, <1>3, RowTypes DEF RowsFit
<1>5. \A q \in Cashiers : SoundDraft(w, q, now + 1, cashier[q])
    <2> SUFFICES ASSUME NEW q \in Cashiers PROVE SoundDraft(w, q, now + 1, cashier[q])
        OBVIOUS
    <2>1. PICK d : d = cashier[q]
        OBVIOUS
    <2>2. SoundDraft(w, q, now, d)
        BY <1>3, <2>1
    <2>3. \A row \in WithdrawalRow : row.at <= now => row.at <= now + 1
        <3>1. \A row \in WithdrawalRow : row.at \in Nat
            BY DEF WithdrawalRow
        <3>2. QED
            BY <1>2, <3>1
    <2>4. SoundDraft(w, q, now + 1, d)
        BY <2>2, <2>3 DEF SoundDraft
    <2>5. QED
        BY <2>1, <2>4
<1>6. UNCHANGED <<withdrawal, balance, plan, tier, cashier, asked>>
    BY DEF PassMinute
<1>7. WithdrawalTypeOK'
    BY <1>6 DEF WInv, WithdrawalTypeOK
<1>8. QED
    BY <1>1, <1>2, <1>4, <1>5, <1>6, <1>7 DEF WInv, PriceFollowsTier

\* The balance moves, or somebody else does.
LEMMA MoveBalanceKeeps ==
    ASSUME WInv, MoveBalance \/ UNCHANGED withdrawalVars
    PROVE  WInv'
<1>1. /\ UNCHANGED <<withdrawal, plan, tier, cashier, minute, asked>>
      /\ balance' \in 0..MaxBalance
    BY DEF MoveBalance, withdrawalVars, WInv, WithdrawalTypeOK
<1>2. WithdrawalTypeOK'
    BY <1>1 DEF WInv, WithdrawalTypeOK
<1>3. QED
    BY <1>1, <1>2 DEF WInv, PriceFollowsTier

\* The invariant holds at first.
LEMMA WithdrawalStarts ==
    ASSUME WithdrawalInit
    PROVE  WInv
<1>1. PICK w : w = withdrawal
    OBVIOUS
<1>2. w = <<>> /\ w \in Seq(WithdrawalRow) /\ DOMAIN w = {}
    BY <1>1 DEF WithdrawalInit
<1>3. RowsFit(w, 0)
    <2>1. MaxBalance \in Nat /\ {} \in SUBSET DOMAIN w
        BY WithdrawalAssumption
    <2>2. AmountsOf(w, {}) = 0
        BY <1>2, <2>1, AmountFacts
    <2>3. \A p : OwnPending(w, p) = {}
        BY <1>2 DEF OwnPending, PendingIn
    <2>4. \A p \in Cashiers : AmountsOf(w, OwnPending(w, p)) <= MaxBalance
        BY <2>1, <2>2, <2>3
    <2>5. QED
        BY <1>2, <2>4 DEF RowsFit
<1>4. /\ DOMAIN cashier = Cashiers /\ \A p \in Cashiers : cashier[p] = Idle
      /\ minute = 0 /\ asked = 0 /\ balance = MaxBalance /\ tier = "free"
    BY DEF WithdrawalInit
<1>5. \A p \in Cashiers : SoundDraft(w, p, 0, cashier[p])
    BY <1>4, IdleFits
<1>6. PICK c : c = cashier
    OBVIOUS
<1>7. \A p \in Cashiers : /\ cashier[p].insert \subseteq WithdrawalRow
                          /\ cashier[p].cancel \subseteq DOMAIN w
                          /\ cashier[p].tier \subseteq Tiers
                          /\ Cardinality(cashier[p].insert) <= 1
    BY <1>5, <1>6, DraftsAreTyped
<1>8. "free" \in Tiers /\ {MaxBalance, MaxAsked, MaxMinute} \subseteq Nat
    BY WithdrawalAssumption DEF Tiers
<1>9. /\ DOMAIN plan = {"tier", "status"} \cup PlanColumns
      /\ plan["tier"] = "free" /\ plan["status"] = "active"
      /\ \A x \in PlanColumns : plan[x] = Plans["free"][x]
    <2>1. PICK one, free : one = [tier |-> "free", status |-> "active"] /\ free = Plans["free"]
        OBVIOUS
    <2>2. DOMAIN one = {"tier", "status"} /\ one["tier"] = "free" /\ one["status"] = "active"
          /\ DOMAIN free = PlanColumns
        BY <1>8, <2>1, PlanHasColumns
    <2>3. plan = [x \in {"tier", "status"} \cup PlanColumns |->
                     IF x \in {"tier", "status"} THEN one[x] ELSE free[x]]
        BY <2>1, <2>2 DEF WithdrawalInit, Overlay
    <2>4. "tier" \notin PlanColumns /\ "status" \notin PlanColumns
        BY DEF PlanColumns
    <2>5. QED
        BY <2>1, <2>2, <2>3, <2>4
<1>10. WithdrawalTypeOK
    BY <1>1, <1>2, <1>4, <1>7, <1>8, <1>9 DEF WithdrawalTypeOK
<1>11. PriceFollowsTier
    BY <1>9 DEF PriceFollowsTier, PlanColumns
<1>12. QED
    BY <1>1, <1>3, <1>4, <1>5, <1>8, <1>9, <1>10, <1>11 DEF WInv

\* Every step keeps the invariant.
LEMMA WithdrawalStepKeeps ==
    ASSUME WInv, [WithdrawalNext]_withdrawalVars
    PROVE  WInv'
<1>1. CASE \E p \in Cashiers : CashierStep(p)
    <2>1. PICK p \in Cashiers : CashierStep(p)
        BY <1>1
    <2>2. QED
        BY <2>1, WithdrawFits, PlanDraftsKeep, CommitWithdrawalKeeps, CommitPlanKeeps
        DEF CashierStep
<1>2. QED
    BY <1>1, MoveBalanceKeeps, PassMinuteKeeps DEF WithdrawalNext

\* The inductive invariant of withdrawals and plan is an invariant.
THEOREM WithdrawalInvariant == WithdrawalSpec => []WInv
    BY WithdrawalStarts, WithdrawalStepKeeps, PTL DEF WithdrawalSpec

\* Each process at most MaxBalance, so k processes at most k times as much.
LEMMA PromisesAddUp ==
    ASSUME NEW w \in Seq(WithdrawalRow), NEW now, RowsFit(w, now)
    PROVE  AmountsOf(w, PendingIn(w)) <= Cardinality(Cashiers) * MaxBalance
<1> DEFINE Of(C) == {i \in PendingIn(w) : w[i].by \in C}
           P(C) == AmountsOf(w, Of(C)) <= Cardinality(C) * MaxBalance
<1>0. IsFiniteSet(Cashiers) /\ MaxBalance \in Nat
    BY WithdrawalAssumption
<1>1. P({})
    <2>1. Of({}) = {} /\ {} \in SUBSET DOMAIN w
        OBVIOUS
    <2>2. AmountsOf(w, {}) = 0
        BY <2>1, AmountFacts
    <2>3. Cardinality({}) = 0
        BY FS_EmptySet
    <2>4. Cardinality({}) * MaxBalance = 0
        BY <1>0, <2>3
    <2>5. QED
        BY <2>1, <2>2, <2>4, SMTT(30)
<1>2. ASSUME NEW C \in SUBSET Cashiers, NEW p \in C, P(C \ {p})
      PROVE  P(C)
    <2>1. PICK S, T, k : S = Of(C) /\ T = Of(C \ {p}) /\ k = Cardinality(C \ {p})
        OBVIOUS
    <2>2. S \in SUBSET DOMAIN w /\ T \in SUBSET S /\ T \in SUBSET DOMAIN w
          /\ S \ T = OwnPending(w, p) /\ OwnPending(w, p) \in SUBSET DOMAIN w
        BY <2>1 DEF OwnPending, PendingIn
    <2>3. AmountsOf(w, S) = AmountsOf(w, T) + AmountsOf(w, OwnPending(w, p))
        <3>1. AmountsOf(w, S) = AmountsOf(w, T) + AmountsOf(w, S \ T)
            BY <2>2, AmountFacts
        <3>2. QED
            BY <2>2, <3>1
    <2>4. /\ AmountsOf(w, T) \in Nat /\ AmountsOf(w, OwnPending(w, p)) \in Nat
        BY <2>2, AmountFacts
    <2>5. AmountsOf(w, OwnPending(w, p)) <= MaxBalance
        BY DEF RowsFit
    <2>6. IsFiniteSet(C \ {p}) /\ IsFiniteSet(C)
        BY <1>0, FS_Subset
    <2>7. k \in Nat /\ Cardinality(C) = k + 1
        BY <2>1, <2>6, FS_CardinalityType, FS_RemoveElement
    <2>8. AmountsOf(w, T) <= k * MaxBalance
        BY <1>2, <2>1
    <2>9. (k + 1) * MaxBalance = k * MaxBalance + MaxBalance /\ k * MaxBalance \in Nat
        BY <1>0, <2>7
    <2>10. AmountsOf(w, S) <= k * MaxBalance + MaxBalance
        BY <1>0, <2>3, <2>4, <2>5, <2>8, <2>9
    <2>11. QED
        BY <2>1, <2>7, <2>9, <2>10
<1>3. P(Cashiers)
    <2> HIDE DEF P
    <2> DEFINE Good == {C \in SUBSET Cashiers : P(C)}
    <2>1. {} \in Good
        BY <1>1
    <2>2. ASSUME NEW C \in SUBSET Cashiers, C # {}, \A x \in C : C \ {x} \in Good
          PROVE  C \in Good
        BY <1>2, <2>2
    <2>3. Cashiers \in SUBSET Cashiers
        OBVIOUS
    <2>4. \A C \in Good : P(C)
        OBVIOUS
    <2> HIDE DEF Good
    <2>5. SUBSET Cashiers \subseteq Good
        BY <1>0, <2>1, <2>2, SubsetInduction
    <2>6. QED
        BY <2>3, <2>4, <2>5
<1>4. Of(Cashiers) = PendingIn(w)
    BY RowTypes DEF PendingIn
<1>5. QED
    BY <1>3, <1>4

\* The invariant gives the three parts.
LEMMA WithdrawalInvariantHolds ==
    ASSUME WInv
    PROVE  WithdrawalsHold
<1>1. PICK w : w = withdrawal
    OBVIOUS
<1>2. w \in Seq(WithdrawalRow) /\ RowsFit(w, minute)
    BY <1>1 DEF WInv, WithdrawalTypeOK
<1>3. PendingAmount = AmountsOf(w, PendingIn(w))
    BY <1>1 DEF PendingAmount, AmountOf, AmountsOf, Counted, PendingIn
<1>4. PromisedIsBounded
    BY <1>2, <1>3, PromisesAddUp DEF PromisedIsBounded
<1>5. ProcessKeepsLimits
    <2> SUFFICES ASSUME NEW p \in Cashiers, NEW i \in OwnRows(p)
                 PROVE  LET l == Limits[w[i].under]
                            earlier == {j \in OwnRows(p) \cap Counted : j < i}
                            sameDay == {j \in earlier \cup ({i} \cap Counted) :
                                w[j].at \div DayLength = w[i].at \div DayLength}
                        IN /\ AmountOf(sameDay) <= l.daily
                           /\ \A j \in earlier : w[j].at + l.cooldown <= w[i].at
        BY <1>1 DEF ProcessKeepsLimits
    <2>1. i \in DOMAIN w /\ w[i].by = p
        BY <1>1 DEF OwnRows
    <2>2. RowFits(w, p, i)
        BY <1>2, <2>1 DEF RowsFit
    <2>3. PICK E : E = {j \in OwnRows(p) \cap Counted : j < i}
        OBVIOUS
    <2>4. E = Before(w, p, i) /\ {i} \cap Counted = {i} \cap PendingIn(w)
        BY <1>1, <2>3 DEF OwnRows, Counted, Before, OwnPending, PendingIn
    <2>5. PICK D : D = {j \in E \cup ({i} \cap Counted) :
                          w[j].at \div DayLength = w[i].at \div DayLength}
        OBVIOUS
    <2>6. D = SameDay(w, Before(w, p, i) \cup ({i} \cap PendingIn(w)), w[i].at)
        BY <2>4, <2>5 DEF SameDay, Day
    <2>7. AmountOf(D) = AmountsOf(w, D)
        BY <1>1 DEF AmountOf, AmountsOf
    <2>8. /\ AmountOf(D) <= Limits[w[i].under].daily
          /\ \A j \in E : w[j].at + Limits[w[i].under].cooldown <= w[i].at
        BY <2>2, <2>4, <2>6, <2>7 DEF RowFits
    <2>9. QED
        BY <2>3, <2>5, <2>8
<1>6. QED
    BY <1>4, <1>5 DEF WithdrawalsHold, WInv

\* With any number of processes, what is promised stays within the balance
\* times their number, the rows of one process keep the limits, and the plan
\* keeps the price of its tier.
THEOREM WithdrawalsHoldAlways == WithdrawalSpec => []WithdrawalsHold
    BY WithdrawalInvariant, WithdrawalInvariantHolds, PTL

(***************************************************************************)
(* Sessions of a member.  Which steps a request has left says what it has  *)
(* done: revoked, and not given a session yet.                             *)
(***************************************************************************)
\* What is left to do, by the request.
Todos ==
    {<<>>, <<"write">>, <<"revoke">>,
     <<"write", "find", "revoke", "seat">>, <<"find", "revoke", "seat">>,
     <<"revoke", "seat">>, <<"seat">>,
     <<"write", "find", "revoke", "done">>, <<"find", "revoke", "done">>,
     <<"revoke", "done">>, <<"done">>, <<"find", "revoke">>}
Clearing == {<<"revoke", "seat">>, <<"revoke", "done">>}
Cleared == {<<"seat">>, <<"done">>}

SoundSet(set) ==
    /\ DOMAIN set \subseteq DOMAIN [active |-> 0, password |-> 0, failed |-> 0,
                                    locked |-> 0, reset |-> 0]
    /\ "active" \in DOMAIN set => set["active"] \in BOOLEAN
    /\ "password" \in DOMAIN set => set["password"] \in Nat
    /\ "failed" \in DOMAIN set => set["failed"] \in Nat
    /\ "locked" \in DOMAIN set => set["locked"] \in Int
    /\ "reset" \in DOMAIN set => set["reset"] \in Int

LiveIn(s, p) == {i \in DOMAIN s : s[i].state = "live" /\ s[i].by = p}

\* A process that has revoked what it left, and not yet given a session, has
\* none; the password it holds is one it may have answered for, or a later one.
SoundDoor(s, now, last, p, d) ==
    /\ DOMAIN d = {"todo", "set", "revoke", "password"}
    /\ d.todo \in Todos /\ SoundSet(d.set) /\ d.revoke \subseteq DOMAIN s
    /\ d.todo # <<>> => d.password \in Nat /\ last <= d.password /\ d.password <= now
    /\ d.todo \in Clearing => LiveIn(s, p) \subseteq d.revoke
    /\ d.todo \in Cleared => LiveIn(s, p) = {}

SeatsFit(s, c) ==
    /\ \A i, j \in DOMAIN s : s[i].state = "live" /\ s[j].state = "live" /\ i # j =>
                                s[i].by # s[j].by
    /\ \A i \in DOMAIN s : s[i].state = "live" => s[i].password >= c[s[i].by]

SInv ==
    /\ TeamTypeOK
    /\ DOMAIN door = Doors /\ changed \in [Doors -> Nat]
    /\ SeatsFit(seat, changed)
    /\ \A p \in Doors :
         /\ changed[p] <= account.password
         /\ SoundDoor(seat, account.password, changed[p], p, door[p])

\* Twice the wrong passwords that may still go unlocked when f are counted.
Left(f) == IF f < FirstLock THEN (FirstLock - 1 - f) * (FirstLock + 2 - f) ELSE 0
\* Twice those until the account locks, when nothing puts the count back.
Ahead(f) == IF f < FirstLock THEN 2 * (FirstLock - 1 - f) ELSE 0
Budget == (FirstLock - 1) * (FirstLock + 2)

\* A process about to write a number of failures that does not lock.
Counting(d) == /\ d.todo # <<>> /\ {"failed"} \subseteq DOMAIN d.set
               /\ "locked" \notin DOMAIN d.set /\ d.set["failed"] # 0

Fits(m, f, n) == 2 * m + Ahead(f) + 2 + Left(n) <= Budget
FitsBoth(m, a, b) == 2 * m + 2 + Ahead(a) + 2 + Left(b) <= Budget

KInv ==
    /\ misses \in Nat
    /\ 2 * misses + Left(account.failed) <= Budget
    /\ \A p \in Doors : Counting(door[p]) =>
         /\ door[p].set["failed"] \in 1..(FirstLock - 1)
         /\ Fits(misses, account.failed, door[p].set["failed"])
    /\ \A p, q \in Doors : p # q /\ Counting(door[p]) /\ Counting(door[q]) =>
         FitsBoth(misses, door[p].set["failed"], door[q].set["failed"])

TwoDoors == \A p, q, r \in Doors : p = q \/ q = r \/ p = r

\* A process that does nothing holds nothing.
LEMMA FreeFits ==
    \A s, now, last, p : SoundDoor(s, now, last, p, Free)
<1>1. DOMAIN NoSet = {}
    BY DEF NoSet
<1>2. Free.todo = <<>> /\ Free.set = NoSet /\ Free.revoke = {}
      /\ DOMAIN Free = {"todo", "set", "revoke", "password"}
    BY DEF Free
<1>3. <<>> \in Todos /\ <<>> \notin Clearing /\ <<>> \notin Cleared
    BY DEF Todos, Clearing, Cleared
<1>4. SoundSet(Free.set)
    BY <1>1, <1>2 DEF SoundSet
<1>5. QED
    BY <1>2, <1>3, <1>4 DEF SoundDoor

\* What remains of a short list.
LEMMA Tails ==
    \A a, b, c, d : /\ Tail(<<a>>) = <<>> /\ Tail(<<a, b>>) = <<b>>
                    /\ Tail(<<a, b, c>>) = <<b, c>> /\ Tail(<<a, b, c, d>>) = <<b, c, d>>
    OBVIOUS

\* The first step of a short list, and its length.
LEMMA Heads ==
    \A a, b, c, d : /\ Head(<<a>>) = a /\ Head(<<a, b>>) = a
                    /\ Head(<<a, b, c>>) = a /\ Head(<<a, b, c, d>>) = a
                    /\ Len(<<a>>) = 1 /\ Len(<<a, b>>) = 2
                    /\ Len(<<a, b, c>>) = 3 /\ Len(<<a, b, c, d>>) = 4
    OBVIOUS

\* What is left to do after each step.
LEMMA TodoSteps ==
    ASSUME NEW t \in Todos
    PROVE  /\ t \in Seq(Steps)
           /\ t # <<>> => Len(t) # 0 /\ Tail(t) \in Todos
           /\ t # <<>> /\ Head(t) = "write" => Tail(t) \notin Clearing \cup Cleared
           /\ t # <<>> /\ Head(t) = "find" => Len(t) # 1 /\ Tail(t) \in Clearing \cup {<<"revoke">>}
           /\ t # <<>> /\ Head(t) = "revoke" /\ Len(t) # 1 => t \in Clearing /\ Tail(t) \in Cleared
           /\ t # <<>> /\ Head(t) \in {"seat", "done"} => t \in Cleared /\ Len(t) = 1
<1>1. \A a, b, c, d \in Steps : /\ <<>> \in Seq(Steps) /\ <<a>> \in Seq(Steps)
                               /\ <<a, b>> \in Seq(Steps) /\ <<a, b, c>> \in Seq(Steps)
                               /\ <<a, b, c, d>> \in Seq(Steps)
    OBVIOUS
<1>2. CASE t \in {<<>>, <<"write">>, <<"revoke">>, <<"seat">>, <<"done">>}
    <2>1. CASE t = <<>>
        BY <1>1, <2>1
    <2>2. PICK a \in {"write", "revoke", "seat", "done"} : t = <<a>> \/ t = <<>>
        BY <1>2
    <2>3. CASE t = <<a>>
        BY <1>1, <2>2, <2>3, Tails, Heads DEF Todos, Cleared, Clearing, Steps
    <2>4. QED
        BY <2>1, <2>2, <2>3
<1>3. CASE t \in {<<"revoke", "seat">>, <<"revoke", "done">>, <<"find", "revoke">>}
    <2>1. PICK a, b : /\ t = <<a, b>> /\ a \in {"revoke", "find"} /\ b \in {"seat", "done", "revoke"}
                      /\ a = "find" <=> b = "revoke"
        BY <1>3
    <2>2. Len(t) = 2 /\ Head(t) = a /\ Tail(t) = <<b>>
        BY <2>1, Tails, Heads
    <2>3. QED
        BY <1>1, <1>3, <2>1, <2>2 DEF Todos, Cleared, Clearing, Steps
<1>4. CASE t \in {<<"find", "revoke", "seat">>, <<"find", "revoke", "done">>}
    <2>1. PICK b \in {"seat", "done"} : t = <<"find", "revoke", b>>
        BY <1>4
    <2>2. Len(t) = 3 /\ Head(t) = "find" /\ Tail(t) = <<"revoke", b>>
        BY <2>1, Tails, Heads
    <2>3. QED
        BY <1>1, <2>1, <2>2 DEF Todos, Cleared, Clearing, Steps
<1>5. CASE t \in {<<"write", "find", "revoke", "seat">>, <<"write", "find", "revoke", "done">>}
    <2>1. PICK b \in {"seat", "done"} : t = <<"write", "find", "revoke", b>>
        BY <1>5
    <2>2. Len(t) = 4 /\ Head(t) = "write" /\ Tail(t) = <<"find", "revoke", b>>
        BY <2>1, Tails, Heads
    <2>3. QED
        BY <1>1, <2>1, <2>2 DEF Todos, Cleared, Clearing, Steps
<1>6. QED
    BY <1>2, <1>3, <1>4, <1>5 DEF Todos

AccountColumns == {"active", "password", "failed", "locked", "reset"}

\* The columns of the account.
LEMMA SetColumns ==
    DOMAIN [active |-> 0, password |-> 0, failed |-> 0, locked |-> 0, reset |-> 0] = AccountColumns
    BY DEF AccountColumns

\* The types of its columns.
LEMMA AccountFacts ==
    ASSUME NEW a \in Account
    PROVE  /\ DOMAIN a = AccountColumns
           /\ a["active"] \in BOOLEAN /\ a["password"] \in Nat /\ a["failed"] \in Nat
           /\ a["locked"] \in Int /\ a["reset"] \in Int
    BY DEF Account, AccountColumns, Moment

\* The account after a commit.
LEMMA WrittenIs ==
    ASSUME account \in Account, NEW set, SoundSet(set), NEW a, a = Written(set)
    PROVE  /\ a \in Account /\ account.password <= a.password
           /\ "password" \in DOMAIN set => a.password = account.password + 1
           /\ "password" \notin DOMAIN set => a.password = account.password
           /\ a.failed = IF "failed" \in DOMAIN set THEN set["failed"] ELSE account.failed
<1>1. PICK old, new : old = account /\ new = Overlay(set, old)
    OBVIOUS
<1>2. old \in Account /\ DOMAIN old = AccountColumns
      /\ old["active"] \in BOOLEAN /\ old["password"] \in Nat /\ old["failed"] \in Nat
      /\ old["locked"] \in Int /\ old["reset"] \in Int
    BY <1>1, AccountFacts
<1>3. DOMAIN set \subseteq AccountColumns
    BY SetColumns DEF SoundSet
<1>4. new = [c \in AccountColumns |-> IF c \in DOMAIN set THEN set[c] ELSE old[c]]
    BY <1>1, <1>2, <1>3 DEF Overlay
<1>5. \A c \in AccountColumns : new[c] = IF c \in DOMAIN set THEN set[c] ELSE old[c]
    BY <1>4
<1>6. new["active"] \in BOOLEAN /\ new["password"] \in Nat /\ new["failed"] \in Nat
      /\ new["locked"] \in Int /\ new["reset"] \in Int
    BY <1>2, <1>5 DEF SoundSet, AccountColumns
<1>7. PICK n \in Nat : n = IF "password" \in DOMAIN set THEN old["password"] + 1 ELSE old["password"]
    BY <1>2
<1>8. a = [new EXCEPT !["password"] = n]
    <2>1. CASE "password" \in DOMAIN set
        BY <1>1, <1>7, <2>1 DEF Written
    <2>2. CASE "password" \notin DOMAIN set
        <3>1. new["password"] = n
            BY <1>5, <1>7, <2>2 DEF AccountColumns
        <3>2. [new EXCEPT !["password"] = n] = new
            BY <1>4, <3>1
        <3>3. QED
            BY <1>1, <2>2, <3>2 DEF Written
    <2>3. QED
        BY <2>1, <2>2
<1>9. /\ DOMAIN a = AccountColumns /\ a["password"] = n
      /\ \A c \in AccountColumns \ {"password"} : a[c] = new[c]
      /\ a = [c \in AccountColumns |-> a[c]]
    BY <1>4, <1>8 DEF AccountColumns
<1>10. a \in Account
    <2>1. a["active"] \in BOOLEAN /\ a["password"] \in Nat /\ a["failed"] \in Nat
          /\ a["locked"] \in Int /\ a["reset"] \in Int
        BY <1>6, <1>7, <1>9 DEF AccountColumns
    <2>2. a = [active |-> a["active"], password |-> a["password"], failed |-> a["failed"],
               locked |-> a["locked"], reset |-> a["reset"]]
        BY <1>9 DEF AccountColumns
    <2>3. QED
        BY <2>1, <2>2 DEF Account, Moment
<1>11. a.failed = IF "failed" \in DOMAIN set THEN set["failed"] ELSE account.failed
    BY <1>1, <1>5, <1>9 DEF AccountColumns
<1>12. QED
    BY <1>1, <1>2, <1>7, <1>9, <1>10, <1>11

\* Columns written over columns.
LEMMA OverlaidSets ==
    ASSUME NEW a, NEW b, SoundSet(a), SoundSet(b)
    PROVE  SoundSet(Overlay(a, b))
<1>1. PICK o : o = Overlay(a, b)
    OBVIOUS
<1>2. DOMAIN o = DOMAIN a \cup DOMAIN b
      /\ \A c \in DOMAIN o : o[c] = IF c \in DOMAIN a THEN a[c] ELSE b[c]
    BY <1>1 DEF Overlay
<1>3. DOMAIN o \subseteq AccountColumns
    BY <1>2, SetColumns DEF SoundSet
<1>4. QED
    BY <1>1, <1>2, <1>3, SetColumns DEF SoundSet

\* A process holds something else.
LEMMA DoorKeeps ==
    ASSUME SInv, NEW p \in Doors, NEW d, door' = [door EXCEPT ![p] = d],
           SoundDoor(seat, account.password, changed[p], p, d),
           UNCHANGED <<account, seat, changed, hour>>, calls' \in 0..MaxCalls
    PROVE  SInv'
<1>1. /\ DOMAIN door' = Doors /\ door'[p] = d
      /\ \A q \in Doors \ {p} : door'[q] = door[q]
    BY DEF SInv
<1>2. \A q \in Doors : SoundDoor(seat, account.password, changed[q], q, door'[q])
    <2> SUFFICES ASSUME NEW q \in Doors
                 PROVE  SoundDoor(seat, account.password, changed[q], q, door'[q])
        OBVIOUS
    <2>1. CASE q = p
        BY <1>1, <2>1
    <2>2. CASE q # p
        BY <1>1, <2>2 DEF SInv
    <2>3. QED
        BY <2>1, <2>2
<1>3. account \in Account /\ DOMAIN account = AccountColumns
    BY AccountFacts DEF SInv, TeamTypeOK
<1>4. \A q \in Doors : /\ door'[q].todo \in Seq(Steps)
                       /\ DOMAIN door'[q].set \subseteq DOMAIN account
                       /\ door'[q].revoke \subseteq DOMAIN seat
    BY <1>2, <1>3, TodoSteps, SetColumns DEF SoundDoor, SoundSet
<1>5. TeamTypeOK'
    BY <1>4 DEF SInv, TeamTypeOK
<1>6. QED
    BY <1>1, <1>2, <1>5 DEF SInv

\* A request holds sound columns and has not looked for sessions yet.
LEMMA AskKeeps ==
    ASSUME SInv, NEW p \in Doors, NEW todo \in Todos \ (Clearing \cup Cleared), NEW set,
           SoundSet(set), NEW seats \in SUBSET DOMAIN seat, Ask(p, todo, set, seats)
    PROVE  SInv'
<1>1. PICK new : new = [c \in Assigned(set) |-> set[c]]
    OBVIOUS
<1>2. PICK d : d = [todo |-> todo, set |-> new, revoke |-> seats, password |-> account.password]
    OBVIOUS
<1>3. [Free EXCEPT !.todo = todo, !.set = new, !.revoke = seats, !.password = account.password] = d
    <2>1. PICK e : e = [Free EXCEPT !.todo = todo, !.set = new]
        OBVIOUS
    <2>2. e = [todo |-> todo, set |-> new, revoke |-> {}, password |-> Unset]
        BY <2>1 DEF Free
    <2>3. PICK word : word = account.password
        OBVIOUS
    <2>4. PICK f : f = [e EXCEPT !.revoke = seats]
        OBVIOUS
    <2>5. f = [todo |-> todo, set |-> new, revoke |-> seats, password |-> Unset]
        BY <2>2, <2>4
    <2>6. [f EXCEPT !.password = word] = d
        BY <1>2, <2>3, <2>5
    <2>7. QED
        BY <2>1, <2>3, <2>4, <2>6
<1>4. door' = [door EXCEPT ![p] = d]
    BY <1>1, <1>3 DEF Ask
<1>5. DOMAIN new \subseteq DOMAIN set /\ \A c \in DOMAIN new : new[c] = set[c]
    BY <1>1 DEF Assigned
<1>6. SoundSet(new)
    BY <1>5 DEF SoundSet
<1>7. changed[p] <= account.password /\ account.password \in Nat
    BY AccountFacts DEF SInv, TeamTypeOK
<1>8. SoundDoor(seat, account.password, changed[p], p, d)
    BY <1>2, <1>6, <1>7 DEF SoundDoor
<1>9. calls' \in 0..MaxCalls
    BY TeamAssumption DEF Ask, SInv, TeamTypeOK
<1>10. QED
    BY <1>4, <1>8, <1>9, DoorKeeps DEF Ask

\* A failure that reaches a threshold locks into the future, an earlier one
\* leaves the lock as it is.
LEMMA LocksAt ==
    ASSUME SInv, NEW n \in Nat
    PROVE  /\ LockUntil(n) \in Int
           /\ {t \in DOMAIN Locks : t <= n} # {} => LockUntil(n) > hour
           /\ {t \in DOMAIN Locks : t <= n} = {} => LockUntil(n) = account.locked
<1>1. PICK reached : reached = {t \in DOMAIN Locks : t <= n}
    OBVIOUS
<1>2. hour \in Nat /\ account["locked"] \in Int
    BY AccountFacts, TeamAssumption DEF SInv, TeamTypeOK, Hours
<1>3. CASE reached = {}
    BY <1>1, <1>2, <1>3 DEF LockUntil
<1>4. CASE reached # {}
    <2> DEFINE Gap == {m \in Nat : \E t \in reached : m = n - t}
    <2>1. Gap # {} /\ Gap \subseteq Nat
        BY <1>1, <1>4, TeamAssumption
    <2>2. PICK m \in Gap : \A k \in Gap : m <= k
        BY <2>1, LeastElement
    <2>3. PICK t \in reached : m = n - t
        OBVIOUS
    <2>4. \A u \in reached : u <= t
        BY <1>1, <2>2, <2>3, TeamAssumption
    <2>5. (CHOOSE x \in reached : \A u \in reached : u <= x) \in reached
        BY <2>4
    <2>6. PICK x \in reached : x = CHOOSE y \in reached : \A u \in reached : u <= y
        BY <2>5
    <2>7. Locks[x] \in Nat \ {0}
        BY <1>1, <2>6, TeamAssumption
    <2>8. LockUntil(n) = hour + Locks[x]
        BY <1>1, <1>4, <2>6 DEF LockUntil
    <2>9. QED
        BY <1>1, <1>2, <1>4, <2>7, <2>8
<1>5. QED
    BY <1>3, <1>4

\* The requests, each with what it writes first.
LEMMA RequestsKeep ==
    ASSUME SInv, NEW p \in Doors,
           \/ BeginLogin(p) \/ BeginFailure(p) \/ BeginForgot(p) \/ BeginReset(p)
           \/ BeginMemberReset(p) \/ BeginRevokeAll(p) \/ BeginReinstate(p)
           \/ \E on \in BOOLEAN : BeginActivate(p, on)
           \/ \E i \in DOMAIN seat : BeginLogout(p, i) \/ BeginChange(p, i)
    PROVE  SInv'
<1>1. account["password"] \in Nat /\ account["failed"] \in Nat /\ hour \in Nat
    BY AccountFacts, TeamAssumption DEF SInv, TeamTypeOK, Hours
<1>2. /\ SoundSet(Unlocked) /\ SoundSet(NoSet) /\ SoundSet(NewPassword)
      /\ SoundSet([reset |-> Unset]) /\ SoundSet([reset |-> hour + 1])
      /\ \A on \in BOOLEAN : SoundSet([active |-> on])
    BY <1>1, SetColumns DEF SoundSet, Unlocked, NoSet, NewPassword, Unset, AccountColumns
<1>3. /\ SoundSet(Overlay(NewPassword, Unlocked))
      /\ SoundSet(Overlay(NewPassword, Overlay([reset |-> Unset], Unlocked)))
      /\ SoundSet(Overlay(NewPassword, [active |-> TRUE]))
    BY <1>2, OverlaidSets
<1>4. /\ {<<"write">>, <<"revoke">>, <<"find", "revoke">>} \subseteq Todos \ (Clearing \cup Cleared)
      /\ <<"write", "find", "revoke", "seat">> \in Todos \ (Clearing \cup Cleared)
      /\ <<"write", "find", "revoke", "done">> \in Todos \ (Clearing \cup Cleared)
    BY DEF Todos, Clearing, Cleared
<1>5. {} \in SUBSET DOMAIN seat
    OBVIOUS
<1>6. \A todo \in Todos \ (Clearing \cup Cleared) : \A set :
          SoundSet(set) /\ Call(p, todo, set) => SInv'
    BY <1>5, AskKeeps DEF Call
<1>7. CASE BeginLogin(p)
    BY <1>2, <1>4, <1>6, <1>7 DEF BeginLogin
<1>8. CASE BeginFailure(p)
    <2>1. PICK n \in Nat : n = account.failed + 1
        BY <1>1
    <2>2. PICK set : set = [failed |-> n, locked |-> LockUntil(n)]
        OBVIOUS
    <2>3. SoundSet(set)
        BY <2>1, <2>2, LocksAt, SetColumns DEF SoundSet, AccountColumns
    <2>4. QED
        BY <1>4, <1>6, <1>8, <2>1, <2>2, <2>3 DEF BeginFailure
<1>9. CASE BeginForgot(p)
    BY <1>2, <1>4, <1>6, <1>9 DEF BeginForgot
<1>10. CASE BeginReset(p)
    BY <1>2, <1>3, <1>4, <1>6, <1>10 DEF BeginReset
<1>11. CASE BeginMemberReset(p)
    BY <1>3, <1>4, <1>6, <1>11 DEF BeginMemberReset
<1>12. CASE BeginRevokeAll(p)
    BY <1>2, <1>4, <1>6, <1>12 DEF BeginRevokeAll
<1>13. CASE \E on \in BOOLEAN : BeginActivate(p, on)
    BY <1>2, <1>4, <1>6, <1>13 DEF BeginActivate
<1>14. CASE \E i \in DOMAIN seat : BeginLogout(p, i)
    <2>1. PICK i \in DOMAIN seat : Ask(p, <<"revoke">>, NoSet, {i})
        BY <1>14 DEF BeginLogout
    <2>2. {i} \in SUBSET DOMAIN seat
        OBVIOUS
    <2>3. QED
        BY <1>2, <1>4, <2>1, <2>2, AskKeeps
<1>15. CASE \E i \in DOMAIN seat : BeginChange(p, i)
    BY <1>2, <1>4, <1>6, <1>15 DEF BeginChange
<1>16. CASE BeginReinstate(p)
    BY <1>3, <1>4, <1>6, <1>16 DEF BeginReinstate
<1>17. QED
    BY <1>7, <1>8, <1>9, <1>10, <1>11, <1>12, <1>13, <1>14, <1>15, <1>16

\* Sessions that were taken away disturb no process.
LEMMA DoorStillFits ==
    ASSUME NEW s, NEW v, NEW now, NEW last, NEW p, NEW d, SoundDoor(s, now, last, p, d),
           DOMAIN s \subseteq DOMAIN v, LiveIn(v, p) \subseteq LiveIn(s, p)
    PROVE  SoundDoor(v, now, last, p, d)
    BY DEF SoundDoor

\* The sessions change and every process still fits them.
LEMMA SeatsKeep ==
    ASSUME SInv, NEW v \in Seq(Seat), seat' = v, SeatsFit(v, changed),
           DOMAIN door' = Doors,
           \A q \in Doors : SoundDoor(v, account.password, changed[q], q, door'[q]),
           UNCHANGED <<account, changed, hour, calls>>
    PROVE  SInv'
<1>1. account \in Account /\ DOMAIN account = AccountColumns
    BY AccountFacts DEF SInv, TeamTypeOK
<1>2. \A q \in Doors : /\ door'[q].todo \in Seq(Steps)
                       /\ DOMAIN door'[q].set \subseteq DOMAIN account
                       /\ door'[q].revoke \subseteq DOMAIN v
    BY <1>1, TodoSteps, SetColumns DEF SoundDoor, SoundSet
<1>3. TeamTypeOK'
    BY <1>2 DEF SInv, TeamTypeOK
<1>4. QED
    BY <1>3 DEF SInv

\* The sessions R are no longer in force.
Ended(s, R, x) == [i \in DOMAIN s |-> IF i \in R THEN [s[i] EXCEPT !.state = x] ELSE s[i]]

\* Sessions that end leave the rest as they were.
LEMMA EndedSeats ==
    ASSUME NEW s \in Seq(Seat), NEW R, NEW x \in {"revoked", "deleted"}, NEW c, SeatsFit(s, c),
           NEW v, v = Ended(s, R, x)
    PROVE  /\ v \in Seq(Seat) /\ DOMAIN v = DOMAIN s /\ SeatsFit(v, c)
           /\ \A p : LiveIn(v, p) \subseteq LiveIn(s, p) /\ LiveIn(v, p) \cap R = {}
<1>1. Len(s) \in Nat /\ DOMAIN s = 1..Len(s) /\ \A i \in DOMAIN s : s[i] \in Seat
    OBVIOUS
<1>2. \A r \in Seat : /\ [r EXCEPT !.state = x] \in Seat /\ [r EXCEPT !.state = x].state = x
                      /\ [r EXCEPT !.state = x].by = r.by
                      /\ [r EXCEPT !.state = x].password = r.password
    BY DEF Seat
<1>3. DOMAIN v = DOMAIN s
      /\ \A i \in DOMAIN s : v[i] = IF i \in R THEN [s[i] EXCEPT !.state = x] ELSE s[i]
    BY DEF Ended
<1>4. \A i \in DOMAIN s : /\ v[i] \in Seat /\ v[i].by = s[i].by /\ v[i].password = s[i].password
                          /\ v[i].state = IF i \in R THEN x ELSE s[i].state
    BY <1>1, <1>2, <1>3
<1>5. v = [i \in 1..Len(s) |-> v[i]]
    BY <1>1, <1>3 DEF Ended
<1>6. v \in Seq(Seat)
    BY <1>1, <1>4, <1>5
<1>7. \A i \in DOMAIN s : v[i].state = "live" => s[i].state = "live" /\ i \notin R
    BY <1>4
<1>8. SeatsFit(v, c)
    BY <1>3, <1>4, <1>7 DEF SeatsFit
<1>9. QED
    BY <1>3, <1>4, <1>6, <1>7, <1>8 DEF LiveIn

\* What the invariant says of one process.
LEMMA StepsOfDoor ==
    ASSUME SInv, NEW p \in Doors
    PROVE  /\ SoundDoor(seat, account.password, changed[p], p, door[p])
           /\ door[p].todo \in Todos /\ SoundSet(door[p].set)
           /\ account \in Account /\ account.password \in Nat
           /\ seat \in Seq(Seat) /\ changed[p] \in Nat /\ changed[p] <= account.password
    BY AccountFacts DEF SInv, SoundDoor, TeamTypeOK

\* A process dies.
LEMMA DieKeeps ==
    ASSUME SInv, NEW p \in Doors, Die(p)
    PROVE  SInv'
<1>1. calls \in 0..MaxCalls
    BY DEF SInv, TeamTypeOK
<1>2. PICK d : d = Free
    OBVIOUS
<1>3. QED
    BY <1>1, <1>2, FreeFits, DoorKeeps DEF Die

\* Expired sessions are deleted.
LEMMA CleanupKeeps ==
    ASSUME SInv, Cleanup
    PROVE  SInv'
<1>1. PICK R : R = {i \in DOMAIN seat : seat[i].until + KeptFor < hour}
    OBVIOUS
<1>2. PICK v : v = Ended(seat, R, "deleted")
    OBVIOUS
<1>3. seat' = v
    BY <1>1, <1>2 DEF Cleanup, Ended
<1>4. seat \in Seq(Seat) /\ SeatsFit(seat, changed) /\ DOMAIN door = Doors
    BY DEF SInv, TeamTypeOK
<1>5. v \in Seq(Seat) /\ DOMAIN v = DOMAIN seat /\ SeatsFit(v, changed)
      /\ \A q : LiveIn(v, q) \subseteq LiveIn(seat, q)
    BY <1>2, <1>4, EndedSeats
<1>6. \A q \in Doors : SoundDoor(v, account.password, changed[q], q, door[q])
    BY <1>5, StepsOfDoor, DoorStillFits
<1>7. QED
    BY <1>3, <1>4, <1>5, <1>6, SeatsKeep DEF Cleanup

\* A process revokes what it found: none of its own is left.
LEMMA RevokeKeeps ==
    ASSUME SInv, NEW p \in Doors, RevokeSeats(p)
    PROVE  SInv'
<1>1. PICK d : d = door[p]
    OBVIOUS
<1>2. /\ SoundDoor(seat, account.password, changed[p], p, d) /\ d.todo \in Todos
      /\ d.todo # <<>> /\ Head(d.todo) = "revoke"
    BY <1>1, StepsOfDoor DEF RevokeSeats, Doing
<1>3. CASE \E i \in d.revoke : seat[i].state = "deleted"
    <2>1. door' = [door EXCEPT ![p] = Free] /\ UNCHANGED <<account, seat, changed, hour, calls>>
        BY <1>1, <1>3 DEF RevokeSeats
    <2>2. calls \in 0..MaxCalls
        BY DEF SInv, TeamTypeOK
    <2>3. PICK e : e = Free
        OBVIOUS
    <2>4. QED
        BY <2>1, <2>2, <2>3, FreeFits, DoorKeeps
<1>4. CASE ~ \E i \in d.revoke : seat[i].state = "deleted"
    <2>1. PICK v : v = Ended(seat, d.revoke, "revoked")
        OBVIOUS
    <2>2. seat' = v /\ door' = Onward(p) /\ UNCHANGED <<account, changed, hour, calls>>
        BY <1>1, <1>4, <2>1 DEF RevokeSeats, Ended
    <2>3. seat \in Seq(Seat) /\ SeatsFit(seat, changed) /\ DOMAIN door = Doors
        BY DEF SInv, TeamTypeOK
    <2>4. v \in Seq(Seat) /\ DOMAIN v = DOMAIN seat /\ SeatsFit(v, changed)
          /\ \A q : LiveIn(v, q) \subseteq LiveIn(seat, q) /\ LiveIn(v, q) \cap d.revoke = {}
        BY <2>1, <2>3, EndedSeats
    <2>5. PICK t : t = Tail(d.todo)
        OBVIOUS
    <2>6. PICK e : e = IF Len(d.todo) = 1 THEN Free ELSE [d EXCEPT !.todo = t]
        OBVIOUS
    <2>7. door' = [door EXCEPT ![p] = e]
        BY <1>1, <2>2, <2>3, <2>5, <2>6 DEF Onward
    <2>8. SoundDoor(v, account.password, changed[p], p, e)
        <3>1. CASE Len(d.todo) = 1
            BY <2>6, <3>1, FreeFits
        <3>2. CASE Len(d.todo) # 1
            <4>1. d.todo \in Clearing /\ t \in Cleared /\ t \in Todos
                BY <1>2, <2>5, <3>2, TodoSteps
            <4>2. LiveIn(v, p) = {}
                <5>1. LiveIn(seat, p) \subseteq d.revoke
                    BY <1>2, <4>1 DEF SoundDoor
                <5>2. LiveIn(v, p) \subseteq LiveIn(seat, p) /\ LiveIn(v, p) \cap d.revoke = {}
                    BY <2>4
                <5>3. QED
                    BY <5>1, <5>2
            <4>3. SoundDoor(v, account.password, changed[p], p, d)
                BY <1>2, <2>4, DoorStillFits
            <4>4. /\ DOMAIN e = {"todo", "set", "revoke", "password"}
                  /\ e.todo = t /\ e.set = d.set /\ e.revoke = d.revoke /\ e.password = d.password
                BY <1>2, <2>6, <3>2 DEF SoundDoor
            <4>5. t \notin Clearing
                BY <4>1, Heads DEF Clearing, Cleared
            <4>6. QED
                BY <1>2, <4>1, <4>2, <4>3, <4>4, <4>5 DEF SoundDoor
        <3>3. QED
            BY <3>1, <3>2
    <2>9. DOMAIN door' = Doors /\ door'[p] = e /\ \A q \in Doors \ {p} : door'[q] = door[q]
        BY <2>3, <2>7
    <2>10. \A q \in Doors \ {p} : SoundDoor(v, account.password, changed[q], q, door[q])
        BY <2>4, StepsOfDoor, DoorStillFits
    <2>11. \A q \in Doors : SoundDoor(v, account.password, changed[q], q, door'[q])
        <3> SUFFICES ASSUME NEW q \in Doors
                     PROVE  SoundDoor(v, account.password, changed[q], q, door'[q])
            OBVIOUS
        <3>1. CASE q = p
            BY <2>8, <2>9, <3>1
        <3>2. CASE q # p
            BY <2>9, <2>10, <3>2
        <3>3. QED
            BY <3>1, <3>2
    <2>12. QED
        BY <2>2, <2>4, <2>9, <2>11, SeatsKeep
<1>5. QED
    BY <1>3, <1>4

\* A session is given by a process that has none, for a password no older
\* than the one it last answered for.
LEMMA TakeSeatKeeps ==
    ASSUME SInv, NEW p \in Doors, TakeSeat(p)
    PROVE  SInv'
<1>1. PICK d, s : d = door[p] /\ s = seat
    OBVIOUS
<1>2. /\ SoundDoor(s, account.password, changed[p], p, d) /\ d.todo \in Todos
      /\ d.todo # <<>> /\ Head(d.todo) = "seat"
      /\ s \in Seq(Seat) /\ SeatsFit(s, changed) /\ DOMAIN door = Doors
      /\ hour \in Nat /\ SessionLife \in Nat
    BY <1>1, StepsOfDoor, TeamAssumption DEF TakeSeat, Doing, SInv, TeamTypeOK, Hours
<1>3. d.todo \in Cleared /\ Len(d.todo) = 1
    BY <1>2, TodoSteps
<1>4. LiveIn(s, p) = {} /\ d.password \in Nat /\ changed[p] <= d.password
    BY <1>2, <1>3 DEF SoundDoor
<1>5. PICK r : r = [until |-> hour + SessionLife, state |-> "live", password |-> d.password, by |-> p]
    OBVIOUS
<1>6. r \in Seat /\ r.state = "live" /\ r.by = p /\ r.password = d.password
    BY <1>2, <1>4, <1>5 DEF Seat
<1>7. PICK n, v : n = Len(s) + 1 /\ v = Append(s, r)
    OBVIOUS
<1>8. /\ v \in Seq(Seat) /\ DOMAIN v = DOMAIN s \cup {n} /\ n \notin DOMAIN s
      /\ v[n] = r /\ \A i \in DOMAIN s : v[i] = s[i]
    <2>1. Len(s) \in Nat /\ DOMAIN s = 1..Len(s)
        BY <1>2
    <2>2. /\ v \in Seq(Seat) /\ Len(v) = Len(s) + 1
          /\ \A i \in 1..Len(s) : v[i] = s[i]
          /\ v[Len(s) + 1] = r
        BY <1>2, <1>6, <1>7, AppendProperties
    <2>3. DOMAIN v = 1..n
        BY <1>7, <2>2
    <2>4. QED
        BY <1>7, <2>1, <2>2, <2>3
<1>9. SeatsFit(v, changed)
    <2>1. \A i \in DOMAIN s : s[i].state = "live" => s[i].by # p
        BY <1>4 DEF LiveIn
    <2>2. \A i, j \in DOMAIN v : v[i].state = "live" /\ v[j].state = "live" /\ i # j =>
                                   v[i].by # v[j].by
        BY <1>2, <1>6, <1>8, <2>1 DEF SeatsFit
    <2>3. \A i \in DOMAIN v : v[i].state = "live" => v[i].password >= changed[v[i].by]
        BY <1>2, <1>4, <1>6, <1>8, StepsOfDoor DEF SeatsFit
    <2>4. QED
        BY <2>2, <2>3 DEF SeatsFit
<1>10. \A q \in Doors \ {p} : LiveIn(v, q) \subseteq LiveIn(s, q)
    BY <1>6, <1>8 DEF LiveIn
<1>11. PICK e : e = Free
    OBVIOUS
<1>12. door' = [door EXCEPT ![p] = e]
    BY <1>1, <1>3, <1>11 DEF TakeSeat, Onward
<1>13. DOMAIN door' = Doors /\ door'[p] = e /\ \A q \in Doors \ {p} : door'[q] = door[q]
    BY <1>2, <1>12
<1>14. \A q \in Doors \ {p} : SoundDoor(v, account.password, changed[q], q, door[q])
    BY <1>1, <1>8, <1>10, StepsOfDoor, DoorStillFits
<1>15. \A q \in Doors : SoundDoor(v, account.password, changed[q], q, door'[q])
    <2> SUFFICES ASSUME NEW q \in Doors
                 PROVE  SoundDoor(v, account.password, changed[q], q, door'[q])
        OBVIOUS
    <2>1. CASE q = p
        BY <1>11, <1>13, <2>1, FreeFits
    <2>2. CASE q # p
        BY <1>13, <1>14, <2>2
    <2>3. QED
        BY <2>1, <2>2
<1>16. seat' = v /\ UNCHANGED <<account, changed, hour, calls>>
    BY <1>1, <1>5, <1>7 DEF TakeSeat
<1>17. QED
    BY <1>8, <1>9, <1>13, <1>15, <1>16, SeatsKeep

\* A process looks for sessions: it finds all of its own, as no other process
\* gives any in its name.
LEMMA FindKeeps ==
    ASSUME SInv, NEW p \in Doors, FindSeats(p)
    PROVE  SInv'
<1>1. PICK d, s : d = door[p] /\ s = seat
    OBVIOUS
<1>2. /\ SoundDoor(s, account.password, changed[p], p, d) /\ d.todo \in Todos
      /\ d.todo # <<>> /\ Head(d.todo) = "find" /\ DOMAIN door = Doors
      /\ calls \in 0..MaxCalls
    BY <1>1, StepsOfDoor DEF FindSeats, Doing, SInv, TeamTypeOK
<1>3. PICK t, R : t = Tail(d.todo) /\ R = Unrevoked
    OBVIOUS
<1>6. door' = [door EXCEPT ![p] = [d EXCEPT !.todo = t, !.revoke = R]]
    BY <1>1, <1>2, <1>3 DEF FindSeats
<1>7. PICK f : f = [d EXCEPT !.todo = t, !.revoke = R]
    OBVIOUS
<1>8. /\ DOMAIN f = {"todo", "set", "revoke", "password"}
      /\ f.todo = t /\ f.set = d.set /\ f.revoke = R /\ f.password = d.password
    BY <1>2, <1>7 DEF SoundDoor
<1>9. t \in Todos /\ t \in Clearing \cup {<<"revoke">>} /\ t # <<>>
    <2>1. t \in Todos /\ t \in Clearing \cup {<<"revoke">>}
        BY <1>2, <1>3, TodoSteps
    <2>2. QED
        BY <2>1 DEF Clearing
<1>10. t \notin Cleared
    BY <1>9, Heads DEF Clearing, Cleared
<1>11. R \subseteq DOMAIN s /\ LiveIn(s, p) \subseteq R
    BY <1>1, <1>3 DEF Unrevoked, LiveIn
<1>12. SoundDoor(seat, account.password, changed[p], p, f)
    BY <1>1, <1>2, <1>8, <1>9, <1>10, <1>11 DEF SoundDoor
<1>13. door' = [door EXCEPT ![p] = f] /\ UNCHANGED <<account, seat, changed, hour, calls>>
    BY <1>6, <1>7 DEF FindSeats
<1>14. QED
    BY <1>2, <1>12, <1>13, DoorKeeps

\* The answer to a reset comes when no session of the process is left.
LEMMA AnswerKeeps ==
    ASSUME SInv, NEW p \in Doors, AnswerReset(p)
    PROVE  SInv'
<1>1. PICK d : d = door[p]
    OBVIOUS
<1>2. /\ SoundDoor(seat, account.password, changed[p], p, d) /\ d.todo \in Todos
      /\ d.todo # <<>> /\ Head(d.todo) = "done" /\ DOMAIN door = Doors
      /\ changed \in [Doors -> Nat]
    BY <1>1, StepsOfDoor DEF AnswerReset, Doing, SInv
<1>3. d.todo \in Cleared /\ Len(d.todo) = 1
    BY <1>2, TodoSteps
<1>4. LiveIn(seat, p) = {} /\ d.password \in Nat /\ d.password <= account.password
    BY <1>2, <1>3 DEF SoundDoor
<1>5. PICK e, c : e = Free /\ c = [changed EXCEPT ![p] = d.password]
    OBVIOUS
<1>6. door' = [door EXCEPT ![p] = e] /\ changed' = c
      /\ UNCHANGED <<account, seat, hour, calls>>
    BY <1>1, <1>3, <1>5 DEF AnswerReset, Onward
<1>7. DOMAIN door' = Doors /\ door'[p] = e /\ \A q \in Doors \ {p} : door'[q] = door[q]
    BY <1>2, <1>6
<1>8. /\ c \in [Doors -> Nat] /\ c[p] = d.password
      /\ \A q \in Doors \ {p} : c[q] = changed[q]
    BY <1>2, <1>4, <1>5
<1>9. SeatsFit(seat, c)
    <2>1. \A i \in DOMAIN seat : seat[i].state = "live" => seat[i].by \in Doors \ {p}
        <3>1. \A i \in DOMAIN seat : seat[i] \in Seat
            BY DEF SInv, TeamTypeOK
        <3>2. \A i \in DOMAIN seat : seat[i].by \in Doors
            BY <3>1 DEF Seat
        <3>3. QED
            BY <1>4, <3>2 DEF LiveIn
    <2>2. QED
        BY <1>8, <2>1 DEF SInv, SeatsFit
<1>10. \A q \in Doors : c[q] <= account.password
                        /\ SoundDoor(seat, account.password, c[q], q, door'[q])
    <2> SUFFICES ASSUME NEW q \in Doors
                 PROVE  /\ c[q] <= account.password
                        /\ SoundDoor(seat, account.password, c[q], q, door'[q])
        OBVIOUS
    <2>1. CASE q = p
        BY <1>4, <1>5, <1>7, <1>8, <2>1, FreeFits
    <2>2. CASE q # p
        BY <1>7, <1>8, <2>2, StepsOfDoor
    <2>3. QED
        BY <2>1, <2>2
<1>11. account \in Account /\ DOMAIN account = AccountColumns
    BY AccountFacts DEF SInv, TeamTypeOK
<1>12. \A q \in Doors : /\ door'[q].todo \in Seq(Steps)
                        /\ DOMAIN door'[q].set \subseteq DOMAIN account
                        /\ door'[q].revoke \subseteq DOMAIN seat
    BY <1>10, <1>11, TodoSteps, SetColumns DEF SoundDoor, SoundSet
<1>13. TeamTypeOK'
    BY <1>6, <1>12 DEF SInv, TeamTypeOK
<1>14. QED
    BY <1>6, <1>7, <1>8, <1>9, <1>10, <1>13 DEF SInv

\* The account is written: passwords only grow.
LEMMA CommitAccountKeeps ==
    ASSUME SInv, NEW p \in Doors, CommitAccount(p)
    PROVE  SInv'
<1>1. PICK d, a, old : d = door[p] /\ a = Written(d.set) /\ old = account
    OBVIOUS
<1>2. /\ SoundDoor(seat, old.password, changed[p], p, d) /\ d.todo \in Todos /\ SoundSet(d.set)
      /\ d.todo # <<>> /\ Head(d.todo) = "write" /\ DOMAIN door = Doors
      /\ account' = a /\ UNCHANGED <<seat, hour, calls, changed>>
      /\ seat \in Seq(Seat)
    BY <1>1, StepsOfDoor DEF CommitAccount, Doing, SInv
<1>3. /\ a \in Account /\ old.password \in Nat /\ old.password <= a.password
      /\ a.password \in Nat
      /\ "password" \in DOMAIN d.set => a.password = old.password + 1
    BY <1>1, <1>2, WrittenIs, AccountFacts DEF SInv, TeamTypeOK
<1>4. PICK n, t : /\ n = (IF "password" \in DOMAIN d.set THEN old.password + 1 ELSE d.password)
                  /\ t = Tail(d.todo)
    OBVIOUS
<1>5. /\ d.password \in Nat /\ changed[p] <= d.password /\ d.password <= old.password
      /\ changed[p] \in Nat
    BY <1>2, StepsOfDoor DEF SoundDoor
<1>6. n \in Nat /\ changed[p] <= n /\ n <= a.password
    BY <1>3, <1>4, <1>5
<1>7. PICK e : e = IF Len(d.todo) = 1 THEN Free
                   ELSE [d EXCEPT !.todo = t, !.set = NoSet, !.password = n]
    OBVIOUS
<1>8. door' = [door EXCEPT ![p] = e]
    <2>1. CASE Len(d.todo) = 1
        BY <1>1, <1>7, <2>1 DEF CommitAccount
    <2>2. CASE Len(d.todo) # 1
        BY <1>1, <1>2, <1>4, <1>7, <2>2 DEF CommitAccount
    <2>3. QED
        BY <2>1, <2>2
<1>9. SoundDoor(seat, a.password, changed[p], p, e)
    <2>1. CASE Len(d.todo) = 1
        BY <1>7, <2>1, FreeFits
    <2>2. CASE Len(d.todo) # 1
        <3>1. /\ DOMAIN e = {"todo", "set", "revoke", "password"}
              /\ e.todo = t /\ e.set = NoSet /\ e.revoke = d.revoke /\ e.password = n
            BY <1>2, <1>7, <2>2 DEF SoundDoor
        <3>2. t \in Todos /\ t \notin Clearing \cup Cleared
            BY <1>2, <1>4, TodoSteps
        <3>3. SoundSet(NoSet)
            BY DEF SoundSet, NoSet
        <3>4. QED
            BY <1>2, <1>6, <3>1, <3>2, <3>3 DEF SoundDoor
    <2>3. QED
        BY <2>1, <2>2
<1>10. DOMAIN door' = Doors /\ door'[p] = e /\ \A q \in Doors \ {p} : door'[q] = door[q]
    BY <1>2, <1>8
<1>11. \A q \in Doors : changed[q] <= a.password
                        /\ SoundDoor(seat, a.password, changed[q], q, door'[q])
    <2> SUFFICES ASSUME NEW q \in Doors
                 PROVE  /\ changed[q] <= a.password
                        /\ SoundDoor(seat, a.password, changed[q], q, door'[q])
        OBVIOUS
    <2>1. PICK b : b = door[q]
        OBVIOUS
    <2>2. SoundDoor(seat, old.password, changed[q], q, b) /\ changed[q] \in Nat
          /\ changed[q] <= old.password
        BY <1>1, <2>1, StepsOfDoor
    <2>3. changed[q] <= a.password
        BY <1>3, <2>2
    <2>4. b.todo # <<>> => b.password <= a.password
        BY <1>3, <2>2 DEF SoundDoor
    <2>5. SoundDoor(seat, a.password, changed[q], q, b)
        BY <2>2, <2>4 DEF SoundDoor
    <2>6. QED
        BY <1>9, <1>10, <2>1, <2>3, <2>5
<1>12. DOMAIN a = AccountColumns
    BY <1>3, AccountFacts
<1>13. \A q \in Doors : /\ door'[q].todo \in Seq(Steps)
                        /\ DOMAIN door'[q].set \subseteq DOMAIN a
                        /\ door'[q].revoke \subseteq DOMAIN seat
    BY <1>11, <1>12, TodoSteps, SetColumns DEF SoundDoor, SoundSet
<1>14. TeamTypeOK'
    BY <1>2, <1>3, <1>13 DEF SInv, TeamTypeOK
<1>15. QED
    BY <1>2, <1>10, <1>11, <1>14 DEF SInv

\* The invariant holds at first.
LEMMA TeamStarts ==
    ASSUME TeamInit
    PROVE  SInv
<1>1. /\ account["password"] = 1 /\ account \in Account /\ DOMAIN account = AccountColumns
    BY DEF TeamInit, Account, AccountColumns, Moment, Unset
<1>2. /\ DOMAIN door = Doors /\ \A p \in Doors : door[p] = Free /\ changed[p] = 0
      /\ changed \in [Doors -> Nat]
    BY DEF TeamInit
<1>3. \A p \in Doors : SoundDoor(seat, account.password, changed[p], p, door[p])
    BY <1>2, FreeFits
<1>4. seat \in Seq(Seat) /\ DOMAIN seat = {} /\ SeatsFit(seat, changed)
    BY DEF TeamInit, SeatsFit
<1>5. hour \in Hours /\ calls \in 0..MaxCalls
    BY TeamAssumption DEF TeamInit, Hours
<1>6. \A q \in Doors : /\ door[q].todo \in Seq(Steps)
                       /\ DOMAIN door[q].set \subseteq DOMAIN account
                       /\ door[q].revoke \subseteq DOMAIN seat
    BY <1>1, <1>3, TodoSteps, SetColumns DEF SoundDoor, SoundSet
<1>7. TeamTypeOK
    BY <1>1, <1>4, <1>5, <1>6 DEF TeamTypeOK
<1>8. QED
    BY <1>1, <1>2, <1>3, <1>4, <1>7 DEF SInv

\* Every step keeps the invariant.
LEMMA TeamStepKeeps ==
    ASSUME SInv, [TeamNext]_teamVars
    PROVE  SInv'
<1>1. CASE \E p \in Doors : DoorStep(p)
    <2>1. PICK p \in Doors : DoorStep(p)
        BY <1>1
    <2>2. QED
        BY <2>1, RequestsKeep, CommitAccountKeeps, FindKeeps, RevokeKeeps, TakeSeatKeeps,
           AnswerKeeps, DieKeeps DEF DoorStep
<1>2. CASE Cleanup
    BY <1>2, CleanupKeeps
<1>3. CASE PassHour \/ UNCHANGED teamVars
    <2>1. UNCHANGED <<account, seat, door, calls, changed>> /\ hour' \in Hours
        BY <1>3, TeamAssumption DEF PassHour, teamVars, SInv, TeamTypeOK, Hours
    <2>2. TeamTypeOK'
        BY <2>1 DEF SInv, TeamTypeOK
    <2>3. QED
        BY <2>1, <2>2 DEF SInv
<1>4. QED
    BY <1>1, <1>2, <1>3 DEF TeamNext

\* The inductive invariant of sessions and passwords is an invariant.
THEOREM SeatInvariant == TeamSpec => []SInv
    BY TeamStarts, TeamStepKeeps, PTL DEF TeamSpec

(***************************************************************************)
(* Failed attempts.  A bound on the failures still to come falls with      *)
(* every failure, and pays for the one a second process writes late.       *)
(***************************************************************************)
\* The first threshold.
LEMMA FirstLockIs ==
    /\ FirstLock \in Nat \ {0} /\ FirstLock \in DOMAIN Locks
    /\ \A t \in DOMAIN Locks : FirstLock <= t
<1>1. DOMAIN Locks \subseteq Nat /\ DOMAIN Locks # {}
    BY TeamAssumption
<1>2. PICK t \in DOMAIN Locks : \A u \in DOMAIN Locks : t <= u
    BY <1>1, LeastElement
<1>3. FirstLock \in DOMAIN Locks /\ \A u \in DOMAIN Locks : FirstLock <= u
    BY <1>2 DEF FirstLock
<1>4. QED
    BY <1>3, TeamAssumption

\* What may go unlocked is less the more failures are counted.
LEMMA LeftFalls ==
    ASSUME NEW a \in Nat, NEW b \in Nat, a <= b
    PROVE  Left(b) <= Left(a) /\ Left(a) \in Nat /\ Left(b) \in Nat
<1>1. PICK L \in Nat \ {0} : L = FirstLock
    BY FirstLockIs
<1>2. \A x \in Nat : x < L => /\ L - 1 - x \in Nat /\ L + 2 - x \in Nat
                              /\ (L - 1 - x) * (L + 2 - x) \in Nat
    <2> SUFFICES ASSUME NEW x \in Nat, x < L
                 PROVE  /\ L - 1 - x \in Nat /\ L + 2 - x \in Nat
                        /\ (L - 1 - x) * (L + 2 - x) \in Nat
        OBVIOUS
    <2>1. PICK k \in Nat : k = L - 1 - x
        BY <1>1
    <2>2. L + 2 - x = k + 3
        BY <1>1, <2>1
    <2>3. k * (k + 3) \in Nat
        OBVIOUS
    <2>4. QED
        BY <2>1, <2>2, <2>3
<1>3. CASE b < L
    <2>1. PICK k \in Nat, d \in Nat : k = L - 1 - b /\ d = b - a
        BY <1>1, <1>3
    <2>2. L - 1 - a = k + d /\ L + 2 - a = k + d + 3 /\ L + 2 - b = k + 3
        BY <1>1, <2>1
    <2>3. k * (k + 3) <= (k + d) * (k + d + 3)
        <3>1. (k + d) * (k + d + 3) = k * (k + 3) + d * (2 * k + d + 3)
            OBVIOUS
        <3>2. d * (2 * k + d + 3) \in Nat /\ k * (k + 3) \in Nat
            OBVIOUS
        <3>3. QED
            BY <3>1, <3>2
    <2>4. a < L
        BY <1>1, <1>3
    <2>5. Left(a) = (k + d) * (k + d + 3) /\ Left(b) = k * (k + 3)
        BY <1>1, <1>3, <2>1, <2>2, <2>4 DEF Left
    <2>6. k * (k + 3) \in Nat /\ (k + d) * (k + d + 3) \in Nat
        OBVIOUS
    <2>7. QED
        BY <2>3, <2>5, <2>6
<1>4. CASE ~(b < L)
    <2>1. Left(b) = 0 /\ Left(a) \in Nat
        BY <1>1, <1>2, <1>4 DEF Left
    <2>2. QED
        BY <2>1
<1>5. QED
    BY <1>3, <1>4

\* It is a natural number.
LEMMA LeftIsNat ==
    \A f \in Nat : Left(f) \in Nat
<1>1. \A f \in Nat : f <= f
    OBVIOUS
<1>2. QED
    BY <1>1, LeftFalls

\* One more failure takes its own place and those until the lock.
LEMMA LeftSteps ==
    ASSUME NEW f \in Nat, f + 1 < FirstLock
    PROVE  /\ Left(f) = Ahead(f) + 2 + Left(f + 1)
           /\ Ahead(f) = Ahead(f + 1) + 2
<1>1. PICK L \in Nat \ {0} : L = FirstLock
    BY FirstLockIs
<1>2. PICK k \in Nat : k = L - 1 - (f + 1)
    BY <1>1
<1>3. L - 1 - f = k + 1 /\ L + 2 - f = k + 4 /\ L + 2 - (f + 1) = k + 3
    BY <1>1, <1>2
<1>4. f < L /\ f + 1 < L
    BY <1>1
<1>5. Left(f) = (k + 1) * (k + 4) /\ Left(f + 1) = k * (k + 3)
      /\ Ahead(f) = 2 * (k + 1) /\ Ahead(f + 1) = 2 * k
    BY <1>1, <1>2, <1>3, <1>4 DEF Left, Ahead
<1>6. (k + 1) * (k + 4) = 2 * (k + 1) + 2 + k * (k + 3)
    OBVIOUS
<1>7. QED
    BY <1>5, <1>6

\* Failures until the lock.
LEMMA AheadIs ==
    ASSUME NEW f \in Nat
    PROVE  /\ Ahead(f) \in Nat
           /\ f < FirstLock => Ahead(f) + 2 = 2 * (FirstLock - f)
           /\ Ahead(f) <= 2 * (FirstLock - 1)
    BY FirstLockIs DEF Ahead

\* All is left at first.
LEMMA BudgetIs == Budget = Left(0) /\ Budget \in Nat
<1>1. 0 < FirstLock /\ FirstLock \in Nat
    BY FirstLockIs
<1>2. Left(0) = (FirstLock - 1 - 0) * (FirstLock + 2 - 0)
    BY <1>1 DEF Left
<1>3. FirstLock - 1 - 0 = FirstLock - 1 /\ FirstLock + 2 - 0 = FirstLock + 2
    BY <1>1
<1>4. Left(0) \in Nat
    BY LeftFalls
<1>5. QED
    BY <1>2, <1>3, <1>4 DEF Budget

\* From nothing missed, whatever the count, a process about to write fits.
LEMMA FreshFits ==
    ASSUME NEW f \in Nat, NEW n \in 1..(FirstLock - 1)
    PROVE  2 * 0 + Left(f) <= Budget /\ Fits(0, f, n)
<1>1. Left(f) <= Left(0) /\ Left(n) <= Left(1) /\ Left(f) \in Nat /\ Left(n) \in Nat /\ Left(1) \in Nat
    BY LeftFalls, FirstLockIs
<1>2. 0 + 1 < FirstLock
    BY FirstLockIs
<1>3. Left(0) = Ahead(0) + 2 + Left(0 + 1)
    BY <1>2, LeftSteps
<1>4. Ahead(0) + 2 = 2 * (FirstLock - 0) /\ Ahead(0) \in Nat
    BY <1>2, AheadIs, FirstLockIs
<1>5. Ahead(f) <= 2 * (FirstLock - 1) /\ Ahead(f) \in Nat
    BY AheadIs
<1>6. 2 * (FirstLock - 1) + 2 = 2 * FirstLock /\ FirstLock \in Nat
    BY FirstLockIs
<1>7. 0 + 1 = 1 /\ 2 * 0 = 0
    OBVIOUS
<1>8. Ahead(f) + 2 + Left(n) <= Left(0)
    BY <1>1, <1>3, <1>4, <1>5, <1>6, <1>7
<1>9. QED
    BY <1>1, <1>5, <1>7, <1>8, BudgetIs DEF Fits

\* Whatever the count, nothing missed is within the bound.
LEMMA FreshLeft ==
    ASSUME NEW f \in Nat
    PROVE  2 * 0 + Left(f) <= Budget
<1>1. Left(f) <= Left(0) /\ Left(f) \in Nat
    BY LeftFalls
<1>2. QED
    BY <1>1, BudgetIs

\* A process that reads the count f next to one that is about to write b.
LEMMA NextFits ==
    ASSUME NEW m \in Nat, NEW f \in Nat, f + 1 < FirstLock, 2 * m + Left(f) <= Budget
    PROVE  /\ Fits(m, f, f + 1)
           /\ \A b \in 1..(FirstLock - 1) : Fits(m, f, b) =>
                FitsBoth(m, f + 1, b) /\ FitsBoth(m, b, f + 1)
<1>1. /\ Left(f) = Ahead(f) + 2 + Left(f + 1) /\ Ahead(f) = Ahead(f + 1) + 2
      /\ Left(f) \in Nat /\ Left(f + 1) \in Nat /\ Ahead(f) \in Nat /\ Ahead(f + 1) \in Nat
    BY LeftSteps, LeftFalls, AheadIs
<1>2. Fits(m, f, f + 1)
    BY <1>1, BudgetIs DEF Fits
<1>3. ASSUME NEW b \in 1..(FirstLock - 1), Fits(m, f, b)
      PROVE  FitsBoth(m, f + 1, b) /\ FitsBoth(m, b, f + 1)
    <2>1. b \in Nat /\ b < FirstLock /\ f < FirstLock /\ FirstLock \in Nat
        BY FirstLockIs
    <2>2. Left(b) \in Nat /\ Ahead(b) \in Nat /\ Ahead(b) + 2 = 2 * (FirstLock - b)
          /\ Ahead(f) + 2 = 2 * (FirstLock - f)
        BY <2>1, LeftFalls, AheadIs
    <2>3. 2 * m + Ahead(f) + 2 + Left(b) <= Budget
        BY <1>3 DEF Fits
    <2>4. FitsBoth(m, f + 1, b)
        BY <1>1, <2>2, <2>3, BudgetIs DEF FitsBoth
    <2>5. CASE f + 1 <= b
        <3>1. Ahead(b) + 2 <= Ahead(f)
            <4>1. \A L \in Nat : 2 * (L - b) + 2 <= 2 * (L - f)
                BY <2>1, <2>5
            <4>2. 2 * (FirstLock - b) + 2 <= 2 * (FirstLock - f)
                BY <2>1, <4>1
            <4>3. Ahead(b) + 2 + 2 <= Ahead(f) + 2
                BY <2>2, <4>2
            <4>4. QED
                BY <1>1, <2>2, <4>3
        <3>2. QED
            BY <1>1, <2>2, <2>4, <3>1, BudgetIs DEF FitsBoth
    <2>6. CASE b <= f
        <3>1. b + 1 < FirstLock /\ b + 1 <= f + 1 /\ b + 1 \in Nat
            BY <2>1, <2>6
        <3>2. Left(b) = Ahead(b) + 2 + Left(b + 1) /\ Left(b + 1) \in Nat
              /\ Left(f + 1) <= Left(b + 1)
            BY <2>1, <3>1, LeftSteps, LeftFalls
        <3>3. 2 <= Ahead(f)
            BY <1>1
        <3>4. QED
            BY <1>1, <2>2, <2>3, <2>4, <3>2, <3>3, BudgetIs DEF FitsBoth
    <2>7. QED
        BY <2>1, <2>5, <2>6
<1>4. QED
    BY <1>2, <1>3

\* Nothing is written, and no process is about to write another count.
LEMMA CalmKeeps ==
    ASSUME KInv, UNCHANGED misses, account'.failed = account.failed,
           \A q \in Doors : Counting(door'[q]) => Counting(door[q]) /\ door'[q].set = door[q].set
    PROVE  KInv'
<1>1. \A q \in Doors : Counting(door'[q]) => Counting(door[q])
                         /\ door'[q].set["failed"] = door[q].set["failed"]
    OBVIOUS
<1>2. PICK m, f : m = misses /\ f = account.failed
    OBVIOUS
<1>3. /\ \A p \in Doors : Counting(door'[p]) =>
           /\ door'[p].set["failed"] \in 1..(FirstLock - 1)
           /\ Fits(m, f, door'[p].set["failed"])
      /\ \A p, q \in Doors : p # q /\ Counting(door'[p]) /\ Counting(door'[q]) =>
           FitsBoth(m, door'[p].set["failed"], door'[q].set["failed"])
    BY <1>1, <1>2 DEF KInv
<1>4. misses' = m /\ account'.failed = f /\ m \in Nat /\ 2 * m + Left(f) <= Budget
    BY <1>2 DEF KInv
<1>5. QED
    BY <1>3, <1>4 DEF KInv, Counting, Fits, FitsBoth, Left, Ahead, Budget, FirstLock

\* A process that holds nothing counts nothing.
LEMMA FreeCountsNothing == ~Counting(Free)
    BY DEF Counting, Free

\* The steps that write no count.
LEMMA StepsCalm ==
    ASSUME SInv, KInv, NEW p \in Doors,
           FindSeats(p) \/ RevokeSeats(p) \/ TakeSeat(p) \/ AnswerReset(p) \/ Die(p)
    PROVE  KInv'
<1>1. PICK d : d = door[p]
    OBVIOUS
<1>2. DOMAIN d = {"todo", "set", "revoke", "password"} /\ d.todo \in Todos /\ DOMAIN door = Doors
    BY <1>1, StepsOfDoor DEF SInv, SoundDoor
<1>3. UNCHANGED <<account, misses>>
    BY DEF FindSeats, RevokeSeats, TakeSeat, AnswerReset, Die
<1>4. \E e : /\ door' = [door EXCEPT ![p] = e]
             /\ e = Free \/ (d.todo # <<>> /\ e.set = d.set)
    <2>1. CASE FindSeats(p)
        <3>1. PICK t, R : t = Tail(d.todo) /\ R = Unrevoked
            OBVIOUS
        <3>2. PICK e : e = [d EXCEPT !.todo = t, !.revoke = R]
            OBVIOUS
        <3>3. door' = [door EXCEPT ![p] = e] /\ e.set = d.set /\ d.todo # <<>>
            BY <1>1, <1>2, <2>1, <3>1, <3>2 DEF FindSeats, Doing
        <3>4. QED
            BY <3>3
    <2>2. CASE \/ RevokeSeats(p) /\ \E i \in door[p].revoke : seat[i].state = "deleted"
               \/ Die(p)
        BY <2>2 DEF RevokeSeats, Die
    <2>3. CASE \/ RevokeSeats(p) /\ ~ \E i \in door[p].revoke : seat[i].state = "deleted"
               \/ TakeSeat(p) \/ AnswerReset(p)
        <3>1. door' = Onward(p) /\ d.todo # <<>>
            BY <1>1, <2>3 DEF RevokeSeats, TakeSeat, AnswerReset, Doing
        <3>2. PICK t : t = Tail(d.todo)
            OBVIOUS
        <3>3. PICK e : e = IF Len(d.todo) = 1 THEN Free ELSE [d EXCEPT !.todo = t]
            OBVIOUS
        <3>4. door' = [door EXCEPT ![p] = e]
            BY <1>1, <1>2, <3>1, <3>2, <3>3 DEF Onward
        <3>5. e = Free \/ e.set = d.set
            BY <1>2, <3>3
        <3>6. QED
            BY <3>1, <3>4, <3>5
    <2>4. QED
        BY <2>1, <2>2, <2>3
<1>5. PICK e : /\ door' = [door EXCEPT ![p] = e]
               /\ e = Free \/ (d.todo # <<>> /\ e.set = d.set)
    BY <1>4
<1>6. door'[p] = e /\ \A q \in Doors \ {p} : door'[q] = door[q]
    BY <1>2, <1>5
<1>7. Counting(e) => Counting(d) /\ e.set = d.set
    BY <1>5, FreeCountsNothing DEF Counting
<1>8. \A q \in Doors : Counting(door'[q]) => Counting(door[q]) /\ door'[q].set = door[q].set
    BY <1>1, <1>6, <1>7
<1>9. QED
    BY <1>3, <1>8, CalmKeeps

\* What a request holds.
LEMMA AskedDoor ==
    ASSUME SInv, NEW p \in Doors, NEW todo, NEW set, NEW seats, Ask(p, todo, set, seats)
    PROVE  /\ UNCHANGED <<account, misses>>
           /\ \A q \in Doors \ {p} : door'[q] = door[q]
           /\ DOMAIN door'[p].set = Assigned(set)
           /\ \A c \in DOMAIN door'[p].set : door'[p].set[c] = set[c]
<1>1. PICK new : new = [c \in Assigned(set) |-> set[c]]
    OBVIOUS
<1>2. PICK d : d = [Free EXCEPT !.todo = todo, !.set = new, !.revoke = seats,
                                !.password = account.password]
    OBVIOUS
<1>3. door' = [door EXCEPT ![p] = d]
    BY <1>1, <1>2 DEF Ask
<1>4. DOMAIN door = Doors
    BY DEF SInv
<1>5. d.set = new
    BY <1>2 DEF Free
<1>6. QED
    BY <1>1, <1>3, <1>4, <1>5 DEF Ask

\* The requests that put the count to zero or leave it.
LEMMA RequestsCalm ==
    ASSUME SInv, KInv, NEW p \in Doors,
           \/ BeginLogin(p) \/ BeginForgot(p) \/ BeginReset(p)
           \/ BeginMemberReset(p) \/ BeginRevokeAll(p) \/ BeginReinstate(p)
           \/ \E on \in BOOLEAN : BeginActivate(p, on)
           \/ \E i \in DOMAIN seat : BeginLogout(p, i) \/ BeginChange(p, i)
    PROVE  KInv'
<1>1. \E todo, set, seats : /\ Ask(p, todo, set, seats)
                            /\ "failed" \in DOMAIN set => set["failed"] = 0
    <2>1. /\ Unlocked["failed"] = 0 /\ DOMAIN NewPassword = {"password"} /\ DOMAIN NoSet = {}
          /\ DOMAIN Unlocked = {"failed", "locked"} /\ DOMAIN [reset |-> Unset] = {"reset"}
          /\ DOMAIN [reset |-> hour + 1] = {"reset"}
          /\ \A on \in BOOLEAN : DOMAIN [active |-> on] = {"active"}
        BY DEF Unlocked, NewPassword, NoSet
    <2>2. \A a, b : /\ "failed" \in DOMAIN a => a["failed"] = 0
                    /\ "failed" \in DOMAIN b => b["failed"] = 0
                    => ("failed" \in DOMAIN Overlay(a, b) => Overlay(a, b)["failed"] = 0)
        BY DEF Overlay
    <2>3. CASE BeginLogin(p)
        BY <2>1, <2>3 DEF BeginLogin, Call
    <2>4. CASE BeginForgot(p)
        <3>1. PICK set : set = [reset |-> hour + 1]
            OBVIOUS
        <3>2. "failed" \notin DOMAIN set
            BY <2>1, <3>1
        <3>3. QED
            BY <2>4, <3>1, <3>2 DEF BeginForgot, Call
    <2>5. CASE BeginReset(p)
        <3>1. PICK a, b : a = [reset |-> Unset] /\ b = Overlay(NewPassword, Overlay(a, Unlocked))
            OBVIOUS
        <3>2. "failed" \in DOMAIN b => b["failed"] = 0
            BY <2>1, <2>2, <3>1
        <3>3. "failed" \notin DOMAIN a
            BY <2>1, <3>1
        <3>4. QED
            BY <2>5, <3>1, <3>2, <3>3 DEF BeginReset, Call
    <2>6. CASE BeginMemberReset(p)
        <3>1. PICK b : b = Overlay(NewPassword, Unlocked)
            OBVIOUS
        <3>2. "failed" \in DOMAIN b => b["failed"] = 0
            BY <2>1, <2>2, <3>1
        <3>3. QED
            BY <2>6, <3>1, <3>2 DEF BeginMemberReset, Call
    <2>7. CASE BeginRevokeAll(p)
        BY <2>1, <2>7 DEF BeginRevokeAll, Call
    <2>8. CASE \E on \in BOOLEAN : BeginActivate(p, on)
        <3>1. PICK on \in BOOLEAN : BeginActivate(p, on)
            BY <2>8
        <3>2. PICK set : set = [active |-> on]
            OBVIOUS
        <3>3. "failed" \notin DOMAIN set
            BY <2>1, <3>2
        <3>4. QED
            BY <3>1, <3>2, <3>3 DEF BeginActivate, Call
    <2>9. CASE \E i \in DOMAIN seat : BeginLogout(p, i) \/ BeginChange(p, i)
        BY <2>1, <2>9 DEF BeginLogout, BeginChange, Call
    <2>10. CASE BeginReinstate(p)
        <3>1. PICK a, b : a = [active |-> TRUE] /\ b = Overlay(NewPassword, a)
            OBVIOUS
        <3>2. "failed" \notin DOMAIN a
            BY <2>1, <3>1
        <3>3. "failed" \in DOMAIN b => b["failed"] = 0
            BY <2>1, <2>2, <3>1, <3>2
        <3>4. QED
            BY <2>10, <3>1, <3>3 DEF BeginReinstate, Call
    <2>11. QED
        BY <2>3, <2>4, <2>5, <2>6, <2>7, <2>8, <2>9, <2>10
<1>2. PICK todo, set, seats : /\ Ask(p, todo, set, seats)
                              /\ "failed" \in DOMAIN set => set["failed"] = 0
    BY <1>1
<1>3. /\ UNCHANGED <<account, misses>>
      /\ \A q \in Doors \ {p} : door'[q] = door[q]
      /\ DOMAIN door'[p].set = Assigned(set)
      /\ \A c \in DOMAIN door'[p].set : door'[p].set[c] = set[c]
    BY <1>2, AskedDoor
<1>4. ~Counting(door'[p])
    BY <1>2, <1>3 DEF Counting, Assigned
<1>5. \A q \in Doors : Counting(door'[q]) => Counting(door[q]) /\ door'[q].set = door[q].set
    BY <1>3, <1>4
<1>6. QED
    BY <1>3, <1>5, CalmKeeps

\* A failure is about to be counted, or to lock.
LEMMA FailureCounts ==
    ASSUME SInv, KInv, NEW p \in Doors, BeginFailure(p)
    PROVE  KInv'
<1>1. PICK m, f : m = misses /\ f = account.failed
    OBVIOUS
<1>2. f \in Nat /\ m \in Nat /\ 2 * m + Left(f) <= Budget /\ hour \in Nat
    BY <1>1, AccountFacts, TeamAssumption DEF KInv, SInv, TeamTypeOK, Hours
<1>3. PICK n \in Nat : n = f + 1
    BY <1>2
<1>4. PICK set : set = [failed |-> n, locked |-> LockUntil(n)]
    OBVIOUS
<1>5. Ask(p, <<"write">>, set, {}) /\ MayTry
    BY <1>1, <1>3, <1>4 DEF BeginFailure, Call
<1>6. /\ UNCHANGED <<account, misses>>
      /\ \A q \in Doors \ {p} : door'[q] = door[q]
      /\ DOMAIN door'[p].set = Assigned(set)
      /\ \A c \in DOMAIN door'[p].set : door'[p].set[c] = set[c]
    BY <1>5, AskedDoor
<1>7. set["failed"] = n /\ set["locked"] = LockUntil(n) /\ DOMAIN set = {"failed", "locked"}
    BY <1>4
<1>8. CASE n < FirstLock
    <2>1. {t \in DOMAIN Locks : t <= n} = {}
        BY <1>8, FirstLockIs, TeamAssumption
    <2>2. LockUntil(n) = account["locked"] /\ account["failed"] # n
        BY <1>1, <1>2, <1>3, <2>1, LocksAt
    <2>3. DOMAIN door'[p].set = {"failed"} /\ door'[p].set["failed"] = n
        BY <1>6, <1>7, <2>2 DEF Assigned
    <2>4. n \in 1..(FirstLock - 1)
        BY <1>2, <1>3, <1>8, FirstLockIs
    <2>5. /\ Fits(m, f, n)
          /\ \A b \in 1..(FirstLock - 1) : Fits(m, f, b) => FitsBoth(m, n, b) /\ FitsBoth(m, b, n)
        BY <1>2, <1>3, <1>8, NextFits
    <2>6. \A q \in Doors : Counting(door'[q]) =>
            /\ q # p => door'[q] = door[q] /\ Counting(door[q])
            /\ door'[q].set["failed"] \in 1..(FirstLock - 1)
            /\ Fits(m, f, door'[q].set["failed"])
        BY <1>1, <1>6, <2>3, <2>4, <2>5 DEF KInv
    <2>7. \A q, r \in Doors : q # r /\ Counting(door'[q]) /\ Counting(door'[r]) =>
            FitsBoth(m, door'[q].set["failed"], door'[r].set["failed"])
        <3> SUFFICES ASSUME NEW q \in Doors, NEW r \in Doors, q # r,
                            Counting(door'[q]), Counting(door'[r])
                     PROVE  FitsBoth(m, door'[q].set["failed"], door'[r].set["failed"])
            OBVIOUS
        <3>1. CASE q = p
            BY <2>3, <2>5, <2>6, <3>1
        <3>2. CASE r = p
            BY <2>3, <2>5, <2>6, <3>2
        <3>3. CASE q # p /\ r # p
            BY <1>1, <2>6, <3>3 DEF KInv
        <3>4. QED
            BY <3>1, <3>2, <3>3
    <2>8. misses' = m /\ account'.failed = f
        BY <1>1, <1>6
    <2>9. QED
        BY <1>2, <2>6, <2>7, <2>8 DEF KInv, Counting, Fits, FitsBoth, Left, Ahead, Budget, FirstLock
<1>9. CASE ~(n < FirstLock)
    <2>1. {t \in DOMAIN Locks : t <= n} # {}
        BY <1>9, FirstLockIs
    <2>2. LockUntil(n) > hour /\ LockUntil(n) \in Int
        BY <2>1, LocksAt
    <2>3. account["locked"] <= hour /\ account["locked"] \in Int
        BY <1>2, <1>5, AccountFacts DEF MayTry, Locked, Unset, SInv, TeamTypeOK
    <2>4. "locked" \in DOMAIN door'[p].set
        BY <1>2, <1>6, <1>7, <2>2, <2>3 DEF Assigned
    <2>5. ~Counting(door'[p])
        BY <2>4 DEF Counting
    <2>6. \A q \in Doors : Counting(door'[q]) => Counting(door[q]) /\ door'[q].set = door[q].set
        BY <1>6, <2>5
    <2>7. QED
        BY <1>6, <2>6, CalmKeeps
<1>10. QED
    BY <1>8, <1>9

\* A count is written, perhaps below one that was written since it was read.
LEMMA CommitCounts ==
    ASSUME SInv, KInv, TwoDoors, NEW p \in Doors, CommitAccount(p)
    PROVE  KInv'
<1>1. PICK m, f, d, a : m = misses /\ f = account.failed /\ d = door[p] /\ a = Written(d.set)
    OBVIOUS
<1>2. /\ f \in Nat /\ m \in Nat /\ 2 * m + Left(f) <= Budget
      /\ SoundSet(d.set) /\ d.todo # <<>> /\ DOMAIN door = Doors
      /\ DOMAIN d = {"todo", "set", "revoke", "password"}
    BY <1>1, StepsOfDoor, AccountFacts
    DEF KInv, SInv, TeamTypeOK, CommitAccount, Doing, SoundDoor
<1>3. account' = a /\ a.failed = IF "failed" \in DOMAIN d.set THEN d.set["failed"] ELSE f
    BY <1>1, <1>2, WrittenIs DEF CommitAccount, SInv, TeamTypeOK
<1>4. ~Counting(door'[p]) /\ \A q \in Doors \ {p} : door'[q] = door[q]
    <2>1. CASE Len(d.todo) = 1
        <3>1. door'[p] = Free /\ \A q \in Doors \ {p} : door'[q] = door[q]
            BY <1>1, <1>2, <2>1 DEF CommitAccount
        <3>2. QED
            BY <3>1, FreeCountsNothing
    <2>2. CASE Len(d.todo) # 1
        <3>1. PICK t, n : /\ t = Tail(d.todo)
                          /\ n = IF "password" \in DOMAIN d.set THEN account.password + 1 ELSE d.password
            OBVIOUS
        <3>2. PICK e : e = [d EXCEPT !.todo = t, !.set = NoSet, !.password = n]
            OBVIOUS
        <3>3. door' = [door EXCEPT ![p] = e]
            BY <1>1, <1>2, <2>2, <3>1, <3>2 DEF CommitAccount
        <3>4. e.set = NoSet
            BY <1>2, <3>2
        <3>5. ~Counting(e)
            BY <3>4 DEF Counting, NoSet
        <3>6. QED
            BY <1>2, <3>3, <3>5
    <2>3. QED
        BY <2>1, <2>2
<1>5. \A q, r \in Doors : Counting(door'[q]) /\ Counting(door'[r]) => q = r
    BY <1>4 DEF TwoDoors
<1>6. \A q \in Doors : Counting(door'[q]) =>
          /\ q # p /\ Counting(door[q]) /\ door'[q].set = door[q].set
          /\ door'[q].set["failed"] \in 1..(FirstLock - 1)
    BY <1>4 DEF KInv
<1>7. CASE "failed" \notin DOMAIN d.set
    <2>1. misses' = misses /\ account'.failed = account.failed
        BY <1>1, <1>3, <1>7 DEF CommitAccount
    <2>2. QED
        BY <1>6, <2>1, CalmKeeps
<1>8. CASE /\ "failed" \in DOMAIN d.set
           /\ d.set["failed"] = 0 \/ "locked" \in DOMAIN d.set
    <2>1. PICK n : n = d.set["failed"]
        OBVIOUS
    <2>2. misses' = 0 /\ account'.failed = n /\ n \in Nat
        BY <1>1, <1>2, <1>3, <1>8, <2>1 DEF CommitAccount, SoundSet
    <2>3. 2 * 0 + Left(n) <= Budget
        BY <2>2, FreshLeft
    <2>4. \A q \in Doors : Counting(door'[q]) => Fits(0, n, door'[q].set["failed"])
        BY <1>6, <2>2, FreshFits
    <2>5. 0 \in Nat
        OBVIOUS
    <2>6. QED
        BY <1>5, <1>6, <2>2, <2>3, <2>4, <2>5
        DEF KInv, Counting, Fits, FitsBoth, Left, Ahead, Budget, FirstLock
<1>9. CASE "failed" \in DOMAIN d.set /\ d.set["failed"] # 0 /\ "locked" \notin DOMAIN d.set
    <2>1. PICK n : n = d.set["failed"]
        OBVIOUS
    <2>2. Counting(d)
        BY <1>2, <1>9 DEF Counting
    <2>3. n \in 1..(FirstLock - 1) /\ Fits(m, f, n)
        BY <1>1, <2>1, <2>2 DEF KInv
    <2>4. PICK k \in Nat : k = m + 1
        BY <1>2
    <2>5. misses' = k /\ account'.failed = n
        BY <1>1, <1>3, <1>9, <2>1, <2>4 DEF CommitAccount
    <2>6. n \in Nat /\ Left(n) \in Nat /\ Ahead(n) \in Nat /\ Ahead(f) \in Nat /\ Budget \in Nat
        <3>1. n \in Nat
            BY <2>3, FirstLockIs
        <3>2. QED
            BY <1>2, <3>1, LeftIsNat, AheadIs, BudgetIs
    <2>7. 2 * k + Left(n) <= Budget
        BY <1>2, <2>3, <2>4, <2>6 DEF Fits
    <2>8. \A q \in Doors : Counting(door'[q]) => Fits(k, n, door'[q].set["failed"])
        <3> SUFFICES ASSUME NEW q \in Doors, Counting(door'[q])
                     PROVE  Fits(k, n, door'[q].set["failed"])
            OBVIOUS
        <3>1. PICK b : b = door'[q].set["failed"]
            OBVIOUS
        <3>2. FitsBoth(m, n, b) /\ b \in 1..(FirstLock - 1)
            BY <1>1, <1>6, <2>1, <2>2, <3>1 DEF KInv
        <3>3. Left(b) \in Nat
            BY <3>2, FirstLockIs, LeftFalls
        <3>4. Fits(k, n, b)
            BY <1>2, <2>4, <2>6, <3>2, <3>3 DEF Fits, FitsBoth
        <3>5. QED
            BY <3>1, <3>4
    <2>9. QED
        BY <1>5, <1>6, <2>4, <2>5, <2>7, <2>8
        DEF KInv, Counting, Fits, FitsBoth, Left, Ahead, Budget, FirstLock
<1>10. QED
    BY <1>7, <1>8, <1>9

\* It holds at first.
LEMMA CountingStarts ==
    ASSUME TeamInit
    PROVE  KInv
<1>1. misses = 0 /\ account.failed = 0 /\ \A p \in Doors : door[p] = Free
    BY DEF TeamInit
<1>2. 2 * 0 + Left(0) <= Budget
    BY FreshLeft
<1>3. QED
    BY <1>1, <1>2, FreeCountsNothing DEF KInv

\* With two processes every step keeps it.
LEMMA CountingKeeps ==
    ASSUME SInv, KInv, TwoDoors, [TeamNext]_teamVars
    PROVE  KInv'
<1>1. CASE \E p \in Doors : DoorStep(p)
    <2>1. PICK p \in Doors : DoorStep(p)
        BY <1>1
    <2>2. QED
        BY <2>1, RequestsCalm, FailureCounts, CommitCounts, StepsCalm DEF DoorStep
<1>2. CASE Cleanup \/ PassHour \/ UNCHANGED teamVars
    <2>1. UNCHANGED <<account, door, misses>>
        BY <1>2 DEF Cleanup, PassHour, teamVars
    <2>2. QED
        BY <2>1, CalmKeeps
<1>3. QED
    BY <1>1, <1>2 DEF TeamNext

\* The invariants give the three parts.
LEMMA SeatInvariantHolds ==
    ASSUME SInv
    PROVE  TeamTypeOK /\ OneSeatPerProcess /\ ResetEndsSeats
<1>1. OneSeatPerProcess
    BY DEF SInv, SeatsFit, OneSeatPerProcess, Unrevoked
<1>2. ResetEndsSeats
    BY DEF SInv, SeatsFit, ResetEndsSeats, Unrevoked
<1>3. QED
    BY <1>1, <1>2 DEF SInv

\* It bounds the failures that went unlocked.
LEMMA CountingHolds ==
    ASSUME KInv, SInv
    PROVE  LockComesInTime
<1>1. PICK B \in Nat : B = (FirstLock - 1) * (FirstLock + 2)
    BY BudgetIs DEF Budget
<1>2. misses \in Nat /\ 2 * misses + Left(account.failed) <= B /\ Left(account.failed) \in Nat
    <2>1. account.failed \in Nat
        BY AccountFacts DEF SInv, TeamTypeOK
    <2>2. Left(account.failed) \in Nat
        BY <2>1, LeftIsNat
    <2>3. QED
        BY <1>1, <2>2 DEF KInv, Budget
<1>3. misses <= B \div 2
    BY <1>2
<1>4. QED
    BY <1>1, <1>3 DEF LockComesInTime

\* For any number of processes: one never leaves two sessions, and none that
\* it gave survives a reset it answered, whatever dies in between.
THEOREM SeatsOfOneProcess == TeamSpec => [](TeamTypeOK /\ OneSeatPerProcess /\ ResetEndsSeats)
    BY SeatInvariant, SeatInvariantHolds, PTL

\* With two processes, also: failures that overwrite each other lock the
\* account after no more than the bound the first threshold gives.
THEOREM SeatsHoldWithTwo ==
    ASSUME TwoDoors
    PROVE  TeamSpec => []SeatsHold
<1>1. TeamInit => KInv
    BY CountingStarts
<1>2. SInv /\ KInv /\ [TeamNext]_teamVars => KInv'
    BY CountingKeeps
<1>3. SInv /\ KInv => SeatsHold
    BY SeatInvariantHolds, CountingHolds DEF SeatsHold
<1>4. QED
    BY <1>1, <1>2, <1>3, SeatInvariant, PTL DEF TeamSpec

(***************************************************************************)
(* The components side by side.                                            *)
(***************************************************************************)
BInv == WInv /\ NInv /\ LInv /\ SInv /\ TInv /\ MInv

\* All of it holds at first.
LEMMA BusinessStarts ==
    ASSUME BusinessInit
    PROVE  BInv
    BY WithdrawalStarts, InvoiceInitially, LinkInitially, TeamStarts, MemberInitially,
       MerchantInitially DEF BusinessInit, BInv

\* A step is a step of one component, and leaves the others alone.
LEMMA BusinessStepKeeps ==
    ASSUME BInv, [BusinessNext]_businessVars
    PROVE  BInv'
<1>1. /\ [WithdrawalNext]_withdrawalVars /\ [InvoiceNext]_invoiceVars /\ [LinkNext]_linkVars
      /\ [TeamNext]_teamVars /\ [MemberNext]_memberVars /\ [MerchantNext]_merchantVars
    BY DEF BusinessNext, businessVars
<1>2. WInv'
    BY <1>1, WithdrawalStepKeeps DEF BInv
<1>3. NInv'
    BY <1>1, InvoiceStepKeeps DEF BInv
<1>4. LInv'
    BY <1>1, LinkStepKeeps DEF BInv
<1>5. SInv'
    BY <1>1, TeamStepKeeps DEF BInv
<1>6. TInv'
    BY <1>1, MemberStepKeeps, MemberStutters DEF BInv
<1>7. MInv'
    BY <1>1, MerchantStepKeeps, MerchantStutters DEF BInv, MerchantNext
<1>8. QED
    BY <1>2, <1>3, <1>4, <1>5, <1>6, <1>7 DEF BInv

\* The components side by side keep their invariants.
THEOREM BusinessInvariant == BusinessSpec => []BInv
<1>1. BusinessInit => BInv
    BY BusinessStarts
<1>2. BInv /\ [BusinessNext]_businessVars => BInv'
    BY BusinessStepKeeps
<1>3. QED
    BY <1>1, <1>2, PTL DEF BusinessSpec

\* Every table, draft and clock of the merchant side keeps its type.
THEOREM BusinessTypeCorrect == BusinessSpec => []BusinessTypeOK
<1>1. BInv => BusinessTypeOK
    BY DEF BInv, BusinessTypeOK, WInv, NInv, LInv, SInv, TInv, MInv
<1>2. QED
    BY <1>1, BusinessInvariant, PTL
=============================================================================
