------------------------------- MODULE Merchants -------------------------------
(***************************************************************************)
(* One merchant's account: registration (app/routes/auth.py), onboarding   *)
(* (app/routes/onboarding.py), wallets with their cached list (app/routes/ *)
(* wallets.py, app/core/cache.py), webhook secrets (app/routes/merchant.py) *)
(* and the removal of personal data (app/routes/gdpr.py).                  *)
(*                                                                         *)
(* Handlers await nothing once they read (Google is asked before), and     *)
(* commit once: a draft is what differs from what was read.  The wallet    *)
(* list is cached in the memory of each process.                           *)
(***************************************************************************)
EXTENDS Integers, FiniteSets, Rows

CONSTANTS
    Workers,     \* server processes
    Chains,      \* blockchain networks; all of them are the default
    MaxOrders    \* bound on requests

ASSUME MerchantAssumption == Chains # {} /\ MaxOrders \in Nat

VARIABLES
    merchant,  \* merchants: the row
    wallet,    \* merchant_wallets: chain -> row; (merchant, chain) is unique
    shelf,     \* the cached wallet list of each process
    worker,    \* the draft of each process
    orders,    \* requests so far
    listed,    \* history: the version of a wallet each process last answered
    silent     \* history: those of them its cached list was not told of

merchantVars == <<merchant, wallet, shelf, worker, orders, listed, silent>>
-----------------------------------------------------------------------------
\* webhook secrets are numbered; accepted = {} is NULL or [].
MerchantRow == [exists: BOOLEAN, active: BOOLEAN, key: BOOLEAN, google: BOOLEAN,
                named: BOOLEAN, step: 0..3, completed: BOOLEAN,
                accepted: SUBSET Chains, secret: Nat, previous: Nat]
NoMerchant == [exists |-> FALSE, active |-> FALSE, key |-> FALSE, google |-> FALSE,
               named |-> FALSE, step |-> 0, completed |-> FALSE,
               accepted |-> {}, secret |-> 0, previous |-> 0]

\* version counts the writes of a row; 0: there is no row.
Wallet == [version: Nat, active: BOOLEAN]
NoWallet == [version |-> 0, active |-> FALSE]
Row(c) == wallet[c].version > 0

NoneSet == [c \in {} |-> 0]
\* insert: the chains that get a new row; update: the row that is rewritten;
\* lists: the handler invalidates the cached list.
Ready == [set |-> NoneSet, insert |-> {}, update |-> {}, on |-> TRUE, lists |-> FALSE]
NotCached == [c \in {} |-> 0]

\* Rows, drafts and cached lists keep their types.
MerchantTypeOK ==
    /\ merchant \in MerchantRow
    /\ wallet \in [Chains -> Wallet]
    /\ \A p \in Workers : /\ worker[p].insert \cup worker[p].update \subseteq Chains
                          /\ DOMAIN worker[p].set \subseteq DOMAIN NoMerchant
                          /\ shelf[p] = NotCached \/ shelf[p] \in [Chains -> Wallet]
    /\ orders \in 0..MaxOrders

MerchantInit ==
    /\ merchant = NoMerchant
    /\ wallet = [c \in Chains |-> NoWallet]
    /\ shelf = [p \in Workers |-> NotCached]
    /\ worker = [p \in Workers |-> Ready]
    /\ orders = 0
    /\ listed = [p \in Workers |-> [c \in Chains |-> 0]]
    /\ silent = [p \in Workers |-> {}]
-----------------------------------------------------------------------------
Differing(set) == [c \in {c \in DOMAIN set : set[c] # merchant[c]} |-> set[c]]

Order(p, draft) ==
    /\ worker[p] = Ready
    /\ orders < MaxOrders
    /\ orders' = orders + 1
    /\ worker' = [worker EXCEPT ![p] = [draft EXCEPT !.set = Differing(@)]]
    /\ UNCHANGED <<merchant, wallet, shelf, listed, silent>>

Assign(set) == [Ready EXCEPT !.set = set]

\* register_merchant, or google_auth of an address not seen before
BeginRegister(p, google) ==
    /\ ~merchant.exists
    /\ Order(p, Assign([exists |-> TRUE, active |-> TRUE, key |-> TRUE,
                        google |-> google, secret |-> 1]))

\* google_auth links an account it finds by its address, disabled or not.
BeginGoogle(p) ==
    /\ merchant.exists
    /\ Order(p, Assign([google |-> TRUE, key |-> TRUE]))

AtLeast(step) == IF merchant.step > step THEN merchant.step ELSE step

BeginDetails(p) ==
    /\ merchant.exists
    /\ Order(p, Assign([named |-> TRUE, step |-> AtLeast(1)]))

Missing(C) == {c \in C : ~Row(c)}

\* setup_wallets: chains without auto_generate are accepted only.  Like
\* complete_onboarding it answers with the wallets it makes, and leaves the
\* cached list as it is.
BeginSetup(p, accepted, generated) ==
    /\ merchant.exists
    /\ Order(p, [Assign([accepted |-> accepted, step |-> AtLeast(2)])
                    EXCEPT !.insert = Missing(generated)])

OrDefault(C) == IF C = {} THEN Chains ELSE C

\* With no active wallet, one for each accepted chain that has no row.
ToGenerate(accepted, generated) ==
    IF Missing(generated) # {} \/ (\E c \in Chains : wallet[c].active)
    THEN Missing(generated)
    ELSE Missing(OrDefault(accepted))

\* complete_onboarding, with or without a choice of chains
BeginComplete(p, accepted, generated) ==
    /\ merchant.exists /\ merchant.named
    /\ Order(p, [Assign([accepted |-> OrDefault(accepted), key |-> TRUE,
                         completed |-> TRUE, step |-> 3])
                    EXCEPT !.insert = ToGenerate(accepted, generated)])

\* add_wallet
BeginAddWallet(p, c) ==
    /\ merchant.exists
    /\ Order(p, IF Row(c) THEN [Ready EXCEPT !.update = {c}, !.lists = TRUE]
                ELSE [Ready EXCEPT !.insert = {c}, !.lists = TRUE])

\* delete_wallet; the cached lists are left alone.
BeginDropWallet(p, c) ==
    /\ Row(c)
    /\ Order(p, [Ready EXCEPT !.update = {c}, !.on = FALSE])

\* rotate_webhook_secret
BeginRotate(p) ==
    /\ merchant.exists
    /\ Order(p, Assign([previous |-> merchant.secret, secret |-> orders + 2]))

\* delete_user_data
BeginErase(p) ==
    /\ merchant.exists
    /\ Order(p, Assign([active |-> FALSE, google |-> FALSE]))

\* A second row with the address, or for a chain, violates a unique key.
Clashes(d) == \/ "exists" \in DOMAIN d.set /\ merchant.exists
              \/ \E c \in d.insert : Row(c)

\* Mutant: the list that add_wallet made stale stays cached.
StaleShelf(p) == shelf

\* add_wallet invalidates the list of its own process.
Invalidated(p) == IF worker[p].lists THEN [shelf EXCEPT ![p] = NotCached] ELSE shelf

CommitOrder(p) ==
    LET d == worker[p] IN
    /\ d # Ready
    /\ worker' = [worker EXCEPT ![p] = Ready]
    /\ UNCHANGED orders
    /\ IF Clashes(d) THEN UNCHANGED <<merchant, wallet, shelf, listed, silent>>
       ELSE LET touched == d.insert \cup d.update IN
            /\ merchant' = Overlay(d.set, merchant)
            /\ wallet' = [c \in Chains |->
                 IF c \in touched
                 THEN [version |-> wallet[c].version + 1, active |-> d.on] ELSE wallet[c]]
            /\ shelf' = Invalidated(p)
            /\ listed' = [listed EXCEPT ![p] = [c \in Chains |->
                 IF c \in touched THEN wallet'[c].version ELSE @[c]]]
            /\ silent' = [silent EXCEPT ![p] = IF d.lists THEN {} ELSE @ \cup touched]

\* list_wallets: the cached list, or the rows.
ListWallets(p) ==
    /\ worker[p] = Ready /\ shelf[p] = NotCached
    /\ shelf' = [shelf EXCEPT ![p] = wallet]
    /\ silent' = [silent EXCEPT ![p] = {}]
    /\ UNCHANGED <<merchant, wallet, worker, orders, listed>>

\* The TTL of the region passes, or the entry is evicted.
Forget(p) ==
    /\ shelf[p] # NotCached
    /\ shelf' = [shelf EXCEPT ![p] = NotCached]
    /\ UNCHANGED <<merchant, wallet, worker, orders, listed, silent>>

WorkerStep(p) ==
    \/ \E google \in BOOLEAN : BeginRegister(p, google)
    \/ BeginGoogle(p) \/ BeginDetails(p) \/ BeginRotate(p) \/ BeginErase(p)
    \/ \E S \in SUBSET Chains : \E T \in {S, {}} :
         BeginSetup(p, S, T) \/ BeginComplete(p, S, T)
    \/ BeginComplete(p, merchant.accepted, {})
    \/ \E c \in Chains : BeginAddWallet(p, c) \/ BeginDropWallet(p, c)
    \/ CommitOrder(p) \/ ListWallets(p) \/ Forget(p)

MerchantNext == \E p \in Workers : WorkerStep(p)

MerchantSpec == MerchantInit /\ [][MerchantNext]_merchantVars
-----------------------------------------------------------------------------
(***************************************************************************)
(* Properties.                                                             *)
(***************************************************************************)

\* "Onboarding complete! You can now start accepting payments": requests that
\* overlap may put the step back, but a completed account has its name, its
\* key and a wallet of some chain (that the wallet is active does not hold).
CompletedIsEquipped ==
    merchant.completed => /\ merchant.named /\ merchant.key
                          /\ \E c \in Chains : Row(c)

\* What a process answered of a wallet it wrote is in the list it shows, unless
\* the write came from the onboarding or from delete_wallet, which leave the
\* cached list as it was: their wallets may be missing, or shown as they were,
\* until the list expires.  "Invalidate wallet cache" (wallets.py) holds for
\* add_wallet, and for its own process: other processes keep their lists too.
OwnAnswersAreListed ==
    \A p \in Workers : shelf[p] # NotCached =>
        \A c \in Chains \ silent[p] : shelf[p][c].version >= listed[p][c]

\* Completed accounts and the lists of wallets.  (onboarding.py, wallets.py)
AccountsHold == CompletedIsEquipped /\ OwnAnswersAreListed
=============================================================================
