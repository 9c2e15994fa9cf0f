------------------------------- MODULE Relayers -------------------------------
(***************************************************************************)
(* The relayers that send subscription transactions from one funded        *)
(* account per chain: EVM (app/services/gasless_relayer.py), Tron          *)
(* (tron_relayer.py), Solana (solana_relayer.py) and Stellar               *)
(* (soroban_relayer.py), and the Polygon refunds that leave from the       *)
(* EVM account too (blockchain_relayer.py).                                *)
(*                                                                         *)
(* From the nonce to the receipt an EVM transaction blocks its process, as *)
(* nothing in between gives way; the other relayers wait in threads.       *)
(* Processes share the accounts and nothing else.                          *)
(* Commits of a relayer row are taken to succeed while the process lives.  *)
(***************************************************************************)
EXTENDS Integers, FiniteSets

CONSTANTS
    Relays,     \* server processes
    MaxSends,   \* bound on the transactions; they are numbered as they begin
    ChainsOf,   \* bound: where each of them may go
    MaxCrashed  \* bound on the crashes

Sends == 1..MaxSends
SubChains == {"evm", "tron", "solana", "stellar", "polygon"}
\* The refunds of Polygon use the EVM account.
OnEvm == {"evm", "polygon"}

ASSUME RelayersAssumption ==
    /\ IsFiniteSet(Relays) /\ MaxSends \in Nat /\ MaxCrashed \in Nat
    /\ ChainsOf \in [Sends -> SUBSET SubChains]

VARIABLES
    tx,         \* each transaction, its relayer_transactions row and its fate
    mined,      \* sequence number of the EVM and of the Stellar account
    localNonce, \* _local_nonces of each process
    taken,      \* history: transactions of each process with a nonce, since it started
    lostNonces, \* history: EVM nonces taken and never broadcast, or put out of the pools
    relayDeaths \* crashes so far

relayVars == <<tx, mined, localNonce, taken, lostNonces, relayDeaths>>
-----------------------------------------------------------------------------
Nonces == 0..MaxSends

\* by: the process that works on it.
\* at: "new", "taken" (a nonce, a blockhash or a sequence number), "sent", "over", "dead".
\* fate: "none", "pool", then "ok" or "bad" in a block, or "gone": replaced or dropped.
\* cut: its process died, gave up waiting, or lost an answer.
Tx == [chain: SubChains \union {"none"}, by: Relays \union {"nobody"},
       at: {"new", "taken", "sent", "over", "dead"}, nonce: Nonces,
       row: {"none", "flushed", "CONFIRMED", "REVERTED", "FAILED"},
       fate: {"none", "pool", "ok", "bad", "gone"}, cut: BOOLEAN]

NewTx == [chain |-> "none", by |-> "nobody", at |-> "new", nonce |-> 0,
          row |-> "none", fate |-> "none", cut |-> FALSE]

\* Transactions, accounts and nonces keep their types.
RelayTypeOK ==
    /\ tx \in [Sends -> Tx] /\ mined \in [{"evm", "stellar"} -> Nonces]
    /\ localNonce \in [Relays -> Nat] /\ taken \in [Relays -> SUBSET Sends]
    /\ lostNonces \subseteq Nat /\ relayDeaths \in 0..MaxCrashed

RelayInit ==
    /\ tx = [t \in Sends |-> NewTx] /\ mined = [a \in {"evm", "stellar"} |-> 0]
    /\ localNonce = [p \in Relays |-> 0] /\ taken = [p \in Relays |-> {}]
    /\ lostNonces = {} /\ relayDeaths = 0
-----------------------------------------------------------------------------
InPool(t) == tx[t].fate = "pool"
EvmPool == {t \in Sends : InPool(t) /\ tx[t].chain \in OnEvm}
PoolNonces == {tx[t].nonce : t \in EvmPool}

\* get_transaction_count(.., "pending"): up to the first gap.
PendingCount ==
    CHOOSE n \in mined["evm"]..MaxSends :
      n \notin PoolNonces /\ mined["evm"]..(n - 1) \subseteq PoolNonces

\* The next transaction may go to this chain.
MayBegin(t, chain) ==
    tx[t].at = "new" /\ (\A u \in 1..(t - 1) : tx[u].at # "new") /\ chain \in ChainsOf[t]

\* A process whose EVM transaction is under way does nothing else.
Free(p) == \A t \in Sends : ~(tx[t].by = p /\ tx[t].chain = "evm" /\ tx[t].at \in {"taken", "sent"})

Begun(t, p, chain, nonce) ==
    [NewTx EXCEPT !.chain = chain, !.by = p, !.at = "taken", !.nonce = nonce]

\* Mutant: what the node says.
ChainNonce(p, seen) == seen

\* _get_nonce: the larger of what the node says and the process remembers.
NextNonce(p, seen) == IF seen > localNonce[p] THEN seen ELSE localNonce[p]

\* _send_transaction of the EVM relayer, up to the nonce; a node may be behind.
TakeNonce(t, p) ==
    /\ MayBegin(t, "evm") /\ Free(p)
    /\ \E seen \in 0..PendingCount :
         LET nonce == NextNonce(p, seen)
         IN  /\ tx' = [tx EXCEPT ![t] = Begun(t, p, "evm", nonce)]
             /\ localNonce' = [localNonce EXCEPT ![p] = nonce + 1]
    /\ taken' = [taken EXCEPT ![p] = @ \union {t}]
    /\ UNCHANGED <<mined, lostNonces, relayDeaths>>

\* The gas price or the estimate fails: the nonce is not given back.
FailEstimate(t) ==
    /\ tx[t].at = "taken" /\ tx[t].chain = "evm"
    /\ tx' = [tx EXCEPT ![t].at = "over", ![t].by = "nobody"]
    /\ lostNonces' = lostNonces \union {tx[t].nonce}
    /\ UNCHANGED <<mined, localNonce, taken, relayDeaths>>

Over(t, verdict) == [tx EXCEPT ![t].at = "over", ![t].by = "nobody", ![t].row = verdict]

\* The except branch.
Ended(t, fate) == [Over(t, "FAILED") EXCEPT ![t].fate = fate, ![t].cut = fate = "pool"]

\* The node takes a transaction of the EVM account, in the place of one with
\* the same nonce if it pays more.
Accepted(t, nonce, next) ==
    /\ nonce >= mined["evm"]
    /\ tx' = [u \in Sends |-> IF u # t /\ u \in EvmPool /\ tx[u].nonce = nonce
                              THEN [tx[u] EXCEPT !.fate = "gone"] ELSE next[u]]

\* The row is flushed and the transaction sent: accepted, refused, or accepted
\* with the answer lost.
SendEvm(t) ==
    /\ tx[t].at = "taken" /\ tx[t].chain = "evm"
    /\ \/ /\ Accepted(t, tx[t].nonce,
                      [tx EXCEPT ![t].at = "sent", ![t].row = "flushed", ![t].fate = "pool"])
          /\ UNCHANGED lostNonces
       \/ Accepted(t, tx[t].nonce, Ended(t, "pool")) /\ UNCHANGED lostNonces
       \/ tx' = Ended(t, "none") /\ lostNonces' = lostNonces \union {tx[t].nonce}
    /\ UNCHANGED <<mined, localNonce, taken, relayDeaths>>

\* PolygonRelayer.send_refund, with the count of "latest": nothing waits for it.
SendRefund(t, p) ==
    /\ MayBegin(t, "polygon") /\ Free(p)
    /\ LET refund == [Begun(t, "nobody", "polygon", mined["evm"]) EXCEPT !.at = "over"]
       IN  \/ Accepted(t, mined["evm"], [tx EXCEPT ![t] = [refund EXCEPT !.fate = "pool"]])
           \/ tx' = [tx EXCEPT ![t] = refund]
    /\ UNCHANGED <<mined, localNonce, taken, lostNonces, relayDeaths>>
-----------------------------------------------------------------------------
\* The row is flushed first; then the block hash, or the account with its
\* sequence number, is fetched in a thread.
BeginInThread(t, p, chain, sequence) ==
    /\ MayBegin(t, chain) /\ Free(p)
    /\ tx' = [tx EXCEPT ![t] = [Begun(t, p, chain, sequence) EXCEPT !.row = "flushed"]]
    /\ UNCHANGED <<mined, localNonce, taken, lostNonces, relayDeaths>>

\* Create, execute and cancel of each relayer.
BeginTron(t, p) == BeginInThread(t, p, "tron", 0)
BeginSolana(t, p) == BeginInThread(t, p, "solana", 0)
BeginStellar(t, p) == BeginInThread(t, p, "stellar", mined["stellar"])

\* Sent, refused, or sent with the answer lost.  Stellar answers with an error
\* as with a hash, which nobody looks at.
SubmitInThread(t) ==
    /\ tx[t].at = "taken" /\ tx[t].row = "flushed" /\ Free(tx[t].by)
    /\ \/ tx' = [tx EXCEPT ![t].at = "sent", ![t].fate = "pool"]
       \/ tx[t].chain = "stellar" /\ tx' = [tx EXCEPT ![t].at = "sent"]
       \/ \E fate \in {"none", "pool"} : tx' = Ended(t, fate)
    /\ UNCHANGED <<mined, localNonce, taken, lostNonces, relayDeaths>>

InBlock(t) == tx[t].fate \in {"ok", "bad"}

\* Mutant: the word of the result, not of the row.
ResultWord(t) == IF tx[t].fate = "ok" THEN "confirmed" ELSE "reverted"

OfFate(t) == IF tx[t].fate = "ok" THEN "CONFIRMED" ELSE "REVERTED"

\* What the receipt says; Solana is believed without its details.
Verdicts(t) == IF tx[t].chain = "solana" THEN {OfFate(t), "CONFIRMED"} ELSE {OfFate(t)}

\* The receipt comes; row and caller's session are committed.
Conclude(t) ==
    /\ tx[t].at = "sent" /\ InBlock(t)
    /\ tx[t].chain = "evm" \/ Free(tx[t].by)
    /\ \E verdict \in Verdicts(t) : tx' = Over(t, verdict)
    /\ UNCHANGED <<mined, localNonce, taken, lostNonces, relayDeaths>>

\* 120 s, or an error while waiting; on Stellar 30 polls that find nothing.
StopWaiting(t) ==
    /\ tx[t].at = "sent"
    /\ tx[t].chain = "evm" \/ Free(tx[t].by)
    /\ \E verdict \in {"FAILED", "REVERTED"} :
         /\ verdict = "REVERTED" => tx[t].chain = "stellar" /\ ~InBlock(t)
         /\ tx' = [Over(t, verdict) EXCEPT ![t].cut = TRUE]
    /\ UNCHANGED <<mined, localNonce, taken, lostNonces, relayDeaths>>

\* A chain executes a transaction; those of one account in their order.
MineTx(t) ==
    /\ InPool(t)
    /\ LET account == IF tx[t].chain \in OnEvm THEN "evm" ELSE tx[t].chain
       IN  IF account \in DOMAIN mined
           THEN tx[t].nonce = mined[account] /\ mined' = [mined EXCEPT ![account] = @ + 1]
           ELSE UNCHANGED mined
    /\ \E fate \in {"ok", "bad"} : tx' = [tx EXCEPT ![t].fate = fate]
    /\ UNCHANGED <<localNonce, taken, lostNonces, relayDeaths>>

\* A transaction expires, or the pools put out one of the EVM that pays too
\* little: its nonce is lost too, until somebody takes it again.
DropTx(t) ==
    /\ InPool(t)
    /\ tx' = [tx EXCEPT ![t].fate = "gone"]
    /\ lostNonces' = lostNonces \union (IF tx[t].chain \in OnEvm THEN {tx[t].nonce} ELSE {})
    /\ UNCHANGED <<mined, localNonce, taken, relayDeaths>>

\* A process dies: its flushed rows were never committed.
CrashRelay(p) ==
    /\ relayDeaths < MaxCrashed /\ relayDeaths' = relayDeaths + 1
    /\ LET cut == {t \in Sends : tx[t].by = p /\ tx[t].at \in {"taken", "sent"}}
       IN  /\ tx' = [t \in Sends |-> IF t \notin cut THEN tx[t]
                       ELSE [tx[t] EXCEPT !.at = "dead", !.by = "nobody", !.row = "none", !.cut = TRUE]]
           /\ lostNonces' = lostNonces \union
                {tx[t].nonce : t \in {u \in cut : tx[u].chain = "evm" /\ tx[u].at = "taken"}}
    /\ localNonce' = [localNonce EXCEPT ![p] = 0] /\ taken' = [taken EXCEPT ![p] = {}]
    /\ UNCHANGED mined

RelayNext ==
    \/ \E t \in Sends, p \in Relays :
         \/ TakeNonce(t, p) \/ SendRefund(t, p)
         \/ BeginTron(t, p) \/ BeginSolana(t, p) \/ BeginStellar(t, p)
    \/ \E t \in Sends :
         \/ FailEstimate(t) \/ SendEvm(t) \/ SubmitInThread(t) \/ Conclude(t) \/ StopWaiting(t)
         \/ MineTx(t) \/ DropTx(t)
    \/ \E p \in Relays : CrashRelay(p)
-----------------------------------------------------------------------------
\* An EVM transaction waits only behind nonces that are in the pool, that a
\* process is about to send, or that a process took and lost, by a failed
\* estimate, a refusal, a crash or a node that forgot what it had accepted.
\* (gasless_relayer.py: _get_nonce)
GapIsAccounted ==
    \A t \in EvmPool : \A n \in mined["evm"]..tx[t].nonce :
      \/ n \in PoolNonces \union lostNonces
      \/ \E u \in Sends : tx[u].chain = "evm" /\ tx[u].at = "taken" /\ tx[u].nonce = n

\* While it lives a process takes no nonce twice, however old the answers of
\* its node are.  (gasless_relayer.py: _get_nonce, _local_nonces)
NoncesAreFresh ==
    \A p \in Relays : \A t, u \in taken[p] : t # u => tx[t].nonce # tx[u].nonce

\* A row says CONFIRMED only of a transaction that was executed, except on
\* Solana, where it may have failed in its block; REVERTED only of one that
\* failed, except on Stellar, where the polls may have ended before.  And an
\* executed transaction has its row unless somebody died or gave up.
\* (the _send_transaction of the relayers, _invoke_contract)
RelaysAreRecorded ==
    \A t \in Sends :
      LET x == tx[t]
      IN  /\ x.row = "CONFIRMED" => x.fate = "ok" \/ (x.chain = "solana" /\ x.fate = "bad")
          /\ x.row = "REVERTED" => x.fate = "bad" \/ (x.chain = "stellar" /\ x.cut)
          /\ (x.fate = "ok" /\ x.at \in {"over", "dead"} /\ x.chain # "polygon" /\ ~x.cut)
                => x.row = "CONFIRMED"

\* The relayers' accounts and their records.
RelayersHold == GapIsAccounted /\ NoncesAreFresh /\ RelaysAreRecorded
=============================================================================
