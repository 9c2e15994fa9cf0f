-------------------------------- MODULE Ledger --------------------------------
(***************************************************************************)
(* The records a payment leaves in one database: the hash chain of a       *)
(* merchant's ledger (app/services/ledger_service.py), the state machine   *)
(* of a payment with its audit trail (app/services/state_machine.py), and  *)
(* the compliance screening (app/services/compliance_service.py).          *)
(*                                                                         *)
(* All three only flush: they are visible to their own transaction at      *)
(* once, and to the others when the caller commits.  Nothing in the        *)
(* repository calls them yet; the writers here are such callers.           *)
(***************************************************************************)
EXTENDS Integers, FiniteSets, Sequences

CONSTANTS
    Writers,       \* transactions at a time
    EntryTypes,    \* kinds of entries that the chain tells apart
    MaxRecords     \* bound on the entries and transitions written

ASSUME LedgerAssumption == IsFiniteSet(Writers) /\ EntryTypes # {} /\ MaxRecords \in Nat

VARIABLES
    ledger,      \* ledger_entries of the merchant
    trail,       \* payment_state_transitions of the session
    payStatus,   \* status of the session
    work,        \* the transaction of each writer
    written,     \* entries and transitions flushed so far: created_at
    crossed,     \* history: two transactions were open at a time
    tampered,    \* history: somebody changed the table by hand
    screening    \* run_compliance_screening: the checks, merged one by one

ledgerVars == <<ledger, trail, payStatus, work, written, crossed, tampered>>
-----------------------------------------------------------------------------
\* A hash is the list of what was hashed into it: equal only for equal chains.
\* exact: the amount has the eight decimals of its column, so that it reads
\* back as it was hashed.
Content == [kind: EntryTypes, exact: BOOLEAN]
EntryHash(prev, content) == Append(prev, content)
AsStored(content) == [content EXCEPT !.exact = TRUE]

\* VALID_TRANSITIONS
ValidTransitions == [
    created |-> {"pending", "expired", "failed"},
    pending |-> {"processing", "confirmed", "paid", "expired", "failed"},
    processing |-> {"confirmed", "paid", "failed"},
    confirmed |-> {"refunded", "partially_refunded"},
    paid |-> {"refunded", "partially_refunded"},
    failed |-> {"created"},
    expired |-> {"created"},
    refunded |-> {},
    partially_refunded |-> {"refunded"}]

PayStates == DOMAIN ValidTransitions

\* The level of each check: 0 low, 1 medium, 2 high, 3 critical: a block.
Checks == [payer: {0, 2, 3}, merchant: {0, 2, 3}, amount: {0, 1, 2}, velocity: {0, 2}, wallet: {0, 3}]
CheckOrder == <<"payer", "merchant", "amount", "velocity", "wallet">>

NoWork == [open |-> FALSE, entries |-> {}, moves |-> {}, status |-> "created"]

\* The tables, the transactions and the screening keep their types.
LedgerTypeOK ==
    /\ \A e \in ledger \union UNION {work[w].entries : w \in Writers} :
         e.content \in Content /\ e.at \in 1..MaxRecords
    /\ \A t \in trail \union UNION {work[w].moves : w \in Writers} :
         {t.from, t.to} \subseteq PayStates /\ t.at \in 1..MaxRecords
    /\ payStatus \in PayStates /\ \A w \in Writers : work[w].status \in PayStates
    /\ written \in 0..MaxRecords /\ {crossed, tampered} \subseteq BOOLEAN
    /\ screening.checks \in Checks /\ screening.risk \in 0..3 /\ screening.step \in 0..5

LedgerInit ==
    /\ ledger = {} /\ trail = {} /\ payStatus = "created"
    /\ work = [w \in Writers |-> NoWork]
    /\ written = 0 /\ crossed = FALSE /\ tampered = FALSE

ScreeningInit == screening \in [checks: Checks, risk: {0}, flags: {0}, blocked: {FALSE}, step: {0}]
-----------------------------------------------------------------------------
Open(w) ==
    /\ ~work[w].open
    /\ work' = [work EXCEPT ![w] = [NoWork EXCEPT !.open = TRUE, !.status = payStatus]]
    /\ crossed' = (crossed \/ \E v \in Writers : work[v].open)
    /\ UNCHANGED <<ledger, trail, payStatus, written, tampered>>

\* Mutant: the order is not descending.
FirstHash(entries) ==
    IF entries = {} THEN <<>>
    ELSE (CHOOSE e \in entries : \A f \in entries : e.at <= f.at).hash

\* _get_last_hash; <<>> is GENESIS.
LastHash(entries) ==
    IF entries = {} THEN <<>>
    ELSE (CHOOSE e \in entries : \A f \in entries : e.at >= f.at).hash

\* record_entry, for any of the functions that record; a refund records twice.
Record(w) ==
    /\ work[w].open /\ written < MaxRecords
    /\ \E content \in Content :
         LET prev == LastHash(ledger \union work[w].entries)
         IN  work' = [work EXCEPT ![w].entries = @ \union
               {[content |-> AsStored(content), prev |-> prev,
                 hash |-> EntryHash(prev, content), at |-> written + 1]}]
    /\ written' = written + 1
    /\ UNCHANGED <<ledger, trail, payStatus, crossed, tampered>>

Noted(status, to) == [from |-> status, to |-> to, at |-> written + 1]

\* transition_payment, on the session as the transaction has loaded it.
TransitionPayment(w) ==
    /\ work[w].open /\ written < MaxRecords
    /\ \E to \in ValidTransitions[work[w].status] :
         work' = [work EXCEPT ![w].moves = @ \union {Noted(work[w].status, to)}, ![w].status = to]
    /\ written' = written + 1
    /\ UNCHANGED <<ledger, trail, payStatus, crossed, tampered>>

\* The caller commits or rolls back.
Close(w) ==
    /\ work[w].open
    /\ work' = [work EXCEPT ![w] = NoWork]
    /\ \/ /\ ledger' = ledger \union work[w].entries
          /\ trail' = trail \union work[w].moves
          /\ payStatus' = IF work[w].moves = {} THEN payStatus ELSE work[w].status
       \/ UNCHANGED <<ledger, trail, payStatus>>
    /\ UNCHANGED <<written, crossed, tampered>>

\* Somebody edits a row of the table, or deletes one that is not the last, once.
Tamper ==
    /\ ~tampered
    /\ \E e \in ledger :
         \/ \E k \in EntryTypes \ {e.content.kind} :
              ledger' = (ledger \ {e}) \union {[e EXCEPT !.content.kind = k]}
         \/ (\E f \in ledger : f.at > e.at) /\ ledger' = ledger \ {e}
    /\ tampered' = TRUE
    /\ UNCHANGED <<trail, payStatus, work, written, crossed>>

\* The row before e, by created_at.
HashBefore(e) == LastHash({f \in ledger : f.at < e.at})

\* verify_chain_integrity
Verified == \A e \in ledger : e.prev = HashBefore(e) /\ e.hash = EntryHash(e.prev, e.content)
-----------------------------------------------------------------------------
(***************************************************************************)
(* run_compliance_screening.                                               *)
(***************************************************************************)
\* _merge
Merged(s, level) ==
    [s EXCEPT !.risk = IF level > @ THEN level ELSE @, !.flags = IF level > 0 THEN @ + 1 ELSE @,
              !.blocked = @ \/ level = 3, !.step = @ + 1]

Screen ==
    /\ screening.step < Len(CheckOrder)
    /\ screening' = Merged(screening, screening.checks[CheckOrder[screening.step + 1]])

ScreenResult == IF screening.blocked THEN "block" ELSE IF screening.flags > 0 THEN "flag" ELSE "pass"

LedgerNext ==
    \/ \E w \in Writers : Open(w) \/ Record(w) \/ TransitionPayment(w) \/ Close(w)
    \/ Tamper
-----------------------------------------------------------------------------
\* A ledger nobody touched verifies, whatever was rolled back, as long as no
\* two transactions were open at a time and every amount was given with eight
\* decimals.  Two open transactions take the same last entry and fork the
\* chain, and an amount as "10.5" does not read back as it was hashed.
\* (ledger_service.py: record_entry, verify_chain_integrity)
HonestChainVerifies ==
    ~crossed /\ ~tampered /\ (\A e \in ledger : \A i \in DOMAIN e.hash : e.hash[i].exact)
      => Verified

\* A changed entry, or a missing one with a later one, is seen for ever after,
\* and entries recorded later do not hide it.
\* (ledger_service.py: verify_chain_integrity)
TamperIsSeen == tampered /\ ~crossed => ~Verified

\* Transactions that do not cross leave an audit trail that leads from created
\* to the status of the session, without a gap.  (state_machine.py)
TrailLeadsToStatus ==
    ~crossed =>
      /\ trail = {} => payStatus = "created"
      /\ \A t \in trail :
           /\ (\A u \in trail : u.at >= t.at) => t.from = "created"
           /\ (\A u \in trail : u.at <= t.at) => t.to = payStatus
           /\ \A u \in trail :
                (t.at < u.at /\ ~\E v \in trail : t.at < v.at /\ v.at < u.at) => t.to = u.from

\* The screening keeps the worst of its checks, in whatever order they came,
\* and blocks if and only if one of them does.
\* (compliance_service.py: run_compliance_screening, _merge)
ScreeningIsWorst ==
    screening.step = 5 =>
      LET levels == {screening.checks[c] : c \in DOMAIN screening.checks}
      IN  /\ screening.risk \in levels \union {0} /\ \A l \in levels : l <= screening.risk
          /\ ScreenResult = IF 3 \in levels THEN "block" ELSE IF levels = {0} THEN "pass" ELSE "flag"
=============================================================================
