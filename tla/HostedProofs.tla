--------------------------- MODULE HostedProofs ----------------------------
(***************************************************************************)
(* Proofs about HostedSubscriptions: for any number of subscriptions,      *)
(* requests and sessions, and any plan, no cycle is counted that was not   *)
(* collected, and no trial is granted twice.                               *)
(*                                                                         *)
(* A transaction commits what it decided on a row that others may have     *)
(* changed since, so the invariant speaks of the drafts that requests and  *)
(* the billing pass hold. A draft counts no more cycles than were          *)
(* confirmed when it was made or back it now, and confirmations only grow. *)
(* A draft that begins a subscription is the only one on a row that does   *)
(* not exist yet; and because a column assigned the value that was read is *)
(* not written, no other draft writes the status of a beginning.           *)
(***************************************************************************)
EXTENDS HostedSubscriptions, SequenceTheorems, FiniteSetTheorems, TLAPS

(***************************************************************************)
(* The inductive invariant: what is known of a draft that was decided on a *)
(* row that others may have changed since.                                 *)
(***************************************************************************)
Drafts == (UNION {request[q].todo : q \in Requests}) \cup biller.todo

Writes(d, c) == c \in DOMAIN d.set

\* A draft keeps the types, and every cycle it counts is backed by itself or
\* by what was confirmed.
SoundDraft(d) ==
    /\ IsDraft(d)
    /\ Writes(d, "status") => d.set["status"] # "absent"
    /\ Writes(d, "collected") =>
         d.set["collected"] <= confirmed[d.sub] + d.backed

Beginnings == {"TRIALING", "PENDING_PAYMENT"}

\* A row that does not exist has one draft at most, which creates it; no other
\* draft begins a subscription anew.
Created(d) ==
    /\ sub[d.sub].status = "absent" => Writes(d, "status")
    /\ Writes(d, "status") /\ d.set["status"] \in Beginnings =>
         sub[d.sub].status = "absent"

Creations ==
    /\ \A d \in Drafts : Created(d)
    /\ \A p, q \in Requests : \A d \in request[p].todo, e \in request[q].todo :
         d.sub = e.sub /\ sub[d.sub].status = "absent" => p = q
    /\ \A d \in biller.todo : sub[d.sub].status # "absent"
    /\ \A i \in DOMAIN session : sub[session[i].sub].status # "absent"

HInv ==
    /\ HostedTypeOK
    /\ \A q \in Requests : DOMAIN request[q] = {"used", "todo"}
    /\ DOMAIN biller = {"phase", "todo"}
    /\ \A d \in Drafts : SoundDraft(d)
    /\ CyclesWereCollected
    /\ Creations

(***************************************************************************)
(* Rows and the columns a draft writes.                                    *)
(***************************************************************************)
\* The columns of a row.
LEMMA ColumnNames ==
    /\ Columns = {"status", "start", "end", "next", "trialEnd", "cancelAt",
                  "failed", "collected", "mandate"}
    /\ NoSub \in SubRow
BY DEF Columns, NoSub, SubRow, SubStatus, Live, Time, Null

\* The columns a draft writes have their types.
WellTyped(set) ==
    /\ DOMAIN set \subseteq Columns
    /\ "status" \in DOMAIN set => set["status"] \in SubStatus
    /\ \A c \in {"start", "end", "next", "trialEnd", "cancelAt"} :
         c \in DOMAIN set => set[c] \in Time
    /\ \A c \in {"failed", "collected"} : c \in DOMAIN set => set[c] \in Nat
    /\ "mandate" \in DOMAIN set => set["mandate"] \in BOOLEAN

Overlay(set, row) == [c \in Columns |-> IF c \in DOMAIN set THEN set[c] ELSE row[c]]

\* Writing well-typed columns over a row gives a row.
LEMMA OverlayType ==
    ASSUME NEW set, NEW row \in SubRow, WellTyped(set)
    PROVE  /\ Overlay(set, row) \in SubRow
           /\ Overlay(set, row).status =
                IF "status" \in DOMAIN set THEN set["status"] ELSE row.status
           /\ Overlay(set, row).collected =
                IF "collected" \in DOMAIN set THEN set["collected"] ELSE row.collected
<1> DEFINE o == Overlay(set, row)
<1>1. \A c \in Columns : o[c] = IF c \in DOMAIN set THEN set[c] ELSE row[c]
    BY DEF Overlay
<1>2. o = [c \in Columns |-> o[c]]
    BY DEF Overlay
<1> HIDE DEF o
<1>3. /\ o["status"] \in SubStatus
      /\ o["start"] \in Time /\ o["end"] \in Time /\ o["next"] \in Time
      /\ o["trialEnd"] \in Time /\ o["cancelAt"] \in Time
      /\ o["failed"] \in Nat /\ o["collected"] \in Nat
      /\ o["mandate"] \in BOOLEAN
    <2>1. o["status"] \in SubStatus
        BY <1>1, ColumnNames DEF WellTyped, SubRow
    <2>2. \A c \in {"start", "end", "next", "trialEnd", "cancelAt"} : o[c] \in Time
        BY <1>1, ColumnNames DEF WellTyped, SubRow
    <2>3. \A c \in {"failed", "collected"} : o[c] \in Nat
        BY <1>1, ColumnNames DEF WellTyped, SubRow
    <2>4. o["mandate"] \in BOOLEAN
        BY <1>1, ColumnNames DEF WellTyped, SubRow
    <2>5. QED
        BY <2>1, <2>2, <2>3, <2>4
<1>4. o \in SubRow
    BY <1>2, <1>3, ColumnNames DEF SubRow
<1>5. QED
    BY <1>1, <1>4, ColumnNames DEF o

\* A draft is typed when the columns it writes are.
LEMMA DraftsAreTyped ==
    ASSUME NEW d
    PROVE  IsDraft(d) <=> /\ d.sub \in Subs /\ WellTyped(d.set)
                          /\ d.pay \in PaymentWrite /\ d.at \in Nat
                          /\ d.start \in Time /\ d.days \in Nat
                          /\ d.backed \in {0, 1}
<1>1. ASSUME IsDraft(d) PROVE WellTyped(d.set)
    <2>1. PICK C \in SUBSET Columns :
            /\ DOMAIN d.set = C
            /\ [c \in Columns |-> IF c \in C THEN d.set[c] ELSE NoSub[c]] \in SubRow
        BY <1>1 DEF IsDraft
    <2> DEFINE o == [c \in Columns |-> IF c \in C THEN d.set[c] ELSE NoSub[c]]
    <2>2. o \in SubRow /\ \A c \in C : o[c] = d.set[c]
        BY <2>1
    <2> HIDE DEF o
    <2>3. QED
        BY <2>1, <2>2, ColumnNames DEF WellTyped, SubRow
<1>2. ASSUME WellTyped(d.set)
      PROVE  \E C \in SUBSET Columns :
               /\ DOMAIN d.set = C
               /\ [c \in Columns |-> IF c \in C THEN d.set[c] ELSE NoSub[c]] \in SubRow
    <2>1. DOMAIN d.set \in SUBSET Columns
        BY <1>2 DEF WellTyped
    <2>2. Overlay(d.set, NoSub) \in SubRow
        BY <1>2, OverlayType, ColumnNames
    <2>3. QED
        BY <2>1, <2>2 DEF Overlay
<1>3. QED
    BY <1>1, <1>2 DEF IsDraft

(***************************************************************************)
(* Drafts as proposals: a handler that read a row proposes another row and *)
(* writes the columns that differ.                                         *)
(***************************************************************************)
\* d takes the row s, as it is, to the row given.
Proposes(d, s, row) ==
    /\ d.sub = s
    /\ DOMAIN d.set = {c \in Columns : row[c] # sub[s][c]}
    /\ \A c \in DOMAIN d.set : d.set[c] = row[c]
    /\ d.pay \in PaymentWrite /\ d.at \in Nat /\ d.start \in Time
    /\ d.days \in Nat /\ d.backed \in {0, 1}

\* Change writes what differs, and nothing else.
LEMMA ChangeProposes ==
    ASSUME NEW s, NEW row
    PROVE  Proposes(Change(s, row), s, row) /\ Change(s, row).backed = 0
BY DEF Change, Proposes, PaymentWrite, Time, Null

\* ... and so it does with a payment row.
LEMMA PaymentProposes ==
    ASSUME NEW s, NEW row \in SubRow, NEW days \in Nat
    PROVE  /\ Proposes(WithPayment(s, row, days), s, row)
           /\ WithPayment(s, row, days).backed = 0
<1>1. row.start \in Time
    BY DEF SubRow
<1>2. QED
    BY <1>1 DEF WithPayment, Change, Proposes, PaymentWrite, Time, Null

\* ... and when it stands for a payment or a manual renewal.
LEMMA BackedProposes ==
    ASSUME NEW s, NEW row, NEW j \in Nat, NEW d,
           \/ d = [Change(s, row) EXCEPT !.backed = 1]
           \/ d = [[Change(s, row) EXCEPT !.backed = 1] EXCEPT !.pay = "settle", !.at = j]
    PROVE  Proposes(d, s, row) /\ d.backed = 1
<1>1. PICK c : c = Change(s, row)
    OBVIOUS
<1>2. CASE d = [c EXCEPT !.backed = 1]
    BY <1>1, <1>2 DEF Change, Proposes, PaymentWrite, Time, Null
<1>3. CASE d = [c EXCEPT !.backed = 1, !.pay = "settle", !.at = j]
    BY <1>1, <1>3 DEF Change, Proposes, PaymentWrite, Time, Null
<1>4. QED
    BY <1>1, <1>2, <1>3

\* A draft writes the status if and only if it changes it.
LEMMA WritesWhatDiffers ==
    ASSUME NEW s \in Subs, sub[s] \in SubRow, NEW row \in SubRow,
           NEW d, Proposes(d, s, row)
    PROVE  /\ IsDraft(d)
           /\ Writes(d, "status") <=> row.status # sub[s].status
           /\ Writes(d, "status") => d.set["status"] = row.status
           /\ Writes(d, "collected") => d.set["collected"] = row.collected
<1>1. \A c \in Columns : c \in DOMAIN d.set <=> row[c] # sub[s][c]
    BY DEF Proposes
<1>2. \A c \in DOMAIN d.set : c \in Columns /\ d.set[c] = row[c]
    BY DEF Proposes
<1>3. WellTyped(d.set)
    BY <1>2, ColumnNames DEF WellTyped, SubRow
<1>4. IsDraft(d)
    BY <1>3, DraftsAreTyped DEF Proposes
<1>5. QED
    BY <1>1, <1>2, <1>4, ColumnNames DEF Writes

\* What a proposal must be like to be taken: it does not undo a row, begins
\* no row that exists, and counts no cycle that is not backed.
LEMMA GoodDraft ==
    ASSUME NEW s \in Subs, sub[s] \in SubRow, NEW row \in SubRow,
           NEW d, Proposes(d, s, row),
           row.status # "absent",
           row.status \in Beginnings => sub[s].status \in {"absent", row.status},
           row.collected <= confirmed[s] + d.backed
    PROVE  SoundDraft(d) /\ Created(d) /\ d.sub = s
<1>1. d.sub = s
    BY DEF Proposes
<1>2. QED
    BY <1>1, WritesWhatDiffers DEF SoundDraft, Created

\* A handler that holds a sound draft keeps the invariant.
LEMMA BeginKeeps ==
    ASSUME HInv, NEW q \in Requests, NEW d, SoundDraft(d), Created(d),
           sub[d.sub].status = "absent" => Fresh(d.sub),
           request' = [request EXCEPT ![q] = [used |-> TRUE, todo |-> {d}]],
           session' \in Seq(PaySession), DOMAIN session' = DOMAIN session,
           \A i \in DOMAIN session : session'[i].sub = session[i].sub,
           UNCHANGED <<sub, payment, biller, day, confirmed>>
    PROVE  HInv'
<1>1. /\ DOMAIN request = Requests
      /\ \A p \in Requests : DOMAIN request[p] = {"used", "todo"}
      /\ DOMAIN biller = {"phase", "todo"}
      /\ \A e \in Drafts : SoundDraft(e) /\ Created(e)
    BY DEF HInv, HostedTypeOK, Creations
<1>2. /\ DOMAIN request' = Requests
      /\ request'[q] = [used |-> TRUE, todo |-> {d}]
      /\ \A p \in Requests \ {q} : request'[p] = request[p]
    BY <1>1
<1>3. \A e \in Drafts' : e \in Drafts \cup {d}
    <2>1. \A p \in Requests : request'[p].todo \subseteq request[p].todo \cup {d}
        BY <1>2
    <2>2. QED
        BY <2>1 DEF Drafts
<1>4. \A e \in Drafts' : SoundDraft(e)'
    BY <1>1, <1>3 DEF SoundDraft, IsDraft, Writes
<1>5. \A e \in Drafts' : Created(e)'
    BY <1>1, <1>3 DEF Created, Writes
<1>6. HostedTypeOK'
    <2>1. \A p \in Requests : request'[p].used \in BOOLEAN
        BY <1>2 DEF HInv, HostedTypeOK
    <2>2. \A p \in Requests : \A e \in request'[p].todo : IsDraft(e)
        <3>1. \A p \in Requests : \A e \in request'[p].todo : e \in Drafts'
            BY DEF Drafts
        <3>2. QED
            BY <3>1, <1>4 DEF SoundDraft
    <2>3. QED
        BY <1>2, <2>1, <2>2 DEF HInv, HostedTypeOK, IsDraft
<1>7. Creations'
    <2>1. \A p, r \in Requests : \A e \in request'[p].todo, f \in request'[r].todo :
             e.sub = f.sub /\ sub'[e.sub].status = "absent" => p = r
        <3> SUFFICES ASSUME NEW p \in Requests, NEW r \in Requests,
                            NEW e \in request'[p].todo, NEW f \in request'[r].todo,
                            e.sub = f.sub, sub[e.sub].status = "absent", p # r
                     PROVE  FALSE
            OBVIOUS
        <3>1. CASE p # q /\ r # q
            BY <3>1, <1>2 DEF HInv, Creations
        <3>2. CASE p = q
            <4>1. e = d /\ f \in request[r].todo
                BY <3>2, <1>2
            <4>2. QED
                BY <4>1 DEF Fresh
        <3>3. CASE r = q
            <4>1. f = d /\ e \in request[p].todo
                BY <3>3, <1>2
            <4>2. QED
                BY <4>1 DEF Fresh
        <3>4. QED
            BY <3>1, <3>2, <3>3
    <2>2. QED
        BY <1>5, <2>1 DEF HInv, Creations
<1>8. CyclesWereCollected'
    BY DEF HInv, CyclesWereCollected
<1>9. \A p \in Requests : DOMAIN request'[p] = {"used", "todo"}
    BY <1>1, <1>2
<1>10. QED
    BY <1>1, <1>4, <1>6, <1>7, <1>8, <1>9 DEF HInv

(***************************************************************************)
(* The handlers.                                                           *)
(***************************************************************************)
\* What the handlers make of a row is a row.
LEMMA RowsAreTyped ==
    ASSUME NEW r \in SubRow, day \in Nat
    PROVE  /\ \A x \in SubStatus : [r EXCEPT !.status = x] \in SubRow
           /\ Cancelled(r) \in SubRow /\ Cancelled(r).status = "CANCELLED"
           /\ Cancelled(r).collected = r.collected
           /\ CancelsAtEnd(r) \in SubRow /\ CancelsAtEnd(r).status = r.status
           /\ CancelsAtEnd(r).collected = r.collected
           /\ [NewPeriod(r) EXCEPT !.next = day] \in SubRow
           /\ [NewPeriod(r) EXCEPT !.next = day].status = "ACTIVE"
           /\ [NewPeriod(r) EXCEPT !.next = day].collected = r.collected
           /\ Renewed(r) \in SubRow /\ Renewed(r).status = "ACTIVE"
           /\ Renewed(r).collected = r.collected + 1
<1>1. day + Period \in Time /\ day \in Time /\ day + Period \in Nat
    BY HostedAssumption DEF Time
<1>2. r.collected + 1 \in Nat /\ r.end \in Time /\ r.collected \in Nat
    BY DEF SubRow
<1>3. {"ACTIVE", "CANCELLED"} \subseteq SubStatus
    BY DEF SubStatus, Live
<1>4. PICK e : e = day + Period
    OBVIOUS
<1>5. NewPeriod(r) = [r EXCEPT !.status = "ACTIVE", !.start = day, !.end = e]
    BY <1>4 DEF NewPeriod
<1>6. e \in Time
    BY <1>1, <1>4
<1>7. \A x \in SubStatus : [r EXCEPT !.status = x] \in SubRow
    BY DEF SubRow
<1>8. /\ Cancelled(r) \in SubRow /\ Cancelled(r).status = "CANCELLED"
      /\ Cancelled(r).collected = r.collected
    BY <1>1, <1>3 DEF SubRow, Cancelled
<1>9. /\ CancelsAtEnd(r) \in SubRow /\ CancelsAtEnd(r).status = r.status
      /\ CancelsAtEnd(r).collected = r.collected
    BY <1>2 DEF SubRow, CancelsAtEnd
<1>10. /\ NewPeriod(r) \in SubRow /\ NewPeriod(r).status = "ACTIVE"
       /\ NewPeriod(r).collected = r.collected
    BY <1>1, <1>3, <1>5, <1>6 DEF SubRow
<1>11. /\ [NewPeriod(r) EXCEPT !.next = day] \in SubRow
       /\ [NewPeriod(r) EXCEPT !.next = day].status = "ACTIVE"
       /\ [NewPeriod(r) EXCEPT !.next = day].collected = r.collected
    BY <1>1, <1>10 DEF SubRow
<1>12. PICK n \in SubRow : n = NewPeriod(r)
    BY <1>10
<1>13. PICK k \in Nat : k = r.collected + 1
    BY <1>2
<1>14. Renewed(r) = [n EXCEPT !.next = e, !.failed = 0, !.collected = k]
    BY <1>4, <1>10, <1>12, <1>13 DEF Renewed
<1>15. /\ Renewed(r) \in SubRow /\ Renewed(r).status = "ACTIVE"
       /\ Renewed(r).collected = r.collected + 1
    <2>1. n.status = "ACTIVE"
        BY <1>10, <1>12
    <2>2. PICK m : m = [n EXCEPT !.next = e, !.failed = 0, !.collected = k]
        OBVIOUS
    <2>3. m \in SubRow /\ m.status = n.status /\ m.collected = k
        BY <1>6, <2>2 DEF SubRow
    <2>4. QED
        BY <1>13, <1>14, <2>1, <2>2, <2>3
<1>16. QED
    BY <1>7, <1>8, <1>9, <1>11, <1>15

\* A new row begins, and has collected nothing.
LEMMA NewRowIsTyped ==
    ASSUME NEW trial \in Nat, NEW mandate \in BOOLEAN, day \in Nat
    PROVE  /\ NewRow(trial, mandate) \in SubRow
           /\ NewRow(trial, mandate).status \in Beginnings
           /\ NewRow(trial, mandate).collected = 0
<1>1. day + (IF trial > 0 THEN trial ELSE Period) \in Time
    BY HostedAssumption DEF Time
<1>2. day + trial \in Time /\ (IF trial > 0 THEN day + trial ELSE Null) \in Time
    BY DEF Time
<1>3. PICK a \in Time : a = day + (IF trial > 0 THEN trial ELSE Period)
    BY <1>1
<1>4. PICK b \in Time : b = day + trial
    BY <1>2
<1>5. PICK c \in Time : c = IF trial > 0 THEN day + trial ELSE Null
    BY <1>2
<1>6. PICK x \in Beginnings : x = IF trial > 0 THEN "TRIALING" ELSE "PENDING_PAYMENT"
    BY DEF Beginnings
<1>7. NewRow(trial, mandate) =
        [NoSub EXCEPT !.status = x, !.start = day, !.end = a, !.next = b,
                      !.trialEnd = c, !.mandate = mandate]
    BY <1>3, <1>4, <1>5, <1>6 DEF NewRow
<1>8. x \in SubStatus /\ day \in Time /\ Null \in Time
    BY DEF Beginnings, SubStatus, Live, Time
<1>9. NewRow(trial, mandate) =
        [status |-> x, start |-> day, end |-> a, next |-> b, trialEnd |-> c,
         cancelAt |-> Null, failed |-> 0, collected |-> 0, mandate |-> mandate]
    BY <1>7 DEF NoSub
<1>10. QED
    BY <1>8, <1>9 DEF SubRow

\* A handler may hold any proposal that is fit to be taken.
LEMMA ProposalBegins ==
    ASSUME HInv, NEW q \in Requests, NEW s \in Subs, NEW row \in SubRow,
           NEW d, Proposes(d, s, row),
           row.status # "absent",
           row.status \in Beginnings => sub[s].status \in {"absent", row.status},
           row.collected <= confirmed[s] + d.backed,
           sub[s].status = "absent" => Fresh(s),
           Begin(q, d)
    PROVE  HInv'
<1>1. sub[s] \in SubRow
    BY DEF HInv, HostedTypeOK
<1>2. SoundDraft(d) /\ Created(d) /\ d.sub = s
    BY <1>1, GoodDraft
<1>3. session' \in Seq(PaySession)
    BY DEF Begin, HInv, HostedTypeOK
<1>4. QED
    BY <1>2, <1>3, BeginKeeps DEF Begin

\* What the invariant says of a row.
LEMMA Given ==
    ASSUME HInv, NEW s \in Subs
    PROVE  /\ sub[s] \in SubRow /\ sub[s].status \in SubStatus
           /\ sub[s].collected \in Nat /\ confirmed[s] \in Nat
           /\ sub[s].collected <= confirmed[s]
           /\ day \in Nat
<1>1. sub[s] \in SubRow /\ confirmed[s] \in Nat /\ day \in Nat
    BY HostedAssumption DEF HInv, HostedTypeOK
<1>2. QED
    BY <1>1 DEF HInv, CyclesWereCollected, SubRow

\* A change of a row that exists.
LEMMA ChangeKeeps ==
    ASSUME HInv, NEW q \in Requests, NEW s \in Subs, NEW row \in SubRow,
           sub[s].status # "absent",
           row.status \in {sub[s].status, "ACTIVE", "CANCELLED", "PAUSED", "PAST_DUE"},
           row.collected = sub[s].collected,
           NEW d, Proposes(d, s, row), d.backed = 0, Begin(q, d)
    PROVE  HInv'
<1>1. row.status # "absent"
    OBVIOUS
<1>2. row.status \in Beginnings => sub[s].status \in {"absent", row.status}
    BY DEF Beginnings
<1>3. row.collected <= confirmed[s] + d.backed
    BY Given
<1>4. QED
    BY <1>1, <1>2, <1>3, ProposalBegins

\* A draft of a new row.
LEMMA CreationKeeps ==
    ASSUME HInv, NEW q \in Requests, NEW s \in Subs, NEW trial \in Nat,
           NEW mandate \in BOOLEAN, NEW d,
           Proposes(d, s, NewRow(trial, mandate)), d.backed = 0,
           Fresh(s), Begin(q, d)
    PROVE  HInv'
<1>1. PICK row \in SubRow : row = NewRow(trial, mandate)
    BY Given, NewRowIsTyped
<1>2. row.status \in Beginnings /\ row.collected = 0
    BY <1>1, Given, NewRowIsTyped
<1>3. row.status # "absent"
    BY <1>2 DEF Beginnings
<1>4. row.collected <= confirmed[s] + d.backed
    BY <1>2, Given
<1>5. Proposes(d, s, row) /\ sub[s].status = "absent"
    BY <1>1 DEF Fresh
<1>6. QED
    BY <1>2, <1>3, <1>4, <1>5, ProposalBegins

\* The merchant's form keeps the invariant.
LEMMA CreateKeeps ==
    ASSUME HInv, NEW q \in Requests, NEW s \in Subs, BeginCreate(q, s)
    PROVE  HInv'
<1>1. PICK trial \in {0, TrialDays} :
        /\ Fresh(s)
        /\ Begin(q, IF trial = 0 \/ Fee
                    THEN WithPayment(s, NewRow(trial, FALSE), 0)
                    ELSE Change(s, NewRow(trial, FALSE)))
    BY DEF BeginCreate
<1>2. trial \in Nat
    BY HostedAssumption
<1>3. PICK row \in SubRow : row = NewRow(trial, FALSE)
    BY <1>2, Given, NewRowIsTyped
<1>4. PICK d : d = IF trial = 0 \/ Fee THEN WithPayment(s, row, 0) ELSE Change(s, row)
    OBVIOUS
<1>5. Proposes(d, s, row) /\ d.backed = 0
    BY <1>4, ChangeProposes, PaymentProposes
<1>6. Begin(q, d)
    BY <1>1, <1>3, <1>4
<1>7. QED
    BY <1>1, <1>2, <1>3, <1>5, <1>6, CreationKeeps

\* The customer's form keeps the invariant.
LEMMA SubscribeKeeps ==
    ASSUME HInv, NEW q \in Requests, NEW s \in Subs, NEW mandate \in BOOLEAN,
           BeginSubscribe(q, s, mandate)
    PROVE  HInv'
<1>1. PICK trial \in {0, TrialDays} :
        /\ Fresh(s)
        /\ Begin(q, IF (trial = 0 \/ Fee) /\ ~mandate
                    THEN WithPayment(s, NewRow(trial, mandate), SessionDays)
                    ELSE Change(s, NewRow(trial, mandate)))
    BY DEF BeginSubscribe
<1>2. trial \in Nat /\ SessionDays \in Nat
    BY HostedAssumption
<1>3. PICK row \in SubRow : row = NewRow(trial, mandate)
    BY <1>2, Given, NewRowIsTyped
<1>4. PICK d : d = IF (trial = 0 \/ Fee) /\ ~mandate
                   THEN WithPayment(s, row, SessionDays) ELSE Change(s, row)
    OBVIOUS
<1>5. Proposes(d, s, row) /\ d.backed = 0
    BY <1>2, <1>4, ChangeProposes, PaymentProposes
<1>6. Begin(q, d)
    BY <1>1, <1>3, <1>4
<1>7. QED
    BY <1>1, <1>2, <1>3, <1>5, <1>6, CreationKeeps

\* So do cancellation, pause, resume and the answers of the wallet.
LEMMA StatusChangesKeep ==
    ASSUME HInv, NEW q \in Requests, NEW s \in Subs,
           \/ BeginCancel(q, s) \/ BeginManageCancel(q, s) \/ BeginPause(q, s)
           \/ BeginResume(q, s) \/ BeginManageResume(q, s)
           \/ BeginAuthorized(q, s) \/ BeginRejected(q, s)
    PROVE  HInv'
<1>1. PICK r \in SubRow : r = sub[s]
    BY Given
<1>2. day \in Nat
    BY Given
<1>3. PICK row : /\ sub[s].status # "absent"
                 /\ Begin(q, Change(s, row))
                 /\ \/ row = Cancelled(r) \/ row = CancelsAtEnd(r)
                    \/ row = [r EXCEPT !.status = "PAUSED"]
                    \/ row = [NewPeriod(r) EXCEPT !.next = day]
                    \/ row = [r EXCEPT !.status = "ACTIVE"]
    <2>1. CASE BeginCancel(q, s)
        BY <2>1, <1>1 DEF BeginCancel
    <2>2. CASE BeginManageCancel(q, s)
        BY <2>2, <1>1 DEF BeginManageCancel
    <2>3. CASE BeginPause(q, s)
        BY <2>3, <1>1 DEF BeginPause
    <2>4. CASE BeginResume(q, s)
        BY <2>4, <1>1 DEF BeginResume
    <2>5. CASE BeginManageResume(q, s)
        BY <2>5, <1>1 DEF BeginManageResume
    <2>6. CASE BeginAuthorized(q, s)
        BY <2>6, <1>1 DEF BeginAuthorized
    <2>7. CASE BeginRejected(q, s)
        BY <2>7, <1>1 DEF BeginRejected
    <2>8. QED
        BY <2>1, <2>2, <2>3, <2>4, <2>5, <2>6, <2>7
<1>4. /\ row \in SubRow
      /\ row.status \in {r.status, "ACTIVE", "CANCELLED", "PAUSED"}
      /\ row.collected = r.collected
    <2>1. \A x \in {"ACTIVE", "PAUSED"} :
            /\ [r EXCEPT !.status = x] \in SubRow
            /\ [r EXCEPT !.status = x].status = x
            /\ [r EXCEPT !.status = x].collected = r.collected
        BY DEF SubRow, SubStatus, Live
    <2>2. CASE row = Cancelled(r)
        BY <1>2, <2>2, RowsAreTyped
    <2>3. CASE row = CancelsAtEnd(r)
        BY <1>2, <2>3, RowsAreTyped
    <2>4. CASE row = [NewPeriod(r) EXCEPT !.next = day]
        BY <1>2, <2>4, RowsAreTyped
    <2>5. QED
        BY <1>3, <2>1, <2>2, <2>3, <2>4
<1>5. PICK d : d = Change(s, row)
    OBVIOUS
<1>6. Proposes(d, s, row) /\ d.backed = 0
    BY <1>5, ChangeProposes
<1>7. QED
    BY <1>1, <1>3, <1>4, <1>5, <1>6, ChangeKeeps

\* So do the handlers of the trial.
LEMMA TrialChangesKeep ==
    ASSUME HInv, NEW q \in Requests, NEW s \in Subs,
           BeginExtendTrial(q, s) \/ BeginEndTrial(q, s)
    PROVE  HInv'
<1>1. PICK r \in SubRow : r = sub[s]
    BY Given
<1>2. CASE BeginExtendTrial(q, s)
    <2>1. PICK end : end = r.trialEnd + 1
        OBVIOUS
    <2>2. end \in Time
        BY <2>1 DEF SubRow, Time, Null
    <2>3. PICK row : row = [r EXCEPT !.trialEnd = end, !.end = end, !.next = end]
        OBVIOUS
    <2>4. row \in SubRow /\ row.status = r.status /\ row.collected = r.collected
        BY <2>2, <2>3 DEF SubRow
    <2>5. PICK d : d = Change(s, row)
        OBVIOUS
    <2>6. Proposes(d, s, row) /\ d.backed = 0
        BY <2>5, ChangeProposes
    <2>7. Begin(q, d) /\ sub[s].status # "absent"
        BY <1>1, <1>2, <2>1, <2>3, <2>5 DEF BeginExtendTrial
    <2>8. QED
        BY <1>1, <2>4, <2>6, <2>7, ChangeKeeps
<1>3. CASE BeginEndTrial(q, s)
    <2>1. PICK row : row = [NewPeriod(r) EXCEPT !.next = day]
        OBVIOUS
    <2>2. row \in SubRow /\ row.status = "ACTIVE" /\ row.collected = r.collected
        BY <2>1, Given, RowsAreTyped
    <2>3. PICK d : d = WithPayment(s, row, 0)
        OBVIOUS
    <2>4. Proposes(d, s, row) /\ d.backed = 0
        BY <2>2, <2>3, PaymentProposes
    <2>5. Begin(q, d) /\ sub[s].status # "absent"
        BY <1>1, <1>3, <2>1, <2>3 DEF BeginEndTrial, Converted
    <2>6. QED
        BY <1>1, <2>2, <2>4, <2>5, ChangeKeeps
<1>4. QED
    BY <1>2, <1>3

\* So do the requests for a payment.
LEMMA CollectionsKeep ==
    ASSUME HInv, NEW q \in Requests, NEW s \in Subs,
           BeginCollect(q, s) \/ BeginPayNow(q, s)
    PROVE  HInv'
<1>1. PICK r \in SubRow : r = sub[s]
    BY Given
<1>2. SessionDays \in Nat
    BY HostedAssumption
<1>3. sub[s].status # "absent"
    BY DEF BeginCollect, BeginPayNow
<1>4. CASE Begin(q, WithPayment(s, sub[s], SessionDays))
    <2>1. PICK d : d = WithPayment(s, r, SessionDays)
        OBVIOUS
    <2>2. Proposes(d, s, r) /\ d.backed = 0
        BY <1>2, <2>1, PaymentProposes
    <2>3. QED
        BY <1>1, <1>3, <1>4, <2>1, <2>2, ChangeKeeps
<1>5. ASSUME NEW i \in OfPeriod(s),
             Begin(q, [Change(s, sub[s]) EXCEPT !.pay = "attach", !.at = i, !.days = SessionDays])
      PROVE  HInv'
    <2>1. PICK d : d = [Change(s, r) EXCEPT !.pay = "attach", !.at = i, !.days = SessionDays]
        OBVIOUS
    <2>2. i \in Nat
        <3>1. i \in DOMAIN payment /\ payment \in Seq(SubPayment)
            BY DEF OfPeriod, OpenPayments, HInv, HostedTypeOK
        <3>2. QED
            BY <3>1
    <2>3. Proposes(d, s, r) /\ d.backed = 0
        BY <1>2, <2>1, <2>2 DEF Change, Proposes, PaymentWrite, Time, Null
    <2>4. QED
        BY <1>1, <1>3, <1>5, <2>1, <2>3, ChangeKeeps
<1>6. QED
    BY <1>4, <1>5 DEF BeginCollect, BeginPayNow

\* A manual renewal backs the cycle it counts.
LEMMA RenewKeeps ==
    ASSUME HInv, NEW q \in Requests, NEW s \in Subs, BeginRenew(q, s)
    PROVE  HInv'
<1>1. PICK r \in SubRow : r = sub[s]
    BY Given
<1>2. sub[s].status # "absent"
    BY DEF BeginRenew
<1>3. CASE Completed(r) \/ CancelIsDue(r)
    <2>1. PICK row : row = [r EXCEPT !.status = "CANCELLED"]
        OBVIOUS
    <2>2. row \in SubRow /\ row.status = "CANCELLED" /\ row.collected = r.collected
        BY <2>1 DEF SubRow, SubStatus, Live
    <2>3. PICK d : d = Change(s, row)
        OBVIOUS
    <2>4. Proposes(d, s, row) /\ d.backed = 0
        BY <2>3, ChangeProposes
    <2>5. Begin(q, d)
        BY <1>1, <1>3, <2>1, <2>3 DEF BeginRenew
    <2>6. QED
        BY <1>1, <1>2, <2>2, <2>4, <2>5, ChangeKeeps
<1>4. CASE ~(Completed(r) \/ CancelIsDue(r))
    <2>1. PICK row : row = Renewed(r)
        OBVIOUS
    <2>2. row \in SubRow /\ row.status = "ACTIVE" /\ row.collected = r.collected + 1
        BY <2>1, Given, RowsAreTyped
    <2>3. PICK d : d = [Change(s, row) EXCEPT !.backed = 1]
        OBVIOUS
    <2>4. Proposes(d, s, row) /\ d.backed = 1
        BY <2>3, BackedProposes
    <2>5. Begin(q, d)
        BY <1>1, <1>4, <2>1, <2>3 DEF BeginRenew
    <2>6. row.collected <= confirmed[s] + d.backed
        BY <1>1, <2>2, <2>4, Given
    <2>7. QED
        BY <1>2, <2>2, <2>4, <2>5, <2>6, ProposalBegins DEF Beginnings
<1>5. QED
    BY <1>3, <1>4

\* A confirmed payment backs the cycle it counts, whatever the row has
\* become.
LEMMA ConfirmKeeps ==
    ASSUME HInv, NEW q \in Requests, NEW i \in DOMAIN session, BeginConfirm(q, i)
    PROVE  HInv'
<1>1. session \in Seq(PaySession) /\ session[i] \in PaySession
    BY DEF HInv, HostedTypeOK
<1>2. PICK s \in Subs : s = session[i].sub
    BY <1>1 DEF PaySession
<1>3. sub[s].status # "absent"
    BY <1>2 DEF HInv, Creations
<1>4. PICK r \in SubRow : r = sub[s]
    BY Given
<1>5. PICK row : row = Renewed(r)
    OBVIOUS
<1>6. row \in SubRow /\ row.status = "ACTIVE" /\ row.collected = r.collected + 1
    BY <1>5, Given, RowsAreTyped
<1>7. PICK paid : paid = {j \in DOMAIN payment : payment[j].session = i}
    OBVIOUS
<1>8. PICK d : d = IF paid = {} THEN [Change(s, row) EXCEPT !.backed = 1]
                   ELSE [[Change(s, row) EXCEPT !.backed = 1]
                           EXCEPT !.pay = "settle", !.at = CHOOSE j \in paid : TRUE]
    OBVIOUS
<1>9. Proposes(d, s, row) /\ d.backed = 1
    <2>1. CASE paid = {}
        BY <2>1, <1>8, BackedProposes
    <2>2. CASE paid # {}
        <3>1. PICK j : j = CHOOSE k \in paid : TRUE
            OBVIOUS
        <3>2. j \in paid
            BY <2>2, <3>1
        <3>3. j \in DOMAIN payment /\ payment \in Seq(SubPayment)
            BY <1>7, <3>2 DEF HInv, HostedTypeOK
        <3>4. j \in Nat
            BY <3>3
        <3>5. d = [[Change(s, row) EXCEPT !.backed = 1] EXCEPT !.pay = "settle", !.at = j]
            BY <2>2, <3>1, <1>8
        <3>6. QED
            BY <3>4, <3>5, BackedProposes
    <2>3. QED
        BY <2>1, <2>2
<1>10. SoundDraft(d) /\ Created(d) /\ d.sub = s
    <2>1. row.collected <= confirmed[s] + d.backed
        BY <1>4, <1>6, <1>9, Given
    <2>2. QED
        BY <1>6, <1>9, <2>1, Given, GoodDraft DEF Beginnings
<1>11. request' = [request EXCEPT ![q] = [used |-> TRUE, todo |-> {d}]]
    BY <1>2, <1>4, <1>5, <1>7, <1>8 DEF BeginConfirm
<1>12. session' = [session EXCEPT ![i].status = "handed"]
    BY DEF BeginConfirm
<1>13. PICK p : p = [session[i] EXCEPT !.status = "handed"]
    OBVIOUS
<1>13a. p \in PaySession /\ p.sub = session[i].sub
    BY <1>1, <1>13 DEF PaySession
<1>14. session' = [session EXCEPT ![i] = p]
    BY <1>12, <1>13
<1>15. session' \in Seq(PaySession)
    BY <1>1, <1>14, <1>13a, ExceptSeq
<1>16. /\ DOMAIN session' = DOMAIN session
       /\ \A j \in DOMAIN session : session'[j].sub = session[j].sub
    BY <1>1, <1>14, <1>13a
<1>17. UNCHANGED <<sub, payment, biller, day, confirmed>>
    BY DEF BeginConfirm
<1>18. QED
    BY <1>3, <1>10, <1>11, <1>15, <1>16, <1>17, BeginKeeps

(***************************************************************************)
(* Commits.                                                                *)
(***************************************************************************)
\* The row a transaction leaves.
LEMMA CommittedRow ==
    ASSUME HInv, NEW d \in Drafts, Commit(d)
    PROVE  /\ d.sub \in Subs /\ DOMAIN sub' = Subs
           /\ sub'[d.sub] \in SubRow
           /\ sub'[d.sub].status # "absent"
           /\ sub'[d.sub].status =
                IF Writes(d, "status") THEN d.set["status"] ELSE sub[d.sub].status
           /\ \A s \in Subs \ {d.sub} : sub'[s] = sub[s]
           /\ confirmed' \in [Subs -> Nat]
           /\ \A s \in Subs : confirmed[s] <= confirmed'[s]
           /\ sub'[d.sub].collected <= confirmed'[d.sub]
<1>1. SoundDraft(d) /\ Created(d)
    BY DEF HInv, Creations
<1>2. d.sub \in Subs /\ WellTyped(d.set) /\ d.backed \in {0, 1}
    BY <1>1, DraftsAreTyped DEF SoundDraft
<1>3. PICK r \in SubRow : r = sub[d.sub]
    BY <1>2, Given
<1>4. DOMAIN sub = Subs /\ confirmed \in [Subs -> Nat]
    BY DEF HInv, HostedTypeOK
<1>5. /\ sub' = [sub EXCEPT ![d.sub] = Overlay(d.set, r)]
      /\ confirmed' = [confirmed EXCEPT ![d.sub] = @ + d.backed]
    BY <1>3 DEF Commit, Overlay
<1>6. PICK o : o = Overlay(d.set, r)
    OBVIOUS
<1>7. /\ o \in SubRow
      /\ o.status = IF Writes(d, "status") THEN d.set["status"] ELSE r.status
      /\ o.collected = IF Writes(d, "collected") THEN d.set["collected"] ELSE r.collected
    BY <1>2, <1>6, OverlayType DEF Writes
<1>8. sub'[d.sub] = o /\ DOMAIN sub' = Subs /\ \A s \in Subs \ {d.sub} : sub'[s] = sub[s]
    BY <1>2, <1>4, <1>5, <1>6
<1>9. /\ confirmed' \in [Subs -> Nat]
      /\ \A s \in Subs : confirmed[s] <= confirmed'[s]
      /\ confirmed'[d.sub] = confirmed[d.sub] + d.backed
    <2>1. PICK n \in Nat : n = confirmed[d.sub] + d.backed
        BY <1>2, <1>4
    <2>2. confirmed' = [confirmed EXCEPT ![d.sub] = n]
        BY <1>2, <1>4, <1>5, <2>1
    <2>3. confirmed[d.sub] <= n
        BY <1>2, <1>4, <2>1
    <2>4. \A s \in Subs : confirmed[s] \in Nat
        BY <1>4
    <2>5. QED
        BY <1>2, <1>4, <2>1, <2>2, <2>3, <2>4
<1>10. o.status # "absent"
    BY <1>1, <1>3, <1>7 DEF SoundDraft, Created
<1>11. o.collected <= confirmed'[d.sub]
    <2>1. CASE Writes(d, "collected")
        BY <1>1, <1>7, <1>9, <2>1 DEF SoundDraft
    <2>2. CASE ~Writes(d, "collected")
        <3>1. /\ r.collected \in Nat /\ confirmed[d.sub] \in Nat
              /\ r.collected <= confirmed[d.sub] /\ confirmed'[d.sub] \in Nat
              /\ confirmed[d.sub] <= confirmed'[d.sub]
            BY <1>2, <1>3, <1>9, Given
        <3>2. QED
            BY <1>7, <2>2, <3>1
    <2>3. QED
        BY <2>1, <2>2
<1>12. QED
    BY <1>2, <1>3, <1>7, <1>8, <1>9, <1>10, <1>11

\* The payments and the sessions a transaction leaves.
LEMMA CommittedRows ==
    ASSUME HInv, NEW d \in Drafts, Commit(d)
    PROVE  /\ payment' \in Seq(SubPayment)
           /\ session' \in Seq(PaySession)
           /\ \A i \in DOMAIN session' :
                \/ i \in DOMAIN session /\ session'[i] = session[i]
                \/ session'[i].sub = d.sub
<1>1. /\ payment \in Seq(SubPayment) /\ session \in Seq(PaySession) /\ day \in Nat
    BY HostedAssumption DEF HInv, HostedTypeOK
<1>2. d.sub \in Subs /\ d.at \in Nat /\ d.start \in Time /\ d.days \in Nat
    BY DraftsAreTyped DEF HInv, SoundDraft
<1>3. PICK n : n = NewSession(d)
    OBVIOUS
<1>4. n \in Nat
    BY <1>1, <1>3 DEF NewSession
<1>5. payment' \in Seq(SubPayment)
    <2>1. CASE d.pay = "insert"
        <3>1. [sub |-> d.sub, start |-> d.start, session |-> n, paid |-> FALSE] \in SubPayment
            BY <1>2, <1>4 DEF SubPayment
        <3>2. payment' = Append(payment, [sub |-> d.sub, start |-> d.start,
                                          session |-> n, paid |-> FALSE])
            BY <1>3, <2>1 DEF Commit
        <3>3. QED
            BY <1>1, <3>1, <3>2
    <2>2. CASE d.pay = "attach"
        <3>1. payment' = [payment EXCEPT ![d.at].session = n]
            BY <1>3, <2>2 DEF Commit
        <3>2. CASE d.at \in DOMAIN payment
            <4>1. payment[d.at] \in SubPayment
                BY <1>1, <3>2
            <4>2. PICK p : p = [payment[d.at] EXCEPT !.session = n]
                OBVIOUS
            <4>3. p \in SubPayment
                BY <1>4, <4>1, <4>2 DEF SubPayment
            <4>4. payment' = [payment EXCEPT ![d.at] = p]
                BY <3>1, <4>2
            <4>5. QED
                BY <1>1, <3>2, <4>3, <4>4, ExceptSeq
        <3>3. CASE d.at \notin DOMAIN payment
            <4>1. payment' = payment
                BY <1>1, <3>1, <3>3
            <4>2. QED
                BY <1>1, <4>1
        <3>4. QED
            BY <3>2, <3>3
    <2>3. CASE d.pay = "settle"
        <3>1. payment' = [payment EXCEPT ![d.at].paid = TRUE]
            BY <2>3 DEF Commit
        <3>2. CASE d.at \in DOMAIN payment
            <4>1. payment[d.at] \in SubPayment
                BY <1>1, <3>2
            <4>2. PICK p : p = [payment[d.at] EXCEPT !.paid = TRUE]
                OBVIOUS
            <4>3. p \in SubPayment
                BY <4>1, <4>2 DEF SubPayment
            <4>4. payment' = [payment EXCEPT ![d.at] = p]
                BY <3>1, <4>2
            <4>5. QED
                BY <1>1, <3>2, <4>3, <4>4, ExceptSeq
        <3>3. CASE d.at \notin DOMAIN payment
            <4>1. payment' = payment
                BY <1>1, <3>1, <3>3
            <4>2. QED
                BY <1>1, <4>1
        <3>4. QED
            BY <3>2, <3>3
    <2>4. CASE d.pay \notin {"insert", "attach", "settle"}
        BY <1>1, <2>4 DEF Commit
    <2>5. QED
        BY <2>1, <2>2, <2>3, <2>4
<1>6. /\ session' \in Seq(PaySession)
      /\ \A i \in DOMAIN session' :
           \/ i \in DOMAIN session /\ session'[i] = session[i]
           \/ session'[i].sub = d.sub
    <2>1. CASE d.days = 0
        BY <1>1, <2>1 DEF Commit
    <2>2. CASE d.days # 0
        <3>1. PICK p : p = [sub |-> d.sub, until |-> day + d.days, status |-> "open"]
            OBVIOUS
        <3>2. p \in PaySession /\ p.sub = d.sub
            BY <1>1, <1>2, <3>1 DEF PaySession
        <3>3. session' = Append(session, p)
            BY <2>2, <3>1 DEF Commit
        <3>4. QED
            BY <1>1, <3>2, <3>3
    <2>3. QED
        BY <2>1, <2>2
<1>7. QED
    BY <1>5, <1>6

\* A commit keeps the invariant, however old its draft is.
LEMMA CommitKeeps ==
    ASSUME HInv, NEW d \in Drafts, Commit(d), day' = day,
           DOMAIN request' = Requests,
           \A q \in Requests : /\ DOMAIN request'[q] = {"used", "todo"}
                               /\ request'[q].used \in BOOLEAN
                               /\ request'[q].todo \subseteq request[q].todo,
           DOMAIN biller' = {"phase", "todo"}, biller'.phase = biller.phase,
           biller'.todo \subseteq biller.todo,
           sub[d.sub].status = "absent" => \A e \in Drafts' : e.sub # d.sub
    PROVE  HInv'
<1>1. Drafts' \subseteq Drafts
    BY DEF Drafts
<1>2. \A e \in Drafts : SoundDraft(e) /\ Created(e)
    BY DEF HInv, Creations
<1>3. \A e \in Drafts : e.sub \in Subs /\ confirmed[e.sub] \in Nat
                       /\ e.backed \in {0, 1}
                       /\ (Writes(e, "collected") => e.set["collected"] \in Nat)
    <2>1. confirmed \in [Subs -> Nat]
        BY DEF HInv, HostedTypeOK
    <2>2. QED
        BY <1>2, <2>1, DraftsAreTyped DEF SoundDraft, WellTyped, Writes
<1>4. \A e \in Drafts' : SoundDraft(e)'
    <2> SUFFICES ASSUME NEW e \in Drafts' PROVE SoundDraft(e)'
        OBVIOUS
    <2>1. SoundDraft(e) /\ e.sub \in Subs /\ confirmed[e.sub] \in Nat /\ e.backed \in {0, 1}
        BY <1>1, <1>2, <1>3
    <2>2. confirmed[e.sub] <= confirmed'[e.sub] /\ confirmed'[e.sub] \in Nat
        BY <2>1, CommittedRow
    <2>3. ASSUME Writes(e, "collected")
          PROVE  e.set["collected"] <= confirmed'[e.sub] + e.backed
        <3>1. e.set["collected"] \in Nat /\ e.set["collected"] <= confirmed[e.sub] + e.backed
            BY <1>1, <1>3, <2>1, <2>3 DEF SoundDraft
        <3>2. QED
            BY <2>1, <2>2, <3>1
    <2>4. QED
        BY <2>1, <2>3 DEF SoundDraft, IsDraft, Writes
<1>5. \A s \in Subs : sub[s].status # "absent" => sub'[s].status # "absent"
    BY CommittedRow
<1>6. \A e \in Drafts' : Created(e)'
    <2> SUFFICES ASSUME NEW e \in Drafts' PROVE Created(e)'
        OBVIOUS
    <2>1. Created(e) /\ e.sub \in Subs
        BY <1>1, <1>2, <1>3
    <2>2. CASE e.sub # d.sub
        <3>1. sub'[e.sub] = sub[e.sub]
            BY <2>1, <2>2, CommittedRow
        <3>2. QED
            BY <2>1, <3>1 DEF Created, Writes
    <2>3. CASE e.sub = d.sub
        <3>1. sub[e.sub].status # "absent" /\ sub'[e.sub].status # "absent"
            BY <2>3, CommittedRow
        <3>2. QED
            BY <2>1, <3>1 DEF Created, Writes
    <2>4. QED
        BY <2>2, <2>3
<1>7. HostedTypeOK'
    <2>1. \A s \in Subs : sub'[s] \in SubRow
        <3>1. \A s \in Subs : sub[s] \in SubRow
            BY DEF HInv, HostedTypeOK
        <3>2. QED
            BY <3>1, CommittedRow
    <2>2. DOMAIN sub' = Subs /\ confirmed' \in [Subs -> Nat]
        BY CommittedRow
    <2>3. payment' \in Seq(SubPayment) /\ session' \in Seq(PaySession)
        BY CommittedRows
    <2>4. \A q \in Requests : \A e \in request'[q].todo : IsDraft(e)
        BY DEF HInv, HostedTypeOK
    <2>5. biller'.phase \in 0..4 /\ \A e \in biller'.todo : IsDraft(e)
        BY DEF HInv, HostedTypeOK
    <2>6. day' \in 0..MaxDay
        BY DEF HInv, HostedTypeOK
    <2>7. QED
        BY <2>1, <2>2, <2>3, <2>4, <2>5, <2>6 DEF HostedTypeOK, IsDraft
<1>8. CyclesWereCollected'
    <2> SUFFICES ASSUME NEW s \in Subs PROVE sub'[s].collected <= confirmed'[s]
        BY DEF CyclesWereCollected
    <2>1. CASE s = d.sub
        BY <2>1, CommittedRow
    <2>2. CASE s # d.sub
        <3>1. /\ sub'[s] = sub[s] /\ confirmed[s] <= confirmed'[s]
              /\ confirmed'[s] \in Nat
            BY <2>2, CommittedRow
        <3>2. QED
            BY <3>1, Given
    <2>3. QED
        BY <2>1, <2>2
<1>9. Creations'
    <2>1. \A p, q \in Requests : \A e \in request'[p].todo, f \in request'[q].todo :
            e.sub = f.sub /\ sub'[e.sub].status = "absent" => p = q
        <3> SUFFICES ASSUME NEW p \in Requests, NEW q \in Requests,
                            NEW e \in request'[p].todo, NEW f \in request'[q].todo,
                            e.sub = f.sub, sub'[e.sub].status = "absent"
                     PROVE  p = q
            OBVIOUS
        <3>1. e \in request[p].todo /\ f \in request[q].todo
            OBVIOUS
        <3>2. e \in Drafts
            BY <3>1 DEF Drafts
        <3>3. sub[e.sub].status = "absent"
            BY <1>3, <1>5, <3>2
        <3>4. QED
            BY <3>1, <3>3 DEF HInv, Creations
    <2>2. \A e \in biller'.todo : sub'[e.sub].status # "absent"
        <3>1. \A e \in biller.todo : e \in Drafts /\ sub[e.sub].status # "absent"
            BY DEF HInv, Creations, Drafts
        <3>2. QED
            BY <1>3, <1>5, <3>1
    <2>3. \A i \in DOMAIN session' : sub'[session'[i].sub].status # "absent"
        <3> SUFFICES ASSUME NEW i \in DOMAIN session'
                     PROVE  sub'[session'[i].sub].status # "absent"
            OBVIOUS
        <3>1. CASE session'[i].sub = d.sub
            BY <3>1, CommittedRow
        <3>2. CASE i \in DOMAIN session /\ session'[i] = session[i]
            <4>1. session[i].sub \in Subs
                <5>1. session[i] \in PaySession
                    BY <3>2 DEF HInv, HostedTypeOK
                <5>2. QED
                    BY <5>1 DEF PaySession
            <4>2. sub[session[i].sub].status # "absent"
                BY <3>2 DEF HInv, Creations
            <4>3. QED
                BY <1>5, <3>2, <4>1, <4>2
        <3>3. QED
            BY <3>1, <3>2, CommittedRows
    <2>4. QED
        BY <1>6, <2>1, <2>2, <2>3 DEF Creations
<1>10. QED
    BY <1>4, <1>7, <1>8, <1>9 DEF HInv

\* The commit of a request keeps the invariant.
LEMMA CommitRequestKeeps ==
    ASSUME HInv, NEW q \in Requests, CommitRequest(q)
    PROVE  HInv'
<1>1. PICK d \in request[q].todo :
        /\ Commit(d)
        /\ request' = [request EXCEPT ![q].todo = {}]
        /\ UNCHANGED <<biller, day>>
    BY DEF CommitRequest
<1>2. d \in Drafts
    BY DEF Drafts
<1>3. /\ DOMAIN request = Requests
      /\ \A p \in Requests : /\ DOMAIN request[p] = {"used", "todo"}
                             /\ request[p].used \in BOOLEAN
      /\ DOMAIN biller = {"phase", "todo"}
    BY DEF HInv, HostedTypeOK
<1>4. /\ DOMAIN request' = Requests
      /\ request'[q].todo = {} /\ request'[q].used = request[q].used
      /\ DOMAIN request'[q] = {"used", "todo"}
      /\ \A p \in Requests \ {q} : request'[p] = request[p]
    BY <1>1, <1>3
<1>5. ASSUME sub[d.sub].status = "absent", NEW e \in Drafts', e.sub = d.sub
      PROVE  FALSE
    <2>1. CASE e \in biller.todo
        BY <1>5, <2>1 DEF HInv, Creations
    <2>2. CASE e \notin biller.todo
        <3>1. PICK p \in Requests : e \in request'[p].todo
            BY <1>1, <2>2 DEF Drafts
        <3>2. p # q /\ e \in request[p].todo
            BY <1>4, <3>1
        <3>3. QED
            BY <1>5, <3>2 DEF HInv, Creations
    <2>3. QED
        BY <2>1, <2>2
<1>6. \A p \in Requests : /\ DOMAIN request'[p] = {"used", "todo"}
                          /\ request'[p].used \in BOOLEAN
                          /\ request'[p].todo \subseteq request[p].todo
    BY <1>3, <1>4
<1>7. QED
    BY <1>1, <1>2, <1>3, <1>4, <1>5, <1>6, CommitKeeps

\* The commits of the billing pass keep the invariant.
LEMMA CommitBilledKeeps ==
    ASSUME HInv, NEW d \in biller.todo, CommitBilled(d)
    PROVE  HInv'
<1>1. /\ Commit(d)
      /\ biller' = [biller EXCEPT !.todo = @ \ {d}]
      /\ UNCHANGED <<request, day>>
    BY DEF CommitBilled
<1>2. d \in Drafts
    BY DEF Drafts
<1>3. sub[d.sub].status # "absent"
    BY DEF HInv, Creations
<1>4. /\ DOMAIN request = Requests
      /\ \A p \in Requests : /\ DOMAIN request[p] = {"used", "todo"}
                             /\ request[p].used \in BOOLEAN
      /\ DOMAIN biller = {"phase", "todo"}
    BY DEF HInv, HostedTypeOK
<1>5. /\ DOMAIN biller' = {"phase", "todo"} /\ biller'.phase = biller.phase
      /\ biller'.todo \subseteq biller.todo
    BY <1>1, <1>4
<1>6. QED
    BY <1>1, <1>2, <1>3, <1>4, <1>5, CommitKeeps

(***************************************************************************)
(* The billing pass, the customer and time.                                *)
(***************************************************************************)
\* A draft of the billing pass.
Sound(d) == SoundDraft(d) /\ Created(d) /\ sub[d.sub].status # "absent"

\* A move of an existing row makes a sound draft.
LEMMA MoveIsSound ==
    ASSUME HInv, NEW s \in Subs, NEW row \in SubRow,
           sub[s].status # "absent",
           row.status \in {sub[s].status, "ACTIVE", "CANCELLED", "PAST_DUE"},
           row.collected = sub[s].collected,
           NEW d, Proposes(d, s, row), d.backed = 0
    PROVE  Sound(d)
<1>1. row.collected <= confirmed[s] + d.backed
    BY Given
<1>2. /\ row.status # "absent"
      /\ row.status \in Beginnings => sub[s].status \in {"absent", row.status}
    BY DEF Beginnings
<1>3. SoundDraft(d) /\ Created(d) /\ d.sub = s
    BY <1>1, <1>2, Given, GoodDraft
<1>4. QED
    BY <1>3 DEF Sound

\* ... a cancellation, for one.
LEMMA CancellingIsSound ==
    ASSUME HInv, NEW s \in Subs, sub[s].status # "absent",
           NEW d, d = Change(s, [sub[s] EXCEPT !.status = "CANCELLED"])
    PROVE  Sound(d)
<1>1. PICK r \in SubRow : r = sub[s]
    BY Given
<1>2. PICK row : row = [r EXCEPT !.status = "CANCELLED"]
    OBVIOUS
<1>3. row \in SubRow /\ row.status = "CANCELLED" /\ row.collected = r.collected
    BY <1>2 DEF SubRow, SubStatus, Live
<1>4. Proposes(d, s, row) /\ d.backed = 0
    BY <1>1, <1>2, ChangeProposes
<1>5. QED
    BY <1>1, <1>3, <1>4, MoveIsSound

\* The trials that end.
LEMMA TrialDraftIsSound ==
    ASSUME HInv, NEW s \in Subs, NEW d \in TrialDraft(s)
    PROVE  Sound(d)
<1>1. PICK r \in SubRow : r = sub[s]
    BY Given
<1>2. d = Converted(s) /\ sub[s].status # "absent"
    BY DEF TrialDraft
<1>3. PICK row : row = [NewPeriod(r) EXCEPT !.next = day]
    OBVIOUS
<1>4. row \in SubRow /\ row.status = "ACTIVE" /\ row.collected = r.collected
    BY <1>3, Given, RowsAreTyped
<1>5. d = WithPayment(s, row, 0)
    BY <1>1, <1>2, <1>3 DEF Converted
<1>6. Proposes(d, s, row) /\ d.backed = 0
    BY <1>4, <1>5, PaymentProposes
<1>7. QED
    BY <1>1, <1>2, <1>4, <1>6, MoveIsSound

\* The payments that fall due.
LEMMA DueDraftIsSound ==
    ASSUME HInv, NEW s \in Subs, NEW d \in DueDraft(s)
    PROVE  Sound(d)
<1>1. PICK r \in SubRow : r = sub[s]
    BY Given
<1>2. sub[s].status # "absent"
    BY DEF DueDraft
<1>3. \/ d = Change(s, [sub[s] EXCEPT !.status = "CANCELLED"])
      \/ d = WithPayment(s, sub[s], SessionDays)
    BY DEF DueDraft
<1>4. CASE d = WithPayment(s, sub[s], SessionDays)
    <2>1. SessionDays \in Nat
        BY HostedAssumption
    <2>2. Proposes(d, s, r) /\ d.backed = 0
        BY <1>1, <1>4, <2>1, PaymentProposes
    <2>3. QED
        BY <1>1, <1>2, <2>2, MoveIsSound
<1>5. QED
    BY <1>2, <1>3, <1>4, CancellingIsSound

\* The cancellations whose date has come.
LEMMA CancelDraftIsSound ==
    ASSUME HInv, NEW s \in Subs, NEW d \in CancelDraft(s)
    PROVE  Sound(d)
BY CancellingIsSound DEF CancelDraft

\* A reminder that is bounded is a change of one more column.
LEMMA RemindedProposes ==
    ASSUME NEW s \in Subs, sub[s] \in SubRow, NEW row \in SubRow,
           NEW count \in Nat, NEW d, d = Reminded(Change(s, row), count)
    PROVE  /\ IsDraft(d) /\ d.sub = s /\ d.backed = 0
           /\ Writes(d, "status") <=> row.status # sub[s].status
           /\ Writes(d, "status") => d.set["status"] = row.status
           /\ Writes(d, "collected") => d.set["collected"] = row.collected
<1>1. PICK c : c = Change(s, row)
    OBVIOUS
<1>2. Proposes(c, s, row) /\ c.backed = 0
    BY <1>1, ChangeProposes
<1>3. /\ IsDraft(c)
      /\ Writes(c, "status") <=> row.status # sub[s].status
      /\ Writes(c, "status") => c.set["status"] = row.status
      /\ Writes(c, "collected") => c.set["collected"] = row.collected
    BY <1>2, WritesWhatDiffers
<1>4. PICK n : n = IF count <= MaxRetries THEN count ELSE MaxRetries
    OBVIOUS
<1>5. n \in Nat
    BY <1>4, HostedAssumption
<1>6. PICK set : set = [k \in DOMAIN c.set \cup {"failed"} |->
                          IF k # "failed" THEN c.set[k] ELSE n]
    OBVIOUS
<1>7. d = [c EXCEPT !.set = set]
    BY <1>1, <1>4, <1>6 DEF Reminded
<1>8. /\ d.set = set /\ d.sub = c.sub /\ d.pay = c.pay /\ d.at = c.at
      /\ d.start = c.start /\ d.days = c.days /\ d.backed = c.backed
    BY <1>1, <1>7 DEF Change
<1>9. WellTyped(c.set)
    BY <1>3, DraftsAreTyped
<1>10. WellTyped(set)
    BY <1>5, <1>6, <1>9, ColumnNames DEF WellTyped
<1>11. IsDraft(d)
    BY <1>3, <1>8, <1>10, DraftsAreTyped
<1>12. /\ Writes(d, "status") <=> Writes(c, "status")
       /\ Writes(d, "collected") <=> Writes(c, "collected")
       /\ Writes(c, "status") => d.set["status"] = c.set["status"]
       /\ Writes(c, "collected") => d.set["collected"] = c.set["collected"]
    BY <1>6, <1>8 DEF Writes
<1>13. QED
    BY <1>2, <1>3, <1>8, <1>11, <1>12 DEF Proposes

\* The payments that are overdue.
LEMMA FailedDraftIsSound ==
    ASSUME HInv, NEW s \in Subs, NEW d \in FailedDraft(s)
    PROVE  Sound(d)
<1>1. PICK r \in SubRow : r = sub[s]
    BY Given
<1>2. sub[s].status \in {"ACTIVE", "PAST_DUE"}
    BY DEF FailedDraft
<1>3. \/ d = Change(s, [sub[s] EXCEPT !.status = "CANCELLED"])
      \/ d = Reminded(Change(s, [r EXCEPT !.status = "PAST_DUE"]), r.failed + 1)
    BY <1>1 DEF FailedDraft
<1>4. CASE d = Reminded(Change(s, [r EXCEPT !.status = "PAST_DUE"]), r.failed + 1)
    <2>1. PICK row : row = [r EXCEPT !.status = "PAST_DUE"]
        OBVIOUS
    <2>2. row \in SubRow /\ row.status = "PAST_DUE" /\ row.collected = r.collected
        BY <2>1 DEF SubRow, SubStatus, Live
    <2>3. PICK n : n = r.failed + 1
        OBVIOUS
    <2>4. n \in Nat
        BY <2>3 DEF SubRow
    <2>5. d = Reminded(Change(s, row), n)
        BY <1>4, <2>1, <2>3
    <2>6. /\ IsDraft(d) /\ d.sub = s /\ d.backed = 0
          /\ Writes(d, "status") => d.set["status"] = row.status
          /\ Writes(d, "collected") => d.set["collected"] = row.collected
        BY <1>1, <2>2, <2>4, <2>5, RemindedProposes
    <2>7. row.collected <= confirmed[s] + d.backed
        BY <1>1, <2>2, <2>6, Given
    <2>8. QED
        BY <1>2, <2>2, <2>6, <2>7 DEF Sound, SoundDraft, Created, Beginnings
<1>5. QED
    BY <1>2, <1>3, <1>4, CancellingIsSound

\* Loading a phase keeps the invariant.
LEMMA LoadPhaseKeeps ==
    ASSUME HInv, LoadPhase
    PROVE  HInv'
<1>1. biller.phase \in 0..4 /\ Len(Phases) = 4
    BY DEF HInv, HostedTypeOK, Phases
<1>2. /\ DOMAIN biller' = {"phase", "todo"} /\ biller'.phase \in 0..4
      /\ \A d \in biller'.todo : Sound(d)
    <2>1. CASE biller.phase = 4
        BY <1>1, <2>1 DEF LoadPhase
    <2>2. CASE biller.phase # 4
        <3>1. PICK p \in 1..4 : p = biller.phase + 1
            BY <1>1, <2>2
        <3>2. biller' = [phase |-> p, todo |-> PhaseDrafts(p)]
            BY <1>1, <2>2, <3>1 DEF LoadPhase
        <3>3. \A d \in PhaseDrafts(p) : Sound(d)
            <4> SUFFICES ASSUME NEW d \in PhaseDrafts(p) PROVE Sound(d)
                OBVIOUS
            <4>1. CASE p = 1
                <5>1. Phases[p] = "trial"
                    BY <4>1 DEF Phases
                <5>2. QED
                    BY <5>1, TrialDraftIsSound DEF PhaseDrafts
            <4>2. CASE p = 2
                <5>1. Phases[p] = "due"
                    BY <4>2 DEF Phases
                <5>2. QED
                    BY <5>1, DueDraftIsSound DEF PhaseDrafts
            <4>3. CASE p = 3
                <5>1. Phases[p] = "failed"
                    BY <4>3 DEF Phases
                <5>2. QED
                    BY <5>1, FailedDraftIsSound DEF PhaseDrafts
            <4>4. CASE p = 4
                <5>1. Phases[p] = "cancel"
                    BY <4>4 DEF Phases
                <5>2. QED
                    BY <5>1, CancelDraftIsSound DEF PhaseDrafts
            <4>5. QED
                BY <4>1, <4>2, <4>3, <4>4
        <3>4. QED
            BY <3>2, <3>3
    <2>3. QED
        BY <2>1, <2>2
<1>3. UNCHANGED <<sub, payment, session, request, day, confirmed>>
    BY DEF LoadPhase
<1>4. \A d \in Drafts' : d \in Drafts \/ Sound(d)
    BY <1>2, <1>3 DEF Drafts
<1>5. \A d \in Drafts' : SoundDraft(d) /\ Created(d)
    BY <1>4 DEF Sound, HInv, Creations
<1>6. \A d \in Drafts' : SoundDraft(d)' /\ Created(d)'
    BY <1>3, <1>5 DEF SoundDraft, Created, IsDraft, Writes
<1>7. HostedTypeOK'
    BY <1>2, <1>3 DEF HInv, HostedTypeOK, Sound, SoundDraft, IsDraft
<1>8. Creations'
    BY <1>2, <1>3, <1>6 DEF HInv, Creations, Sound
<1>9. QED
    BY <1>2, <1>3, <1>6, <1>7, <1>8 DEF HInv, CyclesWereCollected

\* Paying a session keeps the invariant.
LEMMA PayKeeps ==
    ASSUME HInv, NEW i \in DOMAIN session, Pay(i)
    PROVE  HInv'
<1>1. session \in Seq(PaySession) /\ session[i] \in PaySession
    BY DEF HInv, HostedTypeOK
<1>2. /\ session' = [session EXCEPT ![i].status = "paid"]
      /\ UNCHANGED <<sub, payment, request, biller, day, confirmed>>
    BY DEF Pay
<1>3. PICK p : p = [session[i] EXCEPT !.status = "paid"]
    OBVIOUS
<1>4. p \in PaySession /\ p.sub = session[i].sub
    BY <1>1, <1>3 DEF PaySession
<1>5. session' = [session EXCEPT ![i] = p]
    BY <1>2, <1>3
<1>6. session' \in Seq(PaySession)
    BY <1>1, <1>4, <1>5, ExceptSeq
<1>7. /\ DOMAIN session' = DOMAIN session
      /\ \A j \in DOMAIN session : session'[j].sub = session[j].sub
    BY <1>1, <1>4, <1>5
<1>8. HostedTypeOK'
    BY <1>2, <1>6 DEF HInv, HostedTypeOK, IsDraft
<1>9. Drafts' = Drafts
    BY <1>2 DEF Drafts
<1>10. \A d \in Drafts' : SoundDraft(d)' /\ Created(d)'
    BY <1>2, <1>9 DEF HInv, Creations, SoundDraft, Created, IsDraft, Writes
<1>11. Creations'
    BY <1>2, <1>7, <1>10 DEF HInv, Creations
<1>12. QED
    BY <1>2, <1>8, <1>10, <1>11 DEF HInv, CyclesWereCollected

\* Time that passes keeps the invariant.
LEMMA DayKeeps ==
    ASSUME HInv, NextDay \/ UNCHANGED hostedVars
    PROVE  HInv'
<1>1. UNCHANGED <<sub, payment, session, request, biller, confirmed>>
    BY DEF NextDay, hostedVars
<1>2. day' \in 0..MaxDay
    BY HostedAssumption, SMTT(30) DEF HInv, HostedTypeOK, NextDay, hostedVars
<1>3. HostedTypeOK'
    BY <1>1, <1>2 DEF HInv, HostedTypeOK, IsDraft
<1>4. Drafts' = Drafts
    BY <1>1 DEF Drafts
<1>5. \A d \in Drafts' : SoundDraft(d)' /\ Created(d)'
    BY <1>1, <1>4 DEF HInv, Creations, SoundDraft, Created, IsDraft, Writes
<1>6. Creations'
    BY <1>1, <1>5 DEF HInv, Creations
<1>7. QED
    BY <1>1, <1>3, <1>5, <1>6 DEF HInv, CyclesWereCollected

(***************************************************************************)
(* The theorems.                                                           *)
(***************************************************************************)
\* The invariant holds at first.
LEMMA Initially == HostedInit => HInv
<1> SUFFICES ASSUME HostedInit PROVE HInv
    OBVIOUS
<1>1. Drafts = {}
    BY DEF Drafts, HostedInit
<1>2. HostedTypeOK
    <2>1. MaxDay \in Nat
        BY HostedAssumption
    <2>2. day \in 0..MaxDay
        BY <2>1 DEF HostedInit
    <2>3. DOMAIN sub = Subs /\ \A s \in Subs : sub[s] \in SubRow
        BY ColumnNames DEF HostedInit
    <2>4. payment \in Seq(SubPayment) /\ session \in Seq(PaySession)
        BY DEF HostedInit
    <2>5. /\ DOMAIN request = Requests
          /\ \A q \in Requests :
               request[q].used \in BOOLEAN /\ \A d \in request[q].todo : IsDraft(d)
        BY DEF HostedInit
    <2>6. biller.phase \in 0..4 /\ \A d \in biller.todo : IsDraft(d)
        BY DEF HostedInit
    <2>7. confirmed \in [Subs -> Nat]
        BY DEF HostedInit
    <2>8. QED
        BY <2>2, <2>3, <2>4, <2>5, <2>6, <2>7 DEF HostedTypeOK
<1>3. CyclesWereCollected
    BY DEF CyclesWereCollected, HostedInit, NoSub
<1>4. Creations
    BY <1>1 DEF Creations, HostedInit
<1>5. QED
    BY <1>1, <1>2, <1>3, <1>4 DEF HInv, HostedInit

\* Every step keeps the invariant.
LEMMA StepKeeps ==
    ASSUME HInv, [HostedNext]_hostedVars
    PROVE  HInv'
<1>1. ASSUME NEW q \in Requests, NEW s \in Subs, OnRow(q, s)
      PROVE  HInv'
    BY <1>1, CreateKeeps, SubscribeKeeps, StatusChangesKeep, TrialChangesKeep,
       CollectionsKeep, RenewKeeps DEF OnRow
<1>2. CASE BillingPass
    BY <1>2, LoadPhaseKeeps, CommitBilledKeeps DEF BillingPass
<1>3. QED
    BY <1>1, <1>2, CommitRequestKeeps, PayKeeps, ConfirmKeeps, DayKeeps DEF HostedNext

\* The inductive invariant is an invariant.
THEOREM HostedInvariant == HostedSpec => []HInv
<1>1. HInv /\ [HostedNext]_hostedVars => HInv'
    BY StepKeeps
<1>2. QED
    BY Initially, <1>1, PTL DEF HostedSpec

\* Tables, requests and the billing pass keep their types.
THEOREM HostedTypeCorrect == HostedSpec => []HostedTypeOK
<1>1. HInv => HostedTypeOK
    BY DEF HInv
<1>2. QED
    BY HostedInvariant, <1>1, PTL

\* No row counts more cycles than were confirmed or renewed by hand, however
\* handlers, confirmations and the billing pass overwrite each other.
THEOREM EveryCycleWasCollected == HostedSpec => []CyclesWereCollected
<1>1. HInv => CyclesWereCollected
    BY DEF HInv
<1>2. QED
    BY HostedInvariant, <1>1, PTL

\* What a commit writes begins a row only if there was none.
LEMMA CommitBeginsOnce ==
    ASSUME HInv, NEW d \in Drafts, Commit(d), NEW s \in Subs,
           NEW status \in Beginnings, sub[s].status \notin {"absent", status}
    PROVE  sub'[s].status # status
<1>1. CASE s # d.sub
    <2>1. sub'[s] = sub[s]
        BY <1>1, CommittedRow
    <2>2. QED
        BY <2>1
<1>2. CASE s = d.sub
    <2>1. Created(d)
        BY DEF HInv, Creations
    <2>2. sub'[s].status = IF Writes(d, "status") THEN d.set["status"] ELSE sub[s].status
        BY <1>2, CommittedRow
    <2>3. QED
        BY <1>2, <2>1, <2>2 DEF Created
<1>3. QED
    BY <1>1, <1>2

\* No row that exists enters its trial or awaits its first payment again,
\* although every handler writes a status it decided on earlier.
THEOREM TrialsAreGrantedOnce == HostedSpec => TrialIsGrantedOnce
<1>1. ASSUME HInv, [HostedNext]_hostedVars
      PROVE  [\A s \in Subs, status \in {"TRIALING", "PENDING_PAYMENT"} :
                sub[s].status \notin {"absent", status} => sub'[s].status # status]_hostedVars
    <2> SUFFICES ASSUME NEW s \in Subs, NEW status \in Beginnings,
                        sub[s].status \notin {"absent", status}
                 PROVE  sub'[s].status # status
        BY DEF Beginnings
    <2>1. CASE UNCHANGED sub
        BY <2>1
    <2>2. CASE \E d \in Drafts : Commit(d)
        BY <1>1, <2>2, CommitBeginsOnce
    <2>3. UNCHANGED sub \/ \E d \in Drafts : Commit(d)
        <3>1. ASSUME NEW q \in Requests, NEW x \in Subs, OnRow(q, x)
              PROVE  UNCHANGED sub
            BY <3>1 DEF OnRow, BeginCreate, BeginSubscribe, BeginCancel, BeginManageCancel,
               BeginPause, BeginResume, BeginManageResume, BeginExtendTrial, BeginEndTrial,
               BeginAuthorized, BeginRejected, BeginCollect, BeginPayNow, BeginRenew, Begin
        <3>2. ASSUME NEW q \in Requests, CommitRequest(q)
              PROVE  \E d \in Drafts : Commit(d)
            BY <3>2 DEF CommitRequest, Drafts
        <3>3. ASSUME NEW d \in biller.todo, CommitBilled(d)
              PROVE  \E e \in Drafts : Commit(e)
            BY <3>3 DEF CommitBilled, Drafts
        <3>4. ASSUME LoadPhase \/ NextDay \/ UNCHANGED hostedVars
                     \/ (\E i \in DOMAIN session : Pay(i))
                     \/ (\E q \in Requests, i \in DOMAIN session : BeginConfirm(q, i))
              PROVE  UNCHANGED sub
            BY <3>4 DEF LoadPhase, NextDay, hostedVars, Pay, BeginConfirm
        <3>5. QED
            BY <1>1, <3>1, <3>2, <3>3, <3>4 DEF HostedNext, BillingPass
    <2>4. QED
        BY <2>1, <2>2, <2>3
<1>2. QED
    BY HostedInvariant, <1>1, PTL DEF HostedSpec, TrialIsGrantedOnce
=============================================================================
