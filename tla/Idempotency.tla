----------------------------- MODULE Idempotency -----------------------------
(***************************************************************************)
(* One idempotency key of a merchant (app/core/idempotency.py): the        *)
(* middleware, and the pair check_idempotency_key and                      *)
(* save_idempotency_response that a handler may call instead.  Neither is  *)
(* installed; the model runs each of them as it is meant to be used, by    *)
(* requests of several server processes.  The middleware waits for the     *)
(* body between its look at the table and its insert.                      *)
(***************************************************************************)
EXTENDS Integers, FiniteSets

CONSTANTS
    Askers,        \* requests that carry the key; each may be sent again
    MaxKeyRows     \* bound on the rows inserted

ASSUME KeyAssumption == IsFiniteSet(Askers) /\ MaxKeyRows \in Nat

VARIABLES
    way,       \* "middleware" or "function"
    keyRow,    \* idempotency_keys: the row of the key
    asking,    \* what each request does
    keyRows,   \* rows inserted so far
    answered,  \* history: answers with a body since the key last expired
    vanished   \* history: a request was cut off, by a crash or its client

keyVars == <<way, keyRow, asking, keyRows, answered, vanished>>
-----------------------------------------------------------------------------
\* id 0: there is no row.  "processing": is_processing; "completed":
\* completed; "failed": neither.  body: the stored body is not empty.
KeyRow == [id: 0..MaxKeyRows, state: {"processing", "completed", "failed"},
           body: BOOLEAN, stale: BOOLEAN]
NoRow == [id |-> 0, state |-> "failed", body |-> FALSE, stale |-> FALSE]

\* own: the row the request inserted or is about to delete; 0 for none.
Asker == [at: {"idle", "unseen", "drop", "handler", "save", "fail"}, own: 0..MaxKeyRows,
          body: BOOLEAN]
Quiet == [at |-> "idle", own |-> 0, body |-> FALSE]

\* The row, the requests and the histories keep their types.
KeyTypeOK ==
    /\ way \in {"middleware", "function"}
    /\ keyRow \in KeyRow /\ (keyRow.id = 0 => keyRow = NoRow) /\ keyRow.id <= keyRows
    /\ asking \in [Askers -> Asker]
    /\ keyRows \in 0..MaxKeyRows /\ answered \in 0..2 /\ vanished \in BOOLEAN

KeyInit ==
    /\ way \in {"middleware", "function"}
    /\ keyRow = NoRow
    /\ asking = [r \in Askers |-> Quiet]
    /\ keyRows = 0 /\ answered = 0 /\ vanished = FALSE
-----------------------------------------------------------------------------
Turn(r, at, own) == asking' = [asking EXCEPT ![r].at = at, ![r].own = own]

\* The first query.  A key in processing is a 409, a completed one with a
\* body is answered from the row: neither changes anything.
Look(r) ==
    /\ asking[r] = Quiet
    /\ \/ keyRow.id = 0 /\ Turn(r, "unseen", 0)
       \/ keyRow.id > 0 /\ keyRow.stale /\ Turn(r, "drop", keyRow.id)
       \/ /\ keyRow.id > 0 /\ ~keyRow.stale
          /\ keyRow.state = "failed" \/ (keyRow.state = "completed" /\ ~keyRow.body)
          /\ IF way = "middleware" THEN Turn(r, "drop", keyRow.id) ELSE Turn(r, "handler", 0)
    /\ UNCHANGED <<way, keyRow, keyRows, answered, vanished>>

\* _handle_existing_key deletes the row by its id and returns None, which the
\* middleware passes on as its response: the request ends in an error.
\* check_idempotency_key returns None as well, and the handler runs.
Drop(r) ==
    /\ asking[r].at = "drop"
    /\ keyRow' = IF keyRow.id = asking[r].own THEN NoRow ELSE keyRow
    /\ IF way = "middleware" THEN Turn(r, "idle", 0) ELSE Turn(r, "handler", 0)
    /\ UNCHANGED <<way, keyRows, answered, vanished>>

Inserted == [id |-> keyRows + 1, state |-> "processing", body |-> FALSE, stale |-> FALSE]

\* The column is unique: the second insert of a key raises.
Insert(r) ==
    /\ asking[r].at = "unseen"
    /\ \/ keyRow.id > 0 /\ Turn(r, "idle", 0) /\ UNCHANGED <<keyRow, keyRows>>
       \/ /\ keyRow.id = 0 /\ keyRows < MaxKeyRows
          /\ keyRow' = Inserted /\ keyRows' = keyRows + 1 /\ Turn(r, "handler", keyRows + 1)
    /\ UNCHANGED <<way, answered, vanished>>

\* The handler answers, with a body that may be null or empty, or raises.
Handle(r) ==
    /\ asking[r].at = "handler"
    /\ \/ \E b \in BOOLEAN :
            /\ asking' = [asking EXCEPT ![r].at = "save", ![r].body = b]
            /\ answered' = IF b /\ answered < 2 THEN answered + 1 ELSE answered
       \/ /\ Turn(r, IF way = "middleware" THEN "fail" ELSE "idle",
                     IF way = "middleware" THEN asking[r].own ELSE 0)
          /\ UNCHANGED answered
    /\ UNCHANGED <<way, keyRow, keyRows, vanished>>

\* The middleware updates its own row, the function whatever row there is.
Mine(r) == keyRow.id > 0 /\ (way = "function" \/ keyRow.id = asking[r].own)

Save(r) ==
    /\ asking[r].at = "save"
    /\ keyRow' = IF Mine(r) THEN [keyRow EXCEPT !.state = "completed", !.body = asking[r].body]
                 ELSE keyRow
    /\ asking' = [asking EXCEPT ![r] = Quiet]
    /\ UNCHANGED <<way, keyRows, answered, vanished>>

\* The except branch; other requests may try again.
Fail(r) ==
    /\ asking[r].at = "fail"
    /\ keyRow' = IF Mine(r) THEN [keyRow EXCEPT !.state = "failed"] ELSE keyRow
    /\ asking' = [asking EXCEPT ![r] = Quiet]
    /\ UNCHANGED <<way, keyRows, answered, vanished>>

\* A crash, or a cancellation, which except Exception does not catch.
Vanish(r) ==
    /\ asking[r] # Quiet
    /\ asking' = [asking EXCEPT ![r] = Quiet]
    /\ vanished' = TRUE
    /\ UNCHANGED <<way, keyRow, keyRows, answered>>

\* KEY_EXPIRY_HOURS have passed.  A request is taken to last less than that.
Expire ==
    /\ keyRow.id > 0 /\ ~keyRow.stale
    /\ \A r \in Askers : asking[r].at \notin {"handler", "save", "fail"}
    /\ keyRow' = [keyRow EXCEPT !.stale = TRUE]
    /\ answered' = 0
    /\ UNCHANGED <<way, asking, keyRows, vanished>>

AskerStep(r) ==
    Look(r) \/ Drop(r) \/ Insert(r) \/ Handle(r) \/ Save(r) \/ Fail(r) \/ Vanish(r)

KeyNext == Expire \/ \E r \in Askers : AskerStep(r)
-----------------------------------------------------------------------------
\* Whatever requests race, fail and are cut off, the handler gives at most one
\* answer with a body until the key expires.  The functions do not promise
\* it: after an expiry they run the handler without a row.
\* (idempotency.py: IdempotencyMiddleware)
AnsweredOnce == way = "middleware" => answered <= 1

\* A key that answers 409 has a request at work on it, unless that request was
\* cut off: then it stays so until it expires.  (idempotency.py: dispatch)
BusyKeyHasWorker ==
    way = "middleware" /\ keyRow.id > 0 /\ keyRow.state = "processing"
      => vanished \/ \E r \in Askers : asking[r].own = keyRow.id
=============================================================================
