----------------------------- MODULE TeamSessions -----------------------------
(***************************************************************************)
(* How one team member signs in (app/routes/team_auth.py, app/core/        *)
(* sessions.py, app/core/team_auth.py) and what the team's administrators  *)
(* do to the account (app/routes/team.py).                                 *)
(*                                                                         *)
(* No request awaits anything, so a process works on one request at a      *)
(* time; but a request commits up to three times, and other processes run  *)
(* and a process may die in between.  A column is written if it differs    *)
(* from what was read, and a fresh token always does.  A password is the   *)
(* number of passwords before it.                                          *)
(***************************************************************************)
EXTENDS Integers, Sequences, FiniteSets, Rows

CONSTANTS
    Doors,         \* server processes
    Locks,         \* failures -> how long they lock the account
    SessionLife,   \* SESSION_EXPIRY_HOURS
    KeptFor,       \* how long an expired session is kept
    MaxCalls,      \* bound on requests
    MaxSeats,      \* bound on sessions
    MaxHour        \* bound on time

ASSUME TeamAssumption ==
    /\ DOMAIN Locks \subseteq Nat \ {0} /\ DOMAIN Locks # {}
    /\ \A t \in DOMAIN Locks : Locks[t] \in Nat \ {0}
    /\ {SessionLife, KeptFor, MaxCalls, MaxSeats, MaxHour} \subseteq Nat

VARIABLES
    account,   \* merchant_users: the member's row
    seat,      \* team_member_sessions, in the order of insertion
    door,      \* what each process is about to commit
    hour,      \* datetime.utcnow()
    calls,     \* requests so far
    misses,    \* history: wrong passwords since the counter was last reset
    changed    \* history: the password each process last reset and answered

teamVars == <<account, seat, door, hour, calls, misses, changed>>
-----------------------------------------------------------------------------
Unset == -1
Hours == 0..MaxHour
Moment == Int

Account == [active: BOOLEAN, password: Nat, failed: Nat,
            locked: Moment, reset: Moment]

\* password is history: the one the login checked; by: the process.
Seat == [until: Nat, state: {"live", "revoked", "deleted"}, password: Nat, by: Doors]

NoSet == [c \in {} |-> 0]
\* then: the steps left after this commit.  password: the one that was checked.
Free == [todo |-> <<>>, set |-> NoSet, revoke |-> {}, password |-> Unset]
Steps == {"write", "find", "revoke", "seat", "done"}

\* The account, its sessions and what the processes hold keep their types.
TeamTypeOK ==
    /\ account \in Account
    /\ seat \in Seq(Seat)
    /\ \A p \in Doors : /\ door[p].todo \in Seq(Steps)
                        /\ DOMAIN door[p].set \subseteq DOMAIN account
                        /\ door[p].revoke \subseteq DOMAIN seat
    /\ hour \in Hours /\ calls \in 0..MaxCalls

\* A member who accepted the invitation, see Team.
TeamInit ==
    /\ account = [active |-> TRUE, password |-> 1, failed |-> 0,
                  locked |-> Unset, reset |-> Unset]
    /\ seat = <<>>
    /\ door = [p \in Doors |-> Free]
    /\ hour = 0
    /\ calls = 0
    /\ misses = 0
    /\ changed = [p \in Doors |-> 0]
-----------------------------------------------------------------------------
(***************************************************************************)
(* Requests up to their first commit.                                      *)
(***************************************************************************)
Assigned(set) ==
    {c \in DOMAIN set : (c = "reset" /\ set[c] # Unset) \/ set[c] # account[c]}

Ask(p, todo, set, seats) ==
    /\ door[p] = Free
    /\ calls < MaxCalls
    /\ calls' = calls + 1
    /\ door' = [door EXCEPT ![p] =
         [Free EXCEPT !.todo = todo,
            !.set = [c \in Assigned(set) |-> set[c]],
            !.revoke = seats, !.password = account.password]]
    /\ UNCHANGED <<account, seat, hour, misses, changed>>

Call(p, todo, set) == Ask(p, todo, set, {})

Locked == account.locked # Unset /\ account.locked > hour

\* check_account_lockout and the guards before it
MayTry == account.active /\ ~Locked

Unlocked == [failed |-> 0, locked |-> Unset]

\* reset_failed_attempts, then create_session.
BeginLogin(p) == MayTry /\ Call(p, <<"write", "find", "revoke", "seat">>, Unlocked)

\* increment_failed_attempts: the largest threshold reached decides.
LockUntil(n) ==
    LET reached == {t \in DOMAIN Locks : t <= n} IN
    IF reached = {} THEN account.locked
    ELSE hour + Locks[CHOOSE t \in reached : \A u \in reached : u <= t]

BeginFailure(p) ==
    /\ MayTry
    /\ LET n == account.failed + 1
       IN Call(p, <<"write">>, [failed |-> n, locked |-> LockUntil(n)])

Valid(i) == seat[i].state = "live" /\ seat[i].until > hour

\* get_current_team_member: of the active, with a session that is in force.
Acting(i) == account.active /\ Valid(i)

BeginLogout(p, i) ==
    /\ Acting(i)
    /\ Ask(p, <<"revoke">>, NoSet, {i})

BeginForgot(p) ==
    /\ account.active
    /\ Call(p, <<"write">>, [reset |-> hour + 1])

NewPassword == [password |-> account.password + 1]

\* With the reset token; one that expired is cleared.
BeginReset(p) ==
    /\ account.reset # Unset
    /\ IF account.reset < hour THEN Call(p, <<"write">>, [reset |-> Unset])
       ELSE Call(p, <<"write", "find", "revoke", "done">>,
                 Overlay(NewPassword, Overlay([reset |-> Unset], Unlocked)))

\* change_password leaves the sessions as they are.
BeginChange(p, i) == Acting(i) /\ Call(p, <<"write">>, NewPassword)

\* reset_member_password, by an administrator
BeginMemberReset(p) ==
    Call(p, <<"write", "find", "revoke", "done">>, Overlay(NewPassword, Unlocked))

BeginRevokeAll(p) == Call(p, <<"find", "revoke">>, NoSet)

\* update_team_member, remove_team_member, and an invitation of a member who
\* was removed.
BeginActivate(p, on) == Call(p, <<"write">>, [active |-> on])

\* create_team_member of one who was removed: with a new password, and the
\* sessions stay.
BeginReinstate(p) ==
    /\ ~account.active
    /\ Call(p, <<"write">>, Overlay(NewPassword, [active |-> TRUE]))
-----------------------------------------------------------------------------
(***************************************************************************)
(* Their steps.                                                            *)
(***************************************************************************)
Onward(p) == [door EXCEPT ![p] =
    IF Len(@.todo) = 1 THEN Free ELSE [@ EXCEPT !.todo = Tail(door[p].todo)]]
Doing(p, step) == door[p].todo # <<>> /\ Head(door[p].todo) = step

\* A new password counts from the passwords before it, in commit order.
Written(set) ==
    LET new == Overlay(set, account) IN
    IF "password" \in DOMAIN set THEN [new EXCEPT !.password = account.password + 1]
    ELSE new

CommitAccount(p) ==
    /\ Doing(p, "write")
    /\ account' = Written(door[p].set)
    /\ misses' = IF "failed" \notin DOMAIN door[p].set THEN misses
                 ELSE IF door[p].set.failed = 0 \/ "locked" \in DOMAIN door[p].set THEN 0
                 ELSE misses + 1
    /\ door' = IF Len(door[p].todo) = 1 THEN [door EXCEPT ![p] = Free]
               ELSE [door EXCEPT ![p].todo = Tail(@), ![p].set = NoSet,
                       ![p].password = IF "password" \in DOMAIN door[p].set
                                       THEN account.password + 1 ELSE @]
    /\ UNCHANGED <<seat, hour, calls, changed>>

Unrevoked == {i \in DOMAIN seat : seat[i].state = "live"}

\* Mutant: sessions that expired are not looked for.
FindInForce(p) ==
    /\ Doing(p, "find")
    /\ door' = [door EXCEPT ![p].todo = Tail(@), ![p].revoke = {i \in Unrevoked : Valid(i)}]
    /\ UNCHANGED <<account, seat, hour, calls, misses, changed>>

FindSeats(p) ==
    /\ Doing(p, "find")
    /\ door' = [door EXCEPT ![p].todo = Tail(@), ![p].revoke = Unrevoked]
    /\ UNCHANGED <<account, seat, hour, calls, misses, changed>>

\* A row that was deleted meanwhile fails the whole commit (StaleDataError).
RevokeSeats(p) ==
    /\ Doing(p, "revoke")
    /\ IF \E i \in door[p].revoke : seat[i].state = "deleted"
       THEN door' = [door EXCEPT ![p] = Free] /\ UNCHANGED seat
       ELSE /\ seat' = [i \in DOMAIN seat |->
                 IF i \in door[p].revoke THEN [seat[i] EXCEPT !.state = "revoked"] ELSE seat[i]]
            /\ door' = Onward(p)
    /\ UNCHANGED <<account, hour, calls, misses, changed>>

TakeSeat(p) ==
    /\ Doing(p, "seat")
    /\ Len(seat) < MaxSeats
    /\ seat' = Append(seat, [until |-> hour + SessionLife, state |-> "live",
                             password |-> door[p].password, by |-> p])
    /\ door' = Onward(p)
    /\ UNCHANGED <<account, hour, calls, misses, changed>>

AnswerReset(p) ==
    /\ Doing(p, "done")
    /\ changed' = [changed EXCEPT ![p] = door[p].password]
    /\ door' = Onward(p)
    /\ UNCHANGED <<account, seat, hour, calls, misses>>

\* cleanup_expired_sessions, a background task of every process
Cleanup ==
    /\ \E i \in DOMAIN seat : seat[i].state # "deleted" /\ seat[i].until + KeptFor < hour
    /\ seat' = [i \in DOMAIN seat |->
         IF seat[i].until + KeptFor < hour THEN [seat[i] EXCEPT !.state = "deleted"] ELSE seat[i]]
    /\ UNCHANGED <<account, door, hour, calls, misses, changed>>

\* The process dies between two commits.
Die(p) ==
    /\ door[p] # Free
    /\ door' = [door EXCEPT ![p] = Free]
    /\ UNCHANGED <<account, seat, hour, calls, misses, changed>>

PassHour ==
    /\ hour < MaxHour
    /\ hour' = hour + 1
    /\ UNCHANGED <<account, seat, door, calls, misses, changed>>

DoorStep(p) ==
    \/ BeginLogin(p) \/ BeginFailure(p) \/ BeginForgot(p) \/ BeginReset(p)
    \/ BeginMemberReset(p) \/ BeginRevokeAll(p) \/ BeginReinstate(p)
    \/ \E on \in BOOLEAN : BeginActivate(p, on)
    \/ \E i \in DOMAIN seat : BeginLogout(p, i) \/ BeginChange(p, i)
    \/ CommitAccount(p)
    \/ FindSeats(p) \/ RevokeSeats(p) \/ TakeSeat(p) \/ AnswerReset(p) \/ Die(p)

TeamNext == (\E p \in Doors : DoorStep(p)) \/ Cleanup \/ PassHour

TeamSpec == TeamInit /\ [][TeamNext]_teamVars
-----------------------------------------------------------------------------
(***************************************************************************)
(* Properties.                                                             *)
(***************************************************************************)

\* "Invalidate old sessions on new login": logins of several processes that
\* overlap leave a session each, but one process never leaves two.
OneSeatPerProcess ==
    \A i, j \in Unrevoked : i # j => seat[i].by # seat[j].by

\* "Revoke all existing sessions": once a process answered that a password was
\* reset, no session it gave for an earlier one is left, although the password
\* and the sessions are two commits and the second may fail.
ResetEndsSeats ==
    \A i \in Unrevoked : seat[i].password >= changed[seat[i].by]

\* Failures that overlap are lost: with two processes, one may put back what
\* the other counted, one lower each time, but no further than this.
FirstLock == CHOOSE t \in DOMAIN Locks : \A u \in DOMAIN Locks : t <= u
LockComesInTime == misses <= ((FirstLock - 1) * (FirstLock + 2)) \div 2

\* Logins, resets and failed attempts of several processes.  (team_auth.py)
SeatsHold == OneSeatPerProcess /\ ResetEndsSeats /\ LockComesInTime
=============================================================================
