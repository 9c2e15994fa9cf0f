--------------------------------- MODULE Team ---------------------------------
(***************************************************************************)
(* The members of one merchant's team: invitations, roles, activation      *)
(* (app/routes/team.py) and permissions (app/core/permissions.py,          *)
(* app/routes/permissions.py).  How a member signs in is TeamSessions.     *)
(*                                                                         *)
(* A handler reads, decides and commits once; a draft is the columns that  *)
(* differ from what it read (a fresh invitation token always does).  A     *)
(* custom permission is a row of its own under a unique key, written       *)
(* without looking at its value: one step.                                 *)
(***************************************************************************)
EXTENDS FiniteSets, Integers, Rows

CONSTANTS
    Managers,    \* server processes
    Emails,      \* (merchant_id, email) is unique
    MaxAsks      \* bound on requests

ASSUME MemberAssumption == MaxAsks \in Nat

VARIABLES
    member,   \* merchant_users: email -> row
    custom,   \* team_member_permissions: email -> permission -> decision
    desk,     \* the draft of each process
    accepts,  \* history: how often each process accepted for each email
    asks      \* requests so far

memberVars == <<member, custom, desk, accepts, asks>>
-----------------------------------------------------------------------------
\* An excerpt of the roles: all, a category and a single permission of it.
Permissions == {"payments.view", "withdrawals.view"}
Categories == [c \in Permissions |->
    IF c = "payments.view" THEN "payments.*" ELSE "withdrawals.*"]
RolePermissions ==
    [owner  |-> {"*"},
     admin  |-> {"payments.*", "withdrawals.view"},
     viewer |-> {"payments.view", "withdrawals.view"}]
Roles == DOMAIN RolePermissions

Decisions == {"none", "granted", "revoked"}

\* invite: the token, if it is not NULL, and whether it expired.
MemberRow == [exists: BOOLEAN, active: BOOLEAN, role: Roles,
              password: BOOLEAN, invite: {"none", "sent", "expired"}]
NoMember == [exists |-> FALSE, active |-> FALSE, role |-> "viewer",
             password |-> FALSE, invite |-> "none"]

NothingSet == [c \in {} |-> 0]
EmptyDesk == [email |-> {}, set |-> NothingSet, accept |-> FALSE]

\* Rows, decisions and drafts keep their types.
MemberTypeOK ==
    /\ member \in [Emails -> MemberRow]
    /\ custom \in [Emails -> [Permissions -> Decisions]]
    /\ \A p \in Managers : /\ desk[p].email \subseteq Emails
                          /\ DOMAIN desk[p].set \subseteq DOMAIN NoMember
    /\ asks \in 0..MaxAsks

MemberInit ==
    /\ member = [e \in Emails |-> NoMember]
    /\ custom = [e \in Emails |-> [c \in Permissions |-> "none"]]
    /\ desk = [p \in Managers |-> EmptyDesk]
    /\ accepts = [p \in Managers |-> [e \in Emails |-> 0]]
    /\ asks = 0
-----------------------------------------------------------------------------
Assignments(e, set) ==
    {c \in DOMAIN set : (c = "invite" /\ set[c] = "sent") \/ set[c] # member[e][c]}

Request(p, e, set, accept) ==
    /\ desk[p] = EmptyDesk
    /\ asks < MaxAsks
    /\ asks' = asks + 1
    /\ desk' = [desk EXCEPT ![p] =
         [email |-> {e}, accept |-> accept,
          set |-> [c \in Assignments(e, set) |-> set[c]]]]
    /\ UNCHANGED <<member, custom, accepts>>

Appointed(role) == [exists |-> TRUE, active |-> TRUE, role |-> role]

\* invite_team_member: only a new row is refused the owner's role.
BeginInvite(p, e, role) ==
    /\ ~member[e].active
    /\ member[e].exists \/ role # "owner"
    /\ Request(p, e, Overlay(Appointed(role), [invite |-> "sent"]), FALSE)

\* create_team_member: always with a password.
BeginCreateMember(p, e, role) ==
    /\ ~member[e].active
    /\ role # "owner"
    /\ Request(p, e, Overlay(Appointed(role), [password |-> TRUE]), FALSE)

MayChange(e) == member[e].exists /\ member[e].role # "owner"

BeginUpdateMember(p, e, role, active) ==
    /\ MayChange(e) /\ role # "owner"
    /\ Request(p, e, [role |-> role, active |-> active], FALSE)

BeginRemove(p, e) ==
    /\ MayChange(e)
    /\ Request(p, e, [active |-> FALSE], FALSE)

BeginResend(p, e) ==
    /\ member[e].exists /\ ~member[e].password
    /\ Request(p, e, [invite |-> "sent"], FALSE)

\* Mutant: the password is not looked at.
AcceptAgain(p, e) ==
    /\ member[e].invite = "sent"
    /\ Request(p, e, [password |-> TRUE, invite |-> "none"], TRUE)

\* A member who has a password, from before, can not accept.
BeginAccept(p, e) ==
    /\ member[e].invite = "sent" /\ ~member[e].password
    /\ Request(p, e, [password |-> TRUE, invite |-> "none"], TRUE)

\* A second insert of one email violates uq_merchant_user_email.
Violates(p, e) == "exists" \in DOMAIN desk[p].set /\ member[e].exists

CommitMember(p) ==
    \E e \in desk[p].email :
        /\ IF Violates(p, e) THEN UNCHANGED <<member, accepts>>
           ELSE /\ member' = [member EXCEPT ![e] = Overlay(desk[p].set, @)]
                /\ accepts' = IF desk[p].accept
                     THEN [accepts EXCEPT ![p][e] = @ + 1] ELSE accepts
        /\ desk' = [desk EXCEPT ![p] = EmptyDesk]
        /\ UNCHANGED <<custom, asks>>

InviteExpires(e) ==
    /\ member[e].invite = "sent"
    /\ member' = [member EXCEPT ![e].invite = "expired"]
    /\ UNCHANGED <<custom, desk, accepts, asks>>
-----------------------------------------------------------------------------
(***************************************************************************)
(* Permissions.                                                            *)
(***************************************************************************)
Decided(e, d) == {c \in Permissions : custom[e][c] = d}

\* get_effective_permissions
Effective(e) ==
    LET role == RolePermissions[member[e].role] IN
    IF "*" \in role THEN {"*"}
    ELSE (role \cup Decided(e, "granted")) \ Decided(e, "revoked")

\* has_permission
Has(permissions, c) == permissions \cap {"*", c, Categories[c]} # {}

\* update_member_permissions, grant_permission, revoke_permission
Decide(e, c, d) ==
    /\ MayChange(e)
    /\ asks < MaxAsks /\ asks' = asks + 1
    /\ custom' = [custom EXCEPT ![e][c] = d]
    /\ UNCHANGED <<member, desk, accepts>>

ManagerStep(p) ==
    \/ \E e \in Emails :
         \/ BeginRemove(p, e) \/ BeginResend(p, e) \/ BeginAccept(p, e)
         \/ \E role \in Roles :
              \/ BeginInvite(p, e, role) \/ BeginCreateMember(p, e, role)
              \/ \E active \in BOOLEAN : BeginUpdateMember(p, e, role, active)
    \/ CommitMember(p)

MemberNext ==
    \/ \E p \in Managers : ManagerStep(p)
    \/ \E e \in Emails :
         \/ InviteExpires(e)
         \/ \E c \in Permissions, d \in {"granted", "revoked"} : Decide(e, c, d)

MemberSpec == MemberInit /\ [][MemberNext]_memberVars
-----------------------------------------------------------------------------
(***************************************************************************)
(* Properties.                                                             *)
(***************************************************************************)

\* "Invitation has already been accepted": requests of several processes may
\* each set a password, but no process accepts twice for one member, whatever
\* is sent again, removed, reactivated or created in between.
AcceptedOncePerProcess ==
    \A p \in Managers, e \in Emails : accepts[p][e] <= 1

\* What was decided for a member outlasts changes of role and activation: a
\* granted permission is held; a revoked one is not, unless the role has all
\* of its category, which a decision does not reach.
DecisionsHold ==
    \A e \in Emails, c \in Permissions :
        /\ custom[e][c] = "granted" => Has(Effective(e), c)
        /\ custom[e][c] = "revoked" /\ Has(Effective(e), c) =>
             RolePermissions[member[e].role] \cap {"*", Categories[c]} # {}

\* Invitations and decisions on permissions.  (routes/team.py, core/permissions.py)
MembersHold == AcceptedOncePerProcess /\ DecisionsHold
=============================================================================
