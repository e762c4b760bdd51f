----------------------------- MODULE AuthSessions -----------------------------
(***************************************************************************)
(* Accounts and refresh sessions (internal/core/auth).  Every operation on *)
(* an account reads the whole row, changes some of it and writes the whole *)
(* row back; it revokes sessions in a separate statement, and ignores the  *)
(* error of that.  Requests run concurrently, so each statement is a step. *)
(* The local recovery command is one more process on the same database.    *)
(***************************************************************************)
EXTENDS Naturals, Sequences

CONSTANTS Procs, Users, None,
          MaxSessions, MaxOps, MaxFaults     \* bounds

VARIABLES users,      \* table users: row or None
          sessions,   \* table sessions: live rows by id
          proc,       \* the operations in progress
          access,     \* JWT access tokens in use: <<user, role>> pairs
          want,       \* ghost: the account as the completed edits left it
          spent,      \* ghost: how often a refresh token was exchanged
          mixed,      \* ghost: accounts operated on by two requests at once
          stale,      \* ghost: an administrator acted after losing the role, or two at once
          pwds, ops, faults

vars == <<users, sessions, proc, access, want, spent, mixed, stale, pwds, ops, faults>>

Roles == {"admin", "operator"}
Row(p, r, a) == [password |-> p, role |-> r, active |-> a]
Ids   == 1..MaxSessions
Used  == {i \in Ids : spent[i] # None}
Idle  == [op |-> None, todo |-> <<>>]

-----------------------------------------------------------------------------
(* The statements of each operation on the database, in order *)

Login                  == <<"read", "session", "write">>
Refresh                == <<"find", "rotate", "session">>
UpdateUser             == <<"read", "write">>
\* Mutant: a new password leaves the sessions opened with the old one.
SetPasswordOnly        == <<"read", "write">>
SetPassword            == <<"read", "write", "revoke">>
DeleteUser             == <<"read", "remove">>
CreateUser             == <<"insert">>
SeedAdminIfEmpty       == <<"count", "insert">>
ResetGeneratedPassword == <<"read", "revoke", "write">>

\* Mutant: blocking an account leaves its sessions.
KeepSessions(active) == <<"read", "write">>

SetUserActive(active) == IF active THEN <<"read", "write">> ELSE <<"read", "write", "revoke">>

Statements(op) ==
    CASE op = "login"    -> Login
      [] op = "refresh"  -> Refresh
      [] op = "update"   -> UpdateUser
      [] op = "password" -> SetPassword
      [] op = "block"    -> SetUserActive(FALSE)
      [] op = "unblock"  -> SetUserActive(TRUE)
      [] op = "delete"   -> DeleteUser
      [] op = "create"   -> CreateUser
      [] op = "seed"     -> SeedAdminIfEmpty
      [] op = "recover"  -> ResetGeneratedPassword

-----------------------------------------------------------------------------
(* Who may ask for what *)

Public == {"login", "refresh", "recover", "seed"}
Manage == {"create", "update", "password", "block", "unblock", "delete"}

HasPermission(role, op) == op \in Manage => role = "admin"

\* Mutant: administrators may demote or block themselves.
AllowedOnSelf(op, role) == op # "delete"

\* What an administrator may do to their own account.
SelfAllowed(op, role) == op \notin {"block", "delete"} /\ (op = "update" => role = "admin")

\* The bearer token is believed until it expires; the row is not read again.
Authorized(actor, op) == \E t \in access : t[1] = actor /\ HasPermission(t[2], op)

IsAdmin(u) == users[u] # None /\ users[u].role = "admin" /\ users[u].active

Active(u) == {q \in Procs : proc[q].op # None /\ proc[q].user = u}
Edits     == Manage \cup {"recover"}

\* A request starts; what it was told and by whom is fixed here.
Begin(p, op, u, actor, role) ==
    /\ proc[p] = Idle /\ ops < MaxOps
    /\ op \in Public => actor = u
    /\ op \notin {"create", "update"} => role = "admin"
    /\ op \in Public \/ Authorized(actor, op)
    /\ op \in Manage /\ actor = u => SelfAllowed(op, role)
    /\ proc' = [proc EXCEPT ![p] = [op |-> op, user |-> u, actor |-> actor, role |-> role,
                                    todo |-> Statements(op), row |-> None, id |-> None, pwd |-> None]]
    /\ ops' = ops + 1
    /\ mixed' = IF Active(u) # {} THEN mixed \cup {u} ELSE mixed
    /\ stale' = (stale \/ (op \in Manage /\
                   (~IsAdmin(actor) \/ \E q \in Procs : proc[q].op \in Edits)))
    /\ UNCHANGED <<users, sessions, access, want, spent, pwds, faults>>

At(p, statement) == proc[p].op # None /\ Head(proc[p].todo) = statement

End(p) == proc' = [proc EXCEPT ![p] = Idle]

\* The statement succeeded; what it found goes along.
Advance(p, o) ==
    proc' = [proc EXCEPT ![p] = IF Len(o.todo) = 1 THEN Idle ELSE [o EXCEPT !.todo = Tail(@)]]

-----------------------------------------------------------------------------
(* Tables *)

SessionsOf(u) == {i \in DOMAIN sessions : sessions[i].user = u}
Without(S)    == [i \in DOMAIN sessions \ S |-> sessions[i]]

\* sessions.Create: a foreign key to the user, a fresh token.
CanStart(u) == users[u] # None /\ Used # Ids
Started(u, pwd, old) ==
    LET i == CHOOSE j \in Ids \ Used : TRUE IN
    /\ sessions' = [j \in DOMAIN sessions \cup {i} |->
                      IF j = i THEN [user |-> u, password |-> pwd, expired |-> FALSE] ELSE sessions[j]]
    /\ spent' = [j \in Ids |-> IF j = i THEN 0 ELSE IF j = old THEN spent[j] + 1 ELSE spent[j]]

\* The access token carries the role of the row that was read.
Generate(u, role) == access' = access \cup {<<u, role>>}

\* users.Update writes every column of the copy.
Update(u, row) == /\ users[u] # None
                  /\ users' = [users EXCEPT ![u] = row]

\* Mutant: the rest of the row is filled in with defaults.
ChangedAfresh(o, row, new) ==
    CASE o.op = "update"   -> [row EXCEPT !.role = o.role]
      [] o.op = "password" -> Row(new, "operator", TRUE)
      [] o.op = "block"    -> [row EXCEPT !.active = FALSE]
      [] o.op = "unblock"  -> [row EXCEPT !.active = TRUE]
      [] o.op = "recover"  -> [row EXCEPT !.password = new, !.active = TRUE]
      [] OTHER             -> row

\* What an operation makes of the row it read; Login only stamps last_login.
Changed(o, row, new) ==
    CASE o.op = "update"   -> [row EXCEPT !.role = o.role]
      [] o.op = "password" -> [row EXCEPT !.password = new]
      [] o.op = "block"    -> [row EXCEPT !.active = FALSE]
      [] o.op = "unblock"  -> [row EXCEPT !.active = TRUE]
      [] o.op = "recover"  -> [row EXCEPT !.password = new, !.active = TRUE]
      [] OTHER             -> row

\* The last value written on purpose: a ghost that Login does not touch.
Meant(o, u, new) ==
    want' = [want EXCEPT ![u] =
        Row(IF o.op \in {"password", "recover"} THEN new ELSE @.password,
            IF o.op = "update" THEN o.role ELSE @.role,
            IF o.op \in {"block", "unblock", "recover"} THEN o.op # "block" ELSE @.active)]

-----------------------------------------------------------------------------
(* The steps of the operations on an account *)

Read(p) ==
    LET o == proc[p]
        u == users[o.user] IN
    /\ At(p, "read")
    /\ IF u = None \/ (o.op = "login" /\ u # None /\ ~u.active)
       THEN End(p)
       ELSE Advance(p, [o EXCEPT !.row = u])
    /\ UNCHANGED <<users, sessions, access, want, spent, mixed, stale, pwds, ops, faults>>

\* Login and Refresh: the access token and the session come from the rows read.
OpenSession(p) ==
    LET o == proc[p] IN
    /\ At(p, "session")
    /\ IF CanStart(o.user)
       THEN /\ Started(o.user, IF o.op = "login" THEN o.row.password ELSE o.pwd, o.id)
            /\ Generate(o.user, o.row.role)
            /\ Advance(p, o)
       ELSE End(p) /\ UNCHANGED <<sessions, spent, access>>
    /\ UNCHANGED <<users, want, mixed, stale, pwds, ops, faults>>

Write(p) ==
    LET o   == proc[p]
        new == pwds + 1 IN
    /\ At(p, "write")
    /\ IF users[o.user] = None THEN End(p) /\ UNCHANGED <<users, want, pwds>>
       ELSE /\ Update(o.user, Changed(o, o.row, new))
            /\ Meant(o, o.user, new)
            /\ pwds' = IF o.op \in {"password", "recover"} THEN new ELSE pwds
            /\ Advance(p, o)
    /\ UNCHANGED <<sessions, access, spent, mixed, stale, ops, faults>>

\* sessions.DeleteByUserID: its error is ignored, except by the recovery command,
\* which has not written the row yet and stops.
Revoke(p) ==
    /\ At(p, "revoke")
    /\ sessions' = Without(SessionsOf(proc[p].user))
    /\ Advance(p, proc[p])
    /\ UNCHANGED <<users, access, want, spent, mixed, stale, pwds, ops, faults>>

RevokeFails(p) ==
    LET o == proc[p] IN
    /\ At(p, "revoke") /\ faults < MaxFaults
    /\ faults' = faults + 1
    /\ mixed' = IF o.op = "recover" THEN mixed ELSE mixed \cup {o.user}
    /\ End(p)
    /\ UNCHANGED <<users, sessions, access, want, spent, stale, pwds, ops>>

\* users.Delete; the sessions go with the row.
Remove(p) ==
    LET u == proc[p].user IN
    /\ At(p, "remove")
    /\ users' = [users EXCEPT ![u] = None]
    /\ sessions' = Without(SessionsOf(u))
    /\ End(p)
    /\ UNCHANGED <<access, want, spent, mixed, stale, pwds, ops, faults>>

Count(p) ==
    /\ At(p, "count")
    /\ IF \A u \in Users : users[u] = None THEN Advance(p, proc[p]) ELSE End(p)
    /\ UNCHANGED <<users, sessions, access, want, spent, mixed, stale, pwds, ops, faults>>

\* users.Create: the unique index on the name refuses a second one.
Insert(p) ==
    LET o == proc[p]
        row == Row(pwds + 1, IF o.op = "seed" THEN "admin" ELSE o.role, TRUE) IN
    /\ At(p, "insert")
    /\ IF users[o.user] = None
       THEN /\ users' = [users EXCEPT ![o.user] = row]
            /\ want' = [want EXCEPT ![o.user] = row]
            /\ pwds' = pwds + 1
       ELSE UNCHANGED <<users, want, pwds>>
    /\ End(p)
    /\ UNCHANGED <<sessions, access, spent, mixed, stale, ops, faults>>

-----------------------------------------------------------------------------
(* Refresh: find the session and its user, delete the session *)

FindByTokenHash(p) ==
    LET o == proc[p] IN
    /\ At(p, "find")
    /\ \/ /\ SessionsOf(o.user) = {} /\ End(p) /\ UNCHANGED sessions
       \/ \E i \in SessionsOf(o.user) :
            IF sessions[i].expired
            THEN End(p) /\ sessions' = Without({i})
            ELSE /\ Advance(p, [o EXCEPT !.id = i, !.row = users[o.user], !.pwd = sessions[i].password])
                 /\ UNCHANGED sessions
    /\ UNCHANGED <<users, access, want, spent, mixed, stale, pwds, ops, faults>>

\* Mutant: the old session is kept.
DropNone(i) == UNCHANGED sessions

DeleteByID(i) == sessions' = Without({i})

Rotate(p) ==
    /\ At(p, "rotate")
    /\ DeleteByID(proc[p].id)
    /\ Advance(p, proc[p])
    /\ UNCHANGED <<users, access, want, spent, mixed, stale, pwds, ops, faults>>

-----------------------------------------------------------------------------

\* Logout ends every session of the user, in one statement.
Logout(u) ==
    /\ \E t \in access : t[1] = u
    /\ SessionsOf(u) # {}
    /\ sessions' = Without(SessionsOf(u))
    /\ UNCHANGED <<users, proc, access, want, spent, mixed, stale, pwds, ops, faults>>

Expire == \E i \in DOMAIN sessions :
    /\ ~sessions[i].expired
    /\ sessions' = [sessions EXCEPT ![i].expired = TRUE]
    /\ UNCHANGED <<users, proc, access, want, spent, mixed, stale, pwds, ops, faults>>

PurgeExpiredSessions ==
    /\ \E i \in DOMAIN sessions : sessions[i].expired
    /\ sessions' = Without({i \in DOMAIN sessions : sessions[i].expired})
    /\ UNCHANGED <<users, proc, access, want, spent, mixed, stale, pwds, ops, faults>>

AccessExpires == \E t \in access :
    /\ access' = access \ {t}
    /\ UNCHANGED <<users, sessions, proc, want, spent, mixed, stale, pwds, ops, faults>>

\* A fresh installation, or one with an administrator per name who signed in.
Init ==
    /\ \/ users = [u \in Users |-> None] /\ access = {}
       \/ users = [u \in Users |-> Row(0, "admin", TRUE)] /\ access = Users \X {"admin"}
    /\ want = users
    /\ sessions = [i \in {} |-> None]
    /\ proc = [p \in Procs |-> Idle]
    /\ spent = [i \in Ids |-> None]
    /\ mixed = {} /\ stale = FALSE /\ pwds = 0 /\ ops = 0 /\ faults = 0

Step(p) == Read(p) \/ OpenSession(p) \/ Write(p) \/ Revoke(p) \/ RevokeFails(p) \/ Remove(p)
           \/ Count(p) \/ Insert(p) \/ FindByTokenHash(p) \/ Rotate(p)

Next ==
    \/ \E p \in Procs, op \in Public \cup Manage, u, actor \in Users, r \in Roles :
         Begin(p, op, u, actor, r)
    \/ \E p \in Procs : Step(p)
    \/ \E u \in Users : Logout(u)
    \/ Expire \/ PurgeExpiredSessions \/ AccessExpires

Spec == Init /\ [][Next]_vars

-----------------------------------------------------------------------------

TypeOK ==
    /\ \A u \in Users : users[u] # None =>
         users[u].password \in 0..pwds /\ users[u].role \in Roles /\ users[u].active \in BOOLEAN
    /\ DOMAIN sessions \subseteq Used
    /\ \A p \in Procs : proc[p].op \in Public \cup Manage \cup {None}

Quiet(u) == Active(u) = {} /\ u \notin mixed

\* The columns of an account are what the last UpdateUser, SetPassword,
\* SetUserActive or recovery made them, although each of them and every Login
\* writes the whole row back; only requests that overlapped on the same account
\* may undo one another.
AccountAsEdited == \A u \in Users : users[u] # None /\ u \notin mixed => users[u] = want[u]

\* A blocked account has no refresh session left, which matters because Refresh
\* never looks at is_active.
BlockedHasNoSession ==
    \A u \in Users : users[u] # None /\ Quiet(u) /\ ~users[u].active => SessionsOf(u) = {}

\* A session that exists was opened with the account's present password: changing
\* or recovering a password revokes the others ("revokes its existing sessions",
\* INSTALL.md), also those obtained from them by rotation.
SessionsFollowPassword ==
    \A i \in DOMAIN sessions : Quiet(sessions[i].user) =>
        /\ users[sessions[i].user] # None
        /\ sessions[i].password = users[sessions[i].user].password

\* A refresh token is exchanged once, unless two requests present it together.
ExchangedOnce == \A i \in Used : spent[i] > 1 => mixed # {}

\* Some administrator is left who can sign in, because nobody may demote, block
\* or delete themselves; what the rule does not cover is an administrator acting
\* on a token older than the loss of the role, and two acting at once.
AdminRemains ==
    (\E u \in Users : users[u] # None) => stale \/ mixed # {} \/ \E u \in Users : IsAdmin(u)
=============================================================================
