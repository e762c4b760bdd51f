------------------------------ MODULE AuthPart ------------------------------
(***************************************************************************)
(* Accounts and refresh sessions as the subject of a behaviour.            *)
(***************************************************************************)
EXTENDS ServerState

CONSTANTS Procs, Users, MaxSessions, MaxOps

VARIABLES users, sessions, proc, access, want, spent, mixed, stale, pwds, ops

A == INSTANCE AuthSessions

AuthInit == subject = "auth" /\ A!Init
AuthNext == subject = "auth" /\ subject' = subject /\ A!Next
AuthSpec == AuthInit /\ [][AuthNext]_<<subject, A!vars>>

-----------------------------------------------------------------------------

\* Refresh sessions follow the account: none is left when it is blocked, all were
\* opened with its present password, each is exchanged once, unless requests on the
\* account overlapped (Refresh, SetPassword, SetUserActive of core/auth).
SessionsFollowAccount ==
    subject = "auth" =>
        A!TypeOK /\ A!BlockedHasNoSession /\ A!SessionsFollowPassword /\ A!ExchangedOnce

\* An account is as its last edit left it although every request writes the whole
\* row back, and an administrator who can sign in remains, except for the overlaps
\* AuthSessions names (UpdateUser, DeleteUser, SetUserActive of core/auth).
AccountsAreKept == subject = "auth" => A!AccountAsEdited /\ A!AdminRemains
=============================================================================
