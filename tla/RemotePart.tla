----------------------------- MODULE RemotePart -----------------------------
(***************************************************************************)
(* Remote servers and their tasks as the subject of a behaviour.           *)
(***************************************************************************)
EXTENDS ServerState

CONSTANTS Servers, Machines, Tasks, Batch, TokenTTL, CertTTL, WarnAfter, OffAfter,
          MaxTokens, MaxTime

VARIABLES rows, tokens, certs, tasks, agent, calls, now, ran, lost, again

R == INSTANCE RemoteServers

RemoteInit == subject = "remote" /\ R!Init
RemoteNext == subject = "remote" /\ subject' = subject /\ R!Next
RemoteSpec == RemoteInit /\ [][RemoteNext]_<<subject, R!vars>>

-----------------------------------------------------------------------------

\* The row of a server describes the machine that holds its certificate, whichever
\* of two machines with a token of it registers first, and a reissued enrollment
\* voids the one before (Register, ReissueEnrollment of internal/core/remote).
OneMachinePerServer == subject = "remote" => R!TypeOK /\ R!OneIdentity /\ R!OneLiveToken

\* Tasks and statuses survive a heartbeat that times out and is served late: an
\* Agent runs a task once, a task marked running is still somewhere, and a server
\* called offline was silent, except for the losses the module names (Heartbeat of
\* internal/core/remote/service.go, repository.go and the Agent's heartbeat loop).
TasksAreKept ==
    subject = "remote" => R!RunsOnce /\ R!RunningIsSomewhere /\ R!OfflineIsSilent
=============================================================================
