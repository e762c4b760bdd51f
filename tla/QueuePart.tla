----------------------------- MODULE QueuePart -----------------------------
(***************************************************************************)
(* The updater's request file as the subject of a behaviour.               *)
(***************************************************************************)
EXTENDS ProgressState

CONSTANTS Calls, Mixes, Reason, Malformed, MaxTime

VARIABLES Kind, slot, armed, worker, call, since, log, now, served, late

Q == INSTANCE UpdateQueue

QueueInit == subject = "queue" /\ Q!Init
QueueNext == subject = "queue" /\ subject' = subject /\ Q!Next
QueueSpec == QueueInit /\ [][QueueNext]_<<subject, Q!vars>>

-----------------------------------------------------------------------------

\* The updater serves no request twice, and a guard lets its mutation go ahead only
\* after a backup that began since it was asked for and succeeded (core/updater
\* and the update command of cmd/cli).
GuardIsClosed == subject = "queue" => Q!TypeOK /\ Q!GuardedIsBackedUp /\ Q!AtMostOnce
=============================================================================
