---------------------------- MODULE UpdateQueue ----------------------------
(***************************************************************************)
(* How the Core hands privileged operations to the root updater: the       *)
(* request file written by internal/core/updater/service.go, the systemd   *)
(* path unit that watches it, and `opendeploy update --apply` of           *)
(* cmd/cli/main.go, which serves one request and removes the file.         *)
(* CreateBackupAndWait, the guard of critical mutations, waits for its     *)
(* backup to appear in the history the backup engine writes.               *)
(*                                                                         *)
(* A request is the call that made it.  The Agent's FileWrite renames, so  *)
(* the file is never seen half written.  Time is a logical clock.          *)
(***************************************************************************)
EXTENDS Naturals, Sequences, FiniteSets

CONSTANTS
    Calls,      \* calls of the updater service
    Mixes,      \* what the calls may ask for: functions from Calls to Kinds
    Reason,     \* the reason of the backups and guards
    None,
    Malformed,  \* a request file the CLI does not accept
    MaxTime     \* bound: ticks of the clock

VARIABLES
    Kind,       \* what each call asks for
    slot,       \* update.request
    armed,      \* the path unit has seen a change
    worker,     \* the update service: where it is, the request it has read
    call,       \* where each call is
    since,      \* requestedAt of a guard
    log,        \* backup-state/history.jsonl: the create operations
    now,
    served,     \* ghost: how often each request was carried out
    late,       \* ghost: calls that found the file free and were overtaken
    lost        \* ghost: requests lost to that race, or cut off by a crash

vars == <<Kind, slot, armed, worker, call, since, log, now, served, late, lost>>

Kinds == {"apply", "rollback", "backup", "guard", "restore"}
Open  == {"read", "write", "wait"}
Waiters == {c \in Calls : Kind[c] = "guard"}

NoWorker == [pc |-> "idle", req |-> None]

Init ==
    /\ Kind \in Mixes
    /\ slot \in {None, Malformed}
    /\ armed = FALSE
    /\ worker = NoWorker
    /\ call = [c \in Calls |-> "idle"]
    /\ since = [c \in Calls |-> 0]
    /\ log = <<>>
    /\ now = 0
    /\ served = [c \in Calls |-> 0]
    /\ late = {}
    /\ lost = {}

At(c, from, to) == call[c] = from /\ call' = [call EXCEPT ![c] = to]

-----------------------------------------------------------------------------
(* The updater service of the Core.                                        *)

\* A call that is valid goes on to writeRequest; one that is not is refused.
Ask(c, kind, valid) ==
    /\ Kind[c] = kind
    /\ At(c, "idle", IF valid THEN "read" ELSE "refused")
    /\ UNCHANGED <<Kind, slot, armed, worker, log, now, served, late, lost>>

\* Apply asks GitHub first (Check) and may find nothing to install.
Apply(c) == \E newer \in BOOLEAN : Ask(c, "apply", newer) /\ UNCHANGED since

\* The transaction's name is looked at here, its existence by the updater.
Rollback(c) == \E valid \in BOOLEAN : Ask(c, "rollback", valid) /\ UNCHANGED since

CreateBackup(c) == \E valid \in BOOLEAN : Ask(c, "backup", valid) /\ UNCHANGED since

RestoreBackup(c) == \E valid \in BOOLEAN : Ask(c, "restore", valid) /\ UNCHANGED since

\* CreateBackupAndWait notes the time before it asks.
CreateBackupAndWait(c) == Ask(c, "guard", TRUE) /\ since' = [since EXCEPT ![c] = now]

\* Mutant: writeRequest does not look whether the file is taken.
AnySlot == TRUE

SlotFree == slot = None

\* writeRequest, first half: the file is read; a failing read counts as no file.
ReadSlot(c) ==
    /\ \/ At(c, "read", "write") /\ SlotFree
       \/ At(c, "read", "refused") /\ slot # None
    /\ UNCHANGED <<Kind, slot, armed, worker, since, log, now, served, late, lost>>

\* Mutant: the path unit may miss a change although the service is not running.
WriteUnnoticed(c) ==
    /\ At(c, "write", IF Kind[c] = "guard" THEN "wait" ELSE "accepted")
    /\ slot' = c
    /\ armed' \in BOOLEAN
    /\ late' = late \cup {d \in Calls \ {c} : call[d] = "write"}
    /\ lost' = lost \cup {d \in Calls : /\ c \in late
                                        /\ \/ d = slot /\ d # worker.req
                                           \/ d = c /\ ~armed'}
    /\ UNCHANGED <<Kind, worker, since, log, now, served>>

\* Second half.  A request that came in meanwhile is overwritten.  The path unit
\* notices a change while the service is not running, and may miss it otherwise.
WriteSlot(c) ==
    /\ At(c, "write", IF Kind[c] = "guard" THEN "wait" ELSE "accepted")
    /\ slot' = c
    /\ armed' \in IF worker.pc = "idle" THEN {TRUE} ELSE BOOLEAN
    /\ late' = late \cup {d \in Calls \ {c} : call[d] = "write"}
    /\ lost' = lost \cup {d \in Calls : /\ c \in late
                                        /\ \/ d = slot /\ d # worker.req
                                           \/ d = c /\ ~armed'}
    /\ UNCHANGED <<Kind, worker, since, log, now, served>>

\* FileRead or FileWrite fails, or the client goes away.
AskFails(c) ==
    /\ call[c] \in {"read", "write"}
    /\ At(c, call[c], "refused")
    /\ UNCHANGED <<Kind, slot, armed, worker, since, log, now, served, late, lost>>

\* Mutant: an older backup with the reason is good enough.
MatchesAnyAge(e, c) == e.reason = Reason[c]

Matches(e, c) == e.reason = Reason[c] /\ e.started >= since[c]

\* CreateBackupAndWait takes the newest entry of its reason that is young enough.
Poll(c) ==
    /\ \E i \in 1..Len(log) :
         /\ Matches(log[i], c)
         /\ \A j \in i + 1..Len(log) : ~Matches(log[j], c)
         /\ At(c, "wait", IF log[i].ok THEN "backed" ELSE "refused")
    /\ UNCHANGED <<Kind, slot, armed, worker, since, log, now, served, late, lost>>

\* Thirty minutes have passed, or the caller has gone.
WaitExpires(c) ==
    /\ At(c, "wait", "refused")
    /\ UNCHANGED <<Kind, slot, armed, worker, since, log, now, served, late, lost>>

\* The change the guard was for: the settings are written in one transaction,
\* or none of them is.
SetMany(c) ==
    /\ \/ At(c, "backed", "changed") \/ At(c, "backed", "refused")
    /\ UNCHANGED <<Kind, slot, armed, worker, since, log, now, served, late, lost>>

-----------------------------------------------------------------------------
(* The path unit and the CLI.                                              *)

\* `update --apply` reads the request; without one, or with one it cannot accept,
\* it ends, and leaves the file.
WorkerStart ==
    /\ worker.pc = "idle"
    /\ armed
    /\ armed' = FALSE
    /\ worker' = IF slot \in Calls THEN [pc |-> "serve", req |-> slot] ELSE NoWorker
    /\ UNCHANGED <<Kind, slot, call, since, log, now, served, late, lost>>

\* The operation itself.  A backup is recorded with the time it began.  An update
\* makes a backup of its own, restarts the Core and so ends what waits in it, as
\* does a restore, which stops the Core.
Serve ==
    LET k == Kind[worker.req] IN
    /\ worker.pc = "serve"
    /\ worker' = [worker EXCEPT !.pc = "remove"]
    /\ served' = [served EXCEPT ![worker.req] = @ + 1]
    /\ \E ok \in BOOLEAN :
         log' = CASE k \in {"backup", "guard"} ->
                       Append(log, [reason |-> Reason[worker.req], started |-> now, ok |-> ok])
                  [] k = "apply" -> Append(log, [reason |-> "before-update", started |-> now, ok |-> ok])
                  [] OTHER -> log
    /\ \/ call' = call
       \/ /\ k \in {"apply", "rollback", "restore"}
          /\ call' = [c \in Calls |-> IF call[c] \in Open THEN "refused" ELSE call[c]]
    /\ UNCHANGED <<Kind, slot, armed, since, now, late, lost>>

\* Mutant: the worker leaves the request where it is.
KeepRequest == UNCHANGED slot

RemoveRequest == slot' = None

\* removeRequest removes whatever the file holds now.
WorkerEnd ==
    /\ worker.pc = "remove"
    /\ worker' = NoWorker
    /\ RemoveRequest
    /\ armed' \in {armed, TRUE}
    /\ lost' = lost \cup ({slot} \cap (late \ {worker.req}))
    /\ UNCHANGED <<Kind, call, since, log, now, served, late>>

\* The updater is killed or the host goes down: the file stays, and nothing
\* starts the service again before it changes.
WorkerCrash ==
    /\ worker.pc # "idle"
    /\ worker' = NoWorker
    /\ lost' = lost \cup {worker.req}
    /\ UNCHANGED <<Kind, slot, armed, call, since, log, now, served, late>>

\* The Core restarts.
CoreRestart ==
    /\ \E c \in Calls : call[c] \in Open
    /\ call' = [c \in Calls |-> IF call[c] \in Open THEN "refused" ELSE call[c]]
    /\ UNCHANGED <<Kind, slot, armed, worker, since, log, now, served, late, lost>>

Tick ==
    /\ now < MaxTime
    /\ now' = now + 1
    /\ UNCHANGED <<Kind, slot, armed, worker, call, since, log, served, late, lost>>

-----------------------------------------------------------------------------

Next ==
    \/ \E c \in Calls :
         \/ Apply(c) \/ Rollback(c) \/ CreateBackup(c) \/ RestoreBackup(c)
         \/ CreateBackupAndWait(c)
         \/ ReadSlot(c) \/ WriteSlot(c) \/ AskFails(c) \/ Poll(c) \/ WaitExpires(c) \/ SetMany(c)
    \/ WorkerStart \/ Serve \/ WorkerEnd \/ WorkerCrash \/ CoreRestart \/ Tick

\* systemd starts the service when the path unit fires, the CLI ends within its 20
\* minutes, handlers run on, and a guard ends with its context at the latest.
Fairness ==
    /\ WF_vars(WorkerStart) /\ WF_vars(Serve) /\ WF_vars(WorkerEnd)
    /\ \A c \in Calls : /\ WF_vars(ReadSlot(c)) /\ WF_vars(WriteSlot(c))
                        /\ WF_vars(WaitExpires(c) \/ Poll(c))

Spec == Init /\ [][Next]_vars /\ Fairness

-----------------------------------------------------------------------------

TypeOK ==
    /\ Kind \in [Calls -> Kinds]
    /\ slot \in Calls \cup {None, Malformed}
    /\ armed \in BOOLEAN
    /\ worker \in [pc : {"idle", "serve", "remove"}, req : Calls \cup {None}]
    /\ call \in [Calls -> {"idle", "read", "write", "wait", "accepted", "backed",
                           "changed", "refused"}]
    /\ since \in [Calls -> 0..MaxTime]
    /\ \A i \in 1..Len(log) : log[i].started \in 0..MaxTime /\ log[i].ok \in BOOLEAN
    /\ now \in 0..MaxTime
    /\ late \subseteq Calls /\ lost \subseteq Calls

\* The guard is fail-closed: a mutation goes ahead only when a backup that began
\* after the mutation was asked for has succeeded, although the history holds
\* backups of other calls with the same reason, older ones and failed ones.
GuardedIsBackedUp ==
    \A c \in Waiters : call[c] \in {"backed", "changed"} =>
        \E i \in 1..Len(log) : log[i].ok /\ log[i].started >= since[c] /\ log[i].reason = Reason[c]

\* A request is carried out at most once, whatever the path unit reports and
\* whenever the updater dies.
AtMostOnce == \A c \in Calls : served[c] <= 1

\* Nothing is outstanding: what was accepted was carried out, no guard waits and
\* the request file is free, but for requests that are lost: to a call that found
\* the file free before this one was written and overwrote it, by being that call
\* and unnoticed or removed with the other, or to a crash of the updater.  A request
\* that the CLI does not accept blocks the file.
Drained ==
    \A c \in Calls : /\ call[c] = "accepted" => served[c] > 0 \/ c \in lost
                     /\ call[c] # "wait"
                     /\ slot = c => c \in lost
=============================================================================
