---------------------------- MODULE UpdateEngine ----------------------------
(***************************************************************************)
(* The transactional updater, internal/update: Apply and Rollback of       *)
(* engine.go with the file operations they are made of, the gates of       *)
(* github.go, manifest.go and verify.go, the process lock and the restart  *)
(* of runtime.go.                                                          *)
(*                                                                         *)
(* A process is one run of `opendeploy update`, started by the update      *)
(* service or by an operator.  Every file operation is a step, can fail,   *)
(* and the process can die before any of them; the files stay.  A rename   *)
(* is atomic (atomicCopy), a plain copy is not (copyFile).  Contents of    *)
(* files are the versions they come from.                                  *)
(***************************************************************************)
EXTENDS Naturals, Sequences, FiniteSets

CONSTANTS
    Procs,      \* runs of the updater
    Installed,  \* the version that is installed at first
    Tags,       \* the releases that can be asked for
    None,
    MaxTx       \* bound: transactions

VARIABLES
    live,       \* the binaries in BinaryDir
    running,    \* the version each service was started from
    lock,       \* update.lock: its holder
    snaps,      \* StateDir/backups: the snapshot of a transaction
    history,    \* history.jsonl
    run,        \* where a process is, and what it does
    tx,         \* transactions begun
    promised,   \* what the last transaction left behind, by what it reported
    cause       \* what went wrong in it with the files, if anything

vars == <<live, running, lock, snaps, history, run, tx, promised, cause>>

\* The order in which restore and snapshotLive go through the binaries.
Order    == <<"opendeploy-core", "opendeploy-agent", "opendeploy">>
Binaries == {Order[i] : i \in 1..3}
Services == {"opendeploy-agent", "opendeploy-core"}
Truncated == "truncated"        \* what a copyFile that fails leaves
Forged    == "forged"           \* a binary of a release that should not pass
Missing   == "absent"           \* no such file

Versions == {Installed} \cup Tags
Contents == Versions \cup {Truncated, Forged}
Files    == [Binaries -> Contents]
Whole(v) == [b \in Binaries |-> v]
NoFiles  == [b \in Binaries |-> Missing]
Entry    == [id : 1..MaxTx, status : {"succeeded", "failed", "rolled_back", "manual_rollback",
                                      "rollback_failed"},
             snap : 0..MaxTx]

Steps == {"idle", "verify", "backup", "prepare", "replace", "current", "gate", "safety",
          "undo", "regate"}

\* A process: its step, operation, transaction, the binaries it is done with, the
\* payload, what was live when it took the lock, the snapshot of its entry, the one
\* it restores and what that is for.
Process == [pc : Steps, op : {"apply", "rollback"}, id : 0..MaxTx, done : SUBSET Binaries,
            to : Versions, payload : Contents, before : Files, snap : 0..MaxTx, src : 0..MaxTx,
            undo : {"install", "health", "rollback", "recover"}]

NoProcess == [pc |-> "idle", op |-> "apply", id |-> 0, done |-> {}, to |-> Installed,
              payload |-> Installed, before |-> Whole(Installed), snap |-> 0, src |-> 0,
              undo |-> "install"]

Init ==
    /\ live = Whole(Installed)
    /\ running = [s \in Services |-> Installed]
    /\ lock = None
    /\ snaps = [i \in 1..MaxTx |-> NoFiles]
    /\ history = <<>>
    /\ run = [p \in Procs |-> NoProcess]
    /\ tx = 0
    /\ promised = Whole(Installed)
    /\ cause = "none"

Idle == \A p \in Procs : run[p].pc = "idle"

Go(p, r) == run' = [run EXCEPT ![p] = r]
To(p, step) == Go(p, [run[p] EXCEPT !.pc = step, !.done = {}])

-----------------------------------------------------------------------------
(* The gates of Apply.  A release is the set of its defects.               *)

Defects == {"draft", "untrusted", "unsigned", "malformed", "othertag", "othercommit",
            "noplatform", "size", "digest", "members"}

ReleaseGate(r)   == r \cap {"draft", "untrusted"} = {}          \* Release, getJSON
SignatureGate(r) == "unsigned" \notin r                         \* Verify
ManifestGate(r)  == r \cap {"malformed", "othertag"} = {}       \* ParseManifest
CommitGate(r)    == "othercommit" \notin r                      \* TagCommit
ArtifactGate(r)  == "noplatform" \notin r                       \* ArtifactFor
DownloadGate(r)  == "size" \notin r                             \* download, Stat
DigestGate(r)    == "digest" \notin r                           \* verifySHA256
ArchiveGate(r)   == "members" \notin r                          \* extractRelease

\* Mutant: the commit of the tag is not compared.
VerifiedButCommit(r) ==
    /\ ReleaseGate(r) /\ SignatureGate(r) /\ ManifestGate(r)
    /\ ArtifactGate(r) /\ DownloadGate(r) /\ DigestGate(r) /\ ArchiveGate(r)

Verified(r) ==
    /\ ReleaseGate(r) /\ SignatureGate(r) /\ ManifestGate(r) /\ CommitGate(r)
    /\ ArtifactGate(r) /\ DownloadGate(r) /\ DigestGate(r) /\ ArchiveGate(r)

\* The releases that are offered: one with no defect, and one with each.
Offers == {{}} \cup {{d} : d \in Defects}

-----------------------------------------------------------------------------
(* acquireUpdateLock: whoever finds the lock taken returns at once.        *)

\* Mutant: the lock is not asked for.
Unguarded(p) == TRUE

LockFree(p) == lock = None

Locked(p) ==
    /\ run[p].pc = "idle"
    /\ LockFree(p)
    /\ tx < MaxTx
    /\ tx' = tx + 1
    /\ lock' = p
    /\ cause' = "none"

\* The process returns: the lock is released, and the entry appended unless that
\* fails, which only Apply's last line reports.  files: what it says it leaves.
Close(p, status, files) ==
    /\ Go(p, NoProcess)
    /\ lock' = None
    /\ promised' = files
    /\ \/ history' = Append(history, [id |-> run[p].id, status |-> status, snap |-> run[p].snap])
       \/ UNCHANGED history

BeginApply(p, tag) ==
    /\ Locked(p)
    /\ Go(p, [NoProcess EXCEPT !.pc = "verify", !.id = tx + 1, !.to = tag, !.before = live])
    /\ UNCHANGED <<live, running, snaps, history, promised>>

\* All gates in a row, up to the extraction of the payload into the staging area.
Verify(p) ==
    /\ run[p].pc = "verify"
    /\ \E r \in Offers :
         IF Verified(r)
         THEN /\ Go(p, [run[p] EXCEPT !.pc = "backup",
                          !.payload = IF r = {} THEN run[p].to ELSE Forged])
              /\ UNCHANGED <<lock, history, promised>>
         ELSE Close(p, "failed", run[p].before)
    /\ UNCHANGED <<live, running, snaps, tx, cause>>

\* A gate cannot be asked (network, disk), or CreateBackup fails.
GiveUp(p) ==
    /\ run[p].pc \in {"verify", "backup"}
    /\ Close(p, "failed", run[p].before)
    /\ UNCHANGED <<live, running, snaps, tx, cause>>

SystemBackup(p) ==
    /\ run[p].pc = "backup"
    /\ Go(p, [run[p] EXCEPT !.pc = "prepare", !.snap = run[p].id])
    /\ UNCHANGED <<live, running, lock, snaps, history, tx, promised, cause>>

-----------------------------------------------------------------------------
(* install: copy every live binary into the snapshot, then replace every   *)
(* one, then write current.json.  Go iterates over the map in any order.   *)

\* Where a process goes that has to restore a snapshot.
Restoring(p, src, why) == Go(p, [run[p] EXCEPT !.pc = "undo", !.done = {}, !.src = src, !.undo = why])

\* Mutant: a binary that is already the one of the release is not saved.
PrepareChanged(p, b) ==
    /\ snaps' = IF live[b] = run[p].payload THEN snaps
                ELSE [snaps EXCEPT ![run[p].id][b] = live[b]]
    /\ UNCHANGED live

PrepareOne(p, b) ==
    /\ snaps' = [snaps EXCEPT ![run[p].id][b] = live[b]]
    /\ UNCHANGED live

Prepare(p, b) ==
    /\ run[p].pc = "prepare"
    /\ b \in Binaries \ run[p].done
    /\ PrepareOne(p, b)
    /\ IF run[p].done \cup {b} = Binaries THEN To(p, "replace")
       ELSE Go(p, [run[p] EXCEPT !.done = @ \cup {b}])
    /\ UNCHANGED <<running, lock, history, tx, promised, cause>>

Replace(p, b) ==
    /\ run[p].pc = "replace"
    /\ b \in Binaries \ run[p].done
    /\ live' = [live EXCEPT ![b] = run[p].payload]
    /\ IF run[p].done \cup {b} = Binaries THEN To(p, "current")
       ELSE Go(p, [run[p] EXCEPT !.done = @ \cup {b}])
    /\ UNCHANGED <<running, lock, snaps, history, tx, promised, cause>>

WriteCurrent(p) ==
    /\ run[p].pc = "current"
    /\ To(p, "gate")
    /\ UNCHANGED <<live, running, lock, snaps, history, tx, promised, cause>>

\* A file operation of install fails.  A copyFile into the snapshot leaves the
\* part it has written.
InstallFails(p) ==
    /\ run[p].pc \in {"prepare", "replace", "current"}
    /\ Restoring(p, run[p].id, "install")
    /\ \/ UNCHANGED <<snaps, cause>>
       \/ /\ run[p].pc = "prepare"
          /\ \E b \in Binaries \ run[p].done :
               snaps' = [snaps EXCEPT ![run[p].id][b] = Truncated]
          /\ cause' = "truncated"
    /\ UNCHANGED <<live, running, lock, history, tx, promised>>

-----------------------------------------------------------------------------
(* restore: the binaries in order; the first that fails ends it.  What     *)
(* follows depends on what the restore was for.                            *)

\* The first binary that is not done.
NextUndo(p) ==
    LET D == run[p].done IN
    Order[CHOOSE i \in 1..3 : Order[i] \notin D /\ \A j \in 1..i - 1 : Order[j] \in D]

\* Mutant: the files that were there are restored without the last binary.
AllBut(p) == Cardinality(run[p].done) = 2

Complete(p) == run[p].done = Binaries

RestoreOne(p) ==
    LET b == NextUndo(p) IN
    /\ run[p].pc = "undo"
    /\ ~Complete(p)
    /\ snaps[run[p].src][b] # Missing
    /\ live' = [live EXCEPT ![b] = snaps[run[p].src][b]]
    /\ Go(p, [run[p] EXCEPT !.done = @ \cup {b}])
    /\ UNCHANGED <<running, lock, snaps, history, tx, promised, cause>>

\* What the process does once restore has returned, with or without an error.
\* After a failed installation the services were never restarted: nothing to do.
Restored(p, failed) ==
    LET q == run[p] IN
    CASE q.undo = "install" -> Close(p, "rolled_back", q.before)
      [] q.undo = "rollback" /\ failed -> Close(p, "rollback_failed", q.before)
      [] q.undo = "rollback" /\ ~failed ->
           To(p, "gate") /\ UNCHANGED <<lock, history, promised>>
      [] OTHER -> To(p, "regate") /\ UNCHANGED <<lock, history, promised>>

RestoreDone(p) ==
    /\ run[p].pc = "undo"
    /\ Complete(p)
    /\ Restored(p, FALSE)
    /\ UNCHANGED <<live, running, snaps, tx, cause>>

\* A binary is missing in the snapshot.  The snapshot of a transaction that failed
\* while it was taken is one such.
RestoreMissing(p) ==
    /\ run[p].pc = "undo"
    /\ ~Complete(p)
    /\ snaps[run[p].src][NextUndo(p)] = Missing
    /\ cause' = IF live = run[p].before THEN cause ELSE "missing"
    /\ Restored(p, TRUE)
    /\ UNCHANGED <<live, running, snaps, tx>>

RestoreFails(p) ==
    /\ run[p].pc = "undo"
    /\ ~Complete(p)
    /\ cause' = "restore"
    /\ Restored(p, TRUE)
    /\ UNCHANGED <<live, running, snaps, tx>>

-----------------------------------------------------------------------------
(* Restart and Healthy.  A restart that fails may have restarted one of    *)
(* the services; systemd restarts a service that dies, at any time.        *)

Restarted(S) == running' = [s \in Services |-> IF s \in S THEN live[s] ELSE running[s]]

\* Mutant: the restart leaves the Core alone.
RestartAgent == Restarted({"opendeploy-agent"})

RestartAll == Restarted(Services)

\* Both units are active and the Core answers: a truncated binary does not start.
Healthy(r) == \A s \in Services : r[s] # Truncated

Goal(p) == IF run[p].op = "apply" THEN Whole(run[p].to) ELSE snaps[run[p].snap]

\* Mutant: a rollback is reported to have restored the release it undid.
ReportedTo(p) == Whole(run[p].to)

Reported(p) == Goal(p)

GatePasses(p) ==
    /\ run[p].pc = "gate"
    /\ RestartAll
    /\ Healthy(running')
    /\ Close(p, IF run[p].op = "apply" THEN "succeeded" ELSE "manual_rollback", Reported(p))
    /\ UNCHANGED <<live, snaps, tx, cause>>

\* The snapshot that is restored: that of the update, or the one a rollback took
\* of what was live before it.
GateFails(p) ==
    /\ run[p].pc = "gate"
    /\ \E S \in SUBSET Services : Restarted(S)
    /\ Restoring(p, run[p].id, IF run[p].op = "apply" THEN "health" ELSE "recover")
    /\ UNCHANGED <<live, lock, snaps, history, tx, promised, cause>>

\* The second restart and health check: their errors are only reported.
Regate(p) ==
    /\ run[p].pc = "regate"
    /\ \E S \in SUBSET Services : Restarted(S)
    /\ Close(p, IF run[p].op = "apply" THEN "rolled_back" ELSE "rollback_failed", run[p].before)
    /\ UNCHANGED <<live, snaps, tx, cause>>

ServiceRestarts ==
    /\ \E s \in Services : running[s] # live[s] /\ Restarted({s})
    /\ UNCHANGED <<live, lock, snaps, history, run, tx, promised, cause>>

-----------------------------------------------------------------------------
(* Rollback.                                                               *)

Matches(e, id) == IF id = 0 THEN e.status = "succeeded" ELSE e.id = id

\* findHistory: the newest succeeded entry when no id is given, else the newest
\* one with the id.
FindHistory(id) ==
    {i \in 1..Len(history) : /\ Matches(history[i], id)
                            /\ \A j \in i + 1..Len(history) : ~Matches(history[j], id)}

\* An unknown transaction, or one without a snapshot, leaves no trace.
BeginRollback(p, id) ==
    /\ Locked(p)
    /\ \E i \in FindHistory(id) :
         /\ history[i].snap # 0
         /\ Go(p, [NoProcess EXCEPT !.pc = "safety", !.op = "rollback", !.id = tx + 1,
                     !.snap = history[i].snap, !.before = live])
    /\ UNCHANGED <<live, running, snaps, history, promised>>

\* snapshotLive of the safety snapshot.
Safety(p) ==
    /\ run[p].pc = "safety"
    /\ snaps' = [snaps EXCEPT ![run[p].id] = live]
    /\ Restoring(p, run[p].snap, "rollback")
    /\ UNCHANGED <<live, running, lock, history, tx, promised, cause>>

SafetyFails(p) ==
    /\ run[p].pc = "safety"
    /\ Close(p, "rollback_failed", run[p].before)
    /\ UNCHANGED <<live, running, snaps, tx, cause>>

\* The process dies: the kernel releases the lock, nothing is recorded.
Crash(p) ==
    /\ run[p].pc # "idle"
    /\ Go(p, NoProcess)
    /\ lock' = IF lock = p THEN None ELSE lock
    /\ promised' = run[p].before
    /\ cause' = IF live = run[p].before THEN cause ELSE "crash"
    /\ UNCHANGED <<live, running, snaps, history, tx>>

-----------------------------------------------------------------------------

Next ==
    \/ \E p \in Procs :
         \/ \E tag \in Tags : BeginApply(p, tag)
         \/ \E id \in 0..MaxTx : BeginRollback(p, id)
         \/ Verify(p) \/ GiveUp(p) \/ SystemBackup(p)
         \/ \E b \in Binaries : Prepare(p, b) \/ Replace(p, b)
         \/ WriteCurrent(p) \/ InstallFails(p)
         \/ RestoreOne(p) \/ RestoreDone(p) \/ RestoreMissing(p) \/ RestoreFails(p)
         \/ GatePasses(p) \/ GateFails(p) \/ Regate(p)
         \/ Safety(p) \/ SafetyFails(p)
         \/ Crash(p)
    \/ ServiceRestarts

Spec == Init /\ [][Next]_vars

-----------------------------------------------------------------------------

TypeOK ==
    /\ live \in Files
    /\ running \in [Services -> Contents]
    /\ lock \in Procs \cup {None}
    /\ snaps \in [1..MaxTx -> [Binaries -> Contents \cup {Missing}]]
    /\ history \in Seq(Entry)
    /\ run \in [Procs -> Process]
    /\ tx \in 0..MaxTx
    /\ promised \in [Binaries -> Contents \cup {Missing}]
    /\ cause \in {"none", "truncated", "missing", "restore", "crash"}

\* Between transactions the live binaries are exactly what the last transaction
\* reported: all of the release after "succeeded", all of the snapshot after
\* "manual_rollback", what was there before after anything else.  The exceptions
\* are named by cause: the process died between two binaries, a restore could not
\* write or found its snapshot incomplete, a truncated copy got into a snapshot.
ReportIsTrue == Idle /\ cause = "none" => live = promised

\* A transaction in the history as succeeded can be rolled back: its snapshot holds
\* all three binaries, whatever later transactions, failures and crashes did.
SucceededCanBeUndone ==
    \A i \in 1..Len(history) :
        history[i].status = "succeeded" =>
            \A b \in Binaries : snaps[history[i].snap][b] # Missing

\* After an update or a rollback that passed its health gate, both services run
\* what is installed: nothing is live that was never started and checked.
PassedGateIsRunning ==
    (Idle /\ history # <<>> /\ cause = "none"
          /\ history[Len(history)].id = tx
          /\ history[Len(history)].status \in {"succeeded", "manual_rollback"}) =>
        \A s \in Services : running[s] = live[s]

Active == CHOOSE p \in Procs : run[p].pc # "idle"

\* The refinement of AllOrNothing, as seen between transactions: the binaries
\* change from what was there before to all of a release or snapshot, or not at
\* all, and anything else happens only with a fault.
Transaction == INSTANCE AllOrNothing WITH
    Cells    <- Binaries,
    Contents <- Contents \cup {Missing},
    NoGoal   <- None,
    Shared   <- FALSE,
    content  <- IF Idle THEN live ELSE run[Active].before,
    goal     <- IF Idle THEN None ELSE Goal(Active),
    fault    <- Idle /\ cause # "none"
=============================================================================
