--------------------------- MODULE BackupRestore ---------------------------
(***************************************************************************)
(* internal/backup: Create, Verify and Restore of the Engine, with the     *)
(* SystemRuntime that stops and restarts the services around a restore.    *)
(* Files change while a backup reads them twice, to hash and to archive;   *)
(* a restore replaces them one at a time and undoes that when it fails.    *)
(*                                                                         *)
(* Files are numbered in the order of the manifest.  One operation runs at *)
(* a time.  An archive is its manifest (sums) and its payload (data): the  *)
(* digest of a content is the content.                                     *)
(***************************************************************************)
EXTENDS Naturals, Sequences, FiniteSets

CONSTANTS
    N,          \* files
    Source,     \* db, file, or tree: a file below a directory source
    Required,   \* the files whose source is required
    Values,     \* what a file can contain
    Absent,     \* no file
    Odd,        \* not a regular file
    None,
    Brought,    \* archives the operator may bring from elsewhere
    MaxOps,     \* bound: operations
    MaxEdits    \* bound: changes by others

VARIABLES
    disk,       \* the files
    archives,   \* what was published in BackupDir or brought by the operator
    history,    \* history.jsonl
    units,      \* is opendeploy-core, opendeploy-agent running?
    op,         \* the operation in progress
    edits,
    ops,        \* operations begun
    cause       \* ghost: why the last restore left something behind

vars == <<disk, archives, history, units, op, edits, ops, cause>>

Files   == 1..N
Units   == {"core", "agent"}
Stored  == Values \cup {Absent}
Content == Stored \cup {Odd}

NoOp == [pc |-> "idle", i |-> 1, n |-> 0, sums |-> None, data |-> None,
         before |-> None, changed |-> {}]

Idle == op.pc = "idle"
Nothing == [f \in Files |-> Absent]

Init ==
    /\ disk = [f \in Files |-> CHOOSE v \in Values : TRUE]
    /\ archives \in {<<a>> : a \in Brought}
    /\ history = <<>>
    /\ units = [u \in Units |-> TRUE]
    /\ op = NoOp
    /\ edits = 0
    /\ ops = 0
    /\ cause = {}

\* prepare fails before anything is recorded, and changes nothing.
Started == Idle /\ ops < MaxOps /\ ops' = ops + 1

\* The deferred function that completes the operation.
Record(type, n, ok) ==
    /\ history' = Append(history, [type |-> type, n |-> n, ok |-> ok])
    /\ op' = NoOp

\* The panel, the Agent or a package writes.  During a restore they are stopped.
Write(f, c) ==
    /\ edits < MaxEdits
    /\ op.pc \in {"idle", "collect", "archive", "publish", "verify"}
    /\ disk' = [disk EXCEPT ![f] = c]
    /\ edits' = edits + 1
    /\ UNCHANGED <<archives, history, units, op, ops, cause>>

-----------------------------------------------------------------------------
(* Create                                                                  *)

CreateFails ==
    /\ Record("create", 0, FALSE)
    /\ UNCHANGED <<disk, archives, units, edits, ops, cause>>

BeginCreate ==
    /\ Started
    /\ op' = [NoOp EXCEPT !.pc = "collect", !.sums = Nothing, !.data = Nothing]
    /\ UNCHANGED <<disk, archives, history, units, edits, cause>>

Advance(next) == IF op.i < N THEN [op EXCEPT !.i = @ + 1] ELSE [op EXCEPT !.i = 1, !.pc = next]

\* What collect does with a file that is not there or is not regular.
Skips(f) ==
    \/ disk[f] = Absent /\ (Source[f] = "tree" \/ f \notin Required)
    \/ disk[f] = Odd /\ Source[f] = "tree"
    \/ disk[f] = Odd /\ Source[f] = "db" /\ f \notin Required

\* collect and collectOne hash the file.  A database is copied by VACUUM INTO
\* first, and it is the copy that is hashed and, later, archived.
Collect ==
    /\ op.pc = "collect"
    /\ \/ /\ disk[op.i] \in Values
          /\ op' = [Advance("archive") EXCEPT !.sums[op.i] = disk[op.i],
                      !.data[op.i] = IF Source[op.i] = "db" THEN disk[op.i] ELSE Absent]
       \/ Skips(op.i) /\ op' = Advance("archive")
    /\ UNCHANGED <<disk, archives, history, units, edits, ops, cause>>

\* A required source is missing, a source is a symlink, or reading fails.
CollectFails == op.pc = "collect" /\ CreateFails

\* writeTarFile reads the file again.
Archive ==
    /\ op.pc = "archive"
    /\ \/ op.sums[op.i] = Absent /\ op' = Advance("publish")
       \/ /\ op.sums[op.i] # Absent
          /\ LET again == IF Source[op.i] = "db" THEN op.data[op.i] ELSE disk[op.i]
             IN again \in Values /\ op' = [Advance("publish") EXCEPT !.data[op.i] = again]
    /\ UNCHANGED <<disk, archives, history, units, edits, ops, cause>>

\* The file has gone, or its size differs from the one in the manifest.
ArchiveFails == op.pc = "archive" /\ CreateFails

\* The temporary file is synced and renamed.
Publish ==
    /\ op.pc = "publish"
    /\ archives' = Append(archives, [sums |-> op.sums, data |-> op.data, kept |-> TRUE])
    /\ op' = [op EXCEPT !.pc = "verify", !.n = Len(archives')]
    /\ UNCHANGED <<disk, history, units, edits, ops, cause>>

PublishFails == op.pc = "publish" /\ CreateFails

-----------------------------------------------------------------------------
(* extractVerified                                                         *)

\* Mutant: the digests are not compared.
SomeEntries(a) ==
    /\ \A f \in Files : a.sums[f] = Absent <=> a.data[f] = Absent
    /\ \A f \in Required : a.sums[f] # Absent

\* Every required source is in the manifest, and the payload is what it says.
Intact(a) == a.data = a.sums /\ \A f \in Required : a.sums[f] # Absent

\* Create verifies what it has published and removes it when that fails.
VerifyNew ==
    /\ op.pc = "verify"
    /\ \/ Intact(archives[op.n]) /\ Record("create", op.n, TRUE) /\ UNCHANGED archives
       \/ /\ Record("create", op.n, FALSE)
          /\ archives' = [archives EXCEPT ![op.n].kept = FALSE]
    /\ UNCHANGED <<disk, units, edits, ops, cause>>

\* Verify of an archive.
VerifyArchive(n) ==
    /\ Started
    /\ n \in 1..Len(archives)
    /\ \E ok \in BOOLEAN : /\ ok => archives[n].kept /\ Intact(archives[n])
                           /\ Record("verify", n, ok)
    /\ UNCHANGED <<disk, archives, units, edits, cause>>

-----------------------------------------------------------------------------
(* Restore                                                                 *)

\* The archive is extracted and verified before anything is stopped.
BeginRestore(n) ==
    /\ Started
    /\ n \in 1..Len(archives)
    /\ archives[n].kept
    /\ Intact(archives[n])
    /\ op' = [NoOp EXCEPT !.pc = "stop", !.n = n, !.before = disk, !.data = archives[n].data,
                          !.sums = archives[n].sums]
    /\ cause' = {}
    /\ UNCHANGED <<disk, archives, history, units, edits>>

RestoreRefused(n) ==
    /\ Started
    /\ n \in 1..Len(archives)
    /\ Record("restore", n, FALSE)
    /\ UNCHANGED <<disk, archives, units, edits, cause>>

\* BeforeRestore stops the Core, then the Agent.
Stop ==
    /\ op.pc = "stop"
    /\ units' = [u \in Units |-> FALSE]
    /\ op' = [op EXCEPT !.pc = "replace"]
    /\ UNCHANGED <<disk, archives, history, edits, ops, cause>>

\* One of them does not stop: Restore returns, and starts neither again.
StopFails ==
    /\ op.pc = "stop"
    /\ units' \in {units, [units EXCEPT !["core"] = FALSE]}
    /\ cause' = cause \cup {"stop"}
    /\ Record("restore", op.n, FALSE)
    /\ UNCHANGED <<disk, archives, edits, ops>>

Entries == {f \in Files : op.sums[f] # Absent}

\* Mutant: a file that was not there is not noted.
ChangedIfThere == IF op.before[op.i] = Absent THEN op.changed ELSE op.changed \cup {op.i}

Changed == op.changed \cup {op.i}

\* An entry: the current file is saved in the stage, then replaced by a rename.
ReplaceOne ==
    /\ op.pc = "replace"
    /\ \/ /\ op.i \in Entries
          /\ disk[op.i] # Odd
          /\ disk' = [disk EXCEPT ![op.i] = op.data[op.i]]
          /\ op' = [Advance("gate") EXCEPT !.changed = Changed]
       \/ op.i \notin Entries /\ op' = Advance("gate") /\ UNCHANGED disk
    /\ UNCHANGED <<archives, history, units, edits, ops, cause>>

\* atomicCopy onto the target fails: everything changed so far is undone.
ReplaceFails ==
    /\ op.pc = "replace"
    /\ op.i \in Entries
    /\ disk[op.i] # Odd
    /\ op' = [op EXCEPT !.pc = "undo", !.changed = Changed]
    /\ UNCHANGED <<disk, archives, history, units, edits, ops, cause>>

\* Mutant: the services stay down after an early return.
ReviveOnlyAfterUndo == "done"

ReviveAfterReturn == "revive"

\* The target is not a regular file, or cannot be looked at or saved: Restore
\* returns, what it has replaced so far stays, and the services are restarted.
ReplaceReturns ==
    /\ op.pc = "replace"
    /\ op.i \in Entries
    /\ op' = [op EXCEPT !.pc = ReviveAfterReturn]
    /\ cause' = cause \cup {c \in {"early"} : disk # op.before}
    /\ UNCHANGED <<disk, archives, history, units, edits, ops>>

\* AfterRestore: daemon-reload, then the Agent and the Core are restarted and
\* checked, up to the first failure.
Restarted(k) == [u \in Units |-> CASE k = "all"   -> TRUE
                                   [] k = "agent" -> u = "agent"
                                   [] k = "none"  -> FALSE]

Gate ==
    /\ op.pc = "gate"
    /\ \/ /\ units' = Restarted("all")
          /\ Record("restore", op.n, TRUE)
          /\ UNCHANGED cause
       \/ \E k \in {"agent", "none"} :
            /\ units' = Restarted(k)
            /\ op' = [op EXCEPT !.pc = "undo"]
            /\ UNCHANGED <<history, cause>>
    /\ UNCHANGED <<disk, archives, edits, ops>>

\* Mutant: the first file replaced is not undone.
ToUndoButFirst == op.changed \ {1}

ToUndo == op.changed

\* rollback goes backwards over what changed, and on when a copy fails.
Undo ==
    /\ op.pc = "undo"
    /\ \/ ToUndo = {} /\ op' = [op EXCEPT !.pc = "revive"] /\ UNCHANGED <<disk, cause>>
       \/ \E f \in ToUndo :
            /\ \A g \in ToUndo : g <= f
            /\ op' = [op EXCEPT !.changed = @ \ {f}]
            /\ \/ disk' = [disk EXCEPT ![f] = op.before[f]] /\ UNCHANGED cause
               \/ /\ UNCHANGED disk
                  /\ cause' = cause \cup {c \in {"undo"} : disk[f] # op.before[f]}
    /\ UNCHANGED <<archives, history, units, edits, ops>>

\* AfterRestore once more, without the caller's cancellation.
Revive ==
    /\ op.pc = "revive"
    /\ \E k \in {"all", "agent", "none"} :
         /\ units' = Restarted(k)
         /\ cause' = cause \cup {c \in {"gate"} : k # "all"}
    /\ op' = [op EXCEPT !.pc = "done"]
    /\ UNCHANGED <<disk, archives, history, edits, ops>>

RestoreFailed ==
    /\ op.pc = "done"
    /\ Record("restore", op.n, FALSE)
    /\ UNCHANGED <<disk, archives, units, edits, ops, cause>>

Restoring == op.pc \in {"stop", "replace", "gate", "undo", "revive", "done"}

\* The updater is killed.  systemd does not start what was stopped.
Crash ==
    /\ ~Idle
    /\ op' = NoOp
    /\ cause' = cause \cup {c \in {"crash"} : Restoring}
    /\ UNCHANGED <<disk, archives, history, units, edits, ops>>

-----------------------------------------------------------------------------

Next ==
    \/ \E f \in Files, c \in Content : Write(f, c)
    \/ BeginCreate \/ Collect \/ CollectFails \/ Archive \/ ArchiveFails
    \/ Publish \/ PublishFails \/ VerifyNew
    \/ \E n \in 1..(MaxOps + 1) : VerifyArchive(n) \/ BeginRestore(n) \/ RestoreRefused(n)
    \/ Stop \/ StopFails \/ ReplaceOne \/ ReplaceFails \/ ReplaceReturns
    \/ Gate \/ Undo \/ Revive \/ RestoreFailed
    \/ Crash

Spec == Init /\ [][Next]_vars

-----------------------------------------------------------------------------

TypeOK ==
    /\ disk \in [Files -> Content]
    /\ \A n \in 1..Len(archives) : archives[n].sums \in [Files -> Stored]
    /\ \A k \in 1..Len(history) : history[k].type \in {"create", "verify", "restore"}
    /\ units \in [Units -> BOOLEAN]
    /\ op.pc \in {"idle", "collect", "archive", "publish", "verify", "stop", "replace",
                  "gate", "undo", "revive", "done"}
    /\ op.i \in Files /\ op.changed \subseteq Files
    /\ cause \subseteq {"stop", "early", "undo", "gate", "crash"}

\* A backup the history calls succeeded can be restored: its archive is there, has
\* every required source, and its payload matches its manifest, although files
\* changed, came and went between the hashing and the archiving.
SucceededIsIntact ==
    \A k \in 1..Len(history) :
        history[k].type = "create" /\ history[k].ok =>
            LET a == archives[history[k].n]
            IN a.kept /\ a.data = a.sums /\ \A f \in Required : a.sums[f] # Absent

\* Once a restore is over, both services run again, whichever way it ended, unless
\* systemctl itself failed or the updater was killed.
ServicesReturn ==
    Idle /\ cause \cap {"stop", "gate", "crash"} = {} => \A u \in Units : units[u]

\* What a restore puts in place: the entries of the archive.
Installs == [f \in Files |-> IF op.sums[f] = Absent THEN op.before[f] ELSE op.sums[f]]

\* The refinement of AllOrNothing, as seen between restores; the files also change
\* between them.
Transaction == INSTANCE AllOrNothing WITH
    Cells    <- Files,
    Contents <- Content,
    NoGoal   <- None,
    Shared   <- TRUE,
    content  <- IF Restoring THEN op.before ELSE disk,
    goal     <- IF Restoring THEN Installs ELSE None,
    fault    <- ~Restoring /\ cause \cap {"early", "undo", "crash"} # {}
=============================================================================
