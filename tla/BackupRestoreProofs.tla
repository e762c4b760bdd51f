------------------------ MODULE BackupRestoreProofs ------------------------
(***************************************************************************)
(* What holds of BackupRestore for every number of files, whatever they    *)
(* contain and whoever changes them.  RestoreInv says how far the files    *)
(* are from what a restore found, at each of its stages; from it follows   *)
(* that BackupRestore implements AllOrNothing.  ArchiveInv says that what  *)
(* the history calls a succeeded backup is not the archive a later Create  *)
(* may remove.                                                             *)
(***************************************************************************)
EXTENDS BackupPart, TLAPS

Saves   == [B!Files -> B!Content]
Sums    == [B!Files -> B!Stored]
Archives == [sums : Sums, data : Sums, kept : BOOLEAN]
Stages  == {"idle", "collect", "archive", "publish", "verify", "stop", "replace", "gate", "undo",
            "revive", "done"}
Op      == [pc : Stages, i : B!Files, n : Nat, sums : Sums \cup {None}, data : Sums \cup {None},
            before : Saves \cup {None}, changed : SUBSET B!Files]

\* There is a file and something to write to it, what the operator brings is an
\* archive, and None is no state of the files.
BackupConstants ==
    /\ Count \in Nat \ {0} /\ Values # {}
    /\ Brought \subseteq Archives
    /\ None \notin Saves /\ None \notin Sums

\* The causes that AllOrNothing calls a fault.
Faults == {"early", "undo", "crash"}

OpType ==
    /\ disk \in Saves
    /\ archives \in Seq(Archives)
    /\ op \in Op
    /\ op.pc \in {"collect", "archive", "publish"} => op.sums \in Sums /\ op.data \in Sums
    /\ op.pc = "verify" => op.n = Len(archives) /\ op.n # 0

\* The files at each stage of a restore.
RestoreInv ==
    /\ B!Restoring => op.before \in Saves /\ op.sums \in Sums /\ op.data = op.sums
    /\ op.pc \in {"stop", "replace", "gate"} => cause = {}
    /\ op.pc = "stop" => disk = op.before /\ op.i = 1 /\ op.changed = {}
    /\ op.pc = "replace" =>
         \A f \in B!Files : /\ f >= op.i => disk[f] = op.before[f]
                            /\ f < op.i => disk[f] = B!Installs[f]
                            /\ f \notin op.changed => disk[f] = op.before[f]
    /\ op.pc = "gate" => /\ \A f \in B!Files : f \notin op.changed => disk[f] = op.before[f]
                         /\ disk = B!Installs
    /\ op.pc = "undo" /\ cause \cap Faults = {} =>
         \A f \in B!Files : f \notin op.changed => disk[f] = op.before[f]
    /\ op.pc \in {"revive", "done"} /\ cause \cap Faults = {} => disk = op.before

\* No operation, and a fresh one, are of their type.
LEMMA NoOpType == BackupConstants => B!NoOp \in Op /\ B!Nothing \in Sums
  BY DEF BackupConstants, B!NoOp, Op, Stages, B!Files, B!Nothing, Sums, B!Stored

\* Going to the next file changes nothing else of the operation.
LEMMA AdvanceType ==
    ASSUME BackupConstants, op \in Op, NEW next \in Stages
    PROVE  /\ B!Advance(next) \in Op
           /\ B!Advance(next).pc \in {op.pc, next}
           /\ op.i < Count => B!Advance(next).pc = op.pc /\ B!Advance(next).i = op.i + 1
           /\ ~(op.i < Count) => B!Advance(next).pc = next
           /\ B!Advance(next).sums = op.sums /\ B!Advance(next).data = op.data
           /\ B!Advance(next).before = op.before /\ B!Advance(next).changed = op.changed
<1>1. op.i \in Nat /\ 1 <= op.i /\ op.i <= Count /\ 1 \in B!Files /\ Count \in Nat
  BY DEF BackupConstants, Op, B!Files
<1>2. CASE op.i < Count
  <2>1. B!Advance(next) = [op EXCEPT !.i = op.i + 1] /\ op.i + 1 \in B!Files
    BY <1>1, <1>2 DEF B!Advance, B!Files
  <2> QED
    BY <1>2, <2>1, Zenon DEF Op
<1>3. CASE ~(op.i < Count)
  <2>1. B!Advance(next) = [op EXCEPT !.i = 1, !.pc = next]
    BY <1>3, Zenon DEF B!Advance
  <2> QED
    BY <1>1, <1>3, <2>1, Zenon DEF Op
<1> QED
  BY <1>2, <1>3, Zenon

\* The host starts with regular files and an archive from elsewhere.
LEMMA RestoreInit == BackupConstants /\ B!Init => OpType /\ RestoreInv
<1> SUFFICES ASSUME BackupConstants, B!Init
             PROVE  OpType /\ RestoreInv
  BY Zenon
<1>1. disk \in Saves
  <2>1. (CHOOSE v \in Values : TRUE) \in B!Content
    BY Zenon DEF BackupConstants, B!Content, B!Stored
  <2> QED
    BY <2>1, Zenon DEF B!Init, Saves
<1>2. archives \in Seq(Archives)
  <2>1. PICK a \in Brought : archives = <<a>>
    BY Zenon DEF B!Init
  <2> QED
    BY <2>1 DEF BackupConstants
<1>3. op \in Op /\ op.pc = "idle"
  BY NoOpType, Zenon DEF B!Init, B!NoOp
<1> QED
  BY <1>1, <1>2, <1>3, Zenon DEF OpType, RestoreInv, B!Restoring

\* Every step keeps the types.
LEMMA OpTypeNext == BackupConstants /\ OpType /\ RestoreInv /\ [B!Next]_(B!vars) => OpType'
<1> SUFFICES ASSUME BackupConstants, OpType, RestoreInv, [B!Next]_(B!vars)
             PROVE  OpType'
  BY Zenon
<1>0. disk \in Saves /\ archives \in Seq(Archives) /\ op \in Op /\ B!NoOp \in Op /\ B!NoOp.pc = "idle"
  BY NoOpType, Zenon DEF OpType, B!NoOp
<1>1. ASSUME NEW f \in B!Files, NEW c \in B!Content, B!Write(f, c)
      PROVE  OpType'
  BY <1>0, <1>1, Zenon DEF B!Write, OpType, Saves
<1>2. CASE B!BeginCreate
  <2>1. /\ op' \in Op /\ op'.pc = "collect" /\ op'.sums = B!Nothing /\ op'.data = B!Nothing
        /\ UNCHANGED <<disk, archives>>
    BY <1>0, <1>2, NoOpType, Zenon DEF B!BeginCreate, B!NoOp, Op, Stages
  <2> QED
    BY <2>1, NoOpType, Zenon DEF OpType
<1>3. CASE B!Collect
  <2>1. op.sums \in Sums /\ op.data \in Sums /\ op.i \in B!Files /\ UNCHANGED <<disk, archives>>
    BY <1>3, Zenon DEF B!Collect, OpType, Op
  <2> DEFINE a == B!Advance("archive")
  <2>2. a \in Op /\ a.pc \in {"collect", "archive"} /\ a.sums = op.sums /\ a.data = op.data
    BY <1>0, <1>3, AdvanceType, Zenon DEF B!Collect, Stages
  <2> HIDE DEF a
  <2>3. CASE op' = a
    BY <2>1, <2>2, <2>3, Zenon DEF OpType
  <2>4. CASE disk[op.i] \in Values /\ op' = [a EXCEPT !.sums[op.i] = disk[op.i],
                      !.data[op.i] = IF Source[op.i] = "db" THEN disk[op.i] ELSE Absent]
    <3>1. /\ [a.sums EXCEPT ![op.i] = disk[op.i]] \in Sums
          /\ [a.data EXCEPT ![op.i] = IF Source[op.i] = "db" THEN disk[op.i] ELSE Absent] \in Sums
      BY <2>1, <2>2, <2>4, Zenon DEF Sums, B!Stored
    <3>2. op' \in Op /\ op'.pc = a.pc /\ op'.sums \in Sums /\ op'.data \in Sums
      BY <2>2, <2>4, <3>1, Zenon DEF Op
    <3> QED
      BY <2>1, <2>2, <3>2, Zenon DEF OpType
  <2> QED
    BY <1>3, <2>3, <2>4, Zenon DEF B!Collect, a
<1>4. CASE B!Archive
  <2>1. op.sums \in Sums /\ op.data \in Sums /\ op.i \in B!Files /\ UNCHANGED <<disk, archives>>
    BY <1>4, Zenon DEF B!Archive, OpType, Op
  <2> DEFINE a == B!Advance("publish")
  <2>2. a \in Op /\ a.pc \in {"archive", "publish"} /\ a.sums = op.sums /\ a.data = op.data
    BY <1>0, <1>4, AdvanceType, Zenon DEF B!Archive, Stages
  <2> HIDE DEF a
  <2>3. CASE op' = a
    BY <2>1, <2>2, <2>3, Zenon DEF OpType
  <2>4. ASSUME NEW v \in Values, op' = [a EXCEPT !.data[op.i] = v]
        PROVE  OpType'
    <3>1. [a.data EXCEPT ![op.i] = v] \in Sums
      BY <2>1, <2>2, Zenon DEF Sums, B!Stored
    <3>2. op' \in Op /\ op'.pc = a.pc /\ op'.sums = a.sums /\ op'.data \in Sums
      BY <2>2, <2>4, <3>1, Zenon DEF Op
    <3> QED
      BY <2>1, <2>2, <3>2, Zenon DEF OpType
  <2> QED
    BY <1>4, <2>3, <2>4, Zenon DEF B!Archive, a
<1>5. CASE B!Publish
  <2>1. op.sums \in Sums /\ op.data \in Sums
    BY <1>5, Zenon DEF B!Publish, OpType
  <2>2. [sums |-> op.sums, data |-> op.data, kept |-> TRUE] \in Archives
    BY <2>1, Zenon DEF Archives
  <2>3. archives' \in Seq(Archives) /\ Len(archives') = Len(archives) + 1 /\ Len(archives) \in Nat
    BY <1>0, <1>5, <2>2 DEF B!Publish
  <2>4. op' \in Op /\ op'.pc = "verify" /\ op'.n = Len(archives') /\ op'.n # 0
    <3>1. op' = [op EXCEPT !.pc = "verify", !.n = Len(archives')]
      BY <1>5, Zenon DEF B!Publish
    <3>2. Len(archives') \in Nat /\ Len(archives') # 0
      BY <2>3
    <3> QED
      BY <1>0, <3>1, <3>2, Zenon DEF Op, Stages
  <2> QED
    BY <1>0, <1>5, <2>3, <2>4, Zenon DEF B!Publish, OpType
<1>6. CASE B!VerifyNew
  <2>1. op' = B!NoOp /\ UNCHANGED disk
    BY <1>6, Zenon DEF B!VerifyNew, B!Record
  <2>2. archives' \in Seq(Archives)
    <3>1. op.n \in 1..Len(archives) /\ archives[op.n] \in Archives
      BY <1>0, <1>6 DEF B!VerifyNew, OpType
    <3>2. [archives[op.n] EXCEPT !.kept = FALSE] \in Archives
      BY <3>1, Zenon DEF Archives
    <3>3. [archives EXCEPT ![op.n] = [archives[op.n] EXCEPT !.kept = FALSE]] \in Seq(Archives)
      BY <1>0, <3>1, <3>2
    <3> QED
      BY <1>0, <1>6, <3>3, Zenon DEF B!VerifyNew
  <2> QED
    BY <1>0, <2>1, <2>2, Zenon DEF OpType
<1>7. ASSUME NEW n \in 1..(MaxOps + 1), B!BeginRestore(n)
      PROVE  OpType'
  <2>1. archives[n] \in Archives /\ n \in Nat
    BY <1>0, <1>7 DEF B!BeginRestore
  <2>2. op' \in Op /\ op'.pc = "stop"
    BY <1>0, <1>7, <2>1, Zenon DEF B!BeginRestore, Archives, B!NoOp, Op, Stages
  <2> QED
    BY <1>0, <1>7, <2>2, Zenon DEF B!BeginRestore, OpType
<1>8. CASE B!ReplaceOne
  <2>1. op.i \in B!Files /\ op.data \in Sums /\ UNCHANGED archives
    BY <1>0, <1>8, Zenon DEF B!ReplaceOne, RestoreInv, B!Restoring, Op
  <2>2. disk' \in Saves
    BY <1>0, <1>8, <2>1, Zenon DEF B!ReplaceOne, Saves, Sums, B!Content
  <2> DEFINE a == B!Advance("gate")
  <2>3. a \in Op /\ a.pc \in {"replace", "gate"}
    BY <1>0, <1>8, AdvanceType, Zenon DEF B!ReplaceOne, Stages
  <2> HIDE DEF a
  <2>4. op' \in Op /\ op'.pc \in {"replace", "gate"}
    <3>1. op' = a \/ op' = [a EXCEPT !.changed = B!Changed]
      BY <1>8, Zenon DEF B!ReplaceOne, a
    <3>2. B!Changed \subseteq B!Files
      BY <1>0, <2>1, Zenon DEF B!Changed, Op
    <3> QED
      BY <2>3, <3>1, <3>2, Zenon DEF Op
  <2> QED
    BY <1>0, <2>1, <2>2, <2>4, Zenon DEF OpType
<1>9. CASE B!Stop \/ B!ReplaceFails \/ B!ReplaceReturns \/ B!Revive
  <2>1. B!Changed \subseteq B!Files
    BY <1>0, Zenon DEF B!Changed, Op
  <2>2. op' \in Op /\ op'.pc \in {"replace", "undo", "revive", "done"}
    BY <1>0, <1>9, <2>1, Zenon DEF B!Stop, B!ReplaceFails, B!ReplaceReturns, B!Revive, B!ReviveAfterReturn, Op, Stages
  <2> QED
    BY <1>0, <1>9, <2>2, Zenon DEF B!Stop, B!ReplaceFails, B!ReplaceReturns, B!Revive, OpType
<1>10. CASE B!Gate
  <2>1. op' = B!NoOp \/ op' = [op EXCEPT !.pc = "undo"]
    BY <1>10, Zenon DEF B!Gate, B!Record
  <2>2. op' \in Op /\ op'.pc \in {"idle", "undo"}
    BY <1>0, <2>1, Zenon DEF Op, Stages
  <2> QED
    BY <1>0, <1>10, <2>2, Zenon DEF B!Gate, OpType
<1>11. CASE B!Undo
  <2>1. op.before \in Saves /\ UNCHANGED archives
    BY <1>11, Zenon DEF B!Undo, RestoreInv, B!Restoring
  <2>2. disk' = disk \/ \E f \in B!Files : disk' = [disk EXCEPT ![f] = op.before[f]]
    BY <1>0, <1>11, Zenon DEF B!Undo, B!ToUndo, Op
  <2>3. op' = [op EXCEPT !.pc = "revive"] \/ \E f \in B!Files : op' = [op EXCEPT !.changed = op.changed \ {f}]
    BY <1>0, <1>11, Zenon DEF B!Undo, B!ToUndo, Op
  <2>4. op' \in Op /\ op'.pc \in {"undo", "revive"}
    BY <1>0, <1>11, <2>3 DEF Op, Stages, B!Undo
  <2>5. disk' \in Saves
    BY <1>0, <2>1, <2>2, Zenon DEF Saves
  <2> QED
    BY <1>0, <2>1, <2>4, <2>5, Zenon DEF OpType
<1>12. CASE \/ B!CollectFails \/ B!ArchiveFails \/ B!PublishFails \/ B!StopFails \/ B!RestoreFailed \/ B!Crash
            \/ \E n \in 1..(MaxOps + 1) : B!VerifyArchive(n) \/ B!RestoreRefused(n)
  <2>1. op' = B!NoOp /\ UNCHANGED <<disk, archives>>
    BY <1>12, Zenon DEF B!CollectFails, B!ArchiveFails, B!PublishFails, B!CreateFails, B!StopFails, B!RestoreFailed, B!Crash,
                 B!VerifyArchive, B!RestoreRefused, B!Record
  <2> QED
    BY <1>0, <2>1, Zenon DEF OpType
<1>13. CASE UNCHANGED B!vars
  BY <1>13, Zenon DEF B!vars, OpType
<1> QED
  BY <1>1, <1>2, <1>3, <1>4, <1>5, <1>6, <1>7, <1>8, <1>9, <1>10, <1>11, <1>12, <1>13, Zenon DEF B!Next

\* The stages outside a restore.
Outside == {"idle", "collect", "archive", "publish", "verify"}

\* The steps of Create and Verify, and of a restore that is refused.
Beside ==
    \/ B!BeginCreate \/ B!Collect \/ B!CollectFails \/ B!Archive \/ B!ArchiveFails
    \/ B!Publish \/ B!PublishFails \/ B!VerifyNew
    \/ \E n \in 1..(MaxOps + 1) : B!VerifyArchive(n) \/ B!RestoreRefused(n)

\* Create and Verify, and a restore that is refused, touch no file.
LEMMA BesideStep ==
    BackupConstants /\ OpType /\ Beside => op.pc \in Outside /\ op'.pc \in Outside /\ UNCHANGED <<disk, cause>>
<1> SUFFICES ASSUME BackupConstants, OpType, Beside
             PROVE  op.pc \in Outside /\ op'.pc \in Outside /\ UNCHANGED <<disk, cause>>
  BY Zenon
<1>0. op \in Op /\ B!NoOp.pc = "idle"
  BY Zenon DEF OpType, B!NoOp
<1>1. CASE B!BeginCreate
  BY <1>1, Zenon DEF B!BeginCreate, B!Started, B!Idle, B!NoOp, Outside
<1>2. CASE B!Collect
  <2> DEFINE a == B!Advance("archive")
  <2>1. op.pc = "collect" /\ a \in Op /\ a.pc \in {"collect", "archive"}
    BY <1>0, <1>2, AdvanceType, Zenon DEF B!Collect, Stages
  <2> HIDE DEF a
  <2>2. op' = a \/ op' = [a EXCEPT !.sums[op.i] = disk[op.i],
                      !.data[op.i] = IF Source[op.i] = "db" THEN disk[op.i] ELSE Absent]
    BY <1>2, Zenon DEF B!Collect, a
  <2>3. op'.pc = a.pc
    BY <2>1, <2>2, Zenon DEF Op
  <2> QED
    BY <1>2, <2>1, <2>3, Zenon DEF B!Collect, Outside
<1>3. CASE B!Archive
  <2> DEFINE a == B!Advance("publish")
  <2>1. op.pc = "archive" /\ a \in Op /\ a.pc \in {"archive", "publish"}
    BY <1>0, <1>3, AdvanceType, Zenon DEF B!Archive, Stages
  <2> HIDE DEF a
  <2>2. op' = a \/ \E v \in Values : op' = [a EXCEPT !.data[op.i] = v]
    BY <1>3, Zenon DEF B!Archive, a
  <2>3. op'.pc = a.pc
    BY <2>1, <2>2, Zenon DEF Op
  <2> QED
    BY <1>3, <2>1, <2>3, Zenon DEF B!Archive, Outside
<1>4. CASE B!Publish
  <2>1. op' = [op EXCEPT !.pc = "verify", !.n = Len(archives')]
    BY <1>4, Zenon DEF B!Publish
  <2>2. op'.pc = "verify"
    BY <1>0, <2>1, Zenon DEF Op
  <2> QED
    BY <1>4, <2>2, Zenon DEF B!Publish, Outside
<1>5. CASE B!CollectFails \/ B!ArchiveFails \/ B!PublishFails \/ B!VerifyNew
  BY <1>0, <1>5, Zenon DEF B!CollectFails, B!ArchiveFails, B!PublishFails, B!CreateFails, B!VerifyNew, B!Record, Outside
<1>6. ASSUME NEW n \in 1..(MaxOps + 1), B!VerifyArchive(n) \/ B!RestoreRefused(n)
      PROVE  op.pc \in Outside /\ op'.pc \in Outside /\ UNCHANGED <<disk, cause>>
  BY <1>0, <1>6, Zenon DEF B!VerifyArchive, B!RestoreRefused, B!Record, B!Started, B!Idle, Outside
<1> QED
  BY <1>1, <1>2, <1>3, <1>4, <1>5, <1>6, Zenon DEF Beside

\* Every step keeps what RestoreInv says of the files.
LEMMA RestoreNext == BackupConstants /\ OpType /\ RestoreInv /\ [B!Next]_(B!vars) => RestoreInv'
<1> SUFFICES ASSUME BackupConstants, OpType, RestoreInv, [B!Next]_(B!vars)
             PROVE  RestoreInv'
  BY Zenon
<1>0. disk \in Saves /\ archives \in Seq(Archives) /\ op \in Op /\ B!NoOp.pc = "idle"
  BY Zenon DEF OpType, B!NoOp
<1>1. CASE op'.pc \in Outside
  BY <1>1, Zenon DEF RestoreInv, B!Restoring, Outside
<1>2. ASSUME NEW n \in 1..(MaxOps + 1), B!BeginRestore(n)
      PROVE  RestoreInv'
  <2>1. archives[n] \in Archives /\ archives[n].data = archives[n].sums
    BY <1>0, <1>2 DEF B!BeginRestore, B!Intact
  <2>2. /\ op'.pc = "stop" /\ op'.before = disk /\ op'.sums = archives[n].sums
        /\ op'.data = archives[n].data /\ op'.i = 1 /\ op'.changed = {} /\ disk' = disk /\ cause' = {}
    BY <1>2, Zenon DEF B!BeginRestore, B!NoOp
  <2> QED
    BY <1>0, <2>1, <2>2, Zenon DEF RestoreInv, Archives
<1>3. CASE B!Stop
  <2>1. /\ op.pc = "stop" /\ op'.pc = "replace" /\ UNCHANGED <<disk, cause>>
        /\ op'.before = op.before /\ op'.sums = op.sums /\ op'.data = op.data
        /\ op'.i = op.i /\ op'.changed = op.changed
    BY <1>0, <1>3, Zenon DEF B!Stop, Op
  <2>2. \A f \in B!Files : f >= 1 /\ ~(f < 1)
    BY DEF B!Files
  <2> QED
    BY <2>1, <2>2, Zenon DEF RestoreInv, B!Restoring
<1>4. CASE B!ReplaceOne
  <2> DEFINE a == B!Advance("gate")
  <2>1. op.pc = "replace" /\ op.before \in Saves /\ op.sums \in Sums /\ op.data = op.sums /\ cause' = {}
    BY <1>4, Zenon DEF B!ReplaceOne, RestoreInv, B!Restoring
  <2>2. /\ op.i < Count => a.pc = "replace" /\ a.i = op.i + 1
        /\ ~(op.i < Count) => a.pc = "gate"
        /\ a \in Op /\ a.sums = op.sums /\ a.data = op.data /\ a.before = op.before
        /\ a.changed = op.changed
    BY <1>0, <2>1, AdvanceType, Zenon DEF Stages
  <2> HIDE DEF a
  <2>3. op.i \in Nat /\ 1 <= op.i /\ op.i <= Count /\ Count \in Nat /\ op.i \in B!Files /\ op.changed \subseteq B!Files
    BY <1>0 DEF Op, B!Files, BackupConstants
  <2>4. /\ op'.pc = a.pc /\ op'.i = a.i /\ op'.sums = op.sums /\ op'.data = op.data
        /\ op'.before = op.before /\ op.changed \subseteq op'.changed
    BY <1>4, <2>2, Zenon DEF B!ReplaceOne, B!Changed, Op, a
  <2>5. B!Installs' = B!Installs
    BY <2>4, Zenon DEF B!Installs
  <2>6. \A f \in B!Files : /\ f > op.i => disk'[f] = op.before[f]
                           /\ f <= op.i => disk'[f] = B!Installs[f]
                           /\ f \notin op'.changed => disk'[f] = op.before[f]
    <3>1. \A f \in B!Files : /\ f >= op.i => disk[f] = op.before[f]
                             /\ f < op.i => disk[f] = B!Installs[f]
                             /\ f \notin op.changed => disk[f] = op.before[f]
      BY <2>1, Zenon DEF RestoreInv
    <3>2. CASE op.i \notin B!Entries /\ disk' = disk
      <4>1. B!Installs[op.i] = op.before[op.i]
        BY <2>3, <3>2, Zenon DEF B!Entries, B!Installs
      <4> QED
        BY <2>3, <2>4, <3>1, <3>2, <4>1 DEF B!Files
    <3>3. CASE /\ op.i \in B!Entries /\ disk' = [disk EXCEPT ![op.i] = op.data[op.i]]
               /\ op' = [a EXCEPT !.changed = B!Changed]
      <4>1. B!Installs[op.i] = op.data[op.i]
        BY <2>1, <3>3, Zenon DEF B!Entries, B!Installs
      <4>2. disk'[op.i] = op.data[op.i] /\ \A f \in B!Files : f # op.i => disk'[f] = disk[f]
        BY <1>0, <2>3, <3>3, Zenon DEF Saves
      <4>3. op.i \in op'.changed
        BY <2>2, <3>3, Zenon DEF B!Changed, Op
      <4> QED
        BY <2>3, <2>4, <3>1, <4>1, <4>2, <4>3 DEF B!Files
    <3> QED
      BY <1>4, <3>2, <3>3, Zenon DEF B!ReplaceOne, a
  <2>7. CASE op.i < Count
    BY <2>1, <2>2, <2>3, <2>4, <2>5, <2>6, <2>7 DEF RestoreInv, B!Files
  <2>8. CASE ~(op.i < Count)
    <3>1. disk' = B!Installs
      <4>1. disk' \in Saves
        BY OpTypeNext, Zenon DEF OpType
      <4>2. \A f \in B!Files : disk'[f] = B!Installs[f]
        BY <2>3, <2>6, <2>8 DEF B!Files
      <4> QED
        BY <4>1, <4>2, Zenon DEF Saves, B!Installs
    <3> QED
      BY <2>1, <2>2, <2>4, <2>5, <2>6, <2>8, <3>1 DEF RestoreInv
  <2> QED
    BY <2>7, <2>8, Zenon
<1>5. CASE B!ReplaceFails
  <2>1. /\ op.pc = "replace" /\ op'.pc = "undo" /\ disk' = disk /\ op.changed \subseteq op'.changed
        /\ op'.sums = op.sums /\ op'.data = op.data /\ op'.before = op.before
    BY <1>0, <1>5, Zenon DEF B!ReplaceFails, B!Changed, Op
  <2> QED
    BY <2>1, Zenon DEF RestoreInv, B!Restoring
<1>6. CASE B!ReplaceReturns
  <2>1. /\ op.pc = "replace" /\ op'.pc = "revive" /\ disk' = disk
        /\ op'.sums = op.sums /\ op'.data = op.data /\ op'.before = op.before
    BY <1>0, <1>6, Zenon DEF B!ReplaceReturns, B!ReviveAfterReturn, Op
  <2>2. disk # op.before => "early" \in cause'
    BY <1>6, Zenon DEF B!ReplaceReturns
  <2> QED
    BY <2>1, <2>2, Zenon DEF RestoreInv, B!Restoring, Faults
<1>7. CASE B!Gate /\ op' = [op EXCEPT !.pc = "undo"]
  <2>1. /\ op.pc = "gate" /\ op'.pc = "undo" /\ disk' = disk /\ op'.changed = op.changed
        /\ op'.sums = op.sums /\ op'.data = op.data /\ op'.before = op.before
    BY <1>0, <1>7, Zenon DEF B!Gate, Op
  <2> QED
    BY <2>1, Zenon DEF RestoreInv, B!Restoring
<1>8. CASE B!Undo
  <2>1. /\ op.pc = "undo" /\ op.before \in Saves /\ op.sums \in Sums /\ op.data = op.sums
        /\ op'.sums = op.sums /\ op'.data = op.data /\ op'.before = op.before
        /\ cause \subseteq cause'
    BY <1>0, <1>8, Zenon DEF B!Undo, RestoreInv, B!Restoring, Op
  <2>2. CASE B!ToUndo = {} /\ op' = [op EXCEPT !.pc = "revive"] /\ UNCHANGED <<disk, cause>>
    <3>1. op'.pc = "revive" /\ op.changed = {}
      BY <1>0, <2>2, Zenon DEF B!ToUndo, Op
    <3>2. cause \cap Faults = {} => disk = op.before
      BY <1>0, <2>1, <3>1 DEF RestoreInv, Saves
    <3> QED
      BY <2>1, <2>2, <3>1, <3>2, Zenon DEF RestoreInv
  <2>3. ASSUME NEW f \in B!Files, op' = [op EXCEPT !.changed = op.changed \ {f}],
               \/ disk' = [disk EXCEPT ![f] = op.before[f]] /\ UNCHANGED cause
               \/ /\ UNCHANGED disk
                  /\ cause' = cause \cup {c \in {"undo"} : disk[f] # op.before[f]}
        PROVE  RestoreInv'
    <3>1. op'.pc = "undo" /\ op'.changed = op.changed \ {f}
      BY <1>0, <2>1, <2>3, Zenon DEF Op
    <3>2. cause' \cap Faults = {} =>
            disk'[f] = op.before[f] /\ \A g \in B!Files : g # f => disk'[g] = disk[g]
      BY <1>0, <2>3, Zenon DEF Saves, Faults
    <3>3. cause' \cap Faults = {} => cause \cap Faults = {}
      BY <2>1, Zenon
    <3> QED
      BY <2>1, <3>1, <3>2, <3>3, Zenon DEF RestoreInv
  <2> QED
    BY <1>0, <1>8, <2>2, <2>3, Zenon DEF B!Undo, B!ToUndo, Op
<1>9. CASE B!Revive
  <2>1. /\ op.pc = "revive" /\ op'.pc = "done" /\ disk' = disk /\ cause \subseteq cause'
        /\ op'.sums = op.sums /\ op'.data = op.data /\ op'.before = op.before
    BY <1>0, <1>9, Zenon DEF B!Revive, Op
  <2> QED
    BY <2>1, Zenon DEF RestoreInv, B!Restoring
<1>10. CASE UNCHANGED B!vars
  BY <1>10, Zenon DEF B!vars, RestoreInv, B!Restoring, B!Installs
<1>11. CASE Beside \/ B!StopFails \/ B!RestoreFailed \/ B!Crash \/ (B!Gate /\ op' = B!NoOp)
  BY <1>0, <1>1, <1>11, BesideStep, Zenon DEF B!StopFails, B!RestoreFailed, B!Crash, B!Record, Outside
<1>12. ASSUME NEW f \in B!Files, NEW c \in B!Content, B!Write(f, c)
       PROVE  RestoreInv'
  BY <1>1, <1>12, Zenon DEF B!Write, Outside
<1>13. CASE B!Gate
  <2>1. op' = B!NoOp \/ op' = [op EXCEPT !.pc = "undo"]
    BY <1>13, Zenon DEF B!Gate, B!Record
  <2> QED
    BY <1>7, <1>11, <1>13, <2>1, Zenon
<1>14. B!Next => \/ Beside \/ B!Stop \/ B!StopFails \/ B!ReplaceOne \/ B!ReplaceFails \/ B!ReplaceReturns
                 \/ B!Gate \/ B!Undo \/ B!Revive \/ B!RestoreFailed \/ B!Crash
                 \/ \E f \in B!Files, c \in B!Content : B!Write(f, c)
                 \/ \E n \in 1..(MaxOps + 1) : B!BeginRestore(n)
  BY Zenon DEF B!Next, Beside
<1> QED
  BY <1>2, <1>3, <1>4, <1>5, <1>6, <1>8, <1>9, <1>10, <1>11, <1>12, <1>13, <1>14, Zenon

-----------------------------------------------------------------------------
(* The refinement.                                                         *)

\* What a restore is to install is a state of the files.
LEMMA GoalIsHolding ==
    ASSUME BackupConstants, op.before \in Saves, op.sums \in Sums
    PROVE  B!Installs \in Saves /\ B!Installs # None
  BY Zenon DEF BackupConstants, B!Installs, Saves, Sums, B!Content

\* The first state is one AllOrNothing can start in.
LEMMA RefinesInit == BackupConstants /\ B!Init => B!Transaction!AONInit
<1> SUFFICES ASSUME BackupConstants, B!Init
             PROVE  B!Transaction!AONInit
  BY Zenon
<1>1. disk \in Saves
  BY RestoreInit, Zenon DEF OpType
<1>2. ~B!Restoring /\ cause = {}
  BY Zenon DEF B!Init, B!NoOp, B!Restoring
<1> QED
  BY <1>1, <1>2, Zenon DEF B!Transaction!AONInit, B!Transaction!Holding, Saves

\* Every step of BackupRestore is a step of AllOrNothing or changes nothing of it.
LEMMA RefinesNext ==
    BackupConstants /\ OpType /\ RestoreInv /\ [B!Next]_(B!vars) => [B!Transaction!AONNext]_(B!Transaction!aonVars)
<1> SUFFICES ASSUME BackupConstants, OpType, RestoreInv, [B!Next]_(B!vars)
             PROVE  [B!Transaction!AONNext]_(B!Transaction!aonVars)
  BY Zenon
<1>0. disk \in Saves /\ disk' \in Saves /\ op \in Op /\ B!NoOp.pc = "idle"
  BY OpTypeNext, Zenon DEF OpType, B!NoOp
<1>1. CASE ~B!Restoring /\ ~B!Restoring' /\ disk' = disk /\ cause' = cause
  BY <1>1, Zenon DEF B!Transaction!aonVars
<1>2. CASE B!Restoring /\ B!Restoring' /\ op'.before = op.before /\ op'.sums = op.sums
  <2>1. B!Installs' = B!Installs
    BY <1>2, Zenon DEF B!Installs
  <2> QED
    BY <1>2, <2>1, Zenon DEF B!Transaction!aonVars
<1>3. ASSUME NEW f \in B!Files, NEW c \in B!Content, B!Write(f, c)
      PROVE  B!Transaction!AONNext
  <2>1. ~B!Restoring /\ ~B!Restoring' /\ cause' = cause
    BY <1>3, Zenon DEF B!Write, B!Restoring
  <2>2. B!Transaction!Edit
    BY <1>0, <2>1, Zenon DEF B!Transaction!Edit, B!Transaction!Holding, Saves
  <2> QED
    BY <2>2, Zenon DEF B!Transaction!AONNext
<1>4. ASSUME NEW n \in 1..(MaxOps + 1), B!BeginRestore(n)
      PROVE  B!Transaction!AONNext
  <2>1. ~B!Restoring
    BY <1>4, Zenon DEF B!BeginRestore, B!Started, B!Idle, B!Restoring
  <2>2. B!Restoring' /\ op'.before = disk
    BY <1>4, Zenon DEF B!BeginRestore, B!NoOp, B!Restoring
  <2>3. B!Installs' \in Saves
    <3>1. op'.before \in Saves /\ op'.sums \in Sums
      BY <2>2, RestoreNext, Zenon DEF RestoreInv
    <3> QED
      BY <3>1, Zenon DEF B!Installs, Saves, Sums, B!Content
  <2>4. B!Transaction!Begin
    BY <2>1, <2>2, <2>3, Zenon DEF B!Transaction!Begin, B!Transaction!Holding, Saves
  <2> QED
    BY <2>4, Zenon DEF B!Transaction!AONNext
<1>5. CASE /\ B!Restoring /\ ~B!Restoring'
           /\ \/ disk' = op.before /\ cause' \cap Faults = {}
              \/ disk' = B!Installs /\ cause' \cap Faults = {}
              \/ cause' \cap Faults # {}
  <2>0. /\ op.before \in Saves /\ op.sums \in Sums /\ B!Installs # None
    BY <1>5, GoalIsHolding, Zenon DEF RestoreInv
  <2>1. CASE disk' = op.before /\ cause' \cap Faults = {}
    BY <1>5, <2>0, <2>1, Zenon DEF B!Transaction!Abort, B!Transaction!AONNext, Faults
  <2>2. CASE disk' = B!Installs /\ cause' \cap Faults = {}
    BY <1>5, <2>0, <2>2, Zenon DEF B!Transaction!Commit, B!Transaction!AONNext, Faults
  <2>3. CASE cause' \cap Faults # {}
    BY <1>0, <1>5, <2>0, <2>3, Zenon DEF B!Transaction!Break, B!Transaction!AONNext, B!Transaction!Holding, Saves, Faults
  <2> QED
    BY <1>5, <2>1, <2>2, <2>3, Zenon
<1>6. CASE Beside
  BY <1>1, <1>6, BesideStep, Zenon DEF Outside, B!Restoring
<1>7. CASE B!Stop \/ B!ReplaceFails \/ B!ReplaceReturns \/ B!Revive \/ (B!Gate /\ op' = [op EXCEPT !.pc = "undo"])
  <2>1. /\ op.pc \in {"stop", "replace", "revive", "gate"}
        /\ op'.pc \in {"replace", "undo", "revive", "done"}
        /\ op'.before = op.before /\ op'.sums = op.sums
    BY <1>0, <1>7, Zenon DEF B!Stop, B!ReplaceFails, B!ReplaceReturns, B!ReviveAfterReturn, B!Revive, B!Gate, Op
  <2> QED
    BY <1>2, <2>1, Zenon DEF B!Restoring
<1>8. CASE B!ReplaceOne
  <2> DEFINE a == B!Advance("gate")
  <2>1. op.pc = "replace" /\ a \in Op /\ a.pc \in {"replace", "gate"}
        /\ a.before = op.before /\ a.sums = op.sums
    BY <1>0, <1>8, AdvanceType, Zenon DEF B!ReplaceOne, Stages
  <2> HIDE DEF a
  <2>2. op' = a \/ op' = [a EXCEPT !.changed = B!Changed]
    BY <1>8, Zenon DEF B!ReplaceOne, a
  <2>3. op'.pc = a.pc /\ op'.before = op.before /\ op'.sums = op.sums
    BY <2>1, <2>2, Zenon DEF Op
  <2> QED
    BY <1>2, <2>1, <2>3, Zenon DEF B!Restoring
<1>9. CASE B!Undo
  <2>1. /\ op.pc = "undo" /\ op'.pc \in {"undo", "revive"}
        /\ op'.before = op.before /\ op'.sums = op.sums
    BY <1>0, <1>9, Zenon DEF B!Undo, Op
  <2> QED
    BY <1>2, <2>1, Zenon DEF B!Restoring
<1>10. CASE B!StopFails
  <2>1. op.pc = "stop" /\ op' = B!NoOp /\ disk' = op.before /\ cause' = {"stop"}
    BY <1>10, Zenon DEF B!StopFails, B!Record, RestoreInv
  <2> QED
    BY <1>0, <1>5, <2>1, Zenon DEF B!Restoring, Faults
<1>11. CASE B!Gate /\ op' = B!NoOp
  <2>1. op.pc = "gate" /\ disk' = B!Installs /\ cause = {}
    BY <1>11, Zenon DEF B!Gate, RestoreInv
  <2>2. cause' = cause
    BY <1>0, <1>11, <2>1, Zenon DEF B!Gate, B!Record, Op
  <2> QED
    BY <1>0, <1>5, <1>11, <2>1, <2>2, Zenon DEF B!Restoring, Faults
<1>12. CASE B!RestoreFailed
  <2>1. op.pc = "done" /\ op' = B!NoOp /\ disk' = disk /\ cause' = cause
    BY <1>12, Zenon DEF B!RestoreFailed, B!Record
  <2>2. cause \cap Faults = {} => disk = op.before
    BY <2>1, Zenon DEF RestoreInv
  <2> QED
    BY <1>0, <1>5, <2>1, <2>2, Zenon DEF B!Restoring
<1>13. CASE B!Crash
  <2>1. op' = B!NoOp /\ disk' = disk /\ ~B!Restoring'
    BY <1>0, <1>13, Zenon DEF B!Crash, B!Restoring
  <2>2. CASE B!Restoring
    <3>1. "crash" \in cause' \cap Faults
      BY <1>13, <2>2, Zenon DEF B!Crash, Faults
    <3> QED
      BY <1>5, <2>1, <2>2, <3>1, Zenon
  <2>3. CASE ~B!Restoring
    <3>1. cause' = cause
      BY <1>13, <2>3, Zenon DEF B!Crash
    <3> QED
      BY <1>1, <2>1, <2>3, <3>1, Zenon
  <2> QED
    BY <2>2, <2>3, Zenon
<1>14. CASE B!Gate
  <2>1. op' = B!NoOp \/ op' = [op EXCEPT !.pc = "undo"]
    BY <1>14, Zenon DEF B!Gate, B!Record
  <2> QED
    BY <1>7, <1>11, <1>14, <2>1, Zenon
<1>15. CASE UNCHANGED B!vars
  <2>1. op' = op /\ disk' = disk /\ cause' = cause
    BY <1>15, Zenon DEF B!vars
  <2> QED
    BY <1>1, <1>2, <2>1, Zenon DEF B!Restoring
<1>16. B!Next => \/ Beside \/ B!Stop \/ B!StopFails \/ B!ReplaceOne \/ B!ReplaceFails \/ B!ReplaceReturns
                 \/ B!Gate \/ B!Undo \/ B!Revive \/ B!RestoreFailed \/ B!Crash
                 \/ \E f \in B!Files, c \in B!Content : B!Write(f, c)
                 \/ \E n \in 1..(MaxOps + 1) : B!BeginRestore(n)
  BY Zenon DEF B!Next, Beside
<1> QED
  BY <1>3, <1>4, <1>6, <1>7, <1>8, <1>9, <1>10, <1>12, <1>13, <1>14, <1>15, <1>16, Zenon

\* A restore installs every entry of the archive or leaves the files as it found
\* them, unless it returned early, a copy of the undo failed or the updater was
\* killed, whatever happens to the services on the way (Restore of
\* internal/backup/restore.go).
THEOREM RestoreIsAllOrNothing == BackupConstants /\ BackupSpec => B!Transaction!AONSpec
<1> SUFFICES ASSUME BackupConstants PROVE BackupSpec => B!Transaction!AONSpec
  BY Zenon
<1>1. BackupInit => OpType /\ RestoreInv /\ B!Transaction!AONInit
  BY RestoreInit, RefinesInit, Zenon DEF BackupInit
<1>2. OpType /\ RestoreInv /\ [BackupNext]_vars =>
        (OpType /\ RestoreInv)' /\ [B!Transaction!AONNext]_(B!Transaction!aonVars)
  <2>1. [BackupNext]_vars => [B!Next]_(B!vars)
    BY Zenon DEF BackupNext, vars, B!vars
  <2> QED
    BY <2>1, OpTypeNext, RestoreNext, RefinesNext, Zenon
<1> QED
  BY <1>1, <1>2, PTL DEF BackupSpec, B!Transaction!AONSpec

-----------------------------------------------------------------------------
(* The archives.                                                           *)

Results == [type : {"create", "verify", "restore"}, n : Nat, ok : BOOLEAN]

\* A succeeded backup is in the archives, intact, and is not the one that the
\* Create in progress may remove.
ArchiveInv ==
    /\ history \in Seq(Results)
    /\ op.pc = "verify" => archives[op.n].kept
    /\ \A k \in 1..Len(history) : history[k].type = "create" /\ history[k].ok =>
         /\ history[k].n \in 1..Len(archives)
         /\ archives[history[k].n].kept /\ B!Intact(archives[history[k].n])
         /\ op.pc = "verify" => history[k].n # op.n

\* An operation that is recorded leaves the earlier results as they are.
LEMMA RecordKeeps ==
    ASSUME ArchiveInv, NEW type \in {"create", "verify", "restore"}, NEW n \in Nat, NEW ok \in BOOLEAN,
           B!Record(type, n, ok), UNCHANGED archives,
           type = "create" /\ ok => n \in 1..Len(archives) /\ archives[n].kept /\ B!Intact(archives[n])
    PROVE  ArchiveInv'
<1> DEFINE r == [type |-> type, n |-> n, ok |-> ok]
<1>1. history' = Append(history, r) /\ r \in Results /\ op'.pc = "idle"
  BY Zenon DEF B!Record, Results, B!NoOp
<1>r. r.type = type /\ r.n = n /\ r.ok = ok
  BY Zenon
<1> HIDE DEF r
<1>2. history \in Seq(Results)
  BY Zenon DEF ArchiveInv
<1>3. /\ history' \in Seq(Results) /\ Len(history') = Len(history) + 1
      /\ \A k \in 1..Len(history) : history'[k] = history[k]
      /\ history'[Len(history) + 1] = r
  BY <1>1, <1>2
<1>4. ASSUME NEW k \in 1..Len(history'), history'[k].type = "create", history'[k].ok
      PROVE  /\ history'[k].n \in 1..Len(archives)
             /\ archives[history'[k].n].kept /\ B!Intact(archives[history'[k].n])
  <2>1. CASE k \in 1..Len(history)
    BY <1>3, <1>4, <2>1, Zenon DEF ArchiveInv
  <2>2. CASE k = Len(history) + 1
    BY <1>r, <1>3, <1>4, <2>2, Zenon
  <2> QED
    BY <1>2, <1>3, <2>1, <2>2
<1> QED
  BY <1>1, <1>3, <1>4, Zenon DEF ArchiveInv, B!Intact

\* A step that records nothing and publishes nothing.
LEMMA ArchiveStays ==
    ASSUME ArchiveInv, UNCHANGED <<archives, history>>,
           op'.pc = "verify" => op.pc = "verify" /\ op'.n = op.n
    PROVE  ArchiveInv'
  BY Zenon DEF ArchiveInv, B!Intact

\* Every step keeps the archives of succeeded backups.
LEMMA ArchiveNext == BackupConstants /\ OpType /\ RestoreInv /\ ArchiveInv /\ [B!Next]_(B!vars) => ArchiveInv'
<1> SUFFICES ASSUME BackupConstants, OpType, RestoreInv, ArchiveInv, [B!Next]_(B!vars)
             PROVE  ArchiveInv'
  BY Zenon
<1>0. archives \in Seq(Archives) /\ op \in Op /\ op.n \in Nat /\ 0 \in Nat
  BY Zenon DEF OpType, Op
<1>1. CASE B!Publish
  <2> DEFINE a == [sums |-> op.sums, data |-> op.data, kept |-> TRUE]
  <2>1. archives' = Append(archives, a) /\ history' = history
    BY <1>1, Zenon DEF B!Publish
  <2>2. a \in Archives /\ a.kept
    BY <1>1, Zenon DEF B!Publish, OpType, Archives
  <2> HIDE DEF a
  <2>3. /\ Len(archives') = Len(archives) + 1 /\ archives'[Len(archives) + 1] = a
        /\ \A j \in 1..Len(archives) : archives'[j] = archives[j]
    BY <1>0, <2>1, <2>2
  <2>4. op' = [op EXCEPT !.pc = "verify", !.n = Len(archives')]
    BY <1>1, Zenon DEF B!Publish
  <2>5. op'.n = Len(archives) + 1 /\ Len(archives) \in Nat
    BY <1>0, <2>3, <2>4 DEF Op
  <2>6. \A j \in 1..Len(archives) : j \in 1..Len(archives') /\ j # op'.n
    BY <2>3, <2>5
  <2> QED
    BY <2>1, <2>2, <2>3, <2>5, <2>6 DEF ArchiveInv, B!Intact
<1>2. CASE B!VerifyNew
  <2>1. op.pc = "verify" /\ op.n \in 1..Len(archives)
    BY <1>0, <1>2 DEF B!VerifyNew, OpType
  <2>2. CASE B!Intact(archives[op.n]) /\ B!Record("create", op.n, TRUE) /\ UNCHANGED archives
    <3>1. archives[op.n].kept
      BY <2>1, Zenon DEF ArchiveInv
    <3> QED
      BY <1>0, <2>1, <2>2, <3>1, RecordKeeps, Zenon
  <2>3. CASE B!Record("create", op.n, FALSE) /\ archives' = [archives EXCEPT ![op.n].kept = FALSE]
    <3> DEFINE r == [type |-> "create", n |-> op.n, ok |-> FALSE]
    <3>1. history' = Append(history, r) /\ r \in Results /\ r.ok = FALSE /\ op'.pc = "idle"
      BY <1>0, <2>3, Zenon DEF B!Record, Results, B!NoOp
    <3> HIDE DEF r
    <3>2. history \in Seq(Results)
      BY Zenon DEF ArchiveInv
    <3>3. /\ history' \in Seq(Results) /\ Len(history') = Len(history) + 1
          /\ \A k \in 1..Len(history) : history'[k] = history[k]
          /\ history'[Len(history) + 1] = r
      BY <3>1, <3>2
    <3>4. /\ Len(archives') = Len(archives)
          /\ \A j \in 1..Len(archives) : j # op.n => archives'[j] = archives[j]
      BY <1>0, <2>1, <2>3
    <3>5. ASSUME NEW k \in 1..Len(history'), history'[k].type = "create", history'[k].ok
          PROVE  /\ history'[k].n \in 1..Len(archives')
                 /\ archives'[history'[k].n].kept /\ B!Intact(archives'[history'[k].n])
      <4>1. k \in 1..Len(history)
        BY <3>1, <3>2, <3>3, <3>5
      <4>2. history[k].n # op.n /\ history[k].n \in 1..Len(archives)
        BY <2>1, <3>3, <3>5, <4>1, Zenon DEF ArchiveInv
      <4> QED
        BY <3>3, <3>4, <3>5, <4>1, <4>2 DEF ArchiveInv
    <3> QED
      BY <3>1, <3>3, <3>5, Zenon DEF ArchiveInv, B!Intact
  <2> QED
    BY <1>2, <2>2, <2>3, Zenon DEF B!VerifyNew
<1>3. CASE B!CollectFails \/ B!ArchiveFails \/ B!PublishFails
  BY <1>0, <1>3, RecordKeeps, Zenon DEF B!CollectFails, B!ArchiveFails, B!PublishFails, B!CreateFails
<1>4. CASE B!StopFails \/ B!RestoreFailed \/ (B!Gate /\ B!Record("restore", op.n, TRUE))
  BY <1>0, <1>4, RecordKeeps, Zenon DEF B!StopFails, B!RestoreFailed, B!Gate
<1>5. ASSUME NEW n \in 1..(MaxOps + 1), B!VerifyArchive(n) \/ B!RestoreRefused(n)
      PROVE  ArchiveInv'
  <2>1. n \in Nat
    BY <1>0, <1>5 DEF B!VerifyArchive, B!RestoreRefused
  <2> QED
    BY <1>5, <2>1, RecordKeeps, Zenon DEF B!VerifyArchive, B!RestoreRefused
<1>6. CASE /\ UNCHANGED <<archives, history>>
           /\ op'.pc = "verify" => op.pc = "verify" /\ op'.n = op.n
  BY <1>6, ArchiveStays, Zenon
<1>7. CASE B!Collect
  <2> DEFINE a == B!Advance("archive")
  <2>1. op.pc = "collect" /\ a \in Op /\ a.pc \in {"collect", "archive"}
    BY <1>0, <1>7, AdvanceType, Zenon DEF B!Collect, Stages
  <2> HIDE DEF a
  <2>2. op' = a \/ op' = [a EXCEPT !.sums[op.i] = disk[op.i],
                      !.data[op.i] = IF Source[op.i] = "db" THEN disk[op.i] ELSE Absent]
    BY <1>7, Zenon DEF B!Collect, a
  <2>3. op'.pc = a.pc
    BY <2>1, <2>2, Zenon DEF Op
  <2> QED
    BY <1>6, <1>7, <2>1, <2>3, Zenon DEF B!Collect
<1>8. CASE B!Archive
  <2> DEFINE a == B!Advance("publish")
  <2>1. op.pc = "archive" /\ a \in Op /\ a.pc \in {"archive", "publish"}
    BY <1>0, <1>8, AdvanceType, Zenon DEF B!Archive, Stages
  <2> HIDE DEF a
  <2>2. op' = a \/ \E v \in Values : op' = [a EXCEPT !.data[op.i] = v]
    BY <1>8, Zenon DEF B!Archive, a
  <2>3. op'.pc = a.pc
    BY <2>1, <2>2, Zenon DEF Op
  <2> QED
    BY <1>6, <1>8, <2>1, <2>3, Zenon DEF B!Archive
<1>9. CASE B!ReplaceOne
  <2> DEFINE a == B!Advance("gate")
  <2>1. a \in Op /\ a.pc \in {"replace", "gate"}
    BY <1>0, <1>9, AdvanceType, Zenon DEF B!ReplaceOne, Stages
  <2> HIDE DEF a
  <2>2. op' = a \/ op' = [a EXCEPT !.changed = B!Changed]
    BY <1>9, Zenon DEF B!ReplaceOne, a
  <2>3. op'.pc = a.pc
    BY <2>1, <2>2, Zenon DEF Op
  <2> QED
    BY <1>6, <1>9, <2>1, <2>3, Zenon DEF B!ReplaceOne
<1>10. CASE B!Stop \/ B!ReplaceFails \/ B!ReplaceReturns \/ B!Revive \/ B!Undo \/ (B!Gate /\ history' = history)
  <2>1. CASE B!Undo
    <3>1. op.pc = "undo" /\ op'.pc \in {"undo", "revive"}
      BY <1>0, <2>1, Zenon DEF B!Undo, Op
    <3> QED
      BY <1>6, <2>1, <3>1, Zenon DEF B!Undo
  <2>2. CASE B!Gate /\ history' = history
    <3>1. op' = B!NoOp \/ op' = [op EXCEPT !.pc = "undo"]
      BY <2>2, Zenon DEF B!Gate, B!Record
    <3>2. op'.pc \in {"idle", "undo"}
      BY <1>0, <3>1 DEF B!NoOp, Op
    <3> QED
      BY <1>6, <2>2, <3>2, Zenon DEF B!Gate
  <2>3. CASE B!Stop \/ B!ReplaceFails \/ B!ReplaceReturns \/ B!Revive
    <3>1. op'.pc \in {"replace", "undo", "revive", "done"}
      BY <1>0, <2>3, Zenon DEF B!Stop, B!ReplaceFails, B!ReplaceReturns, B!ReviveAfterReturn, B!Revive, Op
    <3> QED
      BY <1>6, <2>3, <3>1, Zenon DEF B!Stop, B!ReplaceFails, B!ReplaceReturns, B!Revive
  <2> QED
    BY <1>10, <2>1, <2>2, <2>3, Zenon
<1>11. CASE B!BeginCreate \/ B!Crash \/ \E n \in 1..(MaxOps + 1) : B!BeginRestore(n)
  <2>1. CASE B!BeginCreate \/ B!Crash
    <3>1. op' = B!NoOp \/ op' = [B!NoOp EXCEPT !.pc = "collect", !.sums = B!Nothing, !.data = B!Nothing]
      BY <2>1, Zenon DEF B!BeginCreate, B!Crash
    <3>2. /\ B!NoOp.pc = "idle"
          /\ [B!NoOp EXCEPT !.pc = "collect", !.sums = B!Nothing, !.data = B!Nothing].pc = "collect"
      BY Zenon DEF B!NoOp
    <3> QED
      BY <1>6, <2>1, <3>1, <3>2, Zenon DEF B!BeginCreate, B!Crash
  <2>2. ASSUME NEW n \in 1..(MaxOps + 1), B!BeginRestore(n)
        PROVE  ArchiveInv'
    <3>1. op'.pc = "stop" /\ UNCHANGED <<archives, history>>
      BY <2>2, Zenon DEF B!BeginRestore, B!NoOp
    <3> QED
      BY <1>6, <3>1, Zenon
  <2> QED
    BY <1>11, <2>1, <2>2, Zenon
<1>12. CASE UNCHANGED B!vars \/ \E f \in B!Files, c \in B!Content : B!Write(f, c)
  BY <1>6, <1>12, Zenon DEF B!vars, B!Write
<1>13. B!Gate => history' = history \/ B!Record("restore", op.n, TRUE)
  BY Zenon DEF B!Gate
<1> QED
  BY <1>1, <1>2, <1>3, <1>4, <1>5, <1>7, <1>8, <1>9, <1>10, <1>11, <1>12, <1>13, Zenon DEF B!Next

-----------------------------------------------------------------------------
(* The services.                                                           *)

\* Outside a restore, and once it has restarted them, the services run.
ServiceInv ==
    /\ units \in [B!Units -> BOOLEAN]
    /\ cause \subseteq {"stop", "early", "undo", "gate", "crash"}
    /\ op.pc \in Outside \cup {"done"} /\ cause \cap {"stop", "gate", "crash"} = {} =>
         \A u \in B!Units : units[u]

\* A restart of both services leaves both running.
LEMMA RestartedType ==
    /\ \A k \in {"all", "agent", "none"} : B!Restarted(k) \in [B!Units -> BOOLEAN]
    /\ \A u \in B!Units : B!Restarted("all")[u]
  BY Zenon DEF B!Restarted, B!Units

\* Every step keeps the services, or says why they do not run.
LEMMA ServiceNext ==
    BackupConstants /\ OpType /\ ServiceInv /\ [B!Next]_(B!vars) => ServiceInv'
<1> SUFFICES ASSUME BackupConstants, OpType, ServiceInv, [B!Next]_(B!vars)
             PROVE  ServiceInv'
  BY Zenon
<1>0. op \in Op /\ B!NoOp.pc = "idle" /\ op.pc \in Stages
  BY Zenon DEF OpType, Op, B!NoOp
<1>1. CASE /\ UNCHANGED <<units, cause>>
           /\ op'.pc \in Outside \cup {"done"} => op.pc \in Outside \cup {"done"}
  BY <1>1, Zenon DEF ServiceInv
<1>2. CASE Beside \/ UNCHANGED B!vars \/ \E f \in B!Files, c \in B!Content : B!Write(f, c)
  <2>1. CASE Beside
    <3>1. units' = units
      BY <2>1, Zenon DEF Beside, B!BeginCreate, B!Collect, B!CollectFails, B!Archive, B!ArchiveFails,
         B!Publish, B!PublishFails, B!VerifyNew, B!VerifyArchive, B!RestoreRefused, B!CreateFails
    <3> QED
      BY <1>1, <2>1, <3>1, BesideStep, Zenon
  <2>2. CASE UNCHANGED B!vars \/ \E f \in B!Files, c \in B!Content : B!Write(f, c)
    BY <1>1, <2>2, Zenon DEF B!vars, B!Write
  <2> QED
    BY <1>2, <2>1, <2>2, Zenon
<1>3. ASSUME NEW n \in 1..(MaxOps + 1), B!BeginRestore(n)
      PROVE  ServiceInv'
  <2>1. op'.pc = "stop" /\ units' = units /\ cause' = {}
    BY <1>3, Zenon DEF B!BeginRestore, B!NoOp
  <2> QED
    BY <2>1, Zenon DEF ServiceInv, Outside
<1>4. CASE B!Stop
  <2>1. op'.pc = "replace" /\ units' = [u \in B!Units |-> FALSE] /\ cause' = cause
    BY <1>0, <1>4, Zenon DEF B!Stop, Op
  <2> QED
    BY <2>1, Zenon DEF ServiceInv, Outside
<1>5. CASE B!StopFails
  <2>1. cause' = cause \cup {"stop"} /\ units' \in [B!Units -> BOOLEAN]
    BY <1>5, Zenon DEF B!StopFails, ServiceInv
  <2> QED
    BY <2>1, Zenon DEF ServiceInv
<1>6. CASE B!ReplaceOne
  <2> DEFINE a == B!Advance("gate")
  <2>1. a \in Op /\ a.pc \in {"replace", "gate"} /\ UNCHANGED <<units, cause>>
    BY <1>0, <1>6, AdvanceType, Zenon DEF B!ReplaceOne, Stages
  <2> HIDE DEF a
  <2>2. op' = a \/ op' = [a EXCEPT !.changed = B!Changed]
    BY <1>6, Zenon DEF B!ReplaceOne, a
  <2>3. op'.pc = a.pc
    BY <2>1, <2>2, Zenon DEF Op
  <2> QED
    BY <1>1, <2>1, <2>3, Zenon DEF Outside
<1>7. CASE B!ReplaceFails \/ B!ReplaceReturns
  <2>1. op'.pc \in {"undo", "revive"} /\ units' = units /\ cause' \subseteq cause \cup {"early"}
    BY <1>0, <1>7, Zenon DEF B!ReplaceFails, B!ReplaceReturns, B!ReviveAfterReturn, Op
  <2> QED
    BY <2>1, Zenon DEF ServiceInv, Outside
<1>8. CASE B!Gate
  <2>1. CASE units' = B!Restarted("all") /\ cause' = cause
    BY <2>1, RestartedType, Zenon DEF ServiceInv
  <2>2. ASSUME NEW k \in {"agent", "none"}, units' = B!Restarted(k), op' = [op EXCEPT !.pc = "undo"],
               cause' = cause
        PROVE  ServiceInv'
    <3>1. op'.pc = "undo"
      BY <1>0, <2>2, Zenon DEF Op
    <3> QED
      BY <2>2, <3>1, RestartedType, Zenon DEF ServiceInv, Outside
  <2> QED
    BY <1>8, <2>1, <2>2, Zenon DEF B!Gate
<1>9. CASE B!Undo
  <2>1. op'.pc \in {"undo", "revive"} /\ units' = units /\ cause' \subseteq cause \cup {"undo"}
    BY <1>0, <1>9, Zenon DEF B!Undo, Op
  <2> QED
    BY <2>1, Zenon DEF ServiceInv, Outside
<1>10. CASE B!Revive
  <2>1. PICK k \in {"all", "agent", "none"} : /\ units' = B!Restarted(k)
                                              /\ cause' = cause \cup {c \in {"gate"} : k # "all"}
    BY <1>10, Zenon DEF B!Revive
  <2> QED
    BY <2>1, RestartedType, Zenon DEF ServiceInv
<1>11. CASE B!RestoreFailed
  BY <1>0, <1>1, <1>11, Zenon DEF B!RestoreFailed, Outside
<1>12. CASE B!Crash
  <2>1. CASE B!Restoring
    <3>1. cause' = cause \cup {"crash"} /\ units' = units
      BY <1>12, <2>1, Zenon DEF B!Crash
    <3> QED
      BY <3>1, Zenon DEF ServiceInv
  <2>2. CASE ~B!Restoring
    <3>1. cause' = cause /\ units' = units
      BY <1>12, <2>2, Zenon DEF B!Crash
    <3>2. op.pc \in Outside
      BY <1>0, <2>2, Zenon DEF B!Restoring, Outside, Stages
    <3> QED
      BY <1>1, <3>1, <3>2, Zenon
  <2> QED
    BY <2>1, <2>2, Zenon
<1> QED
  BY <1>2, <1>3, <1>4, <1>5, <1>6, <1>7, <1>8, <1>9, <1>10, <1>11, <1>12, Zenon DEF B!Next, Beside

-----------------------------------------------------------------------------

BackupInv == OpType /\ RestoreInv /\ ArchiveInv /\ ServiceInv

\* The inductive invariant holds on a host that has not been restored.
LEMMA BackupStart == BackupConstants /\ B!Init => BackupInv
<1> SUFFICES ASSUME BackupConstants, B!Init
             PROVE  ArchiveInv /\ ServiceInv
  BY RestoreInit, Zenon DEF BackupInv
<1>1. history = <<>> /\ op.pc = "idle" /\ units = [u \in B!Units |-> TRUE] /\ cause = {}
  BY Zenon DEF B!Init, B!NoOp
<1>2. history \in Seq(Results) /\ 1..Len(history) = {}
  BY <1>1
<1> QED
  BY <1>1, <1>2, Zenon DEF ArchiveInv, ServiceInv

\* Every step keeps the inductive invariant.
LEMMA BackupStep == BackupConstants /\ BackupInv /\ [B!Next]_(B!vars) => BackupInv'
  BY OpTypeNext, RestoreNext, ArchiveNext, ServiceNext, Zenon DEF BackupInv

\* It says what the runs check.
LEMMA BackupMeans ==
    BackupConstants /\ BackupInv => B!TypeOK /\ B!SucceededIsIntact /\ B!ServicesReturn
<1> SUFFICES ASSUME BackupConstants, BackupInv
             PROVE  B!TypeOK /\ B!SucceededIsIntact /\ B!ServicesReturn
  BY Zenon
<1>1. B!TypeOK
  <2>1. \A n \in 1..Len(archives) : archives[n].sums \in [B!Files -> B!Stored]
    <3>1. archives \in Seq(Archives)
      BY Zenon DEF BackupInv, OpType
    <3>2. \A n \in 1..Len(archives) : archives[n] \in Archives
      BY <3>1
    <3> QED
      BY <3>2, Zenon DEF Archives, Sums
  <2>2. \A k \in 1..Len(history) : history[k].type \in {"create", "verify", "restore"}
    <3>1. history \in Seq(Results)
      BY Zenon DEF BackupInv, ArchiveInv
    <3>2. \A k \in 1..Len(history) : history[k] \in Results
      BY <3>1
    <3> QED
      BY <3>2, Zenon DEF Results
  <2>3. op.pc \in Stages /\ op.i \in B!Files /\ op.changed \subseteq B!Files
    BY Zenon DEF BackupInv, OpType, Op
  <2>4. disk \in [B!Files -> B!Content]
    BY Zenon DEF BackupInv, OpType, Saves
  <2> QED
    BY <2>1, <2>2, <2>3, <2>4, Zenon DEF BackupInv, ServiceInv, B!TypeOK, Stages
<1>2. B!SucceededIsIntact
  <2> SUFFICES ASSUME NEW k \in 1..Len(history), history[k].type = "create", history[k].ok
               PROVE  archives[history[k].n].kept /\ B!Intact(archives[history[k].n])
    BY Zenon DEF B!SucceededIsIntact, B!Intact
  <2> QED
    BY Zenon DEF BackupInv, ArchiveInv
<1>3. B!ServicesReturn
  BY Zenon DEF BackupInv, ServiceInv, B!ServicesReturn, B!Idle, Outside
<1> QED
  BY <1>1, <1>2, <1>3, Zenon

\* A backup that the history calls succeeded can be restored for good: its archive
\* is there, its payload is what its manifest says and every required source is in
\* it, although files change between hashing and archiving and later backups fail
\* and remove theirs (Create of engine.go, extractVerified of restore.go).  And once
\* a restore is over, whichever way it ended, the services it stopped run again,
\* unless systemctl failed or the updater was killed (Restore of restore.go).
THEOREM RestoreSound == BackupConstants /\ BackupSpec => []RestoreIsSound
<1> SUFFICES ASSUME BackupConstants PROVE BackupSpec => []RestoreIsSound
  BY Zenon
<1>1. BackupInit => BackupInv
  BY BackupStart, Zenon DEF BackupInit
<1>2. BackupInv /\ [BackupNext]_vars => BackupInv'
  BY BackupStep, Zenon DEF BackupNext, vars, B!vars
<1>3. BackupInv => RestoreIsSound
  BY BackupMeans, Zenon DEF RestoreIsSound
<1> QED
  BY <1>1, <1>2, <1>3, PTL DEF BackupSpec

\* The first half of it as a statement about BackupRestore alone: whatever backup the
\* history calls succeeded stays restorable (Create of engine.go).
THEOREM SucceededBackupsStay == BackupConstants /\ B!Spec => []B!SucceededIsIntact
<1> SUFFICES ASSUME BackupConstants PROVE B!Spec => []B!SucceededIsIntact
  BY Zenon
<1>1. B!Init => BackupInv
  BY BackupStart, Zenon
<1>2. BackupInv /\ [B!Next]_(B!vars) => BackupInv'
  BY BackupStep, Zenon
<1>3. BackupInv => B!SucceededIsIntact
  BY BackupMeans, Zenon
<1> QED
  BY <1>1, <1>2, <1>3, PTL DEF B!Spec
=============================================================================
