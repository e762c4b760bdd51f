--------------------------- MODULE EngineProofs -----------------------------
(***************************************************************************)
(* Proofs about the update engine: what it reports is what is installed.   *)
(*                                                                         *)
(* The invariant says where the binaries and the snapshot of the           *)
(* transaction in progress are at every step (Stage), that only one        *)
(* process is in a transaction (OneTransaction), and that what is over is  *)
(* not touched any more (HistoryIsOver, NoSnapshotYet).                    *)
(***************************************************************************)
EXTENDS EnginePart, TLAPS

-----------------------------------------------------------------------------
(* The update engine *)

\* The number of transactions is bounded, None is no process, and no release has
\* the name of a file that is missing.
EngineConstants ==
    /\ MaxTx \in Nat
    /\ None \notin Procs
    /\ E!Missing \notin E!Contents

\* restore goes through the binaries in their order.
RestoredSoFar == {{}, {"opendeploy-core"}, {"opendeploy-core", "opendeploy-agent"}, E!Binaries}

\* What a process that is not idle has left on disk so far.  q is its record.
Verifying(q) ==
    q.pc \in {"verify", "backup"} =>
        /\ q.op = "apply" /\ q.snap = 0
        /\ live = q.before
        /\ snaps[tx] = E!NoFiles
        /\ q.pc = "backup" => q.payload = q.to
        /\ q.done = {}

Preparing(q) ==
    q.pc = "prepare" =>
        /\ q.op = "apply" /\ q.snap = tx /\ q.payload = q.to
        /\ live = q.before
        /\ \A b \in E!Binaries : snaps[tx][b] = IF b \in q.done THEN live[b] ELSE E!Missing

Replacing(q) ==
    q.pc \in {"replace", "current"} =>
        /\ q.op = "apply" /\ q.snap = tx /\ q.payload = q.to
        /\ snaps[tx] = q.before
        /\ \A b \in E!Binaries :
              live[b] = IF b \in q.done \/ q.pc = "current" THEN q.payload ELSE q.before[b]

\* A rollback has found an older snapshot to go back to.
HasOlder(q) == q.snap # 0 /\ q.snap < tx

Saving(q) == q.pc = "safety" => q.op = "rollback" /\ HasOlder(q) /\ live = q.before

Gating(q) ==
    q.pc = "gate" =>
        /\ snaps[tx] = q.before
        /\ q.op = "apply" => q.snap = tx /\ live = E!Whole(q.to)
        /\ q.op = "rollback" => HasOlder(q) /\ live = snaps[q.snap]

\* restore of the snapshot of this transaction.
Returning(q) ==
    q.pc = "undo" /\ q.undo # "rollback" =>
        /\ q.src = tx
        /\ q.op = IF q.undo = "recover" THEN "rollback" ELSE "apply"
        /\ q.op = "rollback" => HasOlder(q)
        /\ cause = "none" =>
             \A b \in E!Binaries :
                /\ snaps[tx][b] \in {q.before[b], E!Missing}
                /\ live[b] = q.before[b] \/ snaps[tx][b] = q.before[b]
                /\ b \in q.done => live[b] = q.before[b]

\* restore of the snapshot that is rolled back to.
RollingBack(q) ==
    q.pc = "undo" /\ q.undo = "rollback" =>
        /\ q.op = "rollback" /\ HasOlder(q) /\ q.src = q.snap
        /\ snaps[tx] = q.before
        /\ \A b \in E!Binaries : live[b] = IF b \in q.done THEN snaps[q.snap][b] ELSE q.before[b]

Regating(q) ==
    q.pc = "regate" =>
        /\ q.op = "rollback" => HasOlder(q)
        /\ cause = "none" => live = q.before

Stage(q) ==
    /\ q.id = tx /\ tx # 0 /\ q.snap <= tx
    /\ q.pc = "undo" => q.done \in RestoredSoFar
    /\ Verifying(q) /\ Preparing(q) /\ Replacing(q) /\ Saving(q) /\ Gating(q)
    /\ Returning(q) /\ RollingBack(q) /\ Regating(q)

\* Whoever works holds the lock; the transaction in progress is the newest one.
OneTransaction ==
    \A p \in Procs : /\ run[p].pc # "idle" <=> lock = p
                     /\ run[p].pc # "idle" => Stage(run[p])

\* The history is of transactions that are over, and an entry names a snapshot that
\* is not newer than itself.
HistoryIsOver ==
    \A i \in 1..Len(history) :
        /\ history[i].id <= tx
        /\ ~E!Idle => history[i].id < tx
        /\ history[i].snap <= history[i].id
        /\ history[i].status = "succeeded" => history[i].snap # 0

\* A transaction that has not begun has no snapshot.
NoSnapshotYet == \A i \in 1..MaxTx : i > tx => snaps[i] = E!NoFiles

EngineInv ==
    /\ E!TypeOK /\ OneTransaction /\ HistoryIsOver /\ NoSnapshotYet
    /\ E!ReportIsTrue /\ E!SucceededCanBeUndone /\ E!PassedGateIsRunning

\* The binaries, in the order in which restore goes through them.
LEMMA EngineBinaries ==
    /\ E!Binaries = {"opendeploy-core", "opendeploy-agent", "opendeploy"}
    /\ E!Services \subseteq E!Binaries
    /\ \A D \in RestoredSoFar : D \subseteq E!Binaries
    /\ \A D \in RestoredSoFar :
         D # E!Binaries =>
            LET b == E!Order[CHOOSE i \in 1..3 : /\ E!Order[i] \notin D
                                                 /\ \A j \in 1..i - 1 : E!Order[j] \in D]
            IN  b \in E!Binaries \ D /\ D \cup {b} \in RestoredSoFar
<1>1. 1..3 = {1, 2, 3}
  OBVIOUS
<1>2. E!Binaries = {"opendeploy-core", "opendeploy-agent", "opendeploy"}
  BY <1>1 DEF E!Binaries, E!Order
<1>3. ASSUME NEW D \in RestoredSoFar, D # E!Binaries
      PROVE  LET b == E!Order[CHOOSE i \in 1..3 : /\ E!Order[i] \notin D
                                                  /\ \A j \in 1..i - 1 : E!Order[j] \in D]
             IN  b \in E!Binaries \ D /\ D \cup {b} \in RestoredSoFar
  <2> DEFINE P(i) == E!Order[i] \notin D /\ \A j \in 1..i - 1 : E!Order[j] \in D
             k == CHOOSE i \in 1..3 : P(i)
  <2>1. \E i \in 1..3 : P(i)
    <3>1. CASE D = {}
      <4>1. P(1)
        BY <3>1 DEF E!Order
      <4> QED BY <4>1
    <3>2. CASE D = {"opendeploy-core"}
      <4>1. P(2)
        BY <3>2 DEF E!Order
      <4> QED BY <4>1
    <3>3. CASE D = {"opendeploy-core", "opendeploy-agent"}
      <4>1. P(3)
        BY <3>3 DEF E!Order
      <4> QED BY <4>1
    <3> QED BY <1>3, <3>1, <3>2, <3>3, Zenon DEF RestoredSoFar
  <2>2. k \in 1..3 /\ P(k)
    BY <2>1, Zenon
  <2> SUFFICES E!Order[k] \in E!Binaries \ D /\ D \cup {E!Order[k]} \in RestoredSoFar
    BY Zenon
  <2> HIDE DEF k
  <2>3. CASE k = 1
    BY <1>2, <1>3, <2>2, <2>3, Zenon DEF RestoredSoFar, E!Order
  <2>4. CASE k = 2
    <3>1. 1 \in 1..k - 1
      BY <2>4
    <3> QED BY <1>2, <1>3, <2>2, <2>4, <3>1, Zenon DEF RestoredSoFar, E!Order
  <2>5. CASE k = 3
    <3>1. 1 \in 1..k - 1 /\ 2 \in 1..k - 1
      BY <2>5
    <3> QED BY <1>2, <1>3, <2>2, <2>5, <3>1, Zenon DEF RestoredSoFar, E!Order
  <2> QED BY <1>1, <2>2, <2>3, <2>4, <2>5, Zenon
<1> QED BY <1>2, <1>3, Zenon DEF RestoredSoFar, E!Services

\* A process that does nothing.
LEMMA EngineNoProcess ==
    ASSUME EngineConstants
    PROVE  E!NoProcess \in E!Process /\ E!Whole(Installed) \in E!Files
<1>1. E!Whole(Installed) \in E!Files /\ Installed \in E!Versions /\ Installed \in E!Contents
  BY Zenon DEF E!Whole, E!Files, E!Contents, E!Versions
<1>2. 0 \in 0..MaxTx
  BY DEF EngineConstants
<1> QED BY <1>1, <1>2, Zenon DEF E!NoProcess, E!Process, E!Steps

\* A process that works is alone, holds the lock, and its transaction is the newest.
LEMMA EngineWorking ==
    ASSUME EngineConstants, EngineInv, NEW p \in Procs, run[p].pc # "idle"
    PROVE  /\ lock = p /\ ~E!Idle /\ Stage(run[p])
           /\ run[p] \in E!Process
           /\ run[p].id = tx /\ tx \in 1..MaxTx
           /\ \A q \in Procs \ {p} : run[q].pc = "idle"
BY DEF EngineInv, EngineConstants, OneTransaction, Stage, E!Idle, E!TypeOK

\* A step that goes on with the transaction keeps the invariant when it leaves the
\* process where its next step expects it to be: nothing else is at stake.
LEMMA EngineContinues ==
    ASSUME EngineConstants, EngineInv, NEW p \in Procs, run[p].pc # "idle",
           E!TypeOK', run'[p].pc # "idle", \A q \in Procs \ {p} : run'[q] = run[q],
           UNCHANGED <<lock, history, tx, promised>>,
           \A i \in 1..MaxTx : i # tx => snaps'[i] = snaps[i],
           Stage(run[p])'
    PROVE  EngineInv'
<1>1. /\ lock = p /\ ~E!Idle /\ tx \in 1..MaxTx
      /\ \A q \in Procs \ {p} : run[q].pc = "idle"
  BY EngineWorking, Zenon
<1>2. ~(E!Idle')
  BY Zenon DEF E!Idle
<1>3. OneTransaction'
  BY <1>1, Zenon DEF OneTransaction
<1>4. HistoryIsOver'
  BY <1>1, <1>2, Zenon DEF HistoryIsOver, EngineInv
<1>5. NoSnapshotYet'
  BY <1>1 DEF NoSnapshotYet, EngineInv
<1>6. E!SucceededCanBeUndone'
  <2>1. history \in Seq(E!Entry) /\ HistoryIsOver /\ E!SucceededCanBeUndone
    BY Zenon DEF EngineInv, E!TypeOK
  <2>2. ASSUME NEW i \in 1..Len(history), history[i].status = "succeeded"
        PROVE  history[i].snap \in 1..MaxTx /\ history[i].snap # tx
    <3>1. history[i] \in E!Entry
      BY <2>1
    <3> QED BY <1>1, <2>1, <2>2, <3>1 DEF HistoryIsOver, E!Entry
  <2> QED BY <2>1, <2>2, Zenon DEF E!SucceededCanBeUndone
<1> QED BY <1>2, <1>3, <1>4, <1>5, <1>6, Zenon DEF EngineInv, E!ReportIsTrue, E!PassedGateIsRunning

\* A step that ends the transaction keeps the invariant when what it records and
\* reports is true.
LEMMA EngineCloses ==
    ASSUME EngineConstants, EngineInv, NEW p \in Procs, run[p].pc # "idle",
           NEW status \in {"succeeded", "failed", "rolled_back", "manual_rollback", "rollback_failed"},
           run' = [run EXCEPT ![p] = E!NoProcess], lock' = None, UNCHANGED <<snaps, tx>>,
           \/ history' = Append(history, [id |-> run[p].id, status |-> status, snap |-> run[p].snap])
           \/ UNCHANGED history,
           live' \in E!Files, running' \in [E!Services -> E!Contents],
           promised' \in [E!Binaries -> E!Contents \cup {E!Missing}],
           cause' \in {"none", "truncated", "missing", "restore", "crash"},
           run[p].snap <= tx,
           status = "succeeded" =>
              run[p].snap # 0 /\ \A b \in E!Binaries : snaps[run[p].snap][b] # E!Missing,
           status \in {"succeeded", "manual_rollback"} => \A s \in E!Services : running'[s] = live'[s],
           cause' = "none" => live' = promised'
    PROVE  EngineInv'
<1> DEFINE e == [id |-> run[p].id, status |-> status, snap |-> run[p].snap]
<1>1. /\ lock = p /\ ~E!Idle /\ tx \in 1..MaxTx /\ run[p].id = tx /\ run[p] \in E!Process
      /\ \A q \in Procs \ {p} : run[q].pc = "idle"
  BY EngineWorking, Zenon
<1>2. E!TypeOK /\ HistoryIsOver /\ NoSnapshotYet /\ E!SucceededCanBeUndone
  BY Zenon DEF EngineInv
<1>3. e \in E!Entry
  BY <1>1, Zenon DEF E!Entry, E!Process
<1>4. history \in Seq(E!Entry)
  BY <1>2, Zenon DEF E!TypeOK
<1>5. history' \in Seq(E!Entry)
  BY <1>3, <1>4
<1>6. E!NoProcess \in E!Process
  BY EngineNoProcess, Zenon
<1>7. E!TypeOK'
  BY <1>2, <1>5, <1>6, Zenon DEF E!TypeOK
<1>8. /\ E!Idle' /\ \A q \in Procs : run'[q].pc = "idle"
  BY <1>1, <1>2, Zenon DEF E!Idle, E!NoProcess, E!TypeOK
<1>9. OneTransaction'
  BY <1>8, Zenon DEF OneTransaction, EngineConstants
<1>10. NoSnapshotYet'
  BY <1>2, Zenon DEF NoSnapshotYet
<1>11. ASSUME NEW i \in 1..Len(history')
       PROVE  \/ i \in 1..Len(history) /\ history'[i] = history[i]
              \/ i = Len(history') /\ history'[i] = e
  <2>1. CASE UNCHANGED history
    BY <2>1, Zenon
  <2>2. CASE history' = Append(history, e)
    BY <1>3, <1>4, <2>2
  <2> QED BY <2>1, <2>2, Zenon
<1>12. HistoryIsOver'
  BY <1>1, <1>2, <1>8, <1>11 DEF HistoryIsOver
<1>13. E!SucceededCanBeUndone'
  BY <1>2, <1>11 DEF E!SucceededCanBeUndone
<1>14. E!ReportIsTrue'
  BY Zenon DEF E!ReportIsTrue
<1>15. E!PassedGateIsRunning'
  <2> SUFFICES ASSUME history' # <<>>, history'[Len(history')].id = tx,
                      history'[Len(history')].status \in {"succeeded", "manual_rollback"}
               PROVE  \A s \in E!Services : running'[s] = live'[s]
    BY Zenon DEF E!PassedGateIsRunning
  <2>1. CASE UNCHANGED history
    <3>1. Len(history) \in 1..Len(history)
      BY <1>4, <2>1
    <3> QED BY <1>1, <1>2, <1>4, <2>1, <3>1 DEF HistoryIsOver, E!Entry
  <2>2. CASE history' = Append(history, e)
    BY <1>4, <1>3, <2>2
  <2> QED BY <2>1, <2>2, Zenon
<1> QED BY <1>7, <1>9, <1>10, <1>12, <1>13, <1>14, <1>15, Zenon DEF EngineInv

\* A process that begins a transaction takes the lock, and the transaction is new.
LEMMA EngineBegins ==
    ASSUME EngineConstants, EngineInv, NEW p \in Procs, E!Locked(p),
           E!TypeOK', run'[p].pc # "idle", \A q \in Procs \ {p} : run'[q] = run[q],
           UNCHANGED <<live, running, snaps, history, promised>>,
           Stage(run[p])'
    PROVE  EngineInv'
<1>1. E!TypeOK /\ OneTransaction /\ HistoryIsOver /\ NoSnapshotYet /\ E!SucceededCanBeUndone
  BY Zenon DEF EngineInv
<1>2. \A q \in Procs : run[q].pc = "idle"
  BY <1>1, Zenon DEF OneTransaction, E!Locked, E!LockFree, EngineConstants
<1>5. ~(E!Idle')
  BY Zenon DEF E!Idle
<1>6. OneTransaction'
  BY <1>2, Zenon DEF OneTransaction, E!Locked, EngineConstants
<1>7. HistoryIsOver'
  <2>1. ASSUME NEW i \in 1..Len(history) PROVE history[i].id \in Nat /\ tx \in Nat
    <3>1. history[i] \in E!Entry /\ tx \in 0..MaxTx
      BY <1>1 DEF E!TypeOK
    <3> QED BY <3>1 DEF E!Entry, EngineConstants
  <2> QED BY <1>1, <2>1 DEF HistoryIsOver, E!Locked
<1>8. NoSnapshotYet'
  BY <1>1 DEF NoSnapshotYet, E!Locked, E!TypeOK
<1>9. E!SucceededCanBeUndone'
  BY <1>1, Zenon DEF E!SucceededCanBeUndone
<1> QED BY <1>5, <1>6, <1>7, <1>8, <1>9, Zenon DEF EngineInv, E!ReportIsTrue, E!PassedGateIsRunning

\* Apply and Rollback take the lock.
LEMMA EngineStart ==
    ASSUME EngineConstants, EngineInv, NEW p \in Procs,
           \/ \E tag \in Tags : E!BeginApply(p, tag)
           \/ \E id \in 0..MaxTx : E!BeginRollback(p, id)
    PROVE  EngineInv'
<1>1. /\ E!TypeOK /\ HistoryIsOver /\ NoSnapshotYet
      /\ E!NoProcess \in E!Process
  BY EngineNoProcess, Zenon DEF EngineInv
<1>2. /\ live \in E!Files /\ tx \in 0..MaxTx /\ history \in Seq(E!Entry)
      /\ run \in [Procs -> E!Process]
  BY <1>1, Zenon DEF E!TypeOK
<1>3. E!Locked(p) /\ UNCHANGED <<live, running, snaps, history, promised>>
  BY Zenon DEF E!BeginApply, E!BeginRollback
<1>4. tx + 1 \in 1..MaxTx /\ tx + 1 \in 0..MaxTx /\ tx' = tx + 1
  BY <1>2, <1>3 DEF E!Locked, EngineConstants
<1>5. snaps[tx + 1] = E!NoFiles
  BY <1>1, <1>2, <1>4 DEF NoSnapshotYet
<1>6. CASE \E tag \in Tags : E!BeginApply(p, tag)
  <2>1. PICK tag \in Tags : E!BeginApply(p, tag)
    BY <1>6, Zenon
  <2> DEFINE r == [E!NoProcess EXCEPT !.pc = "verify", !.id = tx + 1, !.to = tag, !.before = live]
  <2>2. run' = [run EXCEPT ![p] = r]
    BY <2>1, Zenon DEF E!BeginApply, E!Go
  <2>3. r \in E!Process
    <3>1. tag \in E!Versions /\ "verify" \in E!Steps
      BY Zenon DEF E!Versions, E!Steps
    <3> QED BY <1>1, <1>2, <1>4, <3>1, Zenon DEF E!Process
  <2>4. run'[p] = r /\ \A q \in Procs \ {p} : run'[q] = run[q]
    BY <1>2, <2>2, Zenon
  <2>5. r.pc = "verify" /\ r.op = "apply" /\ r.snap = 0 /\ r.id = tx + 1 /\ r.before = live /\ r.done = {}
    BY Zenon DEF E!NoProcess
  <2>6. E!TypeOK'
    BY <1>1, <1>3, <1>4, <2>2, <2>3, Zenon DEF E!TypeOK, E!Locked
  <2>7. Stage(run[p])'
    BY <1>2, <1>3, <1>4, <1>5, <2>4, <2>5 DEF Stage, Verifying, Preparing, Replacing,
           Saving, Gating, Returning, RollingBack, Regating
  <2> QED BY <1>3, <2>4, <2>5, <2>6, <2>7, EngineBegins, Zenon
<1>7. CASE \E id \in 0..MaxTx : E!BeginRollback(p, id)
  <2>1. PICK id \in 0..MaxTx : E!BeginRollback(p, id)
    BY <1>7, Zenon
  <2>2. PICK i \in E!FindHistory(id) :
           /\ history[i].snap # 0
           /\ run' = [run EXCEPT ![p] = [E!NoProcess EXCEPT !.pc = "safety", !.op = "rollback",
                            !.id = tx + 1, !.snap = history[i].snap, !.before = live]]
    BY <2>1, Zenon DEF E!BeginRollback, E!Go
  <2> DEFINE r == [E!NoProcess EXCEPT !.pc = "safety", !.op = "rollback", !.id = tx + 1,
                                      !.snap = history[i].snap, !.before = live]
  <2>3. i \in 1..Len(history) /\ history[i] \in E!Entry
    BY <1>2 DEF E!FindHistory
  <2>4. history[i].snap \in 0..MaxTx /\ history[i].snap <= tx
    BY <1>1, <1>2, <2>3 DEF HistoryIsOver, E!Entry
  <2>5. r \in E!Process
    <3>1. "safety" \in E!Steps
      BY Zenon DEF E!Steps
    <3> QED BY <1>1, <1>2, <1>4, <2>4, <3>1, Zenon DEF E!Process
  <2>6. run'[p] = r /\ \A q \in Procs \ {p} : run'[q] = run[q]
    BY <1>2, <2>2, Zenon
  <2>7. /\ r.pc = "safety" /\ r.op = "rollback" /\ r.snap = history[i].snap /\ r.id = tx + 1
        /\ r.before = live
    BY Zenon DEF E!NoProcess
  <2>8. E!TypeOK'
    BY <1>1, <1>3, <1>4, <2>2, <2>5, Zenon DEF E!TypeOK, E!Locked
  <2>9. Stage(run[p])'
    BY <1>2, <1>3, <1>4, <2>2, <2>4, <2>6, <2>7 DEF Stage, Verifying, Preparing, Replacing,
           Saving, Gating, Returning, RollingBack, Regating, HasOlder
  <2> QED BY <1>3, <2>6, <2>7, <2>8, <2>9, EngineBegins, Zenon
<1> QED BY <1>6, <1>7, Zenon

\* The gates of Apply, and the system backup.
LEMMA EngineVerify ==
    ASSUME EngineConstants, EngineInv, NEW p \in Procs,
           E!Verify(p) \/ E!GiveUp(p) \/ E!SystemBackup(p)
    PROVE  EngineInv'
<1> DEFINE q == run[p]
<1>1. /\ run[p].pc \in {"verify", "backup"} /\ run[p].pc # "idle"
      /\ UNCHANGED <<live, running, snaps, tx, cause>>
  BY Zenon DEF E!Verify, E!GiveUp, E!SystemBackup
<1>2. /\ E!TypeOK /\ Stage(run[p]) /\ run[p] \in E!Process /\ run[p].id = tx /\ tx \in 1..MaxTx
  BY <1>1, EngineWorking, Zenon DEF EngineInv
<1>3. /\ q.op = "apply" /\ q.snap = 0 /\ live = q.before /\ snaps[tx] = E!NoFiles /\ q.done = {}
      /\ q.pc = "backup" => q.payload = q.to
  BY <1>1, <1>2, Zenon DEF Stage, Verifying
<1>4. run \in [Procs -> E!Process] /\ live \in E!Files
  BY <1>2, Zenon DEF E!TypeOK
<1>5. ASSUME E!Close(p, "failed", run[p].before) PROVE EngineInv'
  <2>1. live' = promised' /\ promised' \in [E!Binaries -> E!Contents \cup {E!Missing}]
    BY <1>1, <1>3, <1>4, <1>5, Zenon DEF E!Close, E!Files
  <2>2. /\ run' = [run EXCEPT ![p] = E!NoProcess] /\ lock' = None
        /\ \/ history' = Append(history, [id |-> run[p].id, status |-> "failed", snap |-> run[p].snap])
           \/ UNCHANGED history
    BY <1>5, Zenon DEF E!Close, E!Go
  <2>3. /\ live' \in E!Files /\ running' \in [E!Services -> E!Contents]
        /\ cause' \in {"none", "truncated", "missing", "restore", "crash"}
    BY <1>1, <1>2, Zenon DEF E!TypeOK
  <2>4. run[p].snap <= tx
    BY <1>2, <1>3
  <2> QED BY <1>1, <2>1, <2>2, <2>3, <2>4, EngineCloses, Zenon
<1>6. CASE E!Verify(p)
  <2>1. PICK r \in E!Offers :
           IF E!Verified(r)
           THEN /\ run' = [run EXCEPT ![p] = [run[p] EXCEPT !.pc = "backup",
                             !.payload = IF r = {} THEN run[p].to ELSE E!Forged]]
                /\ UNCHANGED <<lock, history, promised>>
           ELSE E!Close(p, "failed", run[p].before)
    BY <1>6, Zenon DEF E!Verify, E!Go
  <2>2. CASE ~E!Verified(r)
    BY <1>5, <2>1, <2>2, Zenon
  <2>3. CASE E!Verified(r)
    <3>1. r = {}
      BY <2>3, Zenon DEF E!Offers, E!Defects, E!Verified, E!ReleaseGate, E!SignatureGate, E!ManifestGate,
                  E!CommitGate, E!ArtifactGate, E!DownloadGate, E!DigestGate, E!ArchiveGate
    <3> DEFINE s == [run[p] EXCEPT !.pc = "backup", !.payload = run[p].to]
    <3>2. run' = [run EXCEPT ![p] = s] /\ UNCHANGED <<lock, history, promised>>
      BY <2>1, <2>3, <3>1, Zenon
    <3>3. s \in E!Process
      BY <1>2, Zenon DEF E!Process, E!Steps, E!Contents
    <3>4. run'[p] = s /\ \A x \in Procs \ {p} : run'[x] = run[x]
      BY <1>4, <3>2, Zenon
    <3>5. E!TypeOK'
      BY <1>1, <1>2, <3>2, <3>3, Zenon DEF E!TypeOK
    <3>6. /\ s.pc = "backup" /\ s.op = q.op /\ s.snap = q.snap /\ s.id = q.id /\ s.before = q.before
          /\ s.done = q.done /\ s.payload = s.to
      BY <1>2, Zenon DEF E!Process
    <3>7. Stage(run[p])'
      BY <1>1, <1>2, <1>3, <3>4, <3>6 DEF Stage, Verifying, Preparing, Replacing,
           Saving, Gating, Returning, RollingBack, Regating
    <3> QED BY <1>1, <3>2, <3>4, <3>5, <3>6, <3>7, EngineContinues, Zenon
  <2> QED BY <2>2, <2>3, Zenon
<1>7. CASE E!GiveUp(p)
  BY <1>5, <1>7, Zenon DEF E!GiveUp
<1>8. CASE E!SystemBackup(p)
  <2> DEFINE s == [run[p] EXCEPT !.pc = "prepare", !.snap = run[p].id]
  <2>1. run' = [run EXCEPT ![p] = s] /\ UNCHANGED <<lock, history, promised>> /\ q.pc = "backup"
    BY <1>8, Zenon DEF E!SystemBackup, E!Go
  <2>2. s \in E!Process
    BY <1>2, Zenon DEF E!Process, E!Steps
  <2>3. run'[p] = s /\ \A x \in Procs \ {p} : run'[x] = run[x]
    BY <1>4, <2>1, Zenon
  <2>4. E!TypeOK'
    BY <1>1, <1>2, <2>1, <2>2, Zenon DEF E!TypeOK
  <2>5. /\ s.pc = "prepare" /\ s.op = q.op /\ s.snap = tx /\ s.id = q.id /\ s.before = q.before
        /\ s.done = q.done /\ s.payload = s.to
    BY <1>2, <1>3, <2>1, Zenon DEF E!Process
  <2>6. \A b \in E!Binaries : snaps[tx][b] = E!Missing
    BY <1>3, Zenon DEF E!NoFiles
  <2>7. Stage(run[p])'
    BY <1>1, <1>2, <1>3, <2>3, <2>5, <2>6 DEF Stage, Verifying, Preparing, Replacing,
           Saving, Gating, Returning, RollingBack, Regating
  <2> QED BY <1>1, <2>1, <2>3, <2>4, <2>5, <2>7, EngineContinues, Zenon
<1> QED BY <1>6, <1>7, <1>8, Zenon

\* install: a snapshot of every binary, then the binaries, then current.json.
LEMMA EngineInstall ==
    ASSUME EngineConstants, EngineInv, NEW p \in Procs,
           \/ \E b \in E!Binaries : E!Prepare(p, b) \/ E!Replace(p, b)
           \/ E!WriteCurrent(p) \/ E!InstallFails(p)
    PROVE  EngineInv'
<1> DEFINE q == run[p]
           Same(s) == /\ s.op = q.op /\ s.id = q.id /\ s.snap = q.snap /\ s.before = q.before
                      /\ s.to = q.to /\ s.payload = q.payload
<1>1. /\ run[p].pc \in {"prepare", "replace", "current"} /\ run[p].pc # "idle"
      /\ UNCHANGED <<running, lock, history, tx, promised>>
  BY Zenon DEF E!Prepare, E!Replace, E!WriteCurrent, E!InstallFails
<1>2. /\ E!TypeOK /\ Stage(run[p]) /\ run[p] \in E!Process /\ run[p].id = tx /\ tx \in 1..MaxTx
  BY <1>1, EngineWorking, Zenon DEF EngineInv
<1>3. /\ run \in [Procs -> E!Process] /\ live \in E!Files
      /\ snaps \in [1..MaxTx -> [E!Binaries -> E!Contents \cup {E!Missing}]]
  BY <1>2, Zenon DEF E!TypeOK
<1>4. q.op = "apply" /\ q.snap = tx /\ q.payload = q.to /\ q.before \in E!Files
  BY <1>1, <1>2, Zenon DEF Stage, Preparing, Replacing, E!Process
<1>5. ASSUME NEW b \in E!Binaries, E!Prepare(p, b) PROVE EngineInv'
  <2>1. /\ q.pc = "prepare" /\ b \in E!Binaries \ q.done
        /\ snaps' = [snaps EXCEPT ![tx][b] = live[b]] /\ live' = live /\ cause' = cause
    BY <1>2, <1>5, Zenon DEF E!Prepare, E!PrepareOne
  <2>2. /\ live = q.before
        /\ \A x \in E!Binaries : snaps[tx][x] = IF x \in q.done THEN live[x] ELSE E!Missing
    BY <1>2, <2>1, Zenon DEF Stage, Preparing
  <2>3. /\ snaps' \in [1..MaxTx -> [E!Binaries -> E!Contents \cup {E!Missing}]]
        /\ \A i \in 1..MaxTx : i # tx => snaps'[i] = snaps[i]
        /\ \A x \in E!Binaries : snaps'[tx][x] = IF x \in q.done \cup {b} THEN live[x] ELSE E!Missing
    BY <1>2, <1>3, <2>1, <2>2, Zenon DEF E!Files
  <2>4. CASE q.done \cup {b} = E!Binaries
    <3> DEFINE s == [run[p] EXCEPT !.pc = "replace", !.done = {}]
    <3>1. run' = [run EXCEPT ![p] = s]
      BY <1>5, <2>4, Zenon DEF E!Prepare, E!To, E!Go
    <3>2. s \in E!Process /\ s.pc = "replace" /\ s.done = {} /\ Same(s)
      BY <1>2, Zenon DEF E!Process, E!Steps
    <3>3. run'[p] = s /\ \A x \in Procs \ {p} : run'[x] = run[x]
      BY <1>3, <3>1, Zenon
    <3>4. E!TypeOK'
      BY <1>1, <1>2, <2>1, <2>3, <3>1, <3>2, Zenon DEF E!TypeOK
    <3>5. snaps'[tx] = q.before
      BY <1>2, <1>4, <2>2, <2>3, <2>4 DEF E!Files
    <3>6. Stage(run[p])'
      BY <1>1, <1>2, <1>4, <2>1, <2>2, <3>2, <3>3, <3>5 DEF Stage, Verifying, Preparing, Replacing,
           Saving, Gating, Returning, RollingBack, Regating
    <3> QED BY <1>1, <2>3, <3>2, <3>3, <3>4, <3>6, EngineContinues, Zenon
  <2>5. CASE q.done \cup {b} # E!Binaries
    <3> DEFINE s == [run[p] EXCEPT !.done = @ \cup {b}]
    <3>1. run' = [run EXCEPT ![p] = s]
      BY <1>5, <2>5, Zenon DEF E!Prepare, E!Go
    <3>2. s \in E!Process /\ s.pc = "prepare" /\ s.done = q.done \cup {b} /\ Same(s)
      BY <1>2, <2>1, Zenon DEF E!Process
    <3>3. run'[p] = s /\ \A x \in Procs \ {p} : run'[x] = run[x]
      BY <1>3, <3>1, Zenon
    <3>4. E!TypeOK'
      BY <1>1, <1>2, <2>1, <2>3, <3>1, <3>2, Zenon DEF E!TypeOK
    <3>6. Stage(run[p])'
      <4>1. Preparing(run[p])'
        BY <1>1, <1>2, <1>4, <2>1, <2>2, <2>3, <3>2, <3>3 DEF Preparing
      <4> QED BY <1>1, <1>2, <3>2, <3>3, <4>1, Zenon DEF Stage, Verifying, Replacing, Saving, Gating,
                 Returning, RollingBack, Regating
    <3> QED BY <1>1, <2>3, <3>2, <3>3, <3>4, <3>6, EngineContinues, Zenon
  <2> QED BY <2>4, <2>5, Zenon
<1>6. ASSUME NEW b \in E!Binaries, E!Replace(p, b) PROVE EngineInv'
  <2>1. /\ q.pc = "replace" /\ b \in E!Binaries \ q.done
        /\ live' = [live EXCEPT ![b] = q.payload] /\ snaps' = snaps /\ cause' = cause
    BY <1>6, Zenon DEF E!Replace
  <2>2. /\ snaps[tx] = q.before
        /\ \A x \in E!Binaries : live[x] = IF x \in q.done THEN q.payload ELSE q.before[x]
    BY <1>2, <2>1, Zenon DEF Stage, Replacing
  <2>3. /\ live' \in E!Files
        /\ \A x \in E!Binaries : live'[x] = IF x \in q.done \cup {b} THEN q.payload ELSE q.before[x]
    BY <1>2, <1>3, <2>1, <2>2, Zenon DEF E!Files, E!Process
  <2>4. CASE q.done \cup {b} = E!Binaries
    <3> DEFINE s == [run[p] EXCEPT !.pc = "current", !.done = {}]
    <3>1. run' = [run EXCEPT ![p] = s]
      BY <1>6, <2>4, Zenon DEF E!Replace, E!To, E!Go
    <3>2. s \in E!Process /\ s.pc = "current" /\ s.done = {} /\ Same(s)
      BY <1>2, Zenon DEF E!Process, E!Steps
    <3>3. run'[p] = s /\ \A x \in Procs \ {p} : run'[x] = run[x]
      BY <1>3, <3>1, Zenon
    <3>4. E!TypeOK'
      BY <1>1, <1>2, <2>1, <2>3, <3>1, <3>2, Zenon DEF E!TypeOK
    <3>6. Stage(run[p])'
      BY <1>1, <1>2, <1>4, <2>1, <2>2, <2>3, <2>4, <3>2, <3>3 DEF Stage, Verifying, Preparing, Replacing,
           Saving, Gating, Returning, RollingBack, Regating
    <3> QED BY <1>1, <2>1, <3>2, <3>3, <3>4, <3>6, EngineContinues, Zenon
  <2>5. CASE q.done \cup {b} # E!Binaries
    <3> DEFINE s == [run[p] EXCEPT !.done = @ \cup {b}]
    <3>1. run' = [run EXCEPT ![p] = s]
      BY <1>6, <2>5, Zenon DEF E!Replace, E!Go
    <3>2. s \in E!Process /\ s.pc = "replace" /\ s.done = q.done \cup {b} /\ Same(s)
      BY <1>2, <2>1, Zenon DEF E!Process
    <3>3. run'[p] = s /\ \A x \in Procs \ {p} : run'[x] = run[x]
      BY <1>3, <3>1, Zenon
    <3>4. E!TypeOK'
      BY <1>1, <1>2, <2>1, <2>3, <3>1, <3>2, Zenon DEF E!TypeOK
    <3>6. Stage(run[p])'
      <4>1. Replacing(run[p])'
        BY <1>1, <1>2, <1>4, <2>1, <2>2, <2>3, <3>2, <3>3 DEF Stage, Replacing
      <4> QED BY <1>1, <1>2, <2>1, <3>2, <3>3, <4>1, Zenon DEF Stage, Verifying, Preparing, Saving,
                 Gating, Returning, RollingBack, Regating
    <3> QED BY <1>1, <2>1, <3>2, <3>3, <3>4, <3>6, EngineContinues, Zenon
  <2> QED BY <2>4, <2>5, Zenon
<1>7. CASE E!WriteCurrent(p)
  <2> DEFINE s == [run[p] EXCEPT !.pc = "gate", !.done = {}]
  <2>1. /\ q.pc = "current" /\ UNCHANGED <<live, snaps, cause>>
        /\ run' = [run EXCEPT ![p] = s]
    BY <1>7, Zenon DEF E!WriteCurrent, E!To, E!Go
  <2>2. snaps[tx] = q.before /\ \A x \in E!Binaries : live[x] = q.to
    BY <1>2, <2>1, Zenon DEF Stage, Replacing
  <2>3. live = E!Whole(q.to)
    BY <1>3, <2>2, Zenon DEF E!Whole, E!Files
  <2>4. s \in E!Process /\ s.pc = "gate" /\ s.done = {} /\ Same(s)
    BY <1>2, Zenon DEF E!Process, E!Steps
  <2>5. run'[p] = s /\ \A x \in Procs \ {p} : run'[x] = run[x]
    BY <1>3, <2>1, Zenon
  <2>6. E!TypeOK'
    BY <1>1, <1>2, <2>1, <2>4, Zenon DEF E!TypeOK
  <2>7. Stage(run[p])'
    BY <1>1, <1>2, <1>4, <2>1, <2>2, <2>3, <2>4, <2>5 DEF Stage, Verifying, Preparing, Replacing,
           Saving, Gating, Returning, RollingBack, Regating
  <2> QED BY <1>1, <2>1, <2>4, <2>5, <2>6, <2>7, EngineContinues, Zenon
<1>8. CASE E!InstallFails(p)
  <2> DEFINE s == [run[p] EXCEPT !.pc = "undo", !.done = {}, !.src = run[p].id, !.undo = "install"]
  <2>1. /\ live' = live
        /\ run' = [run EXCEPT ![p] = s]
    BY <1>8, Zenon DEF E!InstallFails, E!Restoring, E!Go
  <2>2. /\ s \in E!Process /\ s.pc = "undo" /\ s.done = {} /\ Same(s)
        /\ s.src = tx /\ s.undo = "install"
    BY <1>2, Zenon DEF E!Process, E!Steps
  <2>3. run'[p] = s /\ \A x \in Procs \ {p} : run'[x] = run[x]
    BY <1>3, <2>1, Zenon
  <2>4. {} \in RestoredSoFar
    BY Zenon DEF RestoredSoFar
  <2>5. CASE UNCHANGED <<snaps, cause>>
    <3>1. E!TypeOK'
      BY <1>1, <1>2, <2>1, <2>2, <2>5 DEF E!TypeOK
    <3>2. \A b \in E!Binaries : /\ snaps[tx][b] \in {q.before[b], E!Missing}
                                /\ live[b] = q.before[b] \/ snaps[tx][b] = q.before[b]
      BY <1>1, <1>2, Zenon DEF Stage, Preparing, Replacing
    <3>3. Returning(run[p])'
      BY <1>1, <1>2, <1>4, <2>1, <2>2, <2>3, <2>5, <3>2 DEF Returning, HasOlder
    <3>4. Stage(run[p])'
      BY <1>1, <1>2, <2>1, <2>2, <2>3, <2>4, <3>3, Zenon DEF Stage, Verifying, Preparing, Replacing,
           Saving, Gating, RollingBack, Regating
    <3> QED BY <1>1, <2>2, <2>3, <2>5, <3>1, <3>4, EngineContinues, Zenon
  <2>6. CASE /\ \E b \in E!Binaries \ run[p].done : snaps' = [snaps EXCEPT ![run[p].id][b] = E!Truncated]
             /\ cause' = "truncated"
    <3>1. /\ snaps' \in [1..MaxTx -> [E!Binaries -> E!Contents \cup {E!Missing}]]
          /\ \A i \in 1..MaxTx : i # tx => snaps'[i] = snaps[i]
      BY <1>2, <1>3, <2>6 DEF E!Contents
    <3>2. E!TypeOK'
      BY <1>1, <1>2, <2>1, <2>2, <2>6, <3>1, Zenon DEF E!TypeOK
    <3>3. Returning(run[p])' /\ (run[p].snap <= tx)'
      BY <1>1, <1>2, <1>4, <2>1, <2>2, <2>3, <2>4, <2>6 DEF Returning
    <3>4. Stage(run[p])'
      BY <1>1, <1>2, <2>2, <2>3, <2>4, <3>3, Zenon DEF Stage, Verifying, Preparing, Replacing,
           Saving, Gating, RollingBack, Regating
    <3> QED BY <1>1, <2>2, <2>3, <3>1, <3>2, <3>4, EngineContinues, Zenon
  <2> QED BY <1>8, <2>5, <2>6, Zenon DEF E!InstallFails
<1> QED BY <1>5, <1>6, <1>7, <1>8, Zenon

\* What follows a restore: the process is where it says it is, provided the restore
\* left the files it was asked for, or a cause is named.
LEMMA EngineRestored ==
    ASSUME EngineConstants, EngineInv, NEW p \in Procs, run[p].pc = "undo",
           NEW failed \in BOOLEAN, E!Restored(p, failed),
           UNCHANGED <<live, running, snaps, tx>>,
           cause' \in {"none", "truncated", "missing", "restore", "crash"},
           cause' = "none" /\ (run[p].undo # "rollback" \/ failed) => live = run[p].before,
           run[p].undo = "rollback" /\ ~failed => live = snaps[run[p].snap]
    PROVE  EngineInv'
<1> DEFINE q == run[p]
           Same(s) == /\ s.op = q.op /\ s.id = q.id /\ s.snap = q.snap /\ s.before = q.before
                      /\ s.to = q.to
<1>1. /\ E!TypeOK /\ Stage(run[p]) /\ run[p] \in E!Process /\ run[p].id = tx /\ tx \in 1..MaxTx
      /\ run[p].pc # "idle"
  BY EngineWorking, Zenon DEF EngineInv
<1>2. /\ run \in [Procs -> E!Process] /\ live \in E!Files
      /\ running \in [E!Services -> E!Contents]
      /\ q.before \in E!Files /\ q.snap \in 0..MaxTx
      /\ q.undo \in {"install", "health", "rollback", "recover"}
  BY <1>1, Zenon DEF E!TypeOK, E!Process
<1>3. ASSUME NEW status \in {"rolled_back", "rollback_failed"}, E!Close(p, status, q.before),
             q.snap <= tx, q.undo # "rollback" \/ failed
      PROVE  EngineInv'
  <2>1. promised' = q.before /\ promised' \in [E!Binaries -> E!Contents \cup {E!Missing}]
    BY <1>2, <1>3, Zenon DEF E!Close, E!Files
  <2>2. /\ run' = [run EXCEPT ![p] = E!NoProcess] /\ lock' = None
        /\ \/ history' = Append(history, [id |-> run[p].id, status |-> status, snap |-> run[p].snap])
           \/ UNCHANGED history
    BY <1>3, Zenon DEF E!Close, E!Go
  <2>3. cause' = "none" => live' = promised'
    BY <1>3, <2>1, Zenon
  <2> QED BY <1>1, <1>2, <1>3, <2>1, <2>2, <2>3, EngineCloses, Zenon
<1>4. CASE q.undo = "install"
  <2>1. E!Close(p, "rolled_back", q.before)
    BY <1>4, Zenon DEF E!Restored
  <2>2. q.snap <= tx
    BY <1>1, Zenon DEF Stage
  <2> QED BY <1>3, <1>4, <2>1, <2>2, Zenon
<1>5. CASE q.undo = "rollback" /\ failed
  <2>1. E!Close(p, "rollback_failed", q.before)
    BY <1>5, Zenon DEF E!Restored
  <2>2. q.snap <= tx
    BY <1>1, <1>2, <1>5, Zenon DEF Stage, RollingBack, HasOlder
  <2> QED BY <1>3, <1>5, <2>1, <2>2, Zenon
<1>6. CASE q.undo = "rollback" /\ ~failed
  <2> DEFINE s == [run[p] EXCEPT !.pc = "gate", !.done = {}]
  <2>1. run' = [run EXCEPT ![p] = s] /\ UNCHANGED <<lock, history, promised>>
    BY <1>6, Zenon DEF E!Restored, E!To, E!Go
  <2>2. s \in E!Process /\ s.pc = "gate" /\ s.done = {} /\ Same(s)
    BY <1>1, Zenon DEF E!Process, E!Steps
  <2>3. run'[p] = s /\ \A x \in Procs \ {p} : run'[x] = run[x]
    BY <1>2, <2>1, Zenon
  <2>4. E!TypeOK'
    BY <1>1, <2>1, <2>2, Zenon DEF E!TypeOK
  <2>5. q.op = "rollback" /\ HasOlder(q) /\ snaps[tx] = q.before
    BY <1>1, <1>6, Zenon DEF Stage, RollingBack
  <2>6. Stage(run[p])'
    BY <1>1, <1>6, <2>2, <2>3, <2>5, Zenon DEF Stage, Verifying, Preparing, Replacing,
           Saving, Gating, Returning, RollingBack, Regating, HasOlder
  <2> QED BY <1>1, <2>1, <2>2, <2>3, <2>4, <2>6, EngineContinues, Zenon
<1>7. CASE q.undo \in {"health", "recover"}
  <2> DEFINE s == [run[p] EXCEPT !.pc = "regate", !.done = {}]
  <2>1. run' = [run EXCEPT ![p] = s] /\ UNCHANGED <<lock, history, promised>>
    BY <1>7, Zenon DEF E!Restored, E!To, E!Go
  <2>2. s \in E!Process /\ s.pc = "regate" /\ s.done = {} /\ Same(s)
    BY <1>1, Zenon DEF E!Process, E!Steps
  <2>3. run'[p] = s /\ \A x \in Procs \ {p} : run'[x] = run[x]
    BY <1>2, <2>1, Zenon
  <2>4. E!TypeOK'
    BY <1>1, <2>1, <2>2, Zenon DEF E!TypeOK
  <2>5. q.op = "rollback" => HasOlder(q)
    BY <1>1, <1>7, Zenon DEF Stage, Returning
  <2>6. Stage(run[p])'
    BY <1>1, <1>7, <2>2, <2>3, <2>5 DEF Stage, Verifying, Preparing, Replacing,
           Saving, Gating, Returning, RollingBack, Regating, HasOlder
  <2> QED BY <1>1, <2>1, <2>2, <2>3, <2>4, <2>6, EngineContinues, Zenon
<1> QED BY <1>2, <1>4, <1>5, <1>6, <1>7, Zenon

\* restore: the binaries in order.
LEMMA EngineRestore ==
    ASSUME EngineConstants, EngineInv, NEW p \in Procs,
           \/ E!RestoreOne(p) \/ E!RestoreDone(p) \/ E!RestoreMissing(p) \/ E!RestoreFails(p)
    PROVE  EngineInv'
<1> DEFINE q == run[p]
<1>1. run[p].pc = "undo" /\ run[p].pc # "idle" /\ UNCHANGED <<running, snaps, tx>>
  BY Zenon DEF E!RestoreOne, E!RestoreDone, E!RestoreMissing, E!RestoreFails
<1>2. /\ E!TypeOK /\ Stage(run[p]) /\ run[p] \in E!Process /\ run[p].id = tx /\ tx \in 1..MaxTx
  BY <1>1, EngineWorking, Zenon DEF EngineInv
<1>3. /\ run \in [Procs -> E!Process] /\ live \in E!Files
      /\ snaps \in [1..MaxTx -> [E!Binaries -> E!Contents \cup {E!Missing}]]
      /\ q.before \in E!Files
      /\ cause \in {"none", "truncated", "missing", "restore", "crash"}
  BY <1>2, Zenon DEF E!TypeOK, E!Process
<1>4. Returning(q) /\ RollingBack(q) /\ q.done \in RestoredSoFar
  BY <1>1, <1>2, Zenon DEF Stage
<1>5. CASE E!RestoreOne(p)
  <2> DEFINE b == E!NextUndo(p)
             s == [run[p] EXCEPT !.done = @ \cup {b}]
  <2>1. /\ q.done # E!Binaries /\ snaps[q.src][b] # E!Missing
        /\ live' = [live EXCEPT ![b] = snaps[q.src][b]]
        /\ run' = [run EXCEPT ![p] = s]
        /\ UNCHANGED <<lock, history, promised, cause>>
    BY <1>5, Zenon DEF E!RestoreOne, E!Complete, E!Go
  <2>2. b \in E!Binaries \ q.done /\ q.done \cup {b} \in RestoredSoFar /\ q.done \subseteq E!Binaries
    <3>1. \A D \in RestoredSoFar : D \subseteq E!Binaries
      BY EngineBinaries, Zenon
    <3> QED BY <1>4, <2>1, <3>1, EngineBinaries, Zenon DEF E!NextUndo
  <2>3. q.src \in 1..MaxTx
    <3>1. q.src = tx \/ (q.src = q.snap /\ q.snap # 0)
      BY <1>1, <1>4, Zenon DEF Returning, RollingBack, HasOlder
    <3>2. q.snap \in 0..MaxTx
      BY <1>2, Zenon DEF E!Process
    <3> QED BY <1>2, <3>1, <3>2
  <2>4. /\ live' \in E!Files
        /\ \A x \in E!Binaries : live'[x] = IF x = b THEN snaps[q.src][b] ELSE live[x]
    BY <1>3, <2>1, <2>2, <2>3 DEF E!Files
  <2> HIDE DEF b
  <2>5. /\ s \in E!Process /\ s.pc = "undo" /\ s.done = q.done \cup {b} /\ s.op = q.op /\ s.id = q.id
        /\ s.snap = q.snap /\ s.before = q.before /\ s.src = q.src /\ s.undo = q.undo
    BY <1>1, <1>2, <2>2, Zenon DEF E!Process
  <2>6. run'[p] = s /\ \A x \in Procs \ {p} : run'[x] = run[x]
    BY <1>3, <2>1, Zenon
  <2>7. E!TypeOK'
    BY <1>1, <1>2, <2>1, <2>4, <2>5, Zenon DEF E!TypeOK
  <2>8. Returning(run[p])'
    <3> SUFFICES ASSUME q.undo # "rollback" PROVE Returning(run[p])'
      BY <2>5, <2>6, Zenon DEF Returning
    <3>1. cause = "none" => \A x \in E!Binaries :
             /\ live'[x] = q.before[x] \/ snaps[tx][x] = q.before[x]
             /\ x \in q.done \cup {b} => live'[x] = q.before[x]
      BY <1>1, <1>4, <2>1, <2>4 DEF Returning
    <3> QED BY <1>1, <1>4, <2>1, <2>5, <2>6, <3>1 DEF Returning, HasOlder
  <2>9. RollingBack(run[p])'
    <3> SUFFICES ASSUME q.undo = "rollback" PROVE RollingBack(run[p])'
      BY <2>5, <2>6, Zenon DEF RollingBack
    <3>1. /\ q.op = "rollback" /\ HasOlder(q) /\ q.src = q.snap /\ snaps[tx] = q.before
          /\ \A x \in E!Binaries : live[x] = IF x \in q.done THEN snaps[q.snap][x] ELSE q.before[x]
      BY <1>1, <1>4, Zenon DEF RollingBack
    <3>2. \A x \in E!Binaries : live'[x] = IF x \in q.done \cup {b} THEN snaps[q.snap][x] ELSE q.before[x]
      BY <2>2, <2>4, <3>1
    <3> QED BY <1>1, <2>5, <2>6, <3>1, <3>2 DEF RollingBack, HasOlder
  <2>10. Stage(run[p])'
    BY <1>1, <1>2, <2>2, <2>5, <2>6, <2>8, <2>9, Zenon
       DEF Stage, Verifying, Preparing, Replacing, Saving, Gating, Regating
  <2> QED BY <1>1, <2>1, <2>5, <2>6, <2>7, <2>10, EngineContinues, Zenon
<1>6. CASE E!RestoreDone(p)
  <2>1. q.done = E!Binaries /\ E!Restored(p, FALSE) /\ UNCHANGED <<live, cause>>
    BY <1>6, Zenon DEF E!RestoreDone, E!Complete
  <2>2. cause = "none" /\ q.undo # "rollback" => live = q.before
    BY <1>1, <1>3, <1>4, <2>1 DEF Returning, E!Files
  <2>3. q.undo = "rollback" => live = snaps[q.snap]
    <3> SUFFICES ASSUME q.undo = "rollback" PROVE live = snaps[q.snap]
      BY Zenon
    <3>1. q.snap \in 1..MaxTx /\ \A b \in E!Binaries : live[b] = snaps[q.snap][b]
      <4>1. q.snap \in 0..MaxTx
        BY <1>2, Zenon DEF E!Process
      <4> QED BY <1>1, <1>2, <1>4, <2>1, <4>1 DEF RollingBack, HasOlder
    <3> QED BY <1>3, <3>1 DEF E!Files
  <2> QED BY <1>1, <1>3, <2>1, <2>2, <2>3, EngineRestored, Zenon
<1>7. CASE E!RestoreMissing(p)
  <2>1. /\ E!Restored(p, TRUE) /\ UNCHANGED live
        /\ cause' = IF live = q.before THEN cause ELSE "missing"
    BY <1>7, Zenon DEF E!RestoreMissing
  <2> QED BY <1>1, <1>3, <2>1, EngineRestored, Zenon
<1>8. CASE E!RestoreFails(p)
  <2>1. E!Restored(p, TRUE) /\ UNCHANGED live /\ cause' = "restore"
    BY <1>8, Zenon DEF E!RestoreFails
  <2> QED BY <1>1, <1>3, <2>1, EngineRestored, Zenon
<1> QED BY <1>5, <1>6, <1>7, <1>8, Zenon

\* The health gates.
LEMMA EngineGates ==
    ASSUME EngineConstants, EngineInv, NEW p \in Procs,
           E!GatePasses(p) \/ E!GateFails(p) \/ E!Regate(p)
    PROVE  EngineInv'
<1> DEFINE q == run[p]
<1>1. /\ run[p].pc \in {"gate", "regate"} /\ run[p].pc # "idle"
      /\ UNCHANGED <<live, snaps, tx, cause>>
      /\ \E S \in SUBSET E!Services : E!Restarted(S)
  BY Zenon DEF E!GatePasses, E!GateFails, E!Regate, E!RestartAll
<1>2. /\ E!TypeOK /\ Stage(run[p]) /\ run[p] \in E!Process /\ run[p].id = tx /\ tx \in 1..MaxTx
  BY <1>1, EngineWorking, Zenon DEF EngineInv
<1>3. /\ run \in [Procs -> E!Process] /\ live \in E!Files
      /\ running \in [E!Services -> E!Contents]
      /\ snaps \in [1..MaxTx -> [E!Binaries -> E!Contents \cup {E!Missing}]]
      /\ q.before \in E!Files /\ q.op \in {"apply", "rollback"} /\ q.snap <= tx
      /\ cause \in {"none", "truncated", "missing", "restore", "crash"}
  BY <1>2 DEF E!TypeOK, E!Process, Stage
<1>4. running' \in [E!Services -> E!Contents]
  BY <1>1, <1>3, EngineBinaries DEF E!Restarted, E!Files
<1>5. CASE E!GatePasses(p)
  <2>1. /\ q.pc = "gate" /\ promised' = E!Goal(p)
        /\ run' = [run EXCEPT ![p] = E!NoProcess] /\ lock' = None
        /\ \A s \in E!Services : running'[s] = live'[s]
    BY <1>1, <1>5, Zenon DEF E!GatePasses, E!Close, E!Go, E!Reported, E!RestartAll, E!Restarted
  <2>2. snaps[tx] = q.before
    BY <1>2, <2>1, Zenon DEF Stage, Gating
  <2>3. E!Goal(p) = live
    BY <1>2, <1>3, <2>1, Zenon DEF Stage, Gating, E!Goal
  <2>4. live' = promised' /\ promised' \in [E!Binaries -> E!Contents \cup {E!Missing}]
    BY <1>1, <1>3, <2>1, <2>3, Zenon DEF E!Files
  <2>5. CASE q.op = "apply"
    <3>1. \/ history' = Append(history, [id |-> run[p].id, status |-> "succeeded", snap |-> run[p].snap])
          \/ UNCHANGED history
      BY <1>5, <2>5, Zenon DEF E!GatePasses, E!Close
    <3>2. q.snap = tx
      BY <1>2, <2>1, <2>5, Zenon DEF Stage, Gating
    <3>3. q.snap # 0 /\ \A b \in E!Binaries : snaps[q.snap][b] # E!Missing
      BY <1>2, <1>3, <2>2, <3>2 DEF E!Files, EngineConstants
    <3> QED BY <1>1, <1>3, <1>4, <2>1, <2>4, <3>1, <3>3, EngineCloses, Zenon
  <2>6. CASE q.op = "rollback"
    <3>1. \/ history' = Append(history, [id |-> run[p].id, status |-> "manual_rollback", snap |-> run[p].snap])
          \/ UNCHANGED history
      BY <1>5, <2>6, Zenon DEF E!GatePasses, E!Close
    <3> QED BY <1>1, <1>3, <1>4, <2>1, <2>4, <3>1, EngineCloses, Zenon
  <2> QED BY <1>3, <2>5, <2>6, Zenon
<1>6. CASE E!GateFails(p)
  <2> DEFINE why == IF q.op = "apply" THEN "health" ELSE "recover"
             s == [run[p] EXCEPT !.pc = "undo", !.done = {}, !.src = run[p].id, !.undo = why]
  <2>1. q.pc = "gate" /\ run' = [run EXCEPT ![p] = s] /\ UNCHANGED <<lock, history, promised>>
    BY <1>6, Zenon DEF E!GateFails, E!Restoring, E!Go
  <2>2. /\ s \in E!Process /\ s.pc = "undo" /\ s.done = {} /\ s.op = q.op /\ s.id = q.id
        /\ s.snap = q.snap /\ s.before = q.before /\ s.src = tx /\ s.undo = why
    BY <1>2, Zenon DEF E!Process, E!Steps
  <2>3. run'[p] = s /\ \A x \in Procs \ {p} : run'[x] = run[x]
    BY <1>3, <2>1, Zenon
  <2>4. E!TypeOK'
    BY <1>1, <1>2, <1>4, <2>1, <2>2, Zenon DEF E!TypeOK
  <2>5. snaps[tx] = q.before /\ (q.op = "rollback" => HasOlder(q))
    BY <1>2, <2>1, Zenon DEF Stage, Gating
  <2>6. Returning(run[p])' /\ (run[p].snap <= tx)'
    BY <1>1, <1>3, <2>2, <2>3, <2>5 DEF Returning, HasOlder
  <2>7. {} \in RestoredSoFar
    BY Zenon DEF RestoredSoFar
  <2>8. Stage(run[p])'
    BY <1>1, <1>2, <2>2, <2>3, <2>6, <2>7 DEF Stage, Verifying, Preparing, Replacing, Saving,
       Gating, RollingBack, Regating
  <2> QED BY <1>1, <2>1, <2>2, <2>3, <2>4, <2>8, EngineContinues, Zenon
<1>7. CASE E!Regate(p)
  <2>1. /\ q.pc = "regate" /\ promised' = q.before
        /\ run' = [run EXCEPT ![p] = E!NoProcess] /\ lock' = None
    BY <1>7, Zenon DEF E!Regate, E!Close, E!Go
  <2>2. promised' \in [E!Binaries -> E!Contents \cup {E!Missing}]
    BY <1>3, <2>1, Zenon DEF E!Files
  <2>3. cause' = "none" => live' = promised'
    BY <1>1, <1>2, <2>1, Zenon DEF Stage, Regating
  <2>4. CASE q.op = "apply"
    <3>1. \/ history' = Append(history, [id |-> run[p].id, status |-> "rolled_back", snap |-> run[p].snap])
          \/ UNCHANGED history
      BY <1>7, <2>4, Zenon DEF E!Regate, E!Close
    <3> QED BY <1>1, <1>3, <1>4, <2>1, <2>2, <2>3, <3>1, EngineCloses, Zenon
  <2>5. CASE q.op = "rollback"
    <3>1. \/ history' = Append(history, [id |-> run[p].id, status |-> "rollback_failed", snap |-> run[p].snap])
          \/ UNCHANGED history
      BY <1>7, <2>5, Zenon DEF E!Regate, E!Close
    <3> QED BY <1>1, <1>3, <1>4, <2>1, <2>2, <2>3, <3>1, EngineCloses, Zenon
  <2> QED BY <1>3, <2>4, <2>5, Zenon
<1> QED BY <1>5, <1>6, <1>7, Zenon

\* The safety snapshot of a rollback, and the death of a process.
LEMMA EngineSafety ==
    ASSUME EngineConstants, EngineInv, NEW p \in Procs,
           E!Safety(p) \/ E!SafetyFails(p) \/ E!Crash(p)
    PROVE  EngineInv'
<1> DEFINE q == run[p]
<1>1. run[p].pc # "idle" /\ UNCHANGED <<live, running, tx>>
  BY Zenon DEF E!Safety, E!SafetyFails, E!Crash
<1>2. /\ E!TypeOK /\ Stage(run[p]) /\ run[p] \in E!Process /\ run[p].id = tx /\ tx \in 1..MaxTx
      /\ lock = p
  BY <1>1, EngineWorking, Zenon DEF EngineInv
<1>3. /\ run \in [Procs -> E!Process] /\ live \in E!Files
      /\ running \in [E!Services -> E!Contents]
      /\ snaps \in [1..MaxTx -> [E!Binaries -> E!Contents \cup {E!Missing}]]
      /\ q.before \in E!Files /\ q.snap <= tx /\ q.snap \in 0..MaxTx
      /\ cause \in {"none", "truncated", "missing", "restore", "crash"}
  BY <1>2, Zenon DEF E!TypeOK, E!Process, Stage
<1>4. q.before \in [E!Binaries -> E!Contents \cup {E!Missing}]
  BY <1>3, Zenon DEF E!Files
<1>5. CASE E!Safety(p)
  <2> DEFINE s == [run[p] EXCEPT !.pc = "undo", !.done = {}, !.src = run[p].snap, !.undo = "rollback"]
  <2>1. /\ q.pc = "safety" /\ run' = [run EXCEPT ![p] = s] /\ UNCHANGED <<lock, history, promised, cause>>
        /\ snaps' = [snaps EXCEPT ![tx] = live]
    BY <1>2, <1>5, Zenon DEF E!Safety, E!Restoring, E!Go
  <2>2. /\ s \in E!Process /\ s.pc = "undo" /\ s.done = {} /\ s.op = q.op /\ s.id = q.id
        /\ s.snap = q.snap /\ s.before = q.before /\ s.src = q.snap /\ s.undo = "rollback"
    BY <1>2, Zenon DEF E!Process, E!Steps
  <2>3. run'[p] = s /\ \A x \in Procs \ {p} : run'[x] = run[x]
    BY <1>3, <2>1, Zenon
  <2>4. /\ snaps' \in [1..MaxTx -> [E!Binaries -> E!Contents \cup {E!Missing}]]
        /\ snaps'[tx] = live
        /\ \A i \in 1..MaxTx : i # tx => snaps'[i] = snaps[i]
    BY <1>2, <1>3, <2>1, Zenon DEF E!Files
  <2>5. E!TypeOK'
    BY <1>1, <1>2, <2>1, <2>2, <2>4 DEF E!TypeOK
  <2>6. q.op = "rollback" /\ HasOlder(q) /\ live = q.before
    BY <1>2, <2>1, Zenon DEF Stage, Saving
  <2>7. RollingBack(run[p])' /\ (run[p].snap <= tx)'
    BY <1>1, <1>3, <2>2, <2>3, <2>4, <2>6 DEF RollingBack, HasOlder
  <2>8. {} \in RestoredSoFar
    BY Zenon DEF RestoredSoFar
  <2>9. Stage(run[p])'
    BY <1>1, <1>2, <2>2, <2>3, <2>7, <2>8 DEF Stage, Verifying, Preparing, Replacing, Saving,
       Gating, Returning, Regating
  <2> QED BY <1>1, <2>1, <2>2, <2>3, <2>4, <2>5, <2>9, EngineContinues, Zenon
<1>6. CASE E!SafetyFails(p)
  <2>1. /\ q.pc = "safety" /\ promised' = q.before /\ UNCHANGED <<snaps, cause>>
        /\ run' = [run EXCEPT ![p] = E!NoProcess] /\ lock' = None
        /\ \/ history' = Append(history, [id |-> run[p].id, status |-> "rollback_failed", snap |-> run[p].snap])
           \/ UNCHANGED history
    BY <1>6, Zenon DEF E!SafetyFails, E!Close, E!Go
  <2>2. live' = promised'
    BY <1>1, <1>2, <2>1, Zenon DEF Stage, Saving
  <2> QED BY <1>1, <1>3, <1>4, <2>1, <2>2, EngineCloses, Zenon
<1>7. CASE E!Crash(p)
  <2>1. /\ promised' = q.before /\ UNCHANGED <<snaps, history>>
        /\ run' = [run EXCEPT ![p] = E!NoProcess] /\ lock' = None
        /\ cause' = IF live = q.before THEN cause ELSE "crash"
    BY <1>2, <1>7, Zenon DEF E!Crash, E!Go
  <2>2. "failed" \in {"succeeded", "failed", "rolled_back", "manual_rollback", "rollback_failed"}
    BY Zenon
  <2> QED BY <1>1, <1>3, <1>4, <2>1, <2>2, EngineCloses, Zenon
<1> QED BY <1>5, <1>6, <1>7, Zenon

\* systemd restarts a service: a version that is not the live one is never started.
LEMMA EngineServiceRestarts ==
    ASSUME EngineConstants, EngineInv, E!ServiceRestarts
    PROVE  EngineInv'
<1>1. /\ \E s \in E!Services : E!Restarted({s})
      /\ UNCHANGED <<live, lock, snaps, history, run, tx, promised, cause>>
  BY Zenon DEF E!ServiceRestarts
<1>2. E!TypeOK /\ live \in E!Files /\ running \in [E!Services -> E!Contents]
  BY Zenon DEF EngineInv, E!TypeOK
<1>3. /\ running' \in [E!Services -> E!Contents]
      /\ \A s \in E!Services : running'[s] \in {live[s], running[s]}
  BY <1>1, <1>2, EngineBinaries DEF E!Restarted, E!Files
<1>4. E!TypeOK'
  BY <1>1, <1>2, <1>3, Zenon DEF E!TypeOK
<1>5. E!Idle' <=> E!Idle
  BY <1>1, Zenon DEF E!Idle
<1>6. ASSUME NEW p \in Procs, Stage(run[p]) PROVE Stage(run[p])'
  BY <1>1, <1>6, Zenon DEF Stage, Verifying, Preparing, Replacing,
           Saving, Gating, Returning, RollingBack, Regating, HasOlder
<1>7. OneTransaction'
  BY <1>1, <1>6, Zenon DEF OneTransaction, EngineInv
<1>8. HistoryIsOver' /\ NoSnapshotYet' /\ E!ReportIsTrue' /\ E!SucceededCanBeUndone'
  BY <1>1, <1>5, Zenon DEF HistoryIsOver, NoSnapshotYet, EngineInv, E!ReportIsTrue, E!SucceededCanBeUndone
<1>9. E!PassedGateIsRunning'
  BY <1>1, <1>3, <1>5, Zenon DEF E!PassedGateIsRunning, EngineInv
<1> QED BY <1>4, <1>7, <1>8, <1>9, Zenon DEF EngineInv

\* The invariant holds at first.
LEMMA EngineStarts ==
    ASSUME EngineConstants, E!Init
    PROVE  EngineInv
<1>1. /\ E!NoProcess \in E!Process /\ E!Whole(Installed) \in E!Files
      /\ Installed \in E!Contents
  BY EngineNoProcess, Zenon DEF E!Contents, E!Versions
<1>2. E!TypeOK
  BY <1>1 DEF E!Init, E!TypeOK, EngineConstants, E!NoFiles, E!Files
<1>3. \A p \in Procs : run[p].pc = "idle"
  BY Zenon DEF E!Init, E!NoProcess
<1>4. OneTransaction
  BY <1>3, Zenon DEF OneTransaction, E!Init, EngineConstants
<1>5. HistoryIsOver /\ NoSnapshotYet
  BY DEF HistoryIsOver, NoSnapshotYet, E!Init
<1> QED BY <1>2, <1>4, <1>5
        DEF EngineInv, E!Init, E!ReportIsTrue, E!SucceededCanBeUndone, E!PassedGateIsRunning

\* Every step of the engine keeps its invariant.
LEMMA EngineStep ==
    ASSUME EngineConstants, EngineInv, E!Next
    PROVE  EngineInv'
BY EngineStart, EngineVerify, EngineInstall, EngineRestore, EngineGates, EngineSafety,
   EngineServiceRestarts, Zenon DEF E!Next

\* So does a step of nobody.
LEMMA EngineStutter ==
    ASSUME EngineInv, UNCHANGED <<live, running, lock, snaps, history, run, tx, promised, cause>>
    PROVE  EngineInv'
<1>1. E!TypeOK'
  BY Zenon DEF EngineInv, E!TypeOK
<1>2. E!Idle' <=> E!Idle
  BY Zenon DEF E!Idle
<1>3. ASSUME NEW p \in Procs, Stage(run[p]) PROVE Stage(run[p])'
  BY <1>3, Zenon DEF Stage, Verifying, Preparing, Replacing,
           Saving, Gating, Returning, RollingBack, Regating, HasOlder
<1>4. OneTransaction'
  BY <1>3, Zenon DEF OneTransaction, EngineInv
<1>5. HistoryIsOver' /\ NoSnapshotYet'
  BY <1>2, Zenon DEF HistoryIsOver, NoSnapshotYet, EngineInv
<1>6. E!ReportIsTrue' /\ E!SucceededCanBeUndone' /\ E!PassedGateIsRunning'
  BY <1>2, Zenon DEF EngineInv, E!ReportIsTrue, E!SucceededCanBeUndone, E!PassedGateIsRunning
<1> QED BY <1>1, <1>4, <1>5, <1>6, Zenon DEF EngineInv

\* What the update engine reports is what is installed (Apply, Rollback, install
\* and restore of internal/update/engine.go), for any number of processes, releases
\* and transactions.
THEOREM UpdateSound == EngineConstants /\ EngineSpec => []UpdateIsSound
<1> SUFFICES ASSUME EngineConstants PROVE EngineSpec => []UpdateIsSound
  BY Zenon
<1>1. EngineInit => EngineInv
  BY EngineStarts, Zenon DEF EngineInit
<1>2. EngineInv /\ [EngineNext]_vars => EngineInv'
  BY EngineStep, EngineStutter, Zenon DEF EngineNext, vars
<1>3. EngineInv => UpdateIsSound
  BY Zenon DEF EngineInv, UpdateIsSound
<1> QED BY <1>1, <1>2, <1>3, PTL DEF EngineSpec
=============================================================================
