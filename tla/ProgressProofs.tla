--------------------------- MODULE ProgressProofs ---------------------------
(***************************************************************************)
(* What holds of the updater's request file and of the start of Core, for  *)
(* every number of calls, of migrations, of crashes and of lost files.     *)
(*                                                                         *)
(* SlotInv says where a request is: a call that has not written its        *)
(* request yet is neither in the file nor with the updater, and a request  *)
(* that the path unit still announces has not been carried out.  SchemaInv *)
(* relates the migration table to the schema at each point of the start,   *)
(* and KeysInv the certificate files to the generation being written.      *)
(***************************************************************************)
EXTENDS QueuePart, StartupPart, Naturals, Sequences, TLAPS

\* A request file holds a call or one of the two values that are not calls.
QueueConstants ==
    /\ None \notin Calls /\ Malformed \notin Calls
    /\ Mixes \subseteq [Calls -> Q!Kinds]
    /\ MaxTime \in Nat

Unwritten == {"idle", "read", "write"}
Stages    == Unwritten \cup {"wait", "accepted", "backed", "changed", "refused"}

\* Where a request is, and how often it has been carried out.
SlotInv ==
    /\ call \in [Calls -> Stages]
    /\ served \in [Calls -> {0, 1}]
    /\ armed \in BOOLEAN
    /\ worker \in [pc : {"idle", "serve", "remove"}, req : Calls \cup {None}]
    /\ \A c \in Calls : call[c] \in Unwritten => served[c] = 0 /\ slot # c /\ worker.req # c
    /\ worker.pc = "serve" => worker.req \in Calls /\ served[worker.req] = 0
    /\ armed /\ slot \in Calls => served[slot] = 0 /\ worker.req # slot

\* Nothing has been written when the Core starts, or a file the CLI refuses.
LEMMA SlotInit == QueueConstants /\ Q!Init => SlotInv
<1> SUFFICES ASSUME QueueConstants, Q!Init
             PROVE  SlotInv
  OBVIOUS
<1>1. slot \notin Calls /\ armed = FALSE
  BY DEF QueueConstants, Q!Init
<1>2. worker.pc = "idle" /\ worker.req = None /\ worker.req \notin Calls
      /\ worker \in [pc : {"idle", "serve", "remove"}, req : Calls \cup {None}]
  BY DEF QueueConstants, Q!Init, Q!NoWorker
<1>3. call \in [Calls -> Stages] /\ served \in [Calls -> {0, 1}] /\ \A c \in Calls : served[c] = 0
  BY DEF Q!Init, Stages, Unwritten
<1> QED
  BY <1>1, <1>2, <1>3, Zenon DEF SlotInv

\* Every step of the Core, the path unit and the CLI keeps SlotInv.
LEMMA SlotNext == QueueConstants /\ SlotInv /\ [Q!Next]_(Q!vars) => SlotInv'
<1> SUFFICES ASSUME QueueConstants, SlotInv, [Q!Next]_(Q!vars)
             PROVE  SlotInv'
  OBVIOUS
<1>1. ASSUME NEW c \in Calls, Q!Apply(c) \/ Q!Rollback(c) \/ Q!CreateBackup(c) \/ Q!RestoreBackup(c)
                              \/ Q!CreateBackupAndWait(c)
      PROVE  SlotInv'
  <2>1. /\ Q!At(c, "idle", "read") \/ Q!At(c, "idle", "refused")
        /\ UNCHANGED <<slot, armed, worker, served>>
    BY <1>1 DEF Q!Apply, Q!Rollback, Q!CreateBackup, Q!RestoreBackup, Q!CreateBackupAndWait, Q!Ask
  <2> QED
    BY <2>1 DEF Q!At, SlotInv, Unwritten, Stages
<1>2. ASSUME NEW c \in Calls, Q!ReadSlot(c) \/ Q!AskFails(c)
      PROVE  SlotInv'
  BY <1>2 DEF Q!ReadSlot, Q!AskFails, Q!At, SlotInv, Unwritten, Stages
<1>3. ASSUME NEW c \in Calls, Q!WriteSlot(c)
      PROVE  SlotInv'
  <2>1. /\ call[c] = "write" /\ slot' = c
        /\ call' = [call EXCEPT ![c] = IF Kind[c] = "guard" THEN "wait" ELSE "accepted"]
        /\ armed' \in BOOLEAN
        /\ UNCHANGED <<worker, served>>
    BY <1>3, Zenon DEF Q!WriteSlot, Q!At
  <2>2. served[c] = 0 /\ worker.req # c
    BY <2>1 DEF SlotInv, Unwritten, Stages
  <2> QED
    BY <2>1, <2>2 DEF SlotInv, Unwritten, Stages
<1>4. ASSUME NEW c \in Calls, Q!Poll(c) \/ Q!WaitExpires(c) \/ Q!SetMany(c)
      PROVE  SlotInv'
  <2>1. /\ \E to \in {"backed", "changed", "refused"} : call' = [call EXCEPT ![c] = to]
        /\ UNCHANGED <<slot, armed, worker, served>>
    BY <1>4 DEF Q!Poll, Q!WaitExpires, Q!SetMany, Q!At
  <2> QED
    BY <2>1 DEF SlotInv, Unwritten, Stages
<1>5. CASE Q!WorkerStart
  BY <1>5, Zenon DEF Q!WorkerStart, SlotInv, Unwritten, Q!NoWorker, QueueConstants, Stages
<1>6. CASE Q!Serve
  <2> DEFINE r == worker.req
  <2>1. /\ worker.pc = "serve"
        /\ worker' = [worker EXCEPT !.pc = "remove"]
        /\ served' = [served EXCEPT ![r] = @ + 1]
        /\ UNCHANGED <<slot, armed>>
    BY <1>6 DEF Q!Serve
  <2>2. \/ call' = call
        \/ call' = [c \in Calls |-> IF call[c] \in Q!Open THEN "refused" ELSE call[c]]
    BY <1>6 DEF Q!Serve
  <2>3. r \in Calls /\ served[r] = 0
    BY <2>1 DEF SlotInv, Stages, Unwritten
  <2>4. call' \in [Calls -> Stages] /\ \A c \in Calls : call'[c] \in Unwritten => call[c] \in Unwritten
    BY <2>2 DEF SlotInv, Unwritten, Q!Open, Stages
  <2>5. worker' \in [pc : {"idle", "serve", "remove"}, req : Calls \cup {None}]
        /\ worker'.pc = "remove" /\ worker'.req = r
    BY <2>1 DEF SlotInv, Stages, Unwritten
  <2>6. served' \in [Calls -> {0, 1}] /\ \A c \in Calls : c # r => served'[c] = served[c]
    BY <2>1, <2>3 DEF SlotInv, Stages, Unwritten
  <2> QED
    BY <2>1, <2>3, <2>4, <2>5, <2>6 DEF SlotInv, Stages, Unwritten
<1>7. CASE Q!WorkerEnd
  BY <1>7, Zenon DEF Q!WorkerEnd, Q!RemoveRequest, SlotInv, Q!NoWorker, QueueConstants, Stages, Unwritten
<1>8. CASE Q!WorkerCrash
  BY <1>8 DEF Q!WorkerCrash, SlotInv, Q!NoWorker, QueueConstants, Stages, Unwritten
<1>9. CASE Q!CoreRestart
  BY <1>9 DEF Q!CoreRestart, SlotInv, Unwritten, Q!Open, Stages
<1>10. CASE Q!Tick \/ UNCHANGED Q!vars
  BY <1>10 DEF Q!Tick, Q!vars, SlotInv, Stages, Unwritten
<1> QED
  BY <1>1, <1>2, <1>3, <1>4, <1>5, <1>6, <1>7, <1>8, <1>9, <1>10 DEF Q!Next

\* A request is carried out at most once, although the path unit may announce it
\* again, the updater may die over it and another call may overwrite it
\* (writeRequest of updater/service.go, runUpdateApply of cmd/cli/main.go).
THEOREM RequestsAtMostOnce ==
    ASSUME QueueConstants
    PROVE  Q!Spec => []Q!AtMostOnce
<1>1. Q!Init => SlotInv
  BY SlotInit
<1>2. SlotInv /\ [Q!Next]_(Q!vars) => SlotInv'
  BY SlotNext
<1>3. SlotInv => Q!AtMostOnce
  BY DEF SlotInv, Q!AtMostOnce, Stages, Unwritten
<1> QED
  BY <1>1, <1>2, <1>3, PTL DEF Q!Spec

-----------------------------------------------------------------------------

Entries == [reason : {Reason[c] : c \in Calls} \cup {"before-update"}, started : 0..MaxTime, ok : BOOLEAN]

\* The history grows at its end, and a guard's time is set before it waits.
GuardInv ==
    /\ call \in [Calls -> Stages]
    /\ since \in [Calls -> 0..MaxTime]
    /\ now \in 0..MaxTime
    /\ log \in Seq(Entries)
    /\ Q!GuardedIsBackedUp

\* A longer history still holds what a shorter one did.
LEMMA AppendKeeps ==
    ASSUME NEW s \in Seq(Entries), NEW e \in Entries
    PROVE  /\ Append(s, e) \in Seq(Entries)
           /\ \A i \in 1..Len(s) : i \in 1..Len(Append(s, e)) /\ Append(s, e)[i] = s[i]
  OBVIOUS

\* The steps that change no history and no guard's time, and let no guard through.
LEMMA GuardStays ==
    ASSUME GuardInv, UNCHANGED <<Kind, since, log>>, now' \in 0..MaxTime, call' \in [Calls -> Stages],
           \A c \in Calls : call'[c] \in {"backed", "changed"} => call[c] \in {"backed", "changed"}
    PROVE  GuardInv'
  BY DEF GuardInv, Q!GuardedIsBackedUp, Q!Waiters, Stages, Unwritten

\* Every step keeps GuardInv; only Poll lets a guard through.
LEMMA GuardNext == QueueConstants /\ SlotInv /\ GuardInv /\ [Q!Next]_(Q!vars) => GuardInv'
<1> SUFFICES ASSUME QueueConstants, SlotInv, GuardInv, [Q!Next]_(Q!vars)
             PROVE  GuardInv'
  OBVIOUS
<1>1. ASSUME NEW c \in Calls, Q!Apply(c) \/ Q!Rollback(c) \/ Q!CreateBackup(c) \/ Q!RestoreBackup(c)
      PROVE  GuardInv'
  <2>1. /\ Q!At(c, "idle", "read") \/ Q!At(c, "idle", "refused")
        /\ UNCHANGED <<Kind, since, log, now>>
    BY <1>1 DEF Q!Apply, Q!Rollback, Q!CreateBackup, Q!RestoreBackup, Q!Ask
  <2> QED
    BY <2>1, GuardStays DEF Q!At, GuardInv, Stages, Unwritten
<1>2. ASSUME NEW c \in Calls, Q!CreateBackupAndWait(c)
      PROVE  GuardInv'
  <2>1. /\ call' = [call EXCEPT ![c] = "read"]
        /\ since' = [since EXCEPT ![c] = now]
        /\ UNCHANGED <<Kind, log, now>>
    BY <1>2 DEF Q!CreateBackupAndWait, Q!Ask, Q!At
  <2> QED
    BY <2>1 DEF GuardInv, Q!GuardedIsBackedUp, Q!Waiters, Stages, Unwritten
<1>3. ASSUME NEW c \in Calls, Q!ReadSlot(c) \/ Q!WriteSlot(c) \/ Q!AskFails(c) \/ Q!WaitExpires(c)
      PROVE  GuardInv'
  <2>1. /\ \E to \in {"write", "refused", "wait", "accepted"} : call' = [call EXCEPT ![c] = to]
        /\ UNCHANGED <<Kind, since, log, now>>
    BY <1>3, Zenon DEF Q!ReadSlot, Q!WriteSlot, Q!AskFails, Q!WaitExpires, Q!At
  <2> QED
    BY <2>1, GuardStays DEF GuardInv, Stages, Unwritten
<1>4. ASSUME NEW c \in Calls, Q!SetMany(c)
      PROVE  GuardInv'
  <2>1. /\ call[c] = "backed"
        /\ \E to \in {"changed", "refused"} : call' = [call EXCEPT ![c] = to]
        /\ UNCHANGED <<Kind, since, log, now>>
    BY <1>4 DEF Q!SetMany, Q!At
  <2> QED
    BY <2>1, GuardStays DEF GuardInv, Stages, Unwritten
<1>5. ASSUME NEW c \in Calls, Q!Poll(c)
      PROVE  GuardInv'
  <2>1. PICK i \in 1..Len(log) :
          /\ Q!Matches(log[i], c)
          /\ call' = [call EXCEPT ![c] = IF log[i].ok THEN "backed" ELSE "refused"]
    BY <1>5, Zenon DEF Q!Poll, Q!At
  <2>2. UNCHANGED <<Kind, since, log, now>>
    BY <1>5 DEF Q!Poll
  <2>3. CASE log[i].ok
    BY <2>1, <2>2, <2>3 DEF GuardInv, Q!GuardedIsBackedUp, Q!Waiters, Q!Matches, Stages, Unwritten
  <2>4. CASE ~log[i].ok
    BY <2>1, <2>2, <2>4, GuardStays DEF GuardInv, Stages, Unwritten
  <2> QED
    BY <2>3, <2>4
<1>6. CASE Q!Serve
  <2>1. worker.req \in Calls /\ UNCHANGED <<Kind, since, now>>
    BY <1>6 DEF Q!Serve, SlotInv, Stages, Unwritten
  <2>2. log' = log \/ \E e \in Entries : log' = Append(log, e)
    <3>1. PICK ok \in BOOLEAN :
            log' = CASE Kind[worker.req] \in {"backup", "guard"} ->
                          Append(log, [reason |-> Reason[worker.req], started |-> now, ok |-> ok])
                     [] Kind[worker.req] = "apply" ->
                          Append(log, [reason |-> "before-update", started |-> now, ok |-> ok])
                     [] OTHER -> log
      BY <1>6 DEF Q!Serve
    <3>2. /\ [reason |-> Reason[worker.req], started |-> now, ok |-> ok] \in Entries
          /\ [reason |-> "before-update", started |-> now, ok |-> ok] \in Entries
      BY <2>1 DEF GuardInv, Entries, Stages, Unwritten
    <3> QED
      BY <3>1, <3>2
  <2>3. /\ call' \in [Calls -> Stages]
        /\ \A c \in Calls : call'[c] \in {"backed", "changed"} => call[c] \in {"backed", "changed"}
    BY <1>6 DEF Q!Serve, GuardInv, Stages, Unwritten
  <2>4. log' \in Seq(Entries) /\ \A i \in 1..Len(log) : i \in 1..Len(log') /\ log'[i] = log[i]
    BY <2>2, AppendKeeps, Zenon DEF GuardInv, Stages, Unwritten
  <2>5. Q!GuardedIsBackedUp'
    <3> SUFFICES ASSUME NEW c \in Calls, Kind'[c] = "guard", call'[c] \in {"backed", "changed"}
                 PROVE  \E i \in 1..Len(log') : /\ log'[i].ok /\ log'[i].started >= since'[c]
                                                /\ log'[i].reason = Reason[c]
      BY DEF Q!GuardedIsBackedUp, Q!Waiters
    <3>1. PICK i \in 1..Len(log) : log[i].ok /\ log[i].started >= since[c] /\ log[i].reason = Reason[c]
      BY <2>1, <2>3 DEF GuardInv, Q!GuardedIsBackedUp, Q!Waiters
    <3> QED
      BY <2>1, <2>4, <3>1
  <2> QED
    BY <2>1, <2>3, <2>4, <2>5 DEF GuardInv
<1>7. CASE Q!WorkerStart \/ Q!WorkerEnd \/ Q!WorkerCrash \/ UNCHANGED Q!vars
  BY <1>7, GuardStays, Zenon DEF Q!WorkerStart, Q!WorkerEnd, Q!WorkerCrash, Q!vars, GuardInv, Stages, Unwritten
<1>8. CASE Q!CoreRestart
  BY <1>8, GuardStays DEF Q!CoreRestart, GuardInv, Stages, Unwritten
<1>9. CASE Q!Tick
  BY <1>9, GuardStays DEF Q!Tick, GuardInv, Stages, Unwritten, QueueConstants
<1> QED
  BY <1>1, <1>2, <1>3, <1>4, <1>5, <1>6, <1>7, <1>8, <1>9 DEF Q!Next

\* No guard waits and the history is empty when the Core starts.
LEMMA GuardInit == QueueConstants /\ Q!Init => GuardInv
<1> SUFFICES ASSUME QueueConstants, Q!Init
             PROVE  GuardInv
  OBVIOUS
<1>1. call \in [Calls -> Stages] /\ \A c \in Calls : call[c] = "idle"
  BY DEF Q!Init, Stages, Unwritten
<1>2. since \in [Calls -> 0..MaxTime] /\ now \in 0..MaxTime /\ log \in Seq(Entries)
  BY DEF Q!Init, QueueConstants
<1> QED
  BY <1>1, <1>2 DEF GuardInv, Q!GuardedIsBackedUp, Q!Waiters

\* The guard of critical mutations is fail-closed: a mutation goes ahead only after
\* a backup with its reason that began once the mutation was asked for and that
\* succeeded (CreateBackupAndWait of updater/service.go).
THEOREM GuardFailsClosed ==
    ASSUME QueueConstants
    PROVE  Q!Spec => []Q!GuardedIsBackedUp
<1>1. Q!Init => SlotInv /\ GuardInv
  BY SlotInit, GuardInit, Zenon
<1>2. SlotInv /\ GuardInv /\ [Q!Next]_(Q!vars) => (SlotInv /\ GuardInv)'
  BY SlotNext, GuardNext
<1>3. GuardInv => Q!GuardedIsBackedUp
  BY DEF GuardInv, Stages, Unwritten
<1> QED
  BY <1>1, <1>2, <1>3, PTL DEF Q!Spec

\* What the request file, the updater and the two ghosts hold.
PlaceInv ==
    /\ Kind \in [Calls -> Q!Kinds]
    /\ slot \in Calls \cup {None, Malformed}
    /\ worker.pc # "idle" => worker.req \in Calls
    /\ late \subseteq Calls /\ lost \subseteq Calls

\* Only calls are written to the file, and only calls are lost.
LEMMA PlaceNext == SlotInv /\ PlaceInv /\ [Q!Next]_(Q!vars) => PlaceInv'
<1> SUFFICES ASSUME SlotInv, PlaceInv, [Q!Next]_(Q!vars)
             PROVE  PlaceInv'
  OBVIOUS
<1>1. CASE UNCHANGED <<Kind, slot, worker, late, lost>>
  BY <1>1, Zenon DEF PlaceInv
<1>2. ASSUME NEW c \in Calls, Q!WriteSlot(c)
      PROVE  PlaceInv'
  BY <1>2, Zenon DEF PlaceInv, Q!WriteSlot
<1>3. CASE Q!WorkerEnd
  <2>1. worker'.pc = "idle" /\ Kind' = Kind /\ slot' = None /\ late' = late /\ lost' \subseteq lost \cup late
    BY <1>3 DEF Q!WorkerEnd, Q!RemoveRequest, Q!NoWorker
  <2> QED
    BY <2>1 DEF PlaceInv
<1>4. CASE Q!WorkerCrash
  <2>1. worker.req \in Calls
    BY <1>4, Zenon DEF Q!WorkerCrash, PlaceInv
  <2>2. worker'.pc = "idle" /\ UNCHANGED <<Kind, slot, late>> /\ lost' = lost \cup {worker.req}
    BY <1>4 DEF Q!WorkerCrash, Q!NoWorker
  <2> QED
    BY <2>1, <2>2 DEF PlaceInv
<1>5. ASSUME NEW c \in Calls,
             \/ Q!Apply(c) \/ Q!Rollback(c) \/ Q!CreateBackup(c) \/ Q!RestoreBackup(c)
             \/ Q!CreateBackupAndWait(c)
             \/ Q!ReadSlot(c) \/ Q!AskFails(c) \/ Q!Poll(c) \/ Q!WaitExpires(c) \/ Q!SetMany(c)
      PROVE  PlaceInv'
  BY <1>1, <1>5, Zenon DEF Q!Apply, Q!Rollback, Q!CreateBackup, Q!RestoreBackup,
     Q!CreateBackupAndWait, Q!Ask, Q!ReadSlot, Q!AskFails, Q!Poll, Q!WaitExpires, Q!SetMany
<1>6. CASE Q!CoreRestart \/ Q!Tick \/ UNCHANGED Q!vars
  BY <1>1, <1>6, Zenon DEF Q!CoreRestart, Q!Tick, Q!vars
<1>7. CASE Q!WorkerStart
  <2>1. worker'.pc # "idle" => worker'.req \in Calls
    BY <1>7 DEF Q!WorkerStart, Q!NoWorker
  <2> QED
    BY <1>7, <2>1, Zenon DEF Q!WorkerStart, PlaceInv
<1>8. CASE Q!Serve
  <2>1. worker'.req \in Calls
    BY <1>8 DEF Q!Serve, SlotInv
  <2> QED
    BY <1>8, <2>1, Zenon DEF Q!Serve, PlaceInv
<1> QED
  BY <1>2, <1>3, <1>4, <1>5, <1>6, <1>7, <1>8, Zenon DEF Q!Next

QueueInv == SlotInv /\ GuardInv /\ PlaceInv

\* Whatever the calls are, how many they are and how long they wait: no request is
\* carried out twice, and a guarded mutation goes ahead only after a backup of its
\* reason that began since and succeeded, although other calls overwrite the request
\* file, the updater dies over a request and Core restarts (writeRequest and
\* CreateBackupAndWait of updater/service.go, runUpdateApply of cmd/cli/main.go).
THEOREM GuardSound == QueueConstants /\ QueueSpec => []GuardIsClosed
<1> SUFFICES ASSUME QueueConstants PROVE QueueSpec => []GuardIsClosed
  BY Zenon
<1>1. QueueInit => QueueInv
  <2> SUFFICES ASSUME Q!Init
               PROVE  QueueInv
    BY Zenon DEF QueueInit
  <2>1. PlaceInv
    BY DEF Q!Init, Q!NoWorker, PlaceInv, QueueConstants
  <2> QED
    BY <2>1, SlotInit, GuardInit, Zenon DEF QueueInv
<1>2. QueueInv /\ [QueueNext]_<<subject, Q!vars>> => QueueInv'
  BY SlotNext, GuardNext, PlaceNext, Zenon DEF QueueInv, QueueNext
<1>3. QueueInv => GuardIsClosed
  <2> SUFFICES ASSUME QueueInv
               PROVE  Q!TypeOK /\ Q!GuardedIsBackedUp /\ Q!AtMostOnce
    BY Zenon DEF GuardIsClosed
  <2>1. \A i \in 1..Len(log) : log[i].started \in 0..MaxTime /\ log[i].ok \in BOOLEAN
    <3>1. \A i \in 1..Len(log) : log[i] \in Entries
      BY DEF QueueInv, GuardInv
    <3> QED
      BY <3>1 DEF Entries
  <2>2. Q!AtMostOnce
    BY DEF QueueInv, SlotInv, Q!AtMostOnce
  <2>3. call \in [Calls -> {"idle", "read", "write", "wait", "accepted", "backed", "changed", "refused"}]
    BY DEF QueueInv, SlotInv, Stages, Unwritten
  <2> QED
    BY <2>1, <2>2, <2>3, Zenon DEF QueueInv, SlotInv, GuardInv, PlaceInv, Q!TypeOK
<1> QED
  BY <1>1, <1>2, <1>3, PTL DEF QueueSpec

-----------------------------------------------------------------------------
(* The start of Core.                                                      *)

\* The versions are numbered from 1, and no number stands for a file that is missing.
StartupConstants ==
    Latest \in Nat /\ LegacyAt \subseteq 0..Latest /\ MaxGens \in Nat /\ None \notin Nat

MetaTable == [form : {"none", "name", "version"}, version : 0..Latest, dirty : BOOLEAN]
Migrated  == {"seed", "ensure", "open", "rename", "serving"}

\* What the migration table says of the schema at each point of the start.
VersionInv ==
    /\ meta.form = "none" => applied = {} /\ ~meta.dirty
    /\ meta.form = "name" =>
         applied = 1..meta.version /\ meta.version \in LegacyAt /\ ~meta.dirty
    /\ meta.form # "none" \/ pc # "down" => exists
    /\ \A i \in 1..Latest : i < meta.version \/ (i = meta.version /\ ~meta.dirty) => i \in applied
    /\ legacy # 0 => meta.form = "version" /\ meta.version >= legacy
    /\ meta.dirty => meta.version > legacy
    /\ (\E i \in applied : i > meta.version) => legacy # 0 /\ hurt
    /\ meta.dirty /\ pc \notin {"run", "clean"} => hurt
    /\ pc \in {"run", "clean"} => meta.dirty /\ meta.form = "version" /\ at = meta.version
    /\ pc = "run" /\ at \in applied => legacy # 0 /\ hurt
    /\ pc = "clean" => at \in applied
    /\ pc = "up" => meta.form = "version"
    /\ pc \in Migrated => meta.version = Latest /\ ~meta.dirty
    /\ pc \in Migrated \ {"seed"} => admin
    /\ S!MigratedOnce

MetaInv ==
    /\ meta \in MetaTable /\ legacy \in 0..Latest /\ legacy \in LegacyAt \cup {0}
    /\ applied \subseteq 1..Latest

SchemaInv == MetaInv /\ VersionInv

\* All migrations but the newest are in the schema: what a start without a backup
\* of its own may find, if it is to take a dirty table back.
AlmostAll == start = applied /\ \A i \in 1..Latest : i < Latest => i \in applied

\* Where the backup of the schema is that this start found.
SnapshotInv ==
    /\ legacy # 0 => (1..legacy) \in backups
    /\ pc \in {"backup", "metadata"} => start = applied
    /\ pc = "metadata" => \/ meta.form = "none" \/ start \in backups
                          \/ meta.form = "version" /\ meta.version = Latest
    /\ pc = "up" => \/ start = {} \/ start \in backups \/ meta.version = Latest
                    \/ legacy # 0 /\ meta.version = legacy /\ ~meta.dirty /\ AlmostAll
    /\ pc = "run" => \/ start = {} \/ start \in backups
                     \/ legacy # 0 /\ at = legacy + 1 /\ AlmostAll
    /\ pc = "clean" => start = {} \/ start \in backups

Same == \A f, g \in S!FileSet : files[f] = files[g]

\* Temporary files that an earlier start left behind.
Stuck == IF pc = "rename" THEN left \ {S!Files[at]} ELSE left

KeysType ==
    /\ files \in [S!FileSet -> (1..MaxGens) \cup {None}]
    /\ left \subseteq S!FileSet /\ lost \in Nat /\ torn \in BOOLEAN
    /\ pc \in {"open", "rename"} => at \in 1..4 /\ gen \in 1..MaxGens

\* What the certificate files hold at each point of the start, and what they hold
\* as long as none of them was lost: the last of them is only there with the others,
\* and a temporary file that a crash left behind keeps it from being written.
KeysInv ==
    /\ KeysType
    /\ pc \in {"open", "rename"} =>
         \A i \in 1..4 : i < at => files[S!Files[i]] = gen /\ S!Files[i] \notin left
    /\ pc = "serving" => S!allExist
    /\ ~torn /\ S!allExist /\ pc \notin {"open", "rename"} => Same
    /\ ~torn /\ files["key"] # None => Stuck = {}
    /\ lost = 0 => /\ pc \in {"open", "rename"} => files["key"] = None
                   /\ files["key"] # None => Same
                   /\ clients # {} => files["key"] # None /\ \A c \in clients : files["ca"] = c

StartupInv == SchemaInv /\ SnapshotInv /\ KeysInv

-----------------------------------------------------------------------------

\* A table is one value of MetaTable, whatever its version.
LEMMA TableType ==
    ASSUME StartupConstants, NEW v \in 0..Latest, NEW d \in BOOLEAN
    PROVE  /\ S!Table(v, d) \in MetaTable
           /\ S!Table(v, d).form = "version" /\ S!Table(v, d).version = v /\ S!Table(v, d).dirty = d
  BY DEF S!Table, MetaTable

\* The state an installation, new or of an earlier release, is in.
LEMMA StartupStart == StartupConstants /\ S!Init => StartupInv
<1> SUFFICES ASSUME StartupConstants, S!Init
             PROVE  SchemaInv /\ SnapshotInv /\ KeysInv
  BY Zenon DEF StartupInv
<1>1. legacy = 0 /\ pc = "down" /\ reran = {} /\ start = applied
  BY Zenon DEF S!Init
<1>2. SchemaInv
  <2>1. CASE meta = S!NoTable /\ applied = {} /\ exists = FALSE
    BY <1>1, <2>1, SMT DEF SchemaInv, MetaInv, VersionInv, S!NoTable, MetaTable, Migrated, S!MigratedOnce, StartupConstants
  <2>2. CASE \E v \in LegacyAt \ {0} : meta = S!Legacy(v) /\ applied = 1..v /\ exists = TRUE
    <3>1. PICK v \in LegacyAt \ {0} : meta = S!Legacy(v) /\ applied = 1..v /\ exists = TRUE
      BY <2>2, Zenon
    <3>2. v \in 1..Latest /\ Latest \in Nat
      BY <3>1, SMT DEF StartupConstants
    <3>3. meta \in MetaTable /\ meta.form = "name" /\ meta.version = v /\ meta.dirty = FALSE
      BY <3>1, <3>2, SMT DEF S!Legacy, MetaTable
    <3> QED
      BY <1>1, <3>1, <3>2, <3>3, SMT DEF SchemaInv, MetaInv, VersionInv, Migrated, S!MigratedOnce
  <2>3. CASE \E v \in 1..Latest : meta = S!Table(v, FALSE) /\ applied = 1..v /\ exists = TRUE
    <3>1. PICK v \in 1..Latest : meta = S!Table(v, FALSE) /\ applied = 1..v /\ exists = TRUE
      BY <2>3, Zenon
    <3>2. v \in 1..Latest /\ Latest \in Nat
      BY <3>1, SMT DEF StartupConstants
    <3>3. meta \in MetaTable /\ meta.form = "version" /\ meta.version = v /\ meta.dirty = FALSE
      BY <3>1, <3>2, SMT DEF S!Table, MetaTable
    <3>4. /\ applied \subseteq 1..Latest /\ ~(\E i \in applied : i > meta.version)
          /\ \A i \in 1..Latest : i < meta.version \/ (i = meta.version /\ ~meta.dirty) => i \in applied
      <4>1. /\ 1..v \subseteq 1..Latest /\ ~(\E i \in 1..v : i > v)
            /\ \A i \in 1..Latest : i < v \/ i = v => i \in 1..v
        BY <3>2, SMT
      <4> QED
        BY <3>1, <3>3, <4>1, Zenon
    <3>5. legacy \in 0..Latest
      BY <1>1, <3>2, SMT
    <3> QED
      BY <1>1, <3>1, <3>3, <3>4, <3>5, Zenon DEF SchemaInv, MetaInv, VersionInv, Migrated, S!MigratedOnce
  <2> QED
    BY <2>1, <2>2, <2>3, Zenon DEF S!Init
<1>3. SnapshotInv
  BY <1>1, Zenon DEF SnapshotInv
<1>4. KeysInv
  <2>1. /\ files = [f \in S!FileSet |-> None] /\ left = {} /\ clients = {}
        /\ torn = FALSE /\ lost = 0 /\ 0 \in Nat
    BY Zenon DEF S!Init
  <2>2. "ca" \in S!FileSet /\ "key" \in S!FileSet
    BY Zenon DEF S!FileSet
  <2>3. /\ files \in [S!FileSet -> (1..MaxGens) \cup {None}] /\ files["key"] = None
        /\ \A f \in S!FileSet : files[f] = None
    BY <2>1, <2>2, Zenon
  <2> QED
    BY <1>1, <2>1, <2>2, <2>3, Zenon DEF KeysInv, KeysType, Stuck, Same, S!allExist
<1> QED
  BY <1>2, <1>3, <1>4, Zenon

\* Every step of a start, a crash and a lost file keep what the table says.
LEMMA SchemaNext == StartupConstants /\ SchemaInv /\ [S!Next]_(S!vars) => SchemaInv'
<1> SUFFICES ASSUME StartupConstants, SchemaInv, [S!Next]_(S!vars)
             PROVE  SchemaInv'
  BY Zenon
<1>0. /\ Latest \in Nat /\ meta \in MetaTable /\ meta.version \in 0..Latest /\ meta.dirty \in BOOLEAN
      /\ meta.form \in {"none", "name", "version"} /\ legacy \in 0..Latest
      /\ applied \subseteq 1..Latest /\ legacy \in LegacyAt \cup {0} /\ VersionInv
  BY Zenon DEF StartupConstants, SchemaInv, MetaInv, MetaTable
<1>1. CASE S!Open
  BY <1>1, Zenon DEF S!Open, S!pki, SchemaInv, MetaInv, VersionInv, Migrated, S!MigratedOnce
<1>2. CASE S!Backup
  BY <1>2, Zenon DEF S!Backup, S!pki, SchemaInv, MetaInv, VersionInv, Migrated, S!MigratedOnce
<1>3. CASE S!seedAdmin
  BY <1>3, Zenon DEF S!seedAdmin, S!pki, SchemaInv, MetaInv, VersionInv, Migrated, S!MigratedOnce
<1>4. CASE S!Ensure
  BY <1>4, Zenon DEF S!Ensure, S!db, SchemaInv, MetaInv, VersionInv, Migrated, S!MigratedOnce
<1>5. CASE S!OpenPEM
  BY <1>5, Zenon DEF S!OpenPEM, S!db, SchemaInv, MetaInv, VersionInv, Migrated, S!MigratedOnce
<1>6. CASE S!RenamePEM
  BY <1>6, Zenon DEF S!RenamePEM, S!db, SchemaInv, MetaInv, VersionInv, Migrated, S!MigratedOnce
<1>7. CASE S!IssueClient
  BY <1>7, Zenon DEF S!IssueClient, S!db, SchemaInv, MetaInv, VersionInv, Migrated, S!MigratedOnce
<1>8. CASE S!Retry
  BY <1>8, Zenon DEF S!Retry, S!db, SchemaInv, MetaInv, VersionInv, Migrated, S!MigratedOnce
<1>9. CASE S!FileLost
  BY <1>9, Zenon DEF S!FileLost, S!db, SchemaInv, MetaInv, VersionInv, Migrated, S!MigratedOnce
<1>10. CASE S!Crash
  BY <1>10, Zenon DEF S!Crash, SchemaInv, MetaInv, VersionInv, Migrated, S!MigratedOnce
<1>11. CASE UNCHANGED S!vars
  BY <1>11, Zenon DEF S!vars, SchemaInv, MetaInv, VersionInv, Migrated, S!MigratedOnce
<1>12. CASE S!Clean
  <2>1. meta' \in MetaTable /\ meta'.form = "version" /\ meta'.version = meta.version /\ meta'.dirty = FALSE
    <3>1. meta' = S!Table(at, FALSE) /\ pc = "clean"
      BY <1>12, Zenon DEF S!Clean
    <3>2. at = meta.version
      BY <1>0, <3>1, Zenon DEF VersionInv
    <3> QED
      BY <1>0, <3>1, <3>2, TableType, Zenon
  <2>2. /\ UNCHANGED <<legacy, applied, exists, admin, hurt, reran, at>> /\ pc = "clean" /\ pc' = "up"
    BY <1>12, Zenon DEF S!Clean
  <2>3. MetaInv'
    BY <1>0, <2>1, <2>2, Zenon DEF MetaInv
  <2>4. \A i \in 1..Latest : i < meta.version \/ i = meta.version => i \in applied
    BY <1>0, <2>2, Zenon DEF VersionInv
  <2>5. VersionInv'
    BY <1>0, <2>1, <2>2, <2>4, Zenon DEF VersionInv, Migrated, S!MigratedOnce
  <2> QED
    BY <2>3, <2>5, Zenon DEF SchemaInv
<1>13. CASE S!RunMigration
  <2>1. UNCHANGED <<meta, legacy, exists, admin, hurt, at>> /\ pc = "run"
    BY <1>13, Zenon DEF S!RunMigration
  <2>2. /\ meta.dirty /\ meta.form = "version" /\ at = meta.version
        /\ at \in applied => legacy # 0 /\ hurt
    BY <1>0, <2>1, Zenon DEF VersionInv
  <2>3. CASE at \in applied
    <3>1. applied' = applied /\ pc' = "failed"
      BY <1>13, <2>3, Zenon DEF S!RunMigration
    <3>2. hurt /\ legacy # 0
      BY <2>2, <2>3, Zenon
    <3> QED
      BY <1>0, <2>1, <2>2, <3>1, <3>2, Zenon DEF SchemaInv, MetaInv, VersionInv, Migrated, S!MigratedOnce
  <2>4. CASE at \notin applied
    <3>1. applied' = applied \cup {at} /\ pc' = "clean" /\ reran' = reran
      BY <1>13, <2>4, Zenon DEF S!RunMigration
    <3>2. at \in 1..Latest
      <4>1. meta.version > legacy
        BY <1>0, <2>2, Zenon DEF VersionInv
      <4> QED
        BY <1>0, <2>2, <4>1, SMT
    <3>3. ~(at > meta.version)
      BY <1>0, <2>2, SMT
    <3>4. MetaInv'
      BY <1>0, <2>1, <3>1, <3>2, Zenon DEF MetaInv
    <3>5. (\E k \in applied' : k > meta.version) => legacy # 0 /\ hurt
      BY <1>0, <3>1, <3>3, Zenon DEF VersionInv
    <3>6. VersionInv'
      BY <1>0, <2>1, <2>2, <3>1, <3>5, Zenon DEF VersionInv, Migrated, S!MigratedOnce
    <3> QED
      BY <3>4, <3>6, Zenon DEF SchemaInv
  <2> QED
    BY <2>3, <2>4, Zenon
<1>14. CASE S!Up
  <2>0. UNCHANGED <<legacy, applied, exists, admin, hurt, reran>> /\ pc = "up" /\ meta.form = "version"
    BY <1>0, <1>14, Zenon DEF S!Up, VersionInv
  <2>1. CASE meta.dirty \/ meta.version = Latest
    BY <1>14, <2>1, Zenon DEF S!Up, SchemaInv, MetaInv, VersionInv, Migrated, S!MigratedOnce
  <2>2. CASE ~meta.dirty /\ meta.version # Latest
    <3>1. meta.version + 1 \in 0..Latest /\ TRUE \in BOOLEAN /\ meta.version + 1 \in 1..Latest
      BY <1>0, <2>2, SMT
    <3>2. meta' = S!Table(meta.version + 1, TRUE) /\ at' = meta.version + 1 /\ pc' = "run"
      BY <1>14, <2>2, Zenon DEF S!Up
    <3>3. /\ meta' \in MetaTable /\ meta'.form = "version"
          /\ meta'.version = meta.version + 1 /\ meta'.dirty = TRUE
      BY <3>1, <3>2, TableType, Zenon
    <3>4. MetaInv'
      BY <1>0, <2>0, <3>3, Zenon DEF MetaInv
    <3>5. /\ \A k \in 1..Latest : k < meta.version + 1 => k < meta.version \/ k = meta.version
          /\ \A k \in applied : k > meta.version + 1 => k > meta.version
          /\ meta.version >= legacy => meta.version + 1 >= legacy
          /\ legacy = 0 \/ meta.version >= legacy => meta.version + 1 > legacy
      BY <1>0, SMT
    <3>7. meta'.version > legacy /\ (legacy # 0 => meta'.version >= legacy)
      BY <1>0, <3>3, <3>5, Zenon DEF VersionInv
    <3>8. /\ \A k \in 1..Latest : k < meta'.version => k \in applied
          /\ (\E k \in applied : k > meta'.version) => legacy # 0 /\ hurt
      BY <1>0, <2>2, <3>3, <3>5, Zenon DEF VersionInv
    <3>9. at' \in applied => legacy # 0 /\ hurt
      <4>1. meta.version + 1 > meta.version
        BY <1>0, SMT
      <4> QED
        BY <1>0, <3>2, <4>1, Zenon DEF VersionInv
    <3>6. VersionInv'
      BY <1>0, <2>0, <3>2, <3>3, <3>7, <3>8, <3>9, Zenon DEF VersionInv, Migrated, S!MigratedOnce
    <3> QED
      BY <3>4, <3>6, Zenon DEF SchemaInv
  <2> QED
    BY <2>1, <2>2, Zenon
<1>15. CASE S!migrateLegacyMetadata
  <2>0. /\ pc = "metadata" /\ pc' = "up"
        /\ UNCHANGED <<applied, exists, admin, reran, hurt, at>>
    BY <1>15, Zenon DEF S!migrateLegacyMetadata
  <2>1. CASE meta.form = "version"
    <3>1. meta' = S!repairConvertedMetadata /\ legacy' = legacy
      BY <1>15, <2>1, SMT DEF S!migrateLegacyMetadata
    <3>2. CASE legacy = 0 \/ (meta.version >= legacy /\ ~meta.dirty)
      <4>1. meta' = meta
        BY <3>1, <3>2, Zenon DEF S!repairConvertedMetadata
      <4> QED
        BY <2>0, <2>1, <3>1, <4>1, Zenon DEF SchemaInv, MetaInv, VersionInv, Migrated, S!MigratedOnce
    <3>3. CASE ~(legacy = 0 \/ (meta.version >= legacy /\ ~meta.dirty))
      <4>1. meta' = S!Table(legacy, FALSE)
        BY <3>1, <3>3, Zenon DEF S!repairConvertedMetadata
      <4>2. meta' \in MetaTable /\ meta'.form = "version" /\ meta'.version = legacy /\ meta'.dirty = FALSE
        BY <1>0, <4>1, TableType, Zenon
      <4>3. legacy # 0 /\ meta.dirty /\ meta.version > legacy
        BY <1>0, <3>3, Zenon DEF VersionInv
      <4>4. hurt
        BY <1>0, <2>0, <4>3, Zenon DEF VersionInv
      <4>5. MetaInv'
        BY <1>0, <2>0, <3>1, <4>2, Zenon DEF MetaInv
      <4>6. legacy >= legacy /\ \A k \in 1..Latest : k < legacy \/ k = legacy => k < meta.version
        BY <1>0, <4>3, SMT
      <4>7. VersionInv'
        BY <1>0, <2>0, <3>1, <4>2, <4>3, <4>4, <4>6, Zenon DEF VersionInv, Migrated, S!MigratedOnce
      <4> QED
        BY <4>5, <4>7, Zenon DEF SchemaInv
    <3> QED
      BY <3>2, <3>3, Zenon
  <2>2. CASE meta.form = "name"
    <3>1. meta' = S!Table(meta.version, FALSE) /\ legacy' = meta.version
      BY <1>15, <2>2, SMT DEF S!migrateLegacyMetadata
    <3>2. /\ meta' \in MetaTable /\ meta'.form = "version"
          /\ meta'.version = meta.version /\ meta'.dirty = FALSE
      BY <1>0, <3>1, TableType, Zenon
    <3>3. MetaInv'
      BY <1>0, <2>0, <2>2, <3>1, <3>2, Zenon DEF MetaInv, VersionInv
    <3>4. /\ meta.version >= meta.version /\ ~meta.dirty
          /\ applied = 1..meta.version /\ ~(\E k \in 1..meta.version : k > meta.version)
      BY <1>0, <2>2, SMT DEF VersionInv
    <3>5. VersionInv'
      BY <1>0, <2>0, <2>2, <3>1, <3>2, <3>4, Zenon DEF VersionInv, Migrated, S!MigratedOnce
    <3> QED
      BY <3>3, <3>5, Zenon DEF SchemaInv
  <2>3. CASE meta.form = "none"
    <3>1. meta' = S!Table(0, FALSE) /\ legacy' = legacy
      BY <1>15, <2>3, SMT DEF S!migrateLegacyMetadata
    <3>2. 0 \in 0..Latest
      BY <1>0, SMT
    <3>3. meta' \in MetaTable /\ meta'.form = "version" /\ meta'.version = 0 /\ meta'.dirty = FALSE
      BY <3>1, <3>2, TableType, Zenon
    <3>4. legacy = 0 /\ applied = {} /\ ~meta.dirty
      BY <1>0, <2>3, SMT DEF VersionInv
    <3>7. \A k \in 1..Latest : ~(k < meta'.version \/ k = meta'.version)
      BY <3>3, SMT
    <3>8. reran = {} \/ (legacy # 0 /\ hurt)
      BY <1>0, Zenon DEF VersionInv, S!MigratedOnce
    <3>5. MetaInv'
      BY <1>0, <2>0, <3>1, <3>3, Zenon DEF MetaInv
    <3>6. VersionInv'
      <4>3. exists'
        BY <1>0, <2>0, Zenon DEF VersionInv
      <4>1. pc' = "up" /\ legacy' = 0 /\ ~(\E k \in applied' : k > meta'.version) /\ reran' = {}
        BY <2>0, <3>1, <3>4, <3>8, Zenon
      <4>2. meta'.form = "version" /\ ~meta'.dirty
        BY <3>3, Zenon
      <4> QED
        BY <3>7, <4>1, <4>2, <4>3, Zenon DEF VersionInv, Migrated, S!MigratedOnce
    <3> QED
      BY <3>5, <3>6, Zenon DEF SchemaInv
  <2> QED
    BY <1>0, <2>1, <2>2, <2>3, Zenon
<1> QED
  BY <1>1, <1>2, <1>3, <1>4, <1>5, <1>6, <1>7, <1>8, <1>9, <1>10, <1>11, <1>12, <1>13, <1>14, <1>15,
     Zenon DEF S!Next, S!Advance

\* Every step keeps it that a schema is migrated only after a backup of it.
LEMMA SnapshotNext ==
    StartupConstants /\ SchemaInv /\ SnapshotInv /\ [S!Next]_(S!vars) => SnapshotInv'
<1> SUFFICES ASSUME StartupConstants, SchemaInv, SnapshotInv, [S!Next]_(S!vars)
             PROVE  SnapshotInv'
  BY Zenon
<1>0. /\ Latest \in Nat /\ meta.version \in 0..Latest /\ meta.dirty \in BOOLEAN
      /\ meta.form \in {"none", "name", "version"} /\ legacy \in 0..Latest
      /\ applied \subseteq 1..Latest /\ VersionInv
  BY Zenon DEF StartupConstants, SchemaInv, MetaInv, MetaTable
<1>1. CASE S!Open
  <2>1. /\ UNCHANGED <<meta, legacy, applied, backups>> /\ start' = applied
        /\ pc' = IF exists /\ S!NeedsMigration THEN "backup" ELSE "metadata"
    BY <1>1, Zenon DEF S!Open
  <2>2. pc' \in {"backup", "metadata"}
    BY <2>1, Zenon
  <2>3. CASE exists /\ S!NeedsMigration
    <3>1. pc' = "backup"
      BY <2>1, <2>3, Zenon
    <3> QED
      BY <2>1, <3>1, Zenon DEF SnapshotInv
  <2>4. CASE ~exists
    <3>1. pc' = "metadata" /\ meta.form = "none"
      BY <1>0, <2>1, <2>4, Zenon DEF VersionInv
    <3> QED
      BY <2>1, <3>1, Zenon DEF SnapshotInv
  <2>5. CASE exists /\ ~S!NeedsMigration
    <3>1. pc' = "metadata" /\ (meta.form = "none" \/ (meta.form = "version" /\ ~(meta.version < Latest)))
      BY <1>0, <2>1, <2>5, Zenon DEF S!NeedsMigration
    <3>2. meta.version < Latest \/ meta.version = Latest
      BY <1>0, SMT
    <3> QED
      BY <2>1, <3>1, <3>2, Zenon DEF SnapshotInv
  <2> QED
    BY <2>3, <2>4, <2>5, Zenon
<1>2. CASE S!Backup
  BY <1>2, Zenon DEF S!Backup, S!pki, SnapshotInv
<1>3. CASE S!seedAdmin
  BY <1>3, Zenon DEF S!seedAdmin, S!pki, SnapshotInv
<1>4. CASE S!Ensure
  BY <1>4, Zenon DEF S!Ensure, S!db, SnapshotInv
<1>5. CASE S!OpenPEM
  BY <1>5, Zenon DEF S!OpenPEM, S!db, SnapshotInv
<1>6. CASE S!RenamePEM
  BY <1>6, Zenon DEF S!RenamePEM, S!db, SnapshotInv
<1>7. CASE S!IssueClient
  BY <1>7, Zenon DEF S!IssueClient, S!db, SnapshotInv
<1>8. CASE S!Retry
  BY <1>8, Zenon DEF S!Retry, S!db, SnapshotInv
<1>9. CASE S!FileLost
  BY <1>9, Zenon DEF S!FileLost, S!db, SnapshotInv
<1>10. CASE S!Crash
  BY <1>10, Zenon DEF S!Crash, SnapshotInv
<1>11. CASE UNCHANGED S!vars
  BY <1>11, Zenon DEF S!vars, SnapshotInv, AlmostAll
<1>12. CASE S!Clean
  BY <1>12, Zenon DEF S!Clean, S!pki, SnapshotInv
<1>13. CASE S!RunMigration
  <2>1. UNCHANGED <<meta, legacy, start, backups>> /\ pc = "run"
    BY <1>13, Zenon DEF S!RunMigration
  <2>2. CASE at \in applied
    <3>1. pc' = "failed"
      BY <1>13, <2>2, Zenon DEF S!RunMigration
    <3> QED
      BY <2>1, <3>1, Zenon DEF SnapshotInv
  <2>3. CASE at \notin applied
    <3>1. pc' = "clean"
      BY <1>13, <2>3, Zenon DEF S!RunMigration
    <3>2. start = {} \/ start \in backups
      <4> SUFFICES ASSUME legacy # 0, at = legacy + 1, AlmostAll
                   PROVE  start \in backups
        BY <2>1, Zenon DEF SnapshotInv
      <4>1. at = meta.version /\ start = applied /\ \A i \in 1..Latest : i < Latest => i \in applied
        BY <1>0, <2>1, Zenon DEF VersionInv, AlmostAll
      <4>2. at = Latest /\ at \in 1..Latest
        BY <1>0, <2>3, <4>1, SMT
      <4>3. applied = 1..legacy
        <5>1. \A i \in 1..legacy : i \in applied
          BY <1>0, <4>1, <4>2, SMT
        <5>2. \A i \in 1..Latest : i = Latest \/ i \in 1..legacy
          BY <1>0, <4>2, SMT
        <5> QED
          BY <1>0, <2>3, <4>2, <5>1, <5>2, Zenon
      <4> QED
        BY <4>1, <4>3, Zenon DEF SnapshotInv
    <3> QED
      BY <2>1, <3>1, <3>2, Zenon DEF SnapshotInv
  <2> QED
    BY <2>2, <2>3, Zenon
<1>14. CASE S!Up
  <2>1. UNCHANGED <<legacy, applied, start, backups>> /\ pc = "up"
    BY <1>14, Zenon DEF S!Up
  <2>2. CASE meta.dirty \/ meta.version = Latest
    <3>1. pc' \in {"failed", "seed"}
      BY <1>14, <2>2, Zenon DEF S!Up
    <3> QED
      BY <2>1, <3>1, Zenon DEF SnapshotInv
  <2>3. CASE ~meta.dirty /\ meta.version # Latest
    <3>1. at' = meta.version + 1 /\ pc' = "run"
      BY <1>14, <2>3, Zenon DEF S!Up
    <3> QED
      BY <2>1, <2>3, <3>1, Zenon DEF SnapshotInv, AlmostAll
  <2> QED
    BY <2>2, <2>3, Zenon
<1>15. CASE S!migrateLegacyMetadata
  <2>0. pc = "metadata" /\ pc' = "up" /\ UNCHANGED <<applied, start, backups>> /\ start = applied
    BY <1>15, Zenon DEF S!migrateLegacyMetadata, SnapshotInv
  <2>1. CASE meta.form = "version"
    <3>1. meta' = S!repairConvertedMetadata /\ legacy' = legacy
      BY <1>15, <2>1, SMT DEF S!migrateLegacyMetadata
    <3>2. start \in backups \/ meta.version = Latest
      BY <2>0, <2>1, Zenon DEF SnapshotInv
    <3>3. CASE legacy = 0 \/ (meta.version >= legacy /\ ~meta.dirty)
      <4>1. meta' = meta
        BY <3>1, <3>3, Zenon DEF S!repairConvertedMetadata
      <4> QED
        BY <2>0, <3>1, <3>2, <4>1, Zenon DEF SnapshotInv
    <3>4. CASE ~(legacy = 0 \/ (meta.version >= legacy /\ ~meta.dirty))
      <4>1. meta' = S!Table(legacy, FALSE)
        BY <3>1, <3>4, Zenon DEF S!repairConvertedMetadata
      <4>2. meta'.version = legacy /\ meta'.dirty = FALSE
        BY <1>0, <4>1, TableType, Zenon
      <4>3. legacy # 0
        BY <3>4, Zenon
      <4>4. meta.version = Latest => AlmostAll'
        BY <1>0, <2>0, Zenon DEF AlmostAll, VersionInv
      <4> QED
        BY <2>0, <3>1, <3>2, <4>2, <4>3, <4>4, Zenon DEF SnapshotInv
    <3> QED
      BY <3>3, <3>4, Zenon
  <2>2. CASE meta.form = "name"
    <3>1. legacy' = meta.version
      BY <1>15, <2>2, SMT DEF S!migrateLegacyMetadata
    <3>2. start \in backups /\ applied = 1..meta.version
      BY <1>0, <2>0, <2>2, Zenon DEF SnapshotInv, VersionInv
    <3> QED
      BY <2>0, <3>1, <3>2, Zenon DEF SnapshotInv
  <2>3. CASE meta.form = "none"
    <3>1. legacy' = legacy
      BY <1>15, <2>3, SMT DEF S!migrateLegacyMetadata
    <3>2. start = {}
      BY <1>0, <2>0, <2>3, Zenon DEF VersionInv
    <3> QED
      BY <2>0, <3>1, <3>2, Zenon DEF SnapshotInv
  <2> QED
    BY <1>0, <2>1, <2>2, <2>3, Zenon
<1> QED
  BY <1>1, <1>2, <1>3, <1>4, <1>5, <1>6, <1>7, <1>8, <1>9, <1>10, <1>11, <1>12, <1>13, <1>14, <1>15,
     Zenon DEF S!Next, S!Advance

\* The four files by their place in the order Ensure writes them.
LEMMA FilesInOrder ==
    /\ S!Files[1] = "ca" /\ S!Files[2] = "cakey" /\ S!Files[3] = "cert" /\ S!Files[4] = "key"
    /\ Len(S!Files) = 4 /\ S!FileSet = {"ca", "cakey", "cert", "key"}
  BY DEF S!Files, S!FileSet

\* Every step keeps what the certificate files hold.
LEMMA KeysNext == StartupConstants /\ KeysInv /\ [S!Next]_(S!vars) => KeysInv'
<1> SUFFICES ASSUME StartupConstants, KeysInv, [S!Next]_(S!vars)
             PROVE  KeysInv'
  BY Zenon
<1>0. /\ KeysType /\ files \in [S!FileSet -> (1..MaxGens) \cup {None}]
      /\ left \subseteq S!FileSet /\ lost \in Nat /\ torn \in BOOLEAN
      /\ MaxGens \in Nat /\ None \notin 1..MaxGens
  <2>1. MaxGens \in Nat /\ None \notin 1..MaxGens
    BY SMT DEF StartupConstants
  <2> QED
    BY <2>1, Zenon DEF KeysInv, KeysType
<1>1. ASSUME UNCHANGED S!pki, UNCHANGED lost, pc \notin {"open", "rename"},
             pc' \notin {"open", "rename", "serving"}
      PROVE  KeysInv'
  BY <1>1, Zenon DEF S!pki, KeysInv, KeysType, Stuck, Same, S!allExist
<1>2. CASE S!Open \/ S!Backup \/ S!migrateLegacyMetadata \/ S!Up \/ S!RunMigration
           \/ S!Clean \/ S!seedAdmin \/ S!Retry
  <2>1. CASE S!Open
    BY <1>1, <2>1, SMT DEF S!Open
  <2>2. CASE S!Backup
    BY <1>1, <2>2, SMT DEF S!Backup
  <2>3. CASE S!migrateLegacyMetadata
    BY <1>1, <2>3, SMT DEF S!migrateLegacyMetadata
  <2>4. CASE S!Up
    <3>1. pc' \in {"failed", "seed", "run"} /\ pc = "up" /\ UNCHANGED S!pki /\ UNCHANGED lost
      BY <2>4, Zenon DEF S!Up
    <3> QED
      BY <1>1, <3>1, Zenon
  <2>5. CASE S!RunMigration
    BY <1>1, <2>5, SMT DEF S!RunMigration
  <2>6. CASE S!Clean
    BY <1>1, <2>6, SMT DEF S!Clean
  <2>7. CASE S!seedAdmin
    BY <1>1, <2>7, SMT DEF S!seedAdmin
  <2>8. CASE S!Retry
    BY <1>1, <2>8, SMT DEF S!Retry
  <2> QED
    BY <1>2, <2>1, <2>2, <2>3, <2>4, <2>5, <2>6, <2>7, <2>8, Zenon
<1>3. CASE S!Ensure
  <2>1. UNCHANGED <<files, left, clients, torn, lost>> /\ pc = "ensure"
    BY <1>3, Zenon DEF S!Ensure
  <2>2. CASE S!allExist
    <3>1. pc' = "serving"
      BY <1>3, <2>2, Zenon DEF S!Ensure
    <3> QED
      BY <2>1, <2>2, <3>1, Zenon DEF KeysInv, KeysType, Stuck, Same, S!allExist
  <2>3. CASE ~S!allExist
    <3>1. pc' = "open" /\ at' = 1 /\ gen' = S!NewKeys /\ S!Unused # {}
      BY <1>3, <2>3, Zenon DEF S!Ensure
    <3>2. gen' \in 1..MaxGens
      <4>1. S!NewKeys \in S!Unused
        BY <3>1, Zenon DEF S!NewKeys
      <4> QED
        BY <3>1, <4>1, Zenon DEF S!Unused
    <3>3. at' \in 1..4 /\ \A i \in 1..4 : ~(i < at')
      BY <3>1, SMT
    <3>4. lost = 0 => files["key"] = None
      BY <2>3, FilesInOrder, Zenon DEF KeysInv, Same, S!allExist
    <3>5. ~torn /\ files["key"] # None => Stuck' = {}
      BY <2>1, <3>1, Zenon DEF KeysInv, Stuck
    <3> QED
      BY <1>0, <2>1, <2>3, <3>1, <3>2, <3>3, <3>4, <3>5, Zenon DEF KeysInv, KeysType, Same, S!allExist
  <2> QED
    BY <2>2, <2>3, Zenon
<1>4. CASE S!OpenPEM
  <2>1. UNCHANGED <<files, gen, clients, torn, at, lost>> /\ pc = "open"
    BY <1>4, Zenon DEF S!OpenPEM
  <2>2. CASE S!Files[at] \in left
    <3>1. pc' = "failed" /\ left' = left
      BY <1>4, <2>2, Zenon DEF S!OpenPEM
    <3>2. ~torn => files["key"] = None
      BY <2>1, <2>2, Zenon DEF KeysInv, Stuck
    <3>3. ~torn => ~S!allExist
      BY <3>2, FilesInOrder, Zenon DEF S!allExist
    <3> QED
      BY <2>1, <3>1, <3>2, <3>3, Zenon DEF KeysInv, KeysType, Stuck, Same, S!allExist
  <2>3. CASE S!Files[at] \notin left
    <3>1. pc' = "rename" /\ left' = left \cup {S!Files[at]}
      BY <1>4, <2>3, Zenon DEF S!OpenPEM
    <3>2. at \in 1..4 /\ S!Files[at] \in S!FileSet /\ \A i \in 1..4 : i < at => S!Files[i] # S!Files[at]
      <4>1. at \in 1..4
        BY <2>1, Zenon DEF KeysInv, KeysType
      <4> QED
        BY <4>1, FilesInOrder, SMT
    <3>3. Stuck' = Stuck
      BY <2>1, <2>3, <3>1, Zenon DEF Stuck
    <3>4. left' \subseteq S!FileSet
      BY <1>0, <3>1, <3>2, Zenon
    <3> QED
      BY <2>1, <3>1, <3>2, <3>3, <3>4, Zenon DEF KeysInv, KeysType, Same, S!allExist
  <2> QED
    BY <2>2, <2>3, Zenon
<1>5. CASE S!RenamePEM
  <2>1. /\ UNCHANGED <<gen, clients, torn, lost>> /\ pc = "rename" /\ left' = left \ {S!Files[at]}
        /\ files' = [files EXCEPT ![S!Files[at]] = gen]
    BY <1>5, Zenon DEF S!RenamePEM
  <2>2. at \in 1..4 /\ gen \in 1..MaxGens
    BY <2>1, Zenon DEF KeysInv, KeysType
  <2>3. files' \in [S!FileSet -> (1..MaxGens) \cup {None}] /\ left' \subseteq S!FileSet
    BY <1>0, <2>1, <2>2, Zenon
  <2>4. /\ \A i \in 1..4 : i < at => files[S!Files[i]] = gen /\ S!Files[i] \notin left
        /\ ~torn /\ files["key"] # None => left' = {}
        /\ lost = 0 => files["key"] = None /\ clients = {}
    BY <2>1, Zenon DEF KeysInv, Stuck
  <2>5. CASE at = 4
    <3>1. pc' = "serving"
      BY <1>5, <2>5, FilesInOrder, Zenon DEF S!RenamePEM
    <3>2. /\ files'["ca"] = gen /\ files'["cakey"] = gen /\ files'["cert"] = gen /\ files'["key"] = gen
          /\ "ca" \notin left /\ "cakey" \notin left /\ "cert" \notin left
      <4>1. 1 \in 1..4 /\ 2 \in 1..4 /\ 3 \in 1..4 /\ 1 < 4 /\ 2 < 4 /\ 3 < 4
        BY SMT
      <4>2. /\ files["ca"] = gen /\ files["cakey"] = gen /\ files["cert"] = gen
            /\ "ca" \notin left /\ "cakey" \notin left /\ "cert" \notin left
        BY <2>4, <2>5, <4>1, FilesInOrder, Zenon
      <4> QED
        BY <1>0, <2>1, <2>5, <4>2, FilesInOrder, SMT
    <3>3. left' = {}
      BY <1>0, <2>1, <2>5, <3>2, FilesInOrder, Zenon
    <3>4. Same' /\ S!allExist'
      <4>1. \A f \in S!FileSet : files'[f] = gen
        BY <3>2, FilesInOrder, Zenon
      <4>2. gen # None
        BY <1>0, <2>2, Zenon
      <4> QED
        BY <4>1, <4>2, Zenon DEF Same, S!allExist
    <3> QED
      BY <1>0, <2>1, <2>3, <2>4, <3>1, <3>2, <3>3, <3>4, Zenon DEF KeysInv, KeysType, Stuck
  <2>6. CASE at # 4
    <3>1. pc' = "open" /\ at' = at + 1
      BY <1>5, <2>6, FilesInOrder, Zenon DEF S!RenamePEM
    <3>2. /\ at' \in 1..4 /\ S!Files[at] \in S!FileSet /\ S!Files[at] # "key"
          /\ \A i \in 1..4 : i < at' => i < at \/ i = at
      BY <2>2, <2>6, <3>1, FilesInOrder, SMT
    <3>3. files'["key"] = files["key"]
      BY <1>0, <2>1, <3>2, FilesInOrder, Zenon
    <3>4. \A i \in 1..4 : i < at' => files'[S!Files[i]] = gen /\ S!Files[i] \notin left'
      <4> SUFFICES ASSUME NEW i \in 1..4, i < at'
                   PROVE  files'[S!Files[i]] = gen /\ S!Files[i] \notin left'
        BY Zenon
      <4>1. S!Files[i] \in S!FileSet
        BY FilesInOrder, SMT
      <4>2. CASE S!Files[i] = S!Files[at]
        BY <1>0, <2>1, <4>1, <4>2, Zenon
      <4>3. CASE S!Files[i] # S!Files[at]
        <5>1. i < at
          BY <3>2, <4>3, Zenon
        <5> QED
          BY <1>0, <2>1, <2>4, <4>1, <4>3, <5>1, Zenon
      <4> QED
        BY <4>2, <4>3, Zenon
    <3> QED
      BY <1>0, <2>1, <2>2, <2>3, <2>4, <3>1, <3>2, <3>3, <3>4, Zenon DEF KeysInv, KeysType, Stuck
  <2> QED
    BY <2>5, <2>6, Zenon
<1>6. CASE S!IssueClient
  <2>1. /\ UNCHANGED <<files, left, gen, torn, pc, at, lost>> /\ pc = "serving"
        /\ clients' = clients \cup {files["cakey"]}
    BY <1>6, Zenon DEF S!IssueClient
  <2>2. lost = 0 => files["key"] # None /\ files["cakey"] = files["ca"]
    BY <2>1, FilesInOrder, Zenon DEF KeysInv, S!allExist, Same
  <2> QED
    BY <2>1, <2>2, Zenon DEF KeysInv, KeysType, Stuck, Same, S!allExist
<1>7. CASE S!Crash
  <2>1. /\ UNCHANGED <<files, left, gen, clients, at, lost>> /\ pc' = "down"
        /\ torn' = (torn \/ (pc \in {"open", "rename"} /\ lost > 0))
    BY <1>7, Zenon DEF S!Crash
  <2>2. torn' \in BOOLEAN /\ (~torn' => ~torn)
    BY <1>0, <2>1, Zenon
  <2>3. CASE pc \in {"open", "rename"}
    <3>1. ~torn' => files["key"] = None
      <4>1. lost > 0 \/ lost = 0
        BY <1>0, SMT
      <4> QED
        BY <2>1, <2>3, <4>1, Zenon DEF KeysInv
    <3>2. ~torn' => ~S!allExist
      BY <3>1, FilesInOrder, Zenon DEF S!allExist
    <3> QED
      BY <1>0, <2>1, <2>2, <3>1, <3>2, Zenon DEF KeysInv, KeysType, Same, S!allExist
  <2>4. CASE pc \notin {"open", "rename"}
    BY <1>0, <2>1, <2>2, <2>4, Zenon DEF KeysInv, KeysType, Stuck, Same, S!allExist
  <2> QED
    BY <2>3, <2>4, Zenon
<1>8. CASE S!FileLost
  <2>1. /\ UNCHANGED <<left, gen, clients, torn, pc, at>> /\ pc = "down" /\ lost' = lost + 1
    BY <1>8, Zenon DEF S!FileLost
  <2>2. PICK f \in S!FileSet : files[f] # None /\ files' = [files EXCEPT ![f] = None]
    BY <1>8, Zenon DEF S!FileLost
  <2>3. /\ files' \in [S!FileSet -> (1..MaxGens) \cup {None}] /\ files'[f] = None
        /\ files'["key"] # None => files["key"] # None
    BY <1>0, <2>2, FilesInOrder, Zenon
  <2>4. ~S!allExist' /\ lost' \in Nat /\ lost' # 0
    BY <1>0, <2>1, <2>3, SMT DEF S!allExist
  <2> QED
    BY <1>0, <2>1, <2>3, <2>4, Zenon DEF KeysInv, KeysType, Stuck
<1>9. CASE UNCHANGED S!vars
  BY <1>9, Zenon DEF S!vars, KeysInv, KeysType, Stuck, Same, S!allExist
<1> QED
  BY <1>2, <1>3, <1>4, <1>5, <1>6, <1>7, <1>8, <1>9, Zenon DEF S!Next, S!Advance

\* The inductive invariant says what the run checks.
LEMMA StartupMeans == StartupConstants /\ StartupInv => StartsWhole
<1> SUFFICES ASSUME StartupConstants, StartupInv
             PROVE  /\ S!TypeOK /\ S!ServingIsWhole /\ S!MigratedOnce
                    /\ S!AgentsStayTrusted /\ S!MigrationIsBackedUp
  BY Zenon DEF StartsWhole
<1>0. MetaInv /\ VersionInv /\ SnapshotInv /\ KeysInv
  BY Zenon DEF StartupInv, SchemaInv
<1>1. S!TypeOK
  <2>1. \A f \in S!FileSet : files[f] = None \/ files[f] \in Nat
    <3>1. files \in [S!FileSet -> (1..MaxGens) \cup {None}]
      BY <1>0, Zenon DEF KeysInv, KeysType
    <3>2. \A n \in 1..MaxGens : n \in Nat
      BY SMT DEF StartupConstants
    <3> QED
      BY <3>1, <3>2, Zenon
  <2> QED
    BY <1>0, <2>1, Zenon DEF S!TypeOK, MetaInv, MetaTable, KeysInv, KeysType
<1>2. S!ServingIsWhole
  <2> SUFFICES ASSUME pc = "serving"
               PROVE  /\ applied = 1..Latest /\ ~meta.dirty /\ admin
                      /\ torn \/ \A f, g \in S!FileSet : files[f] = files[g]
    BY Zenon DEF S!ServingIsWhole
  <2>1. meta.version = Latest /\ ~meta.dirty /\ admin
    BY <1>0, Zenon DEF VersionInv, Migrated
  <2>2. \A i \in 1..Latest : i < Latest \/ i = Latest
    BY SMT DEF StartupConstants
  <2>3. applied = 1..Latest
    BY <1>0, <2>1, <2>2, Zenon DEF VersionInv, MetaInv
  <2> QED
    BY <1>0, <2>1, <2>3, Zenon DEF KeysInv, Same
<1>3. S!AgentsStayTrusted
  BY <1>0, Zenon DEF S!AgentsStayTrusted, KeysInv
<1> QED
  BY <1>0, <1>1, <1>2, <1>3, Zenon DEF VersionInv, SnapshotInv, S!MigrationIsBackedUp

\* For any number of migrations, crashes and lost files: Core serves with the whole
\* schema, an administrator and one set of keys; a migration runs on no schema that
\* has it, and on none that was not backed up; and enrolled Agents keep their
\* authority.  The exceptions are those of CoreStartup: a converted table found dirty,
\* and a set of keys that was being replaced because a file was lost (Open of
\* platform/database/sqlite, Up of migrations, Ensure of core/pki).
THEOREM StartSound == StartupConstants /\ StartupSpec => []StartsWhole
<1> SUFFICES ASSUME StartupConstants PROVE StartupSpec => []StartsWhole
  BY Zenon
<1>1. StartupInit => StartupInv
  BY StartupStart, Zenon DEF StartupInit
<1>2. StartupInv /\ [StartupNext]_<<subject, S!vars>> => StartupInv'
  BY SchemaNext, SnapshotNext, KeysNext, Zenon DEF StartupInv, StartupNext
<1>3. StartupInv => StartsWhole
  BY StartupMeans, Zenon
<1> QED
  BY <1>1, <1>2, <1>3, PTL DEF StartupSpec
=============================================================================
