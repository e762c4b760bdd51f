-------------------------- MODULE ModuleJobsProofs --------------------------
(***************************************************************************)
(* What holds of ModuleJobs for every set of modules, jobs and requests    *)
(* and any number of crashes.  JobInv relates what a job's row says, where *)
(* its goroutine is and whether it can be canceled; it is inductive        *)
(* together with TypeOK, and the other theorems follow from it with one    *)
(* more fact each: KilledInv for the jobs a crash interrupted, Abandoned   *)
(* for a job whose context has ended.  In the proof that a step preserves  *)
(* one of them the actions that change its variables come first; the       *)
(* others follow together because they leave those variables alone.        *)
(***************************************************************************)
EXTENDS ModuleJobs, FiniteSetTheorems, TLAPS

\* What a lifecycle request writes last is a state of the modules table.
LEMMA Marks == \A op \in Operations : MarkOf[op] \in ModuleStates
  BY DEF Operations, MarkOf, ModuleStates

\* A job that was never started, an idle request and an idle loader are of their
\* types.
LEMMA Defaults == NoJob \in JobRow /\ Idle \in LifecycleRequest /\ NoSync \in RuntimeSync
<1>1. (CHOOSE m \in Modules : TRUE) \in Modules
  BY ModuleAssumption, Zenon
<1> QED
  BY <1>1, Zenon DEF NoJob, JobRow, Kinds, Idle, LifecycleRequest, Operations, NoSync, RuntimeSync

\* An UPDATE of a job's state keeps the type of the jobs table.
LEMMA JobStateType ==
    ASSUME NEW f \in [Jobs -> JobRow], NEW j \in Jobs,
           NEW s \in {"none", "deleted"} \cup Active \cup Terminal
    PROVE  [f EXCEPT ![j].state = IF @ = "deleted" THEN @ ELSE s] \in [Jobs -> JobRow]
  BY Zenon DEF JobRow

\* An UPDATE of a module's state keeps the type of the modules table.
LEMMA RecordType ==
    ASSUME NEW f \in [Modules -> Record], NEW m \in Modules, NEW s \in ModuleStates
    PROVE  [f EXCEPT ![m].state = IF @ = "none" THEN @ ELSE s] \in [Modules -> Record]
  BY Zenon DEF Record

\* A step of syncRuntimeState keeps its type.
LEMMA SyncType ==
    ASSUME NEW f \in [Modules -> RuntimeSync], NEW m \in Modules,
           NEW p \in {"idle", "queued", "status", "failed"} \cup Detected
    PROVE  [f EXCEPT ![m].pc = p] \in [Modules -> RuntimeSync]
  BY Zenon DEF RuntimeSync

\* A request that is about to mark its record keeps its type.
LEMMA RequestType ==
    ASSUME NEW f \in [Reqs -> LifecycleRequest], NEW r \in Reqs
    PROVE  /\ [f EXCEPT ![r].pc = "mark"] \in [Reqs -> LifecycleRequest]
           /\ \A j \in Jobs : [f EXCEPT ![r].pc = "mark", ![r].job = j] \in [Reqs -> LifecycleRequest]
  BY Zenon DEF LifecycleRequest

\* The Core starts in the types.
LEMMA TypeInit == Init => TypeOK
<1> SUFFICES ASSUME Init
             PROVE  TypeOK
  BY Zenon
<1>1. rec \in [Modules -> Record]
  BY Zenon DEF Init, Record, ModuleStates
<1>2. /\ row \in [Jobs -> JobRow]
      /\ req \in [Reqs -> LifecycleRequest]
      /\ sync \in [Modules -> RuntimeSync]
  BY Defaults, Zenon DEF Init
<1>3. host \in [Modules -> {"absent", "stopped", "running"}]
  BY Zenon DEF Init
<1>4. /\ ctx \in [Jobs -> {"live", "canceled", "expired"}]
      /\ work \in [Jobs -> Running \cup {"none", "gone", "late", "killed"}]
      /\ cancel \in [Jobs -> {"no", "read", "write"}]
      /\ attached \in SUBSET Jobs
  BY Zenon DEF Init
<1>5. crashes \in 0..MaxCrashes
  BY ModuleAssumption DEF Init
<1>6. up \in BOOLEAN
  BY Zenon DEF Init
<1> QED
  BY <1>1, <1>2, <1>3, <1>4, <1>5, <1>6, Zenon DEF TypeOK

\* Every statement, every call of the Agent and every crash keeps the types.
LEMMA TypeNext == TypeOK /\ [Next]_vars => TypeOK'
<1> SUFFICES ASSUME TypeOK, [Next]_vars
             PROVE  TypeOK'
  BY Zenon
<1> USE ModuleAssumption
<1> USE DEF TypeOK, jobVars
<1>1. CASE UNCHANGED vars
  BY <1>1, Zenon DEF vars
<1>2. ASSUME Start PROVE TypeOK'
  <2>1. row' \in [Jobs -> JobRow]
    <3>1. PICK R \in SUBSET Jobs :
            row' = [j \in Jobs |-> IF j \in R THEN [row[j] EXCEPT !.state = "error"] ELSE row[j]]
      BY <1>2, Zenon DEF Start
    <3>2. ASSUME NEW j \in Jobs PROVE [row[j] EXCEPT !.state = "error"] \in JobRow
      BY DEF JobRow, Terminal
    <3> QED
      BY <3>1, <3>2, Zenon
  <2>2. rec' \in [Modules -> Record]
    <3>1. PICK failed \in SUBSET Modules : rec' = [m \in Modules |-> Bootstrapped(m, failed)]
      BY <1>2, Zenon DEF Start
    <3>2. ASSUME NEW m \in Modules PROVE Bootstrapped(m, failed) \in Record
      BY DEF Bootstrapped, Record, ModuleStates
    <3> QED
      BY <3>1, <3>2, Zenon
  <2>3. sync' \in [Modules -> RuntimeSync]
    BY <1>2, Zenon DEF Start, NoSync, RuntimeSync
  <2> QED
    BY <1>2, <2>1, <2>2, <2>3, Zenon DEF Start
<1>3. ASSUME Crash PROVE TypeOK'
  <2>1. work' \in [Jobs -> Running \cup {"none", "gone", "late", "killed"}]
    BY <1>3, Zenon DEF Crash
  <2>2. host' \in [Modules -> {"absent", "stopped", "running"}]
    BY <1>3, Zenon DEF Crash
  <2>3. req' \in [Reqs -> LifecycleRequest] /\ sync' \in [Modules -> RuntimeSync]
    BY <1>3, Defaults, Zenon DEF Crash
  <2>4. crashes' \in 0..MaxCrashes
    BY <1>3 DEF Crash
  <2> QED
    BY <1>3, <2>1, <2>2, <2>3, <2>4, Zenon DEF Crash
<1>4. ASSUME NEW m \in Modules, SyncRead(m) PROVE TypeOK'
  BY <1>4, Zenon DEF SyncRead, RuntimeSync, Record
<1>5. ASSUME NEW m \in Modules, SyncStatus(m) PROVE TypeOK'
  BY <1>5, SyncType, Zenon DEF SyncStatus, SyncStep, Detected
<1>6. ASSUME NEW m \in Modules, SyncAbsent(m) PROVE TypeOK'
  BY <1>6, SyncType, Zenon DEF SyncAbsent, SyncStep
<1>7. ASSUME NEW m \in Modules, SyncFail(m) PROVE TypeOK'
  BY <1>7, SyncType, Zenon DEF SyncFail, SyncStep
<1>8. ASSUME NEW m \in Modules, SyncWrite(m) PROVE TypeOK'
  <2>1. sync' \in [Modules -> RuntimeSync]
    BY <1>8, SyncType, Zenon DEF SyncWrite, SyncStep
  <2>2. sync[m].pc \in ModuleStates /\ sync[m].version \in BOOLEAN
    BY <1>8, Zenon DEF SyncWrite, SyncStep, Detected, ModuleStates, RuntimeSync
  <2>3. rec' \in [Modules -> Record]
    BY <1>8, <2>2 DEF SyncWrite, Upsert, Record
  <2> QED
    BY <1>8, <2>1, <2>3, Zenon DEF SyncWrite, SyncStep
<1>9. ASSUME NEW m \in Modules, Restart(m) PROVE TypeOK'
  BY <1>9, Zenon DEF Restart
<1>10. ASSUME NEW m \in Modules, NEW j \in Jobs, StartTask(j, m) PROVE TypeOK'
  BY <1>10, Zenon DEF StartTask, startJob, Fresh, JobRow, Kinds, Active, Terminal, Running
<1>11. ASSUME NEW j \in Jobs, JobAttach(j) PROVE TypeOK'
  BY <1>11, Zenon DEF JobAttach, WorkStep, Running
<1>12. ASSUME NEW j \in Jobs, JobStart(j) PROVE TypeOK'
  <2>1. row' \in [Jobs -> JobRow]
    <3>1. CASE JobUpdateState(j, "running")
      BY <3>1, JobStateType, Zenon DEF JobUpdateState, Active
    <3> QED
      BY <1>12, <3>1, Zenon DEF JobStart
  <2>2. work' \in [Jobs -> Running \cup {"none", "gone", "late", "killed"}]
    BY <1>12, Zenon DEF JobStart, WorkStep, Running
  <2> QED
    BY <1>12, <2>1, <2>2, Zenon DEF JobStart, jobRest
<1>13. ASSUME NEW j \in Jobs, WorkOk(j) PROVE TypeOK'
  BY <1>13, Zenon DEF WorkOk, WorkStep, jobRest, Done, Running, JobRow
<1>14. ASSUME NEW j \in Jobs, WorkFailed(j) PROVE TypeOK'
  BY <1>14 DEF WorkFailed, WorkStep, jobRest, Done, Running, JobRow
<1>15. ASSUME NEW j \in Jobs, JobFailed(j) PROVE TypeOK'
  BY <1>15, JobStateType, Zenon DEF JobFailed, WorkStep, jobRest, JobUpdateState, Active,
     Terminal, Running
<1>16. ASSUME NEW j \in Jobs, JobCheck(j) PROVE TypeOK'
  <2>1. row' \in [Jobs -> JobRow]
    <3>1. CASE JobUpdateState(j, "canceled")
      BY <3>1, JobStateType, Zenon DEF JobUpdateState, Terminal
    <3> QED
      BY <1>16, <3>1, Zenon DEF JobCheck
  <2>2. work' \in [Jobs -> Running \cup {"none", "gone", "late", "killed"}]
    BY <1>16 DEF JobCheck, WorkStep, Running
  <2> QED
    BY <1>16, <2>1, <2>2, Zenon DEF JobCheck, jobRest
<1>17. ASSUME NEW j \in Jobs, JobApply(j) PROVE TypeOK'
  <2>1. row[j].mod \in Modules
    BY Zenon DEF JobRow
  <2>2. rec' \in [Modules -> Record]
    <3>1. CASE \E known \in BOOLEAN : Upsert(row[j].mod, "installed", known)
      BY <2>1, <3>1 DEF Upsert, Record, ModuleStates
    <3>2. CASE UpdateState(row[j].mod, "available")
      BY <2>1, <3>2, RecordType, Zenon DEF UpdateState, ModuleStates
    <3> QED
      BY <1>17, <3>1, <3>2, Zenon DEF JobApply
  <2>3. work' \in [Jobs -> Running \cup {"none", "gone", "late", "killed"}]
    BY <1>17, Zenon DEF JobApply, WorkStep, Running
  <2> QED
    BY <1>17, <2>2, <2>3, Zenon DEF JobApply, jobRest
<1>18. ASSUME NEW j \in Jobs, JobLate(j) PROVE TypeOK'
  <2>1. row[j].mod \in Modules
    BY Zenon DEF JobRow
  <2>2. rec' \in [Modules -> Record]
    <3>1. CASE \E known \in BOOLEAN : Upsert(row[j].mod, "installed", known)
      BY <2>1, <3>1 DEF Upsert, Record, ModuleStates
    <3> QED
      BY <1>18, <3>1, Zenon DEF JobLate
  <2>3. work' \in [Jobs -> Running \cup {"none", "gone", "late", "killed"}]
    BY <1>18, Zenon DEF JobLate, WorkStep
  <2> QED
    BY <1>18, <2>2, <2>3, Zenon DEF JobLate
<1>19. ASSUME NEW j \in Jobs, JobSettle(j) PROVE TypeOK'
  BY <1>19, JobStateType, Zenon DEF JobSettle, WorkStep, jobRest, JobUpdateState, Active,
     Terminal, Running
<1>20. ASSUME NEW j \in Jobs, JobDetach(j) PROVE TypeOK'
  BY <1>20, Zenon DEF JobDetach, WorkStep, Running
<1>21. ASSUME NEW j \in Jobs, Expire(j) PROVE TypeOK'
  BY <1>21, Zenon DEF Expire
<1>22. ASSUME NEW j \in Jobs, CancelJob(j) PROVE TypeOK'
  BY <1>22, Zenon DEF CancelJob, Reachable
<1>23. ASSUME NEW j \in Jobs, CancelCall(j) PROVE TypeOK'
  BY <1>23, Zenon DEF CancelCall
<1>24. ASSUME NEW j \in Jobs, CancelWrite(j) PROVE TypeOK'
  <2>1. row' \in [Jobs -> JobRow]
    <3>1. CASE JobUpdateState(j, "canceled")
      BY <3>1, JobStateType, Zenon DEF JobUpdateState, Terminal
    <3> QED
      BY <1>24, <3>1, Zenon DEF CancelWrite
  <2> QED
    BY <1>24, <2>1, Zenon DEF CancelWrite
<1>25. ASSUME NEW j \in Jobs, DeleteJob(j) PROVE TypeOK'
  BY <1>25, JobStateType, Zenon DEF DeleteJob, Reachable, JobUpdateState, Active, Terminal
<1>26. ASSUME NEW j \in Jobs, NEW k \in Jobs, RetryJob(j, k) PROVE TypeOK'
  BY <1>26, Zenon DEF RetryJob, Reachable, startJob, Fresh, JobRow, Kinds, Active,
     Terminal, Running, Installs
<1>27. ASSUME NEW r \in Reqs, NEW op \in Ops, NEW m \in Modules, Request(r, op, m)
    PROVE TypeOK'
  BY <1>27 DEF Request, LifecycleRequest, Operations
<1>28. ASSUME NEW r \in Reqs, GiveUp(r) PROVE TypeOK'
  BY <1>28, Defaults, Zenon DEF GiveUp, Idle
<1>29. ASSUME NEW r \in Reqs, RequestService(r) PROVE TypeOK'
  <2>1. req' \in [Reqs -> LifecycleRequest]
    BY <1>29, RequestType, Zenon DEF RequestService
  <2>2. host' \in [Modules -> {"absent", "stopped", "running"}]
    BY <1>29, Zenon DEF RequestService
  <2> QED
    BY <1>29, <2>1, <2>2, Zenon DEF RequestService
<1>30. ASSUME NEW r \in Reqs, Mark(r) PROVE TypeOK'
  <2>1. req' \in [Reqs -> LifecycleRequest]
    BY <1>30, Defaults, Zenon DEF Mark
  <2>2. req[r].mod \in Modules /\ MarkOf[req[r].op] \in ModuleStates
    BY Marks, Zenon DEF LifecycleRequest
  <2>3. rec' \in [Modules -> Record]
    <3>1. CASE UpdateState(req[r].mod, MarkOf[req[r].op])
      BY <3>1, <2>2, RecordType, Zenon DEF UpdateState
    <3> QED
      BY <1>30, <3>1, Zenon DEF Mark
  <2> QED
    BY <1>30, <2>1, <2>3, Zenon DEF Mark
<1>31. ASSUME NEW r \in Reqs, NEW j \in Jobs, RequestJob(r, j) PROVE TypeOK'
  BY <1>31, RequestType, Zenon DEF RequestJob, startJob, Fresh, JobRow, Kinds, Active,
     Terminal, LifecycleRequest, Running
<1> QED
  BY <1>1, <1>2, <1>3, <1>4, <1>5, <1>6, <1>7, <1>8, <1>9, <1>10, <1>11, <1>12,
     <1>13, <1>14, <1>15, <1>16, <1>17, <1>18, <1>19, <1>20, <1>21, <1>22, <1>23,
     <1>24, <1>25, <1>26, <1>27, <1>28, <1>29, <1>30, <1>31, Zenon
     DEF Next, JobStep, SyncAny, vars

\* The tables, the host and every goroutine of the Task Manager stay in their
\* types.
THEOREM TypeCorrect == Spec => []TypeOK
  BY TypeInit, TypeNext, PTL DEF Spec

\* What a row says, where the goroutine is and whether it is attached.  A row
\* exists from startJob on; the cancel function is registered exactly while the
\* goroutine runs; nothing runs while the Core is down; a goroutine ends with an
\* ended row.  The last three conjuncts are why a late start cannot revive a job:
\* only CancelJob ends a row before the goroutine marks it running, and it has
\* canceled the context by then.
JobInv ==
    /\ \A r \in Reqs : req[r].pc # "idle" => up
    /\ \A j \in Jobs :
         /\ Fresh(j) <=> work[j] = "none"
         /\ j \in attached <=> work[j] \in Running \ {"attach"}
         /\ work[j] \in Running => up
         /\ work[j] \in {"detach", "gone"} => row[j].state \notin Active
         /\ work[j] = "attach" => row[j].state = "pending"
         /\ work[j] = "start" /\ row[j].state # "pending" => ctx[j] # "live"
         /\ cancel[j] = "write" => ctx[j] # "live" /\ work[j] \notin {"none", "attach"}

\* No job has been started at first.
LEMMA JobInit == Init => JobInv
  BY DEF Init, JobInv, Fresh, NoJob, Idle, Running

\* Every step preserves JobInv.
LEMMA JobNext == TypeOK /\ JobInv /\ [Next]_vars => JobInv'
<1> SUFFICES ASSUME TypeOK, JobInv, [Next]_vars
             PROVE  JobInv'
  BY Zenon
<1> USE ModuleAssumption
<1> USE DEF TypeOK, JobRow, LifecycleRequest, JobInv, Fresh, jobVars, Active, Terminal, Running
<1>1. CASE UNCHANGED <<row, ctx, work, attached, cancel, req, up>>
  BY <1>1, Zenon
<1>2. ASSUME Start PROVE JobInv'
  BY <1>2 DEF Start, Recovered, Interrupted
<1>3. ASSUME Crash PROVE JobInv'
  BY <1>3, Zenon DEF Crash, Idle
<1>4. ASSUME NEW m \in Modules, NEW j \in Jobs, StartTask(j, m) PROVE JobInv'
  BY <1>4 DEF StartTask, startJob
<1>5. ASSUME NEW j \in Jobs, JobAttach(j) PROVE JobInv'
  BY <1>5 DEF JobAttach, WorkStep
<1>6. ASSUME NEW j \in Jobs, JobStart(j) PROVE JobInv'
  BY <1>6 DEF JobStart, WorkStep, jobRest, JobUpdateState, MarksRunning
<1>7. ASSUME NEW j \in Jobs, WorkOk(j) PROVE JobInv'
  BY <1>7 DEF WorkOk, WorkStep, jobRest
<1>8. ASSUME NEW j \in Jobs, WorkFailed(j) PROVE JobInv'
  BY <1>8 DEF WorkFailed, WorkStep, jobRest
<1>9. ASSUME NEW j \in Jobs, JobFailed(j) PROVE JobInv'
  BY <1>9 DEF JobFailed, WorkStep, jobRest, JobUpdateState
<1>10. ASSUME NEW j \in Jobs, JobCheck(j) PROVE JobInv'
  BY <1>10 DEF JobCheck, WorkStep, jobRest, JobUpdateState, WasCanceled
<1>11. ASSUME NEW j \in Jobs, JobApply(j) PROVE JobInv'
  BY <1>11 DEF JobApply, WorkStep, jobRest
<1>12. ASSUME NEW j \in Jobs, JobLate(j) PROVE JobInv'
  BY <1>12 DEF JobLate, WorkStep
<1>13. ASSUME NEW j \in Jobs, JobSettle(j) PROVE JobInv'
  BY <1>13 DEF JobSettle, WorkStep, jobRest, JobUpdateState
<1>14. ASSUME NEW j \in Jobs, JobDetach(j) PROVE JobInv'
  BY <1>14 DEF JobDetach, WorkStep
<1>15. ASSUME NEW j \in Jobs, Expire(j) PROVE JobInv'
  BY <1>15 DEF Expire
<1>16. ASSUME NEW j \in Jobs, CancelJob(j) PROVE JobInv'
  BY <1>16 DEF CancelJob, Reachable
<1>17. ASSUME NEW j \in Jobs, CancelCall(j) PROVE JobInv'
  BY <1>17 DEF CancelCall
<1>18. ASSUME NEW j \in Jobs, CancelWrite(j) PROVE JobInv'
  <2>1. UNCHANGED <<ctx, work, attached, req, up>>
    BY <1>18, Zenon DEF CancelWrite
  <2>2. /\ ctx[j] # "live"
        /\ work[j] \notin {"none", "attach"}
        /\ row[j].state # "none"
    BY <1>18, Zenon DEF CancelWrite
  <2>3. \A i \in Jobs : cancel'[i] = "write" => cancel[i] = "write"
    BY <1>18 DEF CancelWrite
  <2>4. \A i \in Jobs : \/ row'[i].state = row[i].state
                        \/ i = j /\ row'[i].state = "canceled"
    <3>1. CASE JobUpdateState(j, "canceled")
      BY <3>1 DEF JobUpdateState
    <3> QED
      BY <1>18, <3>1, Zenon DEF CancelWrite
  <2>5. ASSUME NEW i \in Jobs
        PROVE  /\ Fresh(i)' <=> Fresh(i)
               /\ row[i].state \notin Active => row'[i].state \notin Active
               /\ i # j => row'[i].state = row[i].state
    BY <2>2, <2>4, Zenon
  <2>6. \A i \in Jobs :
          /\ Fresh(i)' <=> work'[i] = "none"
          /\ work'[i] \in {"detach", "gone"} => row'[i].state \notin Active
    BY <2>1, <2>5, Zenon
  <2>7. \A i \in Jobs :
          /\ work'[i] = "attach" => row'[i].state = "pending"
          /\ work'[i] = "start" /\ row'[i].state # "pending" => ctx'[i] # "live"
    <3> SUFFICES ASSUME NEW i \in Jobs
                 PROVE  /\ work[i] = "attach" => row'[i].state = "pending"
                        /\ work[i] = "start" /\ row'[i].state # "pending" => ctx[i] # "live"
      BY <2>1, Zenon
    <3>1. CASE i = j
      BY <2>2, <3>1, Zenon
    <3>2. CASE i # j
      BY <2>5, <3>2, Zenon
    <3> QED
      BY <3>1, <3>2, Zenon
  <2>8. \A i \in Jobs :
          cancel'[i] = "write" => ctx'[i] # "live" /\ work'[i] \notin {"none", "attach"}
    BY <2>1, <2>3, Zenon
  <2>9. /\ \A r \in Reqs : req'[r].pc # "idle" => up'
        /\ \A i \in Jobs :
             /\ i \in attached' <=> work'[i] \in Running \ {"attach"}
             /\ work'[i] \in Running => up'
    BY <2>1, Zenon
  <2> QED
    BY <2>6, <2>7, <2>8, <2>9, Zenon
<1>19. ASSUME NEW j \in Jobs, DeleteJob(j) PROVE JobInv'
  BY <1>19 DEF DeleteJob, Reachable, JobUpdateState
<1>20. ASSUME NEW j \in Jobs, NEW k \in Jobs, RetryJob(j, k) PROVE JobInv'
  BY <1>20 DEF RetryJob, Reachable, startJob
<1>21. ASSUME NEW r \in Reqs, NEW op \in Ops, NEW m \in Modules, Request(r, op, m)
    PROVE JobInv'
  BY <1>21, Zenon DEF Request
<1>22. ASSUME NEW r \in Reqs, GiveUp(r) PROVE JobInv'
  BY <1>22, Zenon DEF GiveUp, Idle
<1>23. ASSUME NEW r \in Reqs, RequestService(r) PROVE JobInv'
  BY <1>23, Zenon DEF RequestService
<1>24. ASSUME NEW r \in Reqs, Mark(r) PROVE JobInv'
  BY <1>24, Zenon DEF Mark, Idle
<1>25. ASSUME NEW r \in Reqs, NEW j \in Jobs, RequestJob(r, j) PROVE JobInv'
  BY <1>25 DEF RequestJob, startJob
<1>26. ASSUME NEW m \in Modules,
            \/ SyncRead(m) \/ SyncStatus(m) \/ SyncAbsent(m) \/ SyncFail(m)
            \/ SyncWrite(m) \/ Restart(m)
    PROVE UNCHANGED <<row, ctx, work, attached, cancel, req, up>>
  BY <1>26, Zenon DEF SyncRead, SyncStatus, SyncStep, SyncAbsent, SyncFail, SyncWrite,
     Restart
<1> QED
  BY <1>1, <1>2, <1>3, <1>4, <1>5, <1>6, <1>7, <1>8, <1>9, <1>10, <1>11, <1>12,
     <1>13, <1>14, <1>15, <1>16, <1>17, <1>18, <1>19, <1>20, <1>21, <1>22, <1>23,
     <1>24, <1>25, <1>26, Zenon
     DEF Next, JobStep, SyncAny, vars

\* The row, the goroutine and the cancel function of every job agree: the
\* invariant the other theorems rest on.
THEOREM JobsCorrect == Spec => []JobInv
  BY TypeCorrect, JobInit, JobNext, PTL DEF Spec

\* No statement, and no restart, revives an ended job.
LEMMA SettledNext ==
    ASSUME TypeOK, JobInv, [Next]_vars, NEW i \in Jobs,
           row[i].state \in Ended
    PROVE  row'[i].state \in Ended
<1> USE ModuleAssumption
<1> USE DEF TypeOK, JobRow, JobInv, Fresh, jobVars, Active, Terminal, Ended, Running
<1>1. CASE UNCHANGED <<row>>
  BY <1>1, Zenon
<1>2. ASSUME Start PROVE row'[i].state \in Ended
  BY <1>2 DEF Start
<1>3. ASSUME NEW m \in Modules, NEW j \in Jobs, StartTask(j, m)
    PROVE row'[i].state \in Ended
  BY <1>3 DEF StartTask, startJob
<1>4. ASSUME NEW j \in Jobs, JobStart(j) PROVE row'[i].state \in Ended
  <2>1. work[j] = "start"
    BY <1>4, Zenon DEF JobStart, WorkStep
  <2>2. CASE j = i
    <3>1. ctx[i] # "live"
      BY <2>1, <2>2
    <3> QED
      BY <1>4, <2>2, <3>1, Zenon DEF JobStart, MarksRunning
  <2>3. CASE j # i
    <3>1. CASE JobUpdateState(j, "running")
      BY <2>3, <3>1 DEF JobUpdateState
    <3> QED
      BY <1>4, <3>1, Zenon DEF JobStart
  <2> QED
    BY <2>2, <2>3, Zenon
<1>5. ASSUME NEW j \in Jobs, JobFailed(j) PROVE row'[i].state \in Ended
  BY <1>5 DEF JobFailed, WorkStep, jobRest, JobUpdateState
<1>6. ASSUME NEW j \in Jobs, JobCheck(j) PROVE row'[i].state \in Ended
  <2>1. CASE JobUpdateState(j, "canceled")
    BY <2>1 DEF JobUpdateState
  <2> QED
    BY <1>6, <2>1, Zenon DEF JobCheck
<1>7. ASSUME NEW j \in Jobs, JobSettle(j) PROVE row'[i].state \in Ended
  BY <1>7 DEF JobSettle, WorkStep, jobRest, JobUpdateState
<1>8. ASSUME NEW j \in Jobs, CancelWrite(j) PROVE row'[i].state \in Ended
  BY <1>8 DEF CancelWrite, JobUpdateState
<1>9. ASSUME NEW j \in Jobs, DeleteJob(j) PROVE row'[i].state \in Ended
  BY <1>9 DEF DeleteJob, Reachable, JobUpdateState
<1>10. ASSUME NEW j \in Jobs, NEW k \in Jobs, RetryJob(j, k)
    PROVE row'[i].state \in Ended
  BY <1>10 DEF RetryJob, Reachable, startJob
<1>11. ASSUME NEW r \in Reqs, NEW j \in Jobs, RequestJob(r, j)
    PROVE row'[i].state \in Ended
  BY <1>11 DEF RequestJob, startJob
<1>12. ASSUME 
            Crash
    PROVE UNCHANGED <<row>>
  BY <1>12, Zenon DEF Crash
<1>13. ASSUME NEW m \in Modules,
            \/ SyncRead(m) \/ SyncStatus(m) \/ SyncAbsent(m) \/ SyncFail(m)
            \/ SyncWrite(m) \/ Restart(m)
    PROVE UNCHANGED <<row>>
  BY <1>13, Zenon DEF SyncRead, SyncStatus, SyncStep, SyncAbsent, SyncFail, SyncWrite,
     Restart
<1>14. ASSUME NEW j \in Jobs,
            \/ JobAttach(j) \/ WorkOk(j) \/ WorkFailed(j) \/ JobApply(j) \/ JobLate(j)
            \/ JobDetach(j) \/ Expire(j) \/ CancelJob(j) \/ CancelCall(j)
    PROVE UNCHANGED <<row>>
  BY <1>14, Zenon DEF JobAttach, WorkStep, WorkOk, jobRest, WorkFailed, JobApply, JobLate,
     JobDetach, Expire, CancelJob, CancelCall
<1>15. ASSUME NEW r \in Reqs,
            \/ (\E op \in Ops, m \in Modules : Request(r, op, m)) \/ GiveUp(r)
            \/ RequestService(r) \/ Mark(r)
    PROVE UNCHANGED <<row>>
  BY <1>15, Zenon DEF Request, GiveUp, RequestService, Mark
<1> QED
  BY <1>1, <1>2, <1>3, <1>4, <1>5, <1>6, <1>7, <1>8, <1>9, <1>10, <1>11, <1>12,
     <1>13, <1>14, <1>15, Zenon
     DEF Next, JobStep, SyncAny, vars

\* A job that has ended never becomes pending or running again, however its start,
\* its cancellation, its end, its deletion and a restart interleave.
THEOREM EndedStaysEnded == Spec => SettledStays
<1>1. TypeOK /\ JobInv /\ [Next]_vars
        => \A j \in Jobs : row[j].state \in Ended =>
                             row'[j].state \in Ended
  BY SettledNext, Zenon
<1> QED
  BY <1>1, TypeCorrect, JobsCorrect, PTL DEF Spec, SettledStays

\* If there are no more jobs than ListByState returns, RecoverInterruptedJobs
\* finds every interrupted one.
LEMMA AllRecovered ==
    ASSUME TypeOK, Cardinality(Jobs) <= RecoverLimit,
           NEW R, Recovered(R), NEW j \in Jobs, Interrupted(j)
    PROVE  j \in R
<1> DEFINE all  == {k \in Jobs : Interrupted(k) /\ row[k].state = row[j].state}
<1> DEFINE mine == {k \in R : row[k].state = row[j].state}
<1>1. row[j].state \in Active
  BY Zenon DEF Interrupted
<1>2. mine = all \/ Cardinality(all) > RecoverLimit
  BY <1>1, Zenon DEF Recovered
<1>3. /\ Cardinality(all) <= Cardinality(Jobs)
      /\ Cardinality(all) \in Nat /\ Cardinality(Jobs) \in Nat
  BY ModuleAssumption, FS_Subset, FS_CardinalityType, Zenon
<1>4. mine = all
  BY <1>2, <1>3, ModuleAssumption
<1>5. j \in all
  BY Zenon DEF Interrupted
<1> QED
  BY <1>4, <1>5, Zenon

\* A job that a crash interrupted and no start has marked is a remote one.
KilledInv ==
    \A j \in Jobs : up /\ work[j] = "killed" /\ row[j].state \in Active => row[j].mod \in Remote

\* Every step preserves KilledInv; Start does by AllRecovered.
LEMMA KilledNext ==
    ASSUME Cardinality(Jobs) <= RecoverLimit, TypeOK, JobInv, KilledInv, [Next]_vars
    PROVE  KilledInv'
<1> USE ModuleAssumption
<1> USE DEF TypeOK, JobRow, JobInv, KilledInv, Fresh, jobVars, Active, Terminal, Running
<1>1. CASE UNCHANGED <<row, work, up>>
  BY <1>1, Zenon
<1>2. ASSUME Start PROVE KilledInv'
  <2>1. PICK R \in SUBSET Jobs :
          /\ Recovered(R)
          /\ row' = [j \in Jobs |-> IF j \in R THEN [row[j] EXCEPT !.state = "error"] ELSE row[j]]
    BY <1>2, Zenon DEF Start
  <2>2. \A j \in Jobs : Interrupted(j) => j \in R
    BY <2>1, AllRecovered, Zenon
  <2>3. ASSUME NEW j \in Jobs, work'[j] = "killed", row'[j].state \in Active
        PROVE  row'[j].mod \in Remote
    BY <2>1, <2>2, <2>3 DEF Interrupted
  <2> QED
    BY <2>3, Zenon
<1>3. ASSUME Crash PROVE KilledInv'
  BY <1>3, Zenon DEF Crash
<1>4. ASSUME NEW m \in Modules, NEW j \in Jobs, StartTask(j, m) PROVE KilledInv'
  BY <1>4 DEF StartTask, startJob
<1>5. ASSUME NEW j \in Jobs, JobAttach(j) PROVE KilledInv'
  BY <1>5 DEF JobAttach, WorkStep
<1>6. ASSUME NEW j \in Jobs, JobStart(j) PROVE KilledInv'
  BY <1>6 DEF JobStart, WorkStep, jobRest, JobUpdateState, MarksRunning
<1>7. ASSUME NEW j \in Jobs, WorkOk(j) PROVE KilledInv'
  BY <1>7 DEF WorkOk, WorkStep, jobRest
<1>8. ASSUME NEW j \in Jobs, WorkFailed(j) PROVE KilledInv'
  BY <1>8 DEF WorkFailed, WorkStep, jobRest
<1>9. ASSUME NEW j \in Jobs, JobFailed(j) PROVE KilledInv'
  BY <1>9 DEF JobFailed, WorkStep, jobRest, JobUpdateState
<1>10. ASSUME NEW j \in Jobs, JobCheck(j) PROVE KilledInv'
  BY <1>10 DEF JobCheck, WorkStep, jobRest, JobUpdateState, WasCanceled
<1>11. ASSUME NEW j \in Jobs, JobApply(j) PROVE KilledInv'
  BY <1>11 DEF JobApply, WorkStep, jobRest
<1>12. ASSUME NEW j \in Jobs, JobLate(j) PROVE KilledInv'
  BY <1>12 DEF JobLate, WorkStep
<1>13. ASSUME NEW j \in Jobs, JobSettle(j) PROVE KilledInv'
  BY <1>13 DEF JobSettle, WorkStep, jobRest, JobUpdateState
<1>14. ASSUME NEW j \in Jobs, JobDetach(j) PROVE KilledInv'
  BY <1>14 DEF JobDetach, WorkStep
<1>15. ASSUME NEW j \in Jobs, CancelWrite(j) PROVE KilledInv'
  <2>1. CASE JobUpdateState(j, "canceled")
    BY <1>15, <2>1 DEF CancelWrite, JobUpdateState
  <2>2. CASE UNCHANGED row
    BY <1>15, <2>2, Zenon DEF CancelWrite
  <2> QED
    BY <1>15, <2>1, <2>2, Zenon DEF CancelWrite
<1>16. ASSUME NEW j \in Jobs, DeleteJob(j) PROVE KilledInv'
  BY <1>16 DEF DeleteJob, Reachable, JobUpdateState
<1>17. ASSUME NEW j \in Jobs, NEW k \in Jobs, RetryJob(j, k) PROVE KilledInv'
  BY <1>17 DEF RetryJob, Reachable, startJob
<1>18. ASSUME NEW r \in Reqs, NEW j \in Jobs, RequestJob(r, j) PROVE KilledInv'
  BY <1>18 DEF RequestJob, startJob
<1>19. ASSUME NEW m \in Modules,
            \/ SyncRead(m) \/ SyncStatus(m) \/ SyncAbsent(m) \/ SyncFail(m)
            \/ SyncWrite(m) \/ Restart(m)
    PROVE UNCHANGED <<row, work, up>>
  BY <1>19, Zenon DEF SyncRead, SyncStatus, SyncStep, SyncAbsent, SyncFail, SyncWrite,
     Restart
<1>20. ASSUME NEW j \in Jobs,
            Expire(j) \/ CancelJob(j) \/ CancelCall(j)
    PROVE UNCHANGED <<row, work, up>>
  BY <1>20, Zenon DEF Expire, CancelJob, CancelCall
<1>21. ASSUME NEW r \in Reqs,
            \/ (\E op \in Ops, m \in Modules : Request(r, op, m)) \/ GiveUp(r)
            \/ RequestService(r) \/ Mark(r)
    PROVE UNCHANGED <<row, work, up>>
  BY <1>21, Zenon DEF Request, GiveUp, RequestService, Mark
<1> QED
  BY <1>1, <1>2, <1>3, <1>4, <1>5, <1>6, <1>7, <1>8, <1>9, <1>10, <1>11, <1>12,
     <1>13, <1>14, <1>15, <1>16, <1>17, <1>18, <1>19, <1>20, <1>21, Zenon
     DEF Next, JobStep, SyncAny, vars

\* While the Core is up an active job has a goroutine that can be canceled, with
\* the exceptions NoZombieRow names, as long as the jobs do not outnumber the
\* limit of ListByState.
THEOREM NoZombies ==
    ASSUME Cardinality(Jobs) <= RecoverLimit
    PROVE  Spec => []NoZombieRow
<1>1. Init => KilledInv
  BY Zenon DEF Init, KilledInv
<1>2. TypeOK /\ JobInv /\ KilledInv /\ [Next]_vars => KilledInv'
  BY KilledNext, Zenon
<1>3. TypeOK /\ JobInv /\ KilledInv => NoZombieRow
  BY DEF TypeOK, JobRow, JobInv, KilledInv, NoZombieRow, Fresh, Active, Running
<1> QED
  BY <1>1, <1>2, <1>3, TypeCorrect, JobsCorrect, PTL DEF Spec

\* A lifecycle job that was canceled before its work ended ...
Canceled(j) ==
    ctx[j] = "canceled" /\ work[j] \in {"start", "run"} /\ row[j].kind # "task"

\* ... and one whose context ended before its work did, from then on.
Abandoned(j) ==
    /\ ctx[j] # "live"
    /\ row[j].kind # "task"
    /\ work[j] \in {"start", "run", "ok", "error", "canceled", "detach", "gone", "killed"}

\* A job stays Abandoned: JobCheck never lets it through to onSuccess.
LEMMA AbandonedNext ==
    ASSUME TypeOK, JobInv, [Next]_vars, NEW i \in Jobs, Abandoned(i)
    PROVE  Abandoned(i)'
<1> USE ModuleAssumption
<1> USE DEF TypeOK, JobRow, JobInv, Abandoned, Fresh, jobVars, Active, Terminal, Running
<1>1. CASE UNCHANGED <<row, work, ctx>>
  BY <1>1, Zenon
<1>2. ASSUME Start PROVE Abandoned(i)'
  BY <1>2 DEF Start
<1>3. ASSUME Crash PROVE Abandoned(i)'
  BY <1>3, Zenon DEF Crash
<1>4. ASSUME NEW m \in Modules, NEW j \in Jobs, StartTask(j, m) PROVE Abandoned(i)'
  BY <1>4 DEF StartTask, startJob
<1>5. ASSUME NEW j \in Jobs, JobAttach(j) PROVE Abandoned(i)'
  BY <1>5 DEF JobAttach, WorkStep
<1>6. ASSUME NEW j \in Jobs, JobStart(j) PROVE Abandoned(i)'
  BY <1>6 DEF JobStart, WorkStep, jobRest, JobUpdateState, MarksRunning
<1>7. ASSUME NEW j \in Jobs, WorkOk(j) PROVE Abandoned(i)'
  BY <1>7 DEF WorkOk, WorkStep, jobRest
<1>8. ASSUME NEW j \in Jobs, WorkFailed(j) PROVE Abandoned(i)'
  BY <1>8 DEF WorkFailed, WorkStep, jobRest
<1>9. ASSUME NEW j \in Jobs, JobFailed(j) PROVE Abandoned(i)'
  BY <1>9 DEF JobFailed, WorkStep, jobRest, JobUpdateState
<1>10. ASSUME NEW j \in Jobs, JobCheck(j) PROVE Abandoned(i)'
  BY <1>10 DEF JobCheck, WorkStep, jobRest, JobUpdateState, WasCanceled
<1>11. ASSUME NEW j \in Jobs, JobApply(j) PROVE Abandoned(i)'
  BY <1>11 DEF JobApply, WorkStep, jobRest
<1>12. ASSUME NEW j \in Jobs, JobLate(j) PROVE Abandoned(i)'
  BY <1>12 DEF JobLate, WorkStep
<1>13. ASSUME NEW j \in Jobs, JobSettle(j) PROVE Abandoned(i)'
  BY <1>13 DEF JobSettle, WorkStep, jobRest, JobUpdateState
<1>14. ASSUME NEW j \in Jobs, JobDetach(j) PROVE Abandoned(i)'
  BY <1>14 DEF JobDetach, WorkStep
<1>15. ASSUME NEW j \in Jobs, Expire(j) PROVE Abandoned(i)'
  BY <1>15 DEF Expire
<1>16. ASSUME NEW j \in Jobs, CancelCall(j) PROVE Abandoned(i)'
  BY <1>16 DEF CancelCall
<1>17. ASSUME NEW j \in Jobs, CancelWrite(j) PROVE Abandoned(i)'
  BY <1>17 DEF CancelWrite, JobUpdateState
<1>18. ASSUME NEW j \in Jobs, DeleteJob(j) PROVE Abandoned(i)'
  BY <1>18 DEF DeleteJob, Reachable, JobUpdateState
<1>19. ASSUME NEW j \in Jobs, NEW k \in Jobs, RetryJob(j, k) PROVE Abandoned(i)'
  BY <1>19 DEF RetryJob, Reachable, startJob
<1>20. ASSUME NEW r \in Reqs, NEW j \in Jobs, RequestJob(r, j) PROVE Abandoned(i)'
  BY <1>20 DEF RequestJob, startJob
<1>21. ASSUME NEW m \in Modules,
            \/ SyncRead(m) \/ SyncStatus(m) \/ SyncAbsent(m) \/ SyncFail(m)
            \/ SyncWrite(m) \/ Restart(m)
    PROVE UNCHANGED <<row, work, ctx>>
  BY <1>21, Zenon DEF SyncRead, SyncStatus, SyncStep, SyncAbsent, SyncFail, SyncWrite,
     Restart
<1>22. ASSUME NEW j \in Jobs,
            CancelJob(j)
    PROVE UNCHANGED <<row, work, ctx>>
  BY <1>22, Zenon DEF CancelJob
<1>23. ASSUME NEW r \in Reqs,
            \/ (\E op \in Ops, m \in Modules : Request(r, op, m)) \/ GiveUp(r)
            \/ RequestService(r) \/ Mark(r)
    PROVE UNCHANGED <<row, work, ctx>>
  BY <1>23, Zenon DEF Request, GiveUp, RequestService, Mark
<1> QED
  BY <1>1, <1>2, <1>3, <1>4, <1>5, <1>6, <1>7, <1>8, <1>9, <1>10, <1>11, <1>12,
     <1>13, <1>14, <1>15, <1>16, <1>17, <1>18, <1>19, <1>20, <1>21, <1>22, <1>23, Zenon
     DEF Next, JobStep, SyncAny, vars

\* What a lifecycle job does after it was canceled is never recorded in the
\* modules table, however long its work goes on.
THEOREM CanceledStaysUnapplied == Spec => CanceledNotApplied
<1> SUFFICES ASSUME NEW j \in Jobs
             PROVE  Spec => [](Canceled(j) => [](work[j] \notin {"apply", "settle"}))
  BY Zenon DEF CanceledNotApplied, Canceled
<1>1. Canceled(j) => Abandoned(j)
  BY Zenon DEF Canceled, Abandoned
<1>2. Abandoned(j) => work[j] \notin {"apply", "settle"}
  BY Zenon DEF Abandoned
<1>3. TypeOK /\ JobInv /\ Abandoned(j) /\ [Next]_vars => Abandoned(j)'
  BY AbandonedNext, Zenon
<1> QED
  BY <1>1, <1>2, <1>3, TypeCorrect, JobsCorrect, PTL DEF Spec
=============================================================================
