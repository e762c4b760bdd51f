----------------------------- MODULE ModuleJobs -----------------------------
(***************************************************************************)
(* The lifecycle of modules and the Task Manager behind it:                *)
(* internal/core/module (service.go, job_service.go, jobs.go,              *)
(* external_tasks.go, registry.go, sqlite_repository.go) and the start-up  *)
(* hook bootstrapModules of internal/core/app/fx.go.                       *)
(*                                                                         *)
(* The Core handles requests concurrently and every job is a goroutine;    *)
(* nothing but SQLite is shared, through one connection, so a step is one  *)
(* statement, or one call of the Agent.  The database and the host survive *)
(* a crash of the Core, handlers and goroutines do not.  Names, versions,  *)
(* payloads, output and audit records are left out; of a version only      *)
(* whether it is known.  A module stands for its record on one server.     *)
(***************************************************************************)
EXTENDS Naturals, FiniteSets

CONSTANTS
    Modules,        \* (module, server) pairs
    Remote,         \* those whose server is not the local one
    HasService,     \* those with Capabilities().SupportsService
    HasTasks,       \* those that start tasks of their own: cron
    Jobs,           \* job ids, taken in order
    Reqs,           \* concurrent lifecycle requests
    Ops,            \* bound: the lifecycle operations that are requested
    RecoverLimit,   \* LIMIT of ListByState, 100 in the code
    MaxCrashes      \* bound: crashes of the Core

ASSUME ModuleAssumption ==
    /\ Modules # {}
    /\ Remote \subseteq Modules
    /\ HasService \cup HasTasks \subseteq Modules
    /\ Jobs \subseteq Nat \ {0}
    /\ IsFiniteSet(Jobs)
    /\ Ops \subseteq {"install", "uninstall", "enable", "disable"}
    /\ RecoverLimit \in Nat
    /\ MaxCrashes \in Nat

VARIABLES
    rec,        \* the modules table: state and whether a version is recorded
    host,       \* the package and its service on the server
    row,        \* the jobs table: state, kind, module
    ctx,        \* the background context of a job: live, canceled or expired
    work,       \* where the goroutine of a job is
    attached,   \* Service.cancels
    cancel,     \* where a CancelJob of the job is
    req,        \* where a lifecycle request is, and what it asks for
    sync,       \* where syncRuntimeState is for a module, and what it read
    up, crashes \* the Core runs; how often it crashed

jobVars == <<row, ctx, work, attached>>
vars == <<rec, host, jobVars, cancel, req, sync, up, crashes>>

ModuleStates == {"none", "available", "installing", "installed", "enabled", "disabled",
                 "removing", "error"}
Active   == {"pending", "running"}
Terminal == {"success", "error", "canceled"}
Ended    == Terminal \cup {"deleted"}
Kinds    == {"install", "uninstall", "task", "retryInstall", "retryUninstall"}
Installs == {"install", "retryInstall"}
Detected == {"installed", "enabled", "disabled"}
Running  == {"attach", "start", "run", "ok", "error", "canceled", "apply", "settle", "detach"}

Operations == {"install", "uninstall", "enable", "disable"}

\* A row of the modules table, a row of the jobs table, where a request is and
\* what it asks for, where syncRuntimeState is and what it read.
Record == [state : ModuleStates, version : BOOLEAN]
JobRow == [state : {"none", "deleted"} \cup Active \cup Terminal, kind : Kinds, mod : Modules]
LifecycleRequest == [pc : {"idle", "backup", "mark"}, op : Operations, mod : Modules,
                     job : Jobs \cup {0}]
RuntimeSync == [pc : {"idle", "queued", "status", "failed"} \cup Detected, version : BOOLEAN]

NoJob == [state |-> "none", kind |-> "task", mod |-> CHOOSE m \in Modules : TRUE]
NoSync == [pc |-> "idle", version |-> FALSE]
Idle  == [pc |-> "idle", op |-> "install", mod |-> CHOOSE m \in Modules : TRUE,
          job |-> 0]

Init ==
    /\ rec = [m \in Modules |-> [state |-> "none", version |-> FALSE]]
    /\ host \in [Modules -> {"absent", "running"}]
    /\ row = [j \in Jobs |-> NoJob]
    /\ ctx = [j \in Jobs |-> "live"]
    /\ work = [j \in Jobs |-> "none"]
    /\ attached = {}
    /\ cancel = [j \in Jobs |-> "no"]
    /\ req = [r \in Reqs |-> Idle]
    /\ sync = [m \in Modules |-> NoSync]
    /\ up = FALSE
    /\ crashes = 0

-----------------------------------------------------------------------------
(* The statements of the repositories.  An UPDATE of a row that does not   *)
(* exist changes nothing and reports no error.                             *)

UpdateState(m, s) ==
    rec' = [rec EXCEPT ![m].state = IF @ = "none" THEN @ ELSE s]

Upsert(m, s, v) == rec' = [rec EXCEPT ![m] = [state |-> s, version |-> v]]

JobUpdateState(j, s) ==
    row' = [row EXCEPT ![j].state = IF @ = "deleted" THEN @ ELSE s]

-----------------------------------------------------------------------------
(* Start of the Core: RecoverInterruptedJobs, then Bootstrap, then         *)
(* SyncRuntimeStates in the background.  All three run without a server in *)
(* their context, which means the local one.                               *)

\* Mutant: only running jobs are recovered.
InterruptedRunning(j) == row[j].state = "running" /\ row[j].mod \notin Remote

Interrupted(j) == row[j].state \in Active /\ row[j].mod \notin Remote

\* ListByState returns at most RecoverLimit jobs of each state.
Recovered(R) ==
    /\ R \subseteq {j \in Jobs : Interrupted(j)}
    /\ \A s \in Active :
         LET all  == {j \in Jobs : Interrupted(j) /\ row[j].state = s}
             mine == {j \in R : row[j].state = s}
         IN mine = all \/ (Cardinality(all) > RecoverLimit /\ Cardinality(mine) = RecoverLimit)

\* Bootstrap creates missing records; one whose module fails to start is
\* marked as an error.
Bootstrapped(m, failed) ==
    IF m \in Remote THEN rec[m]
    ELSE [rec[m] EXCEPT !.state =
            IF m \in failed THEN "error" ELSE IF @ = "none" THEN "available" ELSE @]

Start ==
    /\ ~up
    /\ up' = TRUE
    /\ \E R \in SUBSET Jobs :
         /\ Recovered(R)
         /\ row' = [j \in Jobs |-> IF j \in R THEN [row[j] EXCEPT !.state = "error"] ELSE row[j]]
    /\ \E failed \in SUBSET (Modules \ Remote) :
         rec' = [m \in Modules |-> Bootstrapped(m, failed)]
    /\ sync' = [m \in Modules |-> IF m \in Remote THEN NoSync ELSE [NoSync EXCEPT !.pc = "queued"]]
    /\ UNCHANGED <<host, ctx, work, attached, cancel, req, crashes>>

\* The Core dies.  What the Agent was doing for a job may still complete.
Crash ==
    /\ up
    /\ crashes < MaxCrashes
    /\ crashes' = crashes + 1
    /\ up' = FALSE
    /\ work' = [j \in Jobs |-> IF work[j] \in Running THEN "killed" ELSE work[j]]
    /\ attached' = {}
    /\ cancel' = [j \in Jobs |-> "no"]
    /\ req' = [r \in Reqs |-> Idle]
    /\ sync' = [m \in Modules |-> NoSync]
    /\ \E J \in SUBSET {j \in Jobs : work[j] = "run" /\ row[j].kind # "task"} :
         host' = [m \in Modules |->
                    LET kinds == {row[j].kind : j \in {k \in J : row[k].mod = m}} IN
                    IF kinds = {} THEN host[m]
                    ELSE IF kinds \subseteq Installs THEN "running" ELSE "absent"]
    /\ UNCHANGED <<rec, row, ctx>>

-----------------------------------------------------------------------------
(* syncRuntimeState of one module.                                         *)

SyncStep(m, from, to) ==
    /\ sync[m].pc \in from
    /\ sync' = [sync EXCEPT ![m].pc = to]
    /\ UNCHANGED <<host, jobVars, cancel, req, up, crashes>>

SyncRead(m) ==
    /\ sync[m].pc = "queued"
    /\ sync' = [sync EXCEPT ![m] =
                  [pc |-> IF rec[m].state = "available" \/ ~rec[m].version
                          THEN "status" ELSE "idle",
                   version |-> rec[m].version]]
    /\ UNCHANGED <<rec, host, jobVars, cancel, req, up, crashes>>

\* The Status call finds the package.
SyncStatus(m) ==
    /\ host[m] # "absent"
    /\ SyncStep(m, {"status"}, IF m \notin HasService THEN "installed"
                               ELSE IF host[m] = "running" THEN "enabled" ELSE "disabled")
    /\ UNCHANGED rec

\* It finds no package: the record is left as it is ...
SyncAbsent(m) ==
    /\ host[m] = "absent"
    /\ SyncStep(m, {"status"}, "idle")
    /\ UNCHANGED rec

\* ... as it is when a statement or the call fails or takes too long.
SyncFail(m) ==
    /\ SyncStep(m, {"queued", "status"} \cup Detected, "failed")
    /\ UNCHANGED rec

\* The record that was read is written back with the detected state, and with
\* the version if the Status call told one.
SyncWrite(m) ==
    /\ SyncStep(m, Detected, "idle")
    /\ \E known \in BOOLEAN : Upsert(m, sync[m].pc, known \/ sync[m].version)

-----------------------------------------------------------------------------
(* Jobs: startJob, StartTask and the goroutine of a job.                   *)

Fresh(j) == row[j].state = "none"

\* The row is created ...
startJob(j, kind, m) ==
    /\ Fresh(j)
    /\ \A k \in Jobs : k < j => ~Fresh(k)
    /\ row' = [row EXCEPT ![j] = [state |-> "pending", kind |-> kind, mod |-> m]]
    /\ work' = [work EXCEPT ![j] = "attach"]
    /\ UNCHANGED <<ctx, attached>>

\* StartTask: background work of a module that has no record to update.
StartTask(j, m) ==
    /\ up
    /\ m \in HasTasks
    /\ startJob(j, "task", m)
    /\ UNCHANGED <<rec, host, cancel, req, sync, up, crashes>>

WorkStep(j, from, to) == work[j] = from /\ work' = [work EXCEPT ![j] = to]

\* ... then the cancel function registered and the goroutine started.
JobAttach(j) ==
    /\ WorkStep(j, "attach", "start")
    /\ attached' = attached \cup {j}
    /\ UNCHANGED <<rec, host, row, ctx, cancel, req, sync, up, crashes>>

jobRest == <<ctx, attached, cancel, req, sync, up, crashes>>

\* Mutant: the row is marked with a context of its own.
MarksRunningAlways(j) == TRUE

MarksRunning(j) == ctx[j] = "live"

\* The statement runs under the job's context: a canceled job is not marked.
JobStart(j) ==
    /\ WorkStep(j, "start", "run")
    /\ IF MarksRunning(j) THEN JobUpdateState(j, "running") ELSE UNCHANGED row
    /\ UNCHANGED <<rec, host, jobRest>>

Done(j) == IF row[j].kind \in Installs THEN "running" ELSE "absent"

\* Module.Install or Uninstall succeeded.
WorkOk(j) ==
    /\ WorkStep(j, "run", "ok")
    /\ host' = IF row[j].kind = "task" THEN host
               ELSE [host EXCEPT ![row[j].mod] = Done(j)]
    /\ UNCHANGED <<rec, row, jobRest>>

\* It failed, with or without an effect.  The error is context.Canceled only
\* under a canceled context, and need not be even then.
WorkFailed(j) ==
    /\ \/ WorkStep(j, "run", "error")
       \/ WorkStep(j, "run", "canceled") /\ ctx[j] = "canceled"
    /\ \/ UNCHANGED host
       \/ row[j].kind # "task" /\ host' = [host EXCEPT ![row[j].mod] = Done(j)]
    /\ UNCHANGED <<rec, row, jobRest>>

JobFailed(j) ==
    /\ WorkStep(j, "error", "detach") \/ WorkStep(j, "canceled", "detach")
    /\ JobUpdateState(j, work[j])
    /\ UNCHANGED <<rec, host, jobRest>>

\* Mutant: startJob, like StartTask, does not look at the context again.
WasCanceledNever(j) == FALSE

WasCanceled(j) == row[j].kind # "task" /\ ctx[j] # "live"

\* Work that succeeded under a context that has ended counts as canceled.
JobCheck(j) ==
    /\ IF WasCanceled(j)
       THEN WorkStep(j, "ok", "detach") /\ JobUpdateState(j, "canceled")
       ELSE WorkStep(j, "ok", IF row[j].kind = "task" THEN "settle" ELSE "apply")
            /\ UNCHANGED row
    /\ UNCHANGED <<rec, host, jobRest>>

\* onSuccess.  Install asks for the version first; a retried one does not.
JobApply(j) ==
    /\ WorkStep(j, "apply", "settle")
    /\ CASE row[j].kind = "install" ->
              \E known \in BOOLEAN : Upsert(row[j].mod, "installed", known)
         [] row[j].kind = "retryInstall" -> Upsert(row[j].mod, "installed", FALSE)
         [] OTHER -> UpdateState(row[j].mod, "available")
    /\ UNCHANGED <<host, row, jobRest>>

\* The 5 seconds for onSuccess and the row run out after that Status call:
\* both statements or the second one fail, and their errors are ignored.
JobLate(j) ==
    /\ row[j].kind = "install"
    /\ WorkStep(j, "apply", "late")
    /\ attached' = attached \ {j}
    /\ UNCHANGED rec \/ \E known \in BOOLEAN : Upsert(row[j].mod, "installed", known)
    /\ UNCHANGED <<host, row, ctx, cancel, req, sync, up, crashes>>

JobSettle(j) ==
    /\ WorkStep(j, "settle", "detach")
    /\ JobUpdateState(j, "success")
    /\ UNCHANGED <<rec, host, jobRest>>

\* The deferred function takes the job out of Service.cancels.
JobDetach(j) ==
    /\ WorkStep(j, "detach", "gone")
    /\ attached' = attached \ {j}
    /\ UNCHANGED <<rec, host, row, ctx, cancel, req, sync, up, crashes>>

\* moduleJobTimeout.
Expire(j) ==
    /\ work[j] \in {"start", "run", "ok"}
    /\ ctx[j] = "live"
    /\ ctx' = [ctx EXCEPT ![j] = "expired"]
    /\ UNCHANGED <<rec, host, row, work, attached, cancel, req, sync, up, crashes>>

-----------------------------------------------------------------------------
(* Requests on jobs.                                                       *)

\* The task routes are not served for a remote server.
Reachable(j) == up /\ row[j].mod \notin Remote

\* CancelJob reads the row ...
CancelJob(j) ==
    /\ Reachable(j)
    /\ cancel[j] = "no"
    /\ row[j].state \in Active
    /\ cancel' = [cancel EXCEPT ![j] = "read"]
    /\ UNCHANGED <<rec, host, jobVars, req, sync, up, crashes>>

\* ... calls the cancel function, or answers 409 when there is none ...
CancelCall(j) ==
    /\ cancel[j] = "read"
    /\ cancel' = [cancel EXCEPT ![j] = IF j \in attached THEN "write" ELSE "no"]
    /\ ctx' = [ctx EXCEPT ![j] = IF j \in attached /\ @ = "live" THEN "canceled" ELSE @]
    /\ UNCHANGED <<rec, host, row, work, attached, req, sync, up, crashes>>

\* ... and writes the row whatever it holds by now, unless the client left.
CancelWrite(j) ==
    /\ cancel[j] = "write"
    /\ cancel' = [cancel EXCEPT ![j] = "no"]
    /\ JobUpdateState(j, "canceled") \/ UNCHANGED row
    /\ UNCHANGED <<rec, host, ctx, work, attached, req, sync, up, crashes>>

DeleteJob(j) ==
    /\ Reachable(j)
    /\ row[j].state \in Terminal
    /\ JobUpdateState(j, "deleted")
    /\ UNCHANGED <<rec, host, ctx, work, attached, cancel, req, sync, up, crashes>>

RetryJob(j, k) ==
    /\ Reachable(j)
    /\ row[j].state \in {"error", "canceled"}
    /\ row[j].kind # "task"
    /\ startJob(k, IF row[j].kind \in Installs THEN "retryInstall" ELSE "retryUninstall",
                row[j].mod)
    /\ UNCHANGED <<rec, host, cancel, req, sync, up, crashes>>

-----------------------------------------------------------------------------
(* Requests on modules.  Each checks the record, waits for the backup, and *)
(* then starts a job or works on the host, and marks the record last.      *)

Accepts(op, m) ==
    \/ op = "install" /\ rec[m].state \notin {"installed", "enabled", "installing", "removing"}
    \/ op = "uninstall" /\ rec[m].state \notin {"none", "available"}
    \/ op = "enable" /\ rec[m].state \in {"installed", "disabled"}
    \/ op = "disable"

Request(r, op, m) ==
    /\ up
    /\ req[r].pc = "idle"
    /\ Accepts(op, m)
    /\ req' = [req EXCEPT ![r] = [pc |-> "backup", op |-> op, mod |-> m, job |-> 0]]
    /\ UNCHANGED <<rec, host, jobVars, cancel, sync, up, crashes>>

\* The backup failed, or what follows it.
GiveUp(r) ==
    /\ req[r].pc = "backup"
    /\ req' = [req EXCEPT ![r] = Idle]
    /\ UNCHANGED <<rec, host, jobVars, cancel, sync, up, crashes>>

\* Install and Uninstall.
RequestJob(r, j) ==
    /\ req[r].pc = "backup"
    /\ req[r].op \in {"install", "uninstall"}
    /\ startJob(j, req[r].op, req[r].mod)
    /\ req' = [req EXCEPT ![r].pc = "mark", ![r].job = j]
    /\ UNCHANGED <<rec, host, cancel, sync, up, crashes>>

\* Enable and Disable start and stop the service.
RequestService(r) ==
    /\ req[r].pc = "backup"
    /\ req[r].op \in {"enable", "disable"}
    /\ host[req[r].mod] # "absent"
    /\ host' = [host EXCEPT ![req[r].mod] = IF req[r].op = "enable" THEN "running" ELSE "stopped"]
    /\ req' = [req EXCEPT ![r].pc = "mark"]
    /\ UNCHANGED <<rec, jobVars, cancel, sync, up, crashes>>

\* Mutant: the state of the job is written to the modules table.
MarkOfJob == [install |-> "running", uninstall |-> "running",
              enable |-> "enabled", disable |-> "disabled"]

MarkOf == [install |-> "installing", uninstall |-> "removing",
           enable |-> "enabled", disable |-> "disabled"]

\* The statement runs under the request's context, which the client may end.
Mark(r) ==
    /\ req[r].pc = "mark"
    /\ \A j \in Jobs : req[r].job = j => work[j] # "attach"
    /\ req' = [req EXCEPT ![r] = Idle]
    /\ UpdateState(req[r].mod, MarkOf[req[r].op]) \/ UNCHANGED rec
    /\ UNCHANGED <<host, jobVars, cancel, sync, up, crashes>>

\* Restart of a module's service leaves the record alone.
Restart(m) ==
    /\ up
    /\ host[m] = "stopped"
    /\ host' = [host EXCEPT ![m] = "running"]
    /\ UNCHANGED <<rec, jobVars, cancel, req, sync, up, crashes>>

-----------------------------------------------------------------------------

JobStep(j) ==
    \/ JobAttach(j) \/ JobStart(j) \/ WorkOk(j) \/ WorkFailed(j) \/ JobFailed(j) \/ JobCheck(j)
    \/ JobApply(j) \/ JobLate(j) \/ JobSettle(j) \/ JobDetach(j)

SyncAny(m) == SyncRead(m) \/ SyncStatus(m) \/ SyncAbsent(m) \/ SyncFail(m) \/ SyncWrite(m)

Next ==
    \/ Start \/ Crash
    \/ \E m \in Modules : SyncAny(m) \/ Restart(m) \/ \E j \in Jobs : StartTask(j, m)
    \/ \E j \in Jobs : \/ JobStep(j) \/ Expire(j) \/ CancelJob(j) \/ CancelCall(j)
                       \/ CancelWrite(j) \/ DeleteJob(j) \/ \E k \in Jobs : RetryJob(j, k)
    \/ \E r \in Reqs : \/ \E op \in Ops, m \in Modules : Request(r, op, m)
                       \/ GiveUp(r) \/ RequestService(r) \/ Mark(r)
                       \/ \E j \in Jobs : RequestJob(r, j)

Spec == Init /\ [][Next]_vars

\* The service manager restarts the Core, goroutines run, the work of a job
\* ends by its deadline, the loader gets through its modules.
FairSpec ==
    /\ Spec
    /\ WF_vars(Start)
    /\ \A j \in Jobs : WF_vars(JobStep(j))
    /\ \A m \in Modules : WF_vars(SyncAny(m))

-----------------------------------------------------------------------------
(* Properties.                                                             *)

\* The tables, the host and every goroutine stay in their types.
TypeOK ==
    /\ rec \in [Modules -> Record]
    /\ host \in [Modules -> {"absent", "stopped", "running"}]
    /\ row \in [Jobs -> JobRow]
    /\ ctx \in [Jobs -> {"live", "canceled", "expired"}]
    /\ work \in [Jobs -> Running \cup {"none", "gone", "late", "killed"}]
    /\ attached \in SUBSET Jobs
    /\ cancel \in [Jobs -> {"no", "read", "write"}]
    /\ req \in [Reqs -> LifecycleRequest]
    /\ sync \in [Modules -> RuntimeSync]
    /\ up \in BOOLEAN
    /\ crashes \in 0..MaxCrashes

\* While the Core serves requests a job that is pending or running can be
\* canceled: its goroutine is attached, or about to be.  The exceptions are the jobs of a
\* remote server that a restart left behind and those that ran out of the
\* time for recording their outcome.
NoZombieRow ==
    up => \A j \in Jobs : row[j].state \in Active =>
            \/ j \in attached
            \/ work[j] \in {"attach", "late"}
            \/ work[j] = "killed" /\ row[j].mod \in Remote

\* A job that has ended never becomes pending or running again, although its
\* goroutine may start after CancelJob has written the row.
SettledStays ==
    [][\A j \in Jobs : row[j].state \in Ended => row'[j].state \in Ended]_vars

\* What a lifecycle job did after it was canceled is not recorded: onSuccess
\* does not run for work that succeeds under a canceled context.
CanceledNotApplied ==
    \A j \in Jobs :
        [](ctx[j] = "canceled" /\ work[j] \in {"start", "run"} /\ row[j].kind # "task"
           => [](work[j] \notin {"apply", "settle"}))

\* Every job ends, with the exceptions of NoZombieRow, whatever is canceled,
\* retried or deleted and however often the Core restarts.
JobsSettle ==
    \A j \in Jobs :
        row[j].state \in Active ~>
            \/ row[j].state \notin Active
            \/ work[j] = "late"
            \/ work[j] = "killed" /\ row[j].mod \in Remote

-----------------------------------------------------------------------------
(* What the documentation and the comments say, and the code does not do.  *)

\* A module is worked on by one lifecycle job at a time; a second request is
\* refused because an operation is in progress.
OneOperation ==
    \A j, k \in Jobs :
        work[j] = "run" /\ work[k] = "run" /\ row[j].mod = row[k].mod
        /\ row[j].kind # "task" /\ row[k].kind # "task" => j = k
=============================================================================
