------------------------------ MODULE AgentCron ------------------------------
(***************************************************************************)
(* The Agent's cron manager (internal/agent/cron, internal/agent/server/   *)
(* cron.go, modules/cron): a store of jobs and run history in one file,    *)
(* and the crontab generated from it.  Requests to the Agent take turns    *)
(* through a mutex; a scheduled run is another process of the same program *)
(* with a mutex of its own, and rewrites the store to record its history.  *)
(***************************************************************************)
EXTENDS Naturals, Sequences, SequencesExt

CONSTANTS Requests,      \* requests being handled by the Agent
          Crons,         \* processes started by the cron daemon
          Jobs,          \* job ids
          System,        \* ids discovered in the system's crontabs: protected
          CopyOf,        \* the id a duplicate gets, by id
          Retention,     \* runs the history keeps (500 in the code)
          None,
          MaxOps, MaxFaults    \* bounds

VARIABLES jobs, hist,    \* jobs.json: the job or None by id, and the runs
          crontab,       \* /etc/cron.d/opendeploy: ids of its lines
          mutex,         \* holder of Manager.mu in the Agent
          th,            \* the threads
          invalid,       \* external: jobs whose user or directory is gone
          want,          \* ghost: the jobs as the completed edits made them
          runs,          \* ghost: the runs recorded, oldest first
          raced,         \* ghost: a stale copy of a job or of the store was written back
          apart,         \* ghost: the crontab may differ from the store
          ops, faults

vars == <<jobs, hist, crontab, mutex, th, invalid, want, runs, raced, apart, ops, faults>>

Threads == Requests \cup Crons
Idle    == [op |-> None, job |-> None, pc |-> "idle", todo |-> <<>>]
Job     == [ver : 0..2, on : BOOLEAN, prot : BOOLEAN]
On(js)  == {j \in Jobs : js[j] # None /\ js[j].on}

\* The requests: edits of one job, a run, and an import of several with or without
\* replacing the jobs there are.
Ops == {[op |-> op, job |-> j, todo |-> <<>>] :
            op \in {"create", "update", "delete", "enable", "disable", "duplicate", "run"}, j \in Jobs}
       \cup {[op |-> op, job |-> None, todo |-> SetToSeq({[op |-> "create", job |-> j] : j \in js})] :
            op \in {"import", "replace"}, js \in (SUBSET Jobs) \ {{}}}

\* A request arrives; the cron daemon starts what the crontab lists.
Begin(t, o) ==
    /\ th[t] = Idle /\ ops < MaxOps
    /\ t \in Crons => o.op = "run" /\ o.job \in crontab
    /\ th' = [th EXCEPT ![t] = [op |-> o.op, job |-> o.job, todo |-> o.todo, got |-> None,
                                jobs |-> None, hist |-> None, base |-> None,
                                pc |-> IF o.op \in {"create", "update", "delete"} THEN "load" ELSE "get"]]
    /\ ops' = ops + 1
    /\ UNCHANGED <<jobs, hist, crontab, mutex, invalid, want, runs, raced, apart, faults>>

\* One call is over; an import goes on with the next, unless a create failed.
End(t, ok) ==
    LET o == th[t] IN
    th' = [th EXCEPT ![t] = IF o.todo = <<>> \/ (~ok /\ o.op = "create") THEN Idle
                            ELSE [o EXCEPT !.op = Head(o.todo).op, !.job = Head(o.todo).job,
                                           !.todo = Tail(o.todo), !.got = None, !.pc = "load"]]

-----------------------------------------------------------------------------
(* The calls: each locks the mutex for itself *)

Found(j) == IF jobs[j] # None THEN jobs[j]
            ELSE IF j \in System THEN [ver |-> 0, on |-> TRUE, prot |-> TRUE] ELSE None

\* SetEnabled, Run and the duplicate look the job up first, and go on with the copy.
Get(t) ==
    LET o == th[t] IN
    /\ o.pc = "get" /\ o.job # None /\ (t \in Requests => mutex = None)
    /\ IF \/ Found(o.job) = None
          \/ o.op \in {"enable", "disable"} /\ Found(o.job).prot
          \/ o.op = "duplicate" /\ o.job \notin DOMAIN CopyOf
       THEN End(t, FALSE)
       ELSE th' = [th EXCEPT ![t].pc  = IF o.op = "run" THEN "exec" ELSE "load",
                             ![t].got = Found(o.job),
                             ![t].job = IF o.op = "duplicate" THEN CopyOf[o.job] ELSE o.job]
    /\ UNCHANGED <<jobs, hist, crontab, mutex, invalid, want, runs, raced, apart, ops, faults>>

\* CronImport: with replace, every job there is gets deleted first.
CronImport(t) ==
    LET o == th[t] IN
    /\ o.pc = "get" /\ o.job = None /\ mutex = None
    /\ LET all == (IF o.op = "replace"
                   THEN SetToSeq({[op |-> "delete", job |-> j] : j \in {k \in Jobs : Found(k) # None}})
                   ELSE <<>>) \o o.todo
       IN  th' = [th EXCEPT ![t].op = Head(all).op, ![t].job = Head(all).job,
                            ![t].todo = Tail(all), ![t].pc = "load"]
    /\ UNCHANGED <<jobs, hist, crontab, mutex, invalid, want, runs, raced, apart, ops, faults>>

\* The command itself, outside any lock.
Exec(t) ==
    /\ th[t].pc = "exec"
    /\ th' = [th EXCEPT ![t].pc = "load"]
    /\ UNCHANGED <<jobs, hist, crontab, mutex, invalid, want, runs, raced, apart, ops, faults>>

New    == {"create", "duplicate"}
Change == {"update", "enable", "disable"}

\* Mutant: Update adds a job that is not there.
RefusedUnlessNew(o, js) ==
    \/ o.op \in New /\ Found(o.job) # None
    \/ o.op = "delete" /\ js[o.job] = None
    \/ o.op \in Change \cup {"delete"} /\ (o.job \in System \/ (js[o.job] # None /\ js[o.job].prot))
    \/ o.op # "delete" /\ o.job \in invalid

\* ValidateJob, the search for the id and the protection checks.
Refused(o, js) ==
    \/ o.op \in New /\ Found(o.job) # None
    \/ o.op \in Change \cup {"delete"} /\ (js[o.job] = None \/ o.job \in System \/ js[o.job].prot)
    \/ o.op # "delete" /\ o.job \in invalid

\* The jobs an edit writes.  SetEnabled writes the job as Get found it.
Edited(o, js) ==
    [js EXCEPT ![o.job] =
        CASE o.op = "create"    -> [ver |-> 1, on |-> TRUE, prot |-> FALSE]
          [] o.op = "update"    -> [ver |-> 2, on |-> TRUE, prot |-> FALSE]
          [] o.op = "delete"    -> None
          [] o.op = "duplicate" -> [o.got EXCEPT !.on = FALSE]
          [] OTHER              -> [o.got EXCEPT !.on = (o.op = "enable")]]

\* Load the store and make the edit.
Load(t) ==
    LET o == th[t] IN
    /\ o.pc = "load" /\ o.op # "run" /\ mutex = None
    /\ IF Refused(o, jobs)
       THEN End(t, FALSE) /\ UNCHANGED mutex
       ELSE /\ th' = [th EXCEPT ![t].jobs = Edited(o, jobs), ![t].hist = hist,
                                ![t].base = <<jobs, hist>>, ![t].pc = "crontab"]
            /\ mutex' = t
    /\ UNCHANGED <<jobs, hist, crontab, invalid, want, runs, raced, apart, ops, faults>>

\* Ghost: what was asked for, on a job that is there; of SetEnabled, the switch only.
Asked(o) ==
    IF o.op \in Change /\ want[o.job] = None THEN want
    ELSE IF o.op \in {"enable", "disable"} THEN [want EXCEPT ![o.job].on = (o.op = "enable")]
    ELSE Edited(o, want)

\* Ghost: the copy of the job SetEnabled writes is out of date.
StaleSwitch(o) == o.op \in {"enable", "disable"} /\ jobs[o.job] \notin {None, o.got}

\* commit, first half: the crontab, refused as a whole if an enabled job no longer
\* passes validation.
writeCron(t) ==
    LET o == th[t] IN
    /\ o.pc = "crontab"
    /\ \/ /\ On(o.jobs) \cap invalid = {}
          /\ crontab' = On(o.jobs)
          /\ th' = [th EXCEPT ![t].pc = "state"]
          /\ UNCHANGED <<mutex, faults>>
       \/ /\ On(o.jobs) \cap invalid # {} \/ faults < MaxFaults
          /\ faults' = IF On(o.jobs) \cap invalid # {} THEN faults ELSE faults + 1
          /\ End(t, FALSE) /\ mutex' = None /\ UNCHANGED crontab
    /\ UNCHANGED <<jobs, hist, invalid, want, runs, raced, apart, ops>>

\* commit, second half: the whole store, as it was loaded.
writeState(t) ==
    LET o == th[t] IN
    /\ o.pc = "state"
    /\ jobs' = o.jobs /\ hist' = o.hist
    /\ raced' = (raced \/ o.base # <<jobs, hist>> \/ StaleSwitch(o))
    /\ apart' = FALSE
    /\ want' = Asked(o)
    /\ End(t, TRUE) /\ mutex' = None
    /\ UNCHANGED <<crontab, invalid, runs, ops, faults>>

\* Mutant: the crontab is left as it is.
NotRewritten == crontab

\* writeCronFromDisk
Rewritten == On(jobs)

\* The store could not be written: the crontab is put back, if that works.
WriteStateFails(t) ==
    /\ th[t].pc = "state" /\ faults < MaxFaults
    /\ faults' = faults + 1
    /\ \/ On(jobs) \cap invalid = {} /\ crontab' = Rewritten /\ UNCHANGED apart
       \/ crontab' = crontab /\ faults + 1 < MaxFaults /\ apart' = TRUE
       \/ On(jobs) \cap invalid # {} /\ crontab' = crontab /\ apart' = TRUE
    /\ End(t, FALSE) /\ mutex' = None
    /\ UNCHANGED <<jobs, hist, invalid, want, runs, raced, ops>>

-----------------------------------------------------------------------------
(* appendHistory *)

\* Mutant: the newest runs are cut off.
TrimOldest(h) == SubSeq(h, 1, IF Len(h) > Retention THEN Retention ELSE Len(h))

Trimmed(h) == SubSeq(h, (IF Len(h) > Retention THEN Len(h) - Retention ELSE 0) + 1, Len(h))

LoadHistory(t) ==
    LET o == th[t] IN
    /\ o.pc = "load" /\ o.op = "run"
    /\ t \in Requests => mutex = None
    /\ mutex' = IF t \in Requests THEN t ELSE mutex
    /\ th' = [th EXCEPT ![t].jobs = jobs, ![t].hist = Trimmed(Append(hist, o.job)),
                        ![t].base = <<jobs, hist>>, ![t].pc = "record"]
    /\ UNCHANGED <<jobs, hist, crontab, invalid, want, runs, raced, apart, ops, faults>>

Record(t) ==
    LET o == th[t] IN
    /\ o.pc = "record"
    /\ jobs' = o.jobs /\ hist' = o.hist
    /\ runs' = Append(runs, o.job)
    /\ raced' = (raced \/ o.base # <<jobs, hist>>)
    /\ apart' = (apart \/ o.base # <<jobs, hist>>)
    /\ End(t, TRUE) /\ mutex' = IF mutex = t THEN None ELSE mutex
    /\ UNCHANGED <<crontab, invalid, want, ops, faults>>

\* The store could not be written: the run is not recorded.
RecordFails(t) ==
    /\ th[t].pc = "record" /\ faults < MaxFaults
    /\ faults' = faults + 1
    /\ End(t, FALSE) /\ mutex' = IF mutex = t THEN None ELSE mutex
    /\ UNCHANGED <<jobs, hist, crontab, invalid, want, runs, raced, apart, ops>>

\* The Agent dies; scheduled runs go on.  Between the two files of a commit the
\* crontab is ahead of the store.
Crash ==
    /\ faults < MaxFaults
    /\ \E t \in Requests : th[t] # Idle
    /\ faults' = faults + 1
    /\ apart' = (apart \/ \E t \in Requests : th[t].pc = "state")
    /\ th' = [t \in Threads |-> IF t \in Requests THEN Idle ELSE th[t]]
    /\ mutex' = None
    /\ UNCHANGED <<jobs, hist, crontab, invalid, want, runs, raced, ops>>

\* External: the Unix user or the directory of a job is removed.
Invalidate(j) ==
    /\ j \notin invalid /\ faults < MaxFaults
    /\ faults' = faults + 1
    /\ invalid' = invalid \cup {j}
    /\ UNCHANGED <<jobs, hist, crontab, mutex, th, want, runs, raced, apart, ops>>

-----------------------------------------------------------------------------

Init ==
    /\ jobs = [j \in Jobs |-> None] /\ want = jobs
    /\ crontab = {} /\ hist = <<>> /\ runs = <<>>
    /\ mutex = None /\ th = [t \in Threads |-> Idle]
    /\ invalid = {} /\ raced = FALSE /\ apart = FALSE /\ ops = 0 /\ faults = 0

Step(t) == Get(t) \/ CronImport(t) \/ Exec(t) \/ Load(t) \/ writeCron(t) \/ writeState(t)
           \/ WriteStateFails(t) \/ LoadHistory(t) \/ Record(t) \/ RecordFails(t)

Next ==
    \/ \E t \in Threads : \E o \in Ops : Begin(t, o)
    \/ \E t \in Threads : Step(t)
    \/ \E j \in Jobs : Invalidate(j)
    \/ Crash

Spec == Init /\ [][Next]_vars

-----------------------------------------------------------------------------

LastRuns(h) == IF Len(h) <= Retention THEN h ELSE SubSeq(h, Len(h) - Retention + 1, Len(h))

TypeOK ==
    /\ jobs \in [Jobs -> Job \cup {None}] /\ crontab \subseteq Jobs
    /\ mutex \in Requests \cup {None}
    /\ Len(hist) <= Retention
    /\ \A t \in Threads : th[t].pc \in {"idle", "get", "exec", "load", "crontab", "state", "record"}

\* Whenever no edit holds the mutex, the crontab lists exactly the enabled jobs of
\* the store, after any order of edits, runs and failed writes.  What breaks it is
\* a scheduled run's process writing back a store it loaded before an edit, and a
\* commit cut short between its two files; the next edit puts either right.
CrontabFollowsStore == mutex = None /\ ~apart => crontab = On(jobs)

\* The jobs are what the accepted edits made them and the history holds the latest
\* runs in their order: an edit is not undone by another request's, a deleted job
\* does not come back, runs do not touch jobs.  What takes an edit or a run back is
\* a switch that was looked up before another edit, and a stale store written
\* back by another process.
StoreIsAsEdited == ~raced => jobs = want /\ hist = LastRuns(runs)
=============================================================================
