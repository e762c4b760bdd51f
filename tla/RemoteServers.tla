---------------------------- MODULE RemoteServers ----------------------------
(***************************************************************************)
(* The inventory of remote servers: enrollment tokens, registration, the   *)
(* heartbeat over REST with its task queue, and the monitor that marks     *)
(* silent servers (internal/core/remote), with the Agent's heartbeat       *)
(* client at the other end (internal/agent/remote/client.go).  A heartbeat *)
(* is a request the client may give up on while Core still serves it.      *)
(* Time is a counter of half-minutes, the client's heartbeat period.       *)
(***************************************************************************)
EXTENDS Naturals, FiniteSets

CONSTANTS Servers, Machines,
          Tasks,        \* a set of naturals: created in this order
          Batch,        \* tasks of one heartbeat response (10 in the code)
          TokenTTL, CertTTL, WarnAfter, OffAfter,
          None,
          MaxTokens, MaxTime, MaxFaults    \* bounds

VARIABLES rows,         \* table servers
          tokens,       \* table server_tokens
          certs,        \* table server_certificates, at most one row per server
          tasks,        \* table server_tasks
          agent,        \* the Agents: what they enrolled as, and unreported results
          calls,        \* the heartbeat requests Core is serving
          now,
          ran,          \* ghost: how often each task was executed
          lost,         \* ghost: tasks whose delivery or result was dropped
          again,        \* ghost: tasks whose "running" mark was not written
          faults        \* ghost: faults so far

vars == <<rows, tokens, certs, tasks, agent, calls, now, ran, lost, again, faults>>

TokenIds == 1..MaxTokens
Issued   == {k \in TokenIds : tokens[k] # None}
Fresh(k) == k \notin Issued /\ \A j \in TokenIds : j < k => j \in Issued

-----------------------------------------------------------------------------
(* Enrollment *)

createEnrollment(s) ==
    [server |-> s, exp |-> now + TokenTTL, used |-> FALSE]

\* A new server gets an id that no server had before; a server whose token cannot
\* be saved is deleted again.
Create(s) ==
    /\ rows[s] = None
    /\ \A k \in Issued : tokens[k].server # s
    /\ rows' = [rows EXCEPT ![s] = [status |-> "pending", health |-> "unknown",
                                    hb |-> None, machine |-> None, maint |-> FALSE]]
    /\ \E k \in TokenIds : Fresh(k) /\ tokens' = [tokens EXCEPT ![k] = createEnrollment(s)]
    /\ UNCHANGED <<certs, tasks, agent, calls, now, ran, lost, again, faults>>

\* Mutant: earlier tokens stay valid.
ReplaceKeeps(s, new) == [tokens EXCEPT ![new] = createEnrollment(s)]

\* One transaction: retire the unused tokens of the server, insert a new one.
ReplaceToken(s, new) ==
    [k \in TokenIds |->
        CASE k = new -> createEnrollment(s)
          [] k \in Issued /\ tokens[k].server = s -> [tokens[k] EXCEPT !.used = TRUE]
          [] OTHER -> tokens[k]]

ReissueEnrollment(s) ==
    /\ rows[s] # None /\ rows[s].status = "pending"
    /\ \E k \in TokenIds : Fresh(k) /\ tokens' = ReplaceToken(s, k)
    /\ UNCHANGED <<rows, certs, tasks, agent, calls, now, ran, lost, again, faults>>

\* Register, first transaction: the token is spent before anything else is known.
ConsumeToken(m, k) ==
    /\ agent[m].state = "new" /\ k \in Issued
    /\ ~tokens[k].used /\ tokens[k].exp > now
    /\ rows[tokens[k].server] # None
    /\ tokens' = [tokens EXCEPT ![k].used = TRUE]
    /\ agent' = [agent EXCEPT ![m].state = "enrolling", ![m].server = tokens[k].server]
    /\ UNCHANGED <<rows, certs, tasks, calls, now, ran, lost, again, faults>>

\* Mutant: the row is written although the certificate is refused.
RegisterRow(s) == rows[s] # None

\* The certificate's key is the server's id: there is room for one.
CanRegister(s) == rows[s] # None /\ certs[s] = None

\* Register, second transaction; it is rolled back when the certificate exists.
Register(m) ==
    LET s == agent[m].server IN
    /\ agent[m].state = "enrolling"
    /\ IF CanRegister(s)
       THEN /\ rows' = [rows EXCEPT ![s] = [@ EXCEPT !.status = "online", !.health = "healthy",
                                                     !.hb = now, !.machine = m]]
            /\ certs' = [certs EXCEPT ![s] = IF @ = None THEN [machine |-> m, exp |-> now + CertTTL]
                                             ELSE @]
            /\ agent' = [agent EXCEPT ![m].state = "ready"]
       ELSE /\ agent' = [agent EXCEPT ![m].state = "new", ![m].server = None]
            /\ UNCHANGED <<rows, certs>>
    /\ UNCHANGED <<tokens, tasks, calls, now, ran, lost, again, faults>>

\* issueClientCertificate failed, or Core died in between: the token is gone.
RegisterFails(m) ==
    /\ agent[m].state = "enrolling" /\ faults < MaxFaults
    /\ faults' = faults + 1
    /\ agent' = [agent EXCEPT ![m].state = "new", ![m].server = None]
    /\ UNCHANGED <<rows, tokens, certs, tasks, calls, now, ran, lost, again>>

\* Delete cascades to tokens, certificates and tasks; the response is the same.
Delete(s) ==
    /\ rows[s] # None
    /\ rows' = [rows EXCEPT ![s] = None]
    /\ certs' = [certs EXCEPT ![s] = None]
    /\ tokens' = [k \in TokenIds |->
                    IF k \in Issued /\ tokens[k].server = s THEN [tokens[k] EXCEPT !.used = TRUE]
                    ELSE tokens[k]]
    /\ tasks' = [t \in Tasks |-> IF tasks[t] # None /\ tasks[t].server = s
                                 THEN [tasks[t] EXCEPT !.state = "deleted"] ELSE tasks[t]]
    /\ UNCHANGED <<agent, calls, now, ran, lost, again, faults>>

SetMaintenance(s) ==
    /\ rows[s] # None
    /\ rows' = [rows EXCEPT ![s].maint = ~@]
    /\ UNCHANGED <<tokens, certs, tasks, agent, calls, now, ran, lost, again, faults>>

CreateTask(s) ==
    /\ rows[s] # None
    /\ \E t \in Tasks :
         /\ tasks[t] = None /\ \A u \in Tasks : u < t => tasks[u] # None
         /\ tasks' = [tasks EXCEPT ![t] = [server |-> s, state |-> "pending"]]
    /\ UNCHANGED <<rows, tokens, certs, agent, calls, now, ran, lost, again, faults>>

-----------------------------------------------------------------------------
(* The heartbeat, from the Agent through Core and back *)

Waits(m) == \E c \in calls : c.machine = m /\ c.waited

Request(m) == [machine |-> m, server |-> agent[m].server, pc |-> "save",
               results |-> agent[m].results, picked |-> {}, waited |-> TRUE]

\* Mutant: the results are dropped when they are sent, not when they are accepted.
SendAndForget(m) ==
    /\ agent[m].state = "ready" /\ ~Waits(m)
    /\ Cardinality({c \in calls : c.machine = m}) < 2
    /\ calls' = calls \cup {Request(m)}
    /\ agent' = [agent EXCEPT ![m].results = {}]
    /\ UNCHANGED <<rows, tokens, certs, tasks, now, ran, lost, again, faults>>

\* The client's loop: one request at a time, carrying the unreported results.
Send(m) ==
    /\ agent[m].state = "ready" /\ ~Waits(m)
    /\ Cardinality({c \in calls : c.machine = m}) < 2
    /\ calls' = calls \cup {Request(m)}
    /\ UNCHANGED <<rows, tokens, certs, tasks, agent, now, ran, lost, again, faults>>

Becomes(c, d) == calls' = (calls \ {c}) \cup {d}

VerifyCertificate(c) ==
    certs[c.server] # None /\ certs[c.server].machine = c.machine /\ certs[c.server].exp > now

\* The transaction of repo.Heartbeat, after the certificate check: the row and the
\* results together.  A refused heartbeat ends the request.
Heartbeat(c) ==
    /\ c.pc = "save"
    /\ IF VerifyCertificate(c)
       THEN /\ rows' = [rows EXCEPT ![c.server].status = "online", ![c.server].health = "healthy",
                                    ![c.server].hb = now]
            /\ tasks' = [t \in Tasks |->
                 IF t \in c.results /\ tasks[t].server = c.server /\ tasks[t].state # "deleted"
                 THEN [tasks[t] EXCEPT !.state = "settled"] ELSE tasks[t]]
            /\ Becomes(c, [c EXCEPT !.pc = "select"])
       ELSE calls' = calls \ {c} /\ UNCHANGED <<rows, tasks>>
    /\ UNCHANGED <<tokens, certs, agent, now, ran, lost, again, faults>>

\* The stream of the control plane refreshes the same row when it connects and at
\* each of its heartbeats; it was authenticated when it was opened.
ControlPlaneHeartbeat(m) ==
    /\ agent[m].state = "ready" /\ rows[agent[m].server] # None
    /\ rows' = [rows EXCEPT ![agent[m].server].status = "online",
                            ![agent[m].server].health = "healthy", ![agent[m].server].hb = now]
    /\ UNCHANGED <<tokens, certs, tasks, agent, calls, now, ran, lost, again, faults>>

Oldest(S, n) == {t \in S : Cardinality({u \in S : u < t}) < n}

\* Mutant: running tasks are handed out again.
SelectUnsettled(s) ==
    Oldest({t \in Tasks : tasks[t] # None /\ tasks[t].server = s
                          /\ tasks[t].state \in {"pending", "running"}}, Batch)

SelectPending(s) ==
    Oldest({t \in Tasks : tasks[t] # None /\ tasks[t].server = s /\ tasks[t].state = "pending"}, Batch)

PendingTasks(c) ==
    /\ c.pc = "select"
    /\ Becomes(c, [c EXCEPT !.pc = "mark", !.picked = SelectPending(c.server)])
    /\ UNCHANGED <<rows, tokens, certs, tasks, agent, now, ran, lost, again, faults>>

\* Each task is then marked, whatever happened to it since; the errors of the
\* updates are dropped, and the task is handed out all the same.  They fail when
\* the client went away, which cancels the request's context, or by a fault.
MarkRunning(c) ==
    /\ c.pc = "mark"
    /\ \E failed \in SUBSET c.picked :
         /\ failed # {} /\ c.waited => faults < MaxFaults
         /\ faults' = IF failed # {} /\ c.waited THEN faults + 1 ELSE faults
         /\ tasks' = [t \in Tasks |-> IF t \in c.picked \ failed /\ tasks[t].state # "deleted"
                                      THEN [tasks[t] EXCEPT !.state = "running"] ELSE tasks[t]]
         /\ again' = IF c.waited THEN again \cup failed ELSE again
    /\ Becomes(c, [c EXCEPT !.pc = "reply"])
    /\ UNCHANGED <<rows, tokens, certs, agent, now, ran, lost>>

\* The client got the response: it runs the tasks and keeps their results.
Reply(c) ==
    /\ c.pc = "reply" /\ c.waited
    /\ agent' = [agent EXCEPT ![c.machine].results = c.picked]
    /\ ran' = [t \in Tasks |-> IF t \in c.picked THEN ran[t] + 1 ELSE ran[t]]
    /\ calls' = calls \ {c}
    /\ UNCHANGED <<rows, tokens, certs, tasks, now, lost, again, faults>>

\* The client timed out, or the connection broke: Core goes on serving.
GivesUp(c) ==
    /\ c.waited /\ faults < MaxFaults
    /\ faults' = faults + 1
    /\ Becomes(c, [c EXCEPT !.waited = FALSE])
    /\ lost' = lost \cup c.picked
    /\ UNCHANGED <<rows, tokens, certs, tasks, agent, now, ran, again>>

\* The cancelled context stops the request at its next statement.
Cancelled(c) ==
    /\ c.pc \in {"save", "select"} /\ ~c.waited
    /\ calls' = calls \ {c}
    /\ UNCHANGED <<rows, tokens, certs, tasks, agent, now, ran, lost, again, faults>>

\* The end of a request nobody waits for: what it picked is never run.
Unanswered(c) ==
    /\ c.pc = "reply" /\ ~c.waited
    /\ calls' = calls \ {c}
    /\ lost' = lost \cup c.picked
    /\ UNCHANGED <<rows, tokens, certs, tasks, agent, now, ran, again, faults>>

\* The Agent restarts: the results it kept are only in memory.
Restart(m) ==
    /\ agent[m].state = "ready" /\ faults < MaxFaults
    /\ faults' = faults + 1
    /\ agent' = [agent EXCEPT ![m].results = {}]
    /\ lost' = lost \cup agent[m].results \cup UNION {c.picked : c \in {d \in calls : d.machine = m}}
    /\ calls' = {IF c.machine = m THEN [c EXCEPT !.waited = FALSE] ELSE c : c \in calls}
    /\ UNCHANGED <<rows, tokens, certs, tasks, now, ran, again>>

-----------------------------------------------------------------------------
(* The monitor *)

\* Mutant: a server is late one period too early.
SilentEarly(s, d) == rows[s].hb # None /\ now - rows[s].hb >= d

\* last_heartbeat < now - d
Silent(s, d) == rows[s].hb # None /\ now - rows[s].hb > d

MarkStale ==
    /\ rows' = [s \in Servers |->
         IF rows[s] = None \/ (rows[s] # None /\ rows[s].status = "pending") THEN rows[s]
         ELSE IF Silent(s, OffAfter)
              THEN [rows[s] EXCEPT !.status = "offline", !.health = "critical"]
         ELSE IF Silent(s, WarnAfter)
              THEN [rows[s] EXCEPT !.status = "warning", !.health = "warning"]
         ELSE rows[s]]
    /\ rows' # rows
    /\ UNCHANGED <<tokens, certs, tasks, agent, calls, now, ran, lost, again, faults>>

Tick ==
    /\ now < MaxTime
    /\ now' = now + 1
    /\ UNCHANGED <<rows, tokens, certs, tasks, agent, calls, ran, lost, again, faults>>

-----------------------------------------------------------------------------

Init ==
    /\ rows = [s \in Servers |-> None]
    /\ tokens = [k \in TokenIds |-> None]
    /\ certs = [s \in Servers |-> None]
    /\ tasks = [t \in Tasks |-> None]
    /\ agent = [m \in Machines |-> [state |-> "new", server |-> None, results |-> {}]]
    /\ calls = {} /\ now = 0
    /\ ran = [t \in Tasks |-> 0]
    /\ lost = {} /\ again = {} /\ faults = 0

Serve(c) == Heartbeat(c) \/ PendingTasks(c) \/ MarkRunning(c) \/ Reply(c) \/ Unanswered(c) \/ Cancelled(c)

Next ==
    \/ \E s \in Servers : Create(s) \/ ReissueEnrollment(s) \/ Delete(s) \/ SetMaintenance(s)
                          \/ CreateTask(s)
    \/ \E m \in Machines : Register(m) \/ RegisterFails(m) \/ Send(m) \/ Restart(m)
                           \/ ControlPlaneHeartbeat(m)
                           \/ \E k \in TokenIds : ConsumeToken(m, k)
    \/ \E c \in calls : Serve(c) \/ GivesUp(c)
    \/ MarkStale \/ Tick

\* The client's loop always sets its timer again, and Core serves every request.
Fairness ==
    /\ \A m \in Machines : WF_vars(Send(m))
    /\ \A w \in BOOLEAN : WF_vars(\E c \in calls : c.waited = w /\ Serve(c))

Spec == Init /\ [][Next]_vars /\ Fairness

-----------------------------------------------------------------------------

TypeOK ==
    /\ \A s \in Servers : rows[s] # None =>
         rows[s].status \in {"pending", "online", "warning", "offline"}
    /\ \A t \in Tasks : tasks[t] # None => tasks[t].state \in {"pending", "running", "settled", "deleted"}
    /\ \A c \in calls : c.pc \in {"save", "select", "mark", "reply"}
    /\ faults \in 0..MaxFaults

\* The row of a server describes the machine that holds its certificate, whichever
\* of two machines with two tokens of the same server registers first.
OneIdentity ==
    \A s \in Servers : certs[s] # None => rows[s] # None /\ rows[s].machine = certs[s].machine

\* An enrollment replaced by ReissueEnrollment is void: a server never has two
\* tokens that a machine could register with.
OneLiveToken ==
    \A j, k \in Issued :
        tokens[j].server = tokens[k].server /\ ~tokens[j].used /\ ~tokens[k].used => j = k

\* A task marked running is somewhere: in a response on its way, executed and kept
\* by the Agent, or reported in a request; otherwise a response or an Agent was
\* lost, and then nobody ever finishes the task.
RunningIsSomewhere ==
    \A t \in Tasks : tasks[t] # None /\ tasks[t].state = "running" =>
        \/ t \in lost
        \/ \E c \in calls : t \in c.picked \cup c.results
        \/ \E m \in Machines : t \in agent[m].results

\* An Agent executes a task once, although requests time out and are served late,
\* unless Core could not mark it as running.
RunsOnce == \A t \in Tasks : ran[t] > 1 => t \in again

\* What the inventory calls offline has been silent for OffAfter.
OfflineIsSilent ==
    \A s \in Servers : rows[s] # None /\ rows[s].status = "offline" => now - rows[s].hb > OffAfter

Settled == {t \in Tasks : tasks[t] # None /\ tasks[t].state \in {"settled", "deleted"}}
Working(s) == rows[s] # None /\ certs[s] # None /\ certs[s].exp > now

\* "report their results on the next heartbeat" (REMOTE_AGENTS.md): no task is out
\* with an Agent, but for those of servers whose certificate is gone and those
\* whose response or Agent was lost.
NoneIsOut ==
    \A t \in Tasks : tasks[t] # None /\ tasks[t].state = "running" /\ Working(tasks[t].server) =>
        t \in lost
=============================================================================
