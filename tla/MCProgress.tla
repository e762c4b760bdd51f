---------------------------- MODULE MCProgress -----------------------------
(***************************************************************************)
(* What must eventually happen, in one run: requests of the updater are    *)
(* served, Core starts again, the output of a command ends, results of a   *)
(* remote Agent arrive and tabs leave the dashboard. A behaviour is of one *)
(* component, the subject, and the variables of the others stay None; the  *)
(* fairness is each component's own, of its actions in a behaviour of its  *)
(* own.                                                                    *)
(***************************************************************************)
EXTENDS QueuePart, StartupPart, Naturals, Sequences, FiniteSets, TLC

VARIABLES cap, proc, failed, written, pipe, waited, reader, buffer, held, emitted, ch, closed, handler, hand,
          wire, client, chand, out, consumer, got, deadline, callDone, rows, tokens,
          certs, tasks, agent, calls, ran, again, faults, tickets, hub, cachedStats,
          snapshots, subs, pub, audit, events

vars == <<subject, Kind, slot, armed, worker, call, since, log, now, served, late,
          lost, meta, legacy, applied, exists, admin, files, left, gen, clients, pc,
          at, start, backups, reran, torn, hurt, crashes, cap, proc, failed,
          written, pipe, waited, reader, buffer, held, emitted, ch, closed, handler,
          hand, wire, client, chand, out, consumer, got, deadline, callDone, rows,
          tokens, certs, tasks, agent, calls, ran, again, faults, tickets, hub,
          cachedStats, snapshots, subs, pub, audit, events>>

\* Three calls of the updater: one guard waits for its backup while another call
\* asks for a backup with the same reason, or for a rollback, and a third for more.
ThreeCalls == {"a", "b", "c"}
GuardMixes ==
    {[c \in ThreeCalls |-> CASE c = "a" -> "guard" [] c = "b" -> "backup" [] OTHER -> "apply"],
     [c \in ThreeCalls |-> CASE c = "a" -> "guard" [] c = "b" -> "rollback" [] OTHER -> "restore"]}
SharedReason == [c \in ThreeCalls |-> IF c = "c" THEN "x" ELSE "r"]

Machines == {"m1"}
Tasks == {1}
Clients == {"c1", "c2"}

L == INSTANCE CommandStream WITH Lines <- 2, Ragged <- {"err"}, Limit <- 1,
              PipeCap <- 1, Caps <- {0}, WireCap <- 1, OutCap <- 1
R == INSTANCE RemoteServers WITH Servers <- {"s1"}, Machines <- Machines,
              Tasks <- Tasks, Batch <- 1, TokenTTL <- 1, CertTTL <- 2,
              WarnAfter <- 0, OffAfter <- 1, MaxTokens <- 1, MaxTime <- 2,
              MaxFaults <- 1
D == INSTANCE Realtime WITH Clients <- Clients, Publishers <- {"p"},
              Servers <- {"local", "s1"}, LocalID <- "local", TicketTTL <- 1,
              SendCap <- 1, Keep <- 1, MaxTime <- 1, MaxPolls <- 2, MaxEvents <- 0,
              MaxFaults <- 0

queueRest == <<meta, legacy, applied, exists, admin, files, left, gen, clients, pc,
               at, start, backups, reran, torn, hurt, crashes, cap, proc, failed,
               written, pipe, waited, reader, buffer, held, emitted, ch, closed,
               handler, hand, wire, client, chand, out, consumer, got, deadline,
               callDone, rows, tokens, certs, tasks, agent, calls, ran, again,
               faults, tickets, hub, cachedStats, snapshots, subs, pub, audit,
               events>>
startupRest == <<Kind, slot, armed, worker, call, since, log, now, served, late,
                 cap, proc, failed, written, pipe, waited, reader, buffer, held,
                 emitted, ch, closed, handler, hand, wire, client, chand, out,
                 consumer, got, deadline, callDone, rows, tokens, certs, tasks,
                 agent, calls, ran, again, faults, tickets, hub, cachedStats,
                 snapshots, subs, pub, audit, events>>
streamRest == <<Kind, slot, armed, worker, call, since, log, now, served, late,
                lost, meta, legacy, applied, exists, admin, files, left, gen,
                clients, pc, at, start, backups, reran, torn, hurt, crashes, rows,
                tokens, certs, tasks, agent, calls, ran, again, faults, tickets,
                hub, cachedStats, snapshots, subs, pub, audit, events>>
remoteRest == <<Kind, slot, armed, worker, call, since, log, served, late, meta,
                legacy, applied, exists, admin, files, left, gen, clients, pc, at,
                start, backups, reran, torn, hurt, crashes, cap, proc, failed,
                written, pipe, waited, reader, buffer, held, emitted, ch, closed,
                handler, hand, wire, client, chand, out, consumer, got, deadline,
                callDone, tickets, hub, cachedStats, snapshots, subs, pub, audit,
                events>>
realtimeRest == <<Kind, slot, armed, worker, call, since, log, served, late, lost,
                  meta, legacy, applied, exists, admin, files, left, gen, clients,
                  pc, at, start, backups, reran, torn, hurt, crashes, cap, proc,
                  failed, written, pipe, waited, reader, buffer, held, emitted, ch,
                  closed, handler, hand, wire, chand, out, consumer, got, deadline,
                  callDone, rows, tokens, certs, tasks, agent, calls, ran, again>>

Init ==
    \/ QueueInit /\ meta = None /\ legacy = None /\
       applied = None /\ exists = None /\ admin = None /\ files = None /\
       left = None /\ gen = None /\ clients = None /\ pc = None /\ at = None /\
       start = None /\ backups = None /\ reran = None /\ torn = None /\
       hurt = None /\ crashes = None /\ cap = None /\ proc = None /\
       failed = None /\ written = None /\ pipe = None /\ waited = None /\
       reader = None /\ buffer = None /\ held = None /\ emitted = None /\
       ch = None /\ closed = None /\ handler = None /\ hand = None /\ wire = None /\
       client = None /\ chand = None /\ out = None /\ consumer = None /\
       got = None /\ deadline = None /\ callDone = None /\ rows = None /\
       tokens = None /\ certs = None /\ tasks = None /\ agent = None /\
       calls = None /\ ran = None /\ again = None /\ faults = None /\
       tickets = None /\ hub = None /\ cachedStats = None /\ snapshots = None /\
       subs = None /\ pub = None /\ audit = None /\ events = None
    \/ StartupInit /\ Kind = None /\ slot = None /\
       armed = None /\ worker = None /\ call = None /\ since = None /\ log = None /\
       now = None /\ served = None /\ late = None /\ cap = None /\ proc = None /\
       failed = None /\ written = None /\ pipe = None /\ waited = None /\
       reader = None /\ buffer = None /\ held = None /\ emitted = None /\
       ch = None /\ closed = None /\ handler = None /\ hand = None /\ wire = None /\
       client = None /\ chand = None /\ out = None /\ consumer = None /\
       got = None /\ deadline = None /\ callDone = None /\ rows = None /\
       tokens = None /\ certs = None /\ tasks = None /\ agent = None /\
       calls = None /\ ran = None /\ again = None /\ faults = None /\
       tickets = None /\ hub = None /\ cachedStats = None /\ snapshots = None /\
       subs = None /\ pub = None /\ audit = None /\ events = None
    \/ subject = "stream" /\ L!Init /\ Kind = None /\ slot = None /\ armed = None /\
       worker = None /\ call = None /\ since = None /\ log = None /\ now = None /\
       served = None /\ late = None /\ lost = None /\ meta = None /\
       legacy = None /\ applied = None /\ exists = None /\ admin = None /\
       files = None /\ left = None /\ gen = None /\ clients = None /\ pc = None /\
       at = None /\ start = None /\ backups = None /\ reran = None /\ torn = None /\
       hurt = None /\ crashes = None /\ rows = None /\ tokens = None /\
       certs = None /\ tasks = None /\ agent = None /\ calls = None /\ ran = None /\
       again = None /\ faults = None /\ tickets = None /\ hub = None /\
       cachedStats = None /\ snapshots = None /\ subs = None /\ pub = None /\
       audit = None /\ events = None
    \/ subject = "remote" /\ R!Init /\ Kind = None /\ slot = None /\ armed = None /\
       worker = None /\ call = None /\ since = None /\ log = None /\
       served = None /\ late = None /\ meta = None /\ legacy = None /\
       applied = None /\ exists = None /\ admin = None /\ files = None /\
       left = None /\ gen = None /\ clients = None /\ pc = None /\ at = None /\
       start = None /\ backups = None /\ reran = None /\ torn = None /\
       hurt = None /\ crashes = None /\ cap = None /\ proc = None /\
       failed = None /\ written = None /\ pipe = None /\ waited = None /\
       reader = None /\ buffer = None /\ held = None /\ emitted = None /\
       ch = None /\ closed = None /\ handler = None /\ hand = None /\ wire = None /\
       client = None /\ chand = None /\ out = None /\ consumer = None /\
       got = None /\ deadline = None /\ callDone = None /\ tickets = None /\
       hub = None /\ cachedStats = None /\ snapshots = None /\ subs = None /\
       pub = None /\ audit = None /\ events = None
    \/ subject = "realtime" /\ D!Init /\ Kind = None /\ slot = None /\
       armed = None /\ worker = None /\ call = None /\ since = None /\ log = None /\
       served = None /\ late = None /\ lost = None /\ meta = None /\
       legacy = None /\ applied = None /\ exists = None /\ admin = None /\
       files = None /\ left = None /\ gen = None /\ clients = None /\ pc = None /\
       at = None /\ start = None /\ backups = None /\ reran = None /\ torn = None /\
       hurt = None /\ crashes = None /\ cap = None /\ proc = None /\
       failed = None /\ written = None /\ pipe = None /\ waited = None /\
       reader = None /\ buffer = None /\ held = None /\ emitted = None /\
       ch = None /\ closed = None /\ handler = None /\ hand = None /\ wire = None /\
       chand = None /\ out = None /\ consumer = None /\ got = None /\
       deadline = None /\ callDone = None /\ rows = None /\ tokens = None /\
       certs = None /\ tasks = None /\ agent = None /\ calls = None /\ ran = None /\
       again = None

Next ==
    /\ subject' = subject
    /\ \/ QueueNext /\ UNCHANGED queueRest
       \/ StartupNext /\ UNCHANGED startupRest
       \/ subject = "stream" /\ L!Next /\ UNCHANGED streamRest
       \/ subject = "remote" /\ R!Next /\ UNCHANGED remoteRest
       \/ subject = "realtime" /\ D!Next /\ UNCHANGED realtimeRest

queueVars == Q!vars
startupVars == S!vars
streamVars == L!vars
remoteVars == R!vars
realtimeVars == D!vars

Queue(A) == subject = "queue" /\ A
Startup(A) == subject = "startup" /\ A
Stream(A) == subject = "stream" /\ A
Remote(A) == subject = "remote" /\ A
Dashboard(A) == subject = "realtime" /\ A

\* The Fairness of each component, where it is justified.  It is of the component's
\* own variables, since the others do not change in a behaviour of its own.
Fairness ==
    /\ WF_queueVars(Queue(Q!WorkerStart)) /\ WF_queueVars(Queue(Q!Serve))
    /\ WF_queueVars(Queue(Q!WorkerEnd))
    /\ \A c \in Calls : /\ WF_queueVars(Queue(Q!ReadSlot(c))) /\ WF_queueVars(Queue(Q!WriteSlot(c)))
                        /\ WF_queueVars(Queue(Q!WaitExpires(c) \/ Q!Poll(c)))
    /\ WF_startupVars(Startup(S!Advance))
    /\ \A p \in {"out", "err"} : WF_streamVars(Stream(L!ReaderStep(p)))
    /\ WF_streamVars(Stream(L!Kill)) /\ WF_streamVars(Stream(L!Wait))
    /\ WF_streamVars(Stream(L!CloseChannel))
    /\ WF_streamVars(Stream(L!HandlerStep)) /\ WF_streamVars(Stream(L!ClientStep))
    /\ WF_streamVars(Stream(L!Consume)) /\ WF_streamVars(Stream(L!Deadline))
    /\ \A m \in Machines : WF_remoteVars(Remote(R!Send(m)))
    /\ \A w \in BOOLEAN : WF_remoteVars(Remote(\E c \in calls : c.waited = w /\ R!Serve(c)))
    /\ \A c \in Clients : /\ WF_realtimeVars(Dashboard(D!WriteMessage(c)))
                          /\ WF_realtimeVars(Dashboard(D!Ping(c)))
                          /\ WF_realtimeVars(Dashboard(D!ReadEnds(c)))

Spec == Init /\ [][Next]_vars /\ Fairness

---------------------------------------------------------------------------

\* Again and again nothing of the updater is outstanding: what was accepted is
\* served, a guard that waits gets its answer and the request file becomes free,
\* unless a request was lost to an overwrite or a crash, as UpdateQueue says
\* (writeRequest and the wait for a backup in core/updater/service.go, the
\* request processing of cmd/cli/main.go).
RequestsAreServed == []<>(subject = "queue" => Q!Drained)

\* A start ends: Core serves again after its crashes, unless one of them left a
\* temporary certificate file or a half-recorded migration behind (core/app/fx.go).
ServesAgain == []<>(subject = "startup" => S!Started)

\* The lines of a command arrive in order and none is repeated; a dashboard sees
\* the polls in order and none twice, with tickets that expire (Stream of the
\* Agent's shell, its handler and client; core/dashboard and platform/websocket).
ViewsAreInOrder ==
    /\ subject = "stream" => L!TypeOK /\ L!ArrivesInOrder
    /\ subject = "realtime" => D!TypeOK /\ D!TicketIsBound /\ D!PollsInOrder

\* What another process left open ends: the stream of a command whose process hangs
\* or whose caller left, the tab of the dashboard that is gone, with both of its
\* goroutines, and a task that was handed to a remote Agent, whose result reaches
\* Core unless a response or the Agent was lost or its server does not work
\* (Stream, ReadPump and WritePump, the Agent's heartbeat loop).
OpenEndsAreClosed ==
    /\ []<>(subject = "stream" => L!Ended)
    /\ []<>(subject = "realtime" => D!GoneTabsLeft)
    /\ []<>(subject = "remote" => R!NoneIsOut)
=============================================================================
