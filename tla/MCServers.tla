----------------------------- MODULE MCServers -----------------------------
(***************************************************************************)
(* The parts of Core that a browser or a remote machine talks to, together *)
(* in one run: remote servers and their tasks, accounts and refresh        *)
(* sessions, the dashboard's sockets, tickets and events, and the routing  *)
(* of a request to the server it selects. A behaviour is of one of them,   *)
(* the subject, and the variables of the others stay None.                 *)
(***************************************************************************)
EXTENDS RemotePart, AuthPart, TLC

CONSTANTS a, b, u1, u2    \* machines, clients or requests, and accounts

VARIABLES tickets, client, hub, cachedStats, snapshots, subs, pub, audit, events,
          req, session, wire, opened

vars == <<subject, rows, tokens, certs, tasks, agent, calls, now, ran, lost, again,
          faults, users, sessions, proc, access, want, spent, mixed, stale, pwds,
          ops, tickets, client, hub, cachedStats, snapshots, subs, pub, audit,
          events, req, session, wire, opened>>

\* The Agents' releases: one that advertises every capability, and an older one.
Releases == {{"dashboard", "processes", "services", "files", "firewall", "cron", "packages",
              "nginx_sites", "site_runtime", "certificates"},
             {"dashboard", "services", "firewall"}}

Swap == Permutations({a, b}) \cup Permutations({u1, u2})

D == INSTANCE Realtime WITH Clients <- {a, b}, Publishers <- {"p"},
              Servers <- {"local", "s1"}, LocalID <- "local", TicketTTL <- 1,
              SendCap <- 1, Keep <- 1, MaxTime <- 0, MaxPolls <- 1, MaxEvents <- 1
C == INSTANCE CapabilityRouting WITH Requests <- {1}, Servers <- {"s1", "s2"},
              Releases <- Releases, MaxSessions <- 2

remoteRest == <<users, sessions, proc, access, want, spent, mixed, stale, pwds, ops,
                tickets, client, hub, cachedStats, snapshots, subs, pub, audit,
                events, req, session, wire, opened>>
authRest == <<rows, tokens, certs, tasks, agent, calls, now, ran, lost, again,
              tickets, client, hub, cachedStats, snapshots, subs, pub, audit,
              events, req, session, wire, opened>>
realtimeRest == <<rows, tokens, certs, tasks, agent, calls, ran, lost, again, users,
                  sessions, proc, access, want, spent, mixed, stale, pwds, ops, req,
                  session, wire, opened>>
routingRest == <<rows, tokens, certs, tasks, agent, calls, now, lost, again, faults,
                 users, sessions, proc, access, want, spent, mixed, stale, pwds,
                 ops, tickets, client, hub, cachedStats, snapshots, subs, pub,
                 audit, events>>

Init ==
    \/ RemoteInit /\ users = None /\ sessions = None /\
       proc = None /\ access = None /\ want = None /\ spent = None /\
       mixed = None /\ stale = None /\ pwds = None /\ ops = None /\
       tickets = None /\ client = None /\ hub = None /\ cachedStats = None /\
       snapshots = None /\ subs = None /\ pub = None /\ audit = None /\
       events = None /\ req = None /\ session = None /\ wire = None /\ opened = None
    \/ AuthInit /\ rows = None /\ tokens = None /\ certs = None /\
       tasks = None /\ agent = None /\ calls = None /\ now = None /\ ran = None /\
       lost = None /\ again = None /\ tickets = None /\ client = None /\
       hub = None /\ cachedStats = None /\ snapshots = None /\ subs = None /\
       pub = None /\ audit = None /\ events = None /\ req = None /\
       session = None /\ wire = None /\ opened = None
    \/ subject = "realtime" /\ D!Init /\ rows = None /\ tokens = None /\
       certs = None /\ tasks = None /\ agent = None /\ calls = None /\ ran = None /\
       lost = None /\ again = None /\ users = None /\ sessions = None /\
       proc = None /\ access = None /\ want = None /\ spent = None /\
       mixed = None /\ stale = None /\ pwds = None /\ ops = None /\ req = None /\
       session = None /\ wire = None /\ opened = None
    \/ subject = "routing" /\ C!Init /\ rows = None /\ tokens = None /\
       certs = None /\ tasks = None /\ agent = None /\ calls = None /\ now = None /\
       lost = None /\ again = None /\ faults = None /\ users = None /\
       sessions = None /\ proc = None /\ access = None /\ want = None /\
       spent = None /\ mixed = None /\ stale = None /\ pwds = None /\ ops = None /\
       tickets = None /\ client = None /\ hub = None /\ cachedStats = None /\
       snapshots = None /\ subs = None /\ pub = None /\ audit = None /\
       events = None

Next ==
    \/ RemoteNext /\ UNCHANGED remoteRest
    \/ AuthNext /\ UNCHANGED authRest
    \/ subject = "realtime" /\ D!Next /\ UNCHANGED <<subject, realtimeRest>>
    \/ subject = "routing" /\ C!Next /\ UNCHANGED <<subject, routingRest>>

Spec == Init /\ [][Next]_vars

---------------------------------------------------------------------------

\* A ticket opens one socket, in the room of its server, that receives nothing of
\* another room, and a publication calls every handler once and in order although
\* one fails or a subscriber leaves (core/dashboard, platform/events).
DashboardIsSound ==
    subject = "realtime" => D!TypeOK /\ D!TicketIsBound /\ D!EveryHandlerIsCalled

\* A request runs on the server it selected and on no other, also when sessions of
\* the servers open and close between its selection and its call (the middleware of
\* core/servercontext, core/capability/client.go).
RunsWhereSelected == subject = "routing" => C!RunsWhereSelected

\* The call a remote Agent makes is the one the local Agent would have made, and
\* the answer says what happened, except where CapabilityRouting says that they
\* diverge (capability/client.go, the dispatcher and the Agent's command server).
SameWhereverItRuns == subject = "routing" => C!TypeOK /\ C!SameCall /\ C!AnswerIsTrue
=============================================================================
