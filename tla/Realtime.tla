------------------------------ MODULE Realtime ------------------------------
(***************************************************************************)
(* What the panel learns without asking: WebSocket tickets, the hub and    *)
(* its clients, the statistics poller and the event bus that carries the   *)
(* life of sites to the audit log and to the dashboard                     *)
(* (internal/core/dashboard, internal/platform/websocket/hub.go,           *)
(* internal/platform/events/bus.go, internal/core/site/subscribers.go,     *)
(* internal/core/audit/service.go).                                        *)
(*                                                                         *)
(* A client is a browser tab: its ticket, its connection, its buffer and   *)
(* the two goroutines that serve it.  A publication takes a copy of the    *)
(* subscriptions under the lock and calls them one by one outside it, so   *)
(* it interleaves with connections, polls, other publications and the      *)
(* shutdown of the application.                                            *)
(***************************************************************************)
EXTENDS Naturals, Sequences, FiniteSets, SequencesExt

CONSTANTS Clients,    \* browser tabs
          Publishers, \* site operations that publish
          Servers,    \* servers the panel may have selected, LocalID among them
          LocalID,
          TicketTTL,  \* websocketTicketTTL, in ticks
          SendCap,    \* capacity of a client's send channel (32)
          Keep,       \* snapshots the dashboard asks for (60)
          None,
          MaxTime, MaxPolls, MaxEvents, MaxFaults

VARIABLES now,
          tickets,    \* the store: ticket -> [server, expires] (a tab asks for one ticket)
          client,     \* tab -> its record
          hub,        \* tabs registered with the hub
          cachedStats,\* number of the last poll, None before the first
          snapshots,  \* stats_snapshots of the polled server, oldest first
          subs,       \* subscriptions of the bus, in order
          pub,        \* publisher -> its record
          audit,      \* audit_log: events recorded
          events, faults

vars == <<now, tickets, client, hub, cachedStats, snapshots, subs, pub, audit, events, faults>>

Subscribers == {"audit", "dashboard"}
NewTab == [conn |-> "none", room |-> None, asked |-> None, send |-> <<>>, got |-> <<>>,
           write |-> "off", read |-> "off", peer |-> TRUE]
NoPublication == [pc |-> "idle", event |-> None, calls |-> <<>>, called |-> <<>>,
                  failed |-> {}, answer |-> None, hubWas |-> {}]

TypeOK ==
    /\ now \in 0..MaxTime /\ hub \subseteq Clients /\ faults \in 0..MaxFaults
    /\ DOMAIN tickets \subseteq Clients
    /\ \A c \in Clients : client[c].conn \in {"none", "refused", "open", "closed"}
                          /\ Len(client[c].send) <= SendCap
    /\ Range(subs) \subseteq Subscribers
    /\ \A p \in Publishers : pub[p].pc \in {"idle", "calling", "done"}

\* registerDomainSubscribers has run: audit first, then the dashboard.
Init ==
    /\ now = 0 /\ tickets = <<>> /\ hub = {}
    /\ client = [c \in Clients |-> NewTab]
    /\ cachedStats = None /\ snapshots = <<>>
    /\ subs = <<"audit", "dashboard">>
    /\ pub = [p \in Publishers |-> NoPublication]
    /\ audit = {} /\ events = 0 /\ faults = 0

---------------------------------------------------------------------------
(* Tickets and connections.                                                *)

Unexpired(t) == t.expires > now

\* ticketStore.Issue: expired tickets are dropped, the new one is stored with
\* the server the request selected.
IssueWebSocketTicket(c, s) ==
    /\ client[c].asked = None
    /\ LET kept == {t \in DOMAIN tickets : Unexpired(tickets[t])} IN
       tickets' = [t \in kept \cup {c} |-> IF t = c THEN [server |-> s, expires |-> now + TicketTTL]
                                           ELSE tickets[t]]
    /\ client' = [client EXCEPT ![c].asked = s]
    /\ UNCHANGED <<now, hub, cachedStats, snapshots, subs, pub, audit, events, faults>>

\* Mutant: the ticket stays in the store.
ConsumeKeeps(t) == [valid |-> t \in DOMAIN tickets /\ Unexpired(tickets[t]), rest |-> tickets]

\* ticketStore.Consume: the ticket is removed whether it is still valid or not.
Consume(t) ==
    [valid |-> t \in DOMAIN tickets /\ Unexpired(tickets[t]),
     rest |-> [u \in DOMAIN tickets \ {t} |-> tickets[u]]]

Room(s) == <<"dashboard", s>>

\* Handler.WebSocket: the ticket is consumed, the connection upgraded and the
\* client registered; its two pumps start.  A tab presents the ticket of any tab.
WebSocket(c, t) ==
    /\ client[c].conn = "none" /\ client[t].asked # None
    /\ tickets' = Consume(t).rest
    /\ IF ~Consume(t).valid
       THEN client' = [client EXCEPT ![c].conn = "refused"] /\ UNCHANGED <<hub, faults>>
       ELSE \/ /\ client' = [client EXCEPT ![c].conn = "open", ![c].room = Room(tickets[t].server),
                                           ![c].write = "on", ![c].read = "on"]
               /\ hub' = hub \cup {c} /\ UNCHANGED faults
            \/ /\ faults < MaxFaults /\ faults' = faults + 1      \* the upgrade fails
               /\ client' = [client EXCEPT ![c].conn = "refused"] /\ UNCHANGED hub
    /\ UNCHANGED <<now, cachedStats, snapshots, subs, pub, audit, events>>

\* gorillaClient.Send: a full buffer drops the message.
Send(r, m) == IF Len(r.send) < SendCap THEN [r EXCEPT !.send = Append(@, m)] ELSE r

\* Mutant: every client of the hub is sent the message.
ToEveryRoom(room, m) == [c \in Clients |-> IF c \in hub THEN Send(client[c], m) ELSE client[c]]

\* Hub.BroadcastToRoom, under the read lock.
BroadcastToRoom(room, m) ==
    [c \in Clients |-> IF c \in hub /\ client[c].room = room THEN Send(client[c], m) ELSE client[c]]

\* writePump: the next message of the buffer, or an end when the connection is
\* closed; both pumps unregister the client and close the connection.
Leave(c, pump) ==
    /\ hub' = hub \ {c}
    /\ client' = [client EXCEPT ![c].conn = "closed",
                                ![c].write = IF pump = "write" THEN "off" ELSE @,
                                ![c].read = IF pump = "read" THEN "off" ELSE @]

WriteMessage(c) ==
    /\ client[c].write = "on" /\ client[c].send # <<>>
    /\ IF client[c].conn = "open" /\ client[c].peer
       THEN /\ client' = [client EXCEPT ![c].send = Tail(@), ![c].got = Append(@, Head(client[c].send))]
            /\ UNCHANGED hub
       ELSE Leave(c, "write")
    /\ UNCHANGED <<now, tickets, cachedStats, snapshots, subs, pub, audit, events, faults>>

\* Mutant: the ping ends with a connection that readPump has closed.
PingWhileOpen(c) ==
    /\ client[c].write = "on" /\ client[c].conn = "open" /\ ~client[c].peer
    /\ Leave(c, "write")
    /\ UNCHANGED <<now, tickets, cachedStats, snapshots, subs, pub, audit, events, faults>>

\* The ping of writePump finds the connection closed or the peer gone.
Ping(c) ==
    /\ client[c].write = "on" /\ (client[c].conn = "closed" \/ ~client[c].peer)
    /\ Leave(c, "write")
    /\ UNCHANGED <<now, tickets, cachedStats, snapshots, subs, pub, audit, events, faults>>

\* readPump: a closed connection, or no pong before the read deadline.
ReadEnds(c) ==
    /\ client[c].read = "on" /\ (client[c].conn = "closed" \/ ~client[c].peer)
    /\ Leave(c, "read")
    /\ UNCHANGED <<now, tickets, cachedStats, snapshots, subs, pub, audit, events, faults>>

\* The tab is closed, or its network is lost.
PeerLeaves(c) ==
    /\ client[c].conn = "open" /\ client[c].peer
    /\ client' = [client EXCEPT ![c].peer = FALSE]
    /\ UNCHANGED <<now, tickets, hub, cachedStats, snapshots, subs, pub, audit, events, faults>>

---------------------------------------------------------------------------
(* The poller.                                                             *)

Stats(n) == [type |-> "stats_update", server |-> LocalID, number |-> n]
Polls == IF cachedStats = None THEN 0 ELSE cachedStats

\* Service.poll: its context selects no server, so it is the local one.  The
\* statistics are cached, a snapshot saved and the room told; no row is a day
\* old yet, so pruneSnapshots deletes none.
Poll ==
    /\ Polls < MaxPolls
    /\ cachedStats' = Polls + 1
    /\ \/ snapshots' = Append(snapshots, Polls + 1) /\ UNCHANGED faults
       \/ faults < MaxFaults /\ faults' = faults + 1 /\ UNCHANGED snapshots  \* saveSnapshot fails
    /\ client' = BroadcastToRoom(Room(LocalID), Stats(Polls + 1))
    /\ UNCHANGED <<now, tickets, hub, subs, pub, audit, events>>

\* The Agent does not answer: nothing is cached, saved or sent.
PollFails ==
    /\ Polls < MaxPolls /\ faults < MaxFaults /\ faults' = faults + 1
    /\ UNCHANGED <<now, tickets, client, hub, cachedStats, snapshots, subs, pub, audit, events>>

\* Mutant: the first rows are taken.
FirstSnapshots(s) ==
    IF s # LocalID THEN <<>> ELSE SubSeq(snapshots, 1, IF Len(snapshots) < Keep THEN Len(snapshots) ELSE Keep)

\* listSnapshots: the latest rows of the server, in ascending order.
listSnapshots(s) ==
    IF s # LocalID THEN <<>>
    ELSE SubSeq(snapshots, IF Len(snapshots) > Keep THEN Len(snapshots) - Keep + 1 ELSE 1, Len(snapshots))

\* Service.Overview: the local statistics come from the cache, a remote
\* server's from its Agent; jobs, modules and audit are read from their tables.
Overview(s) ==
    [stats |-> IF s = LocalID THEN cachedStats ELSE None, snapshots |-> listSnapshots(s)]

---------------------------------------------------------------------------
(* The event bus.                                                          *)

\* Service.publishLifecycle after a site operation: MemoryBus.Publish copies
\* the subscriptions under the read lock.
Publish(p) ==
    /\ pub[p].pc = "idle" /\ events < MaxEvents
    /\ events' = events + 1
    /\ pub' = [pub EXCEPT ![p] = [NoPublication EXCEPT !.pc = "calling", !.event = events + 1,
                                     !.calls = subs, !.hubWas = hub]]
    /\ UNCHANGED <<now, tickets, client, hub, cachedStats, snapshots, subs, audit, faults>>

\* The room the dashboard's subscriber names.
siteRoom == <<"dashboard">>

SiteChanged(e) == [type |-> "site_changed", server |-> LocalID, number |-> e]

\* Mutant: the first failing handler ends the publication.
StopAtFailure(p, ok) == IF ok THEN Tail(pub[p].calls) ELSE <<>>

\* The handlers that are left after one returned.
Remaining(p, ok) == Tail(pub[p].calls)

\* callHandler: one handler, whose error or panic is kept.
CallHandler(p) ==
    /\ pub[p].pc = "calling" /\ pub[p].calls # <<>>
    /\ \E ok \in BOOLEAN :
         /\ ok \/ faults < MaxFaults
         /\ faults' = IF ok THEN faults ELSE faults + 1
         /\ LET h == Head(pub[p].calls) IN
            /\ pub' = [pub EXCEPT ![p].calls = Remaining(p, ok), ![p].called = Append(@, h),
                                  ![p].failed = IF ok THEN @ ELSE @ \cup {h}]
            /\ audit' = IF ok /\ h = "audit" THEN audit \cup {pub[p].event} ELSE audit
            /\ client' = IF ok /\ h = "dashboard"
                         THEN BroadcastToRoom(siteRoom, SiteChanged(pub[p].event)) ELSE client
    /\ UNCHANGED <<now, tickets, hub, cachedStats, snapshots, subs, events>>

\* Publish returns the combined error, which the site service only logs.
Published(p) ==
    /\ pub[p].pc = "calling" /\ pub[p].calls = <<>>
    /\ pub' = [pub EXCEPT ![p].pc = "done", ![p].answer = IF pub[p].failed = {} THEN "ok" ELSE "error"]
    /\ UNCHANGED <<now, tickets, client, hub, cachedStats, snapshots, subs, audit, events, faults>>

\* OnStop of registerDomainSubscribers: the UnsubscribeFn of each in turn.
Unsubscribe ==
    /\ subs # <<>>
    /\ subs' = Tail(subs)
    /\ UNCHANGED <<now, tickets, client, hub, cachedStats, snapshots, pub, audit, events, faults>>

Tick ==
    /\ now < MaxTime /\ now' = now + 1
    /\ UNCHANGED <<tickets, client, hub, cachedStats, snapshots, subs, pub, audit, events, faults>>

Next ==
    \/ \E c \in Clients : \/ \E s \in Servers : IssueWebSocketTicket(c, s)
                          \/ \E t \in Clients : WebSocket(c, t)
                          \/ WriteMessage(c) \/ Ping(c) \/ ReadEnds(c) \/ PeerLeaves(c)
    \/ Poll \/ PollFails \/ Tick
    \/ \E p \in Publishers : Publish(p) \/ CallHandler(p) \/ Published(p)
    \/ Unsubscribe

\* The pumps and a publication run to their end; nobody need poll or publish.
Fairness ==
    /\ \A c \in Clients : WF_vars(WriteMessage(c)) /\ WF_vars(Ping(c)) /\ WF_vars(ReadEnds(c))
    /\ \A p \in Publishers : WF_vars(CallHandler(p)) /\ WF_vars(Published(p))

Spec == Init /\ [][Next]_vars /\ Fairness

---------------------------------------------------------------------------

\* A ticket opens one connection, of the server it was asked for, and a client
\* is sent nothing of another server: two open tabs never share a ticket, and
\* what a tab received is about its own server (Consume, BroadcastToRoom).
TicketIsBound ==
    /\ \A c \in Clients : client[c].room # None =>
         /\ \E t \in Clients : client[c].room = Room(client[t].asked)
         /\ \A m \in Range(client[c].got) \cup Range(client[c].send) : client[c].room = Room(m.server)
    /\ \A s \in Servers : Cardinality({c \in Clients : client[c].room = Room(s)})
                         <= Cardinality({t \in Clients : client[t].asked = s})

\* A tab sees the polls in order and none twice, whatever its buffer dropped,
\* and the sparkline of the dashboard ends with the latest saved snapshot.
PollsInOrder ==
    /\ \A c \in Clients : LET m == client[c].got \o client[c].send IN
         \A i, j \in DOMAIN m : i < j /\ m[i].type = m[j].type => m[i].number < m[j].number
    /\ LET o == Overview(LocalID).snapshots IN
         snapshots # <<>> => o # <<>> /\ Last(o) = Last(snapshots) /\ Len(o) <= Keep

\* A publication calls every handler that was subscribed when it began, once and
\* in order, also after one of them failed or panicked and while subscribers
\* leave; it answers with an error exactly when one failed, and an event whose
\* audit handler worked is in the audit log (Publish, callHandler).
EveryHandlerIsCalled ==
    \A p \in Publishers : pub[p].pc = "done" =>
        /\ Len(pub[p].called) = Cardinality(Range(pub[p].called))
        /\ \A h \in Range(subs) : h \in Range(pub[p].called)
        /\ pub[p].answer = "error" <=> pub[p].failed # {}
        /\ "audit" \in Range(pub[p].called) \ pub[p].failed => pub[p].event \in audit

\* Tabs that are gone have left: they are off the hub and both of their goroutines
\* ended (Ping, ReadEnds, and the deferred Unregister of both pumps).
GoneTabsLeft ==
    \A c \in Clients : client[c].conn # "none" /\ ~client[c].peer =>
        c \notin hub /\ client[c].write = "off" /\ client[c].read = "off"

\* A change of a site is pushed to the dashboards of its server that were open
\* from the publication to its end, as far as their buffers have room.
SiteChangeIsPushed ==
    \A p \in Publishers :
        pub[p].pc = "done" /\ "dashboard" \in Range(pub[p].called) \ pub[p].failed =>
        \A c \in pub[p].hubWas \cap hub :
            client[c].room = Room(LocalID) /\ Len(client[c].send) < SendCap =>
            SiteChanged(pub[p].event) \in Range(client[c].got) \cup Range(client[c].send)
====
