---------------------------- MODULE ControlPlane ----------------------------
(***************************************************************************)
(* The bidirectional stream between the Core and its remote Agents.        *)
(*                                                                         *)
(* Core side: internal/core/controlplane/manager.go (the session map,      *)
(* Dispatch, Subscribe, resolve, resolveChunk, close) and server.go (the   *)
(* Connect handler: handshake, sender goroutine, receive loop, watchdog).  *)
(* Agent side: internal/agent/remote/stream.go.  Deleting a server is      *)
(* internal/core/remote/handler.go.                                        *)
(*                                                                         *)
(* A step is what happens between two points where another goroutine can   *)
(* run: a critical section of Manager.mu or session.mu, one channel        *)
(* operation, one case of a select.  A select with several ready cases is  *)
(* a choice.  Payloads are left out; commands and subscriptions are known  *)
(* by their ids.  lastSeen is left out: only the watchdog reads the time,  *)
(* and it may fire at any moment here.                                     *)
(***************************************************************************)
EXTENDS Integers, Sequences, FiniteSets

CONSTANTS
    Servers,        \* server ids
    Sessions,       \* one per invocation of Connect, numbered as the agents open them
    ServerOf,       \* the server id in the session's hello
    Capable,        \* sessions whose hello advertised the capability the calls need
    Calls,          \* invocations of Dispatch; the command id is the call
    Subs,           \* invocations of Subscribe; the stream id is the subscription
    None,           \* the nil session
    SendCap,        \* session.send, 64 in the code
    ChunkCap,       \* a subscription's chunks channel, 64 in the code
    OutCap,         \* a subscription's output channel, 64 in the code
    UpCap,          \* agent's outbound channel and the transport towards the Core
    DownCap,        \* flow-control window of the transport towards the agent
    MaxChunks       \* bound: data chunks one subscription emits

ASSUME SessionAssumption ==
    /\ ServerOf \in [Sessions -> Servers]
    /\ Capable \subseteq Sessions
    /\ Sessions \subseteq Nat
    /\ None \notin Sessions

ASSUME CapAssumption ==
    /\ {SendCap, ChunkCap, OutCap, UpCap, DownCap} \subseteq Nat \ {0}
    /\ MaxChunks \in Nat

VARIABLES
    sessions,   \* Manager.sessions
    done,       \* session.done is closed
    pending,    \* session.pending: calls with a registered waiter
    streams,    \* session.streams: subscriptions with a registered channel
    send,       \* session.send
    conn,       \* where the Connect handler of the session is
    held,       \* the message its receive loop is resolving
    sender,     \* its sender goroutine
    alive,      \* the agent still holds its end of the stream
    up, down,   \* messages in flight to the Core, to the agent
    del,        \* where the Delete handler of a server is
    closing,    \* sessions Disconnect took out of the map and has not closed yet
    callPc, callSess, waiter, outcome,
    ctxDone,    \* calls and subscriptions whose context has ended
    subPc, subSess, chunks, pushing, output, received,
    agentCmd, agentSub, emitted

mgrVars   == <<sessions, done, pending, streams>>
connVars  == <<conn, held, sender>>
delVars   == <<del, closing>>
callVars  == <<callPc, callSess, outcome>>
subVars   == <<subPc, subSess, chunks, pushing, output, received>>
userVars  == <<callVars, waiter, ctxDone, subVars>>
netVars   == <<alive, up, down>>
workVars  == <<agentCmd, agentSub, emitted>>
agentVars == <<netVars, workVars>>
queueVars == <<chunks, pushing, output, received>>
notSub    == <<connVars, delVars, callVars, waiter, ctxDone, agentVars>>
notCall   == <<connVars, delVars, ctxDone, subVars, agentVars>>
vars == <<mgrVars, send, connVars, delVars, userVars, agentVars>>

-----------------------------------------------------------------------------
(* Messages.                                                               *)

CoreMessage == [kind : {"command"}, id : Calls]
                 \cup [kind : {"subscribe", "cancel"}, id : Subs]

CommandResult == [kind : {"result"}, id : Calls, ok : BOOLEAN]
StreamChunk   == [kind : {"chunk"}, id : Subs, seq : Nat, eof : BOOLEAN]
AgentMessage  == CommandResult \cup StreamChunk

NoMessage == [kind |-> "none"]

Command(c)   == [kind |-> "command", id |-> c]
Subscribe(u) == [kind |-> "subscribe", id |-> u]
Cancel(u)    == [kind |-> "cancel", id |-> u]
Result(c, b) == [kind |-> "result", id |-> c, ok |-> b]
Chunk(u, n)  == [kind |-> "chunk", id |-> u, seq |-> n, eof |-> FALSE]
Eof(u, n)    == [kind |-> "chunk", id |-> u, seq |-> n, eof |-> TRUE]

Init ==
    /\ sessions = [v \in Servers |-> None]
    /\ done = [s \in Sessions |-> FALSE]
    /\ pending = [s \in Sessions |-> {}]
    /\ streams = [s \in Sessions |-> {}]
    /\ send = [s \in Sessions |-> <<>>]
    /\ conn = [s \in Sessions |-> "none"]
    /\ held = [s \in Sessions |-> NoMessage]
    /\ sender = [s \in Sessions |-> "off"]
    /\ alive = [s \in Sessions |-> FALSE]
    /\ up = [s \in Sessions |-> <<>>]
    /\ down = [s \in Sessions |-> <<>>]
    /\ del = [v \in Servers |-> "no"]
    /\ closing = {}
    /\ callPc = [c \in Calls |-> "idle"]
    /\ callSess = [c \in Calls |-> None]
    /\ waiter = [c \in Calls |-> "empty"]
    /\ outcome = [c \in Calls |-> "none"]
    /\ ctxDone = {}
    /\ subPc = [u \in Subs |-> "idle"]
    /\ subSess = [u \in Subs |-> None]
    /\ chunks = [u \in Subs |-> <<>>]
    /\ pushing = [u \in Subs |-> 0]
    /\ output = [u \in Subs |-> <<>>]
    /\ received = [u \in Subs |-> 0]
    /\ agentCmd = [c \in Calls |-> "none"]
    /\ agentSub = [u \in Subs |-> "none"]
    /\ emitted = [u \in Subs |-> 0]

-----------------------------------------------------------------------------
(* session.close: the first close fails every pending call and forgets     *)
(* the streams; a later one returns early.  close(None) changes nothing.   *)

FirstClose(s, t) == t = s /\ ~done[t]

close(s) ==
    /\ done' = [t \in Sessions |-> done[t] \/ t = s]
    /\ pending' = [t \in Sessions |-> IF FirstClose(s, t) THEN {} ELSE pending[t]]
    /\ streams' = [t \in Sessions |-> IF FirstClose(s, t) THEN {} ELSE streams[t]]
    /\ waiter' = [c \in Calls |->
                    IF waiter[c] = "empty"
                       /\ \E t \in Sessions : FirstClose(s, t) /\ c \in pending[t]
                    THEN "closed" ELSE waiter[c]]

-----------------------------------------------------------------------------
(* The Connect handler.                                                    *)

ConnStep(s, from, to) == conn[s] = from /\ conn' = [conn EXCEPT ![s] = to]

\* The agent dials.  StreamClient.Run holds one connection at a time, so its
\* earlier streams are gone on its side; the Core may not have noticed yet.
Dial(s) ==
    /\ ConnStep(s, "none", "hello")
    /\ \A t \in Sessions : ServerOf[t] = ServerOf[s] =>
         ~alive[t] /\ (t < s => conn[t] # "none")
    /\ alive' = [alive EXCEPT ![s] = TRUE]
    /\ UNCHANGED <<mgrVars, send, held, sender, delVars, userVars, up, down, workVars>>

\* The hello arrived and VerifyCertificate found the server's certificate,
\* which the deletion of the server removes.
Verify(s) ==
    /\ ConnStep(s, "hello", "verified")
    /\ del[ServerOf[s]] = "no"
    /\ UNCHANGED <<mgrVars, send, held, sender, delVars, userVars, agentVars>>

\* No hello in time, a broken stream, a rejected identity, or a protocol or
\* API version that register refuses.
Refuse(s) ==
    /\ ConnStep(s, "hello", "ended") \/ ConnStep(s, "verified", "ended")
    /\ UNCHANGED <<mgrVars, send, held, sender, delVars, userVars, agentVars>>

\* Manager.register closes the previous session of the server and installs
\* the new one in one critical section of Manager.mu.
register(s) ==
    /\ ConnStep(s, "verified", "registered")
    /\ close(sessions[ServerOf[s]])
    /\ sessions' = [sessions EXCEPT ![ServerOf[s]] = s]
    /\ UNCHANGED <<send, held, sender, delVars, callVars, ctxDone, subVars, agentVars>>

\* ControlPlaneConnected and the Welcome succeeded.  The UPDATE behind
\* ControlPlaneConnected reports no error when the server row is gone.
StartLoop(s) ==
    /\ ConnStep(s, "registered", "loop")
    /\ sender' = [sender EXCEPT ![s] = "run"]
    /\ UNCHANGED <<mgrVars, send, held, delVars, userVars, agentVars>>

\* The receive loop takes a result or a chunk; resolve and resolveChunk look
\* its addressee up under session.mu and drop a message nobody waits for.
Receive(s) ==
    /\ conn[s] = "loop"
    /\ up[s] # <<>>
    /\ up' = [up EXCEPT ![s] = Tail(@)]
    /\ LET m == Head(up[s]) IN
         IF m.id \in (IF m.kind = "result" THEN pending[s] ELSE streams[s])
         THEN /\ held' = [held EXCEPT ![s] = m]
              /\ conn' = [conn EXCEPT ![s] = IF m.kind = "result" THEN "resolve" ELSE "chunk"]
         ELSE UNCHANGED <<conn, held>>
    /\ UNCHANGED <<mgrVars, send, sender, delVars, userVars, alive, down, workVars>>

\* Mutant: a result goes to whichever call waits.
WaiterAny(s) == CHOOSE c \in pending[s] \cup {held[s].id} : TRUE

WaiterOf(s) == held[s].id

\* resolve then offers the result without blocking: a waiter that already
\* holds an outcome keeps it.
resolve(s) ==
    /\ ConnStep(s, "resolve", "loop")
    /\ waiter' = [waiter EXCEPT ![WaiterOf(s)] =
                    IF @ # "empty" THEN @ ELSE IF held[s].ok THEN "ok" ELSE "error"]
    /\ held' = [held EXCEPT ![s] = NoMessage]
    /\ UNCHANGED <<mgrVars, send, sender, delVars, callVars, ctxDone, subVars,
                   agentVars>>

\* resolveChunk then blocks until the channel has room ...
resolveChunk(s) ==
    /\ ConnStep(s, "chunk", "loop")
    /\ Len(chunks[held[s].id]) < ChunkCap
    /\ chunks' = [chunks EXCEPT ![held[s].id] = Append(@, held[s])]
    /\ held' = [held EXCEPT ![s] = NoMessage]
    /\ UNCHANGED <<mgrVars, send, sender, delVars, callVars, waiter, ctxDone, subPc,
                   subSess, pushing, output, received, agentVars>>

\* Mutants: the select has no done case; it has a default case.
GiveUpNever(s) == FALSE
GiveUpAtOnce(s) == TRUE

GiveUp(s) == done[s]

\* ... or the session is closed.
DropChunk(s) ==
    /\ ConnStep(s, "chunk", "loop")
    /\ GiveUp(s)
    /\ held' = [held EXCEPT ![s] = NoMessage]
    /\ UNCHANGED <<mgrVars, send, sender, delVars, userVars, agentVars>>

\* Mutant: heartbeats of a deleted server are accepted.
RowMissingIgnored(s) == FALSE

RowMissing(s) == del[ServerOf[s]] # "no"

\* A heartbeat or event of a deleted server: the INSERT breaks the foreign key
\* and the handler returns.  For a server that exists, heartbeats, events, task
\* progress and pongs change nothing here.
Heartbeat(s) ==
    /\ ConnStep(s, "loop", "unregister")
    /\ alive[s]
    /\ RowMissing(s)
    /\ UNCHANGED <<mgrVars, send, held, sender, delVars, userVars, agentVars>>

\* Connect returns: ControlPlaneConnected or the Welcome failed; or in the
\* loop a receive error, the sender gone, the watchdog, the stream context, a
\* second hello or an error of the database.
Return(s) ==
    /\ ConnStep(s, "registered", "unregister") \/ ConnStep(s, "loop", "unregister")
    /\ UNCHANGED <<mgrVars, send, held, sender, delVars, userVars, agentVars>>

\* Mutants: the map entry is kept; the entry is removed whoever owns it.
WithoutKept(s) == sessions
WithoutAny(s) == [sessions EXCEPT ![ServerOf[s]] = None]

Without(s) == [v \in Servers |->
                 IF v = ServerOf[s] /\ sessions[v] = s THEN None ELSE sessions[v]]

\* The deferred Manager.unregister removes the session from the map, unless
\* another one has replaced it ...
unregister(s) ==
    /\ ConnStep(s, "unregister", "close")
    /\ sessions' = Without(s)
    /\ UNCHANGED <<done, pending, streams, send, held, sender, delVars, userVars,
                   agentVars>>

\* ... and closes it after Manager.mu is released.
UnregisterClose(s) ==
    /\ ConnStep(s, "close", "ended")
    /\ close(s)
    /\ UNCHANGED <<sessions, send, held, sender, delVars, callVars, ctxDone, subVars,
                   agentVars>>

-----------------------------------------------------------------------------
(* The sender goroutine of Connect.  A message stream.Send is blocked on   *)
(* is the last one of down, beyond the window.                             *)

Blocked(s) == Len(down[s]) > DownCap

SenderSend(s) ==
    /\ sender[s] = "run"
    /\ send[s] # <<>>
    /\ ~Blocked(s)
    /\ send' = [send EXCEPT ![s] = Tail(@)]
    /\ down' = [down EXCEPT ![s] = IF alive[s] THEN Append(@, Head(send[s])) ELSE @]
    /\ UNCHANGED <<mgrVars, connVars, delVars, userVars, alive, up, workVars>>

\* It stops when the session is closed, or the stream has ended.
SenderStop(s) ==
    /\ sender[s] = "run"
    /\ (done[s] /\ ~Blocked(s)) \/ ~alive[s] \/ conn[s] = "ended"
    /\ sender' = [sender EXCEPT ![s] = "stopped"]
    /\ UNCHANGED <<mgrVars, send, conn, held, delVars, userVars, agentVars>>

-----------------------------------------------------------------------------
(* The Delete handler: the row goes first, then Manager.Disconnect takes   *)
(* the session out of the map and closes it after releasing Manager.mu.    *)

DeleteServer(v) ==
    /\ del[v] = "no"
    /\ del' = [del EXCEPT ![v] = "row"]
    /\ UNCHANGED <<mgrVars, send, connVars, closing, userVars, agentVars>>

\* Mutant: Disconnect does not check for the nil session.
TakenUnchecked(v) == {sessions[v]}

Taken(v) == {sessions[v]} \ {None}

Disconnect(v) ==
    /\ del[v] = "row"
    /\ del' = [del EXCEPT ![v] = "gone"]
    /\ closing' = closing \cup Taken(v)
    /\ sessions' = [sessions EXCEPT ![v] = None]
    /\ UNCHANGED <<done, pending, streams, send, connVars, userVars, agentVars>>

DisconnectClose(s) ==
    /\ s \in closing
    /\ close(s)
    /\ closing' = closing \ {s}
    /\ UNCHANGED <<sessions, send, connVars, del, callVars, ctxDone, subVars,
                   agentVars>>

-----------------------------------------------------------------------------
(* Manager.Dispatch.                                                       *)

CallStep(c, from, to) == callPc[c] = from /\ callPc' = [callPc EXCEPT ![c] = to]

\* The lookup: without a session that has the capability Dispatch returns.
DispatchLookup(c, v) ==
    /\ IF sessions[v] \in Capable
       THEN /\ CallStep(c, "idle", "pend")
            /\ callSess' = [callSess EXCEPT ![c] = sessions[v]]
            /\ UNCHANGED outcome
       ELSE /\ CallStep(c, "idle", "done")
            /\ outcome' = [outcome EXCEPT ![c] =
                             IF sessions[v] = None THEN "offline" ELSE "absent"]
            /\ UNCHANGED callSess
    /\ UNCHANGED <<mgrVars, send, notCall, waiter>>

\* Mutant: the waiter is added only to a session that is still in the map.
WithWaiterOnline(c) ==
    [pending EXCEPT ![callSess[c]] =
       IF \E v \in Servers : sessions[v] = callSess[c] THEN @ \cup {c} ELSE @]

WithWaiter(c) == [pending EXCEPT ![callSess[c]] = @ \cup {c}]

\* The waiter is added whether or not the session has been closed since.
DispatchPend(c) ==
    /\ CallStep(c, "pend", "send")
    /\ pending' = WithWaiter(c)
    /\ UNCHANGED <<sessions, done, streams, send, notCall, callSess, outcome, waiter>>

DispatchSend(c) ==
    /\ CallStep(c, "send", "wait")
    /\ Len(send[callSess[c]]) < SendCap
    /\ send' = [send EXCEPT ![callSess[c]] = Append(@, Command(c))]
    /\ UNCHANGED <<mgrVars, notCall, callSess, outcome, waiter>>

DispatchAnswer(c) ==
    /\ CallStep(c, "wait", "return")
    /\ waiter[c] # "empty"
    /\ outcome' = [outcome EXCEPT ![c] = waiter[c]]
    /\ waiter' = [waiter EXCEPT ![c] = "empty"]
    /\ UNCHANGED <<mgrVars, send, notCall, callSess>>

\* Mutant: Dispatch relies on close to fail its waiter.
ClosedUnwatched(c) == FALSE

Closed(c) == done[callSess[c]]

\* Both selects also end when the session closes or the context ends.
DispatchAbort(c) ==
    /\ CallStep(c, "send", "return") \/ CallStep(c, "wait", "return")
    /\ \/ Closed(c) /\ outcome' = [outcome EXCEPT ![c] = "closed"]
       \/ c \in ctxDone /\ outcome' = [outcome EXCEPT ![c] = "canceled"]
    /\ UNCHANGED <<mgrVars, send, notCall, callSess, waiter>>

\* Mutant: the waiter is left behind.
WithoutWaiterKept(c) == pending

WithoutWaiter(c) == [pending EXCEPT ![callSess[c]] = @ \ {c}]

\* The deferred removal of the waiter.
DispatchReturn(c) ==
    /\ CallStep(c, "return", "done")
    /\ pending' = WithoutWaiter(c)
    /\ UNCHANGED <<sessions, done, streams, send, notCall, callSess, outcome, waiter>>

\* The caller's context ends while Dispatch runs.
CancelCall(c) ==
    /\ callPc[c] \in {"pend", "send", "wait"}
    /\ c \notin ctxDone
    /\ ctxDone' = ctxDone \cup {c}
    /\ UNCHANGED <<mgrVars, send, connVars, delVars, callVars, waiter, subVars,
                   agentVars>>

-----------------------------------------------------------------------------
(* Manager.Subscribe and its forwarding goroutine.                         *)

SubStep(u, from, to) == subPc[u] = from /\ subPc' = [subPc EXCEPT ![u] = to]

SubLookup(u, v) ==
    /\ IF sessions[v] \in Capable
       THEN /\ SubStep(u, "idle", "add")
            /\ subSess' = [subSess EXCEPT ![u] = sessions[v]]
       ELSE SubStep(u, "idle", "refused") /\ UNCHANGED subSess
    /\ UNCHANGED <<mgrVars, send, notSub, queueVars>>

\* Mutant: Subscribe, like Dispatch, does not look at done.
RefusedNever(u) == FALSE

Refused(u) == done[subSess[u]]

\* Unlike Dispatch, the stream is not added to a session that was closed.
SubAdd(u) ==
    /\ subPc[u] = "add"
    /\ IF Refused(u)
       THEN SubStep(u, "add", "refused") /\ UNCHANGED streams
       ELSE /\ SubStep(u, "add", "send")
            /\ streams' = [streams EXCEPT ![subSess[u]] = @ \cup {u}]
    /\ UNCHANGED <<sessions, done, pending, send, notSub, subSess, queueVars>>

SubSend(u) ==
    /\ SubStep(u, "send", "forward")
    /\ Len(send[subSess[u]]) < SendCap
    /\ send' = [send EXCEPT ![subSess[u]] = Append(@, Subscribe(u))]
    /\ UNCHANGED <<mgrVars, notSub, subSess, queueVars>>

\* Mutant: the selects of the goroutine have no done case.
EndedByContext(u) == u \in ctxDone

Ended(u) == done[subSess[u]] \/ u \in ctxDone

\* removeStream: the error return of Subscribe, and the first deferred call of
\* the goroutine.
removeStream(u) ==
    /\ \/ SubStep(u, "send", "refused") /\ Ended(u)
       \/ SubStep(u, "remove", "cancel")
    /\ streams' = [streams EXCEPT ![subSess[u]] = @ \ {u}]
    /\ UNCHANGED <<sessions, done, pending, send, notSub, subSess, queueVars>>

\* The goroutine takes a chunk: the last one ends it.
ForwardTake(u) ==
    /\ chunks[u] # <<>>
    /\ chunks' = [chunks EXCEPT ![u] = Tail(@)]
    /\ IF Head(chunks[u]).eof
       THEN SubStep(u, "forward", "remove") /\ UNCHANGED pushing
       ELSE /\ SubStep(u, "forward", "push")
            /\ pushing' = [pushing EXCEPT ![u] = Head(chunks[u]).seq]
    /\ UNCHANGED <<mgrVars, send, notSub, subSess, output, received>>

ForwardPush(u) ==
    /\ SubStep(u, "push", "forward")
    /\ Len(output[u]) < OutCap
    /\ output' = [output EXCEPT ![u] = Append(@, pushing[u])]
    /\ pushing' = [pushing EXCEPT ![u] = 0]
    /\ UNCHANGED <<mgrVars, send, notSub, subSess, chunks, received>>

\* The context or the session ended.
ForwardEnd(u) ==
    /\ SubStep(u, "forward", "remove") \/ SubStep(u, "push", "remove")
    /\ Ended(u)
    /\ UNCHANGED <<mgrVars, send, notSub, subSess, queueVars>>

\* The second deferred call: a Cancel, dropped when session.send is full.
SendCancel(u) ==
    /\ SubStep(u, "cancel", "closed")
    /\ send' = [send EXCEPT ![subSess[u]] =
                  IF Len(@) < SendCap THEN Append(@, Cancel(u)) ELSE @]
    /\ UNCHANGED <<mgrVars, notSub, subSess, queueVars>>

\* The caller reads its channel until its context ends.
Read(u) ==
    /\ output[u] # <<>>
    /\ u \notin ctxDone
    /\ received' = [received EXCEPT ![u] = Head(output[u])]
    /\ output' = [output EXCEPT ![u] = Tail(@)]
    /\ UNCHANGED <<mgrVars, send, notSub, subPc, subSess, chunks, pushing>>

\* The caller's context ends while the subscription is open.
CancelSub(u) ==
    /\ subPc[u] \in {"add", "send", "forward", "push"}
    /\ u \notin ctxDone
    /\ ctxDone' = ctxDone \cup {u}
    /\ UNCHANGED <<mgrVars, send, connVars, delVars, callVars, waiter, subVars,
                   agentVars>>

-----------------------------------------------------------------------------
(* The agent.                                                              *)

coreVars == <<mgrVars, send, connVars, delVars, userVars>>

\* connect's main loop: a command and a subscription each get a goroutine, a
\* cancel ends the context of one.
AgentReceive(s) ==
    /\ alive[s]
    /\ down[s] # <<>>
    /\ down' = [down EXCEPT ![s] = Tail(@)]
    /\ LET m == Head(down[s]) IN
         \/ /\ m.kind = "command"
            /\ agentCmd' = [agentCmd EXCEPT ![m.id] = "run"]
            /\ UNCHANGED agentSub
         \/ /\ m.kind = "subscribe"
            /\ agentSub' = [agentSub EXCEPT ![m.id] = "run"]
            /\ UNCHANGED agentCmd
         \/ /\ m.kind = "cancel"
            /\ agentSub' = [agentSub EXCEPT ![m.id] = IF @ = "run" THEN "canceled" ELSE @]
            /\ UNCHANGED agentCmd
    /\ UNCHANGED <<coreVars, alive, up, emitted>>

\* A goroutine of the agent queues a message on outbound.
Outbound(s, m) ==
    /\ Len(up[s]) < UpCap
    /\ up' = [up EXCEPT ![s] = Append(@, m)]

\* execute returns within the command's deadline and queues the result.
execute(c, ok) ==
    /\ agentCmd[c] = "run"
    /\ Outbound(callSess[c], Result(c, ok))
    /\ agentCmd' = [agentCmd EXCEPT ![c] = "executed"]
    /\ UNCHANGED <<coreVars, alive, down, agentSub, emitted>>

\* emit: a select with room and a canceled context may still send.
emit(u) ==
    /\ agentSub[u] \in {"run", "canceled"}
    /\ emitted[u] < MaxChunks
    /\ Outbound(subSess[u], Chunk(u, emitted[u] + 1))
    /\ emitted' = [emitted EXCEPT ![u] = @ + 1]
    /\ UNCHANGED <<coreVars, alive, down, agentCmd, agentSub>>

\* The subscription's work returned: the last chunk is queued, or given up
\* because the context was canceled.
runSubscription(u) ==
    /\ \/ agentSub[u] \in {"run", "canceled"} /\ Outbound(subSess[u], Eof(u, emitted[u] + 1))
       \/ agentSub[u] = "canceled" /\ UNCHANGED up
    /\ agentSub' = [agentSub EXCEPT ![u] = "ended"]
    /\ UNCHANGED <<coreVars, alive, down, agentCmd, emitted>>

\* The agent's connect returns: the network broke, the process stopped, or the
\* Core ended the stream.  Its context is canceled, so running commands and
\* subscriptions of the session produce nothing more; of the messages queued
\* towards the Core some prefix may still arrive.
AgentLeave(s) ==
    /\ alive[s]
    /\ alive' = [alive EXCEPT ![s] = FALSE]
    /\ down' = [down EXCEPT ![s] = <<>>]
    /\ \E n \in 0..Len(up[s]) : up' = [up EXCEPT ![s] = SubSeq(@, 1, n)]
    /\ agentCmd' = [c \in Calls |->
                      IF callSess[c] = s /\ agentCmd[c] = "run" THEN "lost" ELSE agentCmd[c]]
    /\ agentSub' = [u \in Subs |->
                      IF subSess[u] = s /\ agentSub[u] # "none" THEN "ended" ELSE agentSub[u]]
    /\ UNCHANGED <<coreVars, emitted>>

-----------------------------------------------------------------------------

HandlerStep(s) ==
    \/ Verify(s) \/ Refuse(s) \/ register(s) \/ StartLoop(s) \/ Receive(s)
    \/ resolve(s) \/ resolveChunk(s) \/ DropChunk(s) \/ Heartbeat(s)
    \/ unregister(s) \/ UnregisterClose(s)

SenderStep(s) == SenderSend(s) \/ SenderStop(s)

DispatchStep(c) ==
    \/ \E v \in Servers : DispatchLookup(c, v)
    \/ DispatchPend(c) \/ DispatchSend(c) \/ DispatchAnswer(c) \/ DispatchAbort(c)
    \/ DispatchReturn(c)

SubscribeStep(u) ==
    \/ \E v \in Servers : SubLookup(u, v)
    \/ SubAdd(u) \/ SubSend(u) \/ removeStream(u) \/ SendCancel(u)
    \/ ForwardTake(u) \/ ForwardPush(u) \/ ForwardEnd(u)

Next ==
    \/ \E s \in Sessions : \/ Dial(s) \/ HandlerStep(s) \/ Return(s) \/ SenderStep(s)
                           \/ DisconnectClose(s) \/ AgentReceive(s) \/ AgentLeave(s)
    \/ \E v \in Servers : DeleteServer(v) \/ Disconnect(v)
    \/ \E c \in Calls : \/ DispatchStep(c) \/ CancelCall(c)
                        \/ \E ok \in BOOLEAN : execute(c, ok)
    \/ \E u \in Subs : \/ SubscribeStep(u) \/ CancelSub(u) \/ Read(u) \/ emit(u)
                       \/ runSubscription(u)

Spec == Init /\ [][Next]_vars

(***************************************************************************)
(* Fairness: goroutines that can run do run.  The receive loop returns     *)
(* once the transport or its sender is gone (receive error, sendErr,       *)
(* watchdog); the agent sees the end of a stream the Core ended; a command *)
(* ends by its deadline; the reader of a subscription reads or cancels.    *)
(* Nothing is assumed of dialling, broken networks, deletions, contexts,   *)
(* or of how long a log keeps producing lines.                             *)
(***************************************************************************)
ForcedReturn(s) == Return(s) /\ conn[s] = "loop" /\ (~alive[s] \/ sender[s] = "stopped")

Fairness ==
    /\ \A s \in Sessions :
         /\ WF_vars(HandlerStep(s) \/ ForcedReturn(s))
         /\ WF_vars(SenderStep(s))
         /\ WF_vars(DisconnectClose(s))
         /\ WF_vars(AgentReceive(s))
         /\ WF_vars(conn[s] = "ended" /\ AgentLeave(s))
    /\ \A v \in Servers : WF_vars(Disconnect(v))
    /\ \A c \in Calls :
         /\ WF_vars(callPc[c] # "idle" /\ DispatchStep(c))
         /\ WF_vars(\E ok \in BOOLEAN : execute(c, ok))
    /\ \A u \in Subs :
         /\ WF_vars(subPc[u] # "idle" /\ SubscribeStep(u))
         /\ WF_vars(Read(u))
         /\ WF_vars(agentSub[u] = "canceled" /\ runSubscription(u))

FairSpec == Spec /\ Fairness

-----------------------------------------------------------------------------
(* Safety.                                                                 *)

ManagerTypes ==
    /\ sessions \in [Servers -> Sessions \cup {None}]
    /\ done \in [Sessions -> BOOLEAN]
    /\ pending \in [Sessions -> SUBSET Calls]
    /\ streams \in [Sessions -> SUBSET Subs]
    /\ send \in [Sessions -> Seq(CoreMessage)]
    /\ del \in [Servers -> {"no", "row", "gone"}]
    /\ closing \in SUBSET Sessions

HandlerTypes ==
    /\ conn \in [Sessions -> {"none", "hello", "verified", "registered", "loop",
                              "resolve", "chunk", "unregister", "close", "ended"}]
    /\ held \in [Sessions -> AgentMessage \cup {NoMessage}]
    /\ sender \in [Sessions -> {"off", "run", "stopped"}]
    /\ \A s \in Sessions : /\ conn[s] = "resolve" => held[s] \in CommandResult
                           /\ conn[s] = "chunk" => held[s] \in StreamChunk

CallTypes ==
    /\ callPc \in [Calls -> {"idle", "pend", "send", "wait", "return", "done"}]
    /\ callSess \in [Calls -> Sessions \cup {None}]
    /\ waiter \in [Calls -> {"empty", "closed", "ok", "error"}]
    /\ outcome \in [Calls -> {"none", "offline", "absent", "closed", "canceled",
                              "ok", "error"}]
    /\ ctxDone \in SUBSET (Calls \cup Subs)

SubTypes ==
    /\ subPc \in [Subs -> {"idle", "add", "send", "forward", "push", "remove",
                           "cancel", "closed", "refused"}]
    /\ subSess \in [Subs -> Sessions \cup {None}]
    /\ chunks \in [Subs -> Seq(StreamChunk)]
    /\ pushing \in [Subs -> Nat]
    /\ output \in [Subs -> Seq(Nat)]
    /\ received \in [Subs -> Nat]

AgentTypes ==
    /\ alive \in [Sessions -> BOOLEAN]
    /\ up \in [Sessions -> Seq(AgentMessage)]
    /\ down \in [Sessions -> Seq(CoreMessage)]
    /\ agentCmd \in [Calls -> {"none", "run", "executed", "lost"}]
    /\ agentSub \in [Subs -> {"none", "run", "canceled", "ended"}]
    /\ emitted \in [Subs -> Nat]

\* Every variable of the two sides stays in its type, and the message the
\* receive loop holds is of the kind it is resolving.
TypeOK == ManagerTypes /\ HandlerTypes /\ CallTypes /\ SubTypes /\ AgentTypes

\* A session IsOnline, Dispatch or Subscribe can find in the map has not been
\* closed, and its Connect handler has not got past unregister: whichever of
\* register, unregister and Disconnect runs, the map changes before the close.
RegisteredIsOpen ==
    \A v \in Servers : sessions[v] # None =>
        /\ ServerOf[sessions[v]] = v
        /\ ~done[sessions[v]]
        /\ conn[sessions[v]] \in {"registered", "loop", "resolve", "chunk", "unregister"}

\* Conversely a connected agent whose session is open can be reached: the late
\* unregister of a replaced session never takes its replacement out of the map.
LiveIsRegistered ==
    \A s \in Sessions :
        /\ conn[s] \in {"registered", "loop", "resolve", "chunk", "unregister"}
        /\ ~done[s]
        /\ s \notin closing
        => sessions[ServerOf[s]] = s

\* A Dispatch blocked in one of its selects can still be woken by its session:
\* either its waiter is registered or the session is closed, although Dispatch
\* adds the waiter without looking at done.
NoLostWaiter ==
    \A c \in Calls : callPc[c] \in {"send", "wait"} =>
        c \in pending[callSess[c]] \/ done[callSess[c]]

\* No entry of session.pending outlives its Dispatch, and none is in the map
\* of another session, even when the session was closed before it was added.
NoOrphanWaiter ==
    \A s \in Sessions : \A c \in pending[s] :
        callSess[c] = s /\ callPc[c] \in {"send", "wait", "return"}

\* A closed session keeps no stream, and an open one only those whose
\* forwarding goroutine will still remove them.
NoOrphanStream ==
    \A s \in Sessions : \A u \in streams[s] :
        /\ ~done[s]
        /\ subSess[u] = s
        /\ subPc[u] \in {"send", "forward", "push", "remove"}

\* What Dispatch returns is what happened: an answer only after the agent of
\* that session executed the command, and no trace of a command on any agent
\* when the server was offline or lacked the capability.
OutcomeTruthful ==
    \A c \in Calls :
        /\ outcome[c] \in {"ok", "error"} => agentCmd[c] = "executed"
        /\ outcome[c] \in {"offline", "absent"} => agentCmd[c] = "none"

Seqs(q) == [i \in 1..Len(q) |-> q[i].seq]

\* The receive loop of its session holds a chunk of u.
Resolving(u) ==
    subSess[u] # None /\ conn[subSess[u]] = "chunk" /\ held[subSess[u]].id = u

\* Chunks of u on the Core and not yet read, oldest first.
Unread(u) ==
    output[u]
      \o (IF pushing[u] = 0 THEN <<>> ELSE <<pushing[u]>>)
      \o Seqs(chunks[u])
      \o (IF Resolving(u) THEN <<held[subSess[u]].seq>> ELSE <<>>)

\* Where the chunks of u are in a queue towards the Core.
At(q, u) == {i \in 1..Len(q) : q[i].kind = "chunk" /\ q[i].id = u}

\* Through five queues and three goroutines a reader gets the chunks the agent
\* emitted in order, without a gap or a repetition; and as long as the stream
\* is open at both ends none of them is lost: the ones that have not arrived yet
\* are on their way.
StreamIntact ==
    \A u \in Subs :
        /\ \A i \in 1..Len(Unread(u)) : Unread(u)[i] = received[u] + i
        /\ LET s == subSess[u] IN
             subPc[u] \in {"forward", "push"} /\ u \in streams[s] /\ alive[s] =>
               {up[s][i].seq : i \in At(up[s], u)}
                 = (received[u] + Len(Unread(u)) + 1)
                     ..(emitted[u] + (IF agentSub[u] = "ended" THEN 1 ELSE 0))

-----------------------------------------------------------------------------
(* Liveness, of FairSpec.                                                  *)

\* Sessions whose receive loop waits for room in a channel that nobody empties:
\* the forwarding goroutine went away with the context of its subscription.
Stalled ==
    {s \in Sessions : /\ conn[s] = "chunk" /\ ~done[s]
                      /\ subPc[held[s].id] = "closed"
                      /\ Len(chunks[held[s].id]) = ChunkCap}

\* Every Dispatch that found a session returns, whatever happens to the
\* connection: the agent answers or the pending call is failed.  A stalled
\* receive loop leaves it to the context of the caller.
EveryDispatchReturns ==
    \A c \in Calls : callPc[c] # "idle" ~> callPc[c] = "done" \/ callSess[c] \in Stalled

\* When a session is closed (replaced, disconnected or unregistered) its
\* Connect handler, its sender and the goroutines of its streams end.
ClosedSessionEnds ==
    \A s \in Sessions : done[s] ~>
        /\ conn[s] = "ended"
        /\ sender[s] # "run"
        /\ \A u \in Subs : subSess[u] = s => subPc[u] \in {"closed", "refused"}

\* A deleted server is not reachable for ever, although its agent may register
\* between the deletion of the row and Disconnect, or after both: its next
\* heartbeat is refused, unless the receive loop is stalled and sees none.
DeletedServerLeaves ==
    \A v \in Servers : del[v] # "no" ~> [](sessions[v] \in Stalled \cup {None})

\* The receive loop gets past every chunk, so that results, heartbeats and the
\* watchdog of the session are served.
ReceiveLoopResumes ==
    \A s \in Sessions : conn[s] = "chunk" ~> conn[s] # "chunk"

\* Once the forwarding goroutine of a subscription is gone the agent stops
\* producing its chunks for good.
CanceledStreamStops ==
    \A u \in Subs : subPc[u] = "closed" ~> [](agentSub[u] # "run")
=============================================================================
