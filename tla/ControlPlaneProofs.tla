------------------------- MODULE ControlPlaneProofs -------------------------
(***************************************************************************)
(* What holds of ControlPlane for every set of servers, sessions, calls    *)
(* and subscriptions and every capacity of the channels.  Each part has an *)
(* inductive invariant: TypeOK, part by part; MapInv for the session map;  *)
(* WaiterInv, CommandInv and AnswerInv for Dispatch; StreamInv for         *)
(* Subscribe; AskInv for its start on the agent; ChunkInv for the chunks   *)
(* under way; FlowInv, whose steps are in StreamProofs, for their numbers. *)
(* In the proof that a step preserves one, the actions that change its     *)
(* variables come first, the others follow together because they leave     *)
(* those variables alone.                                                  *)
(***************************************************************************)
EXTENDS ControlPlane, TLAPS

\* A channel per key keeps its type when a message is queued on one of them.
LEMMA AppendType ==
    ASSUME NEW D, NEW M, NEW f \in [D -> Seq(M)], NEW x, NEW m \in M
    PROVE  [f EXCEPT ![x] = Append(@, m)] \in [D -> Seq(M)]
<1> SUFFICES ASSUME NEW y \in D
             PROVE  [f EXCEPT ![x] = Append(@, m)][y] \in Seq(M)
  BY Zenon
<1> QED
  OBVIOUS

\* ... and when the oldest message is taken from one, which is then of that type.
LEMMA TailType ==
    ASSUME NEW D, NEW M, NEW f \in [D -> Seq(M)], NEW x \in D, f[x] # <<>>
    PROVE  /\ [f EXCEPT ![x] = Tail(@)] \in [D -> Seq(M)]
           /\ Head(f[x]) \in M
  OBVIOUS

\* The messages the two sides build are of the types their streams carry.
LEMMA MessageTypes ==
    /\ \A c \in Calls : Command(c) \in CoreMessage
    /\ \A u \in Subs : Subscribe(u) \in CoreMessage /\ Cancel(u) \in CoreMessage
    /\ \A c \in Calls, b \in BOOLEAN : Result(c, b) \in AgentMessage
    /\ \A u \in Subs, n \in Nat : Chunk(u, n) \in AgentMessage /\ Eof(u, n) \in AgentMessage
  BY Zenon DEF CoreMessage, AgentMessage, CommandResult, StreamChunk, Command, Subscribe,
     Cancel, Result, Chunk, Eof

\* Every step keeps the types of the Manager: sessions, waiters, send queues.
LEMMA ManagerTypesNext == TypeOK /\ [Next]_vars => ManagerTypes'
<1> SUFFICES ASSUME TypeOK, [Next]_vars
             PROVE  ManagerTypes'
  BY Zenon
<1> USE SessionAssumption
<1> USE DEF TypeOK, ManagerTypes, mgrVars, connVars, delVars, callVars,
            subVars, queueVars, userVars, netVars, workVars, agentVars, notSub,
            notCall, coreVars
<1>1. CASE UNCHANGED <<sessions, done, pending, streams, send, del, closing>>
  BY <1>1, Zenon
<1>2. ASSUME NEW s \in Sessions, register(s) PROVE ManagerTypes'
  BY <1>2, Zenon DEF register, ConnStep, close, FirstClose
<1>3. ASSUME NEW s \in Sessions, unregister(s) PROVE ManagerTypes'
  BY <1>3, Zenon DEF unregister, ConnStep, Without
<1>4. ASSUME NEW s \in Sessions, UnregisterClose(s) PROVE ManagerTypes'
  BY <1>4, Zenon DEF UnregisterClose, ConnStep, close, FirstClose
<1>5. ASSUME NEW s \in Sessions, SenderSend(s) PROVE ManagerTypes'
  BY <1>5 DEF SenderSend
<1>6. ASSUME NEW s \in Sessions, DisconnectClose(s) PROVE ManagerTypes'
  BY <1>6, Zenon DEF DisconnectClose, close, FirstClose
<1>7. ASSUME NEW v \in Servers, DeleteServer(v) PROVE ManagerTypes'
  BY <1>7, Zenon DEF DeleteServer
<1>8. ASSUME NEW v \in Servers, Disconnect(v) PROVE ManagerTypes'
  BY <1>8, Zenon DEF Disconnect, Taken
<1>9. ASSUME NEW c \in Calls, DispatchPend(c) PROVE ManagerTypes'
  BY <1>9, Zenon DEF DispatchPend, CallStep, WithWaiter
<1>10. ASSUME NEW c \in Calls, DispatchSend(c) PROVE ManagerTypes'
  BY <1>10, MessageTypes, AppendType, Zenon DEF DispatchSend
<1>11. ASSUME NEW c \in Calls, DispatchReturn(c) PROVE ManagerTypes'
  BY <1>11, Zenon DEF DispatchReturn, CallStep, WithoutWaiter
<1>12. ASSUME NEW u \in Subs, SubAdd(u) PROVE ManagerTypes'
  BY <1>12 DEF SubAdd, SubStep, Refused
<1>13. ASSUME NEW u \in Subs, SubSend(u) PROVE ManagerTypes'
  BY <1>13, MessageTypes, AppendType, Zenon DEF SubSend
<1>14. ASSUME NEW u \in Subs, removeStream(u) PROVE ManagerTypes'
  BY <1>14, Zenon DEF removeStream, SubStep, Ended
<1>15. ASSUME NEW u \in Subs, SendCancel(u) PROVE ManagerTypes'
  BY <1>15, MessageTypes, AppendType, Zenon DEF SendCancel
<1>16. ASSUME NEW s \in Sessions,
            \/ Dial(s) \/ Verify(s) \/ Refuse(s) \/ StartLoop(s) \/ Receive(s)
            \/ resolve(s) \/ resolveChunk(s) \/ DropChunk(s) \/ Heartbeat(s)
            \/ Return(s) \/ SenderStop(s) \/ AgentReceive(s) \/ AgentLeave(s)
    PROVE UNCHANGED <<sessions, done, pending, streams, send, del, closing>>
  BY <1>16, Zenon DEF Dial, ConnStep, Verify, Refuse, StartLoop, Receive, resolve,
     WaiterOf, resolveChunk, DropChunk, GiveUp, Heartbeat, RowMissing, Return,
     SenderStop, AgentReceive, AgentLeave
<1>17. ASSUME NEW c \in Calls,
            \/ (\E v \in Servers : DispatchLookup(c, v)) \/ DispatchAnswer(c)
            \/ DispatchAbort(c) \/ CancelCall(c)
            \/ (\E ok \in BOOLEAN : execute(c, ok))
    PROVE UNCHANGED <<sessions, done, pending, streams, send, del, closing>>
  BY <1>17, Zenon DEF DispatchLookup, CallStep, DispatchAnswer, DispatchAbort, Closed,
     CancelCall, execute, Outbound
<1>18. ASSUME NEW u \in Subs,
            \/ (\E v \in Servers : SubLookup(u, v)) \/ ForwardTake(u)
            \/ ForwardPush(u) \/ ForwardEnd(u) \/ CancelSub(u) \/ Read(u)
            \/ emit(u) \/ runSubscription(u)
    PROVE UNCHANGED <<sessions, done, pending, streams, send, del, closing>>
  BY <1>18, Zenon DEF SubLookup, SubStep, ForwardTake, ForwardPush, ForwardEnd, Ended,
     CancelSub, Read, emit, Outbound, runSubscription
<1> QED
  BY <1>1, <1>2, <1>3, <1>4, <1>5, <1>6, <1>7, <1>8, <1>9, <1>10,
     <1>11, <1>12, <1>13, <1>14, <1>15, <1>16, <1>17, <1>18, Zenon
     DEF Next, HandlerStep, SenderStep, DispatchStep, SubscribeStep, vars

\* Every step keeps the types of Connect; in particular Receive hands resolve a
\* result and resolveChunk a chunk.
LEMMA HandlerTypesNext == TypeOK /\ [Next]_vars => HandlerTypes'
<1> SUFFICES ASSUME TypeOK, [Next]_vars
             PROVE  HandlerTypes'
  BY Zenon
<1> USE SessionAssumption
<1> USE DEF TypeOK, HandlerTypes, mgrVars, connVars, delVars, callVars,
            subVars, queueVars, userVars, netVars, workVars, agentVars, notSub,
            notCall, coreVars
<1>1. CASE UNCHANGED <<conn, held, sender>>
  BY <1>1, Zenon
<1>2. ASSUME NEW s \in Sessions, Dial(s) PROVE HandlerTypes'
  BY <1>2, Zenon DEF Dial, ConnStep
<1>3. ASSUME NEW s \in Sessions, Verify(s) PROVE HandlerTypes'
  BY <1>3, Zenon DEF Verify, ConnStep
<1>4. ASSUME NEW s \in Sessions, Refuse(s) PROVE HandlerTypes'
  BY <1>4, Zenon DEF Refuse, ConnStep
<1>5. ASSUME NEW s \in Sessions, register(s) PROVE HandlerTypes'
  BY <1>5, Zenon DEF register, ConnStep, close, FirstClose
<1>6. ASSUME NEW s \in Sessions, StartLoop(s) PROVE HandlerTypes'
  BY <1>6, Zenon DEF StartLoop, ConnStep
<1>7. ASSUME NEW s \in Sessions, Receive(s) PROVE HandlerTypes'
  <2> DEFINE m == Head(up[s])
  <2>1. m \in AgentMessage
    BY <1>7, TailType, Zenon DEF Receive, AgentTypes
  <2>2. IF m.kind = "result" THEN m \in CommandResult ELSE m \in StreamChunk
    BY <2>1, Zenon DEF AgentMessage, CommandResult, StreamChunk
  <2> HIDE DEF m
  <2>3. CASE UNCHANGED <<conn, held>>
    BY <1>7, <2>3, Zenon DEF Receive
  <2>4. CASE /\ held' = [held EXCEPT ![s] = m]
             /\ conn' = [conn EXCEPT ![s] = IF m.kind = "result" THEN "resolve" ELSE "chunk"]
    BY <1>7, <2>1, <2>2, <2>4, Zenon DEF Receive
  <2> QED
    BY <1>7, <2>3, <2>4, Zenon DEF Receive, m
<1>8. ASSUME NEW s \in Sessions, resolve(s) PROVE HandlerTypes'
  BY <1>8, Zenon DEF resolve, ConnStep, WaiterOf
<1>9. ASSUME NEW s \in Sessions, resolveChunk(s) PROVE HandlerTypes'
  BY <1>9, Zenon DEF resolveChunk, ConnStep
<1>10. ASSUME NEW s \in Sessions, DropChunk(s) PROVE HandlerTypes'
  BY <1>10, Zenon DEF DropChunk, ConnStep, GiveUp
<1>11. ASSUME NEW s \in Sessions, Heartbeat(s) PROVE HandlerTypes'
  BY <1>11, Zenon DEF Heartbeat, ConnStep, RowMissing
<1>12. ASSUME NEW s \in Sessions, Return(s) PROVE HandlerTypes'
  BY <1>12, Zenon DEF Return, ConnStep
<1>13. ASSUME NEW s \in Sessions, unregister(s) PROVE HandlerTypes'
  BY <1>13, Zenon DEF unregister, ConnStep, Without
<1>14. ASSUME NEW s \in Sessions, UnregisterClose(s) PROVE HandlerTypes'
  BY <1>14, Zenon DEF UnregisterClose, ConnStep, close, FirstClose
<1>15. ASSUME NEW s \in Sessions, SenderStop(s) PROVE HandlerTypes'
  BY <1>15, Zenon DEF SenderStop
<1>16. ASSUME NEW s \in Sessions,
            \/ SenderSend(s) \/ DisconnectClose(s) \/ AgentReceive(s)
            \/ AgentLeave(s)
    PROVE UNCHANGED <<conn, held, sender>>
  BY <1>16, Zenon DEF SenderSend, DisconnectClose, AgentReceive, AgentLeave, close
<1>17. ASSUME NEW v \in Servers,
            \/ DeleteServer(v) \/ Disconnect(v)
    PROVE UNCHANGED <<conn, held, sender>>
  BY <1>17, Zenon DEF DeleteServer, Disconnect, Taken
<1>18. ASSUME NEW c \in Calls,
            \/ (\E v \in Servers : DispatchLookup(c, v)) \/ DispatchPend(c)
            \/ DispatchSend(c) \/ DispatchAnswer(c) \/ DispatchAbort(c)
            \/ DispatchReturn(c) \/ CancelCall(c)
            \/ (\E ok \in BOOLEAN : execute(c, ok))
    PROVE UNCHANGED <<conn, held, sender>>
  BY <1>18, Zenon DEF DispatchLookup, CallStep, DispatchPend, WithWaiter,
     DispatchSend, DispatchAnswer, DispatchAbort, Closed, DispatchReturn,
     WithoutWaiter, CancelCall, execute, Outbound
<1>19. ASSUME NEW u \in Subs,
            \/ (\E v \in Servers : SubLookup(u, v)) \/ SubAdd(u) \/ SubSend(u)
            \/ removeStream(u) \/ SendCancel(u) \/ ForwardTake(u)
            \/ ForwardPush(u) \/ ForwardEnd(u) \/ CancelSub(u) \/ Read(u)
            \/ emit(u) \/ runSubscription(u)
    PROVE UNCHANGED <<conn, held, sender>>
  BY <1>19, Zenon DEF SubLookup, SubStep, SubAdd, Refused, SubSend, removeStream,
     Ended, SendCancel, ForwardTake, ForwardPush, ForwardEnd, CancelSub, Read,
     emit, Outbound, runSubscription
<1> QED
  BY <1>1, <1>2, <1>3, <1>4, <1>5, <1>6, <1>7, <1>8, <1>9, <1>10,
     <1>11, <1>12, <1>13, <1>14, <1>15, <1>16, <1>17, <1>18, <1>19, Zenon
     DEF Next, HandlerStep, SenderStep, DispatchStep, SubscribeStep, vars

\* Every step keeps the types of the Dispatch calls.
LEMMA CallTypesNext == TypeOK /\ [Next]_vars => CallTypes'
<1> SUFFICES ASSUME TypeOK, [Next]_vars
             PROVE  CallTypes'
  BY Zenon
<1> USE SessionAssumption
<1> USE DEF TypeOK, CallTypes, mgrVars, connVars, delVars, callVars, subVars,
            queueVars, userVars, netVars, workVars, agentVars, notSub, notCall,
            coreVars
<1>1. CASE UNCHANGED <<callPc, callSess, waiter, outcome, ctxDone>>
  BY <1>1, Zenon
<1>2. ASSUME NEW s \in Sessions, register(s) PROVE CallTypes'
  BY <1>2, Zenon DEF register, ConnStep, close, FirstClose
<1>3. ASSUME NEW s \in Sessions, resolve(s) PROVE CallTypes'
  BY <1>3, Zenon DEF resolve, ConnStep, WaiterOf
<1>4. ASSUME NEW s \in Sessions, UnregisterClose(s) PROVE CallTypes'
  BY <1>4, Zenon DEF UnregisterClose, ConnStep, close, FirstClose
<1>5. ASSUME NEW s \in Sessions, DisconnectClose(s) PROVE CallTypes'
  BY <1>5, Zenon DEF DisconnectClose, close, FirstClose
<1>6. ASSUME NEW c \in Calls, NEW v \in Servers, DispatchLookup(c, v) PROVE CallTypes'
  BY <1>6, Zenon DEF DispatchLookup, CallStep
<1>7. ASSUME NEW c \in Calls, DispatchPend(c) PROVE CallTypes'
  BY <1>7, Zenon DEF DispatchPend, CallStep, WithWaiter
<1>8. ASSUME NEW c \in Calls, DispatchSend(c) PROVE CallTypes'
  BY <1>8, Zenon DEF DispatchSend, CallStep
<1>9. ASSUME NEW c \in Calls, DispatchAnswer(c) PROVE CallTypes'
  BY <1>9, Zenon DEF DispatchAnswer, CallStep
<1>10. ASSUME NEW c \in Calls, DispatchAbort(c) PROVE CallTypes'
  BY <1>10, Zenon DEF DispatchAbort, CallStep, Closed
<1>11. ASSUME NEW c \in Calls, DispatchReturn(c) PROVE CallTypes'
  BY <1>11, Zenon DEF DispatchReturn, CallStep, WithoutWaiter
<1>12. ASSUME NEW c \in Calls, CancelCall(c) PROVE CallTypes'
  BY <1>12, Zenon DEF CancelCall
<1>13. ASSUME NEW u \in Subs, CancelSub(u) PROVE CallTypes'
  BY <1>13, Zenon DEF CancelSub
<1>14. ASSUME NEW s \in Sessions,
            \/ Dial(s) \/ Verify(s) \/ Refuse(s) \/ StartLoop(s) \/ Receive(s)
            \/ resolveChunk(s) \/ DropChunk(s) \/ Heartbeat(s) \/ Return(s)
            \/ unregister(s) \/ SenderSend(s) \/ SenderStop(s)
            \/ AgentReceive(s) \/ AgentLeave(s)
    PROVE UNCHANGED <<callPc, callSess, waiter, outcome, ctxDone>>
  BY <1>14, Zenon DEF Dial, ConnStep, Verify, Refuse, StartLoop, Receive,
     resolveChunk, DropChunk, GiveUp, Heartbeat, RowMissing, Return,
     unregister, Without, SenderSend, SenderStop, AgentReceive, AgentLeave
<1>15. ASSUME NEW v \in Servers,
            \/ DeleteServer(v) \/ Disconnect(v)
    PROVE UNCHANGED <<callPc, callSess, waiter, outcome, ctxDone>>
  BY <1>15, Zenon DEF DeleteServer, Disconnect, Taken
<1>16. ASSUME NEW c \in Calls,
            \/ (\E ok \in BOOLEAN : execute(c, ok))
    PROVE UNCHANGED <<callPc, callSess, waiter, outcome, ctxDone>>
  BY <1>16, Zenon DEF execute, Outbound
<1>17. ASSUME NEW u \in Subs,
            \/ (\E v \in Servers : SubLookup(u, v)) \/ SubAdd(u) \/ SubSend(u)
            \/ removeStream(u) \/ SendCancel(u) \/ ForwardTake(u)
            \/ ForwardPush(u) \/ ForwardEnd(u) \/ Read(u) \/ emit(u)
            \/ runSubscription(u)
    PROVE UNCHANGED <<callPc, callSess, waiter, outcome, ctxDone>>
  BY <1>17, Zenon DEF SubLookup, SubStep, SubAdd, Refused, SubSend, removeStream,
     Ended, SendCancel, ForwardTake, ForwardPush, ForwardEnd, Read, emit,
     Outbound, runSubscription
<1> QED
  BY <1>1, <1>2, <1>3, <1>4, <1>5, <1>6, <1>7, <1>8, <1>9, <1>10,
     <1>11, <1>12, <1>13, <1>14, <1>15, <1>16, <1>17, Zenon
     DEF Next, HandlerStep, SenderStep, DispatchStep, SubscribeStep, vars

\* Every step keeps the types of the subscriptions and their channels.
LEMMA SubTypesNext == TypeOK /\ [Next]_vars => SubTypes'
<1> SUFFICES ASSUME TypeOK, [Next]_vars
             PROVE  SubTypes'
  BY Zenon
<1> USE SessionAssumption
<1> USE DEF TypeOK, SubTypes, mgrVars, connVars, delVars, callVars, subVars,
            queueVars, userVars, netVars, workVars, agentVars, notSub, notCall,
            coreVars
<1>1. CASE UNCHANGED <<subPc, subSess, chunks, pushing, output, received>>
  BY <1>1, Zenon
<1>2. ASSUME NEW s \in Sessions, resolveChunk(s) PROVE SubTypes'
  <2>1. held[s] \in StreamChunk
    BY <1>2, Zenon DEF resolveChunk, ConnStep, HandlerTypes
  <2>2. PICK m \in StreamChunk : chunks' = [chunks EXCEPT ![m.id] = Append(@, m)]
    BY <1>2, <2>1, Zenon DEF resolveChunk
  <2>3. chunks' \in [Subs -> Seq(StreamChunk)]
    BY <2>2, AppendType, Zenon
  <2> QED
    BY <1>2, <2>3, Zenon DEF resolveChunk
<1>3. ASSUME NEW u \in Subs, NEW v \in Servers, SubLookup(u, v) PROVE SubTypes'
  <2>1. sessions[v] \in Sessions \cup {None}
    BY Zenon DEF ManagerTypes
  <2>2. subSess' \in [Subs -> Sessions \cup {None}]
    BY <1>3, <2>1, Zenon DEF SubLookup
  <2>3. subPc' = [subPc EXCEPT ![u] = "add"] \/ subPc' = [subPc EXCEPT ![u] = "refused"]
    BY <1>3, Zenon DEF SubLookup, SubStep
  <2> QED
    BY <1>3, <2>2, <2>3, Zenon DEF SubLookup
<1>4. ASSUME NEW u \in Subs, SubAdd(u) PROVE SubTypes'
  BY <1>4, Zenon DEF SubAdd, SubStep, Refused
<1>5. ASSUME NEW u \in Subs, SubSend(u) PROVE SubTypes'
  BY <1>5, Zenon DEF SubSend, SubStep
<1>6. ASSUME NEW u \in Subs, removeStream(u) PROVE SubTypes'
  BY <1>6, Zenon DEF removeStream, SubStep, Ended
<1>7. ASSUME NEW u \in Subs, SendCancel(u) PROVE SubTypes'
  BY <1>7, Zenon DEF SendCancel, SubStep
<1>8. ASSUME NEW u \in Subs, ForwardTake(u) PROVE SubTypes'
  <2>1. /\ chunks' \in [Subs -> Seq(StreamChunk)]
        /\ Head(chunks[u]) \in StreamChunk
    BY <1>8, TailType, Zenon DEF ForwardTake
  <2>2. Head(chunks[u]).seq \in Nat
    BY <2>1, Zenon DEF StreamChunk
  <2> QED
    BY <1>8, <2>1, <2>2, Zenon DEF ForwardTake, SubStep
<1>9. ASSUME NEW u \in Subs, ForwardPush(u) PROVE SubTypes'
  BY <1>9 DEF ForwardPush, SubStep
<1>10. ASSUME NEW u \in Subs, ForwardEnd(u) PROVE SubTypes'
  BY <1>10, Zenon DEF ForwardEnd, SubStep, Ended
<1>11. ASSUME NEW u \in Subs, Read(u) PROVE SubTypes'
  BY <1>11 DEF Read
<1>12. ASSUME NEW s \in Sessions,
            \/ Dial(s) \/ Verify(s) \/ Refuse(s) \/ register(s) \/ StartLoop(s)
            \/ Receive(s) \/ resolve(s) \/ DropChunk(s) \/ Heartbeat(s)
            \/ Return(s) \/ unregister(s) \/ UnregisterClose(s)
            \/ SenderSend(s) \/ SenderStop(s) \/ DisconnectClose(s)
            \/ AgentReceive(s) \/ AgentLeave(s)
    PROVE UNCHANGED <<subPc, subSess, chunks, pushing, output, received>>
  BY <1>12, Zenon DEF Dial, ConnStep, Verify, Refuse, register, StartLoop, Receive,
     resolve, WaiterOf, DropChunk, GiveUp, Heartbeat, RowMissing, Return,
     unregister, Without, UnregisterClose, SenderSend, SenderStop,
     DisconnectClose, AgentReceive, AgentLeave, close
<1>13. ASSUME NEW v \in Servers,
            \/ DeleteServer(v) \/ Disconnect(v)
    PROVE UNCHANGED <<subPc, subSess, chunks, pushing, output, received>>
  BY <1>13, Zenon DEF DeleteServer, Disconnect, Taken
<1>14. ASSUME NEW c \in Calls,
            \/ (\E v \in Servers : DispatchLookup(c, v)) \/ DispatchPend(c)
            \/ DispatchSend(c) \/ DispatchAnswer(c) \/ DispatchAbort(c)
            \/ DispatchReturn(c) \/ CancelCall(c)
            \/ (\E ok \in BOOLEAN : execute(c, ok))
    PROVE UNCHANGED <<subPc, subSess, chunks, pushing, output, received>>
  BY <1>14, Zenon DEF DispatchLookup, CallStep, DispatchPend, WithWaiter,
     DispatchSend, DispatchAnswer, DispatchAbort, Closed, DispatchReturn,
     WithoutWaiter, CancelCall, execute, Outbound
<1>15. ASSUME NEW u \in Subs,
            \/ CancelSub(u) \/ emit(u) \/ runSubscription(u)
    PROVE UNCHANGED <<subPc, subSess, chunks, pushing, output, received>>
  BY <1>15, Zenon DEF CancelSub, emit, Outbound, runSubscription
<1> QED
  BY <1>1, <1>2, <1>3, <1>4, <1>5, <1>6, <1>7, <1>8, <1>9, <1>10,
     <1>11, <1>12, <1>13, <1>14, <1>15, Zenon
     DEF Next, HandlerStep, SenderStep, DispatchStep, SubscribeStep, vars

\* Every step keeps the types of the agents and of the messages in flight.
LEMMA AgentTypesNext == TypeOK /\ [Next]_vars => AgentTypes'
<1> SUFFICES ASSUME TypeOK, [Next]_vars
             PROVE  AgentTypes'
  BY Zenon
<1> USE SessionAssumption
<1> USE DEF TypeOK, AgentTypes, mgrVars, connVars, delVars, callVars, subVars,
            queueVars, userVars, netVars, workVars, agentVars, notSub, notCall,
            coreVars
<1>1. CASE UNCHANGED <<alive, up, down, agentCmd, agentSub, emitted>>
  BY <1>1, Zenon
<1>2. ASSUME NEW s \in Sessions, Dial(s) PROVE AgentTypes'
  BY <1>2, Zenon DEF Dial, ConnStep
<1>3. ASSUME NEW s \in Sessions, Receive(s) PROVE AgentTypes'
  <2>1. up' \in [Sessions -> Seq(AgentMessage)]
    BY <1>3, TailType, Zenon DEF Receive
  <2> QED
    BY <1>3, <2>1, Zenon DEF Receive
<1>4. ASSUME NEW s \in Sessions, SenderSend(s) PROVE AgentTypes'
  <2>1. Head(send[s]) \in CoreMessage
    BY <1>4, TailType, Zenon DEF SenderSend, ManagerTypes
  <2>2. down' \in [Sessions -> Seq(CoreMessage)]
    BY <1>4, <2>1, AppendType, Zenon DEF SenderSend
  <2> QED
    BY <1>4, <2>2, Zenon DEF SenderSend
<1>5. ASSUME NEW s \in Sessions, AgentReceive(s) PROVE AgentTypes'
  <2>1. down' \in [Sessions -> Seq(CoreMessage)]
    BY <1>5, TailType, Zenon DEF AgentReceive
  <2> QED
    BY <1>5, <2>1, Zenon DEF AgentReceive
<1>6. ASSUME NEW s \in Sessions, AgentLeave(s) PROVE AgentTypes'
  BY <1>6 DEF AgentLeave
<1>7. ASSUME NEW c \in Calls, NEW ok \in BOOLEAN, execute(c, ok) PROVE AgentTypes'
  BY <1>7, MessageTypes, AppendType, Zenon DEF execute, Outbound
<1>8. ASSUME NEW u \in Subs, emit(u) PROVE AgentTypes'
  <2>1. emitted[u] + 1 \in Nat /\ Chunk(u, emitted[u] + 1) \in AgentMessage
    BY MessageTypes
  <2>2. ASSUME NEW m \in AgentMessage, Outbound(subSess[u], m)
        PROVE  up' \in [Sessions -> Seq(AgentMessage)]
    BY <2>2, AppendType, Zenon DEF Outbound
  <2> QED
    BY <1>8, <2>1, <2>2, Zenon DEF emit
<1>9. ASSUME NEW u \in Subs, runSubscription(u) PROVE AgentTypes'
  <2>1. emitted[u] + 1 \in Nat /\ Eof(u, emitted[u] + 1) \in AgentMessage
    BY MessageTypes
  <2>2. ASSUME NEW m \in AgentMessage, Outbound(subSess[u], m)
        PROVE  up' \in [Sessions -> Seq(AgentMessage)]
    BY <2>2, AppendType, Zenon DEF Outbound
  <2> QED
    BY <1>9, <2>1, <2>2, Zenon DEF runSubscription
<1>10. ASSUME NEW s \in Sessions,
            \/ Verify(s) \/ Refuse(s) \/ register(s) \/ StartLoop(s)
            \/ resolve(s) \/ resolveChunk(s) \/ DropChunk(s) \/ Heartbeat(s)
            \/ Return(s) \/ unregister(s) \/ UnregisterClose(s)
            \/ SenderStop(s) \/ DisconnectClose(s)
    PROVE UNCHANGED <<alive, up, down, agentCmd, agentSub, emitted>>
  BY <1>10, Zenon DEF Verify, ConnStep, Refuse, register, StartLoop, resolve,
     WaiterOf, resolveChunk, DropChunk, GiveUp, Heartbeat, RowMissing, Return,
     unregister, Without, UnregisterClose, SenderStop, DisconnectClose, close
<1>11. ASSUME NEW v \in Servers,
            \/ DeleteServer(v) \/ Disconnect(v)
    PROVE UNCHANGED <<alive, up, down, agentCmd, agentSub, emitted>>
  BY <1>11, Zenon DEF DeleteServer, Disconnect, Taken
<1>12. ASSUME NEW c \in Calls,
            \/ (\E v \in Servers : DispatchLookup(c, v)) \/ DispatchPend(c)
            \/ DispatchSend(c) \/ DispatchAnswer(c) \/ DispatchAbort(c)
            \/ DispatchReturn(c) \/ CancelCall(c)
    PROVE UNCHANGED <<alive, up, down, agentCmd, agentSub, emitted>>
  BY <1>12, Zenon DEF DispatchLookup, CallStep, DispatchPend, WithWaiter,
     DispatchSend, DispatchAnswer, DispatchAbort, Closed, DispatchReturn,
     WithoutWaiter, CancelCall
<1>13. ASSUME NEW u \in Subs,
            \/ (\E v \in Servers : SubLookup(u, v)) \/ SubAdd(u) \/ SubSend(u)
            \/ removeStream(u) \/ SendCancel(u) \/ ForwardTake(u)
            \/ ForwardPush(u) \/ ForwardEnd(u) \/ CancelSub(u) \/ Read(u)
    PROVE UNCHANGED <<alive, up, down, agentCmd, agentSub, emitted>>
  BY <1>13, Zenon DEF SubLookup, SubStep, SubAdd, Refused, SubSend, removeStream,
     Ended, SendCancel, ForwardTake, ForwardPush, ForwardEnd, CancelSub, Read
<1> QED
  BY <1>1, <1>2, <1>3, <1>4, <1>5, <1>6, <1>7, <1>8, <1>9, <1>10,
     <1>11, <1>12, <1>13, ZenonT(60)
     DEF Next, HandlerStep, SenderStep, DispatchStep, SubscribeStep, vars

\* Before the first connection every variable has its type.
LEMMA TypeInit == Init => TypeOK
  BY SessionAssumption DEF Init, TypeOK, ManagerTypes, HandlerTypes, CallTypes,
     SubTypes, AgentTypes, NoMessage

\* Every step keeps every type: one lemma per part above.
LEMMA TypeNext == TypeOK /\ [Next]_vars => TypeOK'
  BY ManagerTypesNext, HandlerTypesNext, CallTypesNext, SubTypesNext, AgentTypesNext, Zenon
     DEF TypeOK

\* Every variable of the Core's manager, its Connect handlers, the callers and
\* the agents keeps its type, for any number of servers, sessions, commands
\* and subscriptions and any capacities; in particular the receive loop never
\* resolves a message of the wrong kind and Disconnect never closes nil.
THEOREM TypeCorrect == Spec => []TypeOK
<1>1. Init => TypeOK
  BY TypeInit, Zenon
<1>2. TypeOK /\ [Next]_vars => TypeOK'
  BY TypeNext, Zenon
<1> QED
  BY <1>1, <1>2, PTL DEF Spec

-----------------------------------------------------------------------------
(* The session map.                                                        *)

New == {"none", "hello", "verified"}

\* A session Disconnect is about to close is registered no more and its
\* handler is past the registration.
ClosingIsDetached ==
    \A s \in closing : sessions[ServerOf[s]] # s /\ conn[s] \notin New

\* A session before its registration is open and nobody else knows it.
NewIsOpen == \A s \in Sessions : conn[s] \in New => ~done[s]

\* The map and what it needs of the sessions that are not in it yet or no more.
MapInv == RegisteredIsOpen /\ LiveIsRegistered /\ ClosingIsDetached /\ NewIsOpen

\* Before the first connection the session map is empty and nothing is closed.
LEMMA MapInit == Init => MapInv
  BY DEF Init, MapInv, RegisteredIsOpen, LiveIsRegistered, ClosingIsDetached, NewIsOpen

\* Every step of Connect, register, unregister, Disconnect and close keeps the
\* session map.
LEMMA MapNext == TypeOK /\ MapInv /\ [Next]_vars => MapInv'
<1> SUFFICES ASSUME TypeOK, MapInv, [Next]_vars
             PROVE  MapInv'
  BY Zenon
<1> USE SessionAssumption
<1>0. /\ sessions \in [Servers -> Sessions \cup {None}]
      /\ done \in [Sessions -> BOOLEAN]
      /\ conn \in [Sessions -> {"none", "hello", "verified", "registered", "loop",
                              "resolve", "chunk", "unregister", "close", "ended"}]
      /\ closing \in SUBSET Sessions
  BY Zenon DEF TypeOK, ManagerTypes, HandlerTypes
<1> USE <1>0
<1> USE DEF MapInv, RegisteredIsOpen, LiveIsRegistered, ClosingIsDetached,
            NewIsOpen, New, mgrVars, connVars, delVars, callVars, subVars,
            queueVars, userVars, netVars, workVars, agentVars, notSub, notCall,
            coreVars
<1>1. CASE UNCHANGED <<sessions, done, conn, closing>>
  BY <1>1, Zenon
<1>2. ASSUME NEW s \in Sessions, Dial(s) PROVE MapInv'
  BY <1>2 DEF Dial, ConnStep
<1>3. ASSUME NEW s \in Sessions, Verify(s) PROVE MapInv'
  BY <1>3 DEF Verify, ConnStep
<1>4. ASSUME NEW s \in Sessions, Refuse(s) PROVE MapInv'
  <2>1. /\ conn[s] \in {"hello", "verified"} /\ conn' = [conn EXCEPT ![s] = "ended"]
        /\ UNCHANGED <<sessions, done, closing>>
    BY <1>4, Zenon DEF Refuse, ConnStep
  <2>2. RegisteredIsOpen'
    BY <2>1
  <2>3. LiveIsRegistered'
    BY <2>1
  <2>4. ClosingIsDetached'
    BY <2>1, Zenon
  <2>5. NewIsOpen'
    BY <2>1, Zenon
  <2> QED
    BY <2>2, <2>3, <2>4, <2>5, Zenon
<1>5. ASSUME NEW s \in Sessions, register(s) PROVE MapInv'
  <2>1. /\ conn[s] = "verified" /\ conn' = [conn EXCEPT ![s] = "registered"]
        /\ done' = [t \in Sessions |-> done[t] \/ t = sessions[ServerOf[s]]]
        /\ sessions' = [sessions EXCEPT ![ServerOf[s]] = s]
        /\ closing' = closing
    BY <1>5, Zenon DEF register, ConnStep, close
  <2>2. RegisteredIsOpen'
    BY <2>1
  <2>3. LiveIsRegistered'
    <3> SUFFICES ASSUME NEW t \in Sessions,
                        conn'[t] \in {"registered", "loop", "resolve", "chunk", "unregister"},
                        ~done'[t], t \notin closing'
                 PROVE  sessions'[ServerOf[t]] = t
      BY Zenon
    <3>1. CASE t = s
      BY <2>1, <3>1, Zenon
    <3>2. CASE t # s
      <4>1. ~done[t] /\ t # sessions[ServerOf[s]] /\ conn'[t] = conn[t]
        BY <2>1, <3>2, Zenon
      <4>2. sessions[ServerOf[t]] = t
        BY <2>1, <4>1, Zenon
      <4> QED
        BY <2>1, <4>1, <4>2, Zenon
    <3> QED
      BY <3>1, <3>2, Zenon
  <2>4. ClosingIsDetached'
    BY <2>1
  <2>5. NewIsOpen'
    <3> SUFFICES ASSUME NEW t \in Sessions, conn'[t] \in New PROVE ~done'[t]
      BY Zenon
    <3>1. conn[t] \in New /\ ~done[t]
      BY <2>1, Zenon
    <3>2. t # sessions[ServerOf[s]]
      BY <3>1
    <3> QED
      BY <2>1, <3>1, <3>2, Zenon
  <2> QED
    BY <2>2, <2>3, <2>4, <2>5, Zenon
<1>6. ASSUME NEW s \in Sessions, StartLoop(s) PROVE MapInv'
  BY <1>6 DEF StartLoop, ConnStep
<1>7. ASSUME NEW s \in Sessions, Receive(s) PROVE MapInv'
  <2>1. /\ conn[s] = "loop"
        /\ \/ conn' = conn
           \/ conn' = [conn EXCEPT ![s] = "resolve"]
           \/ conn' = [conn EXCEPT ![s] = "chunk"]
        /\ UNCHANGED <<sessions, done, closing>>
    BY <1>7, Zenon DEF Receive
  <2>2. RegisteredIsOpen'
    <3> SUFFICES ASSUME NEW v \in Servers, sessions[v] # None
                 PROVE  /\ ServerOf[sessions[v]] = v
                        /\ ~done'[sessions[v]]
                        /\ conn'[sessions[v]] \in {"registered", "loop", "resolve",
                                                  "chunk", "unregister"}
      BY <2>1, Zenon
    <3>1. /\ sessions[v] \in Sessions
          /\ ~done[sessions[v]]
          /\ conn[sessions[v]] \in {"registered", "loop", "resolve", "chunk", "unregister"}
      BY <2>1
    <3>2. CASE conn' = conn
      BY <2>1, <3>1, <3>2, Zenon
    <3>3. CASE conn' = [conn EXCEPT ![s] = "resolve"]
      BY <2>1, <3>1, <3>3
    <3>4. CASE conn' = [conn EXCEPT ![s] = "chunk"]
      BY <2>1, <3>1, <3>4, Zenon
    <3> QED
      BY <2>1, <3>2, <3>3, <3>4, Zenon
  <2>3. LiveIsRegistered'
    BY <2>1
  <2>4. ClosingIsDetached'
    BY <2>1
  <2>5. NewIsOpen'
    BY <2>1
  <2> QED
    BY <2>2, <2>3, <2>4, <2>5, Zenon
<1>8. ASSUME NEW s \in Sessions, resolve(s) PROVE MapInv'
  BY <1>8 DEF resolve, ConnStep, WaiterOf
<1>9. ASSUME NEW s \in Sessions, resolveChunk(s) PROVE MapInv'
  BY <1>9 DEF resolveChunk, ConnStep
<1>10. ASSUME NEW s \in Sessions, DropChunk(s) PROVE MapInv'
  BY <1>10 DEF DropChunk, ConnStep, GiveUp
<1>11. ASSUME NEW s \in Sessions, Heartbeat(s) PROVE MapInv'
  BY <1>11 DEF Heartbeat, ConnStep, RowMissing
<1>12. ASSUME NEW s \in Sessions, Return(s) PROVE MapInv'
  <2>1. /\ conn[s] \in {"registered", "loop"} /\ conn' = [conn EXCEPT ![s] = "unregister"]
        /\ UNCHANGED <<sessions, done, closing>>
    BY <1>12, Zenon DEF Return, ConnStep
  <2>2. RegisteredIsOpen'
    BY <2>1
  <2>3. LiveIsRegistered'
    BY <2>1
  <2>4. ClosingIsDetached'
    BY <2>1, Zenon
  <2>5. NewIsOpen'
    BY <2>1, Zenon
  <2> QED
    BY <2>2, <2>3, <2>4, <2>5, Zenon
<1>13. ASSUME NEW s \in Sessions, unregister(s) PROVE MapInv'
  <2>1. /\ conn[s] = "unregister" /\ conn' = [conn EXCEPT ![s] = "close"]
        /\ sessions' = Without(s)
        /\ UNCHANGED <<done, closing>>
    BY <1>13, Zenon DEF unregister, ConnStep
  <2> USE DEF Without
  <2>2. RegisteredIsOpen'
    BY <2>1
  <2>3. LiveIsRegistered'
    BY <2>1
  <2>4. ClosingIsDetached'
    BY <2>1
  <2>5. NewIsOpen'
    BY <2>1, Zenon
  <2> QED
    BY <2>2, <2>3, <2>4, <2>5, Zenon
<1>14. ASSUME NEW s \in Sessions, UnregisterClose(s) PROVE MapInv'
  <2>1. /\ conn[s] = "close" /\ conn' = [conn EXCEPT ![s] = "ended"]
        /\ done' = [t \in Sessions |-> done[t] \/ t = s]
        /\ UNCHANGED <<sessions, closing>>
    BY <1>14, Zenon DEF UnregisterClose, ConnStep, close
  <2>2. RegisteredIsOpen'
    <3> SUFFICES ASSUME NEW v \in Servers, sessions[v] # None
                 PROVE  /\ ServerOf[sessions[v]] = v
                        /\ ~done'[sessions[v]]
                        /\ conn'[sessions[v]] \in {"registered", "loop", "resolve",
                                                  "chunk", "unregister"}
      BY <2>1, Zenon
    <3>1. sessions[v] \in Sessions /\ sessions[v] # s /\ ~done[sessions[v]]
      BY <2>1
    <3> QED
      BY <2>1, <3>1, Zenon
  <2>3. LiveIsRegistered'
    BY <2>1
  <2>4. ClosingIsDetached'
    BY <2>1, Zenon
  <2>5. NewIsOpen'
    BY <2>1, Zenon
  <2> QED
    BY <2>2, <2>3, <2>4, <2>5, Zenon
<1>15. ASSUME NEW s \in Sessions, DisconnectClose(s) PROVE MapInv'
  <2>1. /\ s \in closing /\ closing' = closing \ {s}
        /\ done' = [t \in Sessions |-> done[t] \/ t = s]
        /\ UNCHANGED <<sessions, conn>>
    BY <1>15, Zenon DEF DisconnectClose, close
  <2>2. RegisteredIsOpen'
    <3> SUFFICES ASSUME NEW v \in Servers, sessions[v] # None
                 PROVE  /\ ServerOf[sessions[v]] = v
                        /\ ~done'[sessions[v]]
                        /\ conn'[sessions[v]] \in {"registered", "loop", "resolve",
                                                  "chunk", "unregister"}
      BY <2>1, Zenon
    <3>1. sessions[v] \in Sessions /\ sessions[v] # s /\ ~done[sessions[v]]
      BY <2>1
    <3> QED
      BY <2>1, <3>1, Zenon
  <2>3. LiveIsRegistered'
    BY <2>1, Zenon
  <2>4. ClosingIsDetached'
    BY <2>1, Zenon
  <2>5. NewIsOpen'
    BY <2>1, Zenon
  <2> QED
    BY <2>2, <2>3, <2>4, <2>5, Zenon
<1>16. ASSUME NEW v \in Servers, Disconnect(v) PROVE MapInv'
  <2>1. /\ closing' = closing \cup ({sessions[v]} \ {None})
        /\ sessions' = [sessions EXCEPT ![v] = None]
        /\ UNCHANGED <<done, conn>>
    BY <1>16, Zenon DEF Disconnect, Taken
  <2>2. RegisteredIsOpen'
    BY <2>1
  <2>3. LiveIsRegistered'
    BY <2>1, Zenon
  <2>4. ClosingIsDetached'
    BY <2>1
  <2>5. NewIsOpen'
    BY <2>1, Zenon
  <2> QED
    BY <2>2, <2>3, <2>4, <2>5, Zenon
<1>17. ASSUME NEW s \in Sessions,
            \/ SenderSend(s) \/ SenderStop(s) \/ AgentReceive(s)
            \/ AgentLeave(s)
    PROVE UNCHANGED <<sessions, done, conn, closing>>
  BY <1>17, Zenon DEF SenderSend, SenderStop, AgentReceive, AgentLeave
<1>18. ASSUME NEW v \in Servers,
            \/ DeleteServer(v)
    PROVE UNCHANGED <<sessions, done, conn, closing>>
  BY <1>18, Zenon DEF DeleteServer
<1>19. ASSUME NEW c \in Calls,
            \/ (\E v \in Servers : DispatchLookup(c, v)) \/ DispatchPend(c)
            \/ DispatchSend(c) \/ DispatchAnswer(c) \/ DispatchAbort(c)
            \/ DispatchReturn(c) \/ CancelCall(c)
            \/ (\E ok \in BOOLEAN : execute(c, ok))
    PROVE UNCHANGED <<sessions, done, conn, closing>>
  BY <1>19, Zenon DEF DispatchLookup, CallStep, DispatchPend, WithWaiter,
     DispatchSend, DispatchAnswer, DispatchAbort, Closed, DispatchReturn,
     WithoutWaiter, CancelCall, execute, Outbound
<1>20. ASSUME NEW u \in Subs,
            \/ (\E v \in Servers : SubLookup(u, v)) \/ SubAdd(u) \/ SubSend(u)
            \/ removeStream(u) \/ SendCancel(u) \/ ForwardTake(u)
            \/ ForwardPush(u) \/ ForwardEnd(u) \/ CancelSub(u) \/ Read(u)
            \/ emit(u) \/ runSubscription(u)
    PROVE UNCHANGED <<sessions, done, conn, closing>>
  BY <1>20, Zenon DEF SubLookup, SubStep, SubAdd, Refused, SubSend, removeStream,
     Ended, SendCancel, ForwardTake, ForwardPush, ForwardEnd, CancelSub, Read,
     emit, Outbound, runSubscription
<1> HIDE DEF MapInv, RegisteredIsOpen, LiveIsRegistered, ClosingIsDetached,
             NewIsOpen, New
<1> QED
  BY <1>1, <1>2, <1>3, <1>4, <1>5, <1>6, <1>7, <1>8, <1>9, <1>10,
     <1>11, <1>12, <1>13, <1>14, <1>15, <1>16, <1>17, <1>18, <1>19, <1>20, Zenon
     DEF Next, HandlerStep, SenderStep, DispatchStep, SubscribeStep, vars

\* A session found in Manager.sessions is not closed and its handler is still
\* running, and a running handler with an open session is found there unless
\* Disconnect has just taken it out, whatever the interleaving of register,
\* unregister, Disconnect and close, for any number of servers and sessions.
THEOREM SessionMap == Spec => [](RegisteredIsOpen /\ LiveIsRegistered)
<1>1. Init => TypeOK /\ MapInv
  BY TypeInit, MapInit, Zenon
<1>2. TypeOK /\ MapInv /\ [Next]_vars => (TypeOK /\ MapInv)'
  BY TypeNext, MapNext, Zenon
<1>3. MapInv => RegisteredIsOpen /\ LiveIsRegistered
  BY Zenon DEF MapInv
<1> QED
  BY <1>1, <1>2, <1>3, PTL DEF Spec

-----------------------------------------------------------------------------
(* The waiters of Dispatch.                                                *)

\* A Dispatch past its lookup works on the session it found.
CallHasSession ==
    \A c \in Calls : callPc[c] \in {"pend", "send", "wait", "return"} => callSess[c] \in Sessions

WaiterInv == NoOrphanWaiter /\ NoLostWaiter /\ CallHasSession

\* Before the first Dispatch there is no waiter.
LEMMA WaiterInit == Init => WaiterInv
  BY DEF Init, WaiterInv, NoOrphanWaiter, NoLostWaiter, CallHasSession

\* Every step of Dispatch and every close of a session keeps its waiters.
LEMMA WaiterNext == TypeOK /\ WaiterInv /\ [Next]_vars => WaiterInv'
<1> SUFFICES ASSUME TypeOK, WaiterInv, [Next]_vars
             PROVE  WaiterInv'
  BY Zenon
<1> USE SessionAssumption
<1>0. /\ sessions \in [Servers -> Sessions \cup {None}]
      /\ done \in [Sessions -> BOOLEAN]
      /\ pending \in [Sessions -> SUBSET Calls]
      /\ callPc \in [Calls -> {"idle", "pend", "send", "wait", "return", "done"}]
      /\ callSess \in [Calls -> Sessions \cup {None}]
  BY Zenon DEF TypeOK, ManagerTypes, CallTypes
<1> USE <1>0
<1> USE DEF WaiterInv, NoOrphanWaiter, NoLostWaiter, CallHasSession, mgrVars,
            connVars, delVars, callVars, subVars, queueVars, userVars, netVars,
            workVars, agentVars, notSub, notCall, coreVars
<1>1. CASE UNCHANGED <<done, pending, callPc, callSess>>
  BY <1>1, Zenon
<1>2. ASSUME NEW s \in Sessions, register(s) PROVE WaiterInv'
  <2>1. /\ done' = [t \in Sessions |-> done[t] \/ t = sessions[ServerOf[s]]]
        /\ pending' = [t \in Sessions |->
                         IF t = sessions[ServerOf[s]] /\ ~done[t] THEN {} ELSE pending[t]]
        /\ UNCHANGED <<callPc, callSess>>
    BY <1>2, Zenon DEF register, close, FirstClose
  <2>2. NoOrphanWaiter'
    BY <2>1, Zenon
  <2>3. NoLostWaiter'
    BY <2>1, Zenon
  <2>4. CallHasSession'
    BY <2>1, Zenon
  <2> QED
    BY <2>2, <2>3, <2>4, Zenon
<1>3. ASSUME NEW s \in Sessions, UnregisterClose(s) PROVE WaiterInv'
  <2>1. /\ done' = [t \in Sessions |-> done[t] \/ t = s]
        /\ pending' = [t \in Sessions |->
                         IF t = s /\ ~done[t] THEN {} ELSE pending[t]]
        /\ UNCHANGED <<callPc, callSess>>
    BY <1>3, Zenon DEF UnregisterClose, close, FirstClose
  <2>2. NoOrphanWaiter'
    BY <2>1, Zenon
  <2>3. NoLostWaiter'
    BY <2>1, Zenon
  <2>4. CallHasSession'
    BY <2>1, Zenon
  <2> QED
    BY <2>2, <2>3, <2>4, Zenon
<1>4. ASSUME NEW s \in Sessions, DisconnectClose(s) PROVE WaiterInv'
  <2>1. /\ done' = [t \in Sessions |-> done[t] \/ t = s]
        /\ pending' = [t \in Sessions |->
                         IF t = s /\ ~done[t] THEN {} ELSE pending[t]]
        /\ UNCHANGED <<callPc, callSess>>
    BY <1>4, Zenon DEF DisconnectClose, close, FirstClose
  <2>2. NoOrphanWaiter'
    BY <2>1, Zenon
  <2>3. NoLostWaiter'
    BY <2>1, Zenon
  <2>4. CallHasSession'
    BY <2>1, Zenon
  <2> QED
    BY <2>2, <2>3, <2>4, Zenon
<1>5. ASSUME NEW c \in Calls, NEW v \in Servers, DispatchLookup(c, v) PROVE WaiterInv'
  <2>1. /\ callPc[c] = "idle"
        /\ \/ /\ callPc' = [callPc EXCEPT ![c] = "pend"]
              /\ sessions[v] \in Sessions
              /\ callSess' = [callSess EXCEPT ![c] = sessions[v]]
           \/ /\ callPc' = [callPc EXCEPT ![c] = "done"]
              /\ callSess' = callSess
        /\ UNCHANGED <<done, pending>>
    BY <1>5, Zenon DEF DispatchLookup, CallStep
  <2>2. NoOrphanWaiter'
    BY <2>1
  <2>3. NoLostWaiter'
    BY <2>1
  <2>4. CallHasSession'
    BY <2>1
  <2> QED
    BY <2>2, <2>3, <2>4, Zenon
<1>6. ASSUME NEW c \in Calls, DispatchPend(c) PROVE WaiterInv'
  BY <1>6 DEF DispatchPend, CallStep, WithWaiter
<1>7. ASSUME NEW c \in Calls, DispatchSend(c) PROVE WaiterInv'
  BY <1>7 DEF DispatchSend, CallStep
<1>8. ASSUME NEW c \in Calls, DispatchAnswer(c) PROVE WaiterInv'
  BY <1>8 DEF DispatchAnswer, CallStep
<1>9. ASSUME NEW c \in Calls, DispatchAbort(c) PROVE WaiterInv'
  BY <1>9 DEF DispatchAbort, CallStep, Closed
<1>10. ASSUME NEW c \in Calls, DispatchReturn(c) PROVE WaiterInv'
  BY <1>10 DEF DispatchReturn, CallStep, WithoutWaiter
<1>11. ASSUME NEW s \in Sessions,
            \/ Dial(s) \/ Verify(s) \/ Refuse(s) \/ StartLoop(s) \/ Receive(s)
            \/ resolve(s) \/ resolveChunk(s) \/ DropChunk(s) \/ Heartbeat(s)
            \/ Return(s) \/ unregister(s) \/ SenderSend(s) \/ SenderStop(s)
            \/ AgentReceive(s) \/ AgentLeave(s)
    PROVE UNCHANGED <<done, pending, callPc, callSess>>
  BY <1>11, Zenon DEF Dial, ConnStep, Verify, Refuse, StartLoop, Receive, resolve,
     WaiterOf, resolveChunk, DropChunk, GiveUp, Heartbeat, RowMissing, Return,
     unregister, Without, SenderSend, SenderStop, AgentReceive, AgentLeave
<1>12. ASSUME NEW v \in Servers,
            \/ DeleteServer(v) \/ Disconnect(v)
    PROVE UNCHANGED <<done, pending, callPc, callSess>>
  BY <1>12, Zenon DEF DeleteServer, Disconnect, Taken
<1>13. ASSUME NEW c \in Calls,
            \/ CancelCall(c) \/ (\E ok \in BOOLEAN : execute(c, ok))
    PROVE UNCHANGED <<done, pending, callPc, callSess>>
  BY <1>13, Zenon DEF CancelCall, execute, Outbound
<1>14. ASSUME NEW u \in Subs,
            \/ (\E v \in Servers : SubLookup(u, v)) \/ SubAdd(u) \/ SubSend(u)
            \/ removeStream(u) \/ SendCancel(u) \/ ForwardTake(u)
            \/ ForwardPush(u) \/ ForwardEnd(u) \/ CancelSub(u) \/ Read(u)
            \/ emit(u) \/ runSubscription(u)
    PROVE UNCHANGED <<done, pending, callPc, callSess>>
  BY <1>14, Zenon DEF SubLookup, SubStep, SubAdd, Refused, SubSend, removeStream,
     Ended, SendCancel, ForwardTake, ForwardPush, ForwardEnd, CancelSub, Read,
     emit, Outbound, runSubscription
<1> HIDE DEF WaiterInv, NoOrphanWaiter, NoLostWaiter, CallHasSession
<1> QED
  BY <1>1, <1>2, <1>3, <1>4, <1>5, <1>6, <1>7, <1>8, <1>9, <1>10,
     <1>11, <1>12, <1>13, <1>14, Zenon
     DEF Next, HandlerStep, SenderStep, DispatchStep, SubscribeStep, vars

\* Dispatch neither loses a wake-up nor leaves a waiter behind, for any number
\* of servers, sessions and concurrent calls: a blocked call is registered in
\* the session it waits for unless that session is closed, and every entry of
\* session.pending belongs to a Dispatch that will still remove it.
THEOREM Waiters == Spec => [](NoLostWaiter /\ NoOrphanWaiter)
<1>1. Init => TypeOK /\ WaiterInv
  BY TypeInit, WaiterInit, Zenon
<1>2. TypeOK /\ WaiterInv /\ [Next]_vars => (TypeOK /\ WaiterInv)'
  BY TypeNext, WaiterNext, Zenon
<1>3. WaiterInv => NoLostWaiter /\ NoOrphanWaiter
  BY Zenon DEF WaiterInv
<1> QED
  BY <1>1, <1>2, <1>3, PTL DEF Spec

-----------------------------------------------------------------------------
(* The channels of Subscribe.                                              *)

\* A Subscribe past its lookup works on the session it found.
SubHasSession ==
    \A u \in Subs : subPc[u] \notin {"idle", "refused"} => subSess[u] \in Sessions

StreamInv == NoOrphanStream /\ SubHasSession

\* Before the first Subscribe there is no stream.
LEMMA StreamInit == Init => StreamInv
  BY DEF Init, StreamInv, NoOrphanStream, SubHasSession

\* Every step of Subscribe, of its goroutine and every close keeps the streams.
LEMMA StreamNext == TypeOK /\ StreamInv /\ [Next]_vars => StreamInv'
<1> SUFFICES ASSUME TypeOK, StreamInv, [Next]_vars
             PROVE  StreamInv'
  BY Zenon
<1> USE SessionAssumption
<1>0. /\ sessions \in [Servers -> Sessions \cup {None}]
      /\ done \in [Sessions -> BOOLEAN]
      /\ streams \in [Sessions -> SUBSET Subs]
      /\ subPc \in [Subs -> {"idle", "add", "send", "forward", "push", "remove",
                             "cancel", "closed", "refused"}]
      /\ subSess \in [Subs -> Sessions \cup {None}]
  BY Zenon DEF TypeOK, ManagerTypes, SubTypes
<1> USE <1>0
<1> USE DEF StreamInv, NoOrphanStream, SubHasSession, mgrVars, connVars,
            delVars, callVars, subVars, queueVars, userVars, netVars, workVars,
            agentVars, notSub, notCall, coreVars
<1>1. CASE UNCHANGED <<done, streams, subPc, subSess>>
  BY <1>1, Zenon
<1>2. ASSUME NEW s \in Sessions, register(s) PROVE StreamInv'
  <2>1. /\ done' = [t \in Sessions |-> done[t] \/ t = sessions[ServerOf[s]]]
        /\ streams' = [t \in Sessions |->
                         IF t = sessions[ServerOf[s]] /\ ~done[t] THEN {} ELSE streams[t]]
        /\ UNCHANGED <<subPc, subSess>>
    BY <1>2, Zenon DEF register, close, FirstClose
  <2>2. NoOrphanStream'
    BY <2>1, Zenon
  <2>3. SubHasSession'
    BY <2>1, Zenon
  <2> QED
    BY <2>2, <2>3, Zenon
<1>3. ASSUME NEW s \in Sessions, UnregisterClose(s) PROVE StreamInv'
  <2>1. /\ done' = [t \in Sessions |-> done[t] \/ t = s]
        /\ streams' = [t \in Sessions |->
                         IF t = s /\ ~done[t] THEN {} ELSE streams[t]]
        /\ UNCHANGED <<subPc, subSess>>
    BY <1>3, Zenon DEF UnregisterClose, close, FirstClose
  <2>2. NoOrphanStream'
    BY <2>1, Zenon
  <2>3. SubHasSession'
    BY <2>1, Zenon
  <2> QED
    BY <2>2, <2>3, Zenon
<1>4. ASSUME NEW s \in Sessions, DisconnectClose(s) PROVE StreamInv'
  <2>1. /\ done' = [t \in Sessions |-> done[t] \/ t = s]
        /\ streams' = [t \in Sessions |->
                         IF t = s /\ ~done[t] THEN {} ELSE streams[t]]
        /\ UNCHANGED <<subPc, subSess>>
    BY <1>4, Zenon DEF DisconnectClose, close, FirstClose
  <2>2. NoOrphanStream'
    BY <2>1, Zenon
  <2>3. SubHasSession'
    BY <2>1, Zenon
  <2> QED
    BY <2>2, <2>3, Zenon
<1>5. ASSUME NEW u \in Subs, NEW v \in Servers, SubLookup(u, v) PROVE StreamInv'
  <2>1. /\ subPc[u] = "idle"
        /\ \/ /\ subPc' = [subPc EXCEPT ![u] = "add"]
              /\ sessions[v] \in Sessions
              /\ subSess' = [subSess EXCEPT ![u] = sessions[v]]
           \/ /\ subPc' = [subPc EXCEPT ![u] = "refused"]
              /\ subSess' = subSess
        /\ UNCHANGED <<done, streams>>
    BY <1>5, Zenon DEF SubLookup, SubStep
  <2>2. NoOrphanStream'
    BY <2>1
  <2>3. SubHasSession'
    BY <2>1
  <2> QED
    BY <2>2, <2>3, Zenon
<1>6. ASSUME NEW u \in Subs, SubAdd(u) PROVE StreamInv'
  BY <1>6 DEF SubAdd, SubStep, Refused
<1>7. ASSUME NEW u \in Subs, SubSend(u) PROVE StreamInv'
  BY <1>7 DEF SubSend, SubStep
<1>8. ASSUME NEW u \in Subs, removeStream(u) PROVE StreamInv'
  BY <1>8 DEF removeStream, SubStep, Ended
<1>9. ASSUME NEW u \in Subs, SendCancel(u) PROVE StreamInv'
  BY <1>9 DEF SendCancel, SubStep
<1>10. ASSUME NEW u \in Subs, ForwardTake(u) PROVE StreamInv'
  BY <1>10 DEF ForwardTake, SubStep
<1>11. ASSUME NEW u \in Subs, ForwardPush(u) PROVE StreamInv'
  BY <1>11 DEF ForwardPush, SubStep
<1>12. ASSUME NEW u \in Subs, ForwardEnd(u) PROVE StreamInv'
  BY <1>12 DEF ForwardEnd, SubStep, Ended
<1>13. ASSUME NEW s \in Sessions,
            \/ Dial(s) \/ Verify(s) \/ Refuse(s) \/ StartLoop(s) \/ Receive(s)
            \/ resolve(s) \/ resolveChunk(s) \/ DropChunk(s) \/ Heartbeat(s)
            \/ Return(s) \/ unregister(s) \/ SenderSend(s) \/ SenderStop(s)
            \/ AgentReceive(s) \/ AgentLeave(s)
    PROVE UNCHANGED <<done, streams, subPc, subSess>>
  BY <1>13, Zenon DEF Dial, ConnStep, Verify, Refuse, StartLoop, Receive, resolve,
     WaiterOf, resolveChunk, DropChunk, GiveUp, Heartbeat, RowMissing, Return,
     unregister, Without, SenderSend, SenderStop, AgentReceive, AgentLeave
<1>14. ASSUME NEW v \in Servers,
            \/ DeleteServer(v) \/ Disconnect(v)
    PROVE UNCHANGED <<done, streams, subPc, subSess>>
  BY <1>14, Zenon DEF DeleteServer, Disconnect, Taken
<1>15. ASSUME NEW c \in Calls,
            \/ (\E v \in Servers : DispatchLookup(c, v)) \/ DispatchPend(c)
            \/ DispatchSend(c) \/ DispatchAnswer(c) \/ DispatchAbort(c)
            \/ DispatchReturn(c) \/ CancelCall(c)
            \/ (\E ok \in BOOLEAN : execute(c, ok))
    PROVE UNCHANGED <<done, streams, subPc, subSess>>
  BY <1>15, Zenon DEF DispatchLookup, CallStep, DispatchPend, WithWaiter,
     DispatchSend, DispatchAnswer, DispatchAbort, Closed, DispatchReturn,
     WithoutWaiter, CancelCall, execute, Outbound
<1>16. ASSUME NEW u \in Subs,
            \/ CancelSub(u) \/ Read(u) \/ emit(u) \/ runSubscription(u)
    PROVE UNCHANGED <<done, streams, subPc, subSess>>
  BY <1>16, Zenon DEF CancelSub, Read, emit, Outbound, runSubscription
<1> HIDE DEF StreamInv, NoOrphanStream, SubHasSession
<1> QED
  BY <1>1, <1>2, <1>3, <1>4, <1>5, <1>6, <1>7, <1>8, <1>9, <1>10,
     <1>11, <1>12, <1>13, <1>14, <1>15, <1>16, Zenon
     DEF Next, HandlerStep, SenderStep, DispatchStep, SubscribeStep, vars

\* No closed session keeps a stream, and an open one only streams whose
\* goroutine will still remove them, for any number of subscriptions: Subscribe
\* checks done and adds the stream in one critical section of session.mu.
THEOREM Streams == Spec => []NoOrphanStream
<1>1. Init => TypeOK /\ StreamInv
  BY TypeInit, StreamInit, Zenon
<1>2. TypeOK /\ StreamInv /\ [Next]_vars => (TypeOK /\ StreamInv)'
  BY TypeNext, StreamNext, Zenon
<1>3. StreamInv => NoOrphanStream
  BY Zenon DEF StreamInv
<1> QED
  BY <1>1, <1>2, <1>3, PTL DEF Spec

-----------------------------------------------------------------------------
(* What Dispatch returns.                                                  *)

Has(q, m) == \E i \in 1..Len(q) : q[i] = m

\* No command is twice in a queue.
Once(q) == \A c \in Calls, i, j \in 1..Len(q) : q[i] = Command(c) /\ q[j] = Command(c) => i = j

\* The command was sent to s, and its agent has not seen it.
Sent(c, s) ==
    callSess[c] = s /\ callPc[c] \notin {"idle", "pend", "send"} /\ agentCmd[c] = "none"

\* The agent saw the command only if Dispatch found a session and sent it.
Called(c) ==
    /\ callPc[c] = "idle" => callSess[c] = None /\ outcome[c] = "none"
    /\ outcome[c] \in {"offline", "absent"} => callSess[c] = None
    /\ agentCmd[c] # "none" => callSess[c] # None /\ callPc[c] \notin {"idle", "pend", "send"}

\* A command is on its way at most once, and reaches the agent at most once.
CommandInv ==
    /\ \A s \in Sessions : Once(send[s]) /\ Once(down[s])
    /\ \A s \in Sessions, c \in Calls :
         /\ Has(send[s], Command(c)) => Sent(c, s) /\ ~Has(down[s], Command(c))
         /\ Has(down[s], Command(c)) => Sent(c, s)
    /\ \A c \in Calls : Called(c)

\* A result, wherever it is on its way to the caller, is of an executed command.
AnswerInv ==
    /\ \A s \in Sessions, c \in Calls, b \in BOOLEAN :
         Has(up[s], Result(c, b)) => agentCmd[c] = "executed"
    /\ \A s \in Sessions : conn[s] = "resolve" => agentCmd[held[s].id] = "executed"
    /\ \A c \in Calls : /\ waiter[c] \in {"ok", "error"} => agentCmd[c] = "executed"
                        /\ outcome[c] \in {"ok", "error"} => agentCmd[c] = "executed"

\* The oldest message of a queue leaves it.
LEMMA HasTail ==
    ASSUME NEW M, NEW q \in Seq(M), q # <<>>
    PROVE  /\ Has(q, Head(q))
           /\ \A m : Has(Tail(q), m) => Has(q, m)
           /\ Once(q) => /\ Once(Tail(q))
                         /\ \A c \in Calls : Head(q) = Command(c) => ~Has(Tail(q), Command(c))
<1>1. /\ Len(q) \in Nat /\ Len(q) >= 1 /\ Head(q) = q[1] /\ Len(Tail(q)) = Len(q) - 1
      /\ \A i \in 1..Len(Tail(q)) : Tail(q)[i] = q[i + 1]
  OBVIOUS
<1>2. 1 \in 1..Len(q)
  BY <1>1
<1>3. ASSUME NEW i \in 1..Len(Tail(q))
      PROVE  i + 1 \in 1..Len(q) /\ Tail(q)[i] = q[i + 1] /\ i + 1 # 1
  BY <1>1
<1>4. ASSUME NEW i \in 1..Len(Tail(q)), NEW j \in 1..Len(Tail(q)), i + 1 = j + 1
      PROVE  i = j
  BY <1>1, <1>4
<1>5. Has(q, Head(q))
  BY <1>1, <1>2, Zenon DEF Has
<1>6. \A m : Has(Tail(q), m) => Has(q, m)
  BY <1>3, Zenon DEF Has
<1>7. ASSUME Once(q) PROVE Once(Tail(q))
  <2> SUFFICES ASSUME NEW c \in Calls, NEW i \in 1..Len(Tail(q)), NEW j \in 1..Len(Tail(q)),
                      Tail(q)[i] = Command(c), Tail(q)[j] = Command(c)
               PROVE  i = j
    BY Zenon DEF Once
  <2>1. /\ i + 1 \in 1..Len(q) /\ q[i + 1] = Command(c)
        /\ j + 1 \in 1..Len(q) /\ q[j + 1] = Command(c)
    BY <1>3, Zenon
  <2>2. i + 1 = j + 1
    BY <1>7, <2>1, Zenon DEF Once
  <2> QED
    BY <1>4, <2>2, Zenon
<1>8. ASSUME Once(q), NEW c \in Calls, Head(q) = Command(c), Has(Tail(q), Command(c))
      PROVE  FALSE
  <2>1. PICK i \in 1..Len(Tail(q)) : Tail(q)[i] = Command(c)
    BY <1>8, Zenon DEF Has
  <2>2. q[i + 1] = Command(c) /\ q[1] = Command(c)
    BY <1>1, <1>3, <1>8, <2>1, Zenon
  <2> QED
    BY <1>2, <1>3, <1>8, <2>2, Zenon DEF Once
<1> QED
  BY <1>5, <1>6, <1>7, <1>8, Zenon

\* A message joins a queue.
LEMMA HasAppend ==
    ASSUME NEW M, NEW q \in Seq(M), NEW m \in M
    PROVE  /\ \A x : Has(Append(q, m), x) => Has(q, x) \/ x = m
           /\ Once(q) /\ (\A c \in Calls : m = Command(c) => ~Has(q, m)) => Once(Append(q, m))
<1> DEFINE r == Append(q, m)
           n == Len(q) + 1
<1>1. \A i \in 1..Len(r) : (i = n /\ r[i] = m) \/ (i \in 1..Len(q) /\ r[i] = q[i])
  OBVIOUS
<1> HIDE DEF r, n
<1>2. \A x : Has(r, x) => Has(q, x) \/ x = m
  BY <1>1, Zenon DEF Has
<1>3. ASSUME Once(q), \A c \in Calls : m = Command(c) => ~Has(q, m)
      PROVE  Once(r)
  BY <1>1, <1>3, Zenon DEF Once, Has
<1> QED
  BY <1>2, <1>3, Zenon DEF r

\* An empty queue has no message ...
LEMMA HasNothing ==
    Once(<<>>) /\ \A m : ~Has(<<>>, m)
<1>1. ~ \E i \in 1..Len(<<>>) : TRUE
  OBVIOUS
<1> QED
  BY <1>1, Zenon DEF Has, Once

\* ... and a prefix of a queue none of its own.
LEMMA HasPrefix ==
    ASSUME NEW M, NEW q \in Seq(M), NEW n \in 0..Len(q), NEW m, Has(SubSeq(q, 1, n), m)
    PROVE  Has(q, m)
<1>1. ASSUME NEW i \in 1..Len(SubSeq(q, 1, n))
      PROVE  i \in 1..Len(q) /\ SubSeq(q, 1, n)[i] = q[i]
  OBVIOUS
<1> QED
  BY <1>1, Zenon DEF Has

\* A message is known by its kind and its id.
LEMMA MessageForms ==
    /\ \A m \in CoreMessage : m.kind = "command" => m.id \in Calls /\ m = Command(m.id)
    /\ \A c, d \in Calls : Command(c) = Command(d) => c = d
    /\ \A c \in Calls : Command(c).kind = "command" /\ Command(c).id = c
    /\ \A c \in Calls, u \in Subs : Command(c) # Subscribe(u) /\ Command(c) # Cancel(u)
    /\ \A m \in AgentMessage : m.kind = "result" =>
         m.id \in Calls /\ m.ok \in BOOLEAN /\ m = Result(m.id, m.ok)
    /\ \A c, d \in Calls, a, b \in BOOLEAN : Result(c, a) = Result(d, b) => c = d
<1>1. \A m \in CoreMessage : m.kind = "command" => m.id \in Calls /\ m = Command(m.id)
  BY DEF CoreMessage, Command
<1>2. \A c, d \in Calls : Command(c) = Command(d) => c = d
  BY Zenon DEF Command
<1>3. \A c \in Calls : Command(c).kind = "command" /\ Command(c).id = c
  BY Zenon DEF Command
<1>4. \A c \in Calls, u \in Subs : Command(c) # Subscribe(u) /\ Command(c) # Cancel(u)
  BY Zenon DEF Command, Subscribe, Cancel
<1>5. \A m \in AgentMessage : m.kind = "result" =>
         m.id \in Calls /\ m.ok \in BOOLEAN /\ m = Result(m.id, m.ok)
  BY DEF AgentMessage, CommandResult, StreamChunk, Result
<1>6. \A c, d \in Calls, a, b \in BOOLEAN : Result(c, a) = Result(d, b) => c = d
  BY Zenon DEF Result
<1> QED
  BY <1>1, <1>2, <1>3, <1>4, <1>5, <1>6, Zenon

\* Nothing is sent at first.
LEMMA CommandInit == Init => CommandInv
<1> SUFFICES ASSUME Init PROVE CommandInv
  BY Zenon
<1>1. /\ \A s \in Sessions : send[s] = <<>> /\ down[s] = <<>>
      /\ \A c \in Calls : callSess[c] = None /\ agentCmd[c] = "none" /\ outcome[c] = "none"
  BY Zenon DEF Init
<1> QED
  BY <1>1, HasNothing, Zenon DEF CommandInv, Called

\* The sender goroutine hands a command on to the stream, or loses it.
LEMMA CommandSender ==
    ASSUME TypeOK, CommandInv, NEW s \in Sessions, SenderSend(s)
    PROVE  CommandInv'
<1>1. /\ send \in [Sessions -> Seq(CoreMessage)] /\ down \in [Sessions -> Seq(CoreMessage)]
      /\ send[s] # <<>>
      /\ UNCHANGED <<callPc, callSess, outcome, agentCmd>>
  BY Zenon DEF TypeOK, ManagerTypes, AgentTypes, SenderSend, userVars, callVars, workVars
<1>2. \A t \in Sessions : /\ t = s => send'[t] = Tail(send[s])
                          /\ t # s => send'[t] = send[t]
                          /\ down'[t] = down[t] \/ (t = s /\ down'[t] = Append(down[s], Head(send[s])))
  BY <1>1, Zenon DEF SenderSend
<1>3. Head(send[s]) \in CoreMessage
  BY <1>1, TailType, Zenon
<1>4. /\ Has(send[s], Head(send[s]))
      /\ \A m : Has(Tail(send[s]), m) => Has(send[s], m)
      /\ Once(send[s]) => /\ Once(Tail(send[s]))
                          /\ \A c \in Calls : Head(send[s]) = Command(c) => ~Has(Tail(send[s]), Command(c))
  BY <1>1, HasTail, Zenon
<1>5. /\ \A x : Has(Append(down[s], Head(send[s])), x) => Has(down[s], x) \/ x = Head(send[s])
      /\ Once(down[s]) /\ (\A c \in Calls : Head(send[s]) = Command(c) => ~Has(down[s], Head(send[s])))
           => Once(Append(down[s], Head(send[s])))
  BY <1>1, <1>3, HasAppend, Zenon
<1>6. \A t \in Sessions : Once(send'[t]) /\ Once(down'[t])
  BY <1>2, <1>4, <1>5, Zenon DEF CommandInv
<1>7. ASSUME NEW t \in Sessions, NEW c \in Calls, Has(send'[t], Command(c))
      PROVE  Sent(c, t) /\ ~Has(down'[t], Command(c))
  BY <1>2, <1>4, <1>5, <1>7, Zenon DEF CommandInv
<1>8. ASSUME NEW t \in Sessions, NEW c \in Calls, Has(down'[t], Command(c))
      PROVE  Sent(c, t)
  BY <1>2, <1>4, <1>5, <1>8, Zenon DEF CommandInv
<1>9. \A c \in Calls : Called(c)'
  BY <1>1, Zenon DEF CommandInv, Called
<1> QED
  BY <1>1, <1>6, <1>7, <1>8, <1>9, ZenonT(30) DEF CommandInv, Sent

\* A message that is no command joins session.send.
LEMMA CommandOther ==
    ASSUME TypeOK, CommandInv, NEW s, NEW m \in CoreMessage, \A c \in Calls : m # Command(c),
           send' = [send EXCEPT ![s] = Append(@, m)],
           UNCHANGED <<down, callPc, callSess, outcome, agentCmd>>
    PROVE  CommandInv'
<1>1. send \in [Sessions -> Seq(CoreMessage)]
  BY Zenon DEF TypeOK, ManagerTypes
<1>2. \A t \in Sessions : send'[t] = send[t] \/ send'[t] = Append(send[t], m)
  BY <1>1, Zenon
<1>3. \A t \in Sessions : /\ \A x : Has(Append(send[t], m), x) => Has(send[t], x) \/ x = m
                          /\ Once(send[t]) => Once(Append(send[t], m))
  BY <1>1, HasAppend, Zenon
<1>4. \A t \in Sessions : /\ Once(send'[t])
                          /\ \A c \in Calls : Has(send'[t], Command(c)) => Has(send[t], Command(c))
  BY <1>2, <1>3, Zenon DEF CommandInv
<1>5. UNCHANGED <<down, callPc, callSess, outcome, agentCmd>>
  BY Zenon
<1> QED
  BY <1>4, <1>5, Zenon DEF CommandInv, Sent, Called

\* Dispatch sends its command once: before, it is nowhere.
LEMMA CommandSend ==
    ASSUME TypeOK, CommandInv, NEW c \in Calls, DispatchSend(c)
    PROVE  CommandInv'
<1>1. send \in [Sessions -> Seq(CoreMessage)] /\ Command(c) \in CoreMessage
  BY MessageTypes, Zenon DEF TypeOK, ManagerTypes
<1>2. /\ callPc[c] = "send" /\ callPc' = [callPc EXCEPT ![c] = "wait"]
      /\ UNCHANGED <<down, callSess, outcome, agentCmd>>
  BY Zenon DEF DispatchSend, CallStep, notCall, agentVars, netVars, workVars
<1>3. \A t \in Sessions : \/ send'[t] = send[t]
                          \/ send'[t] = Append(send[t], Command(c)) /\ t = callSess[c]
  BY <1>1, Zenon DEF DispatchSend
<1>4. \A t \in Sessions : /\ \A x : Has(Append(send[t], Command(c)), x) => Has(send[t], x) \/ x = Command(c)
                          /\ Once(send[t]) /\ ~Has(send[t], Command(c)) => Once(Append(send[t], Command(c)))
  <2> SUFFICES ASSUME NEW t \in Sessions
               PROVE  /\ \A x : Has(Append(send[t], Command(c)), x) => Has(send[t], x) \/ x = Command(c)
                      /\ Once(send[t]) /\ ~Has(send[t], Command(c)) => Once(Append(send[t], Command(c)))
    BY Zenon
  <2>1. send[t] \in Seq(CoreMessage)
    BY <1>1, Zenon
  <2> QED
    BY <1>1, <2>1, HasAppend, Zenon
<1>5. /\ \A t \in Sessions : ~Has(send[t], Command(c)) /\ ~Has(down[t], Command(c))
      /\ agentCmd[c] = "none"
  BY <1>2, Zenon DEF CommandInv, Sent, Called
<1>6. /\ callPc'[c] = "wait"
      /\ \A d \in Calls : d # c => callPc'[d] = callPc[d]
  BY <1>2, Zenon DEF TypeOK, CallTypes
<1>7. \A t \in Sessions : /\ Once(send'[t])
                          /\ \A d \in Calls : Has(send'[t], Command(d)) =>
                               Has(send[t], Command(d)) \/ (d = c /\ t = callSess[c])
  <2> SUFFICES ASSUME NEW t \in Sessions
               PROVE  /\ Once(send'[t])
                      /\ \A d \in Calls : Has(send'[t], Command(d)) =>
                           Has(send[t], Command(d)) \/ (d = c /\ t = callSess[c])
    BY Zenon
  <2>1. Once(send[t]) /\ ~Has(send[t], Command(c))
    BY <1>5, Zenon DEF CommandInv
  <2>2. CASE send'[t] = send[t]
    BY <2>1, <2>2, Zenon
  <2>3. CASE send'[t] = Append(send[t], Command(c)) /\ t = callSess[c]
    <3>1. \A d \in Calls : Command(d) = Command(c) => d = c
      BY MessageForms, Zenon
    <3> QED
      BY <1>4, <2>1, <2>3, <3>1, Zenon
  <2> QED
    BY <1>3, <2>2, <2>3, Zenon
<1>8. ASSUME NEW t \in Sessions, NEW d \in Calls
      PROVE  /\ Has(send'[t], Command(d)) => Sent(d, t)' /\ ~Has(down'[t], Command(d))
             /\ Has(down'[t], Command(d)) => Sent(d, t)'
  <2>1. /\ Has(send[t], Command(d)) => Sent(d, t) /\ ~Has(down[t], Command(d))
        /\ Has(down[t], Command(d)) => Sent(d, t)
    BY Zenon DEF CommandInv
  <2>2. UNCHANGED <<down, callSess, agentCmd>>
    BY <1>2, Zenon
  <2>3. CASE d = c
    BY <1>5, <1>6, <1>7, <2>2, <2>3, Zenon DEF Sent
  <2>4. CASE d # c
    BY <1>6, <1>7, <2>1, <2>2, <2>4, Zenon DEF Sent
  <2> QED
    BY <2>3, <2>4, Zenon
<1>9. ASSUME NEW d \in Calls
      PROVE  Called(d)'
  <2>1. UNCHANGED <<callSess, outcome, agentCmd>>
    BY <1>2, Zenon
  <2>2. callPc'[c] # "idle"
    BY <1>6, Zenon
  <2>3. Called(d)
    BY Zenon DEF CommandInv
  <2> QED
    BY <1>5, <1>6, <2>1, <2>2, <2>3, Zenon DEF Called
<1> QED
  BY <1>2, <1>7, <1>8, <1>9, Zenon DEF CommandInv

\* A step of one call or of its goroutine on the agent, which leaves the queues
\* alone: only that call is to be looked at.
LEMMA CommandCall ==
    ASSUME CommandInv, NEW c \in Calls, UNCHANGED <<send, down>>,
           \A d \in Calls : d # c => /\ callPc'[d] = callPc[d] /\ callSess'[d] = callSess[d]
                                     /\ outcome'[d] = outcome[d] /\ agentCmd'[d] = agentCmd[d],
           \A s \in Sessions : Sent(c, s) => Sent(c, s)',
           Called(c)'
    PROVE  CommandInv'
<1>1. ASSUME NEW s \in Sessions, NEW d \in Calls, Sent(d, s)
      PROVE  Sent(d, s)'
  BY <1>1, Zenon DEF Sent
<1>2. ASSUME NEW d \in Calls
      PROVE  Called(d)'
  BY Zenon DEF CommandInv, Called
<1> QED
  BY <1>1, <1>2, Zenon DEF CommandInv

\* The agent takes a command off the stream: the only one there was of that id.
LEMMA CommandReceive ==
    ASSUME TypeOK, CommandInv, NEW s \in Sessions, AgentReceive(s)
    PROVE  CommandInv'
<1> DEFINE m == Head(down[s])
<1>1. /\ down \in [Sessions -> Seq(CoreMessage)] /\ down[s] # <<>>
      /\ UNCHANGED <<send, callPc, callSess, outcome>>
  BY Zenon DEF TypeOK, AgentTypes, AgentReceive, coreVars, userVars, callVars
<1>2. \A t \in Sessions : /\ t = s => down'[t] = Tail(down[s])
                          /\ t # s => down'[t] = down[t]
  BY <1>1, Zenon DEF AgentReceive
<1>3. m \in CoreMessage
  BY <1>1, TailType, Zenon
<1>4. \/ agentCmd' = agentCmd
      \/ m.kind = "command" /\ agentCmd' = [agentCmd EXCEPT ![m.id] = "run"]
  BY Zenon DEF AgentReceive
<1> HIDE DEF m
<1>5. /\ Has(down[s], m)
      /\ \A x : Has(Tail(down[s]), x) => Has(down[s], x)
      /\ Once(down[s]) => /\ Once(Tail(down[s]))
                          /\ \A c \in Calls : m = Command(c) => ~Has(Tail(down[s]), Command(c))
  BY <1>1, HasTail, Zenon DEF m
<1>6. \A t \in Sessions : /\ Once(down'[t])
                          /\ \A c \in Calls : Has(down'[t], Command(c)) => Has(down[t], Command(c))
  BY <1>2, <1>5, Zenon DEF CommandInv
<1>7. CASE agentCmd' = agentCmd
  BY <1>1, <1>6, <1>7, Zenon DEF CommandInv, Sent, Called
<1>8. CASE m.kind = "command" /\ agentCmd' = [agentCmd EXCEPT ![m.id] = "run"]
  <2>1. PICK c \in Calls : m.id = c /\ m = Command(c)
    BY <1>3, <1>8, MessageForms, Zenon
  <2>2. Sent(c, s) /\ ~Has(send[s], Command(c)) /\ ~Has(down'[s], Command(c))
    BY <1>2, <1>5, <2>1, Zenon DEF CommandInv
  <2>3. callSess[c] = s /\ callSess[c] # None /\ callPc[c] \notin {"idle", "pend", "send"}
    BY <2>2, SessionAssumption, Zenon DEF Sent
  <2>4. \A d \in Calls : d # c => agentCmd'[d] = agentCmd[d]
    BY <1>8, <2>1, Zenon DEF TypeOK, AgentTypes
  <2>5. ASSUME NEW t \in Sessions, NEW d \in Calls, Has(send[t], Command(d)) \/ Has(down'[t], Command(d))
        PROVE  d # c /\ Sent(d, t)
    <3>1. Sent(d, t)
      BY <1>6, <2>5, Zenon DEF CommandInv
    <3>2. ASSUME d = c PROVE FALSE
      <4>1. t = s
        BY <2>3, <3>1, <3>2, Zenon DEF Sent
      <4> QED
        BY <2>2, <2>5, <3>2, <4>1, Zenon
    <3> QED
      BY <3>1, <3>2, Zenon
  <2>6. ASSUME NEW t \in Sessions, NEW d \in Calls, Has(send[t], Command(d)) \/ Has(down'[t], Command(d))
        PROVE  Sent(d, t)'
    BY <1>1, <2>4, <2>5, <2>6, Zenon DEF Sent
  <2>7. ASSUME NEW d \in Calls
        PROVE  Called(d)'
    BY <1>1, <2>3, <2>4, Zenon DEF CommandInv, Called
  <2> QED
    BY <1>1, <1>6, <2>6, <2>7, Zenon DEF CommandInv
<1> QED
  BY <1>4, <1>7, <1>8, Zenon

\* A connection that breaks takes along the commands it had not delivered.
LEMMA CommandLeave ==
    ASSUME TypeOK, CommandInv, NEW s \in Sessions, AgentLeave(s)
    PROVE  CommandInv'
<1>1. /\ down' = [down EXCEPT ![s] = <<>>]
      /\ UNCHANGED <<send, callPc, callSess, outcome>>
  BY Zenon DEF AgentLeave, coreVars, userVars, callVars
<1>2. \A t \in Sessions : down'[t] = down[t] \/ down'[t] = <<>>
  BY <1>1, Zenon DEF TypeOK, AgentTypes
<1>3. \A c \in Calls : agentCmd'[c] = agentCmd[c] \/ (agentCmd[c] = "run" /\ agentCmd'[c] = "lost")
  BY Zenon DEF AgentLeave
<1>4. \A c \in Calls : agentCmd'[c] = "none" <=> agentCmd[c] = "none"
  BY <1>3, Zenon
<1>5. \A t \in Sessions : /\ Once(down'[t])
                          /\ \A c \in Calls : Has(down'[t], Command(c)) => Has(down[t], Command(c))
  BY <1>2, HasNothing, Zenon DEF CommandInv
<1>6. UNCHANGED <<send, callPc, callSess, outcome>>
  BY <1>1, Zenon
<1> QED
  BY <1>4, <1>5, <1>6, Zenon DEF CommandInv, Sent, Called

\* Every step keeps CommandInv.
LEMMA CommandNext == TypeOK /\ CommandInv /\ [Next]_vars => CommandInv'
<1> SUFFICES ASSUME TypeOK, CommandInv, [Next]_vars
             PROVE  CommandInv'
  BY Zenon
<1> USE DEF mgrVars, connVars, delVars, callVars, subVars, queueVars, userVars, netVars,
            workVars, agentVars, notSub, notCall, coreVars
<1>1. CASE UNCHANGED <<send, down, callPc, callSess, outcome, agentCmd>>
  BY <1>1, Zenon DEF CommandInv, Sent, Called
<1>2. ASSUME NEW c \in Calls, NEW v \in Servers, DispatchLookup(c, v) PROVE CommandInv'
  <2>1. callPc[c] = "idle" /\ UNCHANGED <<send, down, agentCmd>>
    BY <1>2, Zenon DEF DispatchLookup, CallStep
  <2>2. \A d \in Calls : d # c => /\ callPc'[d] = callPc[d] /\ callSess'[d] = callSess[d]
                                  /\ outcome'[d] = outcome[d] /\ agentCmd'[d] = agentCmd[d]
    BY <1>2, Zenon DEF DispatchLookup, CallStep, TypeOK, CallTypes
  <2>3. callSess[c] = None /\ agentCmd[c] = "none" /\ outcome[c] = "none"
    BY <2>1, Zenon DEF CommandInv, Called
  <2>4. \/ callPc'[c] = "pend" /\ outcome'[c] = outcome[c]
        \/ callPc'[c] = "done" /\ callSess'[c] = callSess[c]
    BY <1>2, Zenon DEF DispatchLookup, CallStep, TypeOK, CallTypes
  <2>5. /\ callPc'[c] # "idle"
        /\ outcome'[c] \in {"offline", "absent"} => callSess'[c] = None
    BY <2>3, <2>4, Zenon
  <2>6. Called(c)' /\ ~ \E s \in Sessions : Sent(c, s)
    BY <2>1, <2>3, <2>5, Zenon DEF Called, Sent
  <2> QED
    BY <2>1, <2>2, <2>6, CommandCall, Zenon
<1>3. ASSUME NEW c \in Calls, DispatchPend(c) \/ DispatchAnswer(c) \/ DispatchAbort(c) \/ DispatchReturn(c)
      PROVE  CommandInv'
  <2>1. UNCHANGED <<send, down, callSess, agentCmd>>
    BY <1>3, Zenon DEF DispatchPend, DispatchAnswer, DispatchAbort, DispatchReturn
  <2>2. \A d \in Calls : d # c => callPc'[d] = callPc[d] /\ outcome'[d] = outcome[d]
    BY <1>3, Zenon DEF DispatchPend, DispatchAnswer, DispatchAbort, DispatchReturn, CallStep,
       TypeOK, CallTypes
  <2>3. \/ callPc[c] = "pend" /\ callPc'[c] = "send"
        \/ callPc'[c] \in {"return", "done"}
    BY <1>3, Zenon DEF DispatchPend, DispatchAnswer, DispatchAbort, DispatchReturn, CallStep,
       TypeOK, CallTypes
  <2>4. outcome'[c] \in {outcome[c], waiter[c], "closed", "canceled"}
    BY <1>3, Zenon DEF DispatchPend, DispatchAnswer, DispatchAbort, DispatchReturn,
       TypeOK, CallTypes
  <2>5. waiter[c] \in {"empty", "closed", "ok", "error"}
    BY Zenon DEF TypeOK, CallTypes
  <2>6. /\ callPc'[c] # "idle"
        /\ callPc[c] \notin {"idle", "pend", "send"} => callPc'[c] \notin {"idle", "pend", "send"}
    BY <2>3, Zenon
  <2>7. outcome'[c] \in {"offline", "absent"} => outcome[c] \in {"offline", "absent"}
    BY <2>4, <2>5, Zenon
  <2>8. Called(c)' /\ \A s \in Sessions : Sent(c, s) => Sent(c, s)'
    BY <2>1, <2>6, <2>7, Zenon DEF Sent, Called, CommandInv
  <2> QED
    BY <2>1, <2>2, <2>8, CommandCall, Zenon
<1>4. ASSUME NEW c \in Calls, NEW ok \in BOOLEAN, execute(c, ok) PROVE CommandInv'
  <2>1. agentCmd[c] = "run" /\ UNCHANGED <<send, down, callPc, callSess, outcome>>
    BY <1>4, Zenon DEF execute
  <2>2. \A d \in Calls : d # c => agentCmd'[d] = agentCmd[d]
    BY <1>4, Zenon DEF execute, TypeOK, AgentTypes
  <2>3. agentCmd[c] # "none"
    BY <2>1, Zenon
  <2>4. Called(c)' /\ ~ \E s \in Sessions : Sent(c, s)
    BY <2>1, <2>3, Zenon DEF Sent, Called, CommandInv
  <2> QED
    BY <2>1, <2>2, <2>4, CommandCall, Zenon
<1>5. ASSUME NEW u \in Subs, SubSend(u) \/ SendCancel(u) PROVE CommandInv'
  <2>1. /\ UNCHANGED <<down, callPc, callSess, outcome, agentCmd>>
        /\ \/ send' = [send EXCEPT ![subSess[u]] = Append(@, Subscribe(u))]
           \/ send' = [send EXCEPT ![subSess[u]] = Append(@, Cancel(u))]
           \/ send' = [send EXCEPT ![subSess[u]] = @]
    BY <1>5, Zenon DEF SubSend, SendCancel
  <2>2. CASE send' = [send EXCEPT ![subSess[u]] = @]
    BY <1>1, <2>1, <2>2, Zenon DEF TypeOK, ManagerTypes
  <2>3. /\ Subscribe(u) \in CoreMessage /\ \A c \in Calls : Subscribe(u) # Command(c)
        /\ Cancel(u) \in CoreMessage /\ \A c \in Calls : Cancel(u) # Command(c)
    BY MessageTypes, MessageForms, Zenon
  <2>4. ASSUME NEW m \in CoreMessage, \A c \in Calls : m # Command(c),
               send' = [send EXCEPT ![subSess[u]] = Append(@, m)]
        PROVE  CommandInv'
    BY <2>1, <2>4, CommandOther, Zenon
  <2> QED
    BY <2>1, <2>2, <2>3, <2>4, Zenon
<1>6. ASSUME NEW s \in Sessions,
            \/ Dial(s) \/ Verify(s) \/ Refuse(s) \/ register(s) \/ StartLoop(s)
            \/ Receive(s) \/ resolve(s) \/ resolveChunk(s) \/ DropChunk(s)
            \/ Heartbeat(s) \/ Return(s) \/ unregister(s) \/ UnregisterClose(s)
            \/ SenderStop(s) \/ DisconnectClose(s)
    PROVE UNCHANGED <<send, down, callPc, callSess, outcome, agentCmd>>
  BY <1>6, Zenon DEF Dial, Verify, Refuse, register, StartLoop, Receive, resolve,
     resolveChunk, DropChunk, Heartbeat, Return, unregister, UnregisterClose, SenderStop,
     DisconnectClose
<1>7. ASSUME NEW v \in Servers, DeleteServer(v) \/ Disconnect(v)
    PROVE UNCHANGED <<send, down, callPc, callSess, outcome, agentCmd>>
  BY <1>7, Zenon DEF DeleteServer, Disconnect
<1>8. ASSUME NEW c \in Calls, CancelCall(c)
    PROVE UNCHANGED <<send, down, callPc, callSess, outcome, agentCmd>>
  BY <1>8, Zenon DEF CancelCall
<1>9. ASSUME NEW u \in Subs,
            \/ (\E v \in Servers : SubLookup(u, v)) \/ SubAdd(u) \/ removeStream(u)
            \/ ForwardTake(u) \/ ForwardPush(u) \/ ForwardEnd(u) \/ CancelSub(u)
            \/ Read(u) \/ emit(u) \/ runSubscription(u)
    PROVE UNCHANGED <<send, down, callPc, callSess, outcome, agentCmd>>
  BY <1>9, Zenon DEF SubLookup, SubAdd, removeStream, ForwardTake, ForwardPush, ForwardEnd,
     CancelSub, Read, emit, runSubscription
<1> QED
  BY <1>1, <1>2, <1>3, <1>4, <1>5, <1>6, <1>7, <1>8, <1>9, CommandSender, CommandSend,
     CommandReceive, CommandLeave, Zenon
     DEF Next, HandlerStep, SenderStep, DispatchStep, SubscribeStep, vars

\* Nothing is answered at first.
LEMMA AnswerInit == Init => AnswerInv
<1> SUFFICES ASSUME Init PROVE AnswerInv
  BY Zenon
<1>1. /\ \A s \in Sessions : up[s] = <<>> /\ conn[s] # "resolve"
      /\ \A c \in Calls : waiter[c] \notin {"ok", "error"} /\ outcome[c] \notin {"ok", "error"}
  BY Zenon DEF Init
<1> QED
  BY <1>1, HasNothing, Zenon DEF AnswerInv

\* An executed command stays executed, because no second copy of it reaches the
\* agent.
LEMMA ExecutedStays ==
    ASSUME TypeOK, CommandInv, [Next]_vars, NEW c \in Calls, agentCmd[c] = "executed"
    PROVE  agentCmd'[c] = "executed"
<1> USE DEF mgrVars, connVars, delVars, callVars, subVars, queueVars, userVars, netVars,
            workVars, agentVars, notSub, notCall, coreVars
<1>1. CASE UNCHANGED agentCmd
  BY <1>1, Zenon
<1>2. ASSUME NEW s \in Sessions, AgentReceive(s) PROVE agentCmd'[c] = "executed"
  <2> DEFINE m == Head(down[s])
  <2>1. /\ down \in [Sessions -> Seq(CoreMessage)] /\ down[s] # <<>>
        /\ \/ UNCHANGED agentCmd
           \/ m.kind = "command" /\ agentCmd' = [agentCmd EXCEPT ![m.id] = "run"]
    BY <1>2, Zenon DEF TypeOK, AgentTypes, AgentReceive
  <2>2. m \in CoreMessage
    BY <2>1, TailType, Zenon
  <2>3. Has(down[s], m)
    BY <2>1, HasTail, Zenon
  <2>4. CASE m.kind = "command" /\ agentCmd' = [agentCmd EXCEPT ![m.id] = "run"]
    <3> HIDE DEF m
    <3>1. PICK d \in Calls : m.id = d /\ m = Command(d)
      BY <2>2, <2>4, MessageForms, Zenon
    <3>2. agentCmd[d] = "none"
      <4>1. Has(down[s], Command(d))
        BY <2>3, <3>1, Zenon
      <4>2. Sent(d, s)
        BY <4>1, Zenon DEF CommandInv
      <4> QED
        BY <4>2, Zenon DEF Sent
    <3>3. d # c
      BY <3>2, Zenon
    <3> QED
      BY <2>4, <3>1, <3>3, Zenon DEF TypeOK, AgentTypes
  <2> QED
    BY <1>1, <2>1, <2>4, Zenon
<1>3. ASSUME NEW s \in Sessions, AgentLeave(s) PROVE agentCmd'[c] = "executed"
  BY <1>3, Zenon DEF AgentLeave
<1>4. ASSUME NEW d \in Calls, NEW ok \in BOOLEAN, execute(d, ok) PROVE agentCmd'[c] = "executed"
  BY <1>4, Zenon DEF execute, TypeOK, AgentTypes
<1>5. ASSUME NEW s \in Sessions,
            \/ Dial(s) \/ Verify(s) \/ Refuse(s) \/ register(s) \/ StartLoop(s)
            \/ Receive(s) \/ resolve(s) \/ resolveChunk(s) \/ DropChunk(s)
            \/ Heartbeat(s) \/ Return(s) \/ unregister(s) \/ UnregisterClose(s)
            \/ SenderSend(s) \/ SenderStop(s) \/ DisconnectClose(s)
    PROVE UNCHANGED agentCmd
  BY <1>5, Zenon DEF Dial, Verify, Refuse, register, StartLoop, Receive, resolve,
     resolveChunk, DropChunk, Heartbeat, Return, unregister, UnregisterClose, SenderSend,
     SenderStop, DisconnectClose
<1>6. ASSUME NEW v \in Servers, DeleteServer(v) \/ Disconnect(v)
    PROVE UNCHANGED agentCmd
  BY <1>6, Zenon DEF DeleteServer, Disconnect
<1>7. ASSUME NEW d \in Calls,
            \/ (\E v \in Servers : DispatchLookup(d, v)) \/ DispatchPend(d)
            \/ DispatchSend(d) \/ DispatchAnswer(d) \/ DispatchAbort(d)
            \/ DispatchReturn(d) \/ CancelCall(d)
    PROVE UNCHANGED agentCmd
  BY <1>7, Zenon DEF DispatchLookup, DispatchPend, DispatchSend, DispatchAnswer,
     DispatchAbort, DispatchReturn, CancelCall
<1>8. ASSUME NEW u \in Subs,
            \/ (\E v \in Servers : SubLookup(u, v)) \/ SubAdd(u) \/ SubSend(u)
            \/ removeStream(u) \/ SendCancel(u) \/ ForwardTake(u) \/ ForwardPush(u)
            \/ ForwardEnd(u) \/ CancelSub(u) \/ Read(u) \/ emit(u) \/ runSubscription(u)
    PROVE UNCHANGED agentCmd
  BY <1>8, Zenon DEF SubLookup, SubAdd, SubSend, removeStream, SendCancel, ForwardTake,
     ForwardPush, ForwardEnd, CancelSub, Read, emit, runSubscription
<1> QED
  BY <1>1, <1>2, <1>3, <1>4, <1>5, <1>6, <1>7, <1>8, Zenon
     DEF Next, HandlerStep, SenderStep, DispatchStep, SubscribeStep, vars

\* What a step may add to the answers on their way.
Answered ==
    /\ \A s \in Sessions, c \in Calls, b \in BOOLEAN :
         Has(up'[s], Result(c, b)) => Has(up[s], Result(c, b)) \/ agentCmd'[c] = "executed"
    /\ \A s \in Sessions : conn'[s] = "resolve" =>
         \/ conn[s] = "resolve" /\ held'[s] = held[s]
         \/ \E c \in Calls : held'[s].id = c /\ agentCmd'[c] = "executed"
    /\ \A c \in Calls :
         waiter'[c] \in {"ok", "error"} => waiter[c] \in {"ok", "error"} \/ agentCmd'[c] = "executed"
    /\ \A c \in Calls :
         outcome'[c] \in {"ok", "error"} => \/ outcome[c] \in {"ok", "error"}
                                            \/ waiter[c] \in {"ok", "error"}

\* A step that adds no other answer keeps AnswerInv.
LEMMA AnswerKeeps ==
    ASSUME TypeOK, CommandInv, AnswerInv, [Next]_vars, Answered
    PROVE  AnswerInv'
<1>1. \A c \in Calls : agentCmd[c] = "executed" => agentCmd'[c] = "executed"
  BY ExecutedStays, Zenon
<1>2. \A s \in Sessions : conn[s] = "resolve" => held[s].id \in Calls
  BY Zenon DEF TypeOK, HandlerTypes, CommandResult
<1>3. \A s \in Sessions, c \in Calls, b \in BOOLEAN :
         Has(up'[s], Result(c, b)) => agentCmd'[c] = "executed"
  BY <1>1, Zenon DEF AnswerInv, Answered
<1>4. \A s \in Sessions : conn'[s] = "resolve" => agentCmd'[held'[s].id] = "executed"
  <2> SUFFICES ASSUME NEW s \in Sessions, conn'[s] = "resolve"
               PROVE  agentCmd'[held'[s].id] = "executed"
    BY Zenon
  <2>1. CASE conn[s] = "resolve" /\ held'[s] = held[s]
    <3>1. agentCmd[held[s].id] = "executed" /\ held[s].id \in Calls
      BY <1>2, <2>1, Zenon DEF AnswerInv
    <3> QED
      BY <1>1, <2>1, <3>1, Zenon
  <2>2. CASE \E c \in Calls : held'[s].id = c /\ agentCmd'[c] = "executed"
    BY <2>2, Zenon
  <2> QED
    BY <2>1, <2>2, Zenon DEF Answered
<1>5. \A c \in Calls : /\ waiter'[c] \in {"ok", "error"} => agentCmd'[c] = "executed"
                       /\ outcome'[c] \in {"ok", "error"} => agentCmd'[c] = "executed"
  BY <1>1, Zenon DEF AnswerInv, Answered
<1> QED
  BY <1>3, <1>4, <1>5, Zenon DEF AnswerInv

\* session.close adds nothing but "closed" to the waiters.
LEMMA CloseAnswers ==
    ASSUME TypeOK, NEW s, close(s), NEW c \in Calls
    PROVE  waiter'[c] = waiter[c] \/ waiter'[c] = "closed"
  BY Zenon DEF close

\* Every step keeps AnswerInv.
LEMMA AnswerNext == TypeOK /\ CommandInv /\ AnswerInv /\ [Next]_vars => AnswerInv'
<1> SUFFICES ASSUME TypeOK, CommandInv, AnswerInv, [Next]_vars
             PROVE  Answered
  BY AnswerKeeps, Zenon
<1> USE DEF mgrVars, connVars, delVars, callVars, subVars, queueVars, userVars, netVars,
            workVars, agentVars, notSub, notCall, coreVars
<1>1. CASE UNCHANGED <<up, conn, held, waiter, outcome>>
  BY <1>1, Zenon DEF Answered
<1>2. ASSUME NEW s \in Sessions, UNCHANGED <<up, outcome>>,
             \A t \in Sessions : conn'[t] = "resolve" => conn[t] = "resolve" /\ held'[t] = held[t],
             \A c \in Calls : waiter'[c] = waiter[c] \/ waiter'[c] = "closed"
      PROVE  Answered
  <2>1. \A c \in Calls : waiter'[c] \in {"ok", "error"} => waiter[c] \in {"ok", "error"}
    BY <1>2, Zenon
  <2> QED
    BY <1>2, <2>1, Zenon DEF Answered
<1>3. ASSUME NEW s \in Sessions, register(s) \/ UnregisterClose(s) PROVE Answered
  <2>1. /\ UNCHANGED <<up, outcome, held>> /\ \E x : close(x)
        /\ \/ conn' = [conn EXCEPT ![s] = "registered"]
           \/ conn' = [conn EXCEPT ![s] = "ended"]
    BY <1>3, Zenon DEF register, UnregisterClose, ConnStep
  <2>2. \A t \in Sessions : conn'[t] \in {conn[t], "registered", "ended"}
    BY <2>1, Zenon DEF TypeOK, HandlerTypes
  <2>3. \A t \in Sessions : conn'[t] = "resolve" => conn[t] = "resolve"
    BY <2>2, Zenon
  <2> QED
    BY <1>2, <2>1, <2>3, CloseAnswers, Zenon
<1>4. ASSUME NEW s \in Sessions, DisconnectClose(s) PROVE Answered
  <2>1. UNCHANGED <<up, outcome, conn, held>> /\ close(s)
    BY <1>4, Zenon DEF DisconnectClose
  <2> QED
    BY <1>2, <2>1, CloseAnswers, Zenon
<1>5. ASSUME NEW s \in Sessions,
            \/ Dial(s) \/ Verify(s) \/ Refuse(s) \/ StartLoop(s) \/ resolveChunk(s)
            \/ DropChunk(s) \/ Heartbeat(s) \/ Return(s) \/ unregister(s)
      PROVE Answered
  <2>1. /\ UNCHANGED <<up, outcome, waiter>>
        /\ held' = held \/ held' = [held EXCEPT ![s] = NoMessage]
        /\ \E to \in {"hello", "verified", "ended", "loop", "unregister", "close"} :
             conn' = [conn EXCEPT ![s] = to]
    BY <1>5, Zenon DEF Dial, Verify, Refuse, StartLoop, resolveChunk, DropChunk, Heartbeat,
       Return, unregister, ConnStep
  <2>2. \A t \in Sessions : t # s => held'[t] = held[t] /\ conn'[t] = conn[t]
    BY <2>1, Zenon DEF TypeOK, HandlerTypes
  <2>3. conn'[s] \in {"hello", "verified", "ended", "loop", "unregister", "close"}
    BY <2>1, Zenon DEF TypeOK, HandlerTypes
  <2>4. conn'[s] # "resolve"
    BY <2>3, Zenon
  <2>5. UNCHANGED <<up, outcome, waiter>>
    BY <2>1, Zenon
  <2> QED
    BY <1>2, <2>2, <2>4, <2>5, Zenon
<1>6. ASSUME NEW s \in Sessions, resolve(s) PROVE Answered
  <2>1. /\ UNCHANGED <<up, outcome, agentCmd>> /\ conn[s] = "resolve"
        /\ conn' = [conn EXCEPT ![s] = "loop"]
        /\ held' = [held EXCEPT ![s] = NoMessage]
    BY <1>6, Zenon DEF resolve, ConnStep
  <2>2. /\ \A t \in Sessions : t # s => held'[t] = held[t] /\ conn'[t] = conn[t]
        /\ conn'[s] = "loop"
    BY <2>1, Zenon DEF TypeOK, HandlerTypes
  <2>3. \A c \in Calls : waiter'[c] = waiter[c] \/ c = held[s].id
    BY <1>6, Zenon DEF resolve, WaiterOf, TypeOK, CallTypes
  <2>4. agentCmd'[held[s].id] = "executed"
    BY <2>1, Zenon DEF AnswerInv
  <2>5. conn'[s] # "resolve" /\ UNCHANGED <<up, outcome>>
    BY <2>1, <2>2, Zenon
  <2> QED
    BY <2>2, <2>3, <2>4, <2>5, Zenon DEF Answered
<1>7. ASSUME NEW s \in Sessions, Receive(s) PROVE Answered
  <2> DEFINE m == Head(up[s])
  <2>1. /\ up \in [Sessions -> Seq(AgentMessage)] /\ up[s] # <<>>
        /\ up' = [up EXCEPT ![s] = Tail(@)]
        /\ UNCHANGED <<outcome, waiter, agentCmd>>
    BY <1>7, Zenon DEF Receive, TypeOK, AgentTypes
  <2>2. \/ UNCHANGED <<conn, held>>
        \/ /\ held' = [held EXCEPT ![s] = m]
           /\ conn' = [conn EXCEPT ![s] = IF m.kind = "result" THEN "resolve" ELSE "chunk"]
    BY <1>7, Zenon DEF Receive
  <2>3. m \in AgentMessage
    BY <2>1, TailType, Zenon
  <2>4. Has(up[s], m) /\ \A x : Has(Tail(up[s]), x) => Has(up[s], x)
    BY <2>1, HasTail, Zenon
  <2> HIDE DEF m
  <2>5. \A t \in Sessions : \A x : Has(up'[t], x) => Has(up[t], x)
    BY <2>1, <2>4, Zenon
  <2>6. \A t \in Sessions : t # s => held'[t] = held[t] /\ conn'[t] = conn[t]
    BY <2>2, Zenon DEF TypeOK, HandlerTypes
  <2>7. UNCHANGED <<outcome, waiter, agentCmd>>
    BY <2>1, Zenon
  <2>8. ASSUME conn'[s] = "resolve"
        PROVE  \/ conn[s] = "resolve" /\ held'[s] = held[s]
               \/ \E c \in Calls : held'[s].id = c /\ agentCmd'[c] = "executed"
    <3>1. CASE UNCHANGED <<conn, held>>
      BY <2>8, <3>1, Zenon
    <3>2. CASE /\ held' = [held EXCEPT ![s] = m]
               /\ conn' = [conn EXCEPT ![s] = IF m.kind = "result" THEN "resolve" ELSE "chunk"]
      <4>1. held'[s] = m /\ m.kind = "result"
        BY <2>8, <3>2, Zenon DEF TypeOK, HandlerTypes
      <4>2. PICK c \in Calls, b \in BOOLEAN : m.id = c /\ m = Result(c, b)
        <5>1. m.id \in Calls /\ m.ok \in BOOLEAN /\ m = Result(m.id, m.ok)
          BY <2>3, <4>1, MessageForms, Zenon
        <5> QED
          BY <5>1, Zenon
      <4>3. Has(up[s], Result(c, b))
        BY <2>4, <4>2, Zenon
      <4>4. agentCmd[c] = "executed"
        BY <4>3, Zenon DEF AnswerInv
      <4> QED
        BY <2>7, <4>1, <4>2, <4>4, Zenon
    <3> QED
      BY <2>2, <3>1, <3>2, Zenon
  <2> QED
    BY <2>5, <2>6, <2>7, <2>8, Zenon DEF Answered
<1>8. ASSUME NEW s \in Sessions, AgentLeave(s) PROVE Answered
  <2>1. /\ UNCHANGED <<conn, held, outcome, waiter>> /\ up \in [Sessions -> Seq(AgentMessage)]
    BY <1>8, Zenon DEF AgentLeave, TypeOK, AgentTypes
  <2>2. PICK n \in 0..Len(up[s]) : up' = [up EXCEPT ![s] = SubSeq(@, 1, n)]
    BY <1>8, Zenon DEF AgentLeave
  <2>3. \A x : Has(SubSeq(up[s], 1, n), x) => Has(up[s], x)
    BY <2>1, HasPrefix, Zenon
  <2>4. \A t \in Sessions : \A x : Has(up'[t], x) => Has(up[t], x)
    BY <2>1, <2>2, <2>3, Zenon
  <2> QED
    BY <2>1, <2>4, Zenon DEF Answered
<1>9. ASSUME NEW s, NEW m \in AgentMessage, Outbound(s, m), UNCHANGED <<conn, held, outcome, waiter>>,
             \A c \in Calls, b \in BOOLEAN : m = Result(c, b) => agentCmd'[c] = "executed"
      PROVE  Answered
  <2>1. up \in [Sessions -> Seq(AgentMessage)] /\ up' = [up EXCEPT ![s] = Append(@, m)]
    BY <1>9, Zenon DEF Outbound, TypeOK, AgentTypes
  <2>2. \A t \in Sessions : up'[t] = up[t] \/ up'[t] = Append(up[t], m)
    BY <2>1, Zenon
  <2>3. ASSUME NEW t \in Sessions, NEW x, Has(up'[t], x) PROVE Has(up[t], x) \/ x = m
    BY <2>1, <2>2, <2>3, HasAppend, Zenon
  <2> QED
    BY <1>9, <2>3, Zenon DEF Answered
<1>10. ASSUME NEW c \in Calls, NEW ok \in BOOLEAN, execute(c, ok) PROVE Answered
  <2>1. /\ UNCHANGED <<conn, held, outcome, waiter>> /\ Outbound(callSess[c], Result(c, ok))
        /\ agentCmd'[c] = "executed"
    BY <1>10, Zenon DEF execute, TypeOK, AgentTypes
  <2>2. Result(c, ok) \in AgentMessage
    BY MessageTypes, Zenon
  <2>3. \A d \in Calls, b \in BOOLEAN : Result(c, ok) = Result(d, b) => d = c
    BY MessageForms, Zenon
  <2> QED
    BY <1>9, <2>1, <2>2, <2>3, Zenon
<1>11. ASSUME NEW u \in Subs, emit(u) \/ runSubscription(u) PROVE Answered
  <2>1. /\ UNCHANGED <<conn, held, outcome, waiter>>
        /\ \/ Outbound(subSess[u], Chunk(u, emitted[u] + 1))
           \/ Outbound(subSess[u], Eof(u, emitted[u] + 1))
           \/ UNCHANGED up
    BY <1>11, Zenon DEF emit, runSubscription
  <2>2. emitted[u] + 1 \in Nat
    BY DEF TypeOK, AgentTypes
  <2>3. ASSUME NEW n \in Nat, NEW m, m = Chunk(u, n) \/ m = Eof(u, n), Outbound(subSess[u], m)
        PROVE  Answered
    <3>1. m \in AgentMessage
      BY <2>3, MessageTypes, Zenon
    <3>2. \A c \in Calls, b \in BOOLEAN : m # Result(c, b)
      BY <2>3 DEF Chunk, Eof, Result
    <3> QED
      BY <1>9, <2>1, <2>3, <3>1, <3>2, Zenon
  <2>4. CASE UNCHANGED up
    BY <1>1, <2>1, <2>4, Zenon
  <2> QED
    BY <2>1, <2>2, <2>3, <2>4, Zenon
<1>12. ASSUME NEW c \in Calls,
             \/ (\E v \in Servers : DispatchLookup(c, v)) \/ DispatchPend(c)
             \/ DispatchSend(c) \/ DispatchAnswer(c) \/ DispatchAbort(c)
             \/ DispatchReturn(c) \/ CancelCall(c)
       PROVE Answered
  <2>1. /\ UNCHANGED <<up, conn, held>>
        /\ waiter' = waiter \/ waiter' = [waiter EXCEPT ![c] = "empty"]
    BY <1>12, Zenon DEF DispatchLookup, DispatchPend, DispatchSend, DispatchAnswer,
       DispatchAbort, DispatchReturn, CancelCall
  <2>2. \/ outcome' = outcome
        \/ \E x \in {waiter[c], "offline", "absent", "closed", "canceled"} :
             outcome' = [outcome EXCEPT ![c] = x]
    BY <1>12, Zenon DEF DispatchLookup, DispatchPend, DispatchSend, DispatchAnswer,
       DispatchAbort, DispatchReturn, CancelCall
  <2>3. \A d \in Calls : waiter'[d] \in {"ok", "error"} => waiter[d] \in {"ok", "error"}
    BY <2>1, Zenon DEF TypeOK, CallTypes
  <2>4. \A d \in Calls : outcome'[d] \in {outcome[d], waiter[d], "offline", "absent", "closed", "canceled"}
    BY <2>2, Zenon DEF TypeOK, CallTypes
  <2>5. \A d \in Calls : outcome'[d] \in {"ok", "error"} => \/ outcome[d] \in {"ok", "error"}
                                                            \/ waiter[d] \in {"ok", "error"}
    BY <2>4, Zenon
  <2>6. UNCHANGED <<up, conn, held>>
    BY <2>1, Zenon
  <2> QED
    BY <2>3, <2>5, <2>6, Zenon DEF Answered
<1>13. ASSUME NEW s \in Sessions, SenderSend(s) \/ SenderStop(s) \/ AgentReceive(s)
       PROVE  UNCHANGED <<up, conn, held, waiter, outcome>>
  BY <1>13, Zenon DEF SenderSend, SenderStop, AgentReceive
<1>14. ASSUME NEW v \in Servers, DeleteServer(v) \/ Disconnect(v)
       PROVE  UNCHANGED <<up, conn, held, waiter, outcome>>
  BY <1>14, Zenon DEF DeleteServer, Disconnect
<1>15. ASSUME NEW u \in Subs,
             \/ (\E v \in Servers : SubLookup(u, v)) \/ SubAdd(u) \/ SubSend(u)
             \/ removeStream(u) \/ SendCancel(u) \/ ForwardTake(u) \/ ForwardPush(u)
             \/ ForwardEnd(u) \/ CancelSub(u) \/ Read(u)
       PROVE UNCHANGED <<up, conn, held, waiter, outcome>>
  BY <1>15, Zenon DEF SubLookup, SubAdd, SubSend, removeStream, SendCancel, ForwardTake,
     ForwardPush, ForwardEnd, CancelSub, Read
<1> QED
  BY <1>1, <1>3, <1>4, <1>5, <1>6, <1>7, <1>8, <1>10, <1>11, <1>12, <1>13, <1>14, <1>15,
     Zenon DEF Next, HandlerStep, SenderStep, DispatchStep, SubscribeStep, vars

\* What Dispatch returns is what happened, for any number of calls, sessions and
\* lost connections: a result is only ever queued by the agent that executed
\* the command (AnswerInv), and since Dispatch sends a command at most once and
\* a queue delivers it at most once (CommandInv) nothing undoes that.
THEOREM Outcomes == Spec => []OutcomeTruthful
<1>1. Init => TypeOK /\ CommandInv /\ AnswerInv
  BY TypeInit, CommandInit, AnswerInit, Zenon
<1>2. TypeOK /\ CommandInv /\ AnswerInv /\ [Next]_vars => (TypeOK /\ CommandInv /\ AnswerInv)'
  BY TypeNext, CommandNext, AnswerNext, Zenon
<1>3. CommandInv /\ AnswerInv => OutcomeTruthful
  BY Zenon DEF CommandInv, AnswerInv, OutcomeTruthful, Called
<1> QED
  BY <1>1, <1>2, <1>3, PTL DEF Spec

-----------------------------------------------------------------------------
(* Queues.                                                                 *)

\* A message is in a queue at most once.
Single(q, m) == \A i, j \in 1..Len(q) : q[i] = m /\ q[j] = m => i = j

\* The oldest message leaves a queue: no other copy of it stays behind.
LEMMA SingleTail ==
    ASSUME NEW M, NEW q \in Seq(M), q # <<>>, NEW m, Single(q, m)
    PROVE  Single(Tail(q), m) /\ (Head(q) = m => ~Has(Tail(q), m))
<1>1. /\ Len(q) \in Nat /\ Len(q) >= 1 /\ Head(q) = q[1] /\ Len(Tail(q)) = Len(q) - 1
      /\ \A i \in 1..Len(Tail(q)) : Tail(q)[i] = q[i + 1]
  OBVIOUS
<1>2. 1 \in 1..Len(q)
  BY <1>1
<1>3. \A i \in 1..Len(Tail(q)) : i + 1 \in 1..Len(q) /\ Tail(q)[i] = q[i + 1] /\ i + 1 # 1
  BY <1>1
<1>4. \A i, j \in 1..Len(Tail(q)) : i + 1 = j + 1 => i = j
  BY <1>1
<1>5. Single(Tail(q), m)
  <2> SUFFICES ASSUME NEW i \in 1..Len(Tail(q)), NEW j \in 1..Len(Tail(q)),
                      Tail(q)[i] = m, Tail(q)[j] = m
               PROVE  i = j
    BY Zenon DEF Single
  <2>1. i + 1 \in 1..Len(q) /\ q[i + 1] = m /\ j + 1 \in 1..Len(q) /\ q[j + 1] = m
    BY <1>3, Zenon
  <2>2. i + 1 = j + 1
    BY <2>1, Zenon DEF Single
  <2> QED
    BY <1>4, <2>2, Zenon
<1>6. Head(q) = m => ~Has(Tail(q), m)
  BY <1>1, <1>2, <1>3, Zenon DEF Single, Has
<1> QED
  BY <1>5, <1>6, Zenon

\* A message joins a queue that did not hold it.
LEMMA SingleAppend ==
    ASSUME NEW M, NEW q \in Seq(M), NEW x \in M, NEW m, Single(q, m), x = m => ~Has(q, m)
    PROVE  Single(Append(q, x), m)
<1> DEFINE r == Append(q, x)
           n == Len(q) + 1
<1>1. \A i \in 1..Len(r) : (i = n /\ r[i] = x) \/ (i \in 1..Len(q) /\ r[i] = q[i])
  OBVIOUS
<1> HIDE DEF r, n
<1>2. Single(r, m)
  BY <1>1, Zenon DEF Single, Has
<1> QED
  BY <1>2, Zenon DEF r

-----------------------------------------------------------------------------
(* The chunks of one subscription in a queue towards the Core.             *)

\* A message is a chunk of u.
Of(m, u) == m.kind = "chunk" /\ m.id = u

\* The chunks of u in q come in the order of their numbers, the first of them
\* is number k + 1, and none is missing between two of them.
Ordered(q, u, k) ==
    /\ \A i \in At(q, u) :
         /\ q[i].seq > k
         /\ q[i].seq = k + 1 \/ \E j \in At(q, u) : j < i /\ q[j].seq = q[i].seq - 1
    /\ \A i, j \in At(q, u) : i < j => q[i].seq < q[j].seq

\* They go up to number n.
UpTo(q, u, k, n) == \A x \in (k + 1)..n : \E i \in At(q, u) : q[i].seq = x

\* Chunks are numbered.
LEMMA AtType ==
    ASSUME NEW q \in Seq(AgentMessage), NEW u, NEW i \in At(q, u)
    PROVE  i \in 1..Len(q) /\ i \in Nat /\ q[i] \in StreamChunk /\ q[i].seq \in Nat /\ Of(q[i], u)
<1>1. i \in 1..Len(q) /\ Of(q[i], u)
  BY Zenon DEF At, Of
<1>2. i \in Nat /\ q[i] \in AgentMessage
  BY <1>1
<1>3. q[i] \in StreamChunk
  BY <1>1, <1>2, Zenon DEF AgentMessage, CommandResult, Of
<1> QED
  BY <1>1, <1>2, <1>3, Zenon DEF StreamChunk

\* Where they are once the oldest message has been received.
LEMMA AtTail ==
    ASSUME NEW q \in Seq(AgentMessage), q # <<>>, NEW u
    PROVE  /\ \A i \in At(Tail(q), u) : i + 1 \in At(q, u) /\ Tail(q)[i] = q[i + 1]
           /\ \A i \in At(q, u) : i = 1 \/ (i - 1 \in At(Tail(q), u) /\ Tail(q)[i - 1] = q[i])
           /\ 1 \in At(q, u) <=> Of(Head(q), u)
           /\ Head(q) = q[1] /\ Tail(q) \in Seq(AgentMessage)
<1>1. /\ Len(q) \in Nat /\ Len(q) >= 1 /\ Head(q) = q[1] /\ Len(Tail(q)) = Len(q) - 1
      /\ \A i \in 1..Len(Tail(q)) : Tail(q)[i] = q[i + 1]
      /\ Tail(q) \in Seq(AgentMessage)
  OBVIOUS
<1>2. \A i \in 1..Len(Tail(q)) : i + 1 \in 1..Len(q) /\ Tail(q)[i] = q[i + 1]
  BY <1>1
<1>3. \A i \in 1..Len(q) : i = 1 \/ (i - 1 \in 1..Len(Tail(q)) /\ Tail(q)[i - 1] = q[i])
  BY <1>1
<1>4. 1 \in 1..Len(q)
  BY <1>1
<1> QED
  BY <1>1, <1>2, <1>3, <1>4, Zenon DEF At, Of

\* Where they are once a message has been queued.
LEMMA AtAppend ==
    ASSUME NEW q \in Seq(AgentMessage), NEW m \in AgentMessage, NEW u
    PROVE  /\ Append(q, m) \in Seq(AgentMessage)
           /\ \A i \in At(q, u) : i \in At(Append(q, m), u) /\ Append(q, m)[i] = q[i] /\ i < Len(q) + 1
           /\ \A i \in At(Append(q, m), u) : i \in At(q, u) \/ (i = Len(q) + 1 /\ Of(m, u))
           /\ Append(q, m)[Len(q) + 1] = m
           /\ Of(m, u) => Len(q) + 1 \in At(Append(q, m), u)
<1>1. /\ Append(q, m) \in Seq(AgentMessage)
      /\ \A i \in 1..Len(q) : i \in 1..Len(Append(q, m)) /\ Append(q, m)[i] = q[i] /\ i < Len(q) + 1
      /\ \A i \in 1..Len(Append(q, m)) : i \in 1..Len(q) \/ i = Len(q) + 1
      /\ Append(q, m)[Len(q) + 1] = m
      /\ Len(q) + 1 \in 1..Len(Append(q, m))
  OBVIOUS
<1> QED
  BY <1>1, Zenon DEF At, Of

\* Where they are in the part of a queue that still arrives.
LEMMA AtPrefix ==
    ASSUME NEW q \in Seq(AgentMessage), NEW n \in 0..Len(q), NEW u
    PROVE  /\ SubSeq(q, 1, n) \in Seq(AgentMessage)
           /\ \A i \in At(SubSeq(q, 1, n), u) : i \in At(q, u) /\ i <= n /\ SubSeq(q, 1, n)[i] = q[i]
           /\ \A i \in At(q, u) : i <= n => i \in At(SubSeq(q, 1, n), u)
<1>1. /\ SubSeq(q, 1, n) \in Seq(AgentMessage)
      /\ \A i \in 1..Len(SubSeq(q, 1, n)) : i \in 1..Len(q) /\ i <= n /\ SubSeq(q, 1, n)[i] = q[i]
      /\ \A i \in 1..Len(q) : i <= n => i \in 1..Len(SubSeq(q, 1, n)) /\ SubSeq(q, 1, n)[i] = q[i]
  OBVIOUS
<1> QED
  BY <1>1, Zenon DEF At

\* A message of somebody else is received: the chunks of u move up.
LEMMA OrderedSkip ==
    ASSUME NEW q \in Seq(AgentMessage), q # <<>>, NEW u, ~Of(Head(q), u),
           NEW k \in Nat, Ordered(q, u, k)
    PROVE  /\ Ordered(Tail(q), u, k)
           /\ \A n : UpTo(q, u, k, n) => UpTo(Tail(q), u, k, n)
<1> DEFINE r == Tail(q)
           A == At(q, u)
           B == At(r, u)
<1>1. /\ \A i \in B : i \in Nat /\ r[i].seq \in Nat /\ i + 1 \in A /\ r[i] = q[i + 1]
      /\ \A i \in A : i \in Nat /\ q[i].seq \in Nat /\ i - 1 \in B /\ r[i - 1] = q[i]
  BY AtTail, AtType, Zenon
<1>2. /\ \A i \in A : /\ q[i].seq > k
                      /\ q[i].seq = k + 1 \/ \E j \in A : j < i /\ q[j].seq = q[i].seq - 1
      /\ \A i, j \in A : i < j => q[i].seq < q[j].seq
  BY Zenon DEF Ordered
<1> HIDE DEF r, A, B
<1>3. ASSUME NEW i \in B
      PROVE  /\ r[i].seq > k
             /\ r[i].seq = k + 1 \/ \E j \in B : j < i /\ r[j].seq = r[i].seq - 1
  <2>1. i + 1 \in A /\ r[i] = q[i + 1] /\ i \in Nat
    BY <1>1, Zenon
  <2>2. CASE r[i].seq # k + 1
    <3>1. PICK j \in A : j < i + 1 /\ q[j].seq = q[i + 1].seq - 1
      BY <1>2, <2>1, <2>2, Zenon
    <3>2. j - 1 \in B /\ r[j - 1] = q[j] /\ j \in Nat
      BY <1>1, Zenon
    <3>3. j - 1 < i
      BY <2>1, <3>1, <3>2
    <3> QED
      BY <1>2, <2>1, <3>1, <3>2, <3>3, Zenon
  <2> QED
    BY <1>2, <2>1, <2>2, Zenon
<1>4. ASSUME NEW i \in B, NEW j \in B, i < j
      PROVE  r[i].seq < r[j].seq
  <2>1. i + 1 < j + 1
    BY <1>1, <1>4
  <2> QED
    BY <1>1, <1>2, <2>1, Zenon
<1>5. ASSUME NEW n, UpTo(q, u, k, n) PROVE UpTo(r, u, k, n)
  <2>1. \A x \in (k + 1)..n : \E i \in A : q[i].seq = x
    BY <1>5, Zenon DEF UpTo, A
  <2>2. ASSUME NEW x \in (k + 1)..n PROVE \E i \in B : r[i].seq = x
    <3>1. PICK i \in A : q[i].seq = x
      BY <2>1, Zenon
    <3> QED
      BY <1>1, <3>1, Zenon
  <2> QED
    BY <2>2, Zenon DEF UpTo, B
<1> QED
  BY <1>3, <1>4, <1>5, Zenon DEF Ordered, r, B

\* The first chunk of u is received: it is number k + 1, and number k + 2 is now
\* the first.
LEMMA OrderedTake ==
    ASSUME NEW q \in Seq(AgentMessage), q # <<>>, NEW u, Of(Head(q), u),
           NEW k \in Nat, Ordered(q, u, k)
    PROVE  /\ Head(q).seq = k + 1
           /\ Ordered(Tail(q), u, k + 1)
           /\ \A n \in Nat : UpTo(q, u, k, n) => UpTo(Tail(q), u, k + 1, n)
<1> DEFINE r == Tail(q)
           A == At(q, u)
           B == At(r, u)
<1>1. /\ \A i \in B : i \in Nat /\ i \in 1..Len(r) /\ r[i].seq \in Nat /\ i + 1 \in A /\ r[i] = q[i + 1]
      /\ \A i \in A : i \in Nat /\ i \in 1..Len(q) /\ q[i].seq \in Nat
                      /\ (i = 1 \/ (i - 1 \in B /\ r[i - 1] = q[i]))
      /\ 1 \in A /\ Head(q) = q[1]
  BY AtTail, AtType, Zenon
<1>2. /\ \A i \in A : /\ q[i].seq > k
                      /\ q[i].seq = k + 1 \/ \E j \in A : j < i /\ q[j].seq = q[i].seq - 1
      /\ \A i, j \in A : i < j => q[i].seq < q[j].seq
  BY Zenon DEF Ordered
<1> HIDE DEF r, A, B
<1>3. q[1].seq = k + 1
  <2>1. ~ \E j \in A : j < 1
    BY <1>1
  <2> QED
    BY <1>1, <1>2, <2>1, Zenon
<1>4. ASSUME NEW i \in B
      PROVE  r[i].seq > k + 1
  <2>1. 1 < i + 1
    BY <1>1
  <2>2. q[1].seq < q[i + 1].seq
    BY <1>1, <1>2, <2>1, Zenon
  <2> QED
    BY <1>1, <1>3, <2>2
<1>5. ASSUME NEW i \in B, r[i].seq # k + 1 + 1
      PROVE  \E j \in B : j < i /\ r[j].seq = r[i].seq - 1
  <2>1. i + 1 \in A /\ r[i] = q[i + 1] /\ i \in Nat /\ r[i].seq \in Nat
    BY <1>1, Zenon
  <2>2. q[i + 1].seq # k + 1
    BY <1>4, <2>1
  <2>3. PICK j \in A : j < i + 1 /\ q[j].seq = q[i + 1].seq - 1
    BY <1>2, <2>1, <2>2, Zenon
  <2>4. j # 1
    BY <1>3, <1>5, <2>1, <2>3
  <2>5. j - 1 \in B /\ r[j - 1] = q[j] /\ j \in Nat
    BY <1>1, <2>4, Zenon
  <2>6. j - 1 < i
    BY <2>1, <2>3, <2>5
  <2> QED
    BY <2>1, <2>3, <2>5, <2>6, Zenon
<1>6. ASSUME NEW i \in B, NEW j \in B, i < j
      PROVE  r[i].seq < r[j].seq
  <2>1. i + 1 < j + 1
    BY <1>1, <1>6
  <2> QED
    BY <1>1, <1>2, <2>1, Zenon
<1>7. ASSUME NEW n \in Nat, UpTo(q, u, k, n) PROVE UpTo(r, u, k + 1, n)
  <2> SUFFICES ASSUME NEW x \in (k + 1 + 1)..n
               PROVE  \E i \in B : r[i].seq = x
    BY Zenon DEF UpTo, B
  <2>1. x \in (k + 1)..n /\ x # k + 1
    OBVIOUS
  <2>2. PICK i \in A : q[i].seq = x
    BY <1>7, <2>1, Zenon DEF UpTo, A
  <2> QED
    BY <1>1, <1>3, <2>1, <2>2, Zenon
<1> QED
  BY <1>1, <1>3, <1>4, <1>5, <1>6, <1>7, Zenon DEF Ordered, r, B

\* A message of somebody else is queued.
LEMMA OrderedOther ==
    ASSUME NEW q \in Seq(AgentMessage), NEW m \in AgentMessage, NEW u, ~Of(m, u),
           NEW k, Ordered(q, u, k)
    PROVE  /\ Ordered(Append(q, m), u, k)
           /\ \A n : UpTo(q, u, k, n) => UpTo(Append(q, m), u, k, n)
<1>0. /\ \A i \in At(q, u) : i \in At(Append(q, m), u) /\ Append(q, m)[i] = q[i] /\ i < Len(q) + 1
      /\ \A i \in At(Append(q, m), u) : i \in At(q, u) \/ (i = Len(q) + 1 /\ Of(m, u))
  BY AtAppend, Zenon
<1>1. \A i : i \in At(Append(q, m), u) <=> i \in At(q, u)
  BY <1>0, Zenon
<1>2. \A i \in At(q, u) : Append(q, m)[i] = q[i]
  BY <1>0, Zenon
<1> QED
  BY <1>1, <1>2, Zenon DEF Ordered, UpTo

\* The agent emits the next chunk of u: number n + 1.
LEMMA OrderedEmit ==
    ASSUME NEW q \in Seq(AgentMessage), NEW m \in AgentMessage, NEW u, Of(m, u),
           NEW k \in Nat, NEW n \in Nat, Ordered(q, u, k), UpTo(q, u, k, n), k <= n,
           m.seq = n + 1, \A i \in At(q, u) : q[i].seq <= n
    PROVE  /\ Ordered(Append(q, m), u, k)
           /\ UpTo(Append(q, m), u, k, n + 1)
<1> DEFINE r == Append(q, m)
           z == Len(q) + 1
           A == At(q, u)
           B == At(r, u)
<1>1. /\ \A i \in A : i \in B /\ r[i] = q[i] /\ i < z /\ i \in Nat /\ q[i].seq \in Nat
      /\ \A i \in B : i \in A \/ i = z
      /\ r[z] = m /\ z \in B
  <2>1. \A i \in A : i \in Nat /\ q[i].seq \in Nat
    BY AtType, Zenon
  <2>2. /\ \A i \in A : i \in B /\ r[i] = q[i] /\ i < z
        /\ \A i \in B : i \in A \/ (i = z /\ Of(m, u))
        /\ r[z] = m
        /\ Of(m, u) => z \in B
    BY AtAppend, Zenon
  <2> QED
    BY <2>1, <2>2, Zenon
<1>2. z \in Nat
  OBVIOUS
<1>3. /\ \A i \in A : /\ q[i].seq > k
                      /\ q[i].seq = k + 1 \/ \E j \in A : j < i /\ q[j].seq = q[i].seq - 1
      /\ \A i, j \in A : i < j => q[i].seq < q[j].seq
  BY Zenon DEF Ordered
<1>4. /\ \A x \in (k + 1)..n : \E i \in A : q[i].seq = x
      /\ \A i \in A : q[i].seq <= n
  BY Zenon DEF UpTo
<1> HIDE DEF r, z, A, B
<1>5. ASSUME NEW i \in B
      PROVE  /\ r[i].seq > k
             /\ r[i].seq = k + 1 \/ \E j \in B : j < i /\ r[j].seq = r[i].seq - 1
  <2>1. CASE i \in A
    BY <1>1, <1>3, <2>1, Zenon
  <2>2. CASE i = z
    <3>1. r[i].seq = n + 1
      BY <1>1, <2>2, Zenon
    <3>2. r[i].seq > k
      BY <3>1
    <3>3. CASE n = k
      BY <3>1, <3>2, <3>3, Zenon
    <3>4. CASE n # k
      <4>1. n \in (k + 1)..n /\ n + 1 - 1 = n
        BY <3>4
      <4>2. PICK j \in A : q[j].seq = n
        BY <1>4, <4>1, Zenon
      <4>3. r[i].seq - 1 = n
        BY <3>1, <4>1
      <4> QED
        BY <1>1, <2>2, <3>2, <4>2, <4>3, Zenon
    <3> QED
      BY <3>3, <3>4, Zenon
  <2> QED
    BY <1>1, <2>1, <2>2, Zenon
<1>6. ASSUME NEW i \in B, NEW j \in B, i < j
      PROVE  r[i].seq < r[j].seq
  <2>1. CASE i \in A /\ j \in A
    BY <1>1, <1>3, <1>6, <2>1, Zenon
  <2>2. CASE i \in A /\ j = z
    <3>1. r[i].seq = q[i].seq /\ r[j].seq = n + 1 /\ q[i].seq <= n /\ q[i].seq \in Nat
      BY <1>1, <1>4, <2>2, Zenon
    <3> QED
      BY <3>1
  <2>3. i # z
    BY <1>1, <1>2, <1>6
  <2> QED
    BY <1>1, <2>1, <2>2, <2>3, Zenon
<1>7. ASSUME NEW x \in (k + 1)..(n + 1)
      PROVE  \E i \in B : r[i].seq = x
  <2>1. x = n + 1 \/ x \in (k + 1)..n
    OBVIOUS
  <2> QED
    BY <1>1, <1>4, <2>1, Zenon
<1> QED
  BY <1>5, <1>6, <1>7, Zenon DEF Ordered, UpTo, r, B

\* A prefix of the queue arrives.
LEMMA OrderedPrefix ==
    ASSUME NEW q \in Seq(AgentMessage), NEW p \in 0..Len(q), NEW u,
           NEW k, Ordered(q, u, k)
    PROVE  Ordered(SubSeq(q, 1, p), u, k)
<1> DEFINE r == SubSeq(q, 1, p)
           A == At(q, u)
           B == At(r, u)
<1>1. /\ \A i \in B : i \in A /\ i <= p /\ r[i] = q[i] /\ i \in Nat
      /\ \A i \in A : i \in Nat /\ (i <= p => i \in B)
  BY AtPrefix, AtType, ZenonT(30)
<1>2. /\ \A i \in A : /\ q[i].seq > k
                      /\ q[i].seq = k + 1 \/ \E j \in A : j < i /\ q[j].seq = q[i].seq - 1
      /\ \A i, j \in A : i < j => q[i].seq < q[j].seq
  BY Zenon DEF Ordered
<1> HIDE DEF r, A, B
<1>3. \A i \in B, j \in A : j < i => j \in B
  BY <1>1
<1> QED
  BY <1>1, <1>2, <1>3, Zenon DEF Ordered, r, B

-----------------------------------------------------------------------------
(* Starting a subscription on the agent.                                   *)

\* Before the Subscribe message is handed to session.send.
Unasked == {"idle", "add", "send"}

\* A Subscribe message that is under way on s.
Asked(u, s) == subSess[u] = s /\ subPc[u] \notin Unasked /\ agentSub[u] = "none"

\* The messages about u on their way to the agent of s: at most one Subscribe,
\* which finds the subscription unknown there, and a Cancel only from a goroutine
\* that is gone.
Mail(s, u) ==
    /\ Single(send[s], Subscribe(u)) /\ Single(down[s], Subscribe(u))
    /\ Has(send[s], Subscribe(u)) => Asked(u, s) /\ ~Has(down[s], Subscribe(u))
    /\ Has(down[s], Subscribe(u)) => Asked(u, s)
    /\ Has(send[s], Cancel(u)) \/ Has(down[s], Cancel(u)) => subPc[u] = "closed"

\* What the agent does for u, and what the Core has done by then.
Started(u) ==
    /\ agentSub[u] # "none" => subPc[u] \notin Unasked /\ subSess[u] \in Sessions
    /\ subSess[u] # None => conn[subSess[u]] # "none"
    /\ agentSub[u] \in {"run", "canceled"} => alive[subSess[u]]
    /\ agentSub[u] = "canceled" => subPc[u] = "closed"
    /\ agentSub[u] = "none" => emitted[u] = 0

\* A subscription is started at most once, by an agent that holds its end of the
\* stream.
AskInv == /\ \A s \in Sessions, u \in Subs : Mail(s, u)
          /\ \A u \in Subs : Started(u)

\* Messages about different subscriptions differ.
LEMMA StreamForms ==
    /\ \A m \in CoreMessage : m.kind = "subscribe" => m.id \in Subs /\ m = Subscribe(m.id)
    /\ \A m \in CoreMessage : m.kind = "cancel" => m.id \in Subs /\ m = Cancel(m.id)
    /\ \A u, v \in Subs : Subscribe(u) = Subscribe(v) => u = v
    /\ \A u, v \in Subs : Cancel(u) = Cancel(v) => u = v
    /\ \A u, v \in Subs : Subscribe(u) # Cancel(v)
<1>1. /\ \A m \in CoreMessage : m.kind = "subscribe" => m.id \in Subs /\ m = Subscribe(m.id)
      /\ \A m \in CoreMessage : m.kind = "cancel" => m.id \in Subs /\ m = Cancel(m.id)
  BY DEF CoreMessage, Subscribe, Cancel
<1>2. \A u, v \in Subs : Subscribe(u) = Subscribe(v) => u = v
  BY Zenon DEF Subscribe
<1>3. \A u, v \in Subs : Cancel(u) = Cancel(v) => u = v
  BY Zenon DEF Cancel
<1>4. \A u, v \in Subs : Subscribe(u) # Cancel(v)
  BY Zenon DEF Subscribe, Cancel
<1> QED
  BY <1>1, <1>2, <1>3, <1>4, Zenon

\* No subscription is started at first.
LEMMA AskInit == Init => AskInv
<1> SUFFICES ASSUME Init PROVE AskInv
  BY Zenon
<1>1. /\ \A s \in Sessions : send[s] = <<>> /\ down[s] = <<>>
      /\ \A u \in Subs : subSess[u] = None /\ agentSub[u] = "none" /\ emitted[u] = 0
  BY Zenon DEF Init
<1>2. \A m : Single(<<>>, m)
  <2>1. ~ \E i \in 1..Len(<<>>) : TRUE
    OBVIOUS
  <2> QED
    BY <2>1, Zenon DEF Single
<1> QED
  BY <1>1, <1>2, HasNothing, Zenon DEF AskInv, Mail, Started

\* A Connect handler that has begun does not go back.
LEMMA ConnStays ==
    ASSUME TypeOK, [Next]_vars, NEW s \in Sessions, conn[s] # "none"
    PROVE  conn'[s] # "none"
<1> USE DEF mgrVars, connVars, delVars, callVars, subVars, queueVars, userVars, netVars,
            workVars, agentVars, notSub, notCall, coreVars
<1>0. conn \in [Sessions -> {"none", "hello", "verified", "registered", "loop", "resolve",
                             "chunk", "unregister", "close", "ended"}]
  BY Zenon DEF TypeOK, HandlerTypes
<1>1. CASE UNCHANGED conn
  BY <1>1, Zenon
<1>2. ASSUME NEW t \in Sessions, NEW from,
             NEW to \in {"hello", "verified", "registered", "loop", "resolve", "chunk",
                         "unregister", "close", "ended"}, ConnStep(t, from, to)
      PROVE  conn'[s] # "none"
  BY <1>0, <1>2, Zenon DEF ConnStep
<1>3. ASSUME NEW t \in Sessions, Receive(t)
      PROVE  conn'[s] # "none"
  <2>1. \/ UNCHANGED conn
        \/ conn' = [conn EXCEPT ![t] = "resolve"]
        \/ conn' = [conn EXCEPT ![t] = "chunk"]
    BY <1>3, Zenon DEF Receive
  <2> QED
    BY <1>0, <1>1, <2>1, Zenon
<1>4. ASSUME NEW t \in Sessions,
             \/ Dial(t) \/ Verify(t) \/ Refuse(t) \/ register(t) \/ StartLoop(t)
             \/ resolve(t) \/ resolveChunk(t) \/ DropChunk(t)
             \/ Heartbeat(t) \/ Return(t) \/ unregister(t) \/ UnregisterClose(t)
      PROVE  conn'[s] # "none"
  <2>1. \E from : \E to \in {"hello", "verified", "registered", "loop", "unregister", "close",
                             "ended"} : ConnStep(t, from, to)
    BY <1>4, Zenon DEF Dial, Verify, Refuse, register, StartLoop, resolve, resolveChunk,
       DropChunk, Heartbeat, Return, unregister, UnregisterClose
  <2> QED
    BY <1>2, <2>1, Zenon
<1>5. ASSUME NEW t \in Sessions,
             \/ SenderStep(t) \/ DisconnectClose(t) \/ AgentReceive(t) \/ AgentLeave(t)
      PROVE  UNCHANGED conn
  BY <1>5, Zenon DEF SenderStep, SenderSend, SenderStop, DisconnectClose, AgentReceive,
     AgentLeave
<1>6. ASSUME NEW v \in Servers, DeleteServer(v) \/ Disconnect(v)
      PROVE  UNCHANGED conn
  BY <1>6, Zenon DEF DeleteServer, Disconnect
<1>7. ASSUME NEW c \in Calls, \/ DispatchStep(c) \/ CancelCall(c)
                              \/ \E ok \in BOOLEAN : execute(c, ok)
      PROVE  UNCHANGED conn
  BY <1>7, Zenon DEF DispatchStep, DispatchLookup, DispatchPend, DispatchSend,
     DispatchAnswer, DispatchAbort, DispatchReturn, CancelCall, execute
<1>8. ASSUME NEW u \in Subs, \/ SubscribeStep(u) \/ CancelSub(u) \/ Read(u) \/ emit(u)
                             \/ runSubscription(u)
      PROVE  UNCHANGED conn
  BY <1>8, Zenon DEF SubscribeStep, SubLookup, SubAdd, SubSend, removeStream, SendCancel,
     ForwardTake, ForwardPush, ForwardEnd, CancelSub, Read, emit, runSubscription
<1> QED
  BY <1>1, <1>3, <1>4, <1>5, <1>6, <1>7, <1>8, Zenon DEF Next, HandlerStep, vars

\* A subscription keeps its state while its connection stays.
LEMMA StartedStays ==
    ASSUME NEW v \in Subs, Started(v),
           subSess \in [Subs -> Sessions \cup {None}],
           \A s \in Sessions : conn[s] # "none" => conn'[s] # "none",
           \A s \in Sessions : alive[s] => alive'[s],
           subSess'[v] = subSess[v] /\ subPc'[v] = subPc[v],
           agentSub'[v] = agentSub[v] /\ emitted'[v] = emitted[v]
    PROVE  Started(v)'
<1>1. subSess[v] \in Sessions \/ subSess[v] = None
  BY Zenon
<1>2. /\ subSess[v] # None => conn'[subSess[v]] # "none"
      /\ agentSub[v] \in {"run", "canceled"} => alive'[subSess[v]]
  <2>1. CASE subSess[v] \in Sessions
    BY <2>1, Zenon DEF Started
  <2>2. CASE subSess[v] = None
    <3>1. agentSub[v] \notin {"run", "canceled"}
      BY <2>2, SessionAssumption, Zenon DEF Started
    <3> QED
      BY <2>2, <3>1, Zenon
  <2> QED
    BY <1>1, <2>1, <2>2, Zenon
<1> QED
  BY <1>2, Zenon DEF Started

\* A step that concerns one subscription and leaves the queues towards the agent
\* alone.
LEMMA AskFrame ==
    ASSUME AskInv, NEW u \in Subs, UNCHANGED <<send, down>>,
           \A s \in Sessions : conn[s] # "none" => conn'[s] # "none",
           \A s \in Sessions : alive[s] => alive'[s],
           \A v \in Subs : v # u => /\ subSess'[v] = subSess[v] /\ subPc'[v] = subPc[v]
                                    /\ agentSub'[v] = agentSub[v] /\ emitted'[v] = emitted[v],
           \A s \in Sessions : Asked(u, s) => Asked(u, s)',
           subPc[u] = "closed" => subPc'[u] = "closed",
           subSess \in [Subs -> Sessions \cup {None}],
           Started(u)'
    PROVE  AskInv'
<1>1. ASSUME NEW v \in Subs PROVE Started(v)'
  <2>1. Started(v)
    BY Zenon DEF AskInv
  <2> QED
    BY <2>1, StartedStays, Zenon
<1>2. ASSUME NEW v \in Subs, NEW s \in Sessions PROVE Mail(s, v)'
  <2>1. Mail(s, v)
    BY Zenon DEF AskInv
  <2>2. Asked(v, s) => Asked(v, s)'
    BY Zenon DEF Asked
  <2>3. subPc[v] = "closed" => subPc'[v] = "closed"
    BY Zenon
  <2>4. send'[s] = send[s] /\ down'[s] = down[s]
    BY Zenon
  <2> QED
    BY <2>1, <2>2, <2>3, <2>4, Zenon DEF Mail
<1> QED
  BY <1>1, <1>2, Zenon DEF AskInv

\* The sender goroutine hands a message on to the stream, or loses it.
LEMMA AskSender ==
    ASSUME TypeOK, AskInv, NEW s \in Sessions, SenderSend(s)
    PROVE  AskInv'
<1> DEFINE h == Head(send[s])
<1>1. /\ send \in [Sessions -> Seq(CoreMessage)] /\ down \in [Sessions -> Seq(CoreMessage)]
      /\ send[s] # <<>>
      /\ UNCHANGED <<subSess, subPc, agentSub, emitted, alive, conn>>
  BY Zenon DEF TypeOK, ManagerTypes, AgentTypes, SenderSend, userVars, subVars, workVars, connVars
<1>2. \A t \in Sessions : /\ t = s => send'[t] = Tail(send[s])
                          /\ t # s => send'[t] = send[t]
                          /\ down'[t] = down[t] \/ (t = s /\ down'[t] = Append(down[s], h))
  BY <1>1, Zenon DEF SenderSend
<1>3. h \in CoreMessage
  BY <1>1, TailType, Zenon
<1> HIDE DEF h
<1>4. send[s] \in Seq(CoreMessage) /\ down[s] \in Seq(CoreMessage)
  BY <1>1, Zenon
<1>5. /\ Has(send[s], h)
      /\ \A m : Has(Tail(send[s]), m) => Has(send[s], m)
  BY <1>1, <1>4, HasTail, Zenon DEF h
<1>6. \A m : Has(Append(down[s], h), m) => Has(down[s], m) \/ m = h
  BY <1>3, <1>4, HasAppend, Zenon
<1>7. ASSUME NEW u \in Subs PROVE Mail(s, u)'
  <2> DEFINE x == Subscribe(u)
             c == Cancel(u)
  <2>1. Mail(s, u)
    BY Zenon DEF AskInv
  <2>2. /\ Single(send[s], x) /\ Single(down[s], x)
        /\ Has(send[s], x) => Asked(u, s) /\ ~Has(down[s], x)
        /\ Has(down[s], x) => Asked(u, s)
        /\ Has(send[s], c) \/ Has(down[s], c) => subPc[u] = "closed"
    BY <2>1, Zenon DEF Mail
  <2> HIDE DEF x, c
  <2>3. Single(Tail(send[s]), x) /\ (h = x => ~Has(Tail(send[s]), x))
    BY <1>1, <1>4, <2>2, SingleTail, Zenon DEF h
  <2>4. Single(Append(down[s], h), x)
    <3>1. h = x => ~Has(down[s], x)
      BY <1>5, <2>2, Zenon
    <3> QED
      BY <1>3, <1>4, <2>2, <3>1, SingleAppend, Zenon
  <2>5. send'[s] = Tail(send[s]) /\ (down'[s] = down[s] \/ down'[s] = Append(down[s], h))
    BY <1>2, Zenon
  <2>6. Single(send'[s], x) /\ Single(down'[s], x)
    BY <2>2, <2>3, <2>4, <2>5, Zenon
  <2>7. \A m : Has(send'[s], m) => Has(send[s], m)
    BY <1>5, <2>5, Zenon
  <2>8. \A m : Has(down'[s], m) => Has(down[s], m) \/ m = h
    BY <1>6, <2>5, Zenon
  <2>9. Has(send'[s], x) => Asked(u, s) /\ ~Has(down'[s], x)
    BY <2>2, <2>3, <2>5, <2>7, <2>8, Zenon
  <2>10. Has(down'[s], x) => Asked(u, s)
    BY <1>5, <2>2, <2>8, Zenon
  <2>11. Has(send'[s], c) \/ Has(down'[s], c) => subPc[u] = "closed"
    BY <1>5, <2>2, <2>7, <2>8, Zenon
  <2>12. UNCHANGED <<subSess, subPc, agentSub>>
    BY <1>1, Zenon
  <2> QED
    BY <2>6, <2>9, <2>10, <2>11, <2>12, Zenon DEF Mail, Asked, x, c
<1>8. ASSUME NEW t \in Sessions, t # s, NEW u \in Subs PROVE Mail(t, u)'
  <2>1. UNCHANGED <<subSess, subPc, agentSub>> /\ send'[t] = send[t] /\ down'[t] = down[t]
    BY <1>1, <1>2, <1>8, Zenon
  <2> QED
    BY <2>1, Zenon DEF AskInv, Mail, Asked
<1>9. ASSUME NEW u \in Subs PROVE Started(u)'
  BY <1>1, Zenon DEF AskInv, Started
<1> QED
  BY <1>7, <1>8, <1>9, Zenon DEF AskInv

\* A message joins session.send: a Subscribe only when it is not under way yet, a
\* Cancel only at the end.
LEMMA MailAppend ==
    ASSUME NEW s \in Sessions, NEW u \in Subs, Mail(s, u), NEW m \in CoreMessage,
           send[s] \in Seq(CoreMessage),
           send'[s] = send[s] \/ send'[s] = Append(send[s], m), down'[s] = down[s],
           Asked(u, s) => Asked(u, s)',
           subPc[u] = "closed" => subPc'[u] = "closed",
           m = Subscribe(u) /\ send'[s] # send[s] =>
             Asked(u, s)' /\ ~Has(send[s], m) /\ ~Has(down[s], m),
           m = Cancel(u) => subPc'[u] = "closed"
    PROVE  Mail(s, u)'
<1>1. CASE send'[s] = send[s]
  BY <1>1, Zenon DEF Mail
<1>2. CASE send'[s] = Append(send[s], m) /\ send'[s] # send[s]
  <2> DEFINE x == Subscribe(u)
             c == Cancel(u)
  <2>1. /\ Single(send[s], x) /\ Single(down[s], x)
        /\ Has(send[s], x) => Asked(u, s) /\ ~Has(down[s], x)
        /\ Has(down[s], x) => Asked(u, s)
        /\ Has(send[s], c) \/ Has(down[s], c) => subPc[u] = "closed"
    BY Zenon DEF Mail
  <2>2. m = x => Asked(u, s)' /\ ~Has(send[s], m) /\ ~Has(down[s], m)
    BY <1>2, Zenon
  <2>3. m = c => subPc'[u] = "closed"
    BY Zenon
  <2> HIDE DEF x, c
  <2>4. \A y : Has(send'[s], y) => Has(send[s], y) \/ y = m
    <3>1. \A y : Has(Append(send[s], m), y) => Has(send[s], y) \/ y = m
      BY HasAppend, Zenon
    <3> QED
      BY <1>2, <3>1, Zenon
  <2>5. Single(send'[s], x)
    BY <1>2, <2>1, <2>2, SingleAppend, Zenon
  <2>6. Has(send'[s], x) => Asked(u, s)' /\ ~Has(down[s], x)
    BY <2>1, <2>2, <2>4, Zenon
  <2>7. Has(send'[s], c) \/ Has(down[s], c) => subPc'[u] = "closed"
    BY <2>1, <2>3, <2>4, Zenon
  <2> QED
    BY <2>1, <2>5, <2>6, <2>7, Zenon DEF Mail, x, c
<1> QED
  BY <1>1, <1>2, Zenon

\* Dispatch queues its command among them.
LEMMA AskDispatch ==
    ASSUME TypeOK, AskInv, NEW c \in Calls, DispatchSend(c)
    PROVE  AskInv'
<1>1. send \in [Sessions -> Seq(CoreMessage)] /\ Command(c) \in CoreMessage
  BY MessageTypes, Zenon DEF TypeOK, ManagerTypes
<1>2. UNCHANGED <<down, subSess, subPc, agentSub, emitted, alive, conn>>
  BY Zenon DEF DispatchSend, notCall, agentVars, netVars, workVars, subVars, connVars
<1>3. \A t \in Sessions : send'[t] = send[t] \/ send'[t] = Append(send[t], Command(c))
  BY <1>1, Zenon DEF DispatchSend
<1>4. \A u \in Subs : Command(c) # Subscribe(u) /\ Command(c) # Cancel(u)
  BY MessageForms, Zenon
<1>5. ASSUME NEW s \in Sessions, NEW u \in Subs PROVE Mail(s, u)'
  <2>1. Mail(s, u) /\ send[s] \in Seq(CoreMessage) /\ down'[s] = down[s]
    BY <1>1, <1>2, Zenon DEF AskInv
  <2>2. Asked(u, s) => Asked(u, s)'
    BY <1>2, Zenon DEF Asked
  <2>3. subPc[u] = "closed" => subPc'[u] = "closed"
    BY <1>2, Zenon
  <2> QED
    BY <1>1, <1>3, <1>4, <2>1, <2>2, <2>3, MailAppend, Zenon
<1>6. ASSUME NEW u \in Subs PROVE Started(u)'
  BY <1>2, Zenon DEF AskInv, Started
<1> QED
  BY <1>5, <1>6, Zenon DEF AskInv

\* Subscribe sends its message once.
LEMMA AskSend ==
    ASSUME TypeOK, AskInv, NEW u \in Subs, SubSend(u)
    PROVE  AskInv'
<1>1. /\ send \in [Sessions -> Seq(CoreMessage)] /\ Subscribe(u) \in CoreMessage
      /\ subPc \in [Subs -> {"idle", "add", "send", "forward", "push", "remove",
                             "cancel", "closed", "refused"}]
  BY MessageTypes, Zenon DEF TypeOK, ManagerTypes, SubTypes
<1>2. /\ UNCHANGED <<down, subSess, agentSub, emitted, alive, conn>>
      /\ subPc[u] = "send" /\ subPc' = [subPc EXCEPT ![u] = "forward"]
  BY Zenon DEF SubSend, SubStep, notSub, agentVars, netVars, workVars, connVars
<1>3. \A t \in Sessions : \/ send'[t] = send[t]
                          \/ send'[t] = Append(send[t], Subscribe(u)) /\ t = subSess[u]
  BY <1>1, Zenon DEF SubSend
<1>4. subPc'[u] = "forward" /\ \A v \in Subs : v # u => subPc'[v] = subPc[v]
  BY <1>1, <1>2, Zenon
<1>5. agentSub[u] = "none"
  BY <1>2, Zenon DEF AskInv, Started, Unasked
<1>6. ASSUME NEW s \in Sessions, NEW v \in Subs PROVE Mail(s, v)'
  <2>1. Mail(s, v) /\ send[s] \in Seq(CoreMessage) /\ down'[s] = down[s]
    BY <1>1, <1>2, Zenon DEF AskInv
  <2>2. UNCHANGED <<subSess, agentSub>>
    BY <1>2, Zenon
  <2>3. CASE v = u
    <3>1. ~Asked(u, s) /\ ~Has(send[s], Subscribe(u)) /\ ~Has(down[s], Subscribe(u))
      BY <1>2, <2>1, <2>3, Zenon DEF Mail, Asked, Unasked
    <3>2. send'[s] # send[s] => Asked(u, s)'
      BY <1>3, <1>4, <1>5, <2>2, Zenon DEF Asked, Unasked
    <3>3. subPc[u] # "closed" /\ Subscribe(u) # Cancel(u)
      BY <1>2, StreamForms, Zenon
    <3> QED
      BY <1>1, <1>3, <2>1, <2>3, <3>1, <3>2, <3>3, MailAppend, Zenon
  <2>4. CASE v # u
    <3>1. Subscribe(u) # Subscribe(v) /\ Subscribe(u) # Cancel(v)
      BY <2>4, StreamForms, Zenon
    <3>2. Asked(v, s) => Asked(v, s)'
      BY <1>4, <2>2, <2>4, Zenon DEF Asked
    <3>3. subPc[v] = "closed" => subPc'[v] = "closed"
      BY <1>4, <2>4, Zenon
    <3> QED
      BY <1>1, <1>3, <2>1, <3>1, <3>2, <3>3, MailAppend, Zenon
  <2> QED
    BY <2>3, <2>4, Zenon
<1>7. ASSUME NEW v \in Subs PROVE Started(v)'
  <2>1. UNCHANGED <<subSess, agentSub, emitted, alive, conn>> /\ Started(v)
    BY <1>2, Zenon DEF AskInv
  <2>2. CASE v = u
    BY <1>5, <2>1, <2>2, Zenon DEF Started
  <2>3. CASE v # u
    BY <1>4, <2>1, <2>3, Zenon DEF Started
  <2> QED
    BY <2>2, <2>3, Zenon
<1> QED
  BY <1>6, <1>7, Zenon DEF AskInv

\* The goroutine leaves a Cancel behind, if there is room for it.
LEMMA AskCancel ==
    ASSUME TypeOK, AskInv, NEW u \in Subs, SendCancel(u)
    PROVE  AskInv'
<1>1. /\ send \in [Sessions -> Seq(CoreMessage)] /\ Cancel(u) \in CoreMessage
      /\ subPc \in [Subs -> {"idle", "add", "send", "forward", "push", "remove",
                             "cancel", "closed", "refused"}]
  BY MessageTypes, Zenon DEF TypeOK, ManagerTypes, SubTypes
<1>2. /\ UNCHANGED <<down, subSess, agentSub, emitted, alive, conn>>
      /\ subPc[u] = "cancel" /\ subPc' = [subPc EXCEPT ![u] = "closed"]
  BY Zenon DEF SendCancel, SubStep, notSub, agentVars, netVars, workVars, connVars
<1>3. \A t \in Sessions : send'[t] = send[t] \/ send'[t] = Append(send[t], Cancel(u))
  BY <1>1, Zenon DEF SendCancel
<1>4. subPc'[u] = "closed" /\ \A v \in Subs : v # u => subPc'[v] = subPc[v]
  BY <1>1, <1>2, Zenon
<1>5. \A v \in Subs : /\ subPc[v] \notin Unasked => subPc'[v] \notin Unasked
                      /\ subPc[v] = "closed" => subPc'[v] = "closed"
  BY <1>4, Zenon DEF Unasked
<1>6. ASSUME NEW s \in Sessions, NEW v \in Subs PROVE Mail(s, v)'
  <2>1. Mail(s, v) /\ send[s] \in Seq(CoreMessage) /\ down'[s] = down[s]
    BY <1>1, <1>2, Zenon DEF AskInv
  <2>2. UNCHANGED <<subSess, agentSub>>
    BY <1>2, Zenon
  <2>3. Asked(v, s) => Asked(v, s)'
    BY <1>5, <2>2, Zenon DEF Asked
  <2>4. Cancel(u) # Subscribe(v) /\ (Cancel(u) = Cancel(v) => subPc'[v] = "closed")
    BY <1>4, StreamForms, Zenon
  <2> QED
    BY <1>1, <1>3, <1>5, <2>1, <2>3, <2>4, MailAppend, Zenon
<1>7. ASSUME NEW v \in Subs PROVE Started(v)'
  <2>1. UNCHANGED <<subSess, agentSub, emitted, alive, conn>> /\ Started(v)
    BY <1>2, Zenon DEF AskInv
  <2> QED
    BY <1>5, <2>1, Zenon DEF Started
<1> QED
  BY <1>6, <1>7, Zenon DEF AskInv

\* Messages have left the stream towards the agent.
LEMMA MailLess ==
    ASSUME NEW s, NEW u, Mail(s, u),
           send'[s] = send[s], Single(down'[s], Subscribe(u)),
           \A y : Has(down'[s], y) => Has(down[s], y),
           subPc'[u] = subPc[u],
           Has(send[s], Subscribe(u)) \/ Has(down'[s], Subscribe(u)) =>
             (Asked(u, s) => Asked(u, s)')
    PROVE  Mail(s, u)'
<1> DEFINE x == Subscribe(u)
           c == Cancel(u)
<1>1. /\ Single(send[s], x) /\ Single(down[s], x)
      /\ Has(send[s], x) => Asked(u, s) /\ ~Has(down[s], x)
      /\ Has(down[s], x) => Asked(u, s)
      /\ Has(send[s], c) \/ Has(down[s], c) => subPc[u] = "closed"
  BY Zenon DEF Mail
<1>2. /\ Single(down'[s], x)
      /\ Has(send[s], x) \/ Has(down'[s], x) => (Asked(u, s) => Asked(u, s)')
  BY Zenon
<1> HIDE DEF x, c
<1>3. /\ Has(send[s], x) => Asked(u, s)' /\ ~Has(down'[s], x)
      /\ Has(down'[s], x) => Asked(u, s)'
      /\ Has(send[s], c) \/ Has(down'[s], c) => subPc'[u] = "closed"
  BY <1>1, <1>2, Zenon
<1> QED
  BY <1>1, <1>2, <1>3, Zenon DEF Mail, x, c

\* The agent takes a message off the stream.  A Subscribe is the only one there
\* was for that subscription; a Cancel comes from a goroutine that is gone.
LEMMA AskReceive ==
    ASSUME TypeOK, AskInv, NEW s \in Sessions, AgentReceive(s)
    PROVE  AskInv'
<1> DEFINE m == Head(down[s])
<1>1. /\ down \in [Sessions -> Seq(CoreMessage)] /\ down[s] # <<>> /\ alive[s]
      /\ UNCHANGED <<send, subSess, subPc, emitted, alive, conn>>
  BY Zenon DEF TypeOK, AgentTypes, AgentReceive, coreVars, userVars, subVars, connVars
<1>2. \A t \in Sessions : /\ t = s => down'[t] = Tail(down[s])
                          /\ t # s => down'[t] = down[t]
  BY <1>1, Zenon DEF AgentReceive
<1>3. m \in CoreMessage /\ down[s] \in Seq(CoreMessage)
  BY <1>1, TailType, Zenon
<1>4. \/ agentSub' = agentSub
      \/ m.kind = "subscribe" /\ agentSub' = [agentSub EXCEPT ![m.id] = "run"]
      \/ m.kind = "cancel" /\ agentSub' = [agentSub EXCEPT ![m.id] = IF @ = "run" THEN "canceled" ELSE @]
  BY Zenon DEF AgentReceive
<1>5. agentSub \in [Subs -> {"none", "run", "canceled", "ended"}]
  BY Zenon DEF TypeOK, AgentTypes
<1> HIDE DEF m
<1>6. Has(down[s], m) /\ \A x : Has(Tail(down[s]), x) => Has(down[s], x)
  BY <1>1, <1>3, HasTail, Zenon DEF m
<1>7. \A u \in Subs : /\ Single(Tail(down[s]), Subscribe(u))
                      /\ m = Subscribe(u) => ~Has(Tail(down[s]), Subscribe(u))
  <2>1. \A u \in Subs : Single(down[s], Subscribe(u))
    BY Zenon DEF AskInv, Mail
  <2> QED
    BY <1>1, <1>3, <2>1, SingleTail, Zenon DEF m
<1>8. \A t \in Sessions : \A x : Has(down'[t], x) => Has(down[t], x)
  BY <1>2, <1>6, Zenon
<1>9. \A t \in Sessions, u \in Subs : Single(down'[t], Subscribe(u))
  BY <1>2, <1>7, Zenon DEF AskInv, Mail
<1>10. \A t \in Sessions, u \in Subs :
         /\ Mail(t, u) /\ send'[t] = send[t] /\ subPc'[u] = subPc[u] /\ subSess'[u] = subSess[u]
         /\ Started(u)
  BY <1>1, Zenon DEF AskInv
<1>11. ASSUME NEW t \in Sessions, NEW u \in Subs, agentSub'[u] = agentSub[u]
       PROVE  Mail(t, u)' /\ Started(u)'
  <2>1. Asked(u, t) => Asked(u, t)'
    BY <1>10, <1>11, Zenon DEF Asked
  <2>2. Mail(t, u)'
    BY <1>8, <1>9, <1>10, <2>1, MailLess, Zenon
  <2>3. UNCHANGED <<subSess, subPc, emitted, alive, conn>>
    BY <1>1, Zenon
  <2>4. Started(u)'
    BY <1>10, <1>11, <2>3, Zenon DEF Started
  <2> QED
    BY <2>2, <2>4, Zenon
<1>12. CASE agentSub' = agentSub
  BY <1>11, <1>12, Zenon DEF AskInv
<1>13. CASE m.kind = "subscribe" /\ agentSub' = [agentSub EXCEPT ![m.id] = "run"]
  <2>1. PICK u \in Subs : m.id = u /\ m = Subscribe(u)
    BY <1>3, <1>13, StreamForms, Zenon
  <2>2. Asked(u, s) /\ ~Has(send[s], Subscribe(u)) /\ ~Has(down'[s], Subscribe(u))
    BY <1>2, <1>6, <1>7, <1>10, <2>1, Zenon DEF Mail
  <2>3. agentSub'[u] = "run" /\ \A v \in Subs : v # u => agentSub'[v] = agentSub[v]
    BY <1>5, <1>13, <2>1, Zenon
  <2>4. ASSUME NEW t \in Sessions PROVE Mail(t, u)'
    <3>1. ~Has(send[t], Subscribe(u)) /\ ~Has(down'[t], Subscribe(u))
      <4>1. CASE t = s
        BY <2>2, <4>1, Zenon
      <4>2. CASE t # s
        <5>1. ~Asked(u, t)
          BY <2>2, <4>2, Zenon DEF Asked
        <5> QED
          BY <1>8, <1>10, <5>1, Zenon DEF Mail
      <4> QED
        BY <4>1, <4>2, Zenon
    <3> QED
      BY <1>8, <1>9, <1>10, <3>1, MailLess, Zenon
  <2>5. Started(u)'
    <3>1. UNCHANGED <<subSess, subPc, emitted, alive, conn>>
      BY <1>1, Zenon
    <3>2. subSess[u] = s /\ subPc[u] \notin Unasked /\ alive[s]
      BY <1>1, <2>2, Zenon DEF Asked
    <3>3. subSess[u] # None => conn[subSess[u]] # "none"
      BY <1>10, <2>2, Zenon DEF Started
    <3> QED
      BY <2>3, <3>1, <3>2, <3>3, Zenon DEF Started
  <2> QED
    BY <1>11, <2>3, <2>4, <2>5, Zenon DEF AskInv
<1>14. CASE /\ m.kind = "cancel"
            /\ agentSub' = [agentSub EXCEPT ![m.id] = IF @ = "run" THEN "canceled" ELSE @]
  <2>1. PICK u \in Subs : m.id = u /\ m = Cancel(u)
    BY <1>3, <1>14, StreamForms, Zenon
  <2>2. subPc[u] = "closed"
    BY <1>6, <1>10, <2>1, Zenon DEF Mail
  <2>3. /\ agentSub'[u] = IF agentSub[u] = "run" THEN "canceled" ELSE agentSub[u]
        /\ \A v \in Subs : v # u => agentSub'[v] = agentSub[v]
    BY <1>5, <1>14, <2>1, Zenon
  <2>4. CASE agentSub[u] # "run"
    BY <1>11, <2>3, <2>4, Zenon DEF AskInv
  <2>5. CASE agentSub[u] = "run"
    <3>1. \A t \in Sessions : ~Asked(u, t)
      BY <2>5, Zenon DEF Asked
    <3>2. ASSUME NEW t \in Sessions PROVE Mail(t, u)'
      BY <1>8, <1>9, <1>10, <3>1, MailLess, Zenon
    <3>3. Started(u)'
      <4>1. UNCHANGED <<subSess, subPc, emitted, alive, conn>>
        BY <1>1, Zenon
      <4>2. agentSub'[u] = "canceled"
        BY <2>3, <2>5, Zenon
      <4> QED
        BY <1>10, <2>2, <2>5, <4>1, <4>2, Zenon DEF Started
    <3> QED
      BY <1>11, <2>3, <3>2, <3>3, Zenon DEF AskInv
  <2> QED
    BY <2>4, <2>5, Zenon
<1> QED
  BY <1>4, <1>12, <1>13, <1>14, Zenon

\* A connection that breaks takes along what it had not delivered, and ends the
\* subscriptions of its agent.
LEMMA AskLeave ==
    ASSUME TypeOK, AskInv, NEW s \in Sessions, AgentLeave(s)
    PROVE  AskInv'
<1>1. /\ down' = [down EXCEPT ![s] = <<>>] /\ alive' = [alive EXCEPT ![s] = FALSE]
      /\ UNCHANGED <<send, subSess, subPc, emitted, conn>>
  BY Zenon DEF AgentLeave, coreVars, userVars, subVars, connVars
<1>2. \A t \in Sessions : /\ down'[t] = down[t] \/ down'[t] = <<>>
                          /\ t # s => alive'[t] = alive[t]
  BY <1>1, Zenon DEF TypeOK, AgentTypes
<1>3. \A u \in Subs : agentSub'[u] = IF subSess[u] = s /\ agentSub[u] # "none" THEN "ended"
                                     ELSE agentSub[u]
  BY Zenon DEF AgentLeave
<1>4. \A u \in Subs : agentSub'[u] = "none" <=> agentSub[u] = "none"
  BY <1>3, Zenon
<1>5. \A m : ~Has(<<>>, m) /\ Single(<<>>, m)
  <2>1. ~ \E i \in 1..Len(<<>>) : TRUE
    OBVIOUS
  <2> QED
    BY <2>1, Zenon DEF Single, Has
<1>6. ASSUME NEW t \in Sessions, NEW u \in Subs PROVE Mail(t, u)'
  <2>1. Mail(t, u) /\ send'[t] = send[t] /\ subPc'[u] = subPc[u] /\ subSess'[u] = subSess[u]
    BY <1>1, Zenon DEF AskInv
  <2>2. Asked(u, t) => Asked(u, t)'
    BY <1>4, <2>1, Zenon DEF Asked
  <2>3. \A y : Has(down'[t], y) => Has(down[t], y)
    BY <1>2, <1>5, Zenon
  <2>4. Single(down'[t], Subscribe(u))
    BY <1>2, <1>5, <2>1, Zenon DEF Mail
  <2> QED
    BY <2>1, <2>2, <2>3, <2>4, MailLess, Zenon
<1>7. ASSUME NEW u \in Subs PROVE Started(u)'
  <2>1. UNCHANGED <<subSess, subPc, emitted, conn>> /\ Started(u)
    BY <1>1, Zenon DEF AskInv
  <2>2. CASE agentSub'[u] = agentSub[u] /\ subSess[u] # s
    <3>1. agentSub[u] \in {"run", "canceled"} => subSess[u] \in Sessions /\ alive[subSess[u]]
      BY <2>1, Zenon DEF Started
    <3>2. agentSub[u] \in {"run", "canceled"} => alive'[subSess[u]]
      BY <1>2, <2>2, <3>1, Zenon
    <3> QED
      BY <2>1, <2>2, <3>2, Zenon DEF Started
  <2>3. CASE agentSub'[u] = "ended" /\ agentSub[u] # "none"
    BY <2>1, <2>3, Zenon DEF Started
  <2>4. CASE agentSub'[u] = "none" /\ agentSub[u] = "none"
    BY <2>1, <2>4, Zenon DEF Started
  <2> QED
    BY <1>3, <2>2, <2>3, <2>4, Zenon
<1> QED
  BY <1>6, <1>7, Zenon DEF AskInv

\* Every step keeps AskInv.
LEMMA AskNext == TypeOK /\ RegisteredIsOpen /\ AskInv /\ [Next]_vars => AskInv'
<1> SUFFICES ASSUME TypeOK, RegisteredIsOpen, AskInv, [Next]_vars
             PROVE  AskInv'
  BY Zenon
<1> USE DEF mgrVars, connVars, delVars, callVars, subVars, queueVars, userVars, netVars,
            workVars, agentVars, notSub, notCall, coreVars
<1>0. /\ subSess \in [Subs -> Sessions \cup {None}]
      /\ subPc \in [Subs -> {"idle", "add", "send", "forward", "push", "remove",
                             "cancel", "closed", "refused"}]
      /\ agentSub \in [Subs -> {"none", "run", "canceled", "ended"}]
      /\ emitted \in [Subs -> Nat] /\ alive \in [Sessions -> BOOLEAN]
      /\ sessions \in [Servers -> Sessions \cup {None}]
  BY Zenon DEF TypeOK, ManagerTypes, SubTypes, AgentTypes
<1>1. \A s \in Sessions : conn[s] # "none" => conn'[s] # "none"
  BY ConnStays, Zenon
<1>2. \A u \in Subs : Started(u)
  BY Zenon DEF AskInv
<1>3. ASSUME UNCHANGED <<send, down, subSess, subPc, agentSub, emitted>>,
             \A s \in Sessions : alive[s] => alive'[s]
      PROVE  AskInv'
  <2>1. ASSUME NEW u \in Subs PROVE Started(u)'
    BY <1>0, <1>1, <1>2, <1>3, StartedStays, Zenon
  <2>2. ASSUME NEW s \in Sessions, NEW u \in Subs PROVE Mail(s, u)'
    BY <1>3, Zenon DEF AskInv, Mail, Asked
  <2> QED
    BY <2>1, <2>2, Zenon DEF AskInv
<1>4. ASSUME NEW s \in Sessions, Dial(s) PROVE AskInv'
  <2>1. \A t \in Sessions : alive[t] => alive'[t]
    BY <1>0, <1>4, Zenon DEF Dial
  <2>2. UNCHANGED <<send, down, subSess, subPc, agentSub, emitted>>
    BY <1>4, Zenon DEF Dial
  <2> QED
    BY <1>3, <2>1, <2>2, Zenon
<1>5. ASSUME NEW u \in Subs, NEW v \in Servers, SubLookup(u, v) PROVE AskInv'
  <2>1. subPc[u] = "idle" /\ UNCHANGED <<send, down, agentSub, emitted, alive, conn>>
    BY <1>5, Zenon DEF SubLookup, SubStep
  <2>2. \A w \in Subs : w # u => subSess'[w] = subSess[w] /\ subPc'[w] = subPc[w]
    BY <1>0, <1>5, Zenon DEF SubLookup, SubStep
  <2>3. agentSub[u] = "none" /\ emitted[u] = 0 /\ (subSess[u] # None => conn[subSess[u]] # "none")
    BY <1>2, <2>1, Zenon DEF Started, Unasked
  <2>4. \/ subSess'[u] = subSess[u]
        \/ sessions[v] \in Capable /\ subSess'[u] = sessions[v]
    BY <1>0, <1>5, Zenon DEF SubLookup
  <2>5. sessions[v] \in Capable => conn[sessions[v]] # "none"
    <3>1. ASSUME sessions[v] \in Capable
          PROVE  conn[sessions[v]] \in {"registered", "loop", "resolve", "chunk", "unregister"}
      BY <3>1, SessionAssumption, Zenon DEF RegisteredIsOpen
    <3> QED
      BY <3>1, Zenon
  <2>6. subSess'[u] # None => conn[subSess'[u]] # "none"
    BY <2>3, <2>4, <2>5, Zenon
  <2>7. Started(u)' /\ \A s \in Sessions : ~Asked(u, s)
    BY <2>1, <2>3, <2>6, Zenon DEF Started, Asked, Unasked
  <2>8. subPc[u] # "closed"
    BY <2>1, Zenon
  <2> QED
    BY <1>0, <1>1, <2>1, <2>2, <2>7, <2>8, AskFrame, Zenon
<1>6. ASSUME NEW u \in Subs, SubAdd(u) \/ removeStream(u) \/ ForwardTake(u) \/ ForwardPush(u)
                             \/ ForwardEnd(u)
      PROVE  AskInv'
  <2>1. UNCHANGED <<send, down, subSess, agentSub, emitted, alive, conn>>
    BY <1>6, Zenon DEF SubAdd, removeStream, ForwardTake, ForwardPush, ForwardEnd
  <2>2. \A w \in Subs : w # u => subPc'[w] = subPc[w]
    BY <1>0, <1>6, Zenon DEF SubAdd, removeStream, ForwardTake, ForwardPush, ForwardEnd, SubStep
  <2>3. \/ subPc[u] \in {"add", "send"}
        \/ subPc[u] \in {"forward", "push", "remove"} /\ subPc'[u] \in {"forward", "push", "remove", "cancel"}
    BY <1>0, <1>6, Zenon DEF SubAdd, removeStream, ForwardTake, ForwardPush, ForwardEnd, SubStep
  <2>4. /\ subPc[u] # "closed"
        /\ subPc[u] \notin Unasked => subPc'[u] \notin Unasked
    BY <2>3, Zenon DEF Unasked
  <2>5. Started(u)' /\ \A s \in Sessions : Asked(u, s) => Asked(u, s)'
    BY <1>2, <2>1, <2>4, Zenon DEF Started, Asked
  <2> QED
    BY <1>0, <1>1, <2>1, <2>2, <2>4, <2>5, AskFrame, Zenon
<1>7. ASSUME NEW u \in Subs, emit(u) \/ runSubscription(u) PROVE AskInv'
  <2>1. /\ UNCHANGED <<send, down, subSess, subPc, alive, conn>>
        /\ agentSub[u] \in {"run", "canceled"}
    BY <1>7, Zenon DEF emit, runSubscription
  <2>2. \A w \in Subs : w # u => agentSub'[w] = agentSub[w] /\ emitted'[w] = emitted[w]
    BY <1>0, <1>7, Zenon DEF emit, runSubscription
  <2>3. agentSub'[u] \in {agentSub[u], "ended"}
    BY <1>0, <1>7, Zenon DEF emit, runSubscription
  <2>4. /\ agentSub[u] # "none" /\ agentSub'[u] # "none"
        /\ agentSub'[u] \in {"run", "canceled"} => agentSub'[u] = agentSub[u]
    BY <2>1, <2>3, Zenon
  <2>5. Started(u)' /\ \A s \in Sessions : ~Asked(u, s)
    BY <1>2, <2>1, <2>4, Zenon DEF Started, Asked
  <2> QED
    BY <1>0, <1>1, <2>1, <2>2, <2>5, AskFrame, Zenon
<1>8. ASSUME NEW s \in Sessions,
            \/ Verify(s) \/ Refuse(s) \/ register(s) \/ StartLoop(s)
            \/ Receive(s) \/ resolve(s) \/ resolveChunk(s) \/ DropChunk(s)
            \/ Heartbeat(s) \/ Return(s) \/ unregister(s) \/ UnregisterClose(s)
            \/ SenderStop(s) \/ DisconnectClose(s)
    PROVE UNCHANGED <<send, down, subSess, subPc, agentSub, emitted, alive>>
  BY <1>8, Zenon DEF Verify, Refuse, register, StartLoop, Receive, resolve,
     resolveChunk, DropChunk, Heartbeat, Return, unregister, UnregisterClose, SenderStop,
     DisconnectClose
<1>9. ASSUME NEW v \in Servers, DeleteServer(v) \/ Disconnect(v)
    PROVE UNCHANGED <<send, down, subSess, subPc, agentSub, emitted, alive>>
  BY <1>9, Zenon DEF DeleteServer, Disconnect
<1>10. ASSUME NEW c \in Calls,
            \/ (\E v \in Servers : DispatchLookup(c, v)) \/ DispatchPend(c)
            \/ DispatchAnswer(c) \/ DispatchAbort(c) \/ DispatchReturn(c) \/ CancelCall(c)
            \/ (\E ok \in BOOLEAN : execute(c, ok))
    PROVE UNCHANGED <<send, down, subSess, subPc, agentSub, emitted, alive>>
  BY <1>10, Zenon DEF DispatchLookup, DispatchPend, DispatchAnswer, DispatchAbort,
     DispatchReturn, CancelCall, execute
<1>11. ASSUME NEW u \in Subs, CancelSub(u) \/ Read(u)
    PROVE UNCHANGED <<send, down, subSess, subPc, agentSub, emitted, alive>>
  BY <1>11, Zenon DEF CancelSub, Read
<1>12. CASE UNCHANGED <<send, down, subSess, subPc, agentSub, emitted, alive>>
  BY <1>3, <1>12, Zenon
<1> QED
  BY <1>4, <1>5, <1>6, <1>7, <1>8, <1>9, <1>10, <1>11, <1>12, AskSender, AskDispatch, AskSend,
     AskCancel, AskReceive, AskLeave, Zenon
     DEF Next, HandlerStep, SenderStep, DispatchStep, SubscribeStep, vars

-----------------------------------------------------------------------------
(* Chunks under way.                                                       *)

\* The agent emitted m: a chunk it has counted, or the end of the stream, which
\* comes after all of them.
Genuine(m) ==
    IF m.eof THEN m.seq = emitted[m.id] + 1 /\ agentSub[m.id] = "ended"
             ELSE m.seq <= emitted[m.id]

\* ... on the session of its subscription.
Fit(m, s) == subSess[m.id] = s /\ agentSub[m.id] # "none" /\ Genuine(m)

\* Every chunk between the agent and the forwarding goroutine is genuine, and in
\* the queues of its own session and subscription.
ChunkInv ==
    /\ \A s \in Sessions : \A m \in StreamChunk : Has(up[s], m) => Fit(m, s)
    /\ \A s \in Sessions : conn[s] = "chunk" => Fit(held[s], s)
    /\ \A u \in Subs : \A m \in StreamChunk : Has(chunks[u], m) => m.id = u /\ Genuine(m)

\* No chunk is under way at first.
LEMMA ChunkInit == Init => ChunkInv
<1> SUFFICES ASSUME Init PROVE ChunkInv
  BY Zenon
<1>1. /\ \A s \in Sessions : up[s] = <<>> /\ conn[s] = "none"
      /\ \A u \in Subs : chunks[u] = <<>>
  BY Zenon DEF Init
<1>2. \A s \in Sessions : conn[s] # "chunk"
  BY <1>1, Zenon
<1> QED
  BY <1>1, <1>2, HasNothing, Zenon DEF ChunkInv

\* A subscription the agent has started belongs to its session for good, one that
\* has ended emits nothing more.
LEMMA AgentProgress ==
    ASSUME TypeOK, AskInv, [Next]_vars, NEW u \in Subs
    PROVE  /\ agentSub[u] # "none" => agentSub'[u] # "none" /\ subSess'[u] = subSess[u]
           /\ agentSub[u] = "ended" => agentSub'[u] = "ended" /\ emitted'[u] = emitted[u]
           /\ emitted'[u] = emitted[u] \/ emitted'[u] = emitted[u] + 1
<1> DEFINE Goal == /\ agentSub[u] # "none" => agentSub'[u] # "none" /\ subSess'[u] = subSess[u]
                   /\ agentSub[u] = "ended" => agentSub'[u] = "ended" /\ emitted'[u] = emitted[u]
                   /\ emitted'[u] = emitted[u] \/ emitted'[u] = emitted[u] + 1
<1> SUFFICES Goal
  BY Zenon
<1> USE DEF mgrVars, connVars, delVars, callVars, subVars, queueVars, userVars, netVars,
            workVars, agentVars, notSub, notCall, coreVars
<1>0. /\ subSess \in [Subs -> Sessions \cup {None}]
      /\ agentSub \in [Subs -> {"none", "run", "canceled", "ended"}]
      /\ emitted \in [Subs -> Nat] /\ down \in [Sessions -> Seq(CoreMessage)]
  BY Zenon DEF TypeOK, SubTypes, AgentTypes
<1>1. CASE UNCHANGED <<subSess, agentSub, emitted>>
  BY <1>1, Zenon
<1>2. ASSUME NEW w \in Subs, NEW v \in Servers, SubLookup(w, v) PROVE Goal
  <2>1. subPc[w] = "idle" /\ UNCHANGED <<agentSub, emitted>>
    BY <1>2, Zenon DEF SubLookup, SubStep
  <2>2. w = u => agentSub[u] = "none"
    BY <2>1, Zenon DEF AskInv, Started, Unasked
  <2>3. w # u => subSess'[u] = subSess[u]
    BY <1>0, <1>2, Zenon DEF SubLookup
  <2> QED
    BY <2>1, <2>2, <2>3, Zenon
<1>3. ASSUME NEW w \in Subs, emit(w) PROVE Goal
  <2>1. agentSub[w] \in {"run", "canceled"} /\ UNCHANGED <<agentSub, subSess>>
    BY <1>3, Zenon DEF emit
  <2>2. /\ w = u => emitted'[u] = emitted[u] + 1
        /\ w # u => emitted'[u] = emitted[u]
    BY <1>0, <1>3, Zenon DEF emit
  <2> QED
    BY <2>1, <2>2, Zenon
<1>4. ASSUME NEW w \in Subs, runSubscription(w) PROVE Goal
  <2>1. agentSub[w] \in {"run", "canceled"} /\ UNCHANGED <<emitted, subSess>>
    BY <1>4, Zenon DEF runSubscription
  <2>2. /\ w = u => agentSub'[u] = "ended"
        /\ w # u => agentSub'[u] = agentSub[u]
    BY <1>0, <1>4, Zenon DEF runSubscription
  <2> QED
    BY <2>1, <2>2, Zenon
<1>5. ASSUME NEW s \in Sessions, AgentLeave(s) PROVE Goal
  <2>1. UNCHANGED <<emitted, subSess>>
    BY <1>5, Zenon DEF AgentLeave
  <2>2. agentSub'[u] = agentSub[u] \/ (agentSub'[u] = "ended" /\ agentSub[u] # "none")
    BY <1>5, Zenon DEF AgentLeave
  <2> QED
    BY <2>1, <2>2, Zenon
<1>6. ASSUME NEW s \in Sessions, AgentReceive(s) PROVE Goal
  <2> DEFINE m == Head(down[s])
  <2>1. /\ UNCHANGED <<emitted, subSess>> /\ down[s] # <<>>
        /\ \/ agentSub' = agentSub
           \/ m.kind = "subscribe" /\ agentSub' = [agentSub EXCEPT ![m.id] = "run"]
           \/ m.kind = "cancel" /\ agentSub' = [agentSub EXCEPT ![m.id] = IF @ = "run" THEN "canceled" ELSE @]
    BY <1>6, Zenon DEF AgentReceive
  <2>2. m \in CoreMessage /\ down[s] \in Seq(CoreMessage)
    BY <1>0, <2>1, TailType, Zenon
  <2>3. Has(down[s], m)
    BY <2>1, <2>2, HasTail, Zenon
  <2> HIDE DEF m
  <2>4. CASE m.kind = "subscribe" /\ agentSub' = [agentSub EXCEPT ![m.id] = "run"]
    <3>1. PICK w \in Subs : m.id = w /\ m = Subscribe(w)
      BY <2>2, <2>4, StreamForms, Zenon
    <3>2. Mail(s, w) /\ Has(down[s], Subscribe(w))
      BY <2>3, <3>1, Zenon DEF AskInv
    <3>3. agentSub[w] = "none"
      BY <3>2, Zenon DEF Mail, Asked
    <3>4. w # u => agentSub'[u] = agentSub[u]
      BY <1>0, <2>4, <3>1, Zenon
    <3>5. w = u => agentSub[u] = "none"
      BY <3>3, Zenon
    <3> QED
      BY <2>1, <3>4, <3>5, Zenon
  <2>5. CASE m.kind = "cancel" /\ agentSub' = [agentSub EXCEPT ![m.id] = IF @ = "run" THEN "canceled" ELSE @]
    <3>1. agentSub'[u] = agentSub[u] \/ (agentSub[u] = "run" /\ agentSub'[u] = "canceled")
      <4>1. CASE m.id = u
        BY <1>0, <2>5, <4>1, Zenon
      <4>2. CASE m.id # u
        BY <1>0, <2>5, <4>2, Zenon
      <4> QED
        BY <4>1, <4>2, Zenon
    <3> QED
      BY <2>1, <3>1, Zenon
  <2> QED
    BY <1>1, <2>1, <2>4, <2>5, Zenon
<1>7. ASSUME NEW s \in Sessions,
            \/ Dial(s) \/ Verify(s) \/ Refuse(s) \/ register(s) \/ StartLoop(s)
            \/ Receive(s) \/ resolve(s) \/ resolveChunk(s) \/ DropChunk(s)
            \/ Heartbeat(s) \/ Return(s) \/ unregister(s) \/ UnregisterClose(s)
            \/ SenderSend(s) \/ SenderStop(s) \/ DisconnectClose(s)
    PROVE UNCHANGED <<subSess, agentSub, emitted>>
  BY <1>7, Zenon DEF Dial, Verify, Refuse, register, StartLoop, Receive, resolve,
     resolveChunk, DropChunk, Heartbeat, Return, unregister, UnregisterClose, SenderSend,
     SenderStop, DisconnectClose
<1>8. ASSUME NEW v \in Servers, DeleteServer(v) \/ Disconnect(v)
    PROVE UNCHANGED <<subSess, agentSub, emitted>>
  BY <1>8, Zenon DEF DeleteServer, Disconnect
<1>9. ASSUME NEW c \in Calls, \/ DispatchStep(c) \/ CancelCall(c)
                              \/ \E ok \in BOOLEAN : execute(c, ok)
    PROVE UNCHANGED <<subSess, agentSub, emitted>>
  BY <1>9, Zenon DEF DispatchStep, DispatchLookup, DispatchPend, DispatchSend, DispatchAnswer,
     DispatchAbort, DispatchReturn, CancelCall, execute
<1>10. ASSUME NEW w \in Subs, \/ SubAdd(w) \/ SubSend(w) \/ removeStream(w) \/ SendCancel(w)
                              \/ ForwardTake(w) \/ ForwardPush(w) \/ ForwardEnd(w)
                              \/ CancelSub(w) \/ Read(w)
    PROVE UNCHANGED <<subSess, agentSub, emitted>>
  BY <1>10, Zenon DEF SubAdd, SubSend, removeStream, SendCancel, ForwardTake, ForwardPush,
     ForwardEnd, CancelSub, Read
<1> QED
  BY <1>1, <1>2, <1>3, <1>4, <1>5, <1>6, <1>7, <1>8, <1>9, <1>10, Zenon
     DEF Next, HandlerStep, SenderStep, SubscribeStep, vars

\* A chunk stays genuine.
LEMMA GenuineStays ==
    ASSUME TypeOK, AskInv, [Next]_vars, NEW m \in StreamChunk, Genuine(m)
    PROVE  Genuine(m)'
<1>1. m.id \in Subs /\ m.seq \in Nat
  BY Zenon DEF StreamChunk
<1>2. emitted[m.id] \in Nat
  BY <1>1, Zenon DEF TypeOK, AgentTypes
<1>3. /\ agentSub[m.id] = "ended" => agentSub'[m.id] = "ended" /\ emitted'[m.id] = emitted[m.id]
      /\ emitted'[m.id] = emitted[m.id] \/ emitted'[m.id] = emitted[m.id] + 1
  BY <1>1, AgentProgress, Zenon
<1>4. CASE m.eof
  BY <1>3, <1>4, Zenon DEF Genuine
<1>5. CASE ~m.eof
  <2>1. m.seq <= emitted[m.id]
    BY <1>5, Zenon DEF Genuine
  <2>2. m.seq <= emitted'[m.id]
    BY <1>1, <1>2, <1>3, <2>1
  <2> QED
    BY <1>5, <2>2, Zenon DEF Genuine
<1> QED
  BY <1>4, <1>5, Zenon

\* ... and its subscription with its session.
LEMMA FitStays ==
    ASSUME TypeOK, AskInv, [Next]_vars, NEW m \in StreamChunk, NEW s, Fit(m, s)
    PROVE  Fit(m, s)'
<1>1. m.id \in Subs
  BY Zenon DEF StreamChunk
<1>2. agentSub'[m.id] # "none" /\ subSess'[m.id] = subSess[m.id]
  BY <1>1, AgentProgress, Zenon DEF Fit
<1> QED
  BY <1>2, GenuineStays, Zenon DEF Fit

\* Only what is new in a queue has to be looked at.
LEMMA ChunkStep ==
    ASSUME TypeOK, AskInv, ChunkInv, [Next]_vars,
           \A s \in Sessions : \A m \in StreamChunk :
             Has(up'[s], m) => Has(up[s], m) \/ Fit(m, s)',
           \A s \in Sessions : conn'[s] = "chunk" =>
             (conn[s] = "chunk" /\ held'[s] = held[s]) \/ Fit(held[s], s)',
           \A u \in Subs : \A m \in StreamChunk :
             Has(chunks'[u], m) => Has(chunks[u], m) \/ (m.id = u /\ Genuine(m)')
    PROVE  ChunkInv'
<1>1. ASSUME NEW s \in Sessions, NEW m \in StreamChunk, Has(up'[s], m) PROVE Fit(m, s)'
  BY <1>1, FitStays, Zenon DEF ChunkInv
<1>2. ASSUME NEW s \in Sessions, conn'[s] = "chunk" PROVE Fit(held[s], s)'
  <2>1. CASE conn[s] = "chunk" /\ held'[s] = held[s]
    <3>1. held[s] \in StreamChunk /\ Fit(held[s], s)
      BY <2>1, Zenon DEF ChunkInv, TypeOK, HandlerTypes
    <3>2. PICK m \in StreamChunk : m = held[s] /\ Fit(m, s)
      BY <3>1, Zenon
    <3>3. Fit(m, s)'
      BY <3>2, FitStays, Zenon
    <3> QED
      BY <2>1, <3>2, <3>3, Zenon DEF Fit, Genuine
  <2> QED
    BY <1>2, <2>1, Zenon
<1>3. ASSUME NEW u \in Subs, NEW m \in StreamChunk, Has(chunks'[u], m)
      PROVE  m.id = u /\ Genuine(m)'
  BY <1>3, GenuineStays, Zenon DEF ChunkInv
<1> QED
  BY <1>1, <1>2, <1>3, Zenon DEF ChunkInv

\* The receive loop takes a message: a chunk it keeps was in the queue.
LEMMA ChunkReceive ==
    ASSUME TypeOK, AskInv, ChunkInv, [Next]_vars, NEW s \in Sessions, Receive(s)
    PROVE  ChunkInv'
<1> DEFINE m == Head(up[s])
<1>1. /\ up \in [Sessions -> Seq(AgentMessage)] /\ up[s] # <<>>
      /\ held \in [Sessions -> AgentMessage \cup {NoMessage}]
      /\ conn \in [Sessions -> {"none", "hello", "verified", "registered", "loop", "resolve",
                                "chunk", "unregister", "close", "ended"}]
      /\ UNCHANGED chunks
  BY Zenon DEF TypeOK, HandlerTypes, AgentTypes, Receive, userVars, subVars
<1>2. \A t \in Sessions : up'[t] = up[t] \/ (t = s /\ up'[t] = Tail(up[s]))
  BY <1>1, Zenon DEF Receive
<1>3. m \in AgentMessage /\ up[s] \in Seq(AgentMessage)
  BY <1>1, TailType, Zenon
<1>4. Has(up[s], m) /\ \A x : Has(Tail(up[s]), x) => Has(up[s], x)
  BY <1>1, <1>3, HasTail, Zenon
<1>5. \/ UNCHANGED <<conn, held>>
      \/ /\ conn' = [conn EXCEPT ![s] = IF m.kind = "result" THEN "resolve" ELSE "chunk"]
         /\ held' = [held EXCEPT ![s] = m]
  BY Zenon DEF Receive
<1> HIDE DEF m
<1>6. \A t \in Sessions : \A x \in StreamChunk : Has(up'[t], x) => Has(up[t], x)
  BY <1>2, <1>4, Zenon
<1>7. ASSUME NEW t \in Sessions, conn'[t] = "chunk"
      PROVE  (conn[t] = "chunk" /\ held'[t] = held[t]) \/ Fit(held[t], t)'
  <2>1. CASE UNCHANGED <<conn, held>>
    BY <1>7, <2>1, Zenon
  <2>2. CASE /\ conn' = [conn EXCEPT ![s] = IF m.kind = "result" THEN "resolve" ELSE "chunk"]
             /\ held' = [held EXCEPT ![s] = m]
    <3>1. CASE t # s
      BY <1>1, <1>7, <2>2, <3>1, Zenon
    <3>2. CASE t = s
      <4>1. m.kind # "result" /\ held'[t] = m
        BY <1>1, <1>7, <2>2, <3>2, Zenon
      <4>2. m \in StreamChunk
        BY <1>3, <4>1, Zenon DEF AgentMessage, CommandResult
      <4>3. PICK x \in StreamChunk : x = m
        BY <4>2, Zenon
      <4>4. Fit(x, s)
        BY <1>4, <4>3, Zenon DEF ChunkInv
      <4>5. Fit(x, s)'
        BY <4>4, FitStays, Zenon
      <4> QED
        BY <3>2, <4>1, <4>3, <4>5, Zenon DEF Fit, Genuine
    <3> QED
      BY <3>1, <3>2, Zenon
  <2> QED
    BY <1>5, <2>1, <2>2, Zenon
<1>8. \A u \in Subs : chunks'[u] = chunks[u]
  BY <1>1, Zenon
<1> QED
  BY <1>6, <1>7, <1>8, ChunkStep, Zenon

\* resolveChunk puts the chunk it holds into the channel of its subscription.
LEMMA ChunkResolve ==
    ASSUME TypeOK, AskInv, ChunkInv, [Next]_vars, NEW s \in Sessions, resolveChunk(s)
    PROVE  ChunkInv'
<1>1. /\ chunks \in [Subs -> Seq(StreamChunk)]
      /\ conn \in [Sessions -> {"none", "hello", "verified", "registered", "loop", "resolve",
                                "chunk", "unregister", "close", "ended"}]
      /\ held \in [Sessions -> AgentMessage \cup {NoMessage}]
  BY Zenon DEF TypeOK, HandlerTypes, SubTypes
<1>2. /\ conn[s] = "chunk" /\ conn' = [conn EXCEPT ![s] = "loop"]
      /\ chunks' = [chunks EXCEPT ![held[s].id] = Append(@, held[s])]
      /\ held' = [held EXCEPT ![s] = NoMessage]
      /\ UNCHANGED up
  BY Zenon DEF resolveChunk, ConnStep, agentVars, netVars
<1>3. held[s] \in StreamChunk /\ Fit(held[s], s)
  BY <1>2, Zenon DEF ChunkInv, TypeOK, HandlerTypes
<1>4. PICK m \in StreamChunk : m = held[s] /\ Fit(m, s)
  BY <1>3, Zenon
<1>5. m.id \in Subs /\ Genuine(m)'
  BY <1>4, GenuineStays, Zenon DEF StreamChunk, Fit
<1>6. \A u \in Subs : chunks'[u] = chunks[u] \/ (u = m.id /\ chunks'[u] = Append(chunks[u], m))
  BY <1>1, <1>2, <1>4, Zenon
<1>7. \A u \in Subs : \A x : Has(Append(chunks[u], m), x) => Has(chunks[u], x) \/ x = m
  <2> SUFFICES ASSUME NEW u \in Subs
               PROVE  \A x : Has(Append(chunks[u], m), x) => Has(chunks[u], x) \/ x = m
    BY Zenon
  <2>1. chunks[u] \in Seq(StreamChunk)
    BY <1>1, Zenon
  <2> QED
    BY <2>1, HasAppend, Zenon
<1>8. ASSUME NEW u \in Subs, NEW x \in StreamChunk, Has(chunks'[u], x)
      PROVE  Has(chunks[u], x) \/ (x.id = u /\ Genuine(x)')
  BY <1>5, <1>6, <1>7, <1>8, Zenon
<1>9. \A t \in Sessions : conn'[t] = "chunk" => conn[t] = "chunk" /\ held'[t] = held[t]
  BY <1>1, <1>2, Zenon
<1>10. \A t \in Sessions : up'[t] = up[t]
  BY <1>2, Zenon
<1> QED
  BY <1>8, <1>9, <1>10, ChunkStep, Zenon

\* The agent queues a result, a chunk or the end of a stream.
LEMMA ChunkOutbound ==
    ASSUME TypeOK, AskInv, ChunkInv, [Next]_vars, NEW s, NEW m \in AgentMessage,
           Outbound(s, m), m \in StreamChunk => Fit(m, s)',
           UNCHANGED <<conn, held, chunks>>
    PROVE  ChunkInv'
<1>1. up \in [Sessions -> Seq(AgentMessage)]
  BY Zenon DEF TypeOK, AgentTypes
<1>2. \A t \in Sessions : up'[t] = up[t] \/ (t = s /\ up'[t] = Append(up[t], m))
  BY <1>1, Zenon DEF Outbound
<1>3. \A t \in Sessions : \A x : Has(Append(up[t], m), x) => Has(up[t], x) \/ x = m
  <2> SUFFICES ASSUME NEW t \in Sessions
               PROVE  \A x : Has(Append(up[t], m), x) => Has(up[t], x) \/ x = m
    BY Zenon
  <2>1. up[t] \in Seq(AgentMessage)
    BY <1>1, Zenon
  <2> QED
    BY <2>1, HasAppend, Zenon
<1>4. ASSUME NEW t \in Sessions, NEW x \in StreamChunk, Has(up'[t], x)
      PROVE  Has(up[t], x) \/ Fit(x, t)'
  BY <1>2, <1>3, <1>4, Zenon
<1>5. /\ \A t \in Sessions : conn'[t] = conn[t] /\ held'[t] = held[t]
      /\ \A u \in Subs : chunks'[u] = chunks[u]
  BY Zenon
<1> QED
  BY <1>4, <1>5, ChunkStep, Zenon

\* Every step keeps ChunkInv.
LEMMA ChunkNext == TypeOK /\ AskInv /\ ChunkInv /\ [Next]_vars => ChunkInv'
<1> SUFFICES ASSUME TypeOK, AskInv, ChunkInv, [Next]_vars
             PROVE  ChunkInv'
  BY Zenon
<1> USE DEF mgrVars, connVars, delVars, callVars, subVars, queueVars, userVars, netVars,
            workVars, agentVars, notSub, notCall, coreVars
<1>0. /\ conn \in [Sessions -> {"none", "hello", "verified", "registered", "loop", "resolve",
                                "chunk", "unregister", "close", "ended"}]
      /\ held \in [Sessions -> AgentMessage \cup {NoMessage}]
      /\ chunks \in [Subs -> Seq(StreamChunk)] /\ up \in [Sessions -> Seq(AgentMessage)]
      /\ agentSub \in [Subs -> {"none", "run", "canceled", "ended"}]
      /\ emitted \in [Subs -> Nat]
  BY Zenon DEF TypeOK, HandlerTypes, SubTypes, AgentTypes
<1>1. ASSUME UNCHANGED <<up, chunks>>,
             \A s \in Sessions : conn'[s] = "chunk" => conn[s] = "chunk" /\ held'[s] = held[s]
      PROVE  ChunkInv'
  BY <1>1, ChunkStep, Zenon
<1>2. CASE UNCHANGED <<up, chunks, conn, held>>
  BY <1>1, <1>2, Zenon
<1>3. ASSUME NEW s \in Sessions,
             \/ Dial(s) \/ Verify(s) \/ Refuse(s) \/ register(s) \/ StartLoop(s)
             \/ Heartbeat(s) \/ Return(s) \/ unregister(s) \/ UnregisterClose(s)
      PROVE  ChunkInv'
  <2>1. /\ UNCHANGED <<up, chunks, held>>
        /\ \E from : \E to \in {"hello", "verified", "registered", "loop", "unregister",
                                "close", "ended"} : ConnStep(s, from, to)
    BY <1>3, Zenon DEF Dial, Verify, Refuse, register, StartLoop, Heartbeat, Return,
       unregister, UnregisterClose
  <2>2. PICK from, to \in {"hello", "verified", "registered", "loop", "unregister",
                           "close", "ended"} : conn' = [conn EXCEPT ![s] = to]
    BY <2>1, Zenon DEF ConnStep
  <2>3. to # "chunk"
    BY <2>2, Zenon
  <2>4. \A t \in Sessions : conn'[t] = "chunk" => conn[t] = "chunk"
    BY <1>0, <2>2, <2>3, Zenon
  <2> QED
    BY <1>1, <2>1, <2>4, Zenon
<1>4. ASSUME NEW s \in Sessions, resolve(s) \/ DropChunk(s)
      PROVE  ChunkInv'
  <2>1. /\ UNCHANGED <<up, chunks>>
        /\ conn' = [conn EXCEPT ![s] = "loop"] /\ held' = [held EXCEPT ![s] = NoMessage]
    BY <1>4, Zenon DEF resolve, DropChunk, ConnStep
  <2>2. \A t \in Sessions : conn'[t] = "chunk" => conn[t] = "chunk" /\ held'[t] = held[t]
    BY <1>0, <2>1, Zenon
  <2> QED
    BY <1>1, <2>1, <2>2, Zenon
<1>5. ASSUME NEW u \in Subs, ForwardTake(u)
      PROVE  ChunkInv'
  <2>1. /\ UNCHANGED <<up, conn, held>> /\ chunks[u] # <<>>
        /\ chunks' = [chunks EXCEPT ![u] = Tail(@)]
    BY <1>5, Zenon DEF ForwardTake
  <2>2. chunks[u] \in Seq(StreamChunk)
    BY <1>0, Zenon
  <2>3. \A x : Has(Tail(chunks[u]), x) => Has(chunks[u], x)
    BY <2>1, <2>2, HasTail, Zenon
  <2>4. \A v \in Subs : \A m \in StreamChunk : Has(chunks'[v], m) => Has(chunks[v], m)
    BY <1>0, <2>1, <2>3, Zenon
  <2>5. \A t \in Sessions : up'[t] = up[t] /\ conn'[t] = conn[t] /\ held'[t] = held[t]
    BY <2>1, Zenon
  <2> QED
    BY <2>4, <2>5, ChunkStep, Zenon
<1>6. ASSUME NEW c \in Calls, NEW ok \in BOOLEAN, execute(c, ok)
      PROVE  ChunkInv'
  <2>1. UNCHANGED <<conn, held, chunks>> /\ Outbound(callSess[c], Result(c, ok))
    BY <1>6, Zenon DEF execute
  <2>2. Result(c, ok) \in AgentMessage /\ Result(c, ok) \notin StreamChunk
    BY MessageTypes, Zenon DEF Result, StreamChunk
  <2> QED
    BY <2>1, <2>2, ChunkOutbound, Zenon
<1>7. ASSUME NEW u \in Subs, emit(u)
      PROVE  ChunkInv'
  <2>1. emitted[u] + 1 \in Nat
    BY <1>0
  <2>2. PICK n \in Nat : n = emitted[u] + 1
    BY <2>1, Zenon
  <2>3. PICK m, s : m = Chunk(u, n) /\ s = subSess[u]
    BY Zenon
  <2>4. /\ UNCHANGED <<conn, held, chunks, subSess, agentSub>> /\ Outbound(s, m)
        /\ agentSub[u] \in {"run", "canceled"}
    BY <1>7, <2>2, <2>3, Zenon DEF emit
  <2>5. emitted'[u] = n
    BY <1>0, <1>7, <2>2, Zenon DEF emit
  <2>6. m \in AgentMessage /\ m.id = u /\ m.seq = n /\ ~m.eof
    BY <2>3, MessageTypes, Zenon DEF Chunk
  <2>7. agentSub[u] # "none"
    BY <2>4, Zenon
  <2>8. n <= n
    OBVIOUS
  <2>9. Fit(m, s)'
    BY <2>3, <2>4, <2>5, <2>6, <2>7, <2>8, Zenon DEF Fit, Genuine
  <2> QED
    BY <2>4, <2>6, <2>9, ChunkOutbound, Zenon
<1>8. ASSUME NEW u \in Subs, runSubscription(u)
      PROVE  ChunkInv'
  <2>1. emitted[u] + 1 \in Nat
    BY <1>0
  <2>2. PICK n \in Nat : n = emitted[u] + 1
    BY <2>1, Zenon
  <2>3. PICK m, s : m = Eof(u, n) /\ s = subSess[u]
    BY Zenon
  <2>4. /\ UNCHANGED <<conn, held, chunks, subSess, emitted>>
        /\ Outbound(s, m) \/ UNCHANGED up
    BY <1>8, <2>2, <2>3, Zenon DEF runSubscription
  <2>5. agentSub'[u] = "ended"
    BY <1>0, <1>8, Zenon DEF runSubscription
  <2>6. m \in AgentMessage /\ m.id = u /\ m.seq = n /\ m.eof
    BY <2>3, MessageTypes, Zenon DEF Eof
  <2>7. n = emitted'[u] + 1 /\ agentSub'[u] # "none"
    BY <2>2, <2>4, <2>5, Zenon
  <2>8. Fit(m, s)'
    BY <2>3, <2>4, <2>5, <2>6, <2>7, Zenon DEF Fit, Genuine
  <2> QED
    BY <1>2, <2>4, <2>6, <2>8, ChunkOutbound, Zenon
<1>9. ASSUME NEW s \in Sessions, AgentLeave(s)
      PROVE  ChunkInv'
  <2>1. UNCHANGED <<conn, held, chunks>>
    BY <1>9, Zenon DEF AgentLeave
  <2>2. PICK n \in 0..Len(up[s]) : up' = [up EXCEPT ![s] = SubSeq(@, 1, n)]
    BY <1>9, Zenon DEF AgentLeave
  <2>3. up[s] \in Seq(AgentMessage)
    BY <1>0, Zenon
  <2>4. \A x : Has(SubSeq(up[s], 1, n), x) => Has(up[s], x)
    BY <2>3, HasPrefix, Zenon
  <2>5. \A t \in Sessions : \A m \in StreamChunk : Has(up'[t], m) => Has(up[t], m)
    BY <1>0, <2>2, <2>4, Zenon
  <2>6. /\ \A t \in Sessions : conn'[t] = conn[t] /\ held'[t] = held[t]
        /\ \A u \in Subs : chunks'[u] = chunks[u]
    BY <2>1, Zenon
  <2> QED
    BY <2>5, <2>6, ChunkStep, Zenon
<1>10. ASSUME NEW s \in Sessions,
             \/ SenderSend(s) \/ SenderStop(s) \/ DisconnectClose(s) \/ AgentReceive(s)
       PROVE UNCHANGED <<up, chunks, conn, held>>
  BY <1>10, Zenon DEF SenderSend, SenderStop, DisconnectClose, AgentReceive
<1>11. ASSUME NEW v \in Servers, DeleteServer(v) \/ Disconnect(v)
       PROVE UNCHANGED <<up, chunks, conn, held>>
  BY <1>11, Zenon DEF DeleteServer, Disconnect
<1>12. ASSUME NEW c \in Calls, DispatchStep(c) \/ CancelCall(c)
       PROVE UNCHANGED <<up, chunks, conn, held>>
  BY <1>12, Zenon DEF DispatchStep, DispatchLookup, DispatchPend, DispatchSend, DispatchAnswer,
     DispatchAbort, DispatchReturn, CancelCall
<1>13. ASSUME NEW u \in Subs,
             \/ (\E v \in Servers : SubLookup(u, v)) \/ SubAdd(u) \/ SubSend(u)
             \/ removeStream(u) \/ SendCancel(u) \/ ForwardPush(u) \/ ForwardEnd(u)
             \/ CancelSub(u) \/ Read(u)
       PROVE UNCHANGED <<up, chunks, conn, held>>
  BY <1>13, Zenon DEF SubLookup, SubAdd, SubSend, removeStream, SendCancel, ForwardPush,
     ForwardEnd, CancelSub, Read
<1> QED
  BY <1>2, <1>3, <1>4, <1>5, <1>6, <1>7, <1>8, <1>9, <1>10, <1>11, <1>12, <1>13, ChunkReceive,
     ChunkResolve, Zenon DEF Next, HandlerStep, SenderStep, SubscribeStep, vars

-----------------------------------------------------------------------------
(* The chunks on the Core: r of them are read, then come the queue o of    *)
(* the reader, the chunk p the goroutine pushes (0 when it has none), the  *)
(* channel c and the hand h of the receive loop.  They are numbered        *)
(* through.                                                                *)

Row(q, k) == \A i \in 1..Len(q) : q[i] = k + i

Numbered(q, k) == \A i \in 1..Len(q) : q[i].seq = k + i

Count(p) == IF p = 0 THEN 0 ELSE 1

Ahead(r, o, p, c, h) == r + Len(o) + Count(p) + Len(c) + Len(h)

Piped(r, o, p, c, h) ==
    /\ Row(o, r)
    /\ p # 0 => p = r + Len(o) + 1
    /\ Numbered(c, r + Len(o) + Count(p))
    /\ Row(h, r + Len(o) + Count(p) + Len(c))

\* A length is a number.
LEMMA LenNat ==
    ASSUME NEW M, NEW q \in Seq(M)
    PROVE  Len(q) \in Nat /\ (q # <<>> => Len(q) >= 1)
  OBVIOUS

\* How many chunks the Core has taken is a number.
LEMMA AheadType ==
    ASSUME NEW r \in Nat, NEW o \in Seq(Nat), NEW p \in Nat, NEW c \in Seq(StreamChunk),
           NEW h \in Seq(Nat)
    PROVE  Ahead(r, o, p, c, h) \in Nat
  BY SMT DEF Ahead, Count

\* The receive loop takes the next chunk.
LEMMA PipedReceive ==
    ASSUME NEW r \in Nat, NEW o \in Seq(Nat), NEW p \in Nat, NEW c \in Seq(StreamChunk),
           Piped(r, o, p, c, <<>>),
           NEW x, x = Ahead(r, o, p, c, <<>>) + 1
    PROVE  Piped(r, o, p, c, <<x>>) /\ Ahead(r, o, p, c, <<x>>) = x
  BY SMT DEF Ahead, Count, Piped, Row, Numbered

\* It lets the chunk it holds go.
LEMMA PipedDrop ==
    ASSUME NEW r \in Nat, NEW o \in Seq(Nat), NEW p \in Nat, NEW c \in Seq(StreamChunk),
           NEW h \in Seq(Nat), Piped(r, o, p, c, h)
    PROVE  Piped(r, o, p, c, <<>>) /\ Ahead(r, o, p, c, <<>>) <= Ahead(r, o, p, c, h)
  BY SMT DEF Ahead, Count, Piped, Row, Numbered

\* resolveChunk puts it into the channel.
LEMMA PipedResolve ==
    ASSUME NEW r \in Nat, NEW o \in Seq(Nat), NEW p \in Nat, NEW c \in Seq(StreamChunk),
           NEW m \in StreamChunk, Piped(r, o, p, c, <<m.seq>>)
    PROVE  /\ Piped(r, o, p, Append(c, m), <<>>)
           /\ Ahead(r, o, p, Append(c, m), <<>>) = Ahead(r, o, p, c, <<m.seq>>)
<1> DEFINE k == r + Len(o) + Count(p)
           d == Append(c, m)
<1>1. k \in Nat
  BY SMT DEF Count
<1>2. Len(d) = Len(c) + 1 /\ d[Len(c) + 1] = m /\ \A i \in 1..Len(c) : d[i] = c[i]
  OBVIOUS
<1>3. m.seq = k + Len(c) + 1
  BY <1>1 DEF Piped, Row
<1>4. Numbered(c, k)
  BY DEF Piped
<1> HIDE DEF k, d
<1>5. Numbered(d, k)
  <2> SUFFICES ASSUME NEW i \in 1..Len(d) PROVE d[i].seq = k + i
    BY Zenon DEF Numbered
  <2>1. i \in 1..Len(c) \/ i = Len(c) + 1
    BY <1>2, LenNat, SMT
  <2>2. CASE i \in 1..Len(c)
    BY <1>2, <1>4, <2>2, Zenon DEF Numbered
  <2>3. CASE i = Len(c) + 1
    <3>1. k + i = k + Len(c) + 1
      BY <1>1, <2>3, LenNat, SMT
    <3> QED
      BY <1>2, <1>3, <2>3, <3>1, Zenon
  <2> QED
    BY <2>1, <2>2, <2>3, Zenon
<1>6. Row(<<>>, k + Len(d))
  BY DEF Row
<1> QED
  BY <1>2, <1>5, <1>6, SMT DEF Piped, Ahead, k, d, Count

\* The goroutine takes the first chunk of the channel, to push it ...
LEMMA PipedTake ==
    ASSUME NEW r \in Nat, NEW o \in Seq(Nat), NEW c \in Seq(StreamChunk), c # <<>>,
           NEW h \in Seq(Nat), Piped(r, o, 0, c, h)
    PROVE  /\ Head(c).seq = r + Len(o) + 1
           /\ Piped(r, o, Head(c).seq, Tail(c), h)
           /\ Ahead(r, o, Head(c).seq, Tail(c), h) = Ahead(r, o, 0, c, h)
<1> DEFINE k == r + Len(o)
           d == Tail(c)
           x == Head(c).seq
<1>1. k \in Nat /\ Len(c) \in Nat /\ Len(c) >= 1 /\ Count(0) = 0
  BY SMT DEF Count
<1>2. Len(d) = Len(c) - 1 /\ Head(c) = c[1] /\ \A i \in 1..Len(d) : d[i] = c[i + 1]
  OBVIOUS
<1>3. Numbered(c, k) /\ Row(o, r) /\ Row(h, k + Len(c))
  BY <1>1 DEF Piped
<1>4. x = k + 1
  BY <1>1, <1>2, <1>3 DEF Numbered
<1>5. Count(x) = 1
  BY <1>1, <1>4 DEF Count
<1> HIDE DEF k, d
<1>6. Numbered(d, k + 1)
  <2> SUFFICES ASSUME NEW i \in 1..Len(d) PROVE d[i].seq = k + 1 + i
    BY Zenon DEF Numbered
  <2>1. i + 1 \in 1..Len(c) /\ k + (i + 1) = k + 1 + i
    BY <1>1, <1>2, SMT
  <2> QED
    BY <1>2, <1>3, <2>1, Zenon DEF Numbered
<1>7. k + 1 + Len(d) = k + Len(c)
  BY <1>1, <1>2
<1> QED
  BY <1>1, <1>2, <1>3, <1>4, <1>5, <1>6, <1>7, SMT DEF Piped, Ahead, k, d

\* ... or, when it is the last one there is, to end.
LEMMA PipedEnd ==
    ASSUME NEW r \in Nat, NEW o \in Seq(Nat), NEW c \in Seq(StreamChunk), c # <<>>,
           NEW h \in Seq(Nat), Piped(r, o, 0, c, h), Ahead(r, o, 0, c, h) <= Head(c).seq
    PROVE  /\ Piped(r, o, 0, Tail(c), h)
           /\ Ahead(r, o, 0, c, h) = Head(c).seq
           /\ Ahead(r, o, 0, Tail(c), h) + 1 = Head(c).seq
<1>1. Head(c).seq = r + Len(o) + 1
  BY PipedTake, Zenon
<1>2. Count(0) = 0 /\ Len(o) \in Nat /\ Len(c) \in Nat /\ Len(h) \in Nat /\ Len(c) >= 1
  BY LenNat, Zenon DEF Count
<1>3. Len(Tail(c)) = Len(c) - 1
  OBVIOUS
<1>4. r + Len(o) + 0 + Len(c) + Len(h) <= r + Len(o) + 1
  BY <1>1, <1>2, Zenon DEF Ahead
<1> DEFINE x == Len(o)
           y == Len(c)
           z == Len(h)
           e == Len(Tail(c))
<1>5. y = 1 /\ z = 0 /\ e = 0
  <2> HIDE DEF x, y, z, e
  <2>1. x \in Nat /\ y \in Nat /\ z \in Nat /\ y >= 1 /\ e = y - 1 /\ r + x + 0 + y + z <= r + x + 1
    BY <1>2, <1>3, <1>4, Zenon DEF x, y, z, e
  <2> QED
    BY <2>1, SMT
<1>6. Row(o, r) /\ Numbered(Tail(c), r + Len(o) + 0) /\ Row(h, r + Len(o) + 0 + 0)
  <2>1. Row(o, r)
    BY Zenon DEF Piped
  <2>2. \A q, k : Len(q) = 0 => Row(q, k) /\ Numbered(q, k)
    BY SMT DEF Row, Numbered
  <2> QED
    BY <1>5, <2>1, <2>2, Zenon
<1>7. r + x + 0 + 1 + 0 = r + x + 1 /\ r + x + 0 + 0 + 0 + 1 = r + x + 1
  BY <1>2, SMT
<1> QED
  BY <1>1, <1>2, <1>5, <1>6, <1>7, Zenon DEF Ahead, Piped

\* The goroutine pushes its chunk to the reader.
LEMMA PipedPush ==
    ASSUME NEW r \in Nat, NEW o \in Seq(Nat), NEW p \in Nat, p # 0, NEW c \in Seq(StreamChunk),
           NEW h \in Seq(Nat), Piped(r, o, p, c, h)
    PROVE  /\ Piped(r, Append(o, p), 0, c, h)
           /\ Ahead(r, Append(o, p), 0, c, h) = Ahead(r, o, p, c, h)
<1>1. Row(Append(o, p), r)
  <2>1. p = r + Len(o) + 1 /\ Row(o, r)
    BY Zenon DEF Piped
  <2>2. /\ Len(Append(o, p)) = Len(o) + 1 /\ Append(o, p)[Len(o) + 1] = p
        /\ \A i \in 1..Len(o) : Append(o, p)[i] = o[i]
    OBVIOUS
  <2> SUFFICES ASSUME NEW i \in 1..Len(Append(o, p)) PROVE Append(o, p)[i] = r + i
    BY Zenon DEF Row
  <2>3. i \in 1..Len(o) \/ (i = Len(o) + 1 /\ r + i = r + Len(o) + 1)
    <3> DEFINE x == Len(o)
    <3>1. x \in Nat /\ i \in 1..(x + 1)
      BY <2>2, LenNat, Zenon
    <3> HIDE DEF x
    <3>2. i \in 1..x \/ (i = x + 1 /\ r + i = r + x + 1)
      BY <3>1, SMT
    <3> QED
      BY <3>2, Zenon DEF x
  <2> QED
    BY <2>1, <2>2, <2>3, Zenon DEF Row
<1>2. r + Len(Append(o, p)) + Count(0) = r + Len(o) + Count(p)
  BY SMT DEF Count
<1> QED
  BY <1>1, <1>2, SMT DEF Piped, Ahead

\* The reader reads the first chunk of its queue.
LEMMA PipedRead ==
    ASSUME NEW r \in Nat, NEW o \in Seq(Nat), o # <<>>, NEW p \in Nat, NEW c \in Seq(StreamChunk),
           NEW h \in Seq(Nat), Piped(r, o, p, c, h)
    PROVE  /\ Piped(Head(o), Tail(o), p, c, h)
           /\ Ahead(Head(o), Tail(o), p, c, h) = Ahead(r, o, p, c, h)
<1>1. Head(o) = r + 1 /\ Len(Tail(o)) = Len(o) - 1
  BY SMT DEF Piped, Row
<1>2. Row(Tail(o), r + 1)
  BY SMT DEF Piped, Row
<1>3. Head(o) + Len(Tail(o)) = r + Len(o)
  BY <1>1, SMT
<1> QED
  BY <1>1, <1>2, <1>3, SMT DEF Piped, Ahead

\* One numbered row after the other is a numbered row.
LEMMA RowConcat ==
    ASSUME NEW k \in Nat, NEW a \in Seq(Nat), NEW b \in Seq(Nat), Row(a, k), Row(b, k + Len(a))
    PROVE  a \o b \in Seq(Nat) /\ Len(a \o b) = Len(a) + Len(b) /\ Row(a \o b, k)
  BY SMT DEF Row

\* So what the reader has not read yet follows what it has read.
LEMMA PipedRow ==
    ASSUME NEW r \in Nat, NEW o \in Seq(Nat), NEW p \in Nat, NEW c \in Seq(StreamChunk),
           NEW h \in Seq(Nat), Piped(r, o, p, c, h)
    PROVE  \A q : q = o \o (IF p = 0 THEN <<>> ELSE <<p>>) \o Seqs(c) \o h =>
             Row(q, r) /\ Ahead(r, o, p, c, h) = r + Len(q) /\ Len(q) \in Nat
<1> SUFFICES ASSUME NEW q, q = o \o (IF p = 0 THEN <<>> ELSE <<p>>) \o Seqs(c) \o h
             PROVE  Row(q, r) /\ Ahead(r, o, p, c, h) = r + Len(q) /\ Len(q) \in Nat
  BY Zenon
<1> DEFINE P == IF p = 0 THEN <<>> ELSE <<p>>
<1>1. P \in Seq(Nat) /\ Len(P) = Count(p) /\ Count(p) \in Nat
  BY SMT DEF Count
<1>2. Row(P, r + Len(o))
  BY <1>1, SMT DEF Piped, Row, Count
<1>3. Seqs(c) \in Seq(Nat) /\ Len(Seqs(c)) = Len(c) /\ \A i \in 1..Len(c) : Seqs(c)[i] = c[i].seq
  <2>1. \A i \in 1..Len(c) : c[i].seq \in Nat
    <3> SUFFICES ASSUME NEW i \in 1..Len(c) PROVE c[i].seq \in Nat
      OBVIOUS
    <3>1. c[i] \in StreamChunk
      OBVIOUS
    <3> QED
      BY <3>1, Zenon DEF StreamChunk
  <2> QED
    BY <2>1, SMT DEF Seqs
<1>4. Row(Seqs(c), r + Len(o) + Count(p))
  BY <1>3, SMT DEF Piped, Row, Numbered
<1>5. Row(o, r) /\ Row(h, r + Len(o) + Count(p) + Len(c))
  BY DEF Piped
<1> HIDE DEF P
<1>6. o \o P \in Seq(Nat) /\ Len(o \o P) = Len(o) + Count(p) /\ Row(o \o P, r)
  BY <1>1, <1>2, <1>5, RowConcat, ZenonT(30)
<1>7. PICK a \in Seq(Nat) : a = o \o P
  BY <1>6, Zenon
<1>8. r + Len(a) = r + Len(o) + Count(p)
  <2>1. Len(a) = Len(o) + Count(p) /\ Len(o) \in Nat /\ Count(p) \in Nat
    BY <1>1, <1>6, <1>7, LenNat, Zenon
  <2> DEFINE x == Len(o)
             y == Count(p)
             z == Len(a)
  <2> HIDE DEF x, y, z
  <2>2. x \in Nat /\ y \in Nat /\ z = x + y
    BY <2>1, Zenon DEF x, y, z
  <2>3. r + z = r + x + y
    BY <2>2, SMT
  <2> QED
    BY <2>3, Zenon DEF x, y, z
<1>9. /\ a \o Seqs(c) \in Seq(Nat) /\ Len(a \o Seqs(c)) = Len(a) + Len(c)
      /\ Row(a \o Seqs(c), r)
  <2>1. Row(a, r)
    BY <1>6, <1>7, Zenon
  <2>2. Row(Seqs(c), r + Len(a))
    BY <1>4, <1>8, Zenon
  <2>3. PICK e \in Seq(Nat) : e = Seqs(c)
    BY <1>3, Zenon
  <2>4. Row(e, r + Len(a)) /\ Len(e) = Len(c)
    BY <1>3, <2>2, <2>3, Zenon
  <2>5. a \o e \in Seq(Nat) /\ Len(a \o e) = Len(a) + Len(e) /\ Row(a \o e, r)
    BY <2>1, <2>4, RowConcat, Zenon
  <2> QED
    BY <2>3, <2>4, <2>5, Zenon
<1>10. PICK b \in Seq(Nat) : b = a \o Seqs(c)
  BY <1>9, Zenon
<1>11. r + Len(b) = r + Len(o) + Count(p) + Len(c)
  <2> DEFINE x == r + Len(o) + Count(p)
             y == Len(c)
             z == Len(a)
             l == Len(b)
  <2>1. x = r + z /\ y \in Nat /\ z \in Nat /\ l = z + y
    BY <1>8, <1>9, <1>10, LenNat, Zenon
  <2> HIDE DEF x, y, z, l
  <2>2. r + l = x + y
    BY <2>1, SMT
  <2> QED
    BY <2>2, Zenon DEF x, y, l
<1>12. Len(b \o h) = Len(b) + Len(h) /\ Row(b \o h, r)
  BY <1>5, <1>9, <1>10, <1>11, RowConcat, Zenon
<1>13. q = b \o h
  BY <1>7, <1>10, Zenon DEF P
<1>14. Len(b) \in Nat /\ Len(h) \in Nat
  BY LenNat, Zenon
<1> DEFINE x == r + Len(o) + Count(p) + Len(c)
           y == Len(b)
           z == Len(h)
           l == Len(q)
<1>15. x = r + y /\ y \in Nat /\ z \in Nat /\ l = y + z
  BY <1>11, <1>12, <1>13, <1>14, Zenon
<1>16. x + z = r + l /\ l \in Nat
  <2> HIDE DEF x, y, z, l
  <2> QED
    BY <1>15, SMT
<1> QED
  BY <1>12, <1>13, <1>16, Zenon DEF Ahead

-----------------------------------------------------------------------------
(* The whole way of a stream.  Front(u) is the last chunk of u the Core    *)
(* has taken from the connection, Final(u) the last one the agent made.    *)

Hand(u) == IF Resolving(u) THEN <<held[subSess[u]].seq>> ELSE <<>>

Front(u) == Ahead(received[u], output[u], pushing[u], chunks[u], Hand(u))

Final(u) == emitted[u] + (IF agentSub[u] = "ended" THEN 1 ELSE 0)

\* The goroutine has a chunk to push exactly in its second select; one it was
\* pushing when it ended is left.
Phase(u) ==
    /\ subPc[u] \in Unasked \cup {"forward"} => pushing[u] = 0
    /\ subPc[u] = "push" => pushing[u] # 0

Pipe(u) ==
    /\ Piped(received[u], output[u], pushing[u], chunks[u], Hand(u))
    /\ Phase(u)
    /\ Front(u) <= Final(u)

\* The last chunk that must be on its way while the stream is open: the end of
\* the stream only as long as the goroutine waits for it.
LastSeq(u) ==
    emitted[u] + (IF agentSub[u] = "ended" /\ subPc[u] \in {"forward", "push"} THEN 1 ELSE 0)

\* As long as the session knows the stream, what is queued towards the Core
\* continues what the Core has; as long as the agent is there, up to the last.
Lane(u) ==
    \A s \in Sessions : u \in streams[s] =>
        /\ Ordered(up[s], u, Front(u))
        /\ alive[s] => UpTo(up[s], u, Front(u), LastSeq(u))

FlowInv == \A u \in Subs : Pipe(u) /\ Lane(u)

\* The values these definitions speak of have their types.
LEMMA FlowTypes ==
    ASSUME TypeOK, NEW u \in Subs
    PROVE  /\ received[u] \in Nat /\ output[u] \in Seq(Nat) /\ pushing[u] \in Nat
           /\ chunks[u] \in Seq(StreamChunk) /\ Hand(u) \in Seq(Nat)
           /\ emitted[u] \in Nat /\ Front(u) \in Nat /\ Final(u) \in Nat
           /\ LastSeq(u) \in Nat /\ LastSeq(u) <= Final(u)
<1>1. /\ received[u] \in Nat /\ output[u] \in Seq(Nat) /\ pushing[u] \in Nat
      /\ chunks[u] \in Seq(StreamChunk) /\ emitted[u] \in Nat
      /\ subSess[u] \in Sessions \cup {None}
  BY Zenon DEF TypeOK, SubTypes, AgentTypes
<1>2. Hand(u) \in Seq(Nat)
  <2>1. CASE Resolving(u)
    <3>1. held[subSess[u]] \in StreamChunk
      BY <1>1, <2>1, Zenon DEF Resolving, TypeOK, HandlerTypes
    <3>2. held[subSess[u]].seq \in Nat
      BY <3>1, Zenon DEF StreamChunk
    <3>3. \A x \in Nat : <<x>> \in Seq(Nat)
      OBVIOUS
    <3> QED
      BY <2>1, <3>2, <3>3, Zenon DEF Hand
  <2>2. CASE ~Resolving(u)
    <3>1. <<>> \in Seq(Nat)
      OBVIOUS
    <3> QED
      BY <2>2, <3>1, Zenon DEF Hand
  <2> QED
    BY <2>1, <2>2, Zenon
<1>3. Front(u) \in Nat
  BY <1>1, <1>2, AheadType, Zenon DEF Front
<1>4. Final(u) \in Nat /\ LastSeq(u) \in Nat /\ LastSeq(u) <= Final(u)
  BY <1>1, SMT DEF Final, LastSeq
<1> QED
  BY <1>1, <1>2, <1>3, <1>4, Zenon

\* The agent only ever makes more chunks.
LEMMA FinalGrows ==
    ASSUME TypeOK, AskInv, [Next]_vars, NEW u \in Subs
    PROVE  Final(u)' \in Nat /\ Final(u) <= Final(u)'
<1>1. emitted[u] \in Nat
  BY FlowTypes, Zenon
<1>2. /\ agentSub[u] = "ended" => agentSub'[u] = "ended" /\ emitted'[u] = emitted[u]
      /\ emitted'[u] = emitted[u] \/ emitted'[u] = emitted[u] + 1
  BY AgentProgress, Zenon
<1> QED
  BY <1>1, <1>2, SMT DEF Final

\* A queue that has the chunks up to n has those up to a smaller number.
LEMMA UpToLess ==
    ASSUME NEW q, NEW u, NEW k \in Nat, NEW n \in Nat, NEW m \in Nat, m <= n, UpTo(q, u, k, n)
    PROVE  UpTo(q, u, k, m)
<1>1. \A x \in (k + 1)..m : x \in (k + 1)..n
  BY SMT
<1> QED
  BY <1>1, Zenon DEF UpTo

\* A step that leaves the Core's queues of u alone keeps them numbered.
LEMMA PipeKeeps ==
    ASSUME TypeOK, AskInv, [Next]_vars, NEW u \in Subs, Pipe(u),
           received'[u] = received[u], output'[u] = output[u], pushing'[u] = pushing[u],
           chunks'[u] = chunks[u], Hand(u)' = Hand(u), Phase(u)'
    PROVE  Pipe(u)' /\ Front(u)' = Front(u)
<1>1. Front(u)' = Front(u)
  BY Zenon DEF Front
<1>2. Piped(received[u], output[u], pushing[u], chunks[u], Hand(u))'
  BY Zenon DEF Pipe
<1>3. Front(u) <= Final(u)'
  <2>1. Front(u) \in Nat /\ Final(u) \in Nat /\ Final(u)' \in Nat
    BY FlowTypes, FinalGrows, Zenon
  <2>2. Front(u) <= Final(u) /\ Final(u) <= Final(u)'
    BY FinalGrows, Zenon DEF Pipe
  <2> QED
    BY <2>1, <2>2, SMT
<1> QED
  BY <1>1, <1>2, <1>3, Zenon DEF Pipe

\* What may happen to a queue that does not concern u: a message of another
\* addressee comes or goes.
Passes(q, r, u) ==
    \/ r = q
    \/ q # <<>> /\ ~Of(Head(q), u) /\ r = Tail(q)
    \/ \E m \in AgentMessage : ~Of(m, u) /\ r = Append(q, m)

\* It leaves the chunks of u in order and complete.
LEMMA OrderedPasses ==
    ASSUME NEW q \in Seq(AgentMessage), NEW r, NEW u, Passes(q, r, u),
           NEW k \in Nat, Ordered(q, u, k)
    PROVE  Ordered(r, u, k) /\ \A n : UpTo(q, u, k, n) => UpTo(r, u, k, n)
<1>1. CASE r = q
  BY <1>1, Zenon
<1>2. CASE q # <<>> /\ ~Of(Head(q), u) /\ r = Tail(q)
  BY <1>2, OrderedSkip, Zenon
<1>3. CASE \E m \in AgentMessage : ~Of(m, u) /\ r = Append(q, m)
  BY <1>3, OrderedOther, Zenon
<1> QED
  BY <1>1, <1>2, <1>3, Zenon DEF Passes

\* A step that leaves what the Core has of u alone, and in the queue of its session
\* at most other messages come and go, keeps the order of that queue.
LEMMA LaneKeeps ==
    ASSUME TypeOK, TypeOK', NEW u \in Subs, Lane(u), Front(u)' = Front(u),
           \A s \in Sessions : u \in streams'[s] =>
             /\ u \in streams[s] /\ Passes(up[s], up'[s], u)
             /\ alive'[s] => alive[s] /\ LastSeq(u)' <= LastSeq(u)
    PROVE  Lane(u)'
<1> SUFFICES ASSUME NEW s \in Sessions, u \in streams'[s]
             PROVE  /\ Ordered(up[s], u, Front(u))'
                    /\ alive'[s] => UpTo(up[s], u, Front(u), LastSeq(u))'
  BY Zenon DEF Lane
<1>1. Ordered(up[s], u, Front(u)) /\ Passes(up[s], up'[s], u)
  BY Zenon DEF Lane
<1>2. Front(u) \in Nat /\ LastSeq(u) \in Nat /\ up[s] \in Seq(AgentMessage)
  BY FlowTypes, Zenon DEF TypeOK, AgentTypes
<1>3. PICK r : r = up'[s]
  BY Zenon
<1>4. Ordered(r, u, Front(u)) /\ \A n : UpTo(up[s], u, Front(u), n) => UpTo(r, u, Front(u), n)
  BY <1>1, <1>2, <1>3, OrderedPasses, Zenon
<1>5. Ordered(up[s], u, Front(u))'
  BY <1>3, <1>4, Zenon
<1>6. ASSUME alive'[s]
      PROVE  UpTo(up[s], u, Front(u), LastSeq(u))'
  <2>1. LastSeq(u)' \in Nat
    <3>1. emitted'[u] \in Nat
      BY Zenon DEF TypeOK, AgentTypes
    <3> QED
      BY <3>1, SMT DEF LastSeq
  <2>2. UpTo(up[s], u, Front(u), LastSeq(u)) /\ LastSeq(u)' <= LastSeq(u)
    BY <1>6, Zenon DEF Lane
  <2>3. PICK n : n = LastSeq(u)'
    BY Zenon
  <2>4. UpTo(up[s], u, Front(u), n)
    BY <1>2, <2>1, <2>2, <2>3, UpToLess, Zenon
  <2> QED
    BY <1>3, <1>4, <2>3, <2>4, Zenon
<1> QED
  BY <1>5, <1>6, Zenon

\* The hand of the receive loop holds a chunk of u, or none, as before.
LEMMA HandKeeps ==
    ASSUME NEW u \in Subs, subSess \in [Subs -> Sessions \cup {None}],
           subSess'[u] = subSess[u],
           \A s \in Sessions : (conn'[s] = "chunk" <=> conn[s] = "chunk")
                               /\ (conn[s] = "chunk" => held'[s] = held[s])
    PROVE  Hand(u)' = Hand(u)
<1>1. subSess[u] # None => subSess[u] \in Sessions
  BY Zenon
<1>2. Resolving(u)' <=> Resolving(u)
  BY <1>1, Zenon DEF Resolving
<1>3. CASE Resolving(u)
  <2>1. held'[subSess[u]] = held[subSess[u]]
    BY <1>1, <1>3, Zenon DEF Resolving
  <2> QED
    BY <1>2, <1>3, <2>1, Zenon DEF Hand
<1>4. CASE ~Resolving(u)
  BY <1>2, <1>4, Zenon DEF Hand
<1> QED
  BY <1>3, <1>4, Zenon

\* Before the first subscription nothing is on its way.
LEMMA FlowInit == Init => FlowInv
<1> SUFFICES ASSUME Init, NEW u \in Subs
             PROVE  Pipe(u) /\ Lane(u)
  BY Zenon DEF FlowInv
<1>1. /\ received[u] = 0 /\ output[u] = <<>> /\ pushing[u] = 0 /\ chunks[u] = <<>>
      /\ emitted[u] = 0 /\ agentSub[u] = "none" /\ subPc[u] = "idle" /\ subSess[u] = None
      /\ streams = [s \in Sessions |-> {}]
  BY Zenon DEF Init
<1>2. Hand(u) = <<>>
  BY <1>1, Zenon DEF Hand, Resolving
<1>3. Piped(0, <<>>, 0, <<>>, <<>>) /\ Ahead(0, <<>>, 0, <<>>, <<>>) = 0
  BY SMT DEF Piped, Ahead, Row, Numbered, Count
<1>4. Front(u) = 0
  BY <1>1, <1>2, <1>3, Zenon DEF Front
<1>5. Final(u) = 0
  BY <1>1, SMT DEF Final
<1>6. Front(u) <= Final(u)
  BY <1>4, <1>5, SMT
<1>7. Phase(u)
  BY <1>1, Zenon DEF Phase
<1>8. Lane(u)
  BY <1>1, Zenon DEF Lane
<1> QED
  BY <1>1, <1>2, <1>3, <1>6, <1>7, <1>8, Zenon DEF Pipe

\* What is known of a state, and of the types after a step.
Sound == TypeOK /\ MapInv /\ StreamInv /\ AskInv /\ ChunkInv /\ FlowInv

\* A stream the session knows is a stream of that session.
LEMMA StreamSession ==
    ASSUME Sound, NEW s \in Sessions, NEW u \in streams[s]
    PROVE  /\ u \in Subs /\ subSess[u] = s /\ ~done[s] /\ conn[s] # "none"
           /\ subPc[u] \in {"send", "forward", "push", "remove"}
<1>1. u \in Subs
  BY Zenon DEF Sound, TypeOK, ManagerTypes
<1>2. subSess[u] = s /\ ~done[s] /\ subPc[u] \in {"send", "forward", "push", "remove"}
  BY Zenon DEF Sound, StreamInv, NoOrphanStream
<1>3. s # None
  BY SessionAssumption, Zenon
<1>4. conn[s] # "none"
  BY <1>1, <1>2, <1>3, Zenon DEF Sound, AskInv, Started
<1> QED
  BY <1>1, <1>2, <1>4, Zenon

\* A step that does not concern u.
LEMMA FlowIdle ==
    ASSUME Sound, TypeOK', [Next]_vars, NEW u \in Subs,
           received'[u] = received[u], output'[u] = output[u], pushing'[u] = pushing[u],
           chunks'[u] = chunks[u], Hand(u)' = Hand(u), subPc'[u] = subPc[u],
           emitted'[u] = emitted[u], agentSub'[u] = agentSub[u] \/ agentSub'[u] # "ended",
           \A s \in Sessions : u \in streams'[s] =>
             u \in streams[s] /\ Passes(up[s], up'[s], u) /\ (alive'[s] => alive[s])
    PROVE  Pipe(u)' /\ Lane(u)'
<1>1. TypeOK /\ AskInv /\ Pipe(u) /\ Lane(u)
  BY Zenon DEF Sound, FlowInv
<1>2. Phase(u)'
  BY <1>1, Zenon DEF Pipe, Phase
<1>3. Pipe(u)' /\ Front(u)' = Front(u)
  BY <1>1, <1>2, PipeKeeps, Zenon
<1>4. LastSeq(u)' <= LastSeq(u)
  <2>1. emitted[u] \in Nat
    BY <1>1, FlowTypes, Zenon
  <2> QED
    BY <2>1, SMT DEF LastSeq
<1>5. Lane(u)'
  BY <1>1, <1>3, <1>4, LaneKeeps, Zenon
<1> QED
  BY <1>3, <1>5, Zenon

\* Connections, closes, calls and cancelled contexts do not concern a stream, except
\* that a close forgets it.
LEMMA FlowOther ==
    ASSUME Sound, TypeOK', [Next]_vars,
           UNCHANGED <<received, output, pushing, chunks, subSess, subPc, emitted, up>>,
           \A u \in Subs : agentSub'[u] = agentSub[u] \/ agentSub'[u] # "ended",
           \A s \in Sessions : streams'[s] \subseteq streams[s],
           \A s \in Sessions : alive'[s] => alive[s] \/ conn[s] = "none",
           \A s \in Sessions : (conn'[s] = "chunk" <=> conn[s] = "chunk")
                               /\ (conn[s] = "chunk" => held'[s] = held[s])
    PROVE  FlowInv'
<1> SUFFICES ASSUME NEW u \in Subs
             PROVE  Pipe(u)' /\ Lane(u)'
  BY Zenon DEF FlowInv
<1>1. subSess \in [Subs -> Sessions \cup {None}]
  BY Zenon DEF Sound, TypeOK, SubTypes
<1>2. Hand(u)' = Hand(u)
  BY <1>1, HandKeeps, Zenon
<1>3. ASSUME NEW s \in Sessions, u \in streams'[s]
      PROVE  u \in streams[s] /\ Passes(up[s], up'[s], u) /\ (alive'[s] => alive[s])
  <2>1. u \in streams[s] /\ up'[s] = up[s]
    BY <1>3, Zenon
  <2>2. conn[s] # "none"
    BY <2>1, StreamSession, Zenon
  <2> QED
    BY <2>1, <2>2, Zenon DEF Passes
<1>4. /\ received'[u] = received[u] /\ output'[u] = output[u] /\ pushing'[u] = pushing[u]
      /\ chunks'[u] = chunks[u] /\ subPc'[u] = subPc[u] /\ emitted'[u] = emitted[u]
  BY Zenon
<1> QED
  BY <1>2, <1>3, <1>4, FlowIdle, Zenon

=============================================================================
