---------------------------- MODULE StreamProofs ----------------------------
(***************************************************************************)
(* StreamIntact of ControlPlane, for every set of servers, sessions, calls *)
(* and subscriptions, every capacity of the channels and every number of   *)
(* chunks.  The invariant follows a chunk from the agent to the reader:    *)
(* AskInv, a subscription is started on the agent at most once; ChunkInv,  *)
(* a chunk that is under way is one the agent emitted for that session;    *)
(* FlowInv, the chunks on the Core are numbered without a gap (Pipe) and   *)
(* those in the queue towards the Core continue the numbering (Lane).  The *)
(* first two are shown inductive in ControlPlaneProofs, FlowInv here, with *)
(* one lemma for each kind of step that moves a chunk.                     *)
(***************************************************************************)
EXTENDS ControlPlaneProofs

\* The receive loop takes the next chunk of u for a stream it knows.
LEMMA FlowTaken ==
    ASSUME Sound, TypeOK', [Next]_vars, NEW s \in Sessions, Receive(s), NEW u \in streams[s],
           Of(Head(up[s]), u)
    PROVE  Pipe(u)' /\ Lane(u)'
<1>1. /\ u \in Subs /\ subSess[u] = s /\ s # None
      /\ TypeOK /\ AskInv /\ ChunkInv /\ Pipe(u) /\ Lane(u)
  BY StreamSession, SessionAssumption, Zenon DEF Sound, FlowInv
<1>2. /\ conn \in [Sessions -> {"none", "hello", "verified", "registered", "loop", "resolve",
                                "chunk", "unregister", "close", "ended"}]
      /\ held \in [Sessions -> AgentMessage \cup {NoMessage}]
      /\ up \in [Sessions -> Seq(AgentMessage)] /\ up[s] # <<>> /\ conn[s] = "loop"
      /\ up[s] \in Seq(AgentMessage)
  BY <1>1, ZenonT(30) DEF TypeOK, HandlerTypes, AgentTypes, Receive
<1>3. PICK m \in AgentMessage : m = Head(up[s])
  BY <1>2, TailType, Zenon
<1>4. m.kind = "chunk" /\ m.id = u
  BY <1>3, Zenon DEF Of
<1>5. /\ up' = [up EXCEPT ![s] = Tail(@)]
      /\ held' = [held EXCEPT ![s] = m] /\ conn' = [conn EXCEPT ![s] = "chunk"]
  BY <1>3, <1>4, Zenon DEF Receive
<1>6. UNCHANGED <<received, output, pushing, chunks, subSess, subPc, emitted, agentSub, streams, alive>>
  BY Zenon DEF Receive, mgrVars, userVars, callVars, subVars, queueVars, workVars
<1>7. conn'[s] = "chunk" /\ held'[s] = m /\ up'[s] = Tail(up[s])
  BY <1>2, <1>5, Zenon
<1>8. Hand(u) = <<>>
  BY <1>1, <1>2, Zenon DEF Hand, Resolving
<1>9. Hand(u)' = <<m.seq>>
  BY <1>1, <1>4, <1>6, <1>7, Zenon DEF Hand, Resolving
<1>10. PICK k \in Nat : k = Front(u)
  BY <1>1, FlowTypes, Zenon
<1>11. Ordered(up[s], u, k) /\ (alive[s] => UpTo(up[s], u, k, LastSeq(u)))
  BY <1>1, <1>10, Zenon DEF Lane
<1>12. /\ m.seq = k + 1 /\ Ordered(Tail(up[s]), u, k + 1)
       /\ \A n \in Nat : UpTo(up[s], u, k, n) => UpTo(Tail(up[s]), u, k + 1, n)
  BY <1>2, <1>3, <1>11, OrderedTake, Zenon
<1>13. /\ received[u] \in Nat /\ output[u] \in Seq(Nat) /\ pushing[u] \in Nat
       /\ chunks[u] \in Seq(StreamChunk) /\ LastSeq(u) \in Nat
  BY <1>1, FlowTypes, Zenon
<1>14. /\ Piped(received[u], output[u], pushing[u], chunks[u], <<m.seq>>)
       /\ Ahead(received[u], output[u], pushing[u], chunks[u], <<m.seq>>) = m.seq
  <2>1. Piped(received[u], output[u], pushing[u], chunks[u], <<>>)
    BY <1>1, <1>8, Zenon DEF Pipe
  <2>2. m.seq = Ahead(received[u], output[u], pushing[u], chunks[u], <<>>) + 1
    BY <1>8, <1>10, <1>12, Zenon DEF Front
  <2>3. PICK r, o, p, c, x : /\ r = received[u] /\ o = output[u] /\ p = pushing[u]
                             /\ c = chunks[u] /\ x = m.seq
    BY Zenon
  <2>4. /\ r \in Nat /\ o \in Seq(Nat) /\ p \in Nat /\ c \in Seq(StreamChunk)
        /\ Piped(r, o, p, c, <<>>) /\ x = Ahead(r, o, p, c, <<>>) + 1
    BY <1>13, <2>1, <2>2, <2>3, Zenon
  <2>5. Piped(r, o, p, c, <<x>>) /\ Ahead(r, o, p, c, <<x>>) = x
    BY <2>4, PipedReceive, SMT
  <2> QED
    BY <2>3, <2>5, Zenon
<1>15. Front(u)' = k + 1
  BY <1>6, <1>9, <1>12, <1>14, Zenon DEF Front
<1>16. k + 1 <= Final(u)'
  <2>1. m \in StreamChunk
    BY <1>4, Zenon DEF AgentMessage, CommandResult
  <2>2. Has(up[s], m)
    BY <1>2, <1>3, HasTail, Zenon
  <2>3. Genuine(m)
    BY <1>1, <2>1, <2>2, Zenon DEF ChunkInv, Fit
  <2>4. Genuine(m)'
    BY <1>1, <2>1, <2>3, GenuineStays, Zenon
  <2>5. IF m.eof THEN k + 1 = emitted'[u] + 1 /\ agentSub'[u] = "ended" ELSE k + 1 <= emitted'[u]
    BY <1>4, <1>12, <2>4, Zenon DEF Genuine
  <2>6. emitted'[u] \in Nat
    BY <1>1, Zenon DEF TypeOK, AgentTypes
  <2> QED
    BY <2>5, <2>6, SMT DEF Final
<1>17. Pipe(u)'
  <2>1. Piped(received[u], output[u], pushing[u], chunks[u], Hand(u))'
    BY <1>6, <1>9, <1>14, Zenon
  <2>2. Phase(u)'
    BY <1>1, <1>6, Zenon DEF Pipe, Phase
  <2> QED
    BY <1>15, <1>16, <2>1, <2>2, Zenon DEF Pipe
<1>18. Lane(u)'
  <2> SUFFICES ASSUME NEW t \in Sessions, u \in streams'[t]
               PROVE  /\ Ordered(up[t], u, Front(u))'
                      /\ alive'[t] => UpTo(up[t], u, Front(u), LastSeq(u))'
    BY Zenon DEF Lane
  <2>1. u \in streams[t]
    BY <1>6, Zenon
  <2>2. t = s
    BY <1>1, <2>1, StreamSession, Zenon
  <2>3. LastSeq(u)' = LastSeq(u) /\ alive'[s] = alive[s]
    BY <1>6, Zenon DEF LastSeq
  <2>4. Ordered(up[s], u, Front(u))'
    BY <1>7, <1>12, <1>15, Zenon
  <2>5. alive[s] => UpTo(Tail(up[s]), u, k + 1, LastSeq(u))
    BY <1>11, <1>12, <1>13, Zenon
  <2>6. alive'[s] => UpTo(up[s], u, Front(u), LastSeq(u))'
    BY <1>7, <1>15, <2>3, <2>5, Zenon
  <2> QED
    BY <2>2, <2>4, <2>6, Zenon
<1> QED
  BY <1>17, <1>18, Zenon

\* Whatever the receive loop takes, the chunks of every stream stay in order.
LEMMA FlowReceive ==
    ASSUME Sound, TypeOK', [Next]_vars, NEW s \in Sessions, Receive(s)
    PROVE  FlowInv'
<1> SUFFICES ASSUME NEW u \in Subs
             PROVE  Pipe(u)' /\ Lane(u)'
  BY Zenon DEF FlowInv
<1>1. CASE u \in streams[s] /\ Of(Head(up[s]), u)
  BY <1>1, FlowTaken, Zenon
<1>2. CASE ~(u \in streams[s] /\ Of(Head(up[s]), u))
  <2>1. /\ conn \in [Sessions -> {"none", "hello", "verified", "registered", "loop", "resolve",
                                  "chunk", "unregister", "close", "ended"}]
        /\ held \in [Sessions -> AgentMessage \cup {NoMessage}]
        /\ up \in [Sessions -> Seq(AgentMessage)] /\ up[s] # <<>> /\ conn[s] = "loop"
        /\ up[s] \in Seq(AgentMessage) /\ TypeOK
        /\ subSess[u] # None => subSess[u] \in Sessions
    BY Zenon DEF Sound, TypeOK, HandlerTypes, AgentTypes, SubTypes, Receive
  <2>2. UNCHANGED <<received, output, pushing, chunks, subSess, subPc, emitted, agentSub, streams, alive>>
    BY Zenon DEF Receive, mgrVars, userVars, callVars, subVars, queueVars, workVars
  <2>3. \A t \in Sessions : up'[t] = IF t = s THEN Tail(up[s]) ELSE up[t]
    BY <2>1, Zenon DEF Receive
  <2>4. PICK m \in AgentMessage : m = Head(up[s])
    BY <2>1, TailType, Zenon
  <2>5. ASSUME NEW t \in Sessions
        PROVE  /\ conn'[t] = "chunk" /\ held'[t].id = u => conn[t] = "chunk" /\ held'[t] = held[t]
               /\ conn[t] = "chunk" => conn'[t] = "chunk" /\ held'[t] = held[t]
    <3>1. CASE t # s
      <4>1. conn'[t] = conn[t] /\ held'[t] = held[t]
        BY <2>1, <3>1, Zenon DEF Receive
      <4> QED
        BY <4>1, Zenon
    <3>2. CASE t = s
      <4>1. conn[s] # "chunk"
        BY <2>1, Zenon
      <4>2. \/ UNCHANGED <<conn, held>>
            \/ /\ m.id \in (IF m.kind = "result" THEN pending[s] ELSE streams[s])
               /\ held' = [held EXCEPT ![s] = m]
               /\ conn' = [conn EXCEPT ![s] = IF m.kind = "result" THEN "resolve" ELSE "chunk"]
        BY <2>4, Zenon DEF Receive
      <4>3. ASSUME conn'[s] = "chunk"
            PROVE  m.kind # "result" /\ m.id \in streams[s] /\ held'[s] = m
        BY <2>1, <4>1, <4>2, <4>3, Zenon
      <4>4. m.kind \in {"result", "chunk"}
        BY Zenon DEF AgentMessage, CommandResult, StreamChunk
      <4>5. conn'[s] = "chunk" => held'[s].id # u
        BY <1>2, <2>4, <4>3, <4>4, Zenon DEF Of
      <4> QED
        BY <3>2, <4>1, <4>5, Zenon
    <3> QED
      BY <3>1, <3>2, Zenon
  <2>6. Hand(u)' = Hand(u)
    <3>1. Resolving(u)' <=> Resolving(u)
      BY <2>1, <2>2, <2>5, Zenon DEF Resolving
    <3>2. Resolving(u) => held'[subSess[u]] = held[subSess[u]]
      BY <2>1, <2>5, Zenon DEF Resolving
    <3> QED
      BY <2>2, <3>1, <3>2, Zenon DEF Hand
  <2>7. ASSUME NEW t \in Sessions, u \in streams'[t]
        PROVE  u \in streams[t] /\ Passes(up[t], up'[t], u) /\ (alive'[t] => alive[t])
    BY <1>2, <2>1, <2>2, <2>3, <2>7, Zenon DEF Passes
  <2>8. /\ received'[u] = received[u] /\ output'[u] = output[u] /\ pushing'[u] = pushing[u]
        /\ chunks'[u] = chunks[u] /\ subPc'[u] = subPc[u] /\ emitted'[u] = emitted[u]
        /\ agentSub'[u] = agentSub[u]
    BY <2>2, Zenon
  <2> QED
    BY <2>6, <2>7, <2>8, FlowIdle, Zenon
<1> QED
  BY <1>1, <1>2, Zenon

\* A step of resolveChunk: the receive loop gets rid of the chunk it holds.
LEMMA FlowHand ==
    ASSUME Sound, TypeOK', [Next]_vars, NEW s \in Sessions, resolveChunk(s) \/ DropChunk(s)
    PROVE  /\ held[s] \in StreamChunk /\ held[s].id \in Subs /\ subSess[held[s].id] = s
           /\ s # None /\ conn[s] = "chunk"
           /\ \A u \in Subs : Hand(u)' = (IF u = held[s].id THEN <<>> ELSE Hand(u))
           /\ UNCHANGED <<received, output, pushing, subSess, subPc, emitted, agentSub, up,
                          streams, alive>>
<1>1. /\ conn \in [Sessions -> {"none", "hello", "verified", "registered", "loop", "resolve",
                                "chunk", "unregister", "close", "ended"}]
      /\ held \in [Sessions -> AgentMessage \cup {NoMessage}]
      /\ subSess \in [Subs -> Sessions \cup {None}] /\ TypeOK /\ ChunkInv /\ s # None
  BY SessionAssumption, Zenon DEF Sound, TypeOK, HandlerTypes, SubTypes
<1>2. /\ conn[s] = "chunk" /\ conn' = [conn EXCEPT ![s] = "loop"]
      /\ held' = [held EXCEPT ![s] = NoMessage]
      /\ UNCHANGED <<received, output, pushing, subSess, subPc, emitted, agentSub, up,
                     streams, alive>>
  BY Zenon DEF resolveChunk, DropChunk, ConnStep, mgrVars, userVars, subVars, queueVars,
     agentVars, netVars, workVars
<1>3. held[s] \in StreamChunk
  BY <1>1, <1>2, Zenon DEF TypeOK, HandlerTypes
<1>4. held[s].id \in Subs /\ subSess[held[s].id] = s
  BY <1>1, <1>2, <1>3, Zenon DEF ChunkInv, Fit, StreamChunk
<1>5. \A t \in Sessions : IF t = s THEN conn'[t] = "loop"
                                   ELSE conn'[t] = conn[t] /\ held'[t] = held[t]
  BY <1>1, <1>2, Zenon
<1>6. ASSUME NEW u \in Subs
      PROVE  Hand(u)' = IF u = held[s].id THEN <<>> ELSE Hand(u)
  <2>1. subSess'[u] = subSess[u] /\ (subSess[u] # None => subSess[u] \in Sessions)
    BY <1>1, <1>2, Zenon
  <2>2. CASE subSess[u] = s
    <3>1. ~Resolving(u)'
      <4>1. conn'[s] # "chunk"
        BY <1>5, Zenon
      <4> QED
        BY <2>1, <2>2, <4>1, Zenon DEF Resolving
    <3>2. u # held[s].id => ~Resolving(u)
      BY <2>2, Zenon DEF Resolving
    <3> QED
      BY <3>1, <3>2, Zenon DEF Hand
  <2>3. CASE subSess[u] # s
    <3>1. u # held[s].id
      BY <1>4, <2>3, Zenon
    <3>2. Resolving(u)' <=> Resolving(u)
      BY <1>5, <2>1, <2>3, Zenon DEF Resolving
    <3>3. Resolving(u) => held'[subSess[u]] = held[subSess[u]]
      BY <1>5, <2>1, <2>3, Zenon DEF Resolving
    <3> QED
      BY <2>1, <3>1, <3>2, <3>3, Zenon DEF Hand
  <2> QED
    BY <2>2, <2>3, Zenon
<1> QED
  BY <1>1, <1>2, <1>3, <1>4, <1>6, Zenon

\* resolveChunk puts the chunk behind those of the channel.
LEMMA FlowResolve ==
    ASSUME Sound, TypeOK', [Next]_vars, NEW s \in Sessions, resolveChunk(s)
    PROVE  FlowInv'
<1> SUFFICES ASSUME NEW u \in Subs
             PROVE  Pipe(u)' /\ Lane(u)'
  BY Zenon DEF FlowInv
<1>1. /\ held[s] \in StreamChunk /\ held[s].id \in Subs /\ subSess[held[s].id] = s
      /\ s # None /\ conn[s] = "chunk"
      /\ Hand(u)' = (IF u = held[s].id THEN <<>> ELSE Hand(u))
      /\ UNCHANGED <<received, output, pushing, subSess, subPc, emitted, agentSub, up, streams, alive>>
  BY FlowHand, Zenon
<1>2. PICK m \in StreamChunk : m = held[s]
  BY <1>1, Zenon
<1>3. TypeOK /\ AskInv /\ Pipe(u) /\ Lane(u) /\ chunks \in [Subs -> Seq(StreamChunk)]
  BY Zenon DEF Sound, FlowInv, TypeOK, SubTypes
<1>4. chunks' = [chunks EXCEPT ![m.id] = Append(@, m)]
  BY <1>2, Zenon DEF resolveChunk
<1>5. \A t \in Sessions : u \in streams'[t] =>
        u \in streams[t] /\ Passes(up[t], up'[t], u) /\ (alive'[t] => alive[t])
  BY <1>1, Zenon DEF Passes
<1>6. /\ received'[u] = received[u] /\ output'[u] = output[u] /\ pushing'[u] = pushing[u]
      /\ subPc'[u] = subPc[u] /\ emitted'[u] = emitted[u] /\ agentSub'[u] = agentSub[u]
  BY <1>1, Zenon
<1>7. CASE u # m.id
  <2>1. chunks'[u] = chunks[u] /\ Hand(u)' = Hand(u)
    BY <1>1, <1>2, <1>3, <1>4, <1>7, Zenon
  <2> QED
    BY <1>5, <1>6, <2>1, FlowIdle, Zenon
<1>8. CASE u = m.id
  <2>1. chunks'[u] = Append(chunks[u], m)
    BY <1>3, <1>4, <1>8, Zenon
  <2>2. Hand(u) = <<m.seq>> /\ Hand(u)' = <<>>
    BY <1>1, <1>2, <1>8, Zenon DEF Hand, Resolving
  <2>3. PICK r \in Nat, o \in Seq(Nat), p \in Nat, c \in Seq(StreamChunk) :
          r = received[u] /\ o = output[u] /\ p = pushing[u] /\ c = chunks[u]
    BY <1>3, FlowTypes, Zenon
  <2>4. Piped(r, o, p, c, <<m.seq>>)
    BY <1>3, <2>2, <2>3, Zenon DEF Pipe
  <2>5. /\ Piped(r, o, p, Append(c, m), <<>>)
        /\ Ahead(r, o, p, Append(c, m), <<>>) = Ahead(r, o, p, c, <<m.seq>>)
    BY <2>4, PipedResolve, Zenon
  <2>6. Piped(received[u], output[u], pushing[u], chunks[u], Hand(u))'
    BY <1>6, <2>1, <2>2, <2>3, <2>5, Zenon
  <2>7. Front(u)' = Front(u)
    BY <1>6, <2>1, <2>2, <2>3, <2>5, Zenon DEF Front
  <2>8. Final(u)' = Final(u) /\ LastSeq(u)' = LastSeq(u)
    BY <1>6, Zenon DEF Final, LastSeq
  <2>9. Phase(u)'
    BY <1>3, <1>6, Zenon DEF Pipe, Phase
  <2>10. Pipe(u)'
    BY <1>3, <2>6, <2>7, <2>8, <2>9, Zenon DEF Pipe
  <2>11. LastSeq(u)' <= LastSeq(u)
    <3>1. LastSeq(u) \in Nat
      BY <1>3, FlowTypes, Zenon
    <3> QED
      BY <2>8, <3>1, SMT
  <2> QED
    BY <1>3, <1>5, <2>7, <2>10, <2>11, LaneKeeps, Zenon
<1> QED
  BY <1>7, <1>8, Zenon

\* A chunk given up because the session is closed belongs to a stream the session
\* no longer knows.
LEMMA FlowDrop ==
    ASSUME Sound, TypeOK', [Next]_vars, NEW s \in Sessions, DropChunk(s)
    PROVE  FlowInv'
<1> SUFFICES ASSUME NEW u \in Subs
             PROVE  Pipe(u)' /\ Lane(u)'
  BY Zenon DEF FlowInv
<1>1. /\ held[s] \in StreamChunk /\ held[s].id \in Subs /\ subSess[held[s].id] = s
      /\ Hand(u)' = (IF u = held[s].id THEN <<>> ELSE Hand(u))
      /\ UNCHANGED <<received, output, pushing, subSess, subPc, emitted, agentSub, up, streams, alive>>
  BY FlowHand, Zenon
<1>2. TypeOK /\ AskInv /\ Pipe(u) /\ Lane(u) /\ done[s] /\ UNCHANGED chunks
  BY Zenon DEF Sound, FlowInv, DropChunk, GiveUp, userVars, subVars, queueVars
<1>3. /\ received'[u] = received[u] /\ output'[u] = output[u] /\ pushing'[u] = pushing[u]
      /\ chunks'[u] = chunks[u]
      /\ subPc'[u] = subPc[u] /\ emitted'[u] = emitted[u] /\ agentSub'[u] = agentSub[u]
  BY <1>1, <1>2, Zenon
<1>4. CASE u # held[s].id
  <2>1. \A t \in Sessions : u \in streams'[t] =>
          u \in streams[t] /\ Passes(up[t], up'[t], u) /\ (alive'[t] => alive[t])
    BY <1>1, Zenon DEF Passes
  <2>2. Hand(u)' = Hand(u)
    BY <1>1, <1>4, Zenon
  <2> QED
    BY <1>3, <2>1, <2>2, FlowIdle, Zenon
<1>5. CASE u = held[s].id
  <2>1. \A t \in Sessions : u \notin streams'[t]
    <3> SUFFICES ASSUME NEW t \in Sessions, u \in streams[t]
                 PROVE  FALSE
      BY <1>1, Zenon
    <3>1. subSess[u] = t /\ ~done[t]
      BY StreamSession, Zenon
    <3> QED
      BY <1>1, <1>2, <1>5, <3>1, Zenon
  <2>2. Lane(u)'
    BY <2>1, Zenon DEF Lane
  <2>3. PICK r \in Nat, o \in Seq(Nat), p \in Nat, c \in Seq(StreamChunk), h \in Seq(Nat) :
          r = received[u] /\ o = output[u] /\ p = pushing[u] /\ c = chunks[u] /\ h = Hand(u)
    BY <1>2, FlowTypes, Zenon
  <2>4. Piped(r, o, p, c, h) /\ Ahead(r, o, p, c, h) = Front(u)
    BY <1>2, <2>3, Zenon DEF Pipe, Front
  <2>5. Piped(r, o, p, c, <<>>) /\ Ahead(r, o, p, c, <<>>) <= Front(u)
    BY <2>4, PipedDrop, Zenon
  <2>6. Hand(u)' = <<>>
    BY <1>1, <1>5, Zenon
  <2>7. Piped(received[u], output[u], pushing[u], chunks[u], Hand(u))'
    BY <1>3, <2>3, <2>5, <2>6, Zenon
  <2>8. Front(u)' = Ahead(r, o, p, c, <<>>)
    BY <1>3, <2>3, <2>6, Zenon DEF Front
  <2>9. Final(u)' = Final(u)
    BY <1>3, Zenon DEF Final
  <2>10. Front(u)' <= Final(u)'
    <3>1. Front(u)' <= Front(u) /\ Front(u) <= Final(u)
      BY <1>2, <2>5, <2>8, Zenon DEF Pipe
    <3>2. Front(u) \in Nat /\ Final(u) \in Nat
      BY <1>2, FlowTypes, Zenon
    <3>3. Front(u)' \in Nat
      <4>1. <<>> \in Seq(Nat)
        OBVIOUS
      <4> QED
        BY <2>8, <4>1, AheadType, Zenon
    <3> QED
      BY <2>9, <3>1, <3>2, <3>3, SMT
  <2>11. Phase(u)'
    BY <1>2, <1>3, Zenon DEF Pipe, Phase
  <2> QED
    BY <2>2, <2>7, <2>10, <2>11, Zenon DEF Pipe
<1> QED
  BY <1>4, <1>5, Zenon

\* No chunk is queued beyond the last one the agent made.
LEMMA UpBound ==
    ASSUME Sound, NEW s \in Sessions, NEW u \in Subs, NEW i \in At(up[s], u)
    PROVE  /\ agentSub[u] # "none" /\ up[s][i].seq \in Nat /\ up[s][i].seq <= Final(u)
<1>1. up[s] \in Seq(AgentMessage) /\ emitted[u] \in Nat /\ ChunkInv
  BY Zenon DEF Sound, TypeOK, AgentTypes
<1>2. /\ i \in 1..Len(up[s]) /\ up[s][i] \in StreamChunk /\ up[s][i].seq \in Nat
      /\ Of(up[s][i], u)
  BY <1>1, AtType, Zenon
<1>3. PICK m \in StreamChunk : m = up[s][i]
  BY <1>2, Zenon
<1>4. Has(up[s], m)
  BY <1>2, <1>3, Zenon DEF Has
<1>5. Fit(m, s) /\ m.id = u
  BY <1>1, <1>2, <1>3, <1>4, Zenon DEF ChunkInv, Of
<1>6. /\ agentSub[u] # "none"
      /\ IF m.eof THEN m.seq = emitted[u] + 1 /\ agentSub[u] = "ended" ELSE m.seq <= emitted[u]
  BY <1>5, Zenon DEF Fit, Genuine
<1>7. m.seq \in Nat
  BY <1>2, <1>3, Zenon
<1>8. m.seq <= Final(u)
  BY <1>1, <1>6, <1>7, SMT DEF Final
<1> QED
  BY <1>3, <1>6, <1>7, <1>8, Zenon

\* A queue without chunks of u is in order, and complete when none is due.
LEMMA OrderedEmpty ==
    ASSUME NEW q, NEW u, \A i \in At(q, u) : FALSE, NEW k \in Nat, NEW n \in Nat, n <= k
    PROVE  Ordered(q, u, k) /\ UpTo(q, u, k, n)
<1>1. \A x \in (k + 1)..n : FALSE
  BY SMT
<1> QED
  BY <1>1, Zenon DEF Ordered, UpTo

\* The forwarding goroutine of u takes a chunk to push it ...
LEMMA FlowForward ==
    ASSUME Sound, TypeOK', [Next]_vars, NEW u \in Subs, ForwardTake(u), ~Head(chunks[u]).eof
    PROVE  Pipe(u)' /\ Lane(u)'
<1>1. TypeOK /\ AskInv /\ Pipe(u) /\ Lane(u) /\ chunks \in [Subs -> Seq(StreamChunk)]
      /\ pushing \in [Subs -> Nat]
      /\ subPc \in [Subs -> {"idle", "add", "send", "forward", "push", "remove",
                             "cancel", "closed", "refused"}]
      /\ subSess \in [Subs -> Sessions \cup {None}]
  BY Zenon DEF Sound, FlowInv, TypeOK, SubTypes
<1>2. /\ UNCHANGED <<received, output, subSess, emitted, agentSub, up, streams, alive, conn, held>>
      /\ chunks[u] # <<>> /\ chunks' = [chunks EXCEPT ![u] = Tail(@)]
      /\ subPc[u] = "forward" /\ subPc' = [subPc EXCEPT ![u] = "push"]
      /\ pushing' = [pushing EXCEPT ![u] = Head(chunks[u]).seq]
  BY Zenon DEF ForwardTake, SubStep, mgrVars, notSub, connVars, agentVars, netVars, workVars
<1>3. /\ received'[u] = received[u] /\ output'[u] = output[u] /\ chunks'[u] = Tail(chunks[u])
      /\ pushing'[u] = Head(chunks[u]).seq /\ subPc'[u] = "push" /\ subSess'[u] = subSess[u]
      /\ emitted'[u] = emitted[u] /\ agentSub'[u] = agentSub[u]
  BY <1>1, <1>2, Zenon
<1>4. Hand(u)' = Hand(u)
  BY <1>1, <1>2, <1>3, HandKeeps, Zenon
<1>5. PICK r \in Nat, o \in Seq(Nat), c \in Seq(StreamChunk), h \in Seq(Nat) :
        r = received[u] /\ o = output[u] /\ c = chunks[u] /\ h = Hand(u)
  BY <1>1, FlowTypes, Zenon
<1>6. pushing[u] = 0
  BY <1>1, <1>2, Zenon DEF Pipe, Phase
<1>7. Piped(r, o, 0, c, h)
  BY <1>1, <1>5, <1>6, Zenon DEF Pipe
<1>8. /\ Head(c).seq = r + Len(o) + 1 /\ Piped(r, o, Head(c).seq, Tail(c), h)
      /\ Ahead(r, o, Head(c).seq, Tail(c), h) = Ahead(r, o, 0, c, h)
  BY <1>2, <1>5, <1>7, PipedTake, ZenonT(30)
<1>9. Head(c).seq # 0
  <2>1. Len(o) \in Nat
    BY LenNat, Zenon
  <2>2. r + Len(o) + 1 # 0
    BY <2>1, SMT
  <2> QED
    BY <1>8, <2>2, Zenon
<1>10. Piped(received[u], output[u], pushing[u], chunks[u], Hand(u))'
  BY <1>3, <1>4, <1>5, <1>8, Zenon
<1>11. Front(u)' = Front(u)
  BY <1>3, <1>4, <1>5, <1>6, <1>8, Zenon DEF Front
<1>12. Final(u)' = Final(u) /\ LastSeq(u)' = LastSeq(u)
  BY <1>2, <1>3, Zenon DEF Final, LastSeq
<1>13. Phase(u)'
  BY <1>3, <1>5, <1>9, Zenon DEF Phase, Unasked
<1>14. Pipe(u)'
  BY <1>1, <1>10, <1>11, <1>12, <1>13, Zenon DEF Pipe
<1>15. LastSeq(u)' <= LastSeq(u)
  <2>1. LastSeq(u) \in Nat
    BY <1>1, FlowTypes, Zenon
  <2> QED
    BY <1>12, <2>1, SMT
<1>16. \A s \in Sessions : u \in streams'[s] =>
         /\ u \in streams[s] /\ Passes(up[s], up'[s], u)
         /\ alive'[s] => alive[s] /\ LastSeq(u)' <= LastSeq(u)
  BY <1>2, <1>15, Zenon DEF Passes
<1> QED
  BY <1>1, <1>11, <1>14, <1>16, LaneKeeps, Zenon

\* ... or ends with the last one: nothing of u is on its way any more.
LEMMA FlowEof ==
    ASSUME Sound, TypeOK', [Next]_vars, NEW u \in Subs, ForwardTake(u), Head(chunks[u]).eof
    PROVE  Pipe(u)' /\ Lane(u)'
<1>1. TypeOK /\ AskInv /\ ChunkInv /\ Pipe(u) /\ Lane(u) /\ chunks \in [Subs -> Seq(StreamChunk)]
      /\ subPc \in [Subs -> {"idle", "add", "send", "forward", "push", "remove",
                             "cancel", "closed", "refused"}]
      /\ subSess \in [Subs -> Sessions \cup {None}]
  BY Zenon DEF Sound, FlowInv, TypeOK, SubTypes
<1>2. /\ UNCHANGED <<received, output, pushing, subSess, emitted, agentSub, up, streams, alive,
                     conn, held>>
      /\ chunks[u] # <<>> /\ chunks' = [chunks EXCEPT ![u] = Tail(@)]
      /\ subPc[u] = "forward" /\ subPc' = [subPc EXCEPT ![u] = "remove"]
  BY Zenon DEF ForwardTake, SubStep, mgrVars, notSub, connVars, agentVars, netVars, workVars
<1>3. /\ received'[u] = received[u] /\ output'[u] = output[u] /\ chunks'[u] = Tail(chunks[u])
      /\ pushing'[u] = pushing[u] /\ subPc'[u] = "remove" /\ subSess'[u] = subSess[u]
      /\ emitted'[u] = emitted[u] /\ agentSub'[u] = agentSub[u]
  BY <1>1, <1>2, Zenon
<1>4. Hand(u)' = Hand(u)
  BY <1>1, <1>2, <1>3, HandKeeps, Zenon
<1>5. PICK r \in Nat, o \in Seq(Nat), c \in Seq(StreamChunk), h \in Seq(Nat), e \in Nat :
        r = received[u] /\ o = output[u] /\ c = chunks[u] /\ h = Hand(u) /\ e = emitted[u]
  BY <1>1, FlowTypes, Zenon
<1>6. pushing[u] = 0
  BY <1>1, <1>2, Zenon DEF Pipe, Phase
<1>7. Piped(r, o, 0, c, h) /\ Ahead(r, o, 0, c, h) = Front(u) /\ Front(u) <= Final(u)
  BY <1>1, <1>5, <1>6, Zenon DEF Pipe, Front
<1>8. Head(c).seq = e + 1 /\ agentSub[u] = "ended"
  <2>1. Has(c, Head(c)) /\ Head(c) \in StreamChunk
    <3>1. c # <<>>
      BY <1>2, <1>5, Zenon
    <3>2. Has(c, Head(c))
      BY <3>1, HasTail, Zenon
    <3>3. Head(c) \in StreamChunk
      BY <3>1
    <3> QED
      BY <3>2, <3>3, Zenon
  <2>2. PICK m \in StreamChunk : m = Head(c)
    BY <2>1, Zenon
  <2>3. m.id = u /\ Genuine(m) /\ m.eof
    BY <1>1, <1>5, <2>1, <2>2, Zenon DEF ChunkInv
  <2> QED
    BY <1>5, <2>2, <2>3, Zenon DEF Genuine
<1>9. Final(u) = e + 1
  BY <1>5, <1>8, Zenon DEF Final
<1>10. Ahead(r, o, 0, c, h) <= Head(c).seq
  BY <1>7, <1>8, <1>9, Zenon
<1>11. /\ Piped(r, o, 0, Tail(c), h) /\ Ahead(r, o, 0, c, h) = e + 1
       /\ Ahead(r, o, 0, Tail(c), h) + 1 = e + 1
  <2>1. c # <<>>
    BY <1>2, <1>5, Zenon
  <2> QED
    BY <1>7, <1>8, <1>10, <2>1, PipedEnd, SMT
<1>12. Ahead(r, o, 0, Tail(c), h) = e
  <2>1. Tail(c) \in Seq(StreamChunk) /\ 0 \in Nat
    <3>1. c # <<>>
      BY <1>2, <1>5, Zenon
    <3> QED
      BY <3>1
  <2>2. Ahead(r, o, 0, Tail(c), h) \in Nat
    BY <2>1, AheadType, Zenon
  <2> QED
    BY <1>11, <2>2, SMT
<1>13. Front(u)' = e
  BY <1>3, <1>4, <1>5, <1>6, <1>12, Zenon DEF Front
<1>14. Pipe(u)'
  <2>1. Piped(received[u], output[u], pushing[u], chunks[u], Hand(u))'
    BY <1>3, <1>4, <1>5, <1>6, <1>11, Zenon
  <2>2. Phase(u)'
    BY <1>3, Zenon DEF Phase, Unasked
  <2>3. Final(u)' = e + 1
    BY <1>3, <1>9, Zenon DEF Final
  <2>4. Front(u)' <= Final(u)'
    BY <1>13, <2>3, SMT
  <2> QED
    BY <2>1, <2>2, <2>4, Zenon DEF Pipe
<1>15. LastSeq(u)' = e
  <2>1. subPc'[u] \notin {"forward", "push"}
    BY <1>3, Zenon
  <2>2. LastSeq(u)' = e + 0
    BY <1>3, <1>5, <2>1, Zenon DEF LastSeq
  <2> QED
    BY <2>2, SMT
<1>16. Lane(u)'
  <2> SUFFICES ASSUME NEW s \in Sessions, u \in streams'[s]
               PROVE  /\ Ordered(up[s], u, Front(u))'
                      /\ UpTo(up[s], u, Front(u), LastSeq(u))'
    BY Zenon DEF Lane
  <2>1. Ordered(up[s], u, e + 1) /\ up'[s] = up[s]
    BY <1>1, <1>2, <1>7, <1>11, Zenon DEF Lane
  <2>2. ASSUME NEW i \in At(up[s], u)
        PROVE  FALSE
    <3>1. up[s][i].seq > e + 1 /\ up[s][i].seq <= e + 1 /\ up[s][i].seq \in Nat
      BY <1>9, <2>1, UpBound, Zenon DEF Ordered
    <3> QED
      BY <3>1, SMT
  <2>3. e <= e
    BY SMT
  <2>4. Ordered(up[s], u, e) /\ UpTo(up[s], u, e, e)
    BY <2>2, <2>3, OrderedEmpty, Zenon
  <2> QED
    BY <1>13, <1>15, <2>1, <2>4, Zenon
<1> QED
  BY <1>14, <1>16, Zenon

\* Either way the chunks of u stay in order.
LEMMA FlowTake ==
    ASSUME Sound, TypeOK', [Next]_vars, NEW u \in Subs, ForwardTake(u)
    PROVE  Pipe(u)' /\ Lane(u)'
  BY FlowForward, FlowEof, Zenon

\* The goroutine pushes its chunk to the reader.
LEMMA FlowPush ==
    ASSUME Sound, TypeOK', [Next]_vars, NEW u \in Subs, ForwardPush(u)
    PROVE  Pipe(u)' /\ Lane(u)'
<1>1. TypeOK /\ AskInv /\ Pipe(u) /\ Lane(u)
      /\ pushing \in [Subs -> Nat] /\ output \in [Subs -> Seq(Nat)]
      /\ subPc \in [Subs -> {"idle", "add", "send", "forward", "push", "remove",
                             "cancel", "closed", "refused"}]
      /\ subSess \in [Subs -> Sessions \cup {None}]
  BY Zenon DEF Sound, FlowInv, TypeOK, SubTypes
<1>2. /\ UNCHANGED <<received, chunks, subSess, emitted, agentSub, up, streams, alive, conn, held>>
      /\ output' = [output EXCEPT ![u] = Append(@, pushing[u])]
      /\ subPc[u] = "push" /\ subPc' = [subPc EXCEPT ![u] = "forward"]
      /\ pushing' = [pushing EXCEPT ![u] = 0]
  BY Zenon DEF ForwardPush, SubStep, mgrVars, notSub, connVars, agentVars, netVars, workVars
<1>3. /\ received'[u] = received[u] /\ output'[u] = Append(output[u], pushing[u])
      /\ chunks'[u] = chunks[u] /\ pushing'[u] = 0 /\ subPc'[u] = "forward"
      /\ subSess'[u] = subSess[u] /\ emitted'[u] = emitted[u] /\ agentSub'[u] = agentSub[u]
  BY <1>1, <1>2, Zenon
<1>4. Hand(u)' = Hand(u)
  BY <1>1, <1>2, <1>3, HandKeeps, Zenon
<1>5. PICK r \in Nat, o \in Seq(Nat), p \in Nat, c \in Seq(StreamChunk), h \in Seq(Nat) :
        r = received[u] /\ o = output[u] /\ p = pushing[u] /\ c = chunks[u] /\ h = Hand(u)
  BY <1>1, FlowTypes, Zenon
<1>6. p # 0 /\ Piped(r, o, p, c, h)
  BY <1>1, <1>2, <1>5, Zenon DEF Pipe, Phase
<1>7. Piped(r, Append(o, p), 0, c, h) /\ Ahead(r, Append(o, p), 0, c, h) = Ahead(r, o, p, c, h)
  BY <1>6, PipedPush, Zenon
<1>8. Piped(received[u], output[u], pushing[u], chunks[u], Hand(u))'
  BY <1>3, <1>4, <1>5, <1>7, Zenon
<1>9. Front(u)' = Front(u)
  BY <1>3, <1>4, <1>5, <1>7, Zenon DEF Front
<1>10. Final(u)' = Final(u) /\ LastSeq(u)' = LastSeq(u)
  BY <1>2, <1>3, Zenon DEF Final, LastSeq
<1>11. Phase(u)'
  BY <1>3, Zenon DEF Phase
<1>12. Pipe(u)'
  BY <1>1, <1>8, <1>9, <1>10, <1>11, Zenon DEF Pipe
<1>13. LastSeq(u)' <= LastSeq(u)
  <2>1. LastSeq(u) \in Nat
    BY <1>1, FlowTypes, Zenon
  <2> QED
    BY <1>10, <2>1, SMT
<1>14. \A s \in Sessions : u \in streams'[s] =>
         /\ u \in streams[s] /\ Passes(up[s], up'[s], u)
         /\ alive'[s] => alive[s] /\ LastSeq(u)' <= LastSeq(u)
  BY <1>2, <1>13, Zenon DEF Passes
<1> QED
  BY <1>1, <1>9, <1>12, <1>14, LaneKeeps, Zenon

\* The reader reads its next chunk.
LEMMA FlowRead ==
    ASSUME Sound, TypeOK', [Next]_vars, NEW u \in Subs, Read(u)
    PROVE  Pipe(u)' /\ Lane(u)'
<1>1. TypeOK /\ AskInv /\ Pipe(u) /\ Lane(u)
      /\ received \in [Subs -> Nat] /\ output \in [Subs -> Seq(Nat)]
      /\ subSess \in [Subs -> Sessions \cup {None}]
  BY Zenon DEF Sound, FlowInv, TypeOK, SubTypes
<1>2. /\ UNCHANGED <<pushing, chunks, subSess, subPc, emitted, agentSub, up, streams, alive, conn, held>>
      /\ output[u] # <<>> /\ output' = [output EXCEPT ![u] = Tail(@)]
      /\ received' = [received EXCEPT ![u] = Head(output[u])]
  BY Zenon DEF Read, mgrVars, notSub, connVars, agentVars, netVars, workVars
<1>3. /\ received'[u] = Head(output[u]) /\ output'[u] = Tail(output[u])
      /\ chunks'[u] = chunks[u] /\ pushing'[u] = pushing[u] /\ subPc'[u] = subPc[u]
      /\ subSess'[u] = subSess[u] /\ emitted'[u] = emitted[u] /\ agentSub'[u] = agentSub[u]
  BY <1>1, <1>2, Zenon
<1>4. Hand(u)' = Hand(u)
  BY <1>1, <1>2, <1>3, HandKeeps, Zenon
<1>5. PICK r \in Nat, o \in Seq(Nat), p \in Nat, c \in Seq(StreamChunk), h \in Seq(Nat) :
        r = received[u] /\ o = output[u] /\ p = pushing[u] /\ c = chunks[u] /\ h = Hand(u)
  BY <1>1, FlowTypes, Zenon
<1>6. o # <<>> /\ Piped(r, o, p, c, h)
  BY <1>1, <1>2, <1>5, Zenon DEF Pipe
<1>7. /\ Piped(Head(o), Tail(o), p, c, h)
      /\ Ahead(Head(o), Tail(o), p, c, h) = Ahead(r, o, p, c, h)
  BY <1>6, PipedRead, Zenon
<1>8. Piped(received[u], output[u], pushing[u], chunks[u], Hand(u))'
  BY <1>3, <1>4, <1>5, <1>7, Zenon
<1>9. Front(u)' = Front(u)
  BY <1>3, <1>4, <1>5, <1>7, Zenon DEF Front
<1>10. Final(u)' = Final(u) /\ LastSeq(u)' = LastSeq(u)
  BY <1>3, Zenon DEF Final, LastSeq
<1>11. Phase(u)'
  BY <1>1, <1>3, Zenon DEF Pipe, Phase
<1>12. Pipe(u)'
  BY <1>1, <1>8, <1>9, <1>10, <1>11, Zenon DEF Pipe
<1>13. LastSeq(u)' <= LastSeq(u)
  <2>1. LastSeq(u) \in Nat
    BY <1>1, FlowTypes, Zenon
  <2> QED
    BY <1>10, <2>1, SMT
<1>14. \A s \in Sessions : u \in streams'[s] =>
         /\ u \in streams[s] /\ Passes(up[s], up'[s], u)
         /\ alive'[s] => alive[s] /\ LastSeq(u)' <= LastSeq(u)
  BY <1>2, <1>13, Zenon DEF Passes
<1> QED
  BY <1>1, <1>9, <1>12, <1>14, LaneKeeps, Zenon

\* Before the agent knows of a subscription it has made no chunk of it.
LEMMA FlowUnasked ==
    ASSUME Sound, NEW u \in Subs, agentSub[u] = "none"
    PROVE  /\ Front(u) = 0 /\ LastSeq(u) = 0
           /\ \A s \in Sessions : \A i \in At(up[s], u) : FALSE
           /\ \A s \in Sessions : conn[s] = "chunk" => held[s].id # u
<1>1. TypeOK /\ ChunkInv /\ Pipe(u)
  BY Zenon DEF Sound, FlowInv
<1>2. emitted[u] = 0
  BY Zenon DEF Sound, AskInv, Started
<1>3. Final(u) = 0 /\ LastSeq(u) = 0
  BY <1>2, SMT DEF Final, LastSeq
<1>4. Front(u) \in Nat /\ Front(u) <= Final(u)
  BY <1>1, FlowTypes, Zenon DEF Pipe
<1>5. Front(u) = 0
  BY <1>3, <1>4, SMT
<1>6. \A s \in Sessions : \A i \in At(up[s], u) : FALSE
  BY UpBound, Zenon
<1>7. \A s \in Sessions : conn[s] = "chunk" => held[s].id # u
  BY <1>1, ZenonT(30) DEF ChunkInv, Fit
<1> QED
  BY <1>3, <1>5, <1>6, <1>7, Zenon

\* Subscribe and its goroutine go on to another select or return.
LEMMA FlowTurn ==
    ASSUME Sound, TypeOK', [Next]_vars, NEW u \in Subs,
           UNCHANGED <<received, output, pushing, chunks, emitted, agentSub, up, alive>>,
           Hand(u)' = Hand(u), Phase(u)',
           subPc'[u] \in {"forward", "push"} =>
             subPc[u] \in {"forward", "push"} \/ agentSub[u] = "none",
           \A s \in Sessions : u \in streams'[s] => u \in streams[s]
    PROVE  Pipe(u)' /\ Lane(u)'
<1>1. TypeOK /\ AskInv /\ Pipe(u) /\ Lane(u)
  BY Zenon DEF Sound, FlowInv
<1>2. /\ received'[u] = received[u] /\ output'[u] = output[u] /\ pushing'[u] = pushing[u]
      /\ chunks'[u] = chunks[u] /\ emitted'[u] = emitted[u] /\ agentSub'[u] = agentSub[u]
  BY Zenon
<1>3. Pipe(u)' /\ Front(u)' = Front(u)
  BY <1>1, <1>2, PipeKeeps, Zenon
<1>4. LastSeq(u)' <= LastSeq(u)
  <2>1. emitted[u] \in Nat
    BY <1>1, FlowTypes, Zenon
  <2>2. agentSub'[u] = "ended" /\ subPc'[u] \in {"forward", "push"} =>
          agentSub[u] = "ended" /\ subPc[u] \in {"forward", "push"}
    BY <1>2, Zenon
  <2> QED
    BY <1>2, <2>1, <2>2, SMT DEF LastSeq
<1>5. \A s \in Sessions : u \in streams'[s] =>
        /\ u \in streams[s] /\ Passes(up[s], up'[s], u)
        /\ alive'[s] => alive[s] /\ LastSeq(u)' <= LastSeq(u)
  BY <1>4, Zenon DEF Passes
<1> QED
  BY <1>1, <1>3, <1>5, LaneKeeps, Zenon

\* Every step of Subscribe and of the end of its goroutine.
LEMMA FlowSubscribe ==
    ASSUME Sound, TypeOK', [Next]_vars, NEW u \in Subs,
           \/ (\E v \in Servers : SubLookup(u, v)) \/ SubAdd(u) \/ SubSend(u)
           \/ removeStream(u) \/ SendCancel(u) \/ ForwardEnd(u)
    PROVE  Pipe(u)' /\ Lane(u)'
<1> USE DEF mgrVars, notSub, queueVars, connVars, agentVars, netVars, workVars
<1>1. /\ TypeOK /\ AskInv /\ Pipe(u) /\ Lane(u)
      /\ subPc \in [Subs -> {"idle", "add", "send", "forward", "push", "remove",
                             "cancel", "closed", "refused"}]
      /\ subSess \in [Subs -> Sessions \cup {None}]
      /\ streams \in [Sessions -> SUBSET Subs]
      /\ subPc[u] \in {"idle", "add", "send", "forward"} => pushing[u] = 0
      /\ subPc[u] \in {"idle", "add", "send"} => agentSub[u] = "none"
  BY Zenon DEF Sound, FlowInv, TypeOK, SubTypes, ManagerTypes, Pipe, Phase, Unasked, AskInv, Started
<1>2. UNCHANGED <<received, output, pushing, chunks, emitted, agentSub, up, alive, conn, held>>
  BY Zenon DEF SubLookup, SubAdd, SubSend, removeStream, SendCancel, ForwardEnd
<1>3. ASSUME subSess' = subSess
      PROVE  Hand(u)' = Hand(u)
  <2>1. subSess'[u] = subSess[u]
    BY <1>3, Zenon
  <2> QED
    BY <1>1, <1>2, <2>1, HandKeeps, Zenon
<1>4. ASSUME NEW to, subPc' = [subPc EXCEPT ![u] = to], to \notin {"idle", "add", "send", "forward", "push"}
      PROVE  Phase(u)' /\ subPc'[u] \notin {"forward", "push"}
  <2>1. subPc'[u] = to
    BY <1>1, <1>4, Zenon
  <2> QED
    BY <1>4, <2>1, Zenon DEF Phase, Unasked
<1>5. CASE \E v \in Servers : SubLookup(u, v)
  <2>1. /\ subPc[u] = "idle" /\ UNCHANGED streams
        /\ \E to \in {"add", "refused"} : subPc' = [subPc EXCEPT ![u] = to]
    BY <1>5, Zenon DEF SubLookup, SubStep
  <2>2. agentSub[u] = "none" /\ pushing[u] = 0
    BY <1>1, <2>1, Zenon
  <2>3. Hand(u) = <<>> /\ Hand(u)' = <<>>
    <3>1. \A s \in Sessions : conn[s] = "chunk" => held[s].id # u
      BY <2>2, FlowUnasked, Zenon
    <3>2. subSess[u] \in Sessions \cup {None} /\ subSess'[u] \in Sessions \cup {None}
      BY <1>1, Zenon DEF TypeOK, SubTypes
    <3>3. ~Resolving(u) /\ ~Resolving(u)'
      BY <1>2, <3>1, <3>2, Zenon DEF Resolving
    <3> QED
      BY <3>3, Zenon DEF Hand
  <2>4. subPc'[u] \in {"add", "refused"} /\ pushing'[u] = 0
    BY <1>1, <1>2, <2>1, <2>2, Zenon
  <2>5. Phase(u)' /\ subPc'[u] \notin {"forward", "push"}
    BY <2>4, Zenon DEF Phase
  <2> QED
    BY <1>2, <2>1, <2>3, <2>5, FlowTurn, Zenon
<1>6. CASE SubAdd(u)
  <2>1. subPc[u] = "add" /\ subSess' = subSess
    BY <1>6, Zenon DEF SubAdd
  <2>2. agentSub[u] = "none" /\ pushing[u] = 0
    BY <1>1, <2>1, Zenon
  <2>3. subPc'[u] \in {"send", "refused"}
    BY <1>1, <1>6, Zenon DEF SubAdd, SubStep
  <2>4. Phase(u)' /\ subPc'[u] \notin {"forward", "push"}
    BY <1>2, <2>2, <2>3, Zenon DEF Phase
  <2>5. Hand(u)' = Hand(u)
    BY <1>3, <2>1, Zenon
  <2>6. /\ received'[u] = received[u] /\ output'[u] = output[u] /\ pushing'[u] = pushing[u]
        /\ chunks'[u] = chunks[u] /\ emitted'[u] = emitted[u] /\ agentSub'[u] = agentSub[u]
    BY <1>2, Zenon
  <2>7. Pipe(u)' /\ Front(u)' = Front(u)
    BY <1>1, <2>4, <2>5, <2>6, PipeKeeps, Zenon
  <2>8. /\ Front(u) = 0 /\ LastSeq(u) = 0
        /\ \A s \in Sessions : \A i \in At(up[s], u) : FALSE
    BY <2>2, FlowUnasked, Zenon
  <2>9. LastSeq(u)' = 0
    <3>1. LastSeq(u) = emitted[u] + 0
      BY <2>2, Zenon DEF LastSeq
    <3>2. LastSeq(u)' = emitted[u] + 0
      BY <2>2, <2>6, Zenon DEF LastSeq
    <3> QED
      BY <2>8, <3>1, <3>2, Zenon
  <2>10. ASSUME NEW s \in Sessions
         PROVE  Ordered(up[s], u, Front(u))' /\ UpTo(up[s], u, Front(u), LastSeq(u))'
    <3>1. up'[s] = up[s]
      BY <1>2, Zenon
    <3>2. 0 \in Nat /\ 0 <= 0
      BY SMT
    <3>3. Ordered(up[s], u, 0) /\ UpTo(up[s], u, 0, 0)
      BY <2>8, <3>2, OrderedEmpty, Zenon
    <3> QED
      BY <2>7, <2>8, <2>9, <3>1, <3>3, Zenon
  <2> QED
    BY <2>7, <2>10, Zenon DEF Lane
<1>7. CASE SubSend(u)
  <2>1. /\ subPc[u] = "send" /\ subSess' = subSess /\ UNCHANGED streams
        /\ subPc' = [subPc EXCEPT ![u] = "forward"]
    BY <1>7, Zenon DEF SubSend, SubStep
  <2>2. agentSub[u] = "none" /\ pushing[u] = 0 /\ subPc'[u] = "forward"
    BY <1>1, <2>1, Zenon
  <2>3. Phase(u)'
    BY <1>2, <2>2, Zenon DEF Phase
  <2> QED
    BY <1>2, <1>3, <2>1, <2>2, <2>3, FlowTurn, Zenon
<1>8. CASE removeStream(u)
  <2>1. /\ subSess' = subSess /\ \A s \in Sessions : u \in streams'[s] => u \in streams[s]
        /\ \E to \in {"refused", "cancel"} : subPc' = [subPc EXCEPT ![u] = to]
    BY <1>1, <1>8, Zenon DEF removeStream, SubStep
  <2>2. Phase(u)' /\ subPc'[u] \notin {"forward", "push"}
    BY <1>4, <2>1, Zenon
  <2> QED
    BY <1>2, <1>3, <2>1, <2>2, FlowTurn, Zenon
<1>9. CASE SendCancel(u) \/ ForwardEnd(u)
  <2>1. /\ subSess' = subSess /\ UNCHANGED streams
        /\ \E to \in {"closed", "remove"} : subPc' = [subPc EXCEPT ![u] = to]
    BY <1>9, Zenon DEF SendCancel, ForwardEnd, SubStep
  <2>2. Phase(u)' /\ subPc'[u] \notin {"forward", "push"}
    BY <1>4, <2>1, Zenon
  <2> QED
    BY <1>2, <1>3, <2>1, <2>2, FlowTurn, Zenon
<1> QED
  BY <1>5, <1>6, <1>7, <1>8, <1>9, Zenon

\* A step of one subscription on the Core does not concern another.
LEMMA FlowElse ==
    ASSUME Sound, TypeOK', [Next]_vars, NEW u \in Subs, NEW w \in Subs, w # u,
           SubscribeStep(u) \/ Read(u)
    PROVE  Pipe(w)' /\ Lane(w)'
<1> USE DEF mgrVars, notSub, queueVars, connVars, agentVars, netVars, workVars
<1>1. /\ subPc \in [Subs -> {"idle", "add", "send", "forward", "push", "remove",
                             "cancel", "closed", "refused"}]
      /\ subSess \in [Subs -> Sessions \cup {None}] /\ streams \in [Sessions -> SUBSET Subs]
      /\ chunks \in [Subs -> Seq(StreamChunk)] /\ pushing \in [Subs -> Nat]
      /\ output \in [Subs -> Seq(Nat)] /\ received \in [Subs -> Nat]
  BY Zenon DEF Sound, TypeOK, SubTypes, ManagerTypes
<1>2. UNCHANGED <<emitted, agentSub, up, alive, conn, held>>
  BY Zenon DEF SubscribeStep, SubLookup, SubAdd, SubSend, removeStream, SendCancel, ForwardTake,
     ForwardPush, ForwardEnd, Read
<1>3. received'[w] = received[w] /\ output'[w] = output[w]
  BY <1>1, Zenon DEF SubscribeStep, SubLookup, SubAdd, SubSend, removeStream, SendCancel,
     ForwardTake, ForwardPush, ForwardEnd, Read
<1>4. pushing'[w] = pushing[w] /\ chunks'[w] = chunks[w]
  BY <1>1, Zenon DEF SubscribeStep, SubLookup, SubAdd, SubSend, removeStream, SendCancel,
     ForwardTake, ForwardPush, ForwardEnd, Read
<1>5. subPc'[w] = subPc[w]
  <2>1. UNCHANGED subPc \/ \E x : subPc' = [subPc EXCEPT ![u] = x]
    BY Zenon DEF SubscribeStep, SubLookup, SubAdd, SubSend, removeStream, SendCancel,
       ForwardTake, ForwardPush, ForwardEnd, Read, SubStep
  <2> QED
    BY <1>1, <2>1, Zenon
<1>6. subSess'[w] = subSess[w]
  <2>1. UNCHANGED subSess \/ \E x : subSess' = [subSess EXCEPT ![u] = x]
    BY Zenon DEF SubscribeStep, SubLookup, SubAdd, SubSend, removeStream, SendCancel,
       ForwardTake, ForwardPush, ForwardEnd, Read
  <2> QED
    BY <1>1, <2>1, Zenon
<1>7. \A s \in Sessions : w \in streams'[s] => w \in streams[s]
  <2>1. CASE SubAdd(u)
    <3>1. \/ UNCHANGED streams
          \/ streams' = [streams EXCEPT ![subSess[u]] = @ \cup {u}]
      BY <2>1, Zenon DEF SubAdd
    <3> SUFFICES ASSUME NEW s \in Sessions, w \in streams'[s]
                 PROVE  w \in streams[s]
      BY Zenon
    <3>2. CASE streams'[s] = streams[s]
      BY <3>2, Zenon
    <3>3. CASE streams'[s] = streams[s] \cup {u}
      <4>1. w \in streams[s] \cup {u}
        BY <3>3, Zenon
      <4> QED
        BY <4>1, Zenon
    <3> QED
      BY <1>1, <3>1, <3>2, <3>3, Zenon
  <2>2. CASE removeStream(u)
    <3>1. streams' = [streams EXCEPT ![subSess[u]] = @ \ {u}]
      BY <2>2, Zenon DEF removeStream
    <3> QED
      BY <1>1, <3>1, Zenon
  <2>3. CASE ~SubAdd(u) /\ ~removeStream(u)
    <3>1. UNCHANGED streams
      BY <2>3, Zenon DEF SubscribeStep, SubLookup, SubSend, SendCancel, ForwardTake,
         ForwardPush, ForwardEnd, Read
    <3> QED
      BY <3>1, Zenon
  <2> QED
    BY <2>1, <2>2, <2>3, Zenon
<1>8. Hand(w)' = Hand(w)
  BY <1>1, <1>2, <1>6, HandKeeps, Zenon
<1>9. /\ emitted'[w] = emitted[w] /\ agentSub'[w] = agentSub[w]
      /\ \A s \in Sessions : w \in streams'[s] =>
           w \in streams[s] /\ Passes(up[s], up'[s], w) /\ (alive'[s] => alive[s])
  BY <1>2, <1>7, Zenon DEF Passes
<1> QED
  BY <1>3, <1>4, <1>5, <1>8, <1>9, FlowIdle, Zenon

\* The agent queues a message that is no chunk of u.
LEMMA FlowQueued ==
    ASSUME Sound, TypeOK', [Next]_vars, NEW t, NEW m \in AgentMessage, Outbound(t, m),
           UNCHANGED <<received, output, pushing, chunks, subSess, subPc, streams, alive, conn, held>>,
           NEW u \in Subs, ~Of(m, u), emitted'[u] = emitted[u], agentSub'[u] = agentSub[u]
    PROVE  Pipe(u)' /\ Lane(u)'
<1>1. up \in [Sessions -> Seq(AgentMessage)] /\ subSess \in [Subs -> Sessions \cup {None}]
  BY Zenon DEF Sound, TypeOK, AgentTypes, SubTypes
<1>2. \A s \in Sessions : up'[s] = up[s] \/ up'[s] = Append(up[s], m)
  BY <1>1, Zenon DEF Outbound
<1>3. \A s \in Sessions : u \in streams'[s] =>
        u \in streams[s] /\ Passes(up[s], up'[s], u) /\ (alive'[s] => alive[s])
  BY <1>2, Zenon DEF Passes
<1>4. /\ received'[u] = received[u] /\ output'[u] = output[u] /\ pushing'[u] = pushing[u]
      /\ chunks'[u] = chunks[u] /\ subPc'[u] = subPc[u] /\ subSess'[u] = subSess[u]
  BY Zenon
<1>5. Hand(u)' = Hand(u)
  BY <1>1, <1>4, HandKeeps, Zenon
<1> QED
  BY <1>3, <1>4, <1>5, FlowIdle, Zenon

\* The agent queues the next chunk of u, or its end.
LEMMA FlowNewest ==
    ASSUME Sound, TypeOK', [Next]_vars, NEW u \in Subs, NEW m \in AgentMessage, Of(m, u),
           m.seq = emitted[u] + 1, Outbound(subSess[u], m),
           agentSub[u] \in {"run", "canceled"},
           UNCHANGED <<received, output, pushing, chunks, subSess, subPc, streams, alive, conn, held>>,
           LastSeq(u)' <= emitted[u] + 1
    PROVE  Pipe(u)' /\ Lane(u)'
<1>1. /\ TypeOK /\ AskInv /\ Pipe(u) /\ Lane(u) /\ up \in [Sessions -> Seq(AgentMessage)]
      /\ subSess \in [Subs -> Sessions \cup {None}] /\ emitted[u] \in Nat
      /\ alive[subSess[u]] /\ agentSub[u] # "ended"
  BY Zenon DEF Sound, FlowInv, TypeOK, AgentTypes, SubTypes, AskInv, Started
<1>2. /\ received'[u] = received[u] /\ output'[u] = output[u] /\ pushing'[u] = pushing[u]
      /\ chunks'[u] = chunks[u] /\ subPc'[u] = subPc[u] /\ subSess'[u] = subSess[u]
  BY Zenon
<1>3. Hand(u)' = Hand(u)
  BY <1>1, <1>2, HandKeeps, Zenon
<1>4. Phase(u)'
  BY <1>1, <1>2, Zenon DEF Pipe, Phase
<1>5. Pipe(u)' /\ Front(u)' = Front(u)
  BY <1>1, <1>2, <1>3, <1>4, PipeKeeps, Zenon
<1>6. PICK n \in Nat, k \in Nat : n = emitted[u] /\ k = Front(u)
  BY <1>1, FlowTypes, Zenon
<1>7. Final(u) = n /\ LastSeq(u) = n /\ k <= n
  <2>1. Final(u) = n + 0 /\ LastSeq(u) = n + 0 /\ k <= Final(u)
    BY <1>1, <1>6, Zenon DEF Final, LastSeq, Pipe
  <2> QED
    BY <2>1, SMT
<1>8. ASSUME NEW s \in Sessions, u \in streams'[s]
      PROVE  Ordered(up[s], u, Front(u))' /\ UpTo(up[s], u, Front(u), LastSeq(u))'
  <2>1. u \in streams[s]
    BY <1>8, Zenon
  <2>2. subSess[u] = s
    BY <2>1, StreamSession, Zenon
  <2>3. up'[s] = Append(up[s], m) /\ up[s] \in Seq(AgentMessage)
    BY <1>1, <2>2, Zenon DEF Outbound
  <2>4. Ordered(up[s], u, k) /\ UpTo(up[s], u, k, n)
    BY <1>1, <1>6, <1>7, <2>1, <2>2, Zenon DEF Lane
  <2>5. \A i \in At(up[s], u) : up[s][i].seq <= n
    BY <1>7, UpBound, Zenon
  <2>6. m.seq = n + 1
    BY <1>6, Zenon
  <2>7. Ordered(Append(up[s], m), u, k) /\ UpTo(Append(up[s], m), u, k, n + 1)
    BY <1>7, <2>3, <2>4, <2>5, <2>6, OrderedEmit, Zenon
  <2>8. PICK x : x = LastSeq(u)'
    BY Zenon
  <2>9. x \in Nat
    <3>1. emitted'[u] \in Nat
      BY Zenon DEF TypeOK, AgentTypes
    <3> QED
      BY <2>8, <3>1, SMT DEF LastSeq
  <2>10. n + 1 \in Nat /\ x <= n + 1
    BY <1>6, <2>8
  <2>11. UpTo(Append(up[s], m), u, k, x)
    BY <2>7, <2>9, <2>10, UpToLess, Zenon
  <2> QED
    BY <1>5, <1>6, <2>3, <2>7, <2>8, <2>11, Zenon
<1>9. Lane(u)'
  BY <1>8, Zenon DEF Lane
<1> QED
  BY <1>5, <1>9, Zenon

\* The agent of the session leaves: the queue keeps a prefix.
LEMMA FlowLeave ==
    ASSUME Sound, TypeOK', [Next]_vars, NEW s \in Sessions, AgentLeave(s)
    PROVE  FlowInv'
<1> SUFFICES ASSUME NEW u \in Subs
             PROVE  Pipe(u)' /\ Lane(u)'
  BY Zenon DEF FlowInv
<1>1. /\ TypeOK /\ AskInv /\ Pipe(u) /\ Lane(u) /\ up \in [Sessions -> Seq(AgentMessage)]
      /\ subSess \in [Subs -> Sessions \cup {None}] /\ alive \in [Sessions -> BOOLEAN]
      /\ agentSub \in [Subs -> {"none", "run", "canceled", "ended"}]
  BY Zenon DEF Sound, FlowInv, TypeOK, AgentTypes, SubTypes
<1>2. UNCHANGED <<received, output, pushing, chunks, subSess, subPc, streams, conn, held, emitted>>
  BY Zenon DEF AgentLeave, coreVars, mgrVars, connVars, userVars, subVars, queueVars
<1>3. PICK n \in 0..Len(up[s]) : up' = [up EXCEPT ![s] = SubSeq(@, 1, n)]
  BY Zenon DEF AgentLeave
<1>4. /\ alive' = [alive EXCEPT ![s] = FALSE]
      /\ agentSub'[u] = IF subSess[u] = s /\ agentSub[u] # "none" THEN "ended" ELSE agentSub[u]
  BY Zenon DEF AgentLeave
<1>5. /\ received'[u] = received[u] /\ output'[u] = output[u] /\ pushing'[u] = pushing[u]
      /\ chunks'[u] = chunks[u] /\ subPc'[u] = subPc[u] /\ subSess'[u] = subSess[u]
      /\ emitted'[u] = emitted[u]
  BY <1>2, Zenon
<1>6. Hand(u)' = Hand(u)
  BY <1>1, <1>2, <1>5, HandKeeps, Zenon
<1>7. Phase(u)'
  BY <1>1, <1>5, Zenon DEF Pipe, Phase
<1>8. Pipe(u)' /\ Front(u)' = Front(u)
  BY <1>1, <1>5, <1>6, <1>7, PipeKeeps, Zenon
<1>9. ASSUME NEW t \in Sessions, u \in streams'[t]
      PROVE  /\ Ordered(up[t], u, Front(u))'
             /\ alive'[t] => UpTo(up[t], u, Front(u), LastSeq(u))'
  <2>1. u \in streams[t]
    BY <1>2, <1>9, Zenon
  <2>2. subSess[u] = t
    BY <2>1, StreamSession, Zenon
  <2>3. /\ Ordered(up[t], u, Front(u)) /\ up[t] \in Seq(AgentMessage)
        /\ alive[t] => UpTo(up[t], u, Front(u), LastSeq(u))
    BY <1>1, <2>1, Zenon DEF Lane
  <2>4. CASE t = s
    <3>1. up'[t] = SubSeq(up[t], 1, n) /\ ~alive'[t]
      BY <1>1, <1>3, <1>4, <2>4, Zenon
    <3>2. Ordered(SubSeq(up[t], 1, n), u, Front(u))
      BY <2>3, <2>4, OrderedPrefix, Zenon
    <3> QED
      BY <1>8, <3>1, <3>2, Zenon
  <2>5. CASE t # s
    <3>1. up'[t] = up[t] /\ alive'[t] = alive[t] /\ agentSub'[u] = agentSub[u]
      BY <1>1, <1>3, <1>4, <2>2, <2>5, Zenon
    <3>2. LastSeq(u)' = LastSeq(u)
      BY <1>5, <3>1, Zenon DEF LastSeq
    <3> QED
      BY <1>8, <2>3, <3>1, <3>2, Zenon
  <2> QED
    BY <2>4, <2>5, Zenon
<1> QED
  BY <1>8, <1>9, Zenon DEF Lane

\* What the goroutines of the agent queue.
LEMMA FlowAgent ==
    ASSUME Sound, TypeOK', [Next]_vars,
           \/ \E c \in Calls, ok \in BOOLEAN : execute(c, ok)
           \/ \E u \in Subs : emit(u) \/ runSubscription(u)
    PROVE  FlowInv'
<1> USE DEF coreVars, mgrVars, connVars, userVars, subVars, queueVars
<1> SUFFICES ASSUME NEW w \in Subs
             PROVE  Pipe(w)' /\ Lane(w)'
  BY Zenon DEF FlowInv
<1>1. /\ emitted \in [Subs -> Nat] /\ TypeOK
      /\ agentSub \in [Subs -> {"none", "run", "canceled", "ended"}]
  BY Zenon DEF Sound, TypeOK, AgentTypes
<1>2. ASSUME NEW c \in Calls, NEW ok \in BOOLEAN, execute(c, ok)
      PROVE  Pipe(w)' /\ Lane(w)'
  <2>1. /\ UNCHANGED <<received, output, pushing, chunks, subSess, subPc, streams, alive, conn, held>>
        /\ UNCHANGED <<emitted, agentSub>> /\ Outbound(callSess[c], Result(c, ok))
    BY <1>2, Zenon DEF execute
  <2>2. Result(c, ok) \in AgentMessage /\ ~Of(Result(c, ok), w)
    BY MessageTypes, Zenon DEF Result, Of
  <2>3. emitted'[w] = emitted[w] /\ agentSub'[w] = agentSub[w]
    BY <2>1, Zenon
  <2> QED
    BY <2>1, <2>2, <2>3, FlowQueued, Zenon
<1>3. ASSUME NEW u \in Subs, emit(u)
      PROVE  Pipe(w)' /\ Lane(w)'
  <2>1. PICK n \in Nat : n = emitted[u]
    BY <1>1, Zenon
  <2>2. n + 1 \in Nat
    OBVIOUS
  <2>3. PICK m \in AgentMessage : m = Chunk(u, n + 1)
    BY <2>2, MessageTypes, Zenon
  <2>4. /\ UNCHANGED <<received, output, pushing, chunks, subSess, subPc, streams, alive, conn, held>>
        /\ UNCHANGED agentSub /\ Outbound(subSess[u], m) /\ agentSub[u] \in {"run", "canceled"}
        /\ emitted' = [emitted EXCEPT ![u] = n + 1]
    BY <1>3, <2>1, <2>3, Zenon DEF emit
  <2>5. m.kind = "chunk" /\ m.id = u /\ m.seq = n + 1
    BY <2>3, Zenon DEF Chunk
  <2>6. CASE w # u
    <3>1. emitted'[w] = emitted[w] /\ agentSub'[w] = agentSub[w] /\ ~Of(m, w)
      BY <1>1, <2>4, <2>5, <2>6, Zenon DEF Of
    <3> QED
      BY <2>4, <3>1, FlowQueued, Zenon
  <2>7. CASE w = u
    <3>1. Of(m, u) /\ m.seq = emitted[u] + 1
      BY <2>1, <2>5, Zenon DEF Of
    <3>2. emitted'[u] = n + 1 /\ agentSub'[u] # "ended"
      BY <1>1, <2>4, Zenon
    <3>3. LastSeq(u)' = n + 1 + 0
      BY <3>2, Zenon DEF LastSeq
    <3>4. LastSeq(u)' <= emitted[u] + 1
      BY <2>1, <3>3, SMT
    <3>5. Pipe(u)' /\ Lane(u)'
      BY <2>4, <3>1, <3>4, FlowNewest, Zenon
    <3> QED
      BY <2>7, <3>5, Zenon
  <2> QED
    BY <2>6, <2>7, Zenon
<1>4. ASSUME NEW u \in Subs, runSubscription(u)
      PROVE  Pipe(w)' /\ Lane(w)'
  <2>1. PICK n \in Nat : n = emitted[u]
    BY <1>1, Zenon
  <2>2. n + 1 \in Nat
    OBVIOUS
  <2>3. PICK m \in AgentMessage : m = Eof(u, n + 1)
    BY <2>2, MessageTypes, Zenon
  <2>4. /\ UNCHANGED <<received, output, pushing, chunks, subSess, subPc, streams, alive, conn, held>>
        /\ UNCHANGED emitted /\ agentSub' = [agentSub EXCEPT ![u] = "ended"]
        /\ \/ Outbound(subSess[u], m) /\ agentSub[u] \in {"run", "canceled"}
           \/ UNCHANGED up /\ agentSub[u] = "canceled"
    BY <1>4, <2>1, <2>3, Zenon DEF runSubscription
  <2>5. m.kind = "chunk" /\ m.id = u /\ m.seq = n + 1
    BY <2>3, Zenon DEF Eof
  <2>6. CASE w # u /\ Outbound(subSess[u], m)
    <3>1. emitted'[w] = emitted[w] /\ agentSub'[w] = agentSub[w] /\ ~Of(m, w)
      BY <1>1, <2>4, <2>5, <2>6, Zenon DEF Of
    <3> QED
      BY <2>4, <2>6, <3>1, FlowQueued, Zenon
  <2>7. CASE w = u /\ Outbound(subSess[u], m) /\ agentSub[u] \in {"run", "canceled"}
    <3>1. Of(m, u) /\ m.seq = emitted[u] + 1
      BY <2>1, <2>5, Zenon DEF Of
    <3>2. emitted'[u] = n
      BY <2>1, <2>4, Zenon
    <3>3. LastSeq(u)' <= emitted[u] + 1
      BY <2>1, <3>2, SMT DEF LastSeq
    <3>4. Pipe(u)' /\ Lane(u)'
      BY <2>4, <2>7, <3>1, <3>3, FlowNewest, Zenon
    <3> QED
      BY <2>7, <3>4, Zenon
  <2>8. CASE UNCHANGED up /\ agentSub[u] = "canceled"
    <3>1. subPc[u] = "closed" /\ TypeOK /\ AskInv /\ Pipe(w) /\ Lane(w)
      BY <2>8, Zenon DEF Sound, AskInv, Started, FlowInv
    <3>2. /\ received'[w] = received[w] /\ output'[w] = output[w] /\ pushing'[w] = pushing[w]
          /\ chunks'[w] = chunks[w] /\ subPc'[w] = subPc[w] /\ subSess'[w] = subSess[w]
          /\ emitted'[w] = emitted[w]
      BY <2>4, Zenon
    <3>3. Hand(w)' = Hand(w)
      <4>1. subSess \in [Subs -> Sessions \cup {None}]
        BY <3>1, Zenon DEF TypeOK, SubTypes
      <4> QED
        BY <2>4, <3>2, <4>1, HandKeeps, Zenon
    <3>4. CASE w = u
      <4>1. Phase(w)'
        BY <3>1, <3>2, Zenon DEF Pipe, Phase
      <4>2. Pipe(w)'
        BY <3>1, <3>2, <3>3, <4>1, PipeKeeps, Zenon
      <4>3. \A t \in Sessions : u \notin streams[t]
        <5> SUFFICES ASSUME NEW t \in Sessions, u \in streams[t]
                     PROVE  FALSE
          BY Zenon
        <5>1. subPc[u] \in {"send", "forward", "push", "remove"}
          BY StreamSession, Zenon
        <5> QED
          BY <3>1, <5>1, Zenon
      <4>4. Lane(w)'
        BY <2>4, <3>4, <4>3, Zenon DEF Lane
      <4> QED
        BY <4>2, <4>4, Zenon
    <3>5. CASE w # u
      <4>1. agentSub'[w] = agentSub[w]
        BY <1>1, <2>4, <3>5, Zenon
      <4>2. \A t \in Sessions : w \in streams'[t] =>
              w \in streams[t] /\ Passes(up[t], up'[t], w) /\ (alive'[t] => alive[t])
        BY <2>4, <2>8, Zenon DEF Passes
      <4> QED
        BY <3>2, <3>3, <4>1, <4>2, FlowIdle, Zenon
    <3> QED
      BY <3>4, <3>5, Zenon
  <2> QED
    BY <2>4, <2>6, <2>7, <2>8, Zenon
<1> QED
  BY <1>2, <1>3, <1>4, Zenon

\* Every step keeps the chunks of every stream numbered and in order.
LEMMA FlowNext == Sound /\ TypeOK' /\ [Next]_vars => FlowInv'
<1> SUFFICES ASSUME Sound, TypeOK', [Next]_vars
             PROVE  FlowInv'
  BY Zenon
<1> USE DEF mgrVars, connVars, delVars, callVars, subVars, queueVars, userVars, netVars,
            workVars, agentVars, notSub, notCall, coreVars
<1>0. /\ conn \in [Sessions -> {"none", "hello", "verified", "registered", "loop", "resolve",
                                "chunk", "unregister", "close", "ended"}]
      /\ held \in [Sessions -> AgentMessage \cup {NoMessage}]
      /\ alive \in [Sessions -> BOOLEAN]
      /\ agentSub \in [Subs -> {"none", "run", "canceled", "ended"}]
  BY Zenon DEF Sound, TypeOK, HandlerTypes, AgentTypes
<1>1. ASSUME UNCHANGED <<received, output, pushing, chunks, subSess, subPc, emitted, up, agentSub,
                         streams, alive, conn, held>>
      PROVE  FlowInv'
  BY <1>1, FlowOther, Zenon
<1>2. ASSUME NEW s,
             \/ Verify(s) \/ Refuse(s) \/ register(s) \/ StartLoop(s) \/ Heartbeat(s)
             \/ Return(s) \/ unregister(s) \/ UnregisterClose(s) \/ Dial(s) \/ resolve(s)
      PROVE  /\ UNCHANGED <<received, output, pushing, chunks, subSess, subPc, emitted, up, agentSub>>
             /\ \A t \in Sessions : (conn'[t] = "chunk" <=> conn[t] = "chunk")
                                    /\ (conn[t] = "chunk" => held'[t] = held[t])
  <2>1. UNCHANGED <<received, output, pushing, chunks, subSess, subPc, emitted, up, agentSub>>
    BY <1>2, Zenon DEF Verify, Refuse, register, StartLoop, Heartbeat, Return, unregister,
       UnregisterClose, Dial, resolve
  <2>2. \E from \in {"none", "hello", "verified", "registered", "loop", "resolve", "unregister", "close"},
           to \in {"hello", "verified", "registered", "loop", "unregister", "close", "ended"} :
           ConnStep(s, from, to)
    BY <1>2, Zenon DEF Verify, Refuse, register, StartLoop, Heartbeat, Return, unregister,
       UnregisterClose, Dial, resolve
  <2>3. UNCHANGED held \/ held' = [held EXCEPT ![s] = NoMessage]
    BY <1>2, Zenon DEF Verify, Refuse, register, StartLoop, Heartbeat, Return, unregister,
       UnregisterClose, Dial, resolve
  <2>4. PICK from, to : /\ from # "chunk" /\ to # "chunk"
                        /\ conn[s] = from /\ conn' = [conn EXCEPT ![s] = to]
    BY <2>2, Zenon DEF ConnStep
  <2>5. ASSUME NEW t \in Sessions
        PROVE  (conn'[t] = "chunk" <=> conn[t] = "chunk") /\ (conn[t] = "chunk" => held'[t] = held[t])
    <3>1. CASE t = s
      <4>1. conn'[t] = to /\ conn[t] = from
        BY <1>0, <2>4, <3>1, Zenon
      <4> QED
        BY <2>4, <4>1, Zenon
    <3>2. CASE t # s
      <4>1. conn'[t] = conn[t] /\ held'[t] = held[t]
        BY <1>0, <2>3, <2>4, <3>2, Zenon
      <4> QED
        BY <4>1, Zenon
    <3> QED
      BY <3>1, <3>2, Zenon
  <2> QED
    BY <2>1, <2>5, Zenon
<1>3. ASSUME NEW s, close(s)
      PROVE  \A t \in Sessions : streams'[t] \subseteq streams[t]
  BY <1>3, Zenon DEF close
<1>4. ASSUME NEW s \in Sessions,
             \/ Verify(s) \/ Refuse(s) \/ StartLoop(s) \/ Heartbeat(s) \/ Return(s)
             \/ unregister(s) \/ resolve(s)
      PROVE  FlowInv'
  <2>1. UNCHANGED <<streams, alive>>
    BY <1>4, Zenon DEF Verify, Refuse, StartLoop, Heartbeat, Return, unregister, resolve
  <2> QED
    BY <1>2, <1>4, <2>1, FlowOther, Zenon
<1>5. ASSUME NEW s \in Sessions, register(s) \/ UnregisterClose(s)
      PROVE  FlowInv'
  <2>1. UNCHANGED alive /\ \E t : close(t)
    BY <1>5, Zenon DEF register, UnregisterClose
  <2> QED
    BY <1>2, <1>3, <1>5, <2>1, FlowOther, Zenon
<1>6. ASSUME NEW s \in Sessions, Dial(s)
      PROVE  FlowInv'
  <2>1. UNCHANGED streams /\ alive' = [alive EXCEPT ![s] = TRUE] /\ conn[s] = "none"
    BY <1>6, Zenon DEF Dial, ConnStep
  <2>2. \A t \in Sessions : alive'[t] => alive[t] \/ conn[t] = "none"
    BY <1>0, <2>1, Zenon
  <2> QED
    BY <1>2, <1>6, <2>1, <2>2, FlowOther, Zenon
<1>7. ASSUME NEW s \in Sessions, DisconnectClose(s)
      PROVE  FlowInv'
  <2>1. /\ UNCHANGED <<received, output, pushing, chunks, subSess, subPc, emitted, up, agentSub,
                       alive, conn, held>>
        /\ close(s)
    BY <1>7, Zenon DEF DisconnectClose
  <2> QED
    BY <1>3, <2>1, FlowOther, Zenon
<1>8. ASSUME NEW s \in Sessions, AgentReceive(s)
      PROVE  FlowInv'
  <2>1. UNCHANGED <<received, output, pushing, chunks, subSess, subPc, emitted, up, streams,
                    alive, conn, held>>
    BY <1>8, Zenon DEF AgentReceive
  <2>2. \E m : \/ UNCHANGED agentSub
               \/ agentSub' = [agentSub EXCEPT ![m.id] = "run"]
               \/ agentSub' = [agentSub EXCEPT ![m.id] = IF @ = "run" THEN "canceled" ELSE @]
    BY <1>8, Zenon DEF AgentReceive
  <2>3. \A u \in Subs : agentSub'[u] = agentSub[u] \/ agentSub'[u] \in {"run", "canceled"}
    BY <1>0, <2>2, Zenon
  <2>4. \A u \in Subs : agentSub'[u] = agentSub[u] \/ agentSub'[u] # "ended"
    BY <2>3, Zenon
  <2> QED
    BY <2>1, <2>4, FlowOther, Zenon
<1>9. ASSUME NEW s \in Sessions, SenderSend(s) \/ SenderStop(s)
      PROVE  UNCHANGED <<received, output, pushing, chunks, subSess, subPc, emitted, up, agentSub,
                         streams, alive, conn, held>>
  BY <1>9, Zenon DEF SenderSend, SenderStop
<1>10. ASSUME NEW v \in Servers, DeleteServer(v) \/ Disconnect(v)
       PROVE  UNCHANGED <<received, output, pushing, chunks, subSess, subPc, emitted, up, agentSub,
                          streams, alive, conn, held>>
  BY <1>10, Zenon DEF DeleteServer, Disconnect
<1>11. ASSUME NEW c \in Calls, DispatchStep(c) \/ CancelCall(c)
       PROVE  UNCHANGED <<received, output, pushing, chunks, subSess, subPc, emitted, up, agentSub,
                          streams, alive, conn, held>>
  BY <1>11, Zenon DEF DispatchStep, DispatchLookup, DispatchPend, DispatchSend, DispatchAnswer,
     DispatchAbort, DispatchReturn, CancelCall
<1>12. ASSUME NEW u \in Subs, CancelSub(u)
       PROVE  UNCHANGED <<received, output, pushing, chunks, subSess, subPc, emitted, up, agentSub,
                          streams, alive, conn, held>>
  BY <1>12, Zenon DEF CancelSub
<1>13. ASSUME NEW u \in Subs, SubscribeStep(u) \/ Read(u)
       PROVE  FlowInv'
  <2>1. Pipe(u)' /\ Lane(u)'
    BY <1>13, FlowTake, FlowPush, FlowRead, FlowSubscribe, Zenon DEF SubscribeStep
  <2>2. \A w \in Subs : w # u => Pipe(w)' /\ Lane(w)'
    BY <1>13, FlowElse, Zenon
  <2> QED
    BY <2>1, <2>2, Zenon DEF FlowInv
<1>14. ASSUME NEW c \in Calls, NEW ok \in BOOLEAN, execute(c, ok)
       PROVE  FlowInv'
  BY <1>14, FlowAgent, Zenon
<1>15. ASSUME NEW u \in Subs, emit(u) \/ runSubscription(u)
       PROVE  FlowInv'
  BY <1>15, FlowAgent, Zenon
<1>16. CASE UNCHANGED vars
  BY <1>1, <1>16, Zenon DEF vars
<1> QED
  BY <1>1, <1>4, <1>5, <1>6, <1>7, <1>8, <1>9, <1>10, <1>11, <1>12, <1>13, <1>14, <1>15, <1>16,
     FlowReceive, FlowResolve, FlowDrop, FlowLeave, Zenon DEF Next, HandlerStep, SenderStep

\* The invariants together say that the streams are intact.
LEMMA SoundIsIntact == Sound => StreamIntact
<1> SUFFICES ASSUME Sound, NEW u \in Subs
             PROVE  /\ \A i \in 1..Len(Unread(u)) : Unread(u)[i] = received[u] + i
                    /\ subPc[u] \in {"forward", "push"} /\ u \in streams[subSess[u]] /\ alive[subSess[u]] =>
                         {up[subSess[u]][i].seq : i \in At(up[subSess[u]], u)}
                           = (received[u] + Len(Unread(u)) + 1)
                               ..(emitted[u] + (IF agentSub[u] = "ended" THEN 1 ELSE 0))
  BY Zenon DEF StreamIntact
<1>1. TypeOK /\ Pipe(u) /\ Lane(u) /\ StreamInv
  BY Zenon DEF Sound, FlowInv
<1>2. PICK r \in Nat, o \in Seq(Nat), p \in Nat, c \in Seq(StreamChunk), h \in Seq(Nat) :
        r = received[u] /\ o = output[u] /\ p = pushing[u] /\ c = chunks[u] /\ h = Hand(u)
  BY <1>1, FlowTypes, Zenon
<1>3. PICK q : q = o \o (IF p = 0 THEN <<>> ELSE <<p>>) \o Seqs(c) \o h
  BY Zenon
<1>4. Unread(u) = q
  BY <1>2, <1>3, Zenon DEF Unread, Hand
<1>5. Piped(r, o, p, c, h)
  BY <1>1, <1>2, Zenon DEF Pipe
<1>6. Row(q, r) /\ Ahead(r, o, p, c, h) = r + Len(q) /\ Len(q) \in Nat
  <2>1. \A x : x = o \o (IF p = 0 THEN <<>> ELSE <<p>>) \o Seqs(c) \o h =>
          Row(x, r) /\ Ahead(r, o, p, c, h) = r + Len(x) /\ Len(x) \in Nat
    BY <1>5, PipedRow, Zenon
  <2> QED
    BY <1>3, <2>1, Zenon
<1>7. \A i \in 1..Len(Unread(u)) : Unread(u)[i] = received[u] + i
  BY <1>2, <1>4, <1>6, Zenon DEF Row
<1>8. Front(u) = received[u] + Len(Unread(u))
  BY <1>2, <1>4, <1>6, Zenon DEF Front
<1>9. ASSUME subPc[u] \in {"forward", "push"}, u \in streams[subSess[u]], alive[subSess[u]]
      PROVE  {up[subSess[u]][i].seq : i \in At(up[subSess[u]], u)} = (Front(u) + 1)..Final(u)
  <2>1. subSess[u] \in Sessions
    <3>1. subPc[u] \notin {"idle", "refused"}
      BY <1>9, Zenon
    <3> QED
      BY <1>1, <3>1, Zenon DEF StreamInv, SubHasSession
  <2>2. PICK s \in Sessions : s = subSess[u]
    BY <2>1, Zenon
  <2>3. PICK k \in Nat, n \in Nat : k = Front(u) /\ n = Final(u)
    BY <1>1, FlowTypes, Zenon
  <2>4. LastSeq(u) = n
    BY <1>9, <2>3, Zenon DEF LastSeq, Final
  <2>5. Ordered(up[s], u, k) /\ UpTo(up[s], u, k, n)
    BY <1>1, <1>9, <2>2, <2>3, <2>4, Zenon DEF Lane
  <2>6. ASSUME NEW i \in At(up[s], u)
        PROVE  up[s][i].seq \in (k + 1)..n
    <3>1. up[s][i].seq \in Nat /\ up[s][i].seq <= n /\ up[s][i].seq > k
      BY <2>3, <2>5, UpBound, Zenon DEF Ordered
    <3> QED
      BY <3>1, SMT
  <2>7. \A x \in (k + 1)..n : \E i \in At(up[s], u) : x = up[s][i].seq
    BY <2>5, Zenon DEF UpTo
  <2>8. {up[s][i].seq : i \in At(up[s], u)} = (k + 1)..n
    BY <2>6, <2>7, Zenon
  <2> QED
    BY <2>2, <2>3, <2>8, Zenon
<1> QED
  BY <1>7, <1>8, <1>9, Zenon DEF Final

\* Through the queue of the agent, the receive loop, the channel of the
\* subscription, its goroutine and the queue of the reader the chunks of every
\* stream arrive in order, without a gap or a repetition, and as long as both
\* ends of the stream are there none is lost: for any number of sessions and
\* subscriptions and for every capacity of the queues.
THEOREM StreamsIntact == Spec => []StreamIntact
<1>1. Init => Sound
  BY TypeInit, MapInit, StreamInit, AskInit, ChunkInit, FlowInit, Zenon DEF Sound
<1>2. Sound /\ [Next]_vars => Sound'
  <2> SUFFICES ASSUME Sound, [Next]_vars
               PROVE  Sound'
    BY Zenon
  <2>1. TypeOK /\ MapInv /\ StreamInv /\ AskInv /\ ChunkInv /\ RegisteredIsOpen
    BY Zenon DEF Sound, MapInv
  <2>2. TypeOK'
    BY <2>1, TypeNext, Zenon
  <2>3. MapInv'
    BY <2>1, MapNext, Zenon
  <2>4. StreamInv'
    BY <2>1, StreamNext, Zenon
  <2>5. AskInv'
    BY <2>1, AskNext, Zenon
  <2>6. ChunkInv'
    BY <2>1, ChunkNext, Zenon
  <2>7. FlowInv'
    BY <2>2, FlowNext, Zenon
  <2> QED
    BY <2>2, <2>3, <2>4, <2>5, <2>6, <2>7, Zenon DEF Sound
<1> QED
  BY <1>1, <1>2, SoundIsIntact, PTL DEF Spec
=============================================================================
