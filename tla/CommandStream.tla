--------------------------- MODULE CommandStream ---------------------------
(***************************************************************************)
(* The output of one streamed command, from the process on the Agent's     *)
(* host to the loop that consumes it in the Core                           *)
(* (internal/agent/executor/shell.go Stream and streamLines,               *)
(* internal/agent/packages/manager.go, internal/agent/server/server.go,    *)
(* internal/agentclient/client.go, internal/core/capability/client.go).    *)
(*                                                                         *)
(*   process -> two pipes -> two readers -> channel -> RPC handler         *)
(*           -> gRPC stream -> client goroutine -> channel -> consumer     *)
(*                                                                         *)
(* A line is the pair of its pipe and its number; the notices the Agent    *)
(* adds are lines of their own.  The channel has 64 places for a package   *)
(* command and none for a followed log, so both kinds are explored.        *)
(* Waiting for the process runs beside the readers and closes the pipes:   *)
(* what no reader has taken by then is lost.  The Agent's timeout cancels  *)
(* only the command; the gRPC call has a context of its own.               *)
(***************************************************************************)
EXTENDS Naturals, Sequences, SequencesExt

CONSTANTS Lines,      \* number of lines the process writes to each pipe
          Ragged,     \* pipes whose last line has no newline
          Limit,      \* lines a reader passes on: maxCommandOutput
          PipeCap,    \* lines a pipe holds
          Caps,       \* capacities of the Agent's channel
          WireCap,    \* lines in flight on the gRPC stream
          OutCap,     \* capacity of the client's channel
          None

VARIABLES cap,        \* capacity of the Agent's channel for this command
          proc,       \* "running" or "exited"
          failed,     \* the process did not exit with status 0
          written,    \* lines written, by pipe
          pipe,       \* lines in the pipe
          waited,     \* cmd.Wait has returned and closed the pipes
          reader,     \* "reading" or "done", by pipe
          buffer,     \* lines read and not yet passed on, by pipe
          held,       \* the line without newline a reader holds, by pipe
          emitted,    \* lines a reader has passed on
          ch,         \* the Agent's channel
          closed,     \* the channel is closed
          handler,    \* "serving" or "returned": the RPC handler
          hand,       \* the line the handler holds
          wire,       \* lines on the gRPC stream
          client,     \* "receiving" or "done": the client goroutine
          chand,      \* the line it holds
          out,        \* the client's channel
          consumer,   \* "draining", "ended" or "gone"
          got,        \* what the consumer has taken
          deadline,   \* the command's timeout has passed
          callDone    \* the context of the gRPC call is done

process == <<proc, failed, written, pipe, waited>>
readers == <<reader, buffer, held, emitted>>
rpc == <<handler, hand, wire>>
core == <<client, chand, out, consumer, got>>
contexts == <<deadline, callDone>>
vars == <<cap, process, readers, ch, closed, rpc, core, contexts>>

Pipes == {"out", "err"}
Truncated == <<"[output truncated]", 0>>
Unsuccessful == <<"process exited unsuccessfully", 0>>

TypeOK ==
    /\ cap \in Caps
    /\ proc \in {"running", "exited"} /\ failed \in BOOLEAN /\ waited \in BOOLEAN
    /\ \A p \in Pipes : /\ written[p] \in 0..Lines /\ Len(pipe[p]) <= PipeCap
                        /\ emitted[p] \in 0..Limit
                        /\ reader[p] \in {"reading", "done"}
    /\ Len(ch) <= cap /\ Len(wire) <= WireCap /\ Len(out) <= OutCap
    /\ consumer \in {"draining", "ended", "gone"}

Init ==
    /\ cap \in Caps
    /\ proc = "running" /\ failed = FALSE /\ waited = FALSE
    /\ written = [p \in Pipes |-> 0]
    /\ pipe = [p \in Pipes |-> <<>>]
    /\ reader = [p \in Pipes |-> "reading"]
    /\ buffer = [p \in Pipes |-> <<>>]
    /\ held = [p \in Pipes |-> None]
    /\ emitted = [p \in Pipes |-> 0]
    /\ ch = <<>> /\ closed = FALSE
    /\ handler = "serving" /\ hand = None /\ wire = <<>>
    /\ client = "receiving" /\ chand = None /\ out = <<>>
    /\ consumer = "draining" /\ got = <<>>
    /\ deadline = FALSE /\ callDone = FALSE

-----------------------------------------------------------------------------
(* The process and its pipes.                                              *)

ctxDone == deadline \/ callDone

ProcessWrites(p) ==
    /\ proc = "running" /\ written[p] < Lines /\ Len(pipe[p]) < PipeCap
    /\ written' = [written EXCEPT ![p] = @ + 1]
    /\ pipe' = [pipe EXCEPT ![p] = Append(@, <<p, written[p] + 1>>)]
    /\ UNCHANGED <<cap, proc, failed, waited, readers, ch, closed, rpc, core, contexts>>

ProcessExits ==
    /\ proc = "running"
    /\ proc' = "exited" /\ failed' \in BOOLEAN
    /\ UNCHANGED <<cap, written, pipe, waited, readers, ch, closed, rpc, core, contexts>>

\* exec.CommandContext kills the process when its context is done.
Kill ==
    /\ ctxDone /\ proc = "running"
    /\ proc' = "exited" /\ failed' = TRUE
    /\ UNCHANGED <<cap, written, pipe, waited, readers, ch, closed, rpc, core, contexts>>

\* cmd.Wait closes the read ends: bytes still in a pipe are dropped.
Wait ==
    /\ proc = "exited" /\ ~waited
    /\ waited' = TRUE /\ pipe' = [p \in Pipes |-> <<>>]
    /\ UNCHANGED <<cap, proc, failed, written, readers, ch, closed, rpc, core, contexts>>

-----------------------------------------------------------------------------
(* The readers.                                                            *)

\* A channel without places passes a line on only to a waiting receiver.
Room == IF cap = 0 THEN handler = "serving" /\ hand = None ELSE Len(ch) < cap

Put(line) == IF cap = 0 THEN hand' = line /\ UNCHANGED ch
                        ELSE ch' = Append(ch, line) /\ UNCHANGED hand

Read(p) ==
    /\ reader[p] = "reading" /\ buffer[p] = <<>> /\ held[p] = None
    /\ \E n \in 1..Len(pipe[p]) :
          /\ buffer' = [buffer EXCEPT ![p] = SubSeq(pipe[p], 1, n)]
          /\ pipe' = [pipe EXCEPT ![p] = SubSeq(@, n + 1, Len(@))]
    /\ UNCHANGED <<cap, proc, failed, written, waited, reader, held, emitted, ch,
                   closed, rpc, core, contexts>>

\* The select of a reader: the line goes to the channel, or the context is
\* done and the reader returns.
Sends(p, line) == /\ Room /\ Put(line)
                  /\ emitted' = [emitted EXCEPT ![p] = @ + 1]
                  /\ buffer' = [buffer EXCEPT ![p] = Tail(@)]
                  /\ UNCHANGED reader

GivesUp(p) == /\ ctxDone
              /\ reader' = [reader EXCEPT ![p] = "done"]
              /\ UNCHANGED <<buffer, emitted, ch, hand>>

LastRagged(line) == line[1] \in Ragged /\ line[2] = Lines

\* Mutant: the line is dropped when the channel is full.
SelectDropping(p) ==
    \/ Sends(p, Head(buffer[p]))
    \/ /\ ~Room /\ buffer' = [buffer EXCEPT ![p] = Tail(@)]
       /\ UNCHANGED <<reader, emitted, ch, hand>>
    \/ GivesUp(p)

\* Mutant: the send does not watch the context.
SelectBlocking(p) == Sends(p, Head(buffer[p]))

Select(p) == Sends(p, Head(buffer[p])) \/ GivesUp(p)

\* streamLines, for the next line of what was read.
EmitLine(p) ==
    /\ reader[p] = "reading" /\ buffer[p] # <<>> /\ ~LastRagged(Head(buffer[p]))
    /\ emitted[p] < Limit
    /\ Select(p)
    /\ UNCHANGED <<cap, process, held, closed, handler, wire, core, contexts>>

\* Past maxCommandOutput the reader says so and returns; nobody reads the
\* pipe any more.
Truncate(p) ==
    /\ reader[p] = "reading" /\ buffer[p] # <<>> /\ ~LastRagged(Head(buffer[p]))
    /\ emitted[p] = Limit
    /\ \/ Room /\ Put(Truncated)
       \/ ctxDone /\ UNCHANGED <<ch, hand>>
    /\ reader' = [reader EXCEPT ![p] = "done"]
    /\ UNCHANGED <<cap, process, buffer, held, emitted, closed, handler, wire, core, contexts>>

HoldLine(p) ==
    /\ reader[p] = "reading" /\ buffer[p] # <<>> /\ LastRagged(Head(buffer[p]))
    /\ held' = [held EXCEPT ![p] = Head(buffer[p])]
    /\ buffer' = [buffer EXCEPT ![p] = Tail(@)]
    /\ UNCHANGED <<cap, process, reader, emitted, ch, closed, rpc, core, contexts>>

\* Read fails: end of file, or the pipe was closed by Wait.
ReadEnds(p) ==
    /\ reader[p] = "reading" /\ buffer[p] = <<>>
    /\ proc = "exited" /\ pipe[p] = <<>>
    /\ IF held[p] # None /\ emitted[p] < Limit
         THEN \/ Room /\ Put(held[p])
              \/ ctxDone /\ UNCHANGED <<ch, hand>>
         ELSE UNCHANGED <<ch, hand>>
    /\ reader' = [reader EXCEPT ![p] = "done"]
    /\ UNCHANGED <<cap, process, buffer, held, emitted, closed, handler, wire, core, contexts>>

\* Mutant: the notice waits for a place in the channel.
NoticeWaits == IF failed THEN Room /\ Put(Unsuccessful) ELSE UNCHANGED <<ch, hand>>

Notice == IF failed /\ Room THEN Put(Unsuccessful) ELSE UNCHANGED <<ch, hand>>

\* The last goroutine of Stream: after the process and both readers.
CloseChannel ==
    /\ waited /\ ~closed /\ \A p \in Pipes : reader[p] = "done"
    /\ Notice
    /\ closed' = TRUE
    /\ UNCHANGED <<cap, process, readers, handler, wire, core, contexts>>

-----------------------------------------------------------------------------
(* The RPC handler.                                                        *)

Receive ==
    /\ handler = "serving" /\ hand = None /\ ch # <<>>
    /\ hand' = Head(ch) /\ ch' = Tail(ch)
    /\ UNCHANGED <<cap, process, readers, closed, handler, wire, core, contexts>>

Send ==
    /\ handler = "serving" /\ hand # None /\ Len(wire) < WireCap
    /\ wire' = Append(wire, hand) /\ hand' = None
    /\ UNCHANGED <<cap, process, readers, ch, closed, handler, core, contexts>>

\* The handler returns when its loop ends, or when Send fails because the
\* caller is gone; gRPC then ends the context of the call.
HandlerReturns ==
    /\ handler = "serving"
    /\ \/ closed /\ ch = <<>> /\ hand = None
       \/ callDone /\ hand # None
    /\ handler' = "returned" /\ callDone' = TRUE
    /\ UNCHANGED <<cap, process, readers, ch, closed, hand, wire, core, deadline>>

-----------------------------------------------------------------------------
(* The client goroutine and the consumer.                                  *)

Recv ==
    /\ client = "receiving" /\ chand = None /\ wire # <<>>
    /\ chand' = Head(wire) /\ wire' = Tail(wire)
    /\ UNCHANGED <<cap, process, readers, ch, closed, handler, hand, client, out,
                   consumer, got, contexts>>

Pass ==
    /\ client = "receiving" /\ chand # None /\ Len(out) < OutCap
    /\ out' = Append(out, chand) /\ chand' = None
    /\ UNCHANGED <<cap, process, readers, ch, closed, rpc, client, consumer, got, contexts>>

\* Recv reports the end of the stream after its last line, or the caller's
\* cancellation at any line.
RecvEnds ==
    /\ client = "receiving" /\ chand = None
    /\ \/ handler = "returned" /\ wire = <<>>
       \/ handler = "serving" /\ callDone
    /\ client' = "done"
    /\ UNCHANGED <<cap, process, readers, ch, closed, rpc, chand, out, consumer, got, contexts>>

Consume ==
    /\ consumer = "draining"
    /\ IF out # <<>> THEN /\ got' = Append(got, Head(out)) /\ out' = Tail(out)
                          /\ UNCHANGED consumer
                     ELSE /\ client = "done" /\ consumer' = "ended"
                          /\ UNCHANGED <<got, out>>
    /\ UNCHANGED <<cap, process, readers, ch, closed, rpc, client, chand, contexts>>

\* A log viewer leaves: its request's context, the call's parent, is done.
Leave ==
    /\ consumer = "draining"
    /\ consumer' = "gone" /\ callDone' = TRUE
    /\ UNCHANGED <<cap, process, readers, ch, closed, rpc, client, chand, out, got, deadline>>

\* A module job is cancelled; the module goes on draining.
Cancel ==
    /\ ~callDone /\ callDone' = TRUE
    /\ UNCHANGED <<cap, process, readers, ch, closed, rpc, core, deadline>>

Deadline ==
    /\ ~deadline /\ deadline' = TRUE
    /\ UNCHANGED <<cap, process, readers, ch, closed, rpc, core, callDone>>

ReaderStep(p) == Read(p) \/ EmitLine(p) \/ Truncate(p) \/ HoldLine(p) \/ ReadEnds(p)
HandlerStep == Receive \/ Send \/ HandlerReturns
ClientStep == Recv \/ Pass \/ RecvEnds

Next ==
    \/ \E p \in Pipes : ProcessWrites(p) \/ ReaderStep(p)
    \/ ProcessExits \/ Kill \/ Wait \/ CloseChannel
    \/ HandlerStep \/ ClientStep
    \/ Consume \/ Leave \/ Cancel \/ Deadline

\* Goroutines that can run do, the timeout fires, and the consumer takes what
\* is there; the process may write, stop or hang as it likes.
Fairness ==
    /\ \A p \in Pipes : WF_vars(ReaderStep(p))
    /\ WF_vars(Kill) /\ WF_vars(Wait) /\ WF_vars(CloseChannel)
    /\ WF_vars(HandlerStep) /\ WF_vars(ClientStep)
    /\ WF_vars(Consume) /\ WF_vars(Deadline)

Spec == Init /\ [][Next]_vars /\ Fairness

-----------------------------------------------------------------------------
(* Properties.                                                             *)

From(p) == SelectSeq(got, LAMBDA line : line[1] = p)

\* What the consumer has read of each pipe is a beginning of what the process
\* wrote to it: streamLines, the two channels, the handler and the client
\* goroutine lose only an end, and neither repeat nor reorder a line.
ArrivesInOrder ==
    \A p \in Pipes : \A i \in 1..Len(From(p)) : From(p)[i] = <<p, i>>

\* Where a streamed command ends: Stream has closed its channel, although the
\* process hangs, a reader was truncated or the caller has left, and a consumer
\* that went on reading saw the end.
Ended == closed /\ consumer # "draining"
=============================================================================
