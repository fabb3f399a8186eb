------------------------------ MODULE RunStream ------------------------------
(***************************************************************************)
(* The output of one running command (sandbox/run.go, sandbox/stream.go).  *)
(*                                                                         *)
(* pumpResponses receives the node's frames and writes output into two     *)
(* unbuffered pipes.  With sink = "stream" two copyRunOutput goroutines    *)
(* move it into the bounded chunk channel that Stream.Next reads, and      *)
(* receiveRunHandle publishes the result once the handle has settled and   *)
(* both copies are over.  With sink = "discard" the two copies and the     *)
(* wait are those of Command.Exec, which throws the pipes' output away.    *)
(***************************************************************************)
EXTENDS Integers, Sequences

CONSTANTS
  MaxFrames,   \* output frames the node sends (bound)
  BufferSize   \* streamBufferSize

Streams == {"stdout", "stderr"}

ASSUME RunStreamAssumption ==
  MaxFrames \in Nat /\ BufferSize \in Nat \ {0}

VARIABLES
  sink,       \* how the command was started: "stream" or "discard"
  received,   \* output frames received, oldest first: the stream each is for
  pump,       \* pumpResponses: "receive", the stream it is writing to, or "done"
  pipeEnd,    \* both pipe writers are closed
  settled,    \* what waitCh/errCh got: "none", "exit" or "error"
  copier,     \* copyRunOutput per stream: "read", "check", "emit" or "done"
  inHand,     \* the frame a copier has read and not yet emitted (0: none)
  chunks,     \* the chunk channel
  drain,      \* drainCh is closed
  main,       \* receiveRunHandle: "settle", "join", "publish" or "done"
  result,     \* Stream.result / Stream.err, valid once resultReady
  ready,      \* resultReady is closed
  closed,     \* chunks is closed
  killed,     \* Stream.Cancel was called
  user,       \* the program: "next", "eof", "wait", "discard" or "returned"
  early,      \* the program called Wait before Next had reported the end
  delivered   \* frames Next returned

feed == <<received, pump, pipeEnd, settled>>
copies == <<copier, inHand>>
channel == <<chunks, drain>>
outcome == <<main, result, ready, closed>>
program == <<sink, killed, user, early, delivered>>
vars == <<feed, copies, channel, outcome, program>>

Init ==
  /\ sink \in {"stream", "discard"}
  /\ received = <<>> /\ pump = "receive" /\ pipeEnd = FALSE /\ settled = "none"
  /\ copier = [s \in Streams |-> "read"] /\ inHand = [s \in Streams |-> 0]
  /\ chunks = <<>> /\ drain = FALSE
  /\ main = "settle" /\ result = "none" /\ ready = FALSE /\ closed = FALSE
  /\ killed = FALSE /\ early = FALSE /\ delivered = <<>>
  /\ user = IF sink = "stream" THEN "next" ELSE "wait"

-----------------------------------------------------------------------------
(* pumpResponses: keepalive frames change nothing and are left out.        *)

ReceiveOutput(s) ==
  /\ pump = "receive" /\ Len(received) < MaxFrames
  /\ received' = Append(received, s)
  /\ pump' = s
  /\ UNCHANGED <<pipeEnd, settled, copies, channel, outcome, program>>

\* an exit frame settles waitCh, a failed stream or a synthesized exit errCh;
\* the deferred calls close both pipes
ReceiveEnd(how) ==
  /\ pump = "receive"
  /\ settled' = how
  /\ pump' = "done" /\ pipeEnd' = TRUE
  /\ UNCHANGED <<received, copies, channel, outcome, program>>

-----------------------------------------------------------------------------
(* copyRunOutput, or the io.Copy of Command.Exec.                          *)

\* Variant: Command.Exec drains stdout only.
CopyReadStdout(s) ==
  /\ copier[s] = "read" /\ pump = s /\ s = "stdout"
  /\ inHand' = [inHand EXCEPT ![s] = Len(received)]
  /\ copier' = [copier EXCEPT ![s] = IF sink = "stream" THEN "check" ELSE "emit"]
  /\ pump' = "receive"
  /\ UNCHANGED <<received, pipeEnd, settled, channel, outcome, program>>

\* Read takes what the pump is writing, which lets the pump go on.
CopyRead(s) ==
  /\ copier[s] = "read" /\ pump = s
  /\ inHand' = [inHand EXCEPT ![s] = Len(received)]
  /\ copier' = [copier EXCEPT ![s] = IF sink = "stream" THEN "check" ELSE "emit"]
  /\ pump' = "receive"
  /\ UNCHANGED <<received, pipeEnd, settled, channel, outcome, program>>

CopyEOF(s) ==
  /\ copier[s] = "read" /\ pipeEnd
  /\ copier' = [copier EXCEPT ![s] = "done"]
  /\ UNCHANGED <<feed, inHand, channel, outcome, program>>

\* emit's first select: give up if drainCh is already closed
EmitCheck(s) ==
  /\ copier[s] = "check" /\ ~drain
  /\ copier' = [copier EXCEPT ![s] = "emit"]
  /\ UNCHANGED <<feed, inHand, channel, outcome, program>>

\* Variant: the channel takes one chunk more than its size.
EmitOver(s) ==
  /\ copier[s] = "emit" /\ Len(chunks) <= BufferSize
  /\ chunks' = Append(chunks, inHand[s])
  /\ inHand' = [inHand EXCEPT ![s] = 0]
  /\ copier' = [copier EXCEPT ![s] = "read"]
  /\ UNCHANGED <<feed, drain, outcome, program>>

\* Variant: a chunk that finds the channel full is dropped.
EmitDropping(s) ==
  /\ copier[s] = "emit"
  /\ chunks' = IF Len(chunks) < BufferSize THEN Append(chunks, inHand[s]) ELSE chunks
  /\ inHand' = [inHand EXCEPT ![s] = 0]
  /\ copier' = [copier EXCEPT ![s] = "read"]
  /\ UNCHANGED <<feed, drain, outcome, program>>

\* emit's second select hands the chunk over; the copy of Command.Exec drops it
Emit(s) ==
  /\ copier[s] = "emit"
  /\ \/ /\ sink = "stream" /\ Len(chunks) < BufferSize
        /\ chunks' = Append(chunks, inHand[s])
     \/ sink = "discard" /\ UNCHANGED chunks
  /\ inHand' = [inHand EXCEPT ![s] = 0]
  /\ copier' = [copier EXCEPT ![s] = "read"]
  /\ UNCHANGED <<feed, drain, outcome, program>>

\* emit sees drainCh: copyRunOutput returns and nobody reads the pipe any more
EmitDrained(s) ==
  /\ copier[s] \in {"check", "emit"} /\ drain
  /\ copier' = [copier EXCEPT ![s] = "done"]
  /\ inHand' = [inHand EXCEPT ![s] = 0]
  /\ UNCHANGED <<feed, channel, outcome, program>>

-----------------------------------------------------------------------------
(* receiveRunHandle.                                                       *)

\* RunHandle.Wait and settle
Settle ==
  /\ main = "settle" /\ settled # "none"
  /\ main' = "join"
  /\ UNCHANGED <<feed, copies, channel, result, ready, closed, program>>

\* Variant: the result is stored without waiting for the copies.
JoinEarly ==
  /\ main = "join"
  /\ result' = settled
  /\ main' = "publish"
  /\ UNCHANGED <<feed, copies, channel, ready, closed, program>>

\* wg.Wait, then the result or error is stored
Join ==
  /\ main = "join" /\ \A s \in Streams : copier[s] = "done"
  /\ result' = settled
  /\ main' = "publish"
  /\ UNCHANGED <<feed, copies, channel, ready, closed, program>>

\* deferred in this order: close(resultReady), close(chunks)
Publish ==
  /\ main = "publish"
  /\ \/ ~ready /\ ready' = TRUE /\ UNCHANGED <<closed, main>>
     \/ ready /\ closed' = TRUE /\ main' = "done" /\ UNCHANGED ready
  /\ UNCHANGED <<feed, copies, channel, result, program>>

-----------------------------------------------------------------------------
(* The program that holds the Stream.                                      *)

NextChunk ==
  /\ user = "next"
  /\ \/ /\ chunks # <<>>
        /\ delivered' = Append(delivered, Head(chunks))
        /\ chunks' = Tail(chunks)
        /\ UNCHANGED user
     \/ /\ chunks = <<>> /\ closed
        /\ user' = "eof"
        /\ UNCHANGED <<delivered, chunks>>
  /\ UNCHANGED <<feed, copies, drain, outcome, sink, killed, early>>

\* Stream.Wait: requestDrain, then block on resultReady
CallWait ==
  /\ user \in {"eof", "next"} /\ sink = "stream"
  /\ drain' = TRUE
  /\ early' = (user = "next")
  /\ user' = "wait"
  /\ UNCHANGED <<feed, copies, chunks, outcome, sink, killed, delivered>>

WaitReady ==
  /\ user = "wait" /\ ready
  /\ user' = "discard"
  /\ UNCHANGED <<feed, copies, channel, outcome, sink, killed, early, delivered>>

\* discardBufferedChunks, one chunk at a time; then Wait returns
Discard ==
  /\ user = "discard"
  /\ \/ chunks # <<>> /\ chunks' = Tail(chunks) /\ UNCHANGED user
     \/ chunks = <<>> /\ user' = "returned" /\ UNCHANGED chunks
  /\ UNCHANGED <<feed, copies, drain, outcome, sink, killed, early, delivered>>

\* Stream.Cancel sends SIGKILL to the remote process and nothing else; once the
\* stream has ended the send fails and the error is dropped
Cancel ==
  /\ sink = "stream" /\ ~killed /\ user = "next" /\ pump # "done"
  /\ killed' = TRUE
  /\ UNCHANGED <<feed, copies, channel, outcome, sink, user, early, delivered>>

Copy(s) == CopyRead(s) \/ CopyEOF(s) \/ EmitCheck(s) \/ Emit(s) \/ EmitDrained(s)
Pump == (\E s \in Streams : ReceiveOutput(s)) \/ (\E how \in {"exit", "error"} : ReceiveEnd(how))
Receive == Settle \/ Join \/ Publish
Consume == NextChunk \/ WaitReady \/ Discard \/ (user = "eof" /\ CallWait)
Over == user = "returned" /\ main = "done" /\ UNCHANGED vars

Next ==
  \/ Pump \/ Receive \/ Consume \/ CallWait \/ Cancel \/ Over
  \/ \E s \in Streams : Copy(s)

Spec == Init /\ [][Next]_vars

\* Every goroutine that can go on does; the node sends its frames and ends the
\* stream; the program keeps calling Next until its end and then Wait.
FairSpec ==
  /\ Spec
  /\ WF_vars(Pump) /\ WF_vars(Receive) /\ WF_vars(Consume)
  /\ \A s \in Streams : WF_vars(Copy(s))

-----------------------------------------------------------------------------
Frame == 1..MaxFrames

\* Every variable stays in its type.
TypeOK ==
  /\ sink \in {"stream", "discard"} /\ early \in BOOLEAN
  /\ received \in Seq(Streams) /\ Len(received) <= MaxFrames
  /\ pump \in Streams \cup {"receive", "done"} /\ pipeEnd \in BOOLEAN
  /\ settled \in {"none", "exit", "error"} /\ result \in {"none", "exit", "error"}
  /\ copier \in [Streams -> {"read", "check", "emit", "done"}]
  /\ inHand \in [Streams -> 0..MaxFrames]
  /\ chunks \in Seq(Frame) /\ Len(chunks) <= BufferSize /\ delivered \in Seq(Frame)
  /\ drain \in BOOLEAN /\ ready \in BOOLEAN /\ closed \in BOOLEAN /\ killed \in BOOLEAN
  /\ main \in {"settle", "join", "publish", "done"}
  /\ user \in {"next", "eof", "wait", "discard", "returned"}

Received == 1..Len(received)
In(n, frames) == \E i \in DOMAIN frames : frames[i] = n

\* the frames of each stream come in the order they were received in, each once
InOrder(frames) ==
  \A i, j \in DOMAIN frames :
    i < j /\ received[frames[i]] = received[frames[j]] => frames[i] < frames[j]

\* the frames that were read from the pipes: Next returned them or will
Output == delivered \o chunks

\* the frame n is with the copy of its stream, or with the pump
WithCopy(n) == inHand[received[n]] = n
WithPump(n) == pump = received[n] /\ n = Len(received)

\* As long as Wait has not asked to drain, nothing a pipe carried is lost,
\* duplicated or reordered within its stream, whichever copy is ahead: every
\* frame received is in exactly one place, among what Next returned and what is
\* buffered, or with its copy, or with the pump, and there it comes after the
\* frames of its stream that are further on.
NothingLost ==
  sink = "stream" /\ ~drain =>
    /\ \A i \in DOMAIN Output : Output[i] \in Received
    /\ InOrder(Output)
    /\ \A n \in Received :
         /\ In(n, Output) \/ WithCopy(n) \/ WithPump(n)
         /\ ~(WithCopy(n) /\ WithPump(n))
         /\ WithCopy(n) \/ WithPump(n) =>
              \A i \in DOMAIN Output : received[Output[i]] = received[n] => Output[i] < n
    /\ \A s \in Streams : inHand[s] # 0 => inHand[s] \in Received /\ received[inHand[s]] = s

\* When Next reports the end, every frame has been returned, in order: the result
\* is published, and the channel closed, only after both copies are over.
EndAfterOutput ==
  user = "eof" => InOrder(delivered) /\ \A n \in Received : In(n, delivered)

\* Chunks are never sent on the closed channel (a panic in Go) and the result
\* is in place before anyone is told it is ready.
ResultBeforeReady ==
  /\ ready => result # "none"
  /\ closed => \A s \in Streams : copier[s] = "done"

\* A program that reads to the end before it waits, and Command.Exec, always get
\* the result, whatever the command writes to its two streams.
OutcomeReached == <>(user = "returned" \/ early)

-----------------------------------------------------------------------------
(* What comments of the code promise and the code does not keep.           *)

\* stream.go:42: Wait "may drain and discard unread chunks so callers do not
\* need to fully consume Next to get the final result".
WaitReturns == user = "wait" ~> user = "returned"
=============================================================================
