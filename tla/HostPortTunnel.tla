---------------------------- MODULE HostPortTunnel ----------------------------
(***************************************************************************)
(* One host-port tunnel (sandbox/tunnel.go:42-282): forward receives the   *)
(* engine's frames and dials a host connection per sub-stream, a pump per  *)
(* connection sends what the host writes, and Close or the engine ends it. *)
(* A step is one locked section, one socket operation or one frame; a      *)
(* received frame is looked up in conns in the same step, since taking it  *)
(* from the stream concerns nobody else; a Ping is answered by a Pong and  *)
(* changes nothing, so both are left out.  The engine, the stream and the  *)
(* host service are external: Engine... and Host... are what they may do.  *)
(***************************************************************************)
EXTENDS Integers, Sequences

CONSTANTS
  Ids,        \* sub-streams; the engine never uses an identity twice
  Closers,    \* goroutines that call Close, each once
  Listeners,  \* callbacks given to OnTerminated
  Closing,    \* the listeners that may call Close themselves
  Forward,    \* the forward goroutine
  None,
  MaxDown,    \* data frames of the engine per sub-stream (bound)
  MaxUp,      \* chunks the host writes per connection (bound)
  Window      \* frames of the engine that may be on their way (bound)

Procs == Closers \cup {Forward}

ASSUME TunnelAssumption ==
  /\ {MaxDown, MaxUp} \subseteq Nat /\ Window \in Nat \ {0}
  /\ Closing \subseteq Listeners
  /\ Forward \notin Closers
  /\ None \notin Procs \cup Ids \cup {"done"} /\ "done" \notin Procs

VARIABLES
  down,       \* frames of the engine not yet received, oldest first
  substream,  \* the engine's view: "new", "open", "half" (sends no more), "closed"
  sent,       \* data frames the engine sent
  up,         \* what the engine gets of each sub-stream: chunks, "half", "close"
  stream,     \* "open", or "ended": the next Receive fails
  request,    \* "open", or "closed" by CloseRequest
  conns,      \* the sub-streams in forward's map
  conn,       \* their connections: "none", "open", "closed" (by forward)
  got,        \* what the host was sent
  fin,        \* CloseWrite was called
  written,    \* chunks the host wrote
  hostEnd,    \* the host's side: "open", "eof" (writes no more), "closed" or "reset"
  fwd, frame, \* where forward is, and the frame it handles
  pump, read, \* where each pump is, and the chunks it has read
  once,       \* Close's once: None, the goroutine inside, or "done"
  pc,         \* where each closer is
  termOnce,   \* finish's once
  term,       \* the reported reason
  ready,      \* terminations in the channel termCh
  onTerm, calling, called

engine == <<down, substream, sent, stream>>
sockets == <<conn, got, fin>>
host == <<written, hostEnd>>
ending == <<once, pc, termOnce, term, ready>>
listening == <<onTerm, calling, called>>
vars == <<engine, up, request, conns, sockets, host, fwd, frame, pump, read, ending, listening>>

Frame(kind, id, n) == [kind |-> kind, id |-> id, n |-> n]
NoFrame == Frame("none", None, 0)
Chunks(n) == [k \in 1..n |-> k]

\* t.send: under sendMu, so frames do not mix; a stream that is over loses it
Sendable == stream = "open" /\ request = "open"
SendUp(id, kind) ==
  up' = IF Sendable THEN [up EXCEPT ![id] = Append(@, <<kind, read[id]>>)] ELSE up

-----------------------------------------------------------------------------
(* The engine and the stream.                                              *)

EngineFrame(f) ==
  /\ stream = "open" /\ Len(down) < Window
  /\ ~\E i \in DOMAIN down : down[i].kind = "terminated"
  /\ down' = Append(down, f)
  /\ UNCHANGED <<stream, up, request, conns, sockets, host, fwd, frame, pump, read, ending, listening>>

EngineAccept(id) ==
  /\ substream[id] = "new"
  /\ EngineFrame(Frame("accept", id, 0))
  /\ substream' = [substream EXCEPT ![id] = "open"]
  /\ UNCHANGED sent

EngineData(id) ==
  /\ substream[id] = "open" /\ sent[id] < MaxDown
  /\ EngineFrame(Frame("data", id, sent[id] + 1))
  /\ sent' = [sent EXCEPT ![id] = @ + 1]
  /\ UNCHANGED substream

EngineHalfClose(id) ==
  /\ substream[id] = "open"
  /\ EngineFrame(Frame("half", id, 0))
  /\ substream' = [substream EXCEPT ![id] = "half"]
  /\ UNCHANGED sent

EngineClose(id) ==
  /\ substream[id] \in {"open", "half"}
  /\ EngineFrame(Frame("close", id, 0))
  /\ substream' = [substream EXCEPT ![id] = "closed"]
  /\ UNCHANGED sent

EngineTerminate ==
  /\ EngineFrame(Frame("terminated", None, 0))
  /\ UNCHANGED <<substream, sent>>

\* the connection breaks, or the engine answers CloseRequest
EngineEnd ==
  /\ stream = "open"
  /\ stream' = "ended"
  /\ UNCHANGED <<down, substream, sent, up, request, conns, sockets, host, fwd, frame, pump, read,
                 ending, listening>>

-----------------------------------------------------------------------------
(* The service on the host.                                                *)

HostWrite(id) ==
  /\ conn[id] = "open" /\ hostEnd[id] = "open" /\ written[id] < MaxUp
  /\ written' = [written EXCEPT ![id] = @ + 1]
  /\ UNCHANGED <<engine, up, request, conns, sockets, hostEnd, fwd, frame, pump, read, ending, listening>>

HostEnd(id, how) ==
  /\ conn[id] = "open" /\ hostEnd[id] \in {"open", "eof"} \ {how}
  /\ hostEnd' = [hostEnd EXCEPT ![id] = how]
  /\ UNCHANGED <<engine, up, request, conns, sockets, written, fwd, frame, pump, read, ending, listening>>

-----------------------------------------------------------------------------
(* forward.                                                                *)

\* Receive, and for a frame of a sub-stream the lookup in conns.
Receive ==
  /\ fwd = "receive" /\ down # <<>>
  /\ LET f == Head(down)
         known == f.id \in conns
     IN
     /\ fwd' = CASE f.kind = "accept" -> "accept"
                 [] f.kind = "terminated" -> "finish"
                 [] OTHER -> IF known THEN f.kind ELSE "receive"
     /\ frame' = IF fwd' = "receive" THEN NoFrame ELSE f
     /\ conns' = IF f.kind = "close" THEN conns \ {f.id} ELSE conns
  /\ down' = Tail(down)
  /\ UNCHANGED <<substream, sent, stream, up, request, sockets, host, pump, read, ending, listening>>

\* the stream failed; frames it still held may be lost
ReceiveFailed ==
  /\ fwd = "receive" /\ stream = "ended"
  /\ fwd' = "finish" /\ frame' = Frame("transport_error", None, 0)
  /\ UNCHANGED <<engine, up, request, conns, sockets, host, pump, read, ending, listening>>

Handled == fwd' = "receive" /\ frame' = NoFrame

\* net.Dial, and the pump of the new connection
Dial ==
  /\ fwd = "accept"
  /\ \/ /\ conn' = [conn EXCEPT ![frame.id] = "open"]
        /\ conns' = conns \cup {frame.id}
        /\ pump' = [pump EXCEPT ![frame.id] = "read"]
        /\ UNCHANGED up
     \/ SendUp(frame.id, "close") /\ UNCHANGED <<conn, conns, pump>>
  /\ Handled
  /\ UNCHANGED <<engine, request, got, fin, host, read, ending, listening>>

\* Variant: a write that would block is given up.
WriteGivingUp ==
  /\ fwd = "data"
  /\ \/ got' = [got EXCEPT ![frame.id] = Append(@, frame.n)]
     \/ UNCHANGED got
  /\ Handled
  /\ UNCHANGED <<engine, up, request, conns, conn, fin, host, pump, read, ending, listening>>

\* conn.Write, whose error is dropped
Write ==
  /\ fwd = "data"
  /\ \/ /\ hostEnd[frame.id] \in {"open", "eof"}
        /\ got' = [got EXCEPT ![frame.id] = Append(@, frame.n)]
     \/ hostEnd[frame.id] \in {"closed", "reset"} /\ UNCHANGED got
  /\ Handled
  /\ UNCHANGED <<engine, up, request, conns, conn, fin, host, pump, read, ending, listening>>

CloseWrite ==
  /\ fwd = "half"
  /\ fin' = [fin EXCEPT ![frame.id] = TRUE]
  /\ Handled
  /\ UNCHANGED <<engine, up, request, conns, conn, got, host, pump, read, ending, listening>>

CloseConn ==
  /\ fwd = "close"
  /\ conn' = [conn EXCEPT ![frame.id] = "closed"]
  /\ Handled
  /\ UNCHANGED <<engine, up, request, conns, got, fin, host, pump, read, ending, listening>>

\* Variant: forward returns without its deferred function.
CleanupNothing ==
  /\ fwd = "cleanup"
  /\ fwd' = "done"
  /\ UNCHANGED <<engine, up, request, conns, sockets, host, frame, pump, read, ending, listening>>

\* the deferred function: close whatever is in the map
Cleanup ==
  /\ fwd = "cleanup"
  /\ conn' = [id \in Ids |-> IF id \in conns THEN "closed" ELSE conn[id]]
  /\ conns' = {}
  /\ fwd' = "done"
  /\ UNCHANGED <<engine, up, request, got, fin, host, frame, pump, read, ending, listening>>

-----------------------------------------------------------------------------
(* pumpHostToSandbox.                                                      *)

PumpRead(id) ==
  /\ pump[id] = "read"
  /\ \/ /\ conn[id] = "open" /\ hostEnd[id] # "reset" /\ read[id] < written[id]
        /\ read' = [read EXCEPT ![id] = @ + 1]
        /\ pump' = [pump EXCEPT ![id] = "data"]
     \/ /\ conn[id] = "open" /\ hostEnd[id] \in {"eof", "closed"} /\ read[id] = written[id]
        /\ pump' = [pump EXCEPT ![id] = "half"]
        /\ UNCHANGED read
     \/ /\ conn[id] = "closed" \/ hostEnd[id] = "reset"
        /\ pump' = [pump EXCEPT ![id] = "close"]
        /\ UNCHANGED read
  /\ UNCHANGED <<engine, up, request, conns, sockets, host, fwd, frame, ending, listening>>

\* Variant: the pump goes on reading after the end of the host's data.
PumpSendOn(id) ==
  /\ pump[id] \in {"data", "half", "close"}
  /\ SendUp(id, pump[id])
  /\ pump' = [pump EXCEPT ![id] = IF pump[id] = "close" THEN "delete" ELSE "read"]
  /\ UNCHANGED <<engine, request, conns, sockets, host, fwd, frame, read, ending, listening>>

\* the chunk, or how the host's side ended
PumpSend(id) ==
  /\ pump[id] \in {"data", "half", "close"}
  /\ SendUp(id, pump[id])
  /\ pump' = [pump EXCEPT ![id] = IF pump[id] = "data" THEN "read" ELSE "delete"]
  /\ UNCHANGED <<engine, request, conns, sockets, host, fwd, frame, read, ending, listening>>

\* the connection leaves the map and is not closed
PumpEnd(id) ==
  /\ pump[id] = "delete"
  /\ conns' = conns \ {id}
  /\ pump' = [pump EXCEPT ![id] = "over"]
  /\ UNCHANGED <<engine, up, request, sockets, host, fwd, frame, read, ending, listening>>

-----------------------------------------------------------------------------
(* finish, for forward (fwd = "finish") and for a closer.                  *)

Finishing(p) == IF p = Forward THEN fwd = "finish" ELSE pc[p] = "finish"
Goto(p, label, after) ==
  IF p = Forward THEN fwd' = after /\ UNCHANGED pc ELSE pc' = [pc EXCEPT ![p] = label] /\ UNCHANGED fwd
Reason(p) == IF p = Forward THEN frame.kind ELSE "sdk_closed"

\* Variant: every finish sets the termination, as without termOnce.
FinishEnterAgain(p) ==
  /\ Finishing(p)
  /\ termOnce' = p
  /\ term' = Reason(p)
  /\ calling' = onTerm /\ onTerm' = {}
  /\ ready' = ready + 1
  /\ Goto(p, "call", "call")
  /\ UNCHANGED <<engine, up, request, conns, sockets, host, frame, pump, read, once, called>>

\* the first finish decides; it sets term and done, takes the listeners and
\* fills termCh
FinishEnter(p) ==
  /\ Finishing(p) /\ termOnce = None
  /\ termOnce' = p
  /\ term' = Reason(p)
  /\ calling' = onTerm /\ onTerm' = {}
  /\ ready' = ready + 1
  /\ Goto(p, "call", "call")
  /\ UNCHANGED <<engine, up, request, conns, sockets, host, frame, pump, read, once, called>>

\* A listener is called inside termOnce.  One that calls Close waits for ever:
\* for termOnce, or for once if this finish is Close's own.
FinishCall(p) ==
  /\ termOnce = p
  /\ IF p = Forward THEN fwd = "call" ELSE pc[p] = "call"
  /\ \E l \in calling :
       /\ called' = [called EXCEPT ![l] = @ + 1]
       /\ calling' = calling \ {l}
       /\ \/ UNCHANGED <<fwd, pc, once, request>>
          \/ /\ l \in Closing
             /\ Goto(p, "stuck", "stuck")
             /\ once' = IF once = None THEN p ELSE once
             /\ request' = IF once = None THEN "closed" ELSE request
  /\ UNCHANGED <<engine, up, conns, sockets, host, frame, pump, read, termOnce, term, ready, onTerm>>

FinishLeave(p) ==
  /\ \/ /\ termOnce = p /\ calling = {}
        /\ IF p = Forward THEN fwd = "call" ELSE pc[p] = "call"
        /\ termOnce' = "done"
     \/ Finishing(p) /\ termOnce = "done" /\ UNCHANGED termOnce
  /\ Goto(p, "done", "cleanup")
  /\ once' = IF once = p THEN "done" ELSE once
  /\ UNCHANGED <<engine, up, request, conns, sockets, host, frame, pump, read, term, ready, listening>>

\* Variant: Close leaves its half of the stream open.
CloseUnsent(p) ==
  /\ pc[p] = "idle"
  /\ \/ once = None /\ once' = p /\ pc' = [pc EXCEPT ![p] = "finish"]
     \/ once = "done" /\ pc' = [pc EXCEPT ![p] = "done"] /\ UNCHANGED once
  /\ UNCHANGED <<engine, up, request, conns, sockets, host, fwd, frame, pump, read, termOnce, term, ready, listening>>

\* Close: the first one says so to the engine, closes its half of the stream and
\* finishes; another waits for that.
Close(p) ==
  /\ pc[p] = "idle"
  /\ \/ once = None /\ once' = p /\ request' = "closed" /\ pc' = [pc EXCEPT ![p] = "finish"]
     \/ once = "done" /\ pc' = [pc EXCEPT ![p] = "done"] /\ UNCHANGED <<once, request>>
  /\ UNCHANGED <<engine, up, conns, sockets, host, fwd, frame, pump, read, termOnce, term, ready, listening>>

\* OnTerminated: waits for finish, or is called on a goroutine of its own
OnTerminated(l) ==
  /\ called[l] = 0 /\ l \notin onTerm \cup calling
  /\ \/ term = None /\ onTerm' = onTerm \cup {l} /\ UNCHANGED called
     \/ term # None /\ called' = [called EXCEPT ![l] = 1] /\ UNCHANGED onTerm
  /\ UNCHANGED <<engine, up, request, conns, sockets, host, fwd, frame, pump, read, ending, calling>>

-----------------------------------------------------------------------------
\* ExposeHostPort: the stream is open and forward is started.
Init ==
  /\ down = <<>> /\ substream = [id \in Ids |-> "new"] /\ sent = [id \in Ids |-> 0]
  /\ up = [id \in Ids |-> <<>>]
  /\ stream = "open" /\ request = "open"
  /\ conns = {} /\ conn = [id \in Ids |-> "none"]
  /\ got = [id \in Ids |-> <<>>] /\ fin = [id \in Ids |-> FALSE]
  /\ written = [id \in Ids |-> 0] /\ hostEnd = [id \in Ids |-> "open"]
  /\ fwd = "receive" /\ frame = NoFrame
  /\ pump = [id \in Ids |-> "off"] /\ read = [id \in Ids |-> 0]
  /\ once = None /\ pc = [p \in Closers |-> "idle"]
  /\ termOnce = None /\ term = None /\ ready = 0
  /\ onTerm = {} /\ calling = {} /\ called = [l \in Listeners |-> 0]

EngineStep ==
  \/ \E id \in Ids : EngineAccept(id) \/ EngineData(id) \/ EngineHalfClose(id) \/ EngineClose(id)
  \/ EngineTerminate \/ EngineEnd

HostStep ==
  \E id \in Ids : HostWrite(id) \/ \E how \in {"eof", "closed", "reset"} : HostEnd(id, how)

FinishStep(p) == FinishEnter(p) \/ FinishCall(p) \/ FinishLeave(p)
ForwardStep ==
  \/ Receive \/ ReceiveFailed \/ Dial \/ Write \/ CloseWrite \/ CloseConn \/ Cleanup
  \/ FinishStep(Forward)
PumpStep(id) == PumpRead(id) \/ PumpSend(id) \/ PumpEnd(id)
CloserStep(p) == Close(p) \/ FinishStep(p)

Next ==
  \/ EngineStep \/ HostStep \/ ForwardStep
  \/ \E id \in Ids : PumpStep(id)
  \/ \E p \in Closers : CloserStep(p)
  \/ \E l \in Listeners : OnTerminated(l)

Spec == Init /\ [][Next]_vars

\* Goroutines run, a host reads what it is sent (a Write does not block for
\* ever), and the engine ends a stream whose other half is closed.
FairSpec ==
  /\ Spec
  /\ WF_vars(ForwardStep)
  /\ \A id \in Ids : WF_vars(PumpStep(id))
  /\ \A p \in Closers : WF_vars(FinishStep(p))
  /\ WF_vars(request = "closed" /\ EngineEnd)

-----------------------------------------------------------------------------
\* What the host is sent of a sub-stream is what the sandbox sent, in order: nothing
\* is skipped, and the end of the data is announced only after all of it.  Nothing
\* is dropped either while the pump of the connection lives: what the host has not
\* got is in forward's hands or on its way.  After the pump of a host that stopped
\* writing has taken the connection out of the map (tunnel.go:269), forward drops
\* the rest, the half-close included, so that no more can be said from then on.
DownInOrder ==
  \A id \in Ids :
    /\ got[id] = Chunks(Len(got[id]))
    /\ fin[id] /\ hostEnd[id] \in {"open", "eof"} => Len(got[id]) = sent[id]
    /\ conn[id] = "open" /\ hostEnd[id] \in {"open", "eof"} /\ pump[id] # "over" =>
         \A n \in (Len(got[id]) + 1)..sent[id] :
           \/ fwd = "data" /\ frame.id = id /\ frame.n = n
           \/ \E i \in DOMAIN down : down[i].kind = "data" /\ down[i].id = id /\ down[i].n = n

\* What the sandbox gets of a connection is what the host wrote, in order and
\* without a gap, then at most one end, and nothing after it; the end of a host
\* that finished writing comes after all it wrote.
UpInOrder ==
  \A id \in Ids :
    \A i \in DOMAIN up[id] :
      \/ up[id][i] = <<"data", i>>
      \/ i = Len(up[id]) /\ up[id][i][1] = "close"
      \/ i = Len(up[id]) /\ up[id][i] = <<"half", i - 1>> /\ i - 1 = written[id] /\ hostEnd[id] # "open"

\* When forward has ended it leaves no connection open, whatever accepts, closes
\* and pumps raced it, but for those whose host ended its own side first.
ConnsReleased ==
  fwd = "done" => conns = {} /\ \A id \in Ids : conn[id] = "open" => hostEnd[id] # "open"

\* The termination is reported once, and the first reason stays.
FirstReason == [][term # None => UNCHANGED <<term, ready>>]_vars

\* A tunnel that was closed, or whose stream ended, comes to its end: forward
\* returns, its pumps with it, and every Close, unless a listener calls Close
\* from inside finish.
TunnelEnds ==
  (once # None \/ stream = "ended") ~>
    \/ fwd = "stuck" \/ \E p \in Closers : pc[p] = "stuck"
    \/ /\ fwd = "done"
       /\ \A id \in Ids : pump[id] \in {"off", "over"}
       /\ \A p \in Closers : pc[p] \in {"idle", "done"}
=============================================================================
