------------------------- MODULE HostPortTunnelProofs -------------------------
(***************************************************************************)
(* Proofs about HostPortTunnel for any number of sub-streams, closers and  *)
(* listeners and any length of the streams: the termination is reported    *)
(* once, forward leaves no live connection behind, and on every connection *)
(* each side gets in order what the other wrote while both are open.       *)
(***************************************************************************)
EXTENDS HostPortTunnel, TLAPS

Kinds == {"accept", "data", "half", "close", "terminated"}
Frames == [kind : Kinds, id : Ids \cup {None}, n : Nat]

TypeInv ==
  /\ down \in Seq(Frames)
  /\ \A i \in DOMAIN down : down[i].kind # "terminated" => down[i].id \in Ids
  /\ substream \in [Ids -> {"new", "open", "half", "closed"}]
  /\ sent \in [Ids -> Nat]
  /\ up \in [Ids -> Seq({"data", "half", "close"} \X Nat)]
  /\ conns \subseteq Ids
  /\ conn \in [Ids -> {"none", "open", "closed"}]
  /\ written \in [Ids -> Nat] /\ read \in [Ids -> Nat]
  /\ hostEnd \in [Ids -> {"open", "eof", "closed", "reset"}]
  /\ pump \in [Ids -> {"off", "read", "data", "half", "close", "delete", "over"}]
  /\ fwd \in {"accept", "data", "half", "close"} => frame.id \in Ids

\* Every open connection is in the map, or in the hands of forward that closes
\* it, or its host has ended its side; and forward's map stays empty at its end.
ConnInv ==
  /\ \A id \in Ids : conn[id] = "open" =>
       id \in conns \/ hostEnd[id] # "open" \/ (fwd = "close" /\ frame.id = id)
  /\ \A id \in Ids : pump[id] \in {"half", "close", "delete"} /\ conn[id] = "open" => hostEnd[id] # "open"
  /\ fwd = "done" => conns = {}

-----------------------------------------------------------------------------
(* One termination.                                                        *)

TermInv == term # None => termOnce # None

LEMMA TermStep == TermInv /\ [Next]_vars => TermInv' /\ (term # None => UNCHANGED <<term, ready>>)
<1> SUFFICES ASSUME TermInv, [Next]_vars PROVE TermInv' /\ (term # None => UNCHANGED <<term, ready>>)
  OBVIOUS
<1> USE DEF TermInv, engine, sockets, host, ending, listening
<1>1. ASSUME NEW p \in Procs, FinishStep(p) PROVE TermInv' /\ (term # None => UNCHANGED <<term, ready>>)
  <2>1. CASE FinishEnter(p)
    BY <2>1, TunnelAssumption DEF FinishEnter
  <2>2. CASE FinishCall(p)
    BY <2>2 DEF FinishCall
  <2>3. CASE FinishLeave(p)
    BY <2>3, TunnelAssumption DEF FinishLeave
  <2> QED
    BY <1>1, <2>1, <2>2, <2>3 DEF FinishStep
<1>2. CASE EngineStep
  BY <1>2 DEF EngineStep, EngineAccept, EngineData, EngineHalfClose, EngineClose, EngineTerminate, EngineEnd, EngineFrame
<1>3. CASE HostStep
  BY <1>3 DEF HostStep, HostWrite, HostEnd
<1>4. CASE ForwardStep
  BY <1>1, <1>4 DEF ForwardStep, Receive, ReceiveFailed, Dial, Write, CloseWrite, CloseConn, Cleanup, Procs
<1>5. ASSUME NEW id \in Ids, PumpStep(id) PROVE TermInv' /\ UNCHANGED <<term, ready>>
  BY <1>5 DEF PumpStep, PumpRead, PumpSend, PumpEnd
<1>6. ASSUME NEW p \in Closers, CloserStep(p) PROVE TermInv' /\ (term # None => UNCHANGED <<term, ready>>)
  BY <1>1, <1>6 DEF CloserStep, Close, Procs
<1>7. ASSUME NEW l \in Listeners, OnTerminated(l) PROVE TermInv' /\ UNCHANGED <<term, ready>>
  BY <1>7 DEF OnTerminated
<1>8. CASE UNCHANGED vars
  BY <1>8 DEF vars
<1> QED
  BY <1>1, <1>2, <1>3, <1>4, <1>5, <1>6, <1>7, <1>8 DEF Next

\* The termination of a tunnel is reported once and its first reason stays, for
\* any number of Closes that race the engine's own termination.
THEOREM FirstReasonCorrect == Spec => FirstReason
<1>1. Init => TermInv
  BY DEF Init, TermInv
<1>2. TermInv /\ [Next]_vars => TermInv'
  BY TermStep
<1>3. TermInv /\ [Next]_vars => [term # None => UNCHANGED <<term, ready>>]_vars
  BY TermStep
<1> QED
  BY <1>1, <1>2, <1>3, PTL DEF Spec, FirstReason

-----------------------------------------------------------------------------
(* Types.                                                                  *)

\* The engine's frames are well formed.
LEMMA FrameType == ASSUME TypeInv, NEW f \in Frames, f.kind # "terminated" => f.id \in Ids, EngineFrame(f)
                   PROVE  /\ down' \in Seq(Frames)
                          /\ \A i \in DOMAIN down' : down'[i].kind # "terminated" => down'[i].id \in Ids
                          /\ UNCHANGED <<up, conns, conn, written, read, hostEnd, pump, fwd, frame>>
  BY DEF TypeInv, EngineFrame, sockets, host

LEMMA EngineTypes == ASSUME TypeInv, EngineStep PROVE TypeInv'
<1>1. ASSUME NEW id \in Ids, EngineAccept(id) PROVE TypeInv'
  <2>1. Frame("accept", id, 0) \in Frames
    BY DEF TypeInv, Frames, Kinds, Frame
  <2> QED
    BY <1>1, <2>1, FrameType DEF EngineAccept, TypeInv, Frame
<1>2. ASSUME NEW id \in Ids, EngineData(id) PROVE TypeInv'
  <2>1. Frame("data", id, sent[id] + 1) \in Frames
    BY DEF TypeInv, Frames, Kinds, Frame
  <2> QED
    BY <1>2, <2>1, FrameType DEF EngineData, TypeInv, Frame
<1>3. ASSUME NEW id \in Ids, EngineHalfClose(id) PROVE TypeInv'
  <2>1. Frame("half", id, 0) \in Frames
    BY DEF TypeInv, Frames, Kinds, Frame
  <2> QED
    BY <1>3, <2>1, FrameType DEF EngineHalfClose, TypeInv, Frame
<1>4. ASSUME NEW id \in Ids, EngineClose(id) PROVE TypeInv'
  <2>1. Frame("close", id, 0) \in Frames
    BY DEF TypeInv, Frames, Kinds, Frame
  <2> QED
    BY <1>4, <2>1, FrameType DEF EngineClose, TypeInv, Frame
<1>5. CASE EngineTerminate
  <2>1. Frame("terminated", None, 0) \in Frames
    BY DEF TypeInv, Frames, Kinds, Frame
  <2> QED
    BY <1>5, <2>1, FrameType DEF EngineTerminate, TypeInv, Frame
<1>6. CASE EngineEnd
  BY <1>6 DEF EngineEnd, TypeInv, sockets, host
<1> QED
  BY <1>1, <1>2, <1>3, <1>4, <1>5, <1>6 DEF EngineStep

LEMMA SendUpType == ASSUME TypeInv, NEW id \in Ids, NEW kind \in {"data", "half", "close"}, SendUp(id, kind)
                    PROVE  up' \in [Ids -> Seq({"data", "half", "close"} \X Nat)]
<1>1. <<kind, read[id]>> \in {"data", "half", "close"} \X Nat
  BY DEF TypeInv
<1>2. Append(up[id], <<kind, read[id]>>) \in Seq({"data", "half", "close"} \X Nat)
  BY <1>1 DEF TypeInv
<1> QED
  BY <1>2 DEF SendUp, TypeInv

LEMMA ForwardTypes ==
  ASSUME TypeInv, Receive \/ ReceiveFailed \/ Dial \/ Write \/ CloseWrite \/ CloseConn \/ Cleanup
  PROVE  TypeInv'
<1> USE DEF TypeInv, engine, sockets, host, Handled
<1>1. CASE Receive
  <2>1. /\ Head(down) = down[1] /\ 1 \in DOMAIN down
        /\ Tail(down) \in Seq(Frames)
        /\ \A i \in DOMAIN Tail(down) : i + 1 \in DOMAIN down /\ Tail(down)[i] = down[i + 1]
    BY <1>1 DEF Receive
  <2>2. fwd' \in {"accept", "data", "half", "close"} => frame' = Head(down) /\ Head(down).kind # "terminated"
    BY <1>1 DEF Receive
  <2> QED
    BY <1>1, <2>1, <2>2 DEF Receive
<1>2. CASE ReceiveFailed
  BY <1>2 DEF ReceiveFailed
<1>3. CASE Dial
  <2>1. frame.id \in Ids
    BY <1>3 DEF Dial
  <2>2. up' \in [Ids -> Seq({"data", "half", "close"} \X Nat)]
    BY <1>3, <2>1, SendUpType DEF Dial
  <2> QED
    BY <1>3, <2>1, <2>2 DEF Dial
<1>4. CASE Write
  BY <1>4 DEF Write
<1>5. CASE CloseWrite
  BY <1>5 DEF CloseWrite
<1>6. CASE CloseConn
  BY <1>6 DEF CloseConn
<1>7. CASE Cleanup
  BY <1>7 DEF Cleanup
<1> QED
  BY <1>1, <1>2, <1>3, <1>4, <1>5, <1>6, <1>7

LEMMA PumpTypes == ASSUME TypeInv, NEW id \in Ids, PumpStep(id) PROVE TypeInv'
<1> USE DEF TypeInv, engine, sockets, host
<1>1. CASE PumpRead(id)
  <2>1. read[id] \in Nat /\ read[id] + 1 \in Nat
    OBVIOUS
  <2>2. read' = read \/ read' = [read EXCEPT ![id] = read[id] + 1]
    BY <1>1 DEF PumpRead
  <2>3. read' \in [Ids -> Nat]
    BY <2>1, <2>2
  <2> QED
    BY <1>1, <2>3 DEF PumpRead
<1>2. CASE PumpSend(id)
  <2>1. up' \in [Ids -> Seq({"data", "half", "close"} \X Nat)]
    BY <1>2, SendUpType DEF PumpSend
  <2> QED
    BY <1>2, <2>1 DEF PumpSend
<1>3. CASE PumpEnd(id)
  BY <1>3 DEF PumpEnd
<1> QED
  BY <1>1, <1>2, <1>3 DEF PumpStep

\* What finish, Close and OnTerminated leave alone: they end streams and move
\* forward past its loop, and that is all the other parts see of them.
Aside ==
  /\ UNCHANGED <<engine, up, conns, sockets, host, frame, pump, read>>
  /\ request' \in {request, "closed"}
  /\ fwd' = fwd \/ (fwd \in {"finish", "call"} /\ fwd' \in {"call", "stuck", "cleanup"})

LEMMA FinishAside == ASSUME NEW p \in Procs, FinishStep(p) PROVE Aside
<1> USE DEF Aside, Finishing, Goto
<1>1. CASE FinishEnter(p)
  BY <1>1 DEF FinishEnter
<1>2. CASE FinishCall(p)
  BY <1>2 DEF FinishCall
<1>3. CASE FinishLeave(p)
  BY <1>3 DEF FinishLeave
<1> QED
  BY <1>1, <1>2, <1>3 DEF FinishStep

LEMMA CloseAside == ASSUME NEW p \in Closers, Close(p) PROVE Aside
  BY DEF Close, Aside

LEMMA ListenAside == ASSUME NEW l \in Listeners, OnTerminated(l) PROVE Aside
  BY DEF OnTerminated, Aside

\* Every step is one of the following.
LEMMA Steps ==
  ASSUME [Next]_vars
  PROVE  \/ EngineStep \/ HostStep
         \/ Receive \/ ReceiveFailed \/ Dial \/ Write \/ CloseWrite \/ CloseConn \/ Cleanup
         \/ \E id \in Ids : PumpStep(id)
         \/ Aside
<1>1. UNCHANGED vars => Aside
  BY DEF vars, Aside
<1> QED
  BY <1>1, FinishAside, CloseAside, ListenAside DEF Next, ForwardStep, CloserStep, Procs

LEMMA TypeStep == TypeInv /\ [Next]_vars => TypeInv'
<1> SUFFICES ASSUME TypeInv, [Next]_vars PROVE TypeInv'
  OBVIOUS
<1>1. CASE HostStep
  <2>1. ASSUME NEW id \in Ids, HostWrite(id) PROVE TypeInv'
    <3>1. written[id] + 1 \in Nat
      BY DEF TypeInv
    <3>2. written' \in [Ids -> Nat]
      BY <2>1, <3>1 DEF HostWrite, TypeInv
    <3> QED
      BY <2>1, <3>2 DEF HostWrite, TypeInv, engine, sockets
  <2>2. ASSUME NEW id \in Ids, NEW how \in {"eof", "closed", "reset"}, HostEnd(id, how) PROVE TypeInv'
    BY <2>2 DEF HostEnd, TypeInv, engine, sockets
  <2> QED
    BY <1>1, <2>1, <2>2 DEF HostStep
<1>2. CASE Aside
  BY <1>2 DEF Aside, TypeInv, engine, sockets, host
<1> QED
  BY <1>1, <1>2, Steps, EngineTypes, ForwardTypes, PumpTypes

LEMMA TypeHolds == Spec => []TypeInv
<1>1. Init => TypeInv
  BY DEF Init, TypeInv, Frames
<1> QED
  BY <1>1, TypeStep, PTL DEF Spec

-----------------------------------------------------------------------------
(* Connections.                                                            *)

LEMMA ConnStep == TypeInv /\ ConnInv /\ [Next]_vars => ConnInv'
<1> SUFFICES ASSUME TypeInv, ConnInv, [Next]_vars PROVE ConnInv'
  OBVIOUS
<1> USE DEF ConnInv, engine, sockets, host, Handled
<1>1. CASE EngineStep
  BY <1>1 DEF EngineStep, EngineAccept, EngineData, EngineHalfClose, EngineClose, EngineTerminate,
              EngineEnd, EngineFrame
<1>2. CASE HostStep
  BY <1>2 DEF HostStep, HostWrite, HostEnd, TypeInv
<1>3. CASE Receive
  <2> DEFINE f == Head(down)
  <2>1. /\ conns' = IF f.kind = "close" THEN conns \ {f.id} ELSE conns
        /\ fwd' = CASE f.kind = "accept" -> "accept"
                    [] f.kind = "terminated" -> "finish"
                    [] OTHER -> IF f.id \in conns THEN f.kind ELSE "receive"
        /\ frame' = IF fwd' = "receive" THEN NoFrame ELSE f
        /\ fwd = "receive" /\ UNCHANGED <<conn, hostEnd, pump>>
    BY <1>3 DEF Receive
  <2>2. f.kind \in Kinds
    <3>1. down \in Seq(Frames) /\ down # <<>>
      BY <1>3 DEF Receive, TypeInv
    <3>2. f \in Frames
      BY <3>1
    <3> QED
      BY <3>2 DEF Frames
  <2> HIDE DEF f
  <2>3. f.kind = "close" /\ f.id \in conns => fwd' = "close" /\ frame' = f
    BY <2>1
  <2>4. fwd' # "done"
    BY <2>1, <2>2 DEF Kinds
  <2> QED
    BY <2>1, <2>3, <2>4
<1>4. CASE ReceiveFailed
  BY <1>4 DEF ReceiveFailed
<1>5. CASE Dial
  BY <1>5 DEF Dial, TypeInv
<1>6. CASE Write \/ CloseWrite
  BY <1>6 DEF Write, CloseWrite
<1>7. CASE CloseConn
  BY <1>7 DEF CloseConn, TypeInv
<1>8. CASE Cleanup
  BY <1>8 DEF Cleanup, TypeInv
<1>9. ASSUME NEW id \in Ids, PumpStep(id) PROVE ConnInv'
  <2>1. CASE PumpRead(id)
    BY <2>1 DEF PumpRead, TypeInv
  <2>2. CASE PumpSend(id)
    BY <2>2 DEF PumpSend, TypeInv
  <2>3. CASE PumpEnd(id)
    BY <2>3 DEF PumpEnd, TypeInv
  <2> QED
    BY <1>9, <2>1, <2>2, <2>3 DEF PumpStep
<1>10. CASE Aside
  BY <1>10 DEF Aside
<1> QED
  BY <1>1, <1>2, <1>3, <1>4, <1>5, <1>6, <1>7, <1>8, <1>9, <1>10, Steps

\* When forward has ended, no connection is open whose host is still there,
\* whatever accepts, closes and pumps raced its cleanup.
THEOREM ConnsCorrect == Spec => []ConnsReleased
<1>1. Init => ConnInv
  BY DEF Init, ConnInv
<1>2. ConnInv => ConnsReleased
  BY DEF ConnInv, ConnsReleased
<1> QED
  BY <1>1, <1>2, ConnStep, TypeHolds, PTL DEF Spec

-----------------------------------------------------------------------------
(* What the sandbox gets.                                                  *)

IsAccept(f, id) == f.kind = "accept" /\ f.id = id
Accepting(id) == fwd = "accept" /\ frame.id = id
Untouched(id) == pump[id] = "off" /\ up[id] = <<>> /\ read[id] = 0

\* A sub-stream is accepted once: before that nothing of it exists, and its
\* accept frame is in one place.
AcceptInv ==
  \A id \in Ids :
    /\ substream[id] = "new" => ~Accepting(id) /\ Untouched(id) /\ \A i \in DOMAIN down : ~IsAccept(down[i], id)
    /\ Accepting(id) => Untouched(id)
    /\ \A i \in DOMAIN down : IsAccept(down[i], id) =>
         /\ Untouched(id) /\ ~Accepting(id)
         /\ \A j \in DOMAIN down : IsAccept(down[j], id) => i = j

\* While the stream takes frames, what the pump has read and sent is what the
\* sandbox got; a pump at the end of the data has read all of it.
AllData(id, n) == Len(up[id]) = n /\ \A i \in 1..n : up[id][i] = <<"data", i>>
PumpInv ==
  \A id \in Ids :
    /\ Sendable /\ pump[id] \in {"read", "half", "close"} => AllData(id, read[id])
    /\ Sendable /\ pump[id] = "data" => read[id] > 0 /\ AllData(id, read[id] - 1)
    /\ pump[id] = "half" => read[id] = written[id] /\ hostEnd[id] # "open"

UpInv == AcceptInv /\ PumpInv /\ UpInOrder

\* The engine adds an accept frame only for a sub-stream that is new.
LEMMA EngineUp == ASSUME TypeInv, UpInv, EngineStep PROVE UpInv'
<1>1. ASSUME NEW f \in Frames, EngineFrame(f), UNCHANGED substream, f.kind # "accept" PROVE AcceptInv'
  <2>1. \A i \in DOMAIN down' : (i \in DOMAIN down /\ down'[i] = down[i]) \/ down'[i] = f
    BY <1>1 DEF EngineFrame, TypeInv
  <2>2. UNCHANGED <<fwd, frame, pump, up, read, substream>>
    BY <1>1 DEF EngineFrame
  <2> QED
    BY <1>1, <2>1, <2>2 DEF UpInv, AcceptInv, IsAccept, Accepting, Untouched
<1>2. ASSUME NEW f \in Frames, EngineFrame(f) PROVE PumpInv' /\ UpInOrder'
  BY <1>2 DEF EngineFrame, UpInv, PumpInv, UpInOrder, AllData, Sendable, host
<1>3. ASSUME NEW id \in Ids, EngineAccept(id) PROVE UpInv'
  <2>1. Frame("accept", id, 0) \in Frames
    BY DEF Frame, Frames, Kinds
  <2>2. AcceptInv'
    <3>1. /\ Len(down') = Len(down) + 1 /\ DOMAIN down' = 1..(Len(down) + 1) /\ DOMAIN down = 1..Len(down)
          /\ \A i \in DOMAIN down : down'[i] = down[i]
          /\ down'[Len(down) + 1] = Frame("accept", id, 0)
      BY <1>3 DEF EngineAccept, EngineFrame, TypeInv
    <3>2. UNCHANGED <<fwd, frame, pump, up, read>>
      BY <1>3 DEF EngineAccept, EngineFrame
    <3>3. substream[id] = "new" /\ substream' = [substream EXCEPT ![id] = "open"]
      BY <1>3 DEF EngineAccept
    <3>4. Len(down) \in Nat
      BY DEF TypeInv
    <3>5. \A i \in DOMAIN down : ~IsAccept(down[i], id)
      BY <3>3 DEF UpInv, AcceptInv
    <3>6. \A k \in Ids : k # id => ~IsAccept(down'[Len(down) + 1], k)
      BY <3>1 DEF IsAccept, Frame
    <3>7. ~Accepting(id) /\ Untouched(id)
      BY <3>3 DEF UpInv, AcceptInv
    <3>8. \A k \in Ids : Accepting(k)' = Accepting(k) /\ Untouched(k)' = Untouched(k)
      BY <3>2 DEF Accepting, Untouched
    <3>9. \A i \in DOMAIN down' : i \in DOMAIN down \/ i = Len(down) + 1
      BY <3>1, <3>4
    <3>10. \A k \in Ids : k # id => substream'[k] = substream[k]
      BY <3>3 DEF TypeInv
    <3>11. substream'[id] = "open"
      BY <3>3 DEF TypeInv
    <3>12. ASSUME NEW k \in Ids, NEW i \in DOMAIN down', IsAccept(down'[i], k)
           PROVE  IF k = id THEN i = Len(down) + 1 ELSE i \in DOMAIN down /\ IsAccept(down[i], k)
      BY <3>1, <3>5, <3>6, <3>9, <3>12
    <3> HIDE DEF IsAccept, Accepting, Untouched
    <3>13. ASSUME NEW k \in Ids, k # id
           PROVE  /\ substream'[k] = "new" =>
                       ~Accepting(k)' /\ Untouched(k)' /\ \A i \in DOMAIN down' : ~IsAccept(down'[i], k)
                  /\ Accepting(k)' => Untouched(k)'
                  /\ \A i \in DOMAIN down' : IsAccept(down'[i], k) =>
                       /\ Untouched(k)' /\ ~Accepting(k)'
                       /\ \A j \in DOMAIN down' : IsAccept(down'[j], k) => i = j
      BY <3>8, <3>10, <3>12, <3>13 DEF UpInv, AcceptInv
    <3>14. /\ substream'[id] # "new" /\ ~Accepting(id)' /\ Untouched(id)'
           /\ \A i \in DOMAIN down' : IsAccept(down'[i], id) => i = Len(down) + 1
      BY <3>7, <3>8, <3>11, <3>12
    <3> QED
      BY <3>13, <3>14 DEF AcceptInv, IsAccept, Accepting, Untouched
  <2> QED
    BY <1>2, <1>3, <2>1, <2>2 DEF UpInv, EngineAccept
<1>4. ASSUME NEW id \in Ids, EngineData(id) PROVE UpInv'
  <2>1. Frame("data", id, sent[id] + 1) \in Frames
    BY DEF Frame, Frames, Kinds, TypeInv
  <2> QED
    BY <1>1, <1>2, <1>4, <2>1 DEF UpInv, EngineData, Frame
<1>5. ASSUME NEW id \in Ids, NEW next \in {"half", "closed"}, NEW f \in Frames, EngineFrame(f),
             f.kind # "accept", substream[id] # "new", substream' = [substream EXCEPT ![id] = next]
      PROVE  UpInv'
  <2>1. \A i \in DOMAIN down' : (i \in DOMAIN down /\ down'[i] = down[i]) \/ down'[i] = f
    BY <1>5 DEF EngineFrame, TypeInv
  <2>2. UNCHANGED <<fwd, frame, pump, up, read>>
    BY <1>5 DEF EngineFrame
  <2>3. \A i \in Ids : substream'[i] = "new" => substream[i] = "new"
    BY <1>5 DEF TypeInv
  <2> QED
    BY <1>2, <1>5, <2>1, <2>2, <2>3 DEF UpInv, AcceptInv, IsAccept, Accepting, Untouched
<1>6. ASSUME NEW id \in Ids, EngineHalfClose(id) PROVE UpInv'
  <2>1. Frame("half", id, 0) \in Frames
    BY DEF Frame, Frames, Kinds
  <2> QED
    BY <1>5, <1>6, <2>1 DEF EngineHalfClose, Frame
<1>7. ASSUME NEW id \in Ids, EngineClose(id) PROVE UpInv'
  <2>1. Frame("close", id, 0) \in Frames
    BY DEF Frame, Frames, Kinds
  <2> QED
    BY <1>5, <1>7, <2>1 DEF EngineClose, Frame
<1>8. CASE EngineTerminate
  <2>1. Frame("terminated", None, 0) \in Frames
    BY DEF Frame, Frames, Kinds
  <2> QED
    BY <1>1, <1>2, <1>8, <2>1 DEF UpInv, EngineTerminate, Frame
<1>9. CASE EngineEnd
  BY <1>9 DEF EngineEnd, UpInv, AcceptInv, IsAccept, Accepting, Untouched, PumpInv, UpInOrder,
              AllData, Sendable, host
<1> QED
  BY <1>3, <1>4, <1>6, <1>7, <1>8, <1>9 DEF EngineStep

LEMMA HostUp == ASSUME TypeInv, UpInv, HostStep PROVE UpInv'
<1> USE DEF UpInv, AcceptInv, IsAccept, Accepting, Untouched, PumpInv, UpInOrder, AllData, Sendable,
            engine, TypeInv
<1>1. ASSUME NEW id \in Ids, HostWrite(id) PROVE UpInv'
  <2>1. /\ hostEnd[id] = "open" /\ UNCHANGED <<up, pump, read, hostEnd, stream, request, substream, down, fwd, frame>>
        /\ \A i \in Ids : i # id => written'[i] = written[i]
    BY <1>1 DEF HostWrite
  <2>2. AcceptInv'
    BY <2>1
  <2>3. PumpInv'
    BY <2>1
  <2>4. UpInOrder'
    BY <2>1
  <2> QED
    BY <2>2, <2>3, <2>4
<1>2. ASSUME NEW id \in Ids, NEW how \in {"eof", "closed", "reset"}, HostEnd(id, how) PROVE UpInv'
  <2>1. /\ UNCHANGED <<up, pump, read, written, stream, request, substream, down, fwd, frame>>
        /\ \A i \in Ids : hostEnd[i] # "open" => hostEnd'[i] # "open"
    BY <1>2 DEF HostEnd
  <2>2. AcceptInv'
    BY <2>1
  <2>3. PumpInv' /\ UpInOrder'
    BY <2>1
  <2> QED
    BY <2>2, <2>3
<1> QED
  BY <1>1, <1>2 DEF HostStep

\* A frame that is taken out leaves the others in their order.
LEMMA Behind ==
  ASSUME TypeInv, down # <<>>, down' = Tail(down)
  PROVE  /\ 1 \in DOMAIN down /\ Head(down) = down[1]
         /\ \A i \in DOMAIN down' : i + 1 \in DOMAIN down /\ i \in Nat /\ i >= 1 /\ down'[i] = down[i + 1]
  BY DEF TypeInv

LEMMA ReceiveUp == ASSUME TypeInv, UpInv, Receive PROVE UpInv'
<1> DEFINE f == Head(down)
<1>1. /\ UNCHANGED <<substream, stream, request, written, hostEnd, pump, read, up>>
      /\ fwd = "receive" /\ down # <<>> /\ down' = Tail(down)
      /\ fwd' = "accept" => f.kind = "accept" /\ frame' = f
  <2>1. down \in Seq(Frames) /\ down # <<>>
    BY DEF Receive, TypeInv
  <2>2. f \in Frames
    BY <2>1
  <2>3. f.kind \in Kinds
    BY <2>2 DEF Frames
  <2> HIDE DEF f
  <2>4. fwd' = CASE f.kind = "accept" -> "accept"
                 [] f.kind = "terminated" -> "finish"
                 [] OTHER -> IF f.id \in conns THEN f.kind ELSE "receive"
    BY DEF Receive, f
  <2>5. frame' = IF fwd' = "receive" THEN NoFrame ELSE f
    BY DEF Receive, f
  <2> QED
    BY <2>3, <2>4, <2>5 DEF Receive, Kinds, host
<1>2. /\ 1 \in DOMAIN down /\ f = down[1]
      /\ \A i \in DOMAIN down' : i + 1 \in DOMAIN down /\ i \in Nat /\ i >= 1 /\ down'[i] = down[i + 1]
  BY <1>1, Behind
<1> HIDE DEF f
<1>3. \A k \in Ids : Untouched(k)' = Untouched(k)
  BY <1>1 DEF Untouched
<1>4. \A k \in Ids : ~Accepting(k)
  BY <1>1 DEF Accepting
<1>5. \A k \in Ids : Accepting(k)' => IsAccept(down[1], k)
  BY <1>1, <1>2 DEF Accepting, IsAccept
<1>6. AcceptInv'
  <2>1. ASSUME NEW k \in Ids, substream[k] = "new"
        PROVE  ~Accepting(k)' /\ Untouched(k)' /\ \A i \in DOMAIN down' : ~IsAccept(down'[i], k)
    BY <1>2, <1>3, <1>5, <2>1 DEF UpInv, AcceptInv
  <2>2. ASSUME NEW k \in Ids, Accepting(k)' PROVE Untouched(k)'
    BY <1>2, <1>3, <1>5, <2>2 DEF UpInv, AcceptInv
  <2>3. ASSUME NEW k \in Ids, NEW i \in DOMAIN down', IsAccept(down'[i], k)
        PROVE  Untouched(k)' /\ ~Accepting(k)'
    <3>1. i + 1 \in DOMAIN down /\ IsAccept(down[i + 1], k) /\ i + 1 # 1
      BY <1>2, <2>3
    <3>2. ~IsAccept(down[1], k) /\ Untouched(k)
      BY <1>2, <3>1 DEF UpInv, AcceptInv
    <3> QED
      BY <1>3, <1>5, <3>2
  <2>4. ASSUME NEW k \in Ids, NEW i \in DOMAIN down', NEW j \in DOMAIN down',
               IsAccept(down'[i], k), IsAccept(down'[j], k)
        PROVE  i = j
    <3>1. i + 1 = j + 1
      BY <1>2, <2>4 DEF UpInv, AcceptInv
    <3> QED
      BY <1>2, <3>1
  <2> QED
    BY <1>1, <2>1, <2>2, <2>3, <2>4 DEF AcceptInv, IsAccept, Accepting, Untouched
<1>7. PumpInv' /\ UpInOrder'
  BY <1>1 DEF UpInv, PumpInv, UpInOrder, AllData, Sendable
<1> QED
  BY <1>6, <1>7 DEF UpInv

\* A step that leaves the sub-streams alone.
LEMMA SameUp ==
  ASSUME UpInv, UNCHANGED <<down, substream, written, hostEnd, up, pump, read>>, Sendable' => Sendable,
         \A id \in Ids : Accepting(id)' => Accepting(id)
  PROVE  UpInv'
<1>1. \A k \in Ids : Untouched(k)' = Untouched(k)
  BY DEF Untouched
<1>2. AcceptInv'
  BY <1>1 DEF UpInv, AcceptInv, IsAccept
<1>3. PumpInv' /\ UpInOrder'
  BY DEF UpInv, PumpInv, UpInOrder, AllData
<1> QED
  BY <1>2, <1>3 DEF UpInv

LEMMA ForwardUp ==
  ASSUME UpInv, ReceiveFailed \/ Write \/ CloseWrite \/ CloseConn \/ Cleanup \/ Aside
  PROVE  UpInv'
<1> USE DEF engine, host, sockets, Sendable, Accepting
<1>1. CASE ReceiveFailed \/ Write \/ CloseWrite \/ CloseConn \/ Cleanup
  <2>1. UNCHANGED <<down, substream, written, hostEnd, up, pump, read, stream, request>> /\ fwd' # "accept"
    BY <1>1 DEF ReceiveFailed, Write, CloseWrite, CloseConn, Cleanup, Handled
  <2> QED
    BY <2>1, SameUp
<1>2. CASE Aside
  <2>1. /\ UNCHANGED <<down, substream, written, hostEnd, up, pump, read, stream, frame>>
        /\ request' = "open" => request = "open"
        /\ fwd' = "accept" => fwd = "accept"
    BY <1>2 DEF Aside
  <2> QED
    BY <2>1, SameUp
<1> QED
  BY <1>1, <1>2

\* A step of one sub-stream that was accepted before, and of no accept frame.
LEMMA AcceptedOnce ==
  ASSUME UpInv, NEW id \in Ids, UNCHANGED <<down, substream>>,
         substream[id] # "new", ~Accepting(id)', \A i \in DOMAIN down : ~IsAccept(down[i], id),
         \A k \in Ids \ {id} : /\ Accepting(k)' => Accepting(k)
                              /\ Untouched(k)' = Untouched(k)
  PROVE  AcceptInv'
<1> USE DEF UpInv
<1>1. /\ substream'[id] # "new" /\ ~Accepting(id)'
      /\ \A i \in DOMAIN down' : ~IsAccept(down'[i], id)
  OBVIOUS
<1>2. ASSUME NEW k \in Ids, k # id
      PROVE  /\ substream'[k] = "new" =>
                  ~Accepting(k)' /\ Untouched(k)' /\ \A i \in DOMAIN down' : ~IsAccept(down'[i], k)
             /\ Accepting(k)' => Untouched(k)'
             /\ \A i \in DOMAIN down' : IsAccept(down'[i], k) =>
                  /\ Untouched(k)' /\ ~Accepting(k)'
                  /\ \A j \in DOMAIN down' : IsAccept(down'[j], k) => i = j
  BY <1>2 DEF AcceptInv
<1> QED
  BY <1>1, <1>2 DEF AcceptInv, IsAccept, Accepting, Untouched

LEMMA DialUp == ASSUME TypeInv, UpInv, Dial PROVE UpInv'
<1>0. PICK id \in Ids : id = frame.id
  BY DEF Dial, TypeInv
<1>1. fwd = "accept" /\ fwd' = "receive"
      /\ UNCHANGED <<down, substream, stream, request, written, hostEnd, read>>
  BY DEF Dial, Handled, engine, host
<1>2. Accepting(id)
  BY <1>0, <1>1 DEF Accepting
<1>3. \/ up' = up /\ pump' = [pump EXCEPT ![id] = "read"]
      \/ up' = up /\ pump' = pump
      \/ up' = [up EXCEPT ![id] = Append(@, <<"close", read[id]>>)] /\ pump' = pump
  BY <1>0 DEF Dial, SendUp
<1>4. Untouched(id) /\ substream[id] # "new" /\ \A i \in DOMAIN down : ~IsAccept(down[i], id)
  BY <1>1, <1>2 DEF UpInv, AcceptInv
<1>5. \A k \in Ids \ {id} : pump'[k] = pump[k] /\ up'[k] = up[k]
  BY <1>1, <1>3 DEF TypeInv
<1>6. AcceptInv'
  <2>1. \A k \in Ids : ~Accepting(k)'
    BY <1>1 DEF Accepting
  <2>2. \A k \in Ids \ {id} : Untouched(k)' = Untouched(k)
    BY <1>1, <1>5 DEF Untouched
  <2> QED
    BY <1>1, <1>4, <2>1, <2>2, AcceptedOnce
<1>7. /\ pump[id] = "off" /\ up[id] = <<>> /\ read[id] = 0
      /\ pump'[id] \in {"off", "read"}
      /\ pump'[id] = "read" => up'[id] = <<>>
      /\ up'[id] = <<>> \/ up'[id] = << <<"close", 0>> >>
  BY <1>1, <1>3, <1>4 DEF Untouched, TypeInv
<1>8. PumpInv'
  <2>1. ASSUME NEW k \in Ids, k # id
        PROVE  /\ Sendable' /\ pump'[k] \in {"read", "half", "close"} => AllData(k, read[k])'
               /\ Sendable' /\ pump'[k] = "data" => read'[k] > 0 /\ AllData(k, read[k] - 1)'
               /\ pump'[k] = "half" => read'[k] = written'[k] /\ hostEnd'[k] # "open"
    BY <1>1, <1>5, <2>1 DEF UpInv, PumpInv, AllData, Sendable
  <2>2. pump'[id] = "read" => AllData(id, read[id])'
    BY <1>1, <1>7 DEF AllData
  <2> QED
    BY <1>7, <2>1, <2>2 DEF PumpInv
<1>9. UpInOrder'
  <2>1. \A i \in DOMAIN up'[id] : i = Len(up'[id]) /\ up'[id][i][1] = "close"
    <3>1. CASE up'[id] = <<>>
      BY <3>1
    <3>2. CASE up'[id] = << <<"close", 0>> >>
      BY <3>2
    <3> QED
      BY <1>7, <3>1, <3>2
  <2> QED
    BY <1>1, <1>5, <2>1 DEF UpInv, UpInOrder
<1> QED
  BY <1>6, <1>8, <1>9 DEF UpInv

\* What holds of a sub-stream whose pump runs.
LEMMA PumpAccepted ==
  ASSUME TypeInv, UpInv, NEW id \in Ids, pump[id] # "off", UNCHANGED <<down, substream, fwd, frame>>,
         \A k \in Ids \ {id} : pump'[k] = pump[k] /\ up'[k] = up[k] /\ read'[k] = read[k]
  PROVE  AcceptInv'
<1>1. substream[id] # "new" /\ ~Accepting(id) /\ \A i \in DOMAIN down : ~IsAccept(down[i], id)
  BY DEF UpInv, AcceptInv, Untouched
<1>2. \A k \in Ids : Accepting(k)' = Accepting(k)
  BY DEF Accepting
<1>3. \A k \in Ids \ {id} : Untouched(k)' = Untouched(k)
  BY DEF Untouched
<1> QED
  BY <1>1, <1>2, <1>3, AcceptedOnce

LEMMA PumpUp == ASSUME TypeInv, UpInv, NEW id \in Ids, PumpStep(id) PROVE UpInv'
<1> USE DEF engine, host
<1>1. /\ UNCHANGED <<down, substream, stream, request, written, hostEnd, fwd, frame>> /\ pump[id] # "off"
      /\ \A k \in Ids \ {id} : pump'[k] = pump[k] /\ up'[k] = up[k] /\ read'[k] = read[k]
  <2>1. CASE PumpRead(id)
    BY <2>1 DEF PumpRead, TypeInv
  <2>2. CASE PumpSend(id)
    BY <2>2 DEF PumpSend, SendUp, TypeInv
  <2>3. CASE PumpEnd(id)
    BY <2>3 DEF PumpEnd, TypeInv
  <2> QED
    BY <2>1, <2>2, <2>3 DEF PumpStep
<1>2. AcceptInv'
  BY <1>1, PumpAccepted
<1>3. ASSUME NEW k \in Ids, k # id
      PROVE  /\ Sendable' /\ pump'[k] \in {"read", "half", "close"} => AllData(k, read[k])'
             /\ Sendable' /\ pump'[k] = "data" => read'[k] > 0 /\ AllData(k, read[k] - 1)'
             /\ pump'[k] = "half" => read'[k] = written'[k] /\ hostEnd'[k] # "open"
  BY <1>1, <1>3 DEF UpInv, PumpInv, AllData, Sendable
<1> DEFINE Good == /\ Sendable' /\ pump'[id] \in {"read", "half", "close"} => AllData(id, read[id])'
                   /\ Sendable' /\ pump'[id] = "data" => read'[id] > 0 /\ AllData(id, read[id] - 1)'
                   /\ pump'[id] = "half" => read'[id] = written'[id] /\ hostEnd'[id] # "open"
           Tidy == \A i \in DOMAIN up'[id] :
                     \/ up'[id][i] = <<"data", i>>
                     \/ i = Len(up'[id]) /\ up'[id][i][1] = "close"
                     \/ i = Len(up'[id]) /\ up'[id][i] = <<"half", i - 1>> /\ i - 1 = written[id]
                        /\ hostEnd[id] # "open"
<1>4. Good /\ Tidy
  <2>1. CASE PumpRead(id)
    <3>1. up' = up /\ pump[id] = "read" /\ read[id] \in Nat
          /\ \/ pump'[id] = "data" /\ read'[id] = read[id] + 1
             \/ pump'[id] = "half" /\ read'[id] = read[id] /\ read[id] = written[id] /\ hostEnd[id] # "open"
             \/ pump'[id] = "close" /\ read'[id] = read[id]
      BY <2>1 DEF PumpRead, TypeInv
    <3>2. Sendable => AllData(id, read[id])
      BY <3>1 DEF UpInv, PumpInv
    <3>3. Sendable' = Sendable
      BY <1>1 DEF Sendable
    <3>4. Good
      BY <1>1, <3>1, <3>2, <3>3 DEF AllData
    <3>5. Tidy
      BY <1>1, <3>1 DEF UpInv, UpInOrder
    <3> QED
      BY <3>4, <3>5
  <2>2. CASE PumpSend(id)
    <3>1. /\ read' = read /\ read[id] \in Nat /\ pump[id] \in {"data", "half", "close"}
          /\ pump'[id] = IF pump[id] = "data" THEN "read" ELSE "delete"
          /\ up'[id] = IF Sendable THEN Append(up[id], <<pump[id], read[id]>>) ELSE up[id]
      BY <2>2 DEF PumpSend, SendUp, TypeInv
    <3>2. CASE ~Sendable
      <4>1. ~Sendable' /\ up'[id] = up[id]
        BY <1>1, <3>1, <3>2 DEF Sendable
      <4>2. Good
        BY <3>1, <4>1
      <4>3. Tidy
        BY <1>1, <4>1 DEF UpInv, UpInOrder
      <4> QED
        BY <4>2, <4>3
    <3>3. CASE Sendable
      <4> DEFINE n == Len(up[id])
      <4>1. /\ n \in Nat /\ Len(up'[id]) = n + 1 /\ DOMAIN up'[id] = 1..(n + 1)
            /\ \A i \in 1..n : up'[id][i] = up[id][i]
            /\ up'[id][n + 1] = <<pump[id], read[id]>>
        BY <3>1, <3>3 DEF TypeInv
      <4>2. /\ n = IF pump[id] = "data" THEN read[id] - 1 ELSE read[id]
            /\ \A i \in 1..n : up[id][i] = <<"data", i>>
        BY <3>1, <3>3 DEF UpInv, PumpInv, AllData
      <4> HIDE DEF n
      <4>3. pump[id] = "half" => read[id] = written[id] /\ hostEnd[id] # "open"
        BY DEF UpInv, PumpInv
      <4>4. Good
        <5>1. pump[id] = "data" => n + 1 = read[id] /\ up'[id][n + 1] = <<"data", n + 1>>
          BY <3>1, <4>1, <4>2
        <5>2. pump[id] = "data" => AllData(id, read[id])'
          BY <3>1, <4>1, <4>2, <5>1 DEF AllData
        <5> QED
          BY <3>1, <5>2
      <4>5. Tidy
        <5>1. \A i \in 1..n : up'[id][i] = <<"data", i>>
          BY <4>1, <4>2
        <5>2. \/ up'[id][n + 1] = <<"data", n + 1>>
              \/ up'[id][n + 1][1] = "close"
              \/ up'[id][n + 1] = <<"half", (n + 1) - 1>> /\ (n + 1) - 1 = written[id] /\ hostEnd[id] # "open"
          BY <3>1, <4>1, <4>2, <4>3
        <5> QED
          BY <4>1, <5>1, <5>2
      <4> QED
        BY <4>4, <4>5
    <3> QED
      BY <3>2, <3>3
  <2>3. CASE PumpEnd(id)
    <3>1. up' = up /\ pump'[id] = "over"
      BY <2>3 DEF PumpEnd, TypeInv
    <3>2. Good
      BY <3>1
    <3>3. Tidy
      BY <1>1, <3>1 DEF UpInv, UpInOrder
    <3> QED
      BY <3>2, <3>3
  <2> QED
    BY <2>1, <2>2, <2>3 DEF PumpStep
<1>5. PumpInv'
  BY <1>3, <1>4 DEF PumpInv
<1>6. UpInOrder'
  BY <1>1, <1>4 DEF UpInv, UpInOrder
<1> QED
  BY <1>2, <1>5, <1>6 DEF UpInv

\* What the sandbox gets of a connection is what the host wrote, in order and
\* without a gap, then at most one end; that of a host which finished writing
\* comes after all it wrote, for any number of sub-streams and any length.
THEOREM UpCorrect == Spec => []UpInOrder
<1>1. Init => UpInv
  BY DEF Init, UpInv, AcceptInv, Accepting, Untouched, PumpInv, UpInOrder, NoFrame, Frame
<1>2. TypeInv /\ UpInv /\ [Next]_vars => UpInv'
  BY Steps, EngineUp, HostUp, ReceiveUp, ForwardUp, DialUp, PumpUp
<1>3. UpInv => UpInOrder
  BY DEF UpInv
<1> QED
  BY <1>1, <1>2, <1>3, TypeHolds, PTL DEF Spec
-----------------------------------------------------------------------------
(* What the host gets.                                                     *)

Carries(i, kind, id) == down[i].kind = kind /\ down[i].id = id
Busy(kind, id) == fwd = kind /\ frame.id = id
Live(id) == hostEnd[id] \in {"open", "eof"}

\* The frames of a sub-stream are written, not dropped: it is in the map, about
\* to be, or taken out of it to be closed.
Routed(id) ==
  \/ id \in conns \/ Busy("accept", id) \/ Busy("close", id)
  \/ \E i \in DOMAIN down : Carries(i, "accept", id)

\* The data frames that were taken from the stream.
Taken(id) == IF Busy("data", id) THEN Len(got[id]) + 1 ELSE Len(got[id])

\* The frames of a sub-stream are on their way in the order accept, data by
\* number, half.
Queue(id) ==
  \A i \in DOMAIN down :
    /\ Carries(i, "data", id) =>
         /\ down[i].n <= sent[id]
         /\ \A j \in DOMAIN down : Carries(j, "data", id) /\ i < j => down[i].n < down[j].n
    /\ Carries(i, "accept", id) =>
         \A j \in DOMAIN down : Carries(j, "data", id) \/ Carries(j, "half", id) => i < j
    /\ Carries(i, "half", id) =>
         /\ substream[id] \notin {"new", "open"}
         /\ \A j \in DOMAIN down : Carries(j, "data", id) => j < i

Fresh(id) ==
  substream[id] = "new" =>
    /\ sent[id] = 0 /\ got[id] = <<>> /\ ~fin[id] /\ ~Busy("data", id) /\ ~Busy("half", id)
    /\ \A i \in DOMAIN down : down[i].id # id

\* The frames after the last one taken are exactly those on their way.
Pending(id) ==
  /\ \A i \in DOMAIN down : Carries(i, "data", id) => down[i].n > Taken(id)
  /\ \A m \in Nat : Taken(id) < m /\ m <= sent[id] =>
       \E i \in DOMAIN down : Carries(i, "data", id) /\ down[i].n = m

\* As long as the host takes what it is sent, nothing is missing between what
\* it got and what is on its way, and nothing is left after a half-close.
Flow(id) ==
  /\ Live(id) => Taken(id) <= sent[id]
  /\ Live(id) /\ Busy("data", id) => frame.n = Taken(id)
  /\ Live(id) /\ Routed(id) => Pending(id)
  /\ fin[id] \/ Busy("half", id) =>
       substream[id] \notin {"new", "open"} /\ (Live(id) => Len(got[id]) = sent[id])

GotInv ==
  /\ got \in [Ids -> Seq(Nat)] /\ fin \in [Ids -> BOOLEAN]
  /\ \A id \in Ids : \A k \in DOMAIN got[id] : got[id][k] = k

\* An open connection is in forward's map or in its hands to be closed, until
\* its pump ends.
OpenInv ==
  \A id \in Ids : conn[id] = "open" /\ pump[id] # "over" => id \in conns \/ Busy("close", id)

DownInv == GotInv /\ \A id \in Ids : Queue(id) /\ Fresh(id) /\ Flow(id)

\* A step that moves no frame and writes nothing.
LEMMA SameDown ==
  ASSUME DownInv, UNCHANGED <<down, substream, sent, got, fin>>,
         \A id \in Ids : /\ Live(id)' => Live(id)
                         /\ Routed(id)' => Routed(id)
                         /\ (Busy("data", id)' <=> Busy("data", id)) /\ (Busy("data", id) => frame'.n = frame.n)
                         /\ Busy("half", id)' => Busy("half", id)
  PROVE  DownInv'
<1>1. GotInv'
  BY DEF DownInv, GotInv
<1>2. ASSUME NEW id \in Ids PROVE Queue(id)' /\ Fresh(id)'
  BY DEF DownInv, Queue, Fresh, Carries
<1>3. ASSUME NEW id \in Ids PROVE Flow(id)'
  <2>1. Taken(id)' = Taken(id)
    BY DEF Taken
  <2>2. Pending(id) => Pending(id)'
    BY <2>1 DEF Pending, Carries
  <2> QED
    BY <2>1, <2>2 DEF DownInv, Flow
<1> QED
  BY <1>1, <1>2, <1>3 DEF DownInv

\* The frame the engine adds is the last one.
LEMMA EngineAdds ==
  ASSUME TypeInv, NEW f \in Frames, EngineFrame(f)
  PROVE  /\ Len(down) \in Nat /\ DOMAIN down = 1..Len(down) /\ DOMAIN down' = 1..(Len(down) + 1)
         /\ \A i \in DOMAIN down : down'[i] = down[i]
         /\ down'[Len(down) + 1] = f
         /\ UNCHANGED <<conns, got, fin, hostEnd, fwd, frame>>
  BY DEF EngineFrame, TypeInv, sockets, host

\* It leaves the other sub-streams alone.
LEMMA OtherDown ==
  ASSUME TypeInv, DownInv, NEW f \in Frames, EngineFrame(f), NEW id \in Ids,
         f.id # id \/ f.kind \in {"close", "terminated"},
         f.id = id => substream[id] # "new",
         substream'[id] = substream[id] \/ (substream'[id] \notin {"new", "open"} /\ substream[id] # "new"),
         sent'[id] = sent[id]
  PROVE  Queue(id)' /\ Fresh(id)' /\ Flow(id)'
<1>0. PICK n \in Nat : n = Len(down)
  BY EngineAdds
<1>1. /\ DOMAIN down = 1..n /\ DOMAIN down' = 1..(n + 1)
      /\ \A i \in DOMAIN down : down'[i] = down[i]
      /\ down'[n + 1] = f
      /\ UNCHANGED <<conns, got, fin, hostEnd, fwd, frame>>
  BY <1>0, EngineAdds
<1>2. \A i \in DOMAIN down' : i \in DOMAIN down \/ i = n + 1
  BY <1>1
<1>3. \A i \in DOMAIN down : i \in DOMAIN down'
  BY <1>1
<1>4. \A kind \in {"accept", "data", "half"} : \A i \in DOMAIN down' :
        Carries(i, kind, id)' <=> i \in DOMAIN down /\ Carries(i, kind, id)
  BY <1>1, <1>2 DEF Carries
<1>5. Queue(id)'
  BY <1>1, <1>3, <1>4 DEF DownInv, Queue
<1>6. Fresh(id)'
  BY <1>1, <1>2 DEF DownInv, Fresh, Busy
<1>7. /\ Taken(id)' = Taken(id) /\ (Live(id)' <=> Live(id))
      /\ \A kind \in {"accept", "data", "half", "close"} : (Busy(kind, id)' <=> Busy(kind, id))
  BY <1>1 DEF Taken, Busy, Live
<1>8. Routed(id)' => Routed(id)
  BY <1>1, <1>4, <1>7 DEF Routed
<1>9. Pending(id) => Pending(id)'
  BY <1>1, <1>3, <1>4, <1>7 DEF Pending
<1>10. Flow(id)'
  BY <1>1, <1>7, <1>8, <1>9 DEF DownInv, Flow
<1> QED
  BY <1>5, <1>6, <1>10

LEMMA EngineDown == ASSUME TypeInv, DownInv, EngineStep PROVE DownInv'
<1>1. ASSUME NEW f \in Frames, EngineFrame(f) PROVE GotInv'
  BY <1>1 DEF EngineFrame, DownInv, GotInv, sockets
<1>2. ASSUME NEW id \in Ids, EngineAccept(id) PROVE DownInv'
  <2> DEFINE f == Frame("accept", id, 0)
  <2>1. f \in Frames /\ EngineFrame(f) /\ f.id = id /\ f.kind = "accept"
    BY <1>2 DEF EngineAccept, Frame, Frames, Kinds
  <2>0. PICK n \in Nat : n = Len(down)
    BY <2>1, EngineAdds
  <2>2. /\ DOMAIN down = 1..n /\ DOMAIN down' = 1..(n + 1)
        /\ \A i \in DOMAIN down : down'[i] = down[i]
        /\ down'[n + 1] = f
        /\ UNCHANGED <<conns, got, fin, hostEnd, fwd, frame>>
    BY <2>0, <2>1, EngineAdds
  <2>3. substream[id] = "new" /\ substream'[id] = "open" /\ sent' = sent
        /\ \A k \in Ids \ {id} : substream'[k] = substream[k]
    BY <1>2 DEF EngineAccept, TypeInv
  <2> HIDE DEF f
  <2>4. /\ sent[id] = 0 /\ got[id] = <<>> /\ ~fin[id] /\ ~Busy("data", id) /\ ~Busy("half", id)
        /\ \A i \in DOMAIN down : down[i].id # id
    BY <2>3 DEF DownInv, Fresh
  <2>5. \A i \in DOMAIN down' : down'[i].id = id => i = n + 1 /\ down'[i].kind = "accept"
    BY <2>1, <2>2, <2>4
  <2>6. Queue(id)' /\ Fresh(id)'
    BY <2>3, <2>5 DEF Queue, Fresh, Carries
  <2>7. ~Busy("data", id)' /\ ~Busy("half", id)' /\ sent'[id] = 0 /\ got'[id] = <<>> /\ ~fin'[id]
    BY <2>2, <2>3, <2>4 DEF Busy
  <2>8. Taken(id)' = 0
    BY <2>7 DEF Taken
  <2>9. Flow(id)'
    BY <2>5, <2>7, <2>8 DEF Flow, Pending, Carries
  <2>10. \A k \in Ids \ {id} : Queue(k)' /\ Fresh(k)' /\ Flow(k)'
    BY <2>1, <2>3, OtherDown
  <2> QED
    BY <1>1, <2>1, <2>6, <2>9, <2>10 DEF DownInv
<1>3. ASSUME NEW id \in Ids, EngineData(id) PROVE DownInv'
  <2> DEFINE f == Frame("data", id, sent[id] + 1)
  <2>1. f \in Frames /\ EngineFrame(f) /\ f.id = id /\ f.kind = "data" /\ f.n = sent[id] + 1
    BY <1>3 DEF EngineData, Frame, Frames, Kinds, TypeInv
  <2>0. PICK n \in Nat : n = Len(down)
    BY <2>1, EngineAdds
  <2>2. /\ DOMAIN down = 1..n /\ DOMAIN down' = 1..(n + 1)
        /\ \A i \in DOMAIN down : down'[i] = down[i]
        /\ down'[n + 1] = f
        /\ UNCHANGED <<conns, got, fin, hostEnd, fwd, frame>>
    BY <2>0, <2>1, EngineAdds
  <2>3. /\ substream[id] = "open" /\ substream' = substream /\ sent'[id] = sent[id] + 1 /\ sent[id] \in Nat
        /\ \A k \in Ids \ {id} : sent'[k] = sent[k]
    BY <1>3 DEF EngineData, TypeInv
  <2> HIDE DEF f
  <2>4. /\ Carries(n + 1, "data", id)' /\ ~Carries(n + 1, "accept", id)' /\ ~Carries(n + 1, "half", id)'
        /\ down'[n + 1].n = sent[id] + 1
    BY <2>1, <2>2 DEF Carries
  <2>5. \A i \in DOMAIN down : down'[i].n = down[i].n /\ i < n + 1
          /\ \A kind \in {"accept", "data", "half"} : (Carries(i, kind, id)' <=> Carries(i, kind, id))
    BY <2>2 DEF Carries
  <2>6. \A i \in DOMAIN down' : i \in DOMAIN down \/ i = n + 1
    BY <2>2
  <2>7. \A i \in DOMAIN down : i \in DOMAIN down' /\ ~Carries(i, "half", id)
    BY <2>2, <2>3 DEF DownInv, Queue
  <2>8. \A i \in DOMAIN down : down[i].n \in Nat
    <3>1. \A i \in DOMAIN down : down[i] \in Frames
      BY DEF TypeInv
    <3> QED
      BY <3>1 DEF Frames
  <2>9. Queue(id)'
    <3>1. ASSUME NEW i \in DOMAIN down', Carries(i, "data", id)'
          PROVE  /\ down'[i].n <= sent'[id]
                 /\ \A j \in DOMAIN down' : Carries(j, "data", id)' /\ i < j => down'[i].n < down'[j].n
      <4>1. CASE i = n + 1
        BY <2>2, <2>3, <2>4, <2>5, <2>6, <4>1
      <4>2. CASE i \in DOMAIN down
        <5>1. Carries(i, "data", id) /\ down[i].n <= sent[id] /\ down'[i].n = down[i].n
          BY <2>5, <3>1, <4>2 DEF DownInv, Queue
        <5>2. ASSUME NEW j \in DOMAIN down', Carries(j, "data", id)', i < j PROVE down'[i].n < down'[j].n
          <6>1. CASE j = n + 1
            BY <2>3, <2>4, <2>8, <4>2, <5>1, <6>1
          <6>2. CASE j \in DOMAIN down
            BY <2>5, <4>2, <5>1, <5>2, <6>2 DEF DownInv, Queue
          <6> QED
            BY <2>6, <6>1, <6>2
        <5> QED
          BY <2>3, <2>8, <4>2, <5>1, <5>2
      <4> QED
        BY <2>6, <4>1, <4>2
    <3>2. ASSUME NEW i \in DOMAIN down', Carries(i, "accept", id)', NEW j \in DOMAIN down',
                 Carries(j, "data", id)' \/ Carries(j, "half", id)'
          PROVE  i < j
      <4>1. i \in DOMAIN down /\ Carries(i, "accept", id) /\ i < n + 1
        BY <2>4, <2>5, <2>6, <3>2
      <4>2. CASE j \in DOMAIN down
        BY <2>5, <3>2, <4>1, <4>2 DEF DownInv, Queue
      <4> QED
        BY <2>6, <4>1, <4>2
    <3>3. \A i \in DOMAIN down' : ~Carries(i, "half", id)'
      BY <2>4, <2>5, <2>6, <2>7
    <3> QED
      BY <3>1, <3>2, <3>3 DEF Queue
  <2>10. Fresh(id)'
    BY <2>3 DEF Fresh
  <2>11. Taken(id)' = Taken(id) /\ Taken(id) \in Nat
    BY <2>2 DEF Taken, Busy, DownInv, GotInv
  <2>12. (Live(id)' <=> Live(id)) /\ \A kind \in {"accept", "data", "half", "close"} : (Busy(kind, id)' <=> Busy(kind, id))
    BY <2>2 DEF Live, Busy
  <2>13. Routed(id)' => Routed(id)
    BY <2>2, <2>4, <2>5, <2>6, <2>12 DEF Routed
  <2>14. Pending(id) /\ Taken(id) <= sent[id] => Pending(id)'
    <3> SUFFICES ASSUME Pending(id), Taken(id) <= sent[id] PROVE Pending(id)'
      OBVIOUS
    <3>1. ASSUME NEW i \in DOMAIN down', Carries(i, "data", id)' PROVE down'[i].n > Taken(id)'
      <4>1. CASE i = n + 1
        BY <2>3, <2>4, <2>11, <4>1
      <4>2. CASE i \in DOMAIN down
        BY <2>5, <2>11, <3>1, <4>2 DEF Pending
      <4> QED
        BY <2>6, <4>1, <4>2
    <3>2. ASSUME NEW m \in Nat, Taken(id)' < m, m <= sent'[id]
          PROVE  \E i \in DOMAIN down' : Carries(i, "data", id)' /\ down'[i].n = m
      <4>1. CASE m = sent[id] + 1
        BY <2>2, <2>4, <4>1
      <4>2. CASE m <= sent[id]
        <5>1. PICK i \in DOMAIN down : Carries(i, "data", id) /\ down[i].n = m
          BY <2>11, <3>2, <4>2 DEF Pending
        <5> QED
          BY <2>5, <2>7, <5>1
      <4> QED
        BY <2>3, <3>2, <4>1, <4>2
    <3> QED
      BY <3>1, <3>2 DEF Pending
  <2>15. Flow(id)'
    <3>1. ~fin[id] /\ ~Busy("half", id)
      BY <2>3 DEF DownInv, Flow
    <3>2. ~fin'[id] /\ ~Busy("half", id)'
      BY <2>2, <2>12, <3>1
    <3> QED
      BY <2>2, <2>3, <2>11, <2>12, <2>13, <2>14, <3>2 DEF DownInv, Flow
  <2>16. \A k \in Ids \ {id} : Queue(k)' /\ Fresh(k)' /\ Flow(k)'
    BY <2>1, <2>3, OtherDown
  <2> QED
    BY <1>1, <2>1, <2>9, <2>10, <2>15, <2>16 DEF DownInv
<1>4. ASSUME NEW id \in Ids, EngineHalfClose(id) PROVE DownInv'
  <2> DEFINE f == Frame("half", id, 0)
  <2>1. f \in Frames /\ EngineFrame(f) /\ f.id = id /\ f.kind = "half"
    BY <1>4 DEF EngineHalfClose, Frame, Frames, Kinds
  <2>0. PICK n \in Nat : n = Len(down)
    BY <2>1, EngineAdds
  <2>2. /\ DOMAIN down = 1..n /\ DOMAIN down' = 1..(n + 1)
        /\ \A i \in DOMAIN down : down'[i] = down[i]
        /\ down'[n + 1] = f
        /\ UNCHANGED <<conns, got, fin, hostEnd, fwd, frame>>
    BY <2>0, <2>1, EngineAdds
  <2>3. /\ substream[id] = "open" /\ substream'[id] = "half" /\ sent' = sent
        /\ \A k \in Ids \ {id} : substream'[k] = substream[k]
    BY <1>4 DEF EngineHalfClose, TypeInv
  <2> HIDE DEF f
  <2>4. Carries(n + 1, "half", id)' /\ ~Carries(n + 1, "accept", id)' /\ ~Carries(n + 1, "data", id)'
    BY <2>1, <2>2 DEF Carries
  <2>5. \A i \in DOMAIN down : down'[i].n = down[i].n /\ i < n + 1 /\ i \in DOMAIN down'
          /\ \A kind \in {"accept", "data", "half"} : (Carries(i, kind, id)' <=> Carries(i, kind, id))
    BY <2>2 DEF Carries
  <2>6. \A i \in DOMAIN down' : i \in DOMAIN down \/ i = n + 1
    BY <2>2
  <2>7. \A i \in DOMAIN down : ~Carries(i, "half", id)
    BY <2>3 DEF DownInv, Queue
  <2>8. Queue(id)'
    <3>1. ASSUME NEW i \in DOMAIN down', Carries(i, "data", id)'
          PROVE  /\ down'[i].n <= sent'[id]
                 /\ \A j \in DOMAIN down' : Carries(j, "data", id)' /\ i < j => down'[i].n < down'[j].n
      BY <2>3, <2>4, <2>5, <2>6, <3>1 DEF DownInv, Queue
    <3>2. ASSUME NEW i \in DOMAIN down', Carries(i, "accept", id)', NEW j \in DOMAIN down',
                 Carries(j, "data", id)' \/ Carries(j, "half", id)'
          PROVE  i < j
      <4>1. i \in DOMAIN down /\ Carries(i, "accept", id) /\ i < n + 1
        BY <2>4, <2>5, <2>6, <3>2
      <4>2. CASE j \in DOMAIN down
        BY <2>5, <3>2, <4>1, <4>2 DEF DownInv, Queue
      <4> QED
        BY <2>6, <4>1, <4>2
    <3>3. ASSUME NEW i \in DOMAIN down', Carries(i, "half", id)'
          PROVE  \A j \in DOMAIN down' : Carries(j, "data", id)' => j < i
      BY <2>4, <2>5, <2>6, <2>7, <3>3
    <3> QED
      BY <2>3, <3>1, <3>2, <3>3 DEF Queue
  <2>9. Fresh(id)'
    BY <2>3 DEF Fresh
  <2>10. /\ Taken(id)' = Taken(id) /\ (Live(id)' <=> Live(id))
         /\ \A kind \in {"accept", "data", "half", "close"} : (Busy(kind, id)' <=> Busy(kind, id))
    BY <2>2 DEF Taken, Busy, Live
  <2>11. Routed(id)' => Routed(id)
    BY <2>2, <2>4, <2>5, <2>6, <2>10 DEF Routed
  <2>12. Pending(id) => Pending(id)'
    BY <2>3, <2>4, <2>5, <2>6, <2>10 DEF Pending
  <2>13. Flow(id)'
    BY <2>2, <2>3, <2>10, <2>11, <2>12 DEF DownInv, Flow
  <2>14. \A k \in Ids \ {id} : Queue(k)' /\ Fresh(k)' /\ Flow(k)'
    BY <2>1, <2>3, OtherDown
  <2> QED
    BY <1>1, <2>1, <2>8, <2>9, <2>13, <2>14 DEF DownInv
<1>5. ASSUME NEW id \in Ids, EngineClose(id) PROVE DownInv'
  <2>1. Frame("close", id, 0) \in Frames /\ EngineFrame(Frame("close", id, 0))
        /\ Frame("close", id, 0).kind = "close" /\ Frame("close", id, 0).id = id
    BY <1>5 DEF EngineClose, Frame, Frames, Kinds
  <2>2. /\ sent' = sent /\ substream[id] # "new" /\ substream'[id] = "closed"
        /\ \A k \in Ids \ {id} : substream'[k] = substream[k]
    BY <1>5 DEF EngineClose, TypeInv
  <2>3. \A k \in Ids : Queue(k)' /\ Fresh(k)' /\ Flow(k)'
    BY <2>1, <2>2, OtherDown
  <2> QED
    BY <1>1, <2>1, <2>3 DEF DownInv
<1>6. CASE EngineTerminate
  <2>1. Frame("terminated", None, 0) \in Frames /\ EngineFrame(Frame("terminated", None, 0))
        /\ Frame("terminated", None, 0).kind = "terminated" /\ Frame("terminated", None, 0).id \notin Ids
    BY <1>6, TunnelAssumption DEF EngineTerminate, Frame, Frames, Kinds
  <2>2. UNCHANGED <<substream, sent>>
    BY <1>6 DEF EngineTerminate
  <2>3. \A k \in Ids : Queue(k)' /\ Fresh(k)' /\ Flow(k)'
    BY <2>1, <2>2, OtherDown
  <2> QED
    BY <1>1, <2>1, <2>3 DEF DownInv
<1>7. CASE EngineEnd
  <2>1. UNCHANGED <<down, substream, sent, got, fin, conns, hostEnd, fwd, frame>>
    BY <1>7 DEF EngineEnd, sockets, host
  <2> QED
    BY <2>1, SameDown DEF Live, Routed, Busy, Carries
<1> QED
  BY <1>2, <1>3, <1>4, <1>5, <1>6, <1>7 DEF EngineStep

\* forward takes the first frame of the stream.
LEMMA ReceiveDown == ASSUME TypeInv, DownInv, Receive PROVE DownInv'
<1>0. PICK f \in Frames : f = Head(down)
  BY DEF Receive, TypeInv
<1>1. /\ UNCHANGED <<substream, sent, got, fin, hostEnd>>
      /\ fwd = "receive" /\ down # <<>> /\ down' = Tail(down)
      /\ fwd' = CASE f.kind = "accept" -> "accept"
                  [] f.kind = "terminated" -> "finish"
                  [] OTHER -> IF f.id \in conns THEN f.kind ELSE "receive"
      /\ frame' = IF fwd' = "receive" THEN NoFrame ELSE f
      /\ conns' = IF f.kind = "close" THEN conns \ {f.id} ELSE conns
  BY <1>0 DEF Receive, sockets, host
<1>2. f.kind \in Kinds /\ f.n \in Nat
  BY DEF Frames
<1>3. /\ 1 \in DOMAIN down /\ f = down[1]
      /\ \A i \in DOMAIN down' : i + 1 \in DOMAIN down /\ i \in Nat /\ i >= 1 /\ down'[i] = down[i + 1]
  BY <1>0, <1>1, Behind
<1>4. \A i \in DOMAIN down : i \in Nat /\ (i # 1 => i - 1 \in DOMAIN down' /\ down'[i - 1] = down[i])
  BY <1>1 DEF TypeInv
<1>5. GotInv'
  BY <1>1 DEF DownInv, GotInv
<1>6. ASSUME NEW id \in Ids PROVE Queue(id)' /\ Fresh(id)' /\ Flow(id)'
  <2>1. \A kind \in {"accept", "data", "half"} : \A i \in DOMAIN down' :
          Carries(i, kind, id)' <=> Carries(i + 1, kind, id)
    BY <1>3 DEF Carries
  <2>2. Queue(id)'
    <3>1. ASSUME NEW i \in DOMAIN down', Carries(i, "data", id)'
          PROVE  /\ down'[i].n <= sent'[id]
                 /\ \A j \in DOMAIN down' : Carries(j, "data", id)' /\ i < j => down'[i].n < down'[j].n
      <4>1. \A j \in DOMAIN down' : i < j => i + 1 < j + 1
        BY <1>3
      <4> QED
        BY <1>1, <1>3, <2>1, <3>1, <4>1 DEF DownInv, Queue
    <3>2. ASSUME NEW i \in DOMAIN down', NEW j \in DOMAIN down', Carries(i, "accept", id)',
                 Carries(j, "data", id)' \/ Carries(j, "half", id)'
          PROVE  i < j
      <4>1. i + 1 < j + 1
        BY <1>3, <2>1, <3>2 DEF DownInv, Queue
      <4> QED
        BY <1>3, <4>1
    <3>3. ASSUME NEW i \in DOMAIN down', Carries(i, "half", id)'
          PROVE  substream'[id] \notin {"new", "open"}
      BY <1>1, <1>3, <2>1, <3>3 DEF DownInv, Queue
    <3>4. ASSUME NEW i \in DOMAIN down', NEW j \in DOMAIN down', Carries(i, "half", id)',
                 Carries(j, "data", id)'
          PROVE  j < i
      <4>1. j + 1 < i + 1
        BY <1>3, <2>1, <3>4 DEF DownInv, Queue
      <4> QED
        BY <1>3, <4>1
    <3> QED
      BY <3>1, <3>2, <3>3, <3>4 DEF Queue
  <2>3. Fresh(id)'
    <3>1. substream[id] = "new" => f.id # id
      BY <1>3 DEF DownInv, Fresh
    <3>2. fwd' \in {"data", "half"} => frame' = f
      BY <1>1
    <3>3. substream[id] = "new" => ~Busy("data", id)' /\ ~Busy("half", id)'
      BY <3>1, <3>2 DEF Busy
    <3> QED
      BY <1>1, <1>3, <3>3 DEF DownInv, Fresh
  <2>4. /\ Taken(id) = Len(got[id]) /\ Len(got[id]) \in Nat /\ sent[id] \in Nat
        /\ (Live(id)' <=> Live(id)) /\ ~Busy("accept", id) /\ ~Busy("close", id)
    BY <1>1 DEF Taken, Busy, Live, DownInv, GotInv, TypeInv
  <2>5. CASE f.kind = "data" /\ f.id = id /\ id \in conns
    <3>1. fwd' = "data" /\ frame' = f
      BY <1>1, <2>5
    <3>2. Busy("data", id)' /\ ~Busy("half", id)' /\ Taken(id)' = Len(got[id]) + 1
      BY <1>1, <2>5, <3>1 DEF Busy, Taken
    <3>3. Carries(1, "data", id) /\ down[1].n = f.n /\ Routed(id) /\ f.n <= sent[id]
      BY <1>3, <2>5 DEF Carries, Routed, DownInv, Queue
    <3>4. ASSUME Live(id) PROVE f.n = Len(got[id]) + 1 /\ Pending(id)
      <4>1. Pending(id)
        BY <3>3, <3>4 DEF DownInv, Flow
      <4>2. f.n > Len(got[id])
        BY <1>3, <2>4, <3>3, <4>1 DEF Pending
      <4>3. PICK i \in DOMAIN down : Carries(i, "data", id) /\ down[i].n = Len(got[id]) + 1
        BY <1>2, <2>4, <3>3, <4>1, <4>2 DEF Pending
      <4>4. i # 1 => f.n < Len(got[id]) + 1
        BY <1>3, <1>4, <3>3, <4>3 DEF DownInv, Queue
      <4> QED
        BY <1>2, <2>4, <3>3, <4>1, <4>2, <4>3, <4>4
    <3>5. ASSUME Live(id) PROVE Pending(id)'
      <4>1. ASSUME NEW i \in DOMAIN down', Carries(i, "data", id)' PROVE down'[i].n > Taken(id)'
        <5>1. i + 1 \in DOMAIN down /\ 1 < i + 1 /\ Carries(i + 1, "data", id) /\ down'[i].n = down[i + 1].n
          BY <1>3, <2>1, <4>1
        <5>2. down[1].n < down[i + 1].n
          BY <1>3, <3>3, <5>1 DEF DownInv, Queue
        <5> QED
          BY <3>2, <3>3, <3>4, <3>5, <5>1, <5>2
      <4>2. ASSUME NEW m \in Nat, Taken(id)' < m, m <= sent'[id]
            PROVE  \E i \in DOMAIN down' : Carries(i, "data", id)' /\ down'[i].n = m
        <5>1. PICK i \in DOMAIN down : Carries(i, "data", id) /\ down[i].n = m
          BY <1>1, <2>4, <3>2, <3>4, <3>5, <4>2 DEF Pending
        <5>2. i # 1
          BY <1>3, <2>4, <3>2, <3>4, <3>5, <4>2, <5>1
        <5>3. i - 1 \in DOMAIN down' /\ down'[i - 1] = down[i]
          BY <1>4, <5>2
        <5> QED
          BY <5>1, <5>3 DEF Carries
      <4> QED
        BY <4>1, <4>2 DEF Pending
    <3>6. ASSUME fin[id] PROVE substream[id] \notin {"new", "open"} /\ ~Live(id)
      BY <2>4, <3>3, <3>4, <3>6 DEF DownInv, Flow
    <3> QED
      BY <1>1, <2>2, <2>3, <2>4, <3>1, <3>2, <3>3, <3>4, <3>5, <3>6 DEF Flow
  <2>6. CASE ~(f.kind = "data" /\ f.id = id /\ id \in conns)
    <3>1. ~Busy("data", id)' /\ Taken(id)' = Taken(id)
      <4>1. ~Busy("data", id)'
        BY <1>1, <2>6 DEF Busy
      <4> QED
        BY <1>1, <2>4, <4>1 DEF Taken
    <3>2. Routed(id)' => Routed(id)
      <4>1. Busy("accept", id)' => Carries(1, "accept", id)
        BY <1>1, <1>2, <1>3 DEF Busy, Carries, Kinds
      <4>2. (id \in conns' => id \in conns) /\ (Busy("close", id)' => id \in conns)
        BY <1>1, <1>2 DEF Busy, Kinds
      <4> QED
        BY <1>3, <2>1, <4>1, <4>2 DEF Routed
    <3>3. ASSUME Live(id), Routed(id)' PROVE Pending(id)'
      <4>1. Pending(id)
        BY <3>2, <3>3 DEF DownInv, Flow
      <4>2. ~Carries(1, "data", id)
        <5>1. ASSUME Carries(1, "data", id) PROVE FALSE
          <6>1. f.kind = "data" /\ f.id = id /\ id \notin conns
            BY <1>3, <2>6, <5>1 DEF Carries
          <6>2. \A i \in DOMAIN down : ~Carries(i, "accept", id)
            BY <1>3, <1>4, <5>1 DEF DownInv, Queue
          <6> QED
            BY <2>4, <3>2, <3>3, <6>1, <6>2 DEF Routed
        <5> QED
          BY <5>1
      <4>3. ASSUME NEW i \in DOMAIN down', Carries(i, "data", id)' PROVE down'[i].n > Taken(id)'
        BY <1>3, <2>1, <3>1, <4>1, <4>3 DEF Pending
      <4>4. ASSUME NEW m \in Nat, Taken(id)' < m, m <= sent'[id]
            PROVE  \E i \in DOMAIN down' : Carries(i, "data", id)' /\ down'[i].n = m
        <5>1. PICK i \in DOMAIN down : Carries(i, "data", id) /\ down[i].n = m
          BY <1>1, <3>1, <4>1, <4>4 DEF Pending
        <5>2. i - 1 \in DOMAIN down' /\ down'[i - 1] = down[i]
          BY <1>4, <4>2, <5>1
        <5> QED
          BY <5>1, <5>2 DEF Carries
      <4> QED
        BY <4>3, <4>4 DEF Pending
    <3>4. ASSUME Busy("half", id)'
          PROVE  substream[id] \notin {"new", "open"} /\ (Live(id) => Len(got[id]) = sent[id])
      <4>1. f.kind = "half" /\ f.id = id /\ id \in conns
        BY <1>1, <1>2, <3>4 DEF Busy, Kinds, NoFrame, Frame
      <4>2. Carries(1, "half", id) /\ Routed(id)
        BY <1>3, <4>1 DEF Carries, Routed
      <4>3. substream[id] \notin {"new", "open"} /\ \A j \in DOMAIN down : ~Carries(j, "data", id)
        BY <1>3, <1>4, <4>2 DEF DownInv, Queue
      <4>4. Live(id) => Pending(id) /\ Taken(id) <= sent[id]
        BY <4>2 DEF DownInv, Flow
      <4>5. Live(id) => ~(Taken(id) < sent[id])
        BY <2>4, <4>3, <4>4 DEF Pending
      <4> QED
        BY <2>4, <4>3, <4>4, <4>5
    <3>5. Live(id) => Taken(id) <= sent[id]
      BY DEF DownInv, Flow
    <3>6. fin[id] => substream[id] \notin {"new", "open"} /\ (Live(id) => Len(got[id]) = sent[id])
      BY DEF DownInv, Flow
    <3>7. Flow(id)'
      BY <1>1, <2>4, <3>1, <3>3, <3>4, <3>5, <3>6 DEF Flow
    <3> QED
      BY <2>2, <2>3, <3>7
  <2> QED
    BY <2>5, <2>6
<1> QED
  BY <1>5, <1>6 DEF DownInv

\* forward writes the frame it holds, or drops it if the host is gone.
LEMMA WriteDown == ASSUME TypeInv, DownInv, Write PROVE DownInv'
<1>0. PICK id \in Ids : id = frame.id
  BY DEF Write, TypeInv
<1>1. /\ fwd = "data" /\ fwd' = "receive" /\ Busy("data", id)
      /\ UNCHANGED <<down, substream, sent, conns, fin, hostEnd>>
      /\ \/ Live(id) /\ got' = [got EXCEPT ![id] = Append(@, frame.n)]
         \/ ~Live(id) /\ got' = got
  BY <1>0 DEF Write, Handled, Busy, Live, engine, host
<1>2. \A k \in Ids : /\ ~Busy("data", k)' /\ ~Busy("half", k)' /\ ~Busy("accept", k)' /\ ~Busy("close", k)'
                     /\ ~Busy("half", k) /\ (Live(k)' <=> Live(k))
  BY <1>1 DEF Busy, Live
<1>3. \A k \in Ids : Routed(k)' => Routed(k)
  BY <1>1, <1>2 DEF Routed, Carries
<1>4. \A k \in Ids \ {id} : got'[k] = got[k] /\ ~Busy("data", k)
  BY <1>0, <1>1 DEF Busy, DownInv, GotInv
<1>5. Taken(id) = Len(got[id]) + 1 /\ Len(got[id]) \in Nat /\ (Live(id) => frame.n = Taken(id))
  BY <1>1 DEF Taken, DownInv, Flow, GotInv
<1>6. Live(id) => /\ Len(got'[id]) = Len(got[id]) + 1
                  /\ \A k \in DOMAIN got'[id] : got'[id][k] = k
                  /\ got'[id] \in Seq(Nat)
  <2> SUFFICES ASSUME Live(id) PROVE /\ Len(got'[id]) = Len(got[id]) + 1
                                     /\ \A k \in DOMAIN got'[id] : got'[id][k] = k
                                     /\ got'[id] \in Seq(Nat)
    OBVIOUS
  <2>1. got'[id] = Append(got[id], Len(got[id]) + 1) /\ got[id] \in Seq(Nat)
    BY <1>1, <1>5 DEF DownInv, GotInv
  <2>2. \A k \in DOMAIN got[id] : got[id][k] = k
    BY DEF DownInv, GotInv
  <2> QED
    BY <2>1, <2>2
<1>7. GotInv'
  <2>1. got' \in [Ids -> Seq(Nat)]
    BY <1>1, <1>6 DEF DownInv, GotInv
  <2>2. ASSUME NEW j \in Ids PROVE \A k \in DOMAIN got'[j] : got'[j][k] = k
    <3>1. CASE j # id
      BY <1>4, <3>1 DEF DownInv, GotInv
    <3>2. CASE j = id /\ ~Live(id)
      BY <1>1, <3>2 DEF DownInv, GotInv
    <3> QED
      BY <1>6, <3>1, <3>2
  <2> QED
    BY <1>1, <2>1, <2>2 DEF DownInv, GotInv
<1>8. ASSUME NEW k \in Ids PROVE Queue(k)' /\ Fresh(k)'
  <2>1. Queue(k)'
    BY <1>1 DEF DownInv, Queue, Carries
  <2>2. substream[k] = "new" => k # id
    BY <1>1 DEF DownInv, Fresh
  <2>3. Fresh(k)'
    BY <1>1, <1>2, <1>4, <2>2 DEF DownInv, Fresh
  <2> QED
    BY <2>1, <2>3
<1>9. ASSUME NEW k \in Ids PROVE Flow(k)'
  <2>1. Live(k) => Taken(k)' = Taken(k)
    BY <1>1, <1>2, <1>4, <1>5, <1>6 DEF Taken
  <2>2. Live(k) /\ Pending(k) => Pending(k)'
    BY <1>1, <2>1 DEF Pending, Carries
  <2>3. ~(Live(id) /\ fin[id])
    BY <1>1, <1>5 DEF DownInv, Flow, TypeInv
  <2>4. Live(k) /\ fin[k] => got'[k] = got[k]
    BY <1>4, <2>3
  <2> QED
    BY <1>1, <1>2, <1>3, <2>1, <2>2, <2>4 DEF DownInv, Flow
<1> QED
  BY <1>7, <1>8, <1>9 DEF DownInv

\* forward half-closes the connection: the host has got everything.
LEMMA CloseWriteDown == ASSUME TypeInv, DownInv, CloseWrite PROVE DownInv'
<1>0. PICK id \in Ids : id = frame.id
  BY DEF CloseWrite, TypeInv
<1>1. /\ fwd = "half" /\ fwd' = "receive" /\ Busy("half", id)
      /\ UNCHANGED <<down, substream, sent, conns, got, hostEnd>>
      /\ fin' = [fin EXCEPT ![id] = TRUE]
  BY <1>0 DEF CloseWrite, Handled, Busy, engine, host
<1>2. \A k \in Ids : /\ ~Busy("data", k)' /\ ~Busy("half", k)' /\ ~Busy("accept", k)' /\ ~Busy("close", k)'
                     /\ ~Busy("data", k) /\ (Live(k)' <=> Live(k)) /\ (Busy("half", k) <=> k = id)
  BY <1>0, <1>1 DEF Busy, Live
<1>3. \A k \in Ids : fin'[k] => fin[k] \/ Busy("half", k)
  BY <1>1 DEF DownInv, GotInv
<1>4. GotInv'
  BY <1>1 DEF DownInv, GotInv
<1>5. ASSUME NEW k \in Ids PROVE Queue(k)' /\ Fresh(k)'
  BY <1>1, <1>2, <1>3 DEF DownInv, Queue, Fresh, Carries
<1>6. ASSUME NEW k \in Ids PROVE Flow(k)'
  <2>1. Taken(k)' = Taken(k) /\ (Routed(k)' => Routed(k))
    BY <1>1, <1>2 DEF Taken, Routed, Carries
  <2>2. Pending(k) => Pending(k)'
    BY <1>1, <2>1 DEF Pending, Carries
  <2> QED
    BY <1>1, <1>2, <1>3, <2>1, <2>2 DEF DownInv, Flow
<1> QED
  BY <1>4, <1>5, <1>6 DEF DownInv

\* The other steps move no frame.
LEMMA OtherStepsDown ==
  ASSUME TypeInv, DownInv,
         HostStep \/ ReceiveFailed \/ Dial \/ CloseConn \/ Cleanup \/ Aside \/ \E id \in Ids : PumpStep(id)
  PROVE  DownInv'
<1> USE DEF Live, Routed, Busy, engine, sockets, host
<1>1. CASE HostStep
  <2>1. UNCHANGED <<down, substream, sent, got, fin, conns, fwd, frame>>
        /\ \A id \in Ids : Live(id)' => Live(id)
    BY <1>1 DEF HostStep, HostWrite, HostEnd, TypeInv
  <2> QED
    BY <2>1, SameDown DEF Carries
<1>2. CASE ReceiveFailed
  <2>1. UNCHANGED <<down, substream, sent, got, fin, conns, hostEnd>> /\ fwd = "receive" /\ fwd' = "finish"
    BY <1>2 DEF ReceiveFailed
  <2> QED
    BY <2>1, SameDown DEF Carries
<1>3. CASE Dial
  <2>1. UNCHANGED <<down, substream, sent, got, fin, hostEnd>> /\ fwd = "accept" /\ fwd' = "receive"
        /\ conns' \subseteq conns \cup {frame.id}
    BY <1>3 DEF Dial, Handled
  <2> QED
    BY <2>1, SameDown DEF Carries
<1>4. CASE CloseConn
  <2>1. UNCHANGED <<down, substream, sent, got, fin, conns, hostEnd>> /\ fwd = "close" /\ fwd' = "receive"
    BY <1>4 DEF CloseConn, Handled
  <2> QED
    BY <2>1, SameDown DEF Carries
<1>5. CASE Cleanup
  <2>1. UNCHANGED <<down, substream, sent, got, fin, hostEnd>> /\ fwd = "cleanup" /\ fwd' = "done" /\ conns' = {}
    BY <1>5 DEF Cleanup
  <2> QED
    BY <2>1, SameDown DEF Carries
<1>6. CASE Aside
  <2>1. UNCHANGED <<down, substream, sent, got, fin, conns, hostEnd, frame>>
        /\ (fwd' = fwd \/ (fwd \in {"finish", "call"} /\ fwd' \in {"call", "stuck", "cleanup"}))
    BY <1>6 DEF Aside
  <2> QED
    BY <2>1, SameDown DEF Carries
<1>7. ASSUME NEW id \in Ids, PumpStep(id) PROVE DownInv'
  <2>1. UNCHANGED <<down, substream, sent, got, fin, hostEnd, fwd, frame>> /\ conns' \subseteq conns
    BY <1>7 DEF PumpStep, PumpRead, PumpSend, PumpEnd
  <2> QED
    BY <2>1, SameDown DEF Carries
<1> QED
  BY <1>1, <1>2, <1>3, <1>4, <1>5, <1>6, <1>7

LEMMA OpenStep == ASSUME TypeInv, OpenInv, [Next]_vars PROVE OpenInv'
<1> USE DEF OpenInv, Busy, engine, sockets, host
<1>1. CASE EngineStep
  BY <1>1 DEF EngineStep, EngineAccept, EngineData, EngineHalfClose, EngineClose, EngineTerminate, EngineEnd, EngineFrame
<1>2. CASE HostStep
  BY <1>2 DEF HostStep, HostWrite, HostEnd
<1>3. CASE Receive
  <2>0. PICK f \in Frames : f = Head(down)
    BY <1>3 DEF Receive, TypeInv
  <2>1. /\ UNCHANGED <<conn, pump>> /\ fwd = "receive"
        /\ conns' = IF f.kind = "close" THEN conns \ {f.id} ELSE conns
        /\ f.kind = "close" /\ f.id \in conns => fwd' = "close" /\ frame' = f
    BY <1>3, <2>0 DEF Receive
  <2> QED
    BY <2>1
<1>4. CASE ReceiveFailed \/ Write \/ CloseWrite \/ Cleanup
  BY <1>4 DEF ReceiveFailed, Write, CloseWrite, Cleanup, Handled
<1>5. CASE Dial
  BY <1>5 DEF Dial, Handled, TypeInv
<1>6. CASE CloseConn
  BY <1>6 DEF CloseConn, Handled, TypeInv
<1>7. CASE Aside
  <2>1. UNCHANGED <<conn, pump, conns, frame>> /\ (fwd = "close" => fwd' = "close")
    BY <1>7 DEF Aside
  <2> QED
    BY <2>1
<1>8. ASSUME NEW id \in Ids, PumpStep(id) PROVE OpenInv'
  <2>1. /\ UNCHANGED <<conn, fwd, frame>>
        /\ \A k \in Ids : pump'[k] # "over" /\ conn[k] = "open" => pump[k] # "over" /\ (k \in conns => k \in conns')
    BY <1>8 DEF PumpStep, PumpRead, PumpSend, PumpEnd, TypeInv
  <2> QED
    BY <2>1
<1>9. CASE UNCHANGED vars
  BY <1>9 DEF vars
<1> QED
  BY <1>1, <1>2, <1>3, <1>4, <1>5, <1>6, <1>7, <1>8, <1>9, Steps

\* What the host is sent of a sub-stream is what the sandbox sent, in order, and
\* the end of the data comes after all of it; and as long as the host takes data
\* and the pump of its connection lives, nothing is dropped.  For any number of
\* sub-streams and frames and any window of the stream.
THEOREM DownCorrect == Spec => []DownInOrder
<1>1. Init => DownInv
  <2> SUFFICES ASSUME Init PROVE DownInv
    OBVIOUS
  <2>1. GotInv
    BY DEF Init, GotInv
  <2>2. ASSUME NEW id \in Ids PROVE Queue(id) /\ Fresh(id) /\ Flow(id)
    BY DEF Init, Queue, Fresh, Flow, Pending, Taken, Routed, Busy, Live
  <2> QED
    BY <2>1, <2>2 DEF DownInv
<1>2. TypeInv /\ DownInv /\ [Next]_vars => DownInv'
  BY Steps, EngineDown, ReceiveDown, WriteDown, CloseWriteDown, OtherStepsDown
<1>3. TypeInv /\ OpenInv /\ DownInv => DownInOrder
  <2> DEFINE Kept(id, n) ==
        \/ fwd = "data" /\ frame.id = id /\ frame.n = n
        \/ \E i \in DOMAIN down : down[i].kind = "data" /\ down[i].id = id /\ down[i].n = n
  <2> SUFFICES ASSUME TypeInv, OpenInv, DownInv, NEW id \in Ids
               PROVE  /\ got[id] = Chunks(Len(got[id]))
                      /\ fin[id] /\ hostEnd[id] \in {"open", "eof"} => Len(got[id]) = sent[id]
                      /\ conn[id] = "open" /\ hostEnd[id] \in {"open", "eof"} /\ pump[id] # "over" =>
                           \A n \in (Len(got[id]) + 1)..sent[id] : Kept(id, n)
    BY DEF DownInOrder
  <2>1. got[id] \in Seq(Nat) /\ \A k \in DOMAIN got[id] : got[id][k] = k
    BY DEF DownInv, GotInv
  <2>2. got[id] = Chunks(Len(got[id]))
    BY <2>1 DEF Chunks
  <2>3. ASSUME conn[id] = "open", Live(id), pump[id] # "over", NEW n \in (Len(got[id]) + 1)..sent[id]
        PROVE  Kept(id, n)
    <3>1. Routed(id)
      BY <2>3 DEF OpenInv, Routed
    <3>2. Pending(id) /\ (Busy("data", id) => frame.n = Taken(id))
      BY <2>3, <3>1 DEF DownInv, Flow
    <3>3. n \in Nat /\ n > Len(got[id]) /\ n <= sent[id] /\ Len(got[id]) \in Nat
      BY <2>1, <2>3 DEF TypeInv
    <3>4. CASE Busy("data", id) /\ n = Taken(id)
      BY <3>2, <3>4 DEF Busy
    <3>5. CASE ~(Busy("data", id) /\ n = Taken(id))
      <4>1. n > Taken(id)
        BY <3>3, <3>5 DEF Taken
      <4> QED
        BY <3>2, <3>3, <4>1 DEF Pending, Carries
    <3> QED
      BY <3>4, <3>5
  <2> QED
    BY <2>2, <2>3 DEF DownInv, Flow, Live
<1>4. Init => OpenInv
  BY DEF Init, OpenInv
<1>5. TypeInv /\ OpenInv /\ [Next]_vars => OpenInv'
  BY OpenStep
<1> QED
  BY <1>1, <1>2, <1>3, <1>4, <1>5, TypeHolds, PTL DEF Spec
=============================================================================
