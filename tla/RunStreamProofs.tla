---------------------------- MODULE RunStreamProofs ----------------------------
(***************************************************************************)
(* Proofs about RunStream for any number of frames and any size of the     *)
(* chunk channel: a program that reads a stream gets every frame, in the   *)
(* order of its pipe, and is told of the end only after the last of them.  *)
(***************************************************************************)
EXTENDS RunStream, TLAPS

\* The stages the goroutines go through.  Once the pump is done both pipes are
\* closed and the handle has settled; the result is published after both copies
\* are over; Wait alone asks to drain, and Next runs only before it.
StageInv ==
  /\ pipeEnd <=> pump = "done"
  /\ settled # "none" <=> pump = "done"
  /\ main # "settle" => settled # "none"
  /\ main \in {"publish", "done"} => result # "none" /\ \A s \in Streams : copier[s] = "done"
  /\ ready => main \in {"publish", "done"}
  /\ closed => main = "done"
  /\ user \in {"next", "eof"} <=> sink = "stream" /\ ~drain
  /\ user = "eof" => closed /\ chunks = <<>>

\* A copy holds a frame of its own stream exactly while it emits, and never the
\* one the pump is writing; a copy is over early only to let Wait drain.
HeldInv ==
  \A s \in Streams :
    /\ inHand[s] # 0 <=> copier[s] \in {"check", "emit"}
    /\ inHand[s] # 0 => inHand[s] \in Received /\ received[inHand[s]] = s
    /\ pump = s => /\ Len(received) \in Received /\ received[Len(received)] = s
                   /\ inHand[s] # Len(received)
    /\ copier[s] = "done" /\ ~drain => pipeEnd

IInv == TypeOK /\ StageInv /\ HeldInv /\ NothingLost

-----------------------------------------------------------------------------
(* Types and stages.                                                       *)

\* Types are kept; what Emit sends is a frame because its copy holds one.
LEMMA TypeStep == ASSUME TypeOK, HeldInv, Next PROVE TypeOK'
<1> USE RunStreamAssumption DEF TypeOK, feed, copies, channel, outcome, program
<1>1. ASSUME NEW s \in Streams, ReceiveOutput(s) PROVE TypeOK'
  <2>1. received' \in Seq(Streams) /\ Len(received') = Len(received) + 1
    BY <1>1 DEF ReceiveOutput
  <2> QED
    BY <1>1, <2>1 DEF ReceiveOutput
<1>2. ASSUME NEW how \in {"exit", "error"}, ReceiveEnd(how) PROVE TypeOK'
  BY <1>2 DEF ReceiveEnd
<1>3. CASE Settle
  BY <1>3 DEF Settle
<1>4. CASE Join
  BY <1>4 DEF Join
<1>5. CASE Publish
  <2>1. CASE ready' = TRUE /\ UNCHANGED <<closed, main>>
    BY <1>5, <2>1 DEF Publish
  <2>2. CASE closed' = TRUE /\ main' = "done" /\ UNCHANGED ready
    BY <1>5, <2>2 DEF Publish
  <2> QED
    BY <1>5, <2>1, <2>2 DEF Publish
<1>6. CASE NextChunk
  <2>1. CASE chunks # <<>> /\ delivered' = Append(delivered, Head(chunks)) /\ chunks' = Tail(chunks)
    <3>1. Head(chunks) \in Frame /\ Tail(chunks) \in Seq(Frame) /\ Len(Tail(chunks)) <= Len(chunks)
      BY <2>1
    <3>2. delivered' \in Seq(Frame) /\ chunks' \in Seq(Frame) /\ Len(chunks') <= BufferSize
      BY <2>1, <3>1
    <3> QED
      BY <1>6, <3>2 DEF NextChunk
  <2>2. CASE UNCHANGED <<delivered, chunks>>
    BY <1>6, <2>2 DEF NextChunk
  <2> QED
    BY <1>6, <2>1, <2>2 DEF NextChunk
<1>7. CASE WaitReady
  BY <1>7 DEF WaitReady
<1>8. CASE Discard
  <2>1. CASE chunks # <<>> /\ chunks' = Tail(chunks)
    <3>1. chunks' \in Seq(Frame) /\ Len(chunks') <= BufferSize
      BY <2>1
    <3> QED
      BY <1>8, <3>1 DEF Discard
  <2>2. CASE UNCHANGED chunks
    BY <1>8, <2>2 DEF Discard
  <2> QED
    BY <1>8, <2>1, <2>2 DEF Discard
<1>9. CASE CallWait
  BY <1>9 DEF CallWait
<1>10. CASE Cancel
  BY <1>10 DEF Cancel
<1>11. CASE Over
  BY <1>11 DEF Over, vars
<1>12. ASSUME NEW s \in Streams, CopyRead(s) PROVE TypeOK'
  <2>1. Len(received) \in 0..MaxFrames
    OBVIOUS
  <2> QED
    BY <1>12, <2>1 DEF CopyRead
<1>13. ASSUME NEW s \in Streams, CopyEOF(s) PROVE TypeOK'
  BY <1>13 DEF CopyEOF
<1>14. ASSUME NEW s \in Streams, EmitCheck(s) PROVE TypeOK'
  BY <1>14 DEF EmitCheck
<1>15. ASSUME NEW s \in Streams, Emit(s) PROVE TypeOK'
  <2>1. inHand[s] \in Frame
    BY <1>15 DEF Emit, HeldInv, Frame
  <2>2. CASE Len(chunks) < BufferSize /\ chunks' = Append(chunks, inHand[s])
    <3>1. chunks' \in Seq(Frame) /\ Len(chunks') = Len(chunks) + 1
      BY <2>1, <2>2
    <3>2. Len(chunks') <= BufferSize
      BY <2>2, <3>1
    <3> QED
      BY <1>15, <3>1, <3>2 DEF Emit
  <2>3. CASE UNCHANGED chunks
    BY <1>15, <2>3 DEF Emit
  <2> QED
    BY <1>15, <2>2, <2>3 DEF Emit
<1>16. ASSUME NEW s \in Streams, EmitDrained(s) PROVE TypeOK'
  BY <1>16 DEF EmitDrained
<1> QED
  BY <1>1, <1>2, <1>3, <1>4, <1>5, <1>6, <1>7, <1>8, <1>9, <1>10, <1>11, <1>12, <1>13, <1>14, <1>15, <1>16
     DEF Next, Pump, Receive, Consume, Copy

\* The stages follow one another.
LEMMA StageStep == ASSUME TypeOK, HeldInv, StageInv, Next PROVE StageInv'
<1> USE DEF TypeOK, StageInv, Streams, feed, copies, channel, outcome, program
<1>1. ASSUME NEW s \in Streams, ReceiveOutput(s) PROVE StageInv'
  BY <1>1 DEF ReceiveOutput
<1>2. ASSUME NEW how \in {"exit", "error"}, ReceiveEnd(how) PROVE StageInv'
  BY <1>2 DEF ReceiveEnd
<1>3. CASE Settle
  BY <1>3 DEF Settle
<1>4. CASE Join
  BY <1>4 DEF Join
<1>5. CASE Publish
  BY <1>5 DEF Publish
<1>6. CASE NextChunk
  BY <1>6 DEF NextChunk
<1>7. CASE WaitReady
  BY <1>7 DEF WaitReady
<1>8. CASE Discard
  BY <1>8 DEF Discard
<1>9. CASE CallWait
  BY <1>9 DEF CallWait
<1>10. CASE Cancel
  BY <1>10 DEF Cancel
<1>11. CASE Over
  BY <1>11 DEF Over, vars
<1>12. ASSUME NEW s \in Streams, CopyRead(s) PROVE StageInv'
  BY <1>12 DEF CopyRead
<1>13. ASSUME NEW s \in Streams, CopyEOF(s) PROVE StageInv'
  BY <1>13 DEF CopyEOF
<1>14. ASSUME NEW s \in Streams, EmitCheck(s) PROVE StageInv'
  BY <1>14 DEF EmitCheck
<1>15. ASSUME NEW s \in Streams, Emit(s) PROVE StageInv'
  BY <1>15 DEF Emit
<1>16. ASSUME NEW s \in Streams, EmitDrained(s) PROVE StageInv'
  BY <1>16 DEF EmitDrained
<1> QED
  BY <1>1, <1>2, <1>3, <1>4, <1>5, <1>6, <1>7, <1>8, <1>9, <1>10, <1>11, <1>12, <1>13, <1>14, <1>15, <1>16
     DEF Next, Pump, Receive, Consume, Copy

\* What a step does not touch stays held as it was.
LEMMA SameHeld ==
  ASSUME HeldInv, UNCHANGED <<received, pump, pipeEnd, copier, inHand>>, drain => drain' PROVE HeldInv'
  BY DEF HeldInv, Received

\* A copy holds at most the frame it read last.
LEMMA HeldStep == ASSUME TypeOK, HeldInv, StageInv, Next PROVE HeldInv'
<1> USE DEF TypeOK, feed, copies, channel, outcome, program
<1>1. ASSUME NEW s \in Streams, ReceiveOutput(s) PROVE HeldInv'
  <2>1. /\ Len(received') = Len(received) + 1 /\ received'[Len(received')] = s
        /\ \A n \in Received : n \in Received' /\ received'[n] = received[n] /\ n # Len(received')
    BY <1>1 DEF ReceiveOutput, Received
  <2>2. Len(received') \in Received' /\ Len(received') # 0
    BY <2>1 DEF Received
  <2> QED
    BY <1>1, <2>1, <2>2 DEF ReceiveOutput, HeldInv
<1>2. ASSUME NEW how \in {"exit", "error"}, ReceiveEnd(how) PROVE HeldInv'
  BY <1>2 DEF ReceiveEnd, HeldInv, Received, Streams
<1>3. CASE Settle
  BY <1>3, SameHeld DEF Settle
<1>4. CASE Join
  BY <1>4, SameHeld DEF Join
<1>5. CASE Publish
  BY <1>5, SameHeld DEF Publish
<1>6. CASE NextChunk
  BY <1>6, SameHeld DEF NextChunk
<1>7. CASE WaitReady
  BY <1>7, SameHeld DEF WaitReady
<1>8. CASE Discard
  BY <1>8, SameHeld DEF Discard
<1>9. CASE CallWait
  BY <1>9, SameHeld DEF CallWait
<1>10. CASE Cancel
  BY <1>10, SameHeld DEF Cancel
<1>11. CASE Over
  BY <1>11, SameHeld DEF Over, vars
<1>12. ASSUME NEW s \in Streams, CopyRead(s) PROVE HeldInv'
  BY <1>12 DEF CopyRead, HeldInv, Received, Streams
<1>13. ASSUME NEW s \in Streams, CopyEOF(s) PROVE HeldInv'
  BY <1>13 DEF CopyEOF, HeldInv, Received
<1>14. ASSUME NEW s \in Streams, EmitCheck(s) PROVE HeldInv'
  BY <1>14 DEF EmitCheck, HeldInv, Received
<1>15. ASSUME NEW s \in Streams, Emit(s) PROVE HeldInv'
  BY <1>15 DEF Emit, HeldInv, Received
<1>16. ASSUME NEW s \in Streams, EmitDrained(s) PROVE HeldInv'
  BY <1>16 DEF EmitDrained, HeldInv, Received
<1> QED
  BY <1>1, <1>2, <1>3, <1>4, <1>5, <1>6, <1>7, <1>8, <1>9, <1>10, <1>11, <1>12, <1>13, <1>14, <1>15, <1>16
     DEF Next, Pump, Receive, Consume, Copy

-----------------------------------------------------------------------------
(* Where every frame is.                                                   *)

\* Next moves a chunk from the channel to what it returned.
LEMMA OutputMoves ==
  ASSUME TypeOK, chunks # <<>>
  PROVE Append(delivered, Head(chunks)) \o Tail(chunks) = Output
<1> DEFINE d2 == Append(delivered, Head(chunks))
           c2 == Tail(chunks)
<1>1. /\ delivered \in Seq(Frame) /\ chunks \in Seq(Frame)
      /\ d2 \in Seq(Frame) /\ c2 \in Seq(Frame)
      /\ Len(d2) = Len(delivered) + 1 /\ Len(c2) = Len(chunks) - 1
  BY DEF TypeOK
<1>2. /\ \A i \in 1..Len(delivered) : d2[i] = delivered[i]
      /\ d2[Len(delivered) + 1] = chunks[1]
      /\ \A i \in 1..Len(c2) : c2[i] = chunks[i + 1]
  BY <1>1
<1> HIDE DEF d2, c2
<1>3. /\ d2 \o c2 \in Seq(Frame) /\ Len(d2 \o c2) = Len(d2) + Len(c2)
      /\ delivered \o chunks \in Seq(Frame) /\ Len(delivered \o chunks) = Len(delivered) + Len(chunks)
  BY <1>1
<1>4. Len(d2 \o c2) = Len(delivered \o chunks)
  <2>1. Len(delivered) \in Nat /\ Len(chunks) \in Nat
    BY <1>1
  <2> QED
    BY <1>1, <1>3, <2>1
<1>5. ASSUME NEW i \in 1..Len(delivered \o chunks) PROVE (d2 \o c2)[i] = (delivered \o chunks)[i]
  <2>1. CASE i <= Len(delivered)
    BY <1>1, <1>2, <2>1
  <2>2. CASE i = Len(delivered) + 1
    BY <1>1, <1>2, <2>2
  <2>3. CASE i > Len(delivered) + 1
    BY <1>1, <1>2, <2>3
  <2> QED
    BY <1>1, <2>1, <2>2, <2>3
<1> QED
  BY <1>3, <1>4, <1>5 DEF Output, d2, c2

\* Emit adds the frame it hands over at the end.
LEMMA OutputGrows ==
  ASSUME TypeOK, NEW n \in Frame
  PROVE /\ Len(delivered \o Append(chunks, n)) = Len(Output) + 1
        /\ DOMAIN (delivered \o Append(chunks, n)) = 1..(Len(Output) + 1)
        /\ DOMAIN Output = 1..Len(Output) /\ Len(Output) \in Nat
        /\ \A i \in 1..Len(Output) : (delivered \o Append(chunks, n))[i] = Output[i]
        /\ (delivered \o Append(chunks, n))[Len(Output) + 1] = n
<1>1. delivered \in Seq(Frame) /\ chunks \in Seq(Frame) /\ Append(chunks, n) \in Seq(Frame)
  BY DEF TypeOK
<1> QED
  BY <1>1 DEF Output

\* Steps that move no frame, and any step once Wait drains.
LEMMA SameOutput ==
  ASSUME NothingLost, UNCHANGED <<sink, received, inHand, pump, Output>>, drain => drain'
  PROVE NothingLost'
  BY DEF NothingLost, InOrder, In, WithCopy, WithPump, Received

\* Every frame is in one place, in the order of its stream.
LEMMA LostStep == ASSUME IInv, Next PROVE NothingLost'
<1> USE DEF IInv, feed, copies, channel, outcome, program
<1>1. ASSUME NEW s \in Streams, ReceiveOutput(s) PROVE NothingLost'
  <2>1. /\ Len(received) \in Nat /\ Len(received') = Len(received) + 1
        /\ received'[Len(received')] = s
        /\ \A n \in Received : received'[n] = received[n]
        /\ Received' = Received \cup {Len(received')}
        /\ \A n \in Received : n < Len(received')
    BY <1>1 DEF ReceiveOutput, Received, TypeOK
  <2>2. UNCHANGED <<sink, drain, inHand, Output>> /\ pump' = s /\ pump = "receive"
    BY <1>1 DEF ReceiveOutput, Output
  <2>3. \A n \in Received : ~WithPump(n) /\ ~WithPump(n)' /\ WithCopy(n)' = WithCopy(n)
    BY <2>1, <2>2 DEF WithPump, WithCopy, TypeOK, Received, Streams
  <2>4. WithPump(Len(received))' /\ ~WithCopy(Len(received))'
    BY <2>1, <2>2 DEF WithPump, WithCopy, HeldInv
  <2> SUFFICES ASSUME sink = "stream", ~drain PROVE NothingLost'
    BY <2>2 DEF NothingLost
  <2>5. \A i \in DOMAIN Output : Output[i] \in Received
    BY DEF NothingLost
  <2>6. InOrder(Output)'
    BY <2>1, <2>2, <2>5 DEF NothingLost, InOrder
  <2>7. \A n \in Received' :
         /\ In(n, Output)' \/ WithCopy(n)' \/ WithPump(n)'
         /\ ~(WithCopy(n)' /\ WithPump(n)')
         /\ WithCopy(n)' \/ WithPump(n)' =>
              \A i \in DOMAIN Output : received'[Output[i]] = received'[n] => Output[i] < n
    BY <2>1, <2>2, <2>3, <2>4, <2>5 DEF NothingLost, In
  <2>8. \A t \in Streams : inHand'[t] # 0 => inHand'[t] \in Received' /\ received'[inHand'[t]] = t
    BY <2>1, <2>2 DEF NothingLost
  <2> QED
    BY <2>2, <2>1, <2>5, <2>6, <2>7, <2>8 DEF NothingLost
<1>2. ASSUME NEW how \in {"exit", "error"}, ReceiveEnd(how) PROVE NothingLost'
  <2>1. UNCHANGED <<sink, drain, received, inHand, Output>> /\ pump = "receive" /\ pump' = "done"
    BY <1>2 DEF ReceiveEnd, Output
  <2>2. \A n \in Received : ~WithPump(n) /\ ~WithPump(n)'
    BY <2>1 DEF WithPump, TypeOK, Received, Streams
  <2> QED
    BY <2>1, <2>2 DEF NothingLost, InOrder, In, WithCopy, Received
<1>3. CASE Receive \/ WaitReady \/ CallWait \/ Cancel \/ Over
  <2>1. UNCHANGED <<sink, received, inHand, pump, Output>> /\ (drain => drain')
    BY <1>3 DEF Receive, Settle, Join, Publish, WaitReady, CallWait, Cancel, Over, vars, Output
  <2> QED
    BY <2>1, SameOutput
<1>4. CASE NextChunk
  <2>1. Output' = Output
    BY <1>4, OutputMoves DEF NextChunk, Output
  <2> QED
    BY <1>4, <2>1, SameOutput DEF NextChunk
<1>5. CASE Discard
  <2>1. ~(sink = "stream" /\ ~drain)
    BY <1>5 DEF Discard, StageInv
  <2> QED
    BY <1>5, <2>1 DEF Discard, NothingLost
<1>6. ASSUME NEW s \in Streams, CopyRead(s) PROVE NothingLost'
  <2>1. UNCHANGED <<sink, drain, received, Output>> /\ pump = s /\ pump' = "receive"
    BY <1>6 DEF CopyRead, Output
  <2>2. inHand' = [inHand EXCEPT ![s] = Len(received)] /\ inHand[s] = 0
    BY <1>6 DEF CopyRead, HeldInv
  <2>3. Len(received) \in Received /\ received[Len(received)] = s
    BY <2>1 DEF HeldInv
  <2>4. \A n \in Received : /\ ~WithPump(n)'
                            /\ WithCopy(n)' <=> WithCopy(n) \/ WithPump(n)
    BY <2>1, <2>2, <2>3 DEF WithPump, WithCopy, TypeOK, Received, Streams
  <2>5. \A t \in Streams : inHand'[t] # 0 => inHand'[t] \in Received /\ received[inHand'[t]] = t
    BY <2>2, <2>3 DEF HeldInv, TypeOK
  <2> QED
    BY <2>1, <2>4, <2>5 DEF NothingLost, InOrder, In, Received
<1>7. ASSUME NEW s \in Streams, CopyEOF(s) \/ EmitCheck(s) PROVE NothingLost'
  <2>1. UNCHANGED <<sink, drain, received, inHand, pump, Output>>
    BY <1>7 DEF CopyEOF, EmitCheck, Output
  <2> QED
    BY <2>1, SameOutput
<1>8. ASSUME NEW s \in Streams, Emit(s) PROVE NothingLost'
  <2> SUFFICES ASSUME sink = "stream", ~drain PROVE NothingLost'
    BY <1>8 DEF Emit, NothingLost
  <2>1. UNCHANGED <<sink, drain, received, pump>> /\ inHand' = [inHand EXCEPT ![s] = 0]
    BY <1>8 DEF Emit
  <2>2. inHand[s] \in Frame /\ inHand[s] \in Received /\ received[inHand[s]] = s
    BY <1>8 DEF Emit, HeldInv, TypeOK, Frame
  <2>3. Output' = delivered \o Append(chunks, inHand[s])
    BY <1>8 DEF Emit, Output
  <2>4. PICK m \in Nat : m = Len(Output)
    BY <2>2, OutputGrows
  <2>5. /\ DOMAIN Output = 1..m /\ DOMAIN Output' = 1..(m + 1)
        /\ \A i \in 1..m : Output'[i] = Output[i]
        /\ Output'[m + 1] = inHand[s]
    BY <2>2, <2>3, <2>4, OutputGrows
  <2>6. WithCopy(inHand[s])
    BY <2>2 DEF WithCopy
  <2>7. /\ \A i \in 1..m : Output[i] \in Received
        /\ \A i \in 1..m : received[Output[i]] = s => Output[i] < inHand[s]
    BY <2>2, <2>5, <2>6 DEF NothingLost
  <2>8. \A i \in 1..(m + 1) : i \in 1..m \/ i = m + 1
    OBVIOUS
  <2>9. \A i \in DOMAIN Output' : Output'[i] \in Received
    BY <2>2, <2>5, <2>7, <2>8
  <2>10. InOrder(Output)'
    <3> SUFFICES ASSUME NEW i \in DOMAIN Output', NEW j \in DOMAIN Output', i < j,
                        received[Output'[i]] = received[Output'[j]]
                 PROVE Output'[i] < Output'[j]
      BY <2>1 DEF InOrder
    <3>1. i \in 1..m
      BY <2>5
    <3>2. CASE j \in 1..m
      BY <2>5, <3>1, <3>2 DEF NothingLost, InOrder
    <3>3. CASE j = m + 1
      BY <2>2, <2>5, <2>7, <3>1, <3>3
    <3> QED
      BY <2>5, <2>8, <3>2, <3>3
  <2>11. \A n \in Received : /\ WithPump(n)' <=> WithPump(n)
                             /\ WithCopy(n)' <=> WithCopy(n) /\ n # inHand[s]
    BY <2>1, <2>2 DEF WithPump, WithCopy, HeldInv, TypeOK, Received
  <2>12. \A n \in Received : In(n, Output)' <=> In(n, Output) \/ n = inHand[s]
    BY <2>5, <2>8 DEF In
  <2>13. ASSUME NEW n \in Received, WithCopy(n)' \/ WithPump(n)'
         PROVE \A i \in DOMAIN Output' : received[Output'[i]] = received[n] => Output'[i] < n
    <3>1. \A i \in 1..m : received[Output[i]] = received[n] => Output[i] < n
      BY <2>5, <2>11, <2>13 DEF NothingLost
    <3>2. received[n] = s => inHand[s] < n
      BY <2>1, <2>2, <2>11, <2>13 DEF WithCopy, WithPump, HeldInv, Received, TypeOK
    <3> QED
      BY <2>2, <2>5, <2>8, <3>1, <3>2
  <2>14. \A t \in Streams : inHand'[t] # 0 => inHand'[t] \in Received /\ received[inHand'[t]] = t
    BY <2>1 DEF HeldInv, TypeOK
  <2> QED
    BY <2>1, <2>9, <2>10, <2>11, <2>12, <2>13, <2>14 DEF NothingLost, Received
<1>9. ASSUME NEW s \in Streams, EmitDrained(s) PROVE NothingLost'
  BY <1>9 DEF EmitDrained, NothingLost
<1> QED
  BY <1>1, <1>2, <1>3, <1>4, <1>5, <1>6, <1>7, <1>8, <1>9 DEF Next, Pump, Consume, Copy

-----------------------------------------------------------------------------
LEMMA InitInv == ASSUME Init PROVE IInv
<1> USE RunStreamAssumption DEF Init
<1>1. TypeOK
  <2>1. user \in {"next", "wait"}
    OBVIOUS
  <2>2. <<>> \in Seq(Streams) /\ <<>> \in Seq(Frame) /\ Len(<<>>) = 0
    OBVIOUS
  <2>3. received \in Seq(Streams) /\ chunks \in Seq(Frame) /\ delivered \in Seq(Frame)
    BY <2>2
  <2>4. Len(received) <= MaxFrames /\ Len(chunks) <= BufferSize /\ 0 \in 0..MaxFrames
    BY <2>2
  <2>5. inHand \in [Streams -> 0..MaxFrames]
    BY <2>4
  <2>6. copier \in [Streams -> {"read", "check", "emit", "done"}]
    OBVIOUS
  <2> QED
    BY <2>1, <2>3, <2>4, <2>5, <2>6 DEF TypeOK
<1>2. HeldInv
  BY DEF HeldInv, Streams
<1>3. StageInv
  BY DEF StageInv
<1>4. Output = <<>> /\ Received = {}
  BY DEF Output, Received
<1> QED
  BY <1>1, <1>2, <1>3, <1>4 DEF IInv, NothingLost, InOrder

LEMMA StutterInv == ASSUME IInv, UNCHANGED vars PROVE IInv'
<1> USE DEF IInv, vars, feed, copies, channel, outcome, program
<1>1. TypeOK' /\ StageInv'
  BY DEF TypeOK, StageInv
<1>2. Output' = Output
  BY DEF Output
<1> QED
  BY <1>1, <1>2, SameHeld, SameOutput

LEMMA Invariance == Spec => []IInv
<1>1. IInv /\ [Next]_vars => IInv'
  BY TypeStep, StageStep, HeldStep, LostStep, StutterInv DEF IInv
<1> QED
  BY <1>1, InitInv, PTL DEF Spec

\* Every variable stays in its type; in particular the chunk channel never holds
\* more than streamBufferSize chunks (run.go, emit).
THEOREM TypeCorrect == Spec => []TypeOK
<1>1. IInv => TypeOK
  BY DEF IInv
<1> QED
  BY <1>1, Invariance, PTL

\* No copy can send on the closed chunk channel, and whoever is told that the
\* result is ready finds it (receiveRunHandle).
THEOREM ResultCorrect == Spec => []ResultBeforeReady
<1>1. IInv => ResultBeforeReady
  BY DEF IInv, StageInv, ResultBeforeReady
<1> QED
  BY <1>1, Invariance, PTL

\* Until Wait drains, no frame is lost, duplicated or overtaken between
\* pumpResponses and Stream.Next.
THEOREM OutputCorrect == Spec => []NothingLost
<1>1. IInv => NothingLost
  BY DEF IInv
<1> QED
  BY <1>1, Invariance, PTL

\* When Stream.Next reports the end it has returned every frame, in order.
THEOREM EndCorrect == Spec => []EndAfterOutput
<1>1. ASSUME IInv, user = "eof" PROVE InOrder(delivered) /\ \A n \in Received : In(n, delivered)
  <2>1. sink = "stream" /\ ~drain /\ closed /\ chunks = <<>> /\ pump = "done"
    BY <1>1 DEF IInv, StageInv
  <2>2. \A s \in Streams : inHand[s] = 0
    BY <1>1, <2>1 DEF IInv, StageInv, HeldInv
  <2>3. Output = delivered
    BY <1>1, <2>1 DEF Output, IInv, TypeOK
  <2>4. \A n \in Received : ~WithCopy(n) /\ ~WithPump(n)
    BY <1>1, <2>1, <2>2 DEF WithCopy, WithPump, IInv, TypeOK, Received, Streams
  <2> QED
    BY <1>1, <2>1, <2>3, <2>4 DEF IInv, NothingLost
<1>2. IInv => EndAfterOutput
  BY <1>1 DEF EndAfterOutput
<1> QED
  BY <1>2, Invariance, PTL
=============================================================================
