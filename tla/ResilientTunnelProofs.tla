------------------------ MODULE ResilientTunnelProofs ------------------------
(***************************************************************************)
(* Proofs about ResilientTunnel for any number of tunnels, of goroutines   *)
(* that call Close and of listeners: its type invariant, that the sandbox  *)
(* port is never forwarded twice, and that only final reasons are reported.*)
(***************************************************************************)
EXTENDS ResilientTunnel, TLAPS

\* What the loop holds: the tunnel it waits for is the current one, the one it
\* installs exists, and it judges a real reason.
LoopHolds ==
  /\ pc[Loop] = "await" => hand[Loop].tunnel = current
  /\ pc[Loop] = "install" => hand[Loop].tunnel \in Tunnels
  /\ pc[Loop] = "check" => hand[Loop].term \in Reasons

\* Only the tunnel the loop waits for, or is about to install, can be open.
OpenIsLoops ==
  \A t \in Tunnels : tunnel[t] = "open" =>
    \/ pc[Loop] \in {"read", "await"} /\ t = current
    \/ pc[Loop] = "install" /\ t = hand[Loop].tunnel

Final == {"sdk_closed", "host_error"}

\* Whoever is about to report a termination has a final reason in hand.
FinishHolds ==
  \A p \in Procs : pc[p] \in {"finish", "finState", "finDone"} => hand[p].term \in Final

Inv == TypeOK /\ LoopHolds /\ OpenIsLoops /\ FinishHolds /\ FinalReason

LEMMA MapTerminationType == ASSUME NEW how \in DOMAIN MapTermination
                            PROVE  MapTermination[how] \in Reasons
  BY DEF MapTermination, Reasons

LEMMA InitInv == Init => Inv
<1> SUFFICES ASSUME Init PROVE Inv
  OBVIOUS
<1>1. current \in Tunnels
  BY TunnelAssumption DEF Init
<1> QED
  BY <1>1 DEF Init, Inv, TypeOK, LoopHolds, OpenIsLoops, FinishHolds, FinalReason, Procs

\* The steps of the reconnect loop.
LEMMA LoopInv == ASSUME Inv, LoopStep PROVE Inv'
<1> USE TunnelAssumption DEF Inv, TypeOK, LoopHolds, OpenIsLoops, FinishHolds, FinalReason, Procs,
                             Goto, inner, ending, listening, control
<1>1. CASE LoopRead
  BY <1>1 DEF LoopRead
<1>2. CASE LoopAwait
  <2>1. tunnel[current] \in Reasons
    BY <1>2 DEF LoopAwait, Over
  <2> QED
    BY <1>2, <2>1 DEF LoopAwait, Over, Reasons
<1>3. CASE LoopCheck
  BY <1>3 DEF LoopCheck, ShouldReconnect, Reasons, Final
<1>4. CASE LoopRetry
  BY <1>4 DEF LoopRetry
<1>5. CASE LoopBackoff
  BY <1>5 DEF LoopBackoff
<1>6. CASE LoopOpen
  <2>1. CASE UNCHANGED tunnel /\ hand' = [hand EXCEPT ![Loop].term = "transport_error"] /\ pc' = [pc EXCEPT ![Loop] = "retry"]
    BY <1>6, <2>1 DEF LoopOpen, Reasons
  <2>2. CASE ~(UNCHANGED tunnel /\ hand' = [hand EXCEPT ![Loop].term = "transport_error"] /\ pc' = [pc EXCEPT ![Loop] = "retry"])
    <3>1. PICK next \in Tunnels :
            /\ tunnel[next] # "open"
            /\ tunnel' = [t \in Tunnels |-> IF t = next THEN "open"
                            ELSE IF Unreferenced(t) THEN "unused" ELSE tunnel[t]]
            /\ hand' = [hand EXCEPT ![Loop].tunnel = next]
            /\ pc' = [pc EXCEPT ![Loop] = "install"]
      <4> DEFINE free == {t \in Tunnels : Unreferenced(t)}
                 next == CHOOSE t \in free : TRUE
      <4>1. free # {}
        BY <1>6, <2>2 DEF LoopOpen
      <4>2. next \in Tunnels /\ Unreferenced(next)
        BY <4>1
      <4>3. /\ tunnel' = [t \in Tunnels |-> IF t = next THEN "open"
                              ELSE IF t \in free THEN "unused" ELSE tunnel[t]]
            /\ hand' = [hand EXCEPT ![Loop].tunnel = next]
            /\ pc' = [pc EXCEPT ![Loop] = "install"]
        BY <1>6, <2>2, Zenon DEF LoopOpen
      <4>4. tunnel[next] # "open"
        BY <4>2 DEF Unreferenced
      <4>5. \A t \in Tunnels : t \in free <=> Unreferenced(t)
        OBVIOUS
      <4> HIDE DEF next, free
      <4>6. tunnel' = [t \in Tunnels |-> IF t = next THEN "open"
                         ELSE IF Unreferenced(t) THEN "unused" ELSE tunnel[t]]
        BY <4>3, <4>5
      <4> QED
        BY <4>2, <4>3, <4>4, <4>6
    <3>2. pc[Loop] = "opening" /\ UNCHANGED <<ctx, state, current, ending, listening>>
      BY <1>6 DEF LoopOpen
    <3>3. \A t \in Tunnels : tunnel[t] # "open"
      BY <3>2
    <3> QED
      BY <3>1, <3>2, <3>3
  <2> QED
    BY <2>1, <2>2
<1>7. CASE LoopInstall
  BY <1>7 DEF LoopInstall
<1> QED
  BY <1>1, <1>2, <1>3, <1>4, <1>5, <1>6, <1>7 DEF LoopStep

\* The steps of Close, finish and the listeners.
LEMMA CloseInv == ASSUME Inv, NEW p \in Closers, CloseCancel(p) \/ CloseStep(p) PROVE Inv'
<1> USE TunnelAssumption DEF Inv, TypeOK, LoopHolds, OpenIsLoops, FinishHolds, FinalReason, Procs,
                             Goto, inner, ending, listening, control
<1>1. CASE CloseCancel(p)
  BY <1>1 DEF CloseCancel
<1>2. CASE CloseRead(p)
  BY <1>2 DEF CloseRead
<1>3. CASE CloseCurrent(p)
  <2>1. p # Loop /\ p \in Procs
    OBVIOUS
  <2>2. /\ hand' = [hand EXCEPT ![p] = [tunnel |-> None, term |-> "sdk_closed"]]
        /\ pc' = [pc EXCEPT ![p] = "finish"]
        /\ UNCHANGED <<ctx, state, current, ending, listening>>
    BY <1>3 DEF CloseCurrent
  <2>3. /\ DOMAIN tunnel' = Tunnels
        /\ \A t \in Tunnels : tunnel'[t] = tunnel[t] \/ (tunnel[t] = "open" /\ tunnel'[t] = "sdk_closed")
    BY <1>3 DEF CloseCurrent
  <2>4. tunnel' \in [Tunnels -> Reasons \cup {"unused", "open"}]
    <3> HIDE DEF Inv, LoopHolds, OpenIsLoops, FinishHolds, FinalReason
    <3> DEFINE Lives == Reasons \cup {"unused", "open"}
    <3>1. "sdk_closed" \in Lives
      BY DEF Reasons
    <3>2. tunnel \in [Tunnels -> Lives]
      BY DEF Inv
    <3>3. tunnel' = [tunnel EXCEPT ![hand[p].tunnel] = IF @ = "open" THEN "sdk_closed" ELSE @]
      BY <1>3 DEF CloseCurrent
    <3> HIDE DEF Lives
    <3>4. tunnel' \in [Tunnels -> Lives]
      BY <3>1, <3>2, <3>3
    <3> QED
      BY <3>4 DEF Lives
  <2>5. hand' \in [Procs -> [tunnel : Tunnels \cup {None}, term : Reasons \cup {None}]]
    BY <2>1, <2>2 DEF Reasons
  <2>6. TypeOK' /\ LoopHolds' /\ OpenIsLoops'
    BY <2>1, <2>2, <2>3, <2>4, <2>5
  <2>7. FinishHolds' /\ FinalReason'
    BY <2>1, <2>2 DEF Final
  <2> QED
    BY <2>6, <2>7
<1> QED
  BY <1>1, <1>2, <1>3 DEF CloseStep

LEMMA FinishInv == ASSUME Inv, NEW p \in Procs, FinishStep(p) PROVE Inv'
<1> USE TunnelAssumption DEF Inv, TypeOK, LoopHolds, OpenIsLoops, FinishHolds, FinalReason, Procs,
                             Goto, Finished, inner, ending, listening, control
<1>1. CASE FinishEnter(p)
  BY <1>1 DEF FinishEnter
<1>2. CASE FinishState(p)
  BY <1>2 DEF FinishState
<1>3. CASE FinishDone(p)
  BY <1>3 DEF FinishDone, Final
<1>4. CASE FinishCalled(p)
  BY <1>4 DEF FinishCalled
<1> QED
  BY <1>1, <1>2, <1>3, <1>4 DEF FinishStep

LEMMA ListenInv == ASSUME Inv, NEW l \in Listeners, OnTerminated(l) \/ Call(l) PROVE Inv'
<1> USE DEF Inv, TypeOK, LoopHolds, OpenIsLoops, FinishHolds, FinalReason, inner, ending, control
<1>1. CASE OnTerminated(l)
  BY <1>1 DEF OnTerminated
<1>2. CASE Call(l)
  BY <1>2 DEF Call
<1> QED
  BY <1>1, <1>2

\* The inner tunnel ends by itself.
LEMMA EndInv == ASSUME Inv, NEW t \in Tunnels, NEW reason \in Reasons,
                       tunnel' = [tunnel EXCEPT ![t] = reason],
                       UNCHANGED <<ctx, state, current, ending, listening, control>>
                PROVE  Inv'
  BY DEF Inv, TypeOK, LoopHolds, OpenIsLoops, FinishHolds, FinalReason, ending, listening, control, Reasons

LEMMA NextInv == Inv /\ [Next]_vars => Inv'
<1> SUFFICES ASSUME Inv, [Next]_vars PROVE Inv'
  OBVIOUS
<1>1. CASE LoopStep
  BY <1>1, LoopInv
<1>2. CASE ParentCancel
  BY <1>2 DEF ParentCancel, Inv, TypeOK, LoopHolds, OpenIsLoops, FinishHolds, FinalReason,
              inner, ending, listening, control
<1>3. ASSUME NEW t \in Tunnels, StreamLost(t) PROVE Inv'
  BY <1>3, EndInv DEF StreamLost, Reasons
<1>4. ASSUME NEW t \in Tunnels, NEW how \in DOMAIN MapTermination, Terminated(t, how) PROVE Inv'
  BY <1>4, EndInv, MapTerminationType DEF Terminated
<1>5. ASSUME NEW p \in Procs, FinishStep(p) PROVE Inv'
  BY <1>5, FinishInv
<1>6. ASSUME NEW p \in Closers, CloseCancel(p) \/ CloseStep(p) PROVE Inv'
  BY <1>6, CloseInv
<1>7. ASSUME NEW l \in Listeners, OnTerminated(l) \/ Call(l) PROVE Inv'
  BY <1>7, ListenInv
<1>8. CASE UNCHANGED vars
  BY <1>8 DEF vars, Inv, TypeOK, LoopHolds, OpenIsLoops, FinishHolds, FinalReason,
              inner, ending, listening, control
<1> QED
  BY <1>1, <1>2, <1>3, <1>4, <1>5, <1>6, <1>7, <1>8 DEF Next, AllDone

LEMMA InvHolds == Spec => []Inv
  BY InitInv, NextInv, PTL DEF Spec

\* The sandbox port is never forwarded twice, however reconnects, Closes and
\* the end of the context race: whatever is open is the one tunnel the loop holds.
THEOREM OneOpenCorrect == Spec => []OneOpen
<1>1. Inv => OneOpen
  BY DEF Inv, OpenIsLoops, OneOpen
<1> QED
  BY <1>1, InvHolds, PTL

\* A termination is reported only for a reason that is not worth a reconnect.
THEOREM FinalReasonCorrect == Spec => []FinalReason
<1>1. Inv => FinalReason
  BY DEF Inv
<1> QED
  BY <1>1, InvHolds, PTL
=============================================================================
