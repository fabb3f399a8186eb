--------------------------- MODULE ResilientTunnel ---------------------------
(***************************************************************************)
(* A host-port tunnel that reconnects (sandbox/tunnel.go:303-519).         *)
(*                                                                         *)
(* reconnectLoop waits for the current HostPortTunnel to terminate and     *)
(* opens another one; any number of goroutines may Close it meanwhile, the *)
(* caller's context may end, and listeners may subscribe at any time.  One *)
(* step is one locked section, one channel operation or one remote call.   *)
(* Delays and state events are left out: they change no state.             *)
(***************************************************************************)
EXTENDS Integers, FiniteSets

CONSTANTS
  Tunnels,       \* identities of HostPortTunnel values (bound)
  Closers,       \* goroutines that call Close, each once
  Listeners,     \* callbacks given to OnTerminated
  Loop,          \* the reconnectLoop goroutine
  None

Procs == Closers \cup {Loop}

\* What the engine says when it ends a tunnel, and the reason the SDK reports.
MapTermination ==
  [keepalive_timeout |-> "timeout", session_lost |-> "engine_terminated",
   engine_draining |-> "engine_draining", bind_failed |-> "host_error",
   other |-> "engine_terminated"]

Reasons == {"sdk_closed", "transport_error", "timeout", "engine_terminated",
            "engine_draining", "host_error"}

\* Variant: a tunnel that timed out is given up.
ReconnectsNoTimeout(reason) ==
  reason \in {"transport_error", "engine_terminated", "engine_draining"}

\* shouldReconnectTunnel
ShouldReconnect(reason) ==
  reason \in {"transport_error", "engine_terminated", "engine_draining", "timeout"}

ASSUME TunnelAssumption ==
  /\ Tunnels # {} /\ Loop \notin Closers
  /\ None \notin Tunnels \cup Reasons \cup Procs \cup {"done"}
  /\ "done" \notin Procs

VARIABLES
  ctx,      \* "live" or "cancelled"
  tunnel,   \* each HostPortTunnel: "unused", "open", or its termination reason
  current, state,
  once,     \* termOnce: None, the goroutine inside, or "done"
  done, term,
  onTerm,   \* listeners waiting to be called
  calling,  \* listeners finish is about to call
  late,     \* listeners that subscribed to a tunnel already over
  called,   \* how often each listener was called
  pc,
  hand      \* the tunnel each goroutine holds (the loop: also its next one)
            \* and the termination it has in hand

inner == <<tunnel, current>>
ending == <<once, done, term>>
listening == <<onTerm, calling, late, called>>
control == <<pc, hand>>
vars == <<ctx, state, inner, ending, listening, control>>

Goto(p, label) == pc' = [pc EXCEPT ![p] = label]

\* ExposeHostPortResilient has opened its first tunnel and started the loop.
Init ==
  /\ ctx = "live"
  /\ current = CHOOSE t \in Tunnels : TRUE
  /\ tunnel = [t \in Tunnels |-> IF t = current THEN "open" ELSE "unused"]
  /\ state = "open"
  /\ once = None /\ done = FALSE /\ term = None
  /\ onTerm = {} /\ calling = {} /\ late = {} /\ called = [l \in Listeners |-> 0]
  /\ pc = [p \in Procs |-> IF p = Loop THEN "read" ELSE "idle"]
  /\ hand = [p \in Procs |-> [tunnel |-> None, term |-> None]]

Over(t) == tunnel[t] \notin {"unused", "open"}

-----------------------------------------------------------------------------
(* HostPortTunnel.forward ends the inner tunnel, once.                     *)

\* a terminated frame
Terminated(t, how) ==
  /\ tunnel[t] = "open"
  /\ tunnel' = [tunnel EXCEPT ![t] = MapTermination[how]]
  /\ UNCHANGED <<ctx, state, current, ending, listening, control>>

\* Receive fails: the connection is lost, or the context the stream was opened
\* with has ended
StreamLost(t) ==
  /\ tunnel[t] = "open"
  /\ tunnel' = [tunnel EXCEPT ![t] = "transport_error"]
  /\ UNCHANGED <<ctx, state, current, ending, listening, control>>

\* the context given to ExposeHostPortResilient ends
ParentCancel ==
  /\ ctx = "live"
  /\ ctx' = "cancelled"
  /\ UNCHANGED <<state, inner, ending, listening, control>>

-----------------------------------------------------------------------------
(* reconnectLoop.                                                          *)

LoopRead ==
  /\ pc[Loop] = "read"
  /\ hand' = [hand EXCEPT ![Loop].tunnel = current]
  /\ Goto(Loop, "await")
  /\ UNCHANGED <<ctx, state, inner, ending, listening>>

\* Variant: the loop reconnects without waiting for the current tunnel to end.
LoopAwaitNothing ==
  /\ pc[Loop] = "await"
  /\ hand' = [hand EXCEPT ![Loop].term =
       IF Over(hand[Loop].tunnel) THEN tunnel[hand[Loop].tunnel] ELSE "timeout"]
  /\ Goto(Loop, "check")
  /\ UNCHANGED <<ctx, state, inner, ending, listening>>

\* <-current.Terminated()
LoopAwait ==
  /\ pc[Loop] = "await" /\ Over(hand[Loop].tunnel)
  /\ hand' = [hand EXCEPT ![Loop].term = tunnel[hand[Loop].tunnel]]
  /\ Goto(Loop, "check")
  /\ UNCHANGED <<ctx, state, inner, ending, listening>>

LoopCheck ==
  /\ pc[Loop] = "check"
  /\ Goto(Loop, IF ctx = "cancelled" THEN "ended"
                ELSE IF ShouldReconnect(hand[Loop].term) THEN "retry" ELSE "finish")
  /\ UNCHANGED <<ctx, state, inner, ending, listening, hand>>

\* setState(Reconnecting)
LoopRetry ==
  /\ pc[Loop] = "retry"
  /\ state' = "reconnecting"
  /\ Goto(Loop, "backoff")
  /\ UNCHANGED <<ctx, inner, ending, listening, hand>>

\* the timer, or the end of the context; select may take either
LoopBackoff ==
  /\ pc[Loop] = "backoff"
  /\ \/ ctx = "cancelled" /\ Goto(Loop, "ended")
     \/ Goto(Loop, "opening")
  /\ UNCHANGED <<ctx, state, inner, ending, listening, hand>>

\* A tunnel nothing refers to is collected and its slot reused.
Unreferenced(t) ==
  /\ tunnel[t] # "open" /\ t # current
  /\ \A p \in Procs : hand[p].tunnel # t

\* ExposeHostPort
LoopOpen ==
  /\ pc[Loop] = "opening"
  /\ \/ /\ hand' = [hand EXCEPT ![Loop].term = "transport_error"]
        /\ Goto(Loop, "retry")
        /\ UNCHANGED tunnel
     \/ LET free == {t \in Tunnels : Unreferenced(t)}
            next == CHOOSE t \in free : TRUE
        IN
          /\ ctx = "live" /\ free # {}
          /\ tunnel' = [t \in Tunnels |-> IF t = next THEN "open"
                                         ELSE IF t \in free THEN "unused" ELSE tunnel[t]]
          /\ hand' = [hand EXCEPT ![Loop].tunnel = next]
          /\ Goto(Loop, "install")
  /\ UNCHANGED <<ctx, state, current, ending, listening>>

LoopInstall ==
  /\ pc[Loop] = "install"
  /\ current' = hand[Loop].tunnel
  /\ state' = "open"
  /\ Goto(Loop, "read")
  /\ UNCHANGED <<ctx, tunnel, ending, listening, hand>>

-----------------------------------------------------------------------------
(* Close.                                                                  *)

\* Variant: Close does not cancel the context.
CloseUncancelled(p) ==
  /\ pc[p] = "idle" /\ p \in Closers
  /\ Goto(p, "closeRead")
  /\ UNCHANGED <<ctx, state, inner, ending, listening, hand>>

CloseCancel(p) ==
  /\ pc[p] = "idle" /\ p \in Closers
  /\ ctx' = "cancelled"
  /\ Goto(p, "closeRead")
  /\ UNCHANGED <<state, inner, ending, listening, hand>>

CloseRead(p) ==
  /\ pc[p] = "closeRead"
  /\ hand' = [hand EXCEPT ![p].tunnel = current]
  /\ Goto(p, "closeCurrent")
  /\ UNCHANGED <<ctx, state, inner, ending, listening>>

\* current.Close(), whose own finish does nothing once forward has finished
CloseCurrent(p) ==
  LET t == hand[p].tunnel IN
  /\ pc[p] = "closeCurrent"
  /\ tunnel' = [tunnel EXCEPT ![t] = IF @ = "open" THEN "sdk_closed" ELSE @]
  /\ hand' = [hand EXCEPT ![p] = [tunnel |-> None, term |-> "sdk_closed"]]
  /\ Goto(p, "finish")
  /\ UNCHANGED <<ctx, state, current, ending, listening>>

-----------------------------------------------------------------------------
(* finish and OnTerminated.                                                *)

Finished(p) == Goto(p, IF p = Loop THEN "ended" ELSE "returned")

\* termOnce: the first goes in, the others wait for it
FinishEnter(p) ==
  /\ pc[p] = "finish"
  /\ \/ once = None /\ once' = p /\ Goto(p, "finState")
     \/ once = "done" /\ Finished(p) /\ UNCHANGED once
  /\ UNCHANGED <<ctx, state, inner, done, term, listening, hand>>

FinishState(p) ==
  /\ pc[p] = "finState"
  /\ state' = "closed"
  /\ Goto(p, "finDone")
  /\ UNCHANGED <<ctx, inner, ending, listening, hand>>

\* under termMu; the send on the buffered termCh and its close follow
FinishDone(p) ==
  /\ pc[p] = "finDone"
  /\ done' = TRUE /\ term' = hand[p].term
  /\ calling' = calling \cup onTerm /\ onTerm' = {}
  /\ Goto(p, "finCall")
  /\ UNCHANGED <<ctx, state, inner, once, late, called, hand>>

\* the callbacks have been called one after another
FinishCalled(p) ==
  /\ pc[p] = "finCall" /\ calling = {}
  /\ once' = "done"
  /\ Finished(p)
  /\ UNCHANGED <<ctx, state, inner, done, term, listening, hand>>

Subscribed(l) == l \in onTerm \cup calling \cup late \/ called[l] > 0

\* Variant: a callback is only ever registered.
OnTerminatedLate(l) ==
  /\ ~Subscribed(l)
  /\ onTerm' = onTerm \cup {l}
  /\ UNCHANGED <<ctx, state, inner, ending, calling, late, called, control>>

\* A callback is registered, or called by its own goroutine when the tunnel is over.
OnTerminated(l) ==
  /\ ~Subscribed(l)
  /\ IF done THEN late' = late \cup {l} /\ UNCHANGED onTerm
             ELSE onTerm' = onTerm \cup {l} /\ UNCHANGED late
  /\ UNCHANGED <<ctx, state, inner, ending, calling, called, control>>

Call(l) ==
  /\ l \in calling \cup late
  /\ calling' = calling \ {l} /\ late' = late \ {l}
  /\ called' = [called EXCEPT ![l] = @ + 1]
  /\ UNCHANGED <<ctx, state, inner, ending, onTerm, control>>

-----------------------------------------------------------------------------
LoopStep ==
  \/ LoopRead \/ LoopAwait \/ LoopCheck \/ LoopRetry \/ LoopBackoff \/ LoopOpen \/ LoopInstall
FinishStep(p) == FinishEnter(p) \/ FinishState(p) \/ FinishDone(p) \/ FinishCalled(p)
CloseStep(p) == CloseRead(p) \/ CloseCurrent(p)

\* Nothing is left to do: the loop has ended, all have closed and subscribed.
AllDone ==
  /\ pc[Loop] = "ended" /\ \A p \in Closers : pc[p] = "returned"
  /\ \A l \in Listeners : called[l] > 0
  /\ \A t \in Tunnels : tunnel[t] # "open"
  /\ UNCHANGED vars

Next ==
  \/ LoopStep \/ ParentCancel \/ AllDone
  \/ \E t \in Tunnels : StreamLost(t) \/ \E how \in DOMAIN MapTermination : Terminated(t, how)
  \/ \E p \in Procs : FinishStep(p)
  \/ \E p \in Closers : CloseCancel(p) \/ CloseStep(p)
  \/ \E l \in Listeners : OnTerminated(l) \/ Call(l)

Spec == Init /\ [][Next]_vars

\* Goroutines that can go on do; a stream whose context has ended fails; a
\* select with a cancelled context does not prefer its timer for ever.
Fairness ==
  /\ WF_vars(LoopStep)
  /\ SF_vars(LoopBackoff /\ ctx = "cancelled" /\ pc'[Loop] = "ended")
  /\ \A p \in Procs : WF_vars(FinishStep(p)) /\ WF_vars(CloseStep(p))
  /\ \A t \in Tunnels : WF_vars(ctx = "cancelled" /\ StreamLost(t))
  /\ \A l \in Listeners : WF_vars(Call(l))

FairSpec == Spec /\ Fairness

-----------------------------------------------------------------------------
\* Every variable stays in its type.
TypeOK ==
  /\ ctx \in {"live", "cancelled"}
  /\ tunnel \in [Tunnels -> Reasons \cup {"unused", "open"}]
  /\ current \in Tunnels
  /\ state \in {"open", "reconnecting", "closed"}
  /\ once \in Procs \cup {None, "done"}
  /\ done \in BOOLEAN /\ term \in Reasons \cup {None}
  /\ onTerm \subseteq Listeners /\ calling \subseteq Listeners /\ late \subseteq Listeners
  /\ called \in [Listeners -> Nat]
  /\ hand \in [Procs -> [tunnel : Tunnels \cup {None}, term : Reasons \cup {None}]]
  /\ pc \in [Procs -> {"read", "await", "check", "retry", "backoff", "opening", "install",
                       "ended", "idle", "closeRead", "closeCurrent", "finish", "finState",
                       "finDone", "finCall", "returned"}]

\* A new tunnel is opened only when the one before it is over, also when Close
\* and the end of the context race the reconnect: the sandbox port is never
\* forwarded twice.
OneOpen == \A t, u \in Tunnels : tunnel[t] = "open" /\ tunnel[u] = "open" => t = u

\* The tunnel is reported terminated only by a Close or for a reason that is not
\* worth a reconnect; a lost, drained or silent engine never ends it.
FinalReason == done => term \in {"sdk_closed", "host_error"}

\* A listener is called exactly once, whether it subscribes before, during or
\* after the termination.
Notified == \A l \in Listeners : done /\ Subscribed(l) ~> [](called[l] = 1)

\* Close returns, the loop ends and no tunnel is left open: the one that was
\* being opened while Close closed its predecessor is torn down as well.
CloseReleases ==
  \A p \in Closers : pc[p] = "closeRead" ~>
    [](pc[Loop] = "ended" /\ pc[p] = "returned" /\ \A t \in Tunnels : tunnel[t] # "open")
=============================================================================
