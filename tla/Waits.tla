--------------------------------- MODULE Waits ---------------------------------
(***************************************************************************)
(* Client.Create and the SDK's waits: for a session to become ready,       *)
(* paused or resumed (sandbox/session.go:1004-1299), a snapshot ready or   *)
(* durable, a volume ready, detached or deleted and a template built       *)
(* (sandbox.go, snapshot.go, volume.go, template.go), against an engine    *)
(* whose reads come from a replica that lags.  Time is counted in ticks of *)
(* about a second: a backoff takes one, two where the code polls every two *)
(* seconds, and DeleteVolume's doubles; a call takes at most one unless    *)
(* its connection stalls, and reads at some moment of it, so that its      *)
(* answer may be stale.  The operation begins at time 0.                   *)
(***************************************************************************)
EXTENDS Integers, Sequences, FiniteSetsExt

CONSTANTS
  Ops,        \* what the program may do, one of AllOps
  Timeout,    \* the timeout of a wait
  CreateTimeout, \* the waitTimeout of Create
  Transport,  \* the timeout of the SDK's HTTP client; 0: none
  Grace,      \* pauseRevertGrace, resumeRevertGrace
  Attempt,    \* waitPollAttemptTimeout
  DeleteTimeout, \* maxElapsed of DeleteVolume
  BackoffCap, \* below it a backoff of DeleteVolume doubles the next one
  Lag,        \* how long a replica may serve a state that is over
  MaxFaults,  \* calls that stall or fail for a while (bound)
  MaxChanges, \* states the resource goes through (bound)
  MaxTime     \* bound on the clock

SessionOps == {"create", "ready", "pause", "resume"}
\* WaitSnapshotReady, WaitForSnapshotDurable, WaitVolumeReady, DetachVolume,
\* DeleteVolume, and waitForTemplateBuild with an event handler (without one it
\* does the same but for Replay).
AllOps == SessionOps \cup {"snapshot", "durable", "volume", "detach", "delete", "build"}

ASSUME WaitsAssumption ==
  /\ Ops \subseteq AllOps
  /\ {Transport, Grace, Lag, MaxFaults, MaxChanges, MaxTime} \subseteq Nat
  /\ {Timeout, CreateTimeout, DeleteTimeout, BackoffCap, Attempt} \subseteq Nat \ {0}

VARIABLES
  op, limit,  \* the operation and its timeout; 0: see Unbounded
  now,
  hist,       \* the states the resource went through, with the time each began
  served,     \* the state of hist the replica served last
  pc, due,    \* where the wait is, and when what it is doing ends at the latest
  start,      \* when the wait began: at 0 but for Create
  began,      \* when its polling began
  asked,      \* when the last call was made
  stalled,    \* the connection of the call under way does not answer in time
  faults,     \* calls that stalled or failed for a while
  saw,        \* sawPausing, sawResuming
  ctx,        \* the caller's context: "live" or "cancelled"
  view,       \* Session.State; for a detach, the volume in Session.VolumeMounts
  backoff,    \* how long the next backoff takes
  seen,       \* seenEvents
  given,      \* the events the handler was called with
  out         \* how the wait ended

call == <<op, limit>>
engine == <<call, now, hist, faults, ctx>>
replay == <<backoff, seen, given>>
poll == <<served, start, began, asked, stalled, saw, view, replay>>
vars == <<engine, poll, pc, due, out>>

IsReady(s) == s = "running"
IsTerminal(s) == s \in {"terminating", "terminated"}
Stopped == {"paused", "user_shutdown"}

Last == hist[Len(hist)]
Readying == op \in {"create", "ready"}
Unbounded == limit = 0

\* Variant: the poll is given the whole timeout again.
PollBudgetWhole == limit

\* what the stream has left of the timeout
PollBudget == limit - (began - start)

Deadline == began + PollBudget
\* DeleteVolume looks at its deadline only after a call
Expired == ~Unbounded /\ op # "delete" /\ now >= Deadline

Enter(label, until) == pc' = label /\ due' = until /\ UNCHANGED out
Return(how) == pc' = "done" /\ due' = now /\ out' = how

-----------------------------------------------------------------------------
(* The engine, its replica, the clock and the caller's context.            *)

Transitions ==
  {<<"absent", "creating">>, <<"creating", "running">>,
   <<"pausing", "paused">>, <<"pausing", "running">>, <<"resuming", "running">>, <<"resuming", "paused">>, <<"resuming", "user_shutdown">>,
   <<"terminating", "terminated">>}
    \cup {<<s, "terminating">> : s \in {"creating", "running", "paused", "resuming", "pausing"}}

\* A snapshot; for a durability wait one that is READY is told apart by its
\* DurabilityState, and "stalled" is DURABLE_CEPH with a PropagationError.
SnapshotTransitions ==
  {<<"creating", "failed">>, <<"deleting", "deleted">>}
    \cup IF op = "snapshot" THEN {<<"creating", "ready">>, <<"ready", "deleting">>}
         ELSE {<<"creating", "local">>, <<"creating", "untracked">>, <<"local", "ceph">>, <<"local", "durable">>,
               <<"local", "not_propagated">>, <<"ceph", "stalled">>, <<"ceph", "durable">>}
           \cup {<<s, "deleting">> : s \in {"local", "ceph", "durable", "stalled"}}
VolumeTransitions ==
  {<<"unspecified", "available">>, <<"available", "in_use">>, <<"in_use", "available">>,
   <<"available", "deleting">>, <<"deleting", "deleted">>}
\* the attachment: first its data is uploaded, later it is no longer returned
DetachTransitions == {<<"detaching", "detached">>, <<"detaching", "gone">>, <<"detached", "gone">>}
DeleteTransitions == {<<"syncing", "available">>, <<"available", "in_use">>, <<"in_use", "syncing">>}
\* a build records an event with every step
BuildTransitions ==
  {<<"pending", "building">>, <<"building", "building">>, <<"building", "ready">>,
   <<"pending", "failed">>, <<"building", "failed">>}

Moves ==
  CASE op \in SessionOps -> Transitions
    [] op \in {"snapshot", "durable"} -> SnapshotTransitions
    [] op = "volume" -> VolumeTransitions
    [] op = "detach" -> DetachTransitions
    [] op = "delete" -> DeleteTransitions
    [] op = "build" -> BuildTransitions

Event(s) == Append(hist, [state |-> s, at |-> now])

Change ==
  /\ pc # "done" /\ Len(hist) < MaxChanges
  /\ \E move \in Moves : move[1] = Last.state /\ hist' = Event(move[2])
  /\ UNCHANGED <<call, now, faults, ctx, poll, pc, due, out>>

\* What a call may have read since it was made: never older than the read before,
\* and no state that had then been over for longer than the lag.
Visible == {i \in served..Len(hist) : i = Len(hist) \/ asked - hist[i + 1].at <= Lag}

Tick ==
  /\ pc # "done"
  /\ now < Min({due, MaxTime})
  /\ now' = now + 1
  /\ UNCHANGED <<call, hist, faults, ctx, poll, pc, due, out>>

Cancel ==
  /\ ctx = "live" /\ pc # "done"
  /\ ctx' = "cancelled"
  /\ UNCHANGED <<call, now, hist, faults, poll, pc, due, out>>

-----------------------------------------------------------------------------
(* Client.Create.  The checks of its options are over; limit = 0 is the    *)
(* Create that waits for nothing.                                          *)

\* heldCreateContext: the request is held for less than the HTTP client's timeout
Held == IF Transport > 3 THEN Min({limit, Transport - 1}) ELSE limit

CreateEnds ==
  Min({MaxTime} \cup ({Transport, IF limit > 0 THEN Held ELSE 0} \ {0}))

\* CreateSession is answered: Create returns, or waits with the whole timeout.
Created ==
  /\ pc = "create" /\ Last.state # "absent"
  /\ view' = Last.state
  /\ start' = now /\ began' = now
  /\ \/ (limit = 0 \/ IsReady(view')) /\ Return("ok")
     \/ limit > 0 /\ IsTerminal(view') /\ Return("terminal")
     \/ /\ limit > 0 /\ ~IsReady(view') /\ ~IsTerminal(view')
        /\ Enter("stream", now + limit)
  /\ UNCHANGED <<engine, served, asked, stalled, saw, replay>>

\* mapCreateSessionError: only a failed template runtime comes with its session
CreateFailed(how) ==
  /\ pc = "create"
  /\ how = "runtime" => Last.state # "absent"
  /\ view' = IF how = "runtime" THEN Last.state ELSE view
  /\ Return(how)
  /\ UNCHANGED <<engine, served, start, began, asked, stalled, saw, replay>>

\* Variant: only a session that is ready is given to the caller.
HandsOverReady == op = "create" => out \in {"ok", "runtime"}

\* Does the caller get the session, as the result or in a WaitReadyFailedError or
\* TemplateRuntimeFailedError?
HandsOver ==
  op = "create" => out \in {"ok", "runtime"} \/ (view # "absent" /\ ~IsTerminal(view))

-----------------------------------------------------------------------------
(* waitReadyStream.                                                        *)

StreamEvent ==
  /\ pc = "stream"
  /\ view' = Last.state
  /\ served' = Len(hist)
  /\ \/ IsReady(view') /\ Return("ok")
     \/ IsTerminal(view') /\ Return("terminal")
     \/ ~IsReady(view') /\ ~IsTerminal(view') /\ UNCHANGED <<pc, due, out>>
  /\ UNCHANGED <<engine, start, began, asked, stalled, saw, replay>>

\* The stream closed without an error: the handle's own state decides, and if
\* it does not, polling goes on.  It ended with an error: WaitReady polls if
\* the error is retryable, the context lives and there is time left.
StreamEnd(how) ==
  /\ pc = "stream"
  /\ LET settled == how = "closed" /\ (IsReady(view) \/ IsTerminal(view)) IN
     \/ settled /\ IsReady(view) /\ Return("ok")
     \/ settled /\ IsTerminal(view) /\ Return("terminal")
     \/ ~settled /\ ctx = "cancelled" /\ Return("cancelled")
     \/ ~settled /\ ctx = "live" /\ (how = "fatal" \/ now >= start + limit) /\ Return("error")
     \/ ~settled /\ ctx = "live" /\ how # "fatal" /\ now < start + limit /\ Enter("check", now)
  /\ began' = now
  /\ UNCHANGED <<engine, served, start, asked, stalled, saw, view, replay>>

-----------------------------------------------------------------------------
(* The polls: waitReadyPoll, WaitPaused and WaitResumed.                   *)

\* Variant: a call has the whole budget.
CallEndsWhole == IF Readying THEN Deadline ELSE MaxTime

\* When a call that gets no answer is given up: WaitReady bounds each attempt,
\* the other waits do not.
CallEnds == IF Readying THEN Min({now + Attempt, Deadline}) ELSE MaxTime

\* the loop's condition, and the call
Check ==
  /\ pc = "check"
  /\ \/ Readying /\ ctx = "cancelled" /\ Return("cancelled") /\ UNCHANGED <<asked, stalled, faults>>
     \/ /\ Readying => ctx = "live"
        /\ Expired
        /\ Return("timeout") /\ UNCHANGED <<asked, stalled, faults>>
     \/ /\ Readying => ctx = "live"
        /\ ~Expired
        /\ \E stalls \in BOOLEAN :
             /\ stalls => faults < MaxFaults
             /\ asked' = now
             /\ stalled' = stalls
             /\ faults' = IF stalls THEN faults + 1 ELSE faults
             /\ Enter("get", IF stalls THEN CallEnds ELSE Min({now + 1, CallEnds}))
  /\ UNCHANGED <<call, now, hist, ctx, served, start, began, saw, view, replay>>

\* what the wait makes of the state it read
Goal(s) == IF op = "pause" THEN s = "paused" ELSE IsReady(s)
Underway(s) == (op = "pause" /\ s = "pausing") \/ (op = "resume" /\ s = "resuming")

\* Variant: a stopped state counts as a failed resume at once.
RevertedEager(s) == (op = "pause" /\ s = "running") \/ (op = "resume" /\ s \in Stopped)

Reverted(s) ==
  /\ (op = "pause" /\ s = "running") \/ (op = "resume" /\ s \in Stopped)
  /\ saw \/ now > Grace

\* what each of the other waits ends with, by the state it reads
SnapshotEnds == [ready |-> "ok", failed |-> "failed", deleted |-> "terminal"]
VolumeEnds == [available |-> "ok", deleted |-> "terminal"]

\* isVolumeDetached: an attachment that is not returned is detached
DetachEnds == [detached |-> "ok", gone |-> "ok"]

\* Variant: an upload that stalled is waited for.
DurableEndsSpinning ==
  [failed |-> "failed", deleting |-> "terminal", deleted |-> "terminal", durable |-> "ok",
   not_propagated |-> "not_durable", untracked |-> "not_durable"]

DurableEnds ==
  [failed |-> "failed", deleting |-> "terminal", deleted |-> "terminal", durable |-> "ok",
   stalled |-> "not_durable", not_propagated |-> "not_durable", untracked |-> "not_durable"]

BuildEnds == [ready |-> "ok", failed |-> "failed"]

EndsBy(ends, s) == IF s \in DOMAIN ends THEN ends[s] ELSE "wait"

Verdict(s) ==
  CASE op \in SessionOps ->
         IF Goal(s) THEN "ok" ELSE IF IsTerminal(s) THEN "terminal" ELSE IF Reverted(s) THEN "failed" ELSE "wait"
    [] op = "snapshot" -> EndsBy(SnapshotEnds, s)
    [] op = "durable" -> EndsBy(DurableEnds, s)
    [] op = "volume" -> EndsBy(VolumeEnds, s)
    [] op = "detach" -> EndsBy(DetachEnds, s)
    [] op = "build" -> EndsBy(BuildEnds, s)

\* pollBackoff; snapshotDurablePollInterval and templateBuildPollInterval
FirstBackoff == IF op \in {"durable", "build"} THEN 2 ELSE 1

Backoff == Enter("sleep", IF Readying THEN Min({now + 1, Deadline}) ELSE now + backoff)

Settle(s) == IF Verdict(s) = "wait" THEN Backoff ELSE Return(Verdict(s))

\* the events of the build in the i-th state of its history
Events(i) == 1..(i - 1)
Numbers(m, n) == [k \in 1..(n - m) |-> m + k]

\* Variant: every poll replays the build's events from the first one.
ReplayAgain(i) ==
  /\ seen' = Max(Events(i) \cup {0})
  /\ given' = given \o Numbers(0, seen')

\* the handler is called for the events it has not seen yet
Replay(i) ==
  /\ seen' = Max(Events(i) \cup {seen})
  /\ given' = given \o Numbers(seen, seen')

\* The answer arrives: what it read may be over, and the grace may have passed
\* since it was read.
GetOk ==
  /\ pc = "get" /\ op # "delete"
  /\ \E i \in Visible :
       LET s == hist[i].state IN
       /\ s # "absent"
       /\ served' = i
       /\ view' = IF op = "detach" /\ Verdict(s) = "ok" THEN "gone" ELSE s
       /\ saw' = (saw \/ Underway(s))
       /\ IF op = "build" THEN Replay(i) ELSE UNCHANGED <<seen, given>>
       /\ Settle(s)
  /\ stalled' = FALSE
  /\ UNCHANGED <<engine, start, began, asked, backoff>>

\* waitForTemplateBuild: the handler refuses an event, which ends the wait
HandlerFails ==
  /\ pc = "get" /\ op = "build"
  /\ \E i \in Visible :
       /\ served' = i
       /\ \E n \in Events(i) :
            /\ n > seen
            /\ seen' = n - 1
            /\ given' = given \o Numbers(seen, n)
  /\ Return("handler")
  /\ stalled' = FALSE
  /\ UNCHANGED <<engine, start, began, asked, saw, view, backoff>>

\* Session.DetachVolume: the engine takes the request, and the volume leaves
\* VolumeMounts at once or after the wait; or the call fails, refused by the
\* engine or applied with its answer lost.
Detach(accepted) ==
  /\ pc = "detach"
  /\ \/ /\ accepted
        /\ hist' = Event("detaching")
        /\ \/ limit = 0 /\ view' = "gone" /\ Return("ok")
           \/ limit > 0 /\ Enter("check", now) /\ UNCHANGED view
     \/ ~accepted /\ hist' \in {hist, Event("detaching")} /\ Return("error") /\ UNCHANGED view
  /\ UNCHANGED <<call, now, faults, ctx, served, start, began, asked, stalled, saw, replay>>

\* errors.Is(mapped, ErrVolumeSyncPending), before the deadline
Retries(s) == s = "syncing" /\ now <= Deadline

\* DeleteVolume is answered: deleted, refused, or tried again after a backoff.
Delete ==
  /\ pc = "get" /\ op = "delete"
  /\ LET s == Last.state IN
     /\ \/ s = "available" /\ hist' = Event("deleted") /\ Return("ok")
        \/ /\ s # "available" /\ UNCHANGED hist
           /\ \/ Retries(s) /\ Backoff
              \/ ~Retries(s) /\ Return(IF s = "syncing" THEN "timeout" ELSE "refused")
     /\ backoff' = IF Retries(s) /\ backoff < BackoffCap THEN 2 * backoff ELSE backoff
  /\ stalled' = FALSE
  /\ UNCHANGED <<call, now, faults, ctx, served, start, began, asked, saw, view, seen, given>>

\* "Not found" while the replica has not heard of the session; for WaitReady
\* also a transient failure, an attempt that ran out of time among them.
GetRetryable ==
  /\ pc = "get"
  /\ \/ Readying /\ stalled /\ now = due /\ UNCHANGED faults
     \/ op \in SessionOps /\ (\E i \in Visible : hist[i].state = "absent") /\ UNCHANGED faults
     \/ (Readying \/ (op \in {"pause", "resume"} /\ asked <= Lag)) /\ faults < MaxFaults /\ faults' = faults + 1
  /\ stalled' = FALSE
  /\ Backoff
  /\ UNCHANGED <<call, now, hist, ctx, served, start, began, asked, saw, view, replay>>

\* Any other failure ends the wait; under WaitReady a cancelled call is left to
\* the loop's condition.  A DeleteVolume that fails may have been applied.
GetFailed ==
  /\ pc = "get"
  /\ IF Readying /\ ctx = "cancelled" THEN Backoff ELSE Return("error")
  /\ \/ UNCHANGED hist
     \/ op = "delete" /\ Last.state = "available" /\ hist' = Event("deleted")
  /\ stalled' = FALSE
  /\ UNCHANGED <<call, now, faults, ctx, served, start, began, asked, saw, view, replay>>

\* the select: the backoff passed, or a context ended first
Sleep ==
  /\ pc = "sleep"
  /\ \/ ~Readying /\ ctx = "cancelled" /\ Return("cancelled")
     \/ (now = due \/ (Readying /\ (ctx = "cancelled" \/ Expired))) /\ Enter("check", now)
  /\ UNCHANGED <<engine, poll>>

-----------------------------------------------------------------------------
\* The operation as it begins: PauseAsync or Resume has just been accepted,
\* WaitReady is called on a session in any state, CreateSnapshotAsync was just
\* answered, and the volume was attached longer ago than the lag.
InitSession ==
  \/ /\ op = "create" /\ limit \in {0, CreateTimeout}
     /\ hist = <<[state |-> "absent", at |-> 0]>> /\ view = "absent"
     /\ pc = "create" /\ due = CreateEnds
  \/ /\ op = "ready" /\ limit = Timeout
     /\ \E s \in {"creating", "running", "terminating"} :
          hist = <<[state |-> s, at |-> 0]>> /\ view = s
     /\ pc = "stream" /\ due = limit
  \/ /\ \/ op = "pause" /\ limit \in {0, Timeout} /\ view = "pausing"
        \/ op = "resume" /\ limit = Timeout /\ view = "resuming"
     /\ hist = <<[state |-> IF op = "pause" THEN "running" ELSE "paused", at |-> 0],
                 [state |-> view, at |-> 0]>>
     /\ pc = "check" /\ due = 0

InitResource ==
  /\ view = "absent"
  /\ \/ /\ op \in {"snapshot", "durable"} /\ limit = IF op = "snapshot" THEN Timeout ELSE 0
        /\ hist = <<[state |-> "absent", at |-> 0], [state |-> "creating", at |-> 0]>>
        /\ pc = "check"
     \/ /\ op = "volume" /\ limit = Timeout
        /\ hist = <<[state |-> "unspecified", at |-> 0]>>
        /\ pc = "check"
     \/ /\ op = "detach" /\ limit \in {0, Timeout}
        /\ hist = <<[state |-> "attached", at |-> 0]>>
        /\ pc = "detach"
     \/ /\ op = "delete" /\ limit = DeleteTimeout
        /\ hist = <<[state |-> "syncing", at |-> 0]>>
        /\ pc = "check"
     \/ /\ op = "build" /\ limit = 0
        /\ hist = <<[state |-> "pending", at |-> 0]>>
        /\ pc = "check"
  /\ due = IF pc = "detach" THEN 1 ELSE 0

Init ==
  /\ now = 0 /\ served = 1 /\ start = 0 /\ began = 0 /\ asked = 0 /\ faults = 0
  /\ stalled = FALSE /\ saw = FALSE /\ ctx = "live" /\ out = "none"
  /\ seen = 0 /\ given = <<>>
  /\ op \in Ops /\ backoff = FirstBackoff
  /\ IF op \in SessionOps THEN InitSession ELSE InitResource

\* the wait is over, or the clock's bound is reached
Over == (pc = "done" \/ now = MaxTime) /\ UNCHANGED vars

CreateStep == Created \/ \E how \in {"error", "runtime"} : CreateFailed(how)

WaitStep ==
  \/ StreamEvent \/ (\E how \in {"closed", "retryable", "fatal"} : StreamEnd(how))
  \/ Check \/ GetOk \/ GetRetryable \/ GetFailed \/ Sleep
  \/ HandlerFails \/ Delete \/ (\E accepted \in BOOLEAN : Detach(accepted))

Next == CreateStep \/ WaitStep \/ Tick \/ Cancel \/ Over \/ Change

Spec == Init /\ [][Next]_vars

-----------------------------------------------------------------------------
Was(states) == \E i \in 1..Len(hist) : hist[i].state \in states

\* A wait reports only what really happened to its resource.  ErrPauseFailed and
\* ErrResumeFailed need a pause or resume that did revert, but for one case: a call
\* made while the replica may still serve the state before it, whose answer comes
\* after the grace.  A snapshot is durable only if its upload was complete, not
\* while it is only in the cluster; a volume is detached only after its data was
\* uploaded; a volume is reported deleted, or in use, when it is, and one whose
\* deletion was applied as nothing else unless the answer was lost.
OutcomeIsReal ==
  /\ out = "failed" /\ op \in {"pause", "resume"} =>
       \/ \E i \in 3..Len(hist) : hist[i].state \in IF op = "pause" THEN {"running"} ELSE Stopped
       \/ asked <= Lag /\ now > Grace
  /\ out = "ok" /\ op \in {"pause", "resume"} => Was({IF op = "pause" THEN "paused" ELSE "running"})
  /\ out = "ok" /\ op = "durable" => Was({"durable"})
  /\ out = "not_durable" => Was({"stalled", "not_propagated", "untracked"}) /\ ~Was({"durable"})
  /\ out = "ok" /\ op = "detach" /\ limit > 0 => Was({"detached", "gone"})
  /\ op = "delete" =>
       /\ out = "ok" => Last.state = "deleted"
       /\ out = "refused" => Last.state = "in_use"
       /\ Last.state = "deleted" => out \in {"ok", "error"}

\* has the resource come to where the wait for it ends?
Settled ==
  CASE op \in SessionOps -> Last.state \notin {"absent", "creating", "pausing", "resuming"}
    [] op = "snapshot" -> Last.state \in {"ready", "failed", "deleted"}
    [] op = "durable" -> Last.state \notin {"creating", "local", "ceph"}
    [] op = "volume" -> Last.state \in {"available", "deleted"}
    [] op = "detach" -> Last.state \in {"detached", "gone"}
    [] op = "delete" -> Last.state # "syncing"
    [] op = "build" -> Last.state \in {"ready", "failed"}

\* The moment from which every poll made tells how the resource settled: the replica
\* has caught up, the grace is over, and each stalled attempt has been given up.
Telling ==
  Max({Last.at + Lag, began, IF op \in {"pause", "resume"} THEN Grace + 1 ELSE 0}) + faults * (Attempt + 1)

\* A wait that times out was not waiting for a resource that had settled: an
\* outcome that could be polled before the deadline is reported, also when the
\* state in between was never observed and, by WaitReady, when an attempt stalled.
TimeoutIsReal ==
  out = "timeout" /\ (Readying \/ faults = 0) /\ Settled => Telling + 2 >= Deadline

\* A wait is over by its deadline: WaitReady whatever its stream and its polls
\* do, the others but for a call and a backoff, unless their call stalls.  A Create
\* takes up to the time CreateSession was held and, after it, its whole timeout.
BudgetKept ==
  pc # "done" /\ limit > 0 =>
    CASE op = "ready" -> now <= limit
      [] op = "create" -> now <= Held + limit
      [] OTHER -> faults = 0 => now <= limit + IF op = "delete" THEN 2 * BackoffCap ELSE 1

\* A wait without a timeout of its own is over once its resource has settled: a
\* pause, done or failed, a template build, and a durability wait also when the
\* upload will never complete or was never tracked.  The last poll that does not
\* tell, the backoff and the poll that does are all it takes.
SettledReported ==
  Unbounded /\ op \in {"pause", "durable", "build"} /\ faults = 0 /\ pc # "done" /\ Settled
    => now <= Telling + FirstBackoff + 2

\* template.go:304: the handler gets the build's events "in order exactly once",
\* and all of them before the wait says how the build ended.
EventsOnce ==
  /\ given = Numbers(0, Len(given))
  /\ op = "build" /\ out \in {"ok", "failed"} => Len(given) = Len(hist) - 1

\* sandbox.go:182: a Create that fails "after admission" gives the caller the live
\* session, and only one way to lose it is left: CreateSession itself fails after
\* the engine admitted the session, so that the SDK was never told of it.  Once it
\* was answered no end of the wait loses a session that has not terminated.
NoOrphan ==
  pc = "done" /\ ~HandsOver /\ Last.state # "absent" /\ ~IsTerminal(Last.state)
    => out = "error" /\ view = "absent"

-----------------------------------------------------------------------------
(* What the documentation promises and the code does not keep.             *)

\* heldCreateContext: "WaitReady covers leftover budget", so that a Create is over
\* by its timeout; Create gives WaitReady the whole timeout after the held request.
CreateBudget == op = "create" /\ limit > 0 /\ pc # "done" => now <= limit
=============================================================================
