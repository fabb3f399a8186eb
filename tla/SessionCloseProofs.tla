-------------------------- MODULE SessionCloseProofs --------------------------
(***************************************************************************)
(* Close, Release and Pause against everything else, for any callers,      *)
(* loops, endpoints, engine answers and roles: the holder of closeMu is    *)
(* the only goroutine that opens or closes the handle, a closed handle is  *)
(* not configured, and a reset leaves a closed handle empty.               *)
(***************************************************************************)
EXTENDS SessionDataPlaneProofs

-----------------------------------------------------------------------------
(* Which goroutine is where.                                               *)

Resetting == {"resetHint", "resetClear", "resetVerified", "resetWait"}
Closing == {"pauseRPC", "closeLock", "closeDP", "closeWait", "terminate", "closeEnd"}
             \cup Resetting
\* the labels between taking a signal from renewalDones and seeing the loop gone
Waiting == {"closeWait", "resetVerified", "resetWait"}

\* The operation a goroutine performs at a label of Closing.
OpFits(label, op) ==
  /\ label = "pauseRPC" => op = "pause"
  /\ label \in {"closeLock", "closeDP", "closeWait"} => op \in {"close", "release"}
  /\ label \in {"terminate", "closeEnd"} => op = "close"
  /\ label \in Resetting => op \in {"pause", "close", "release"}

\* Only callers close; signals are held only while waiting.
PlaceOK(q, label, x) ==
  /\ label \in Closing => q \in Callers
  /\ OpFits(label, x.op)
  /\ label \notin Waiting => x.wait = {}

PlacesOK == \A q \in Procs : PlaceOK(q, pc[q], at[q])

\* q moves, not to or from a label of Closing.
Quiet(q) ==
  /\ pc[q] \notin Closing /\ pc'[q] \notin Closing
  /\ at'[q].wait \in {at[q].wait, {}}

LEMMA FinishQuiet ==
  ASSUME LocalsOK, NEW q \in Procs, pc[q] \notin Closing, Finish(q)
  PROVE  Quiet(q)
BY DEF Finish, Goto, LocalsOK, Quiet, Closing, Resetting, NoLocals

LEMMA CallRenewQuiet ==
  ASSUME LocalsOK, NEW q \in Procs, pc[q] \notin Closing, NEW x \in Locals, NEW ret,
         x.wait = at[q].wait, CallRenew(q, x, ret)
  PROVE  Quiet(q)
<1>1. at'[q] = [x EXCEPT !.ret = ret] /\ pc'[q] = "rpc"
  BY DEF CallRenew, Goto, LocalsOK
<1>2. at'[q].wait = x.wait
  BY <1>1 DEF Locals
<1> QED BY <1>1, <1>2 DEF Quiet, Closing, Resetting

LEMMA RenewReturnQuiet ==
  ASSUME LocalsOK, NEW q \in Procs, NEW res \in {"ok", "err", "fatal"}, pc[q] \in Renewing,
         pc'[q] = AfterRenew[at[q].ret][res], at'[q] = Renewed(q, res)
  PROVE  Quiet(q)
<1>1. at[q] \in Locals /\ at[q].ret \in Rets
  BY DEF LocalsOK, RenewingOK, RenewOK
<1>2. AfterRenew[at[q].ret][res] \notin Closing
  BY <1>1 DEF AfterRenew, Rets, Closing, Resetting
<1>3. at'[q].wait \in {at[q].wait, {}}
  BY <1>1 DEF Renewed, Locals, NoLocals
<1>4. pc[q] \notin Closing
  BY DEF Renewing, Answered, Closing, Resetting
<1> QED BY <1>2, <1>3, <1>4 DEF Quiet

LEMMA ResolveQuiet ==
  ASSUME LocalsOK, NEW q \in Procs, ResolveStep(q)
  PROVE  Quiet(q)
<1>a. pc \in [Procs -> Labels] /\ at \in [Procs -> Locals] /\ at[q] \in Locals
  BY DEF LocalsOK
<1>1. pc[q] \notin Closing /\ pc'[q] \notin Closing
  BY <1>a
     DEF Closing, Resetting, ResolveStep, Resolve, ReadHint, ConfigureFromHint, ReadHinted, Flight, FlightEnd,
             ReadResolved, ReadConfigured, Recheck, TakeClient, Finish, Goto, CallRenew
<1>2. at'[q].wait \in {at[q].wait, {}}
  <2>1. CASE Finish(q)
    BY <1>a, <2>1 DEF Finish, NoLocals
  <2>2. CASE Resolve(q)
    <3>1. \/ Finish(q)
          \/ \E stale \in BOOLEAN : LET x == [at[q] EXCEPT !.stale = stale] IN
               CallRenew(q, x, "refresh") \/ at' = [at EXCEPT ![q] = x]
      BY <2>2 DEF Resolve
    <3>2. ASSUME NEW stale \in BOOLEAN
          PROVE  /\ [at[q] EXCEPT !.stale = stale] \in Locals
                 /\ [at[q] EXCEPT !.stale = stale].wait = at[q].wait
      BY <1>a DEF Locals
    <3> QED BY <1>a, <1>1, <2>1, <3>1, <3>2, CallRenewQuiet DEF Quiet
  <2>3. CASE Flight(q) \/ ReadHinted(q)
    <3>1. \/ \E ret \in Rets : CallRenew(q, at[q], ret)
          \/ at' = at \/ at' = [at EXCEPT ![q].resolved = hint]
      BY <2>3 DEF Flight, ReadHinted, Rets
    <3> QED BY <1>a, <1>1, <3>1, CallRenewQuiet DEF Quiet, Locals
  <2>4. CASE ReadHint(q) \/ ConfigureFromHint(q) \/ ReadResolved(q)
    <3>1. at' = at \/ at' = [at EXCEPT ![q].resolved = hint]
      BY <2>4 DEF ReadHint, ConfigureFromHint, ReadResolved
    <3> QED BY <1>a, <3>1 DEF Locals
  <2>6. CASE FlightEnd(q)
    <3>1. at'[q] = [at[q] EXCEPT !.resolved = hint] \/ at'[q] = NoLocals
      BY <1>a, <2>6 DEF FlightEnd
    <3> QED BY <1>a, <3>1 DEF Locals, NoLocals
  <2>5. CASE ~Finish(q) /\ (ReadConfigured(q) \/ Recheck(q))
    BY <1>a, <2>5 DEF ReadConfigured, Recheck, TakeClient, Locals
  <2> QED BY <2>1, <2>2, <2>3, <2>4, <2>5, <2>6 DEF ResolveStep
<1> QED BY <1>1, <1>2 DEF Quiet

LEMMA ProbeQuiet ==
  ASSUME LocalsOK, NEW q \in Procs, ProbeStep(q)
  PROVE  Quiet(q)
<1>a. pc \in [Procs -> Labels] /\ at \in [Procs -> Locals] /\ at[q] \in Locals
  BY DEF LocalsOK
<1>1. pc[q] \notin Closing /\ pc'[q] \notin Closing
  BY <1>a
     DEF Closing, Resetting, ProbeStep, ProbeLock, ProbeRetry, ProbeTimeout, MarkRead, MarkSet, Current, Finish, Goto
<1>2. at'[q].wait \in {at[q].wait, {}}
  BY <1>a
     DEF ProbeStep, ProbeLock, ProbeRetry, ProbeTimeout, MarkRead, MarkSet, Current, Finish, Goto, Locals, NoLocals
<1> QED BY <1>1, <1>2 DEF Quiet

LEMMA UnaryQuiet ==
  ASSUME LocalsOK, NEW q \in Procs, UnaryStep(q)
  PROVE  Quiet(q)
<1>a. pc \in [Procs -> Labels] /\ at \in [Procs -> Locals] /\ at[q] \in Locals
  BY DEF LocalsOK
<1>1. pc[q] \notin Closing /\ pc'[q] \notin Closing
  BY <1>a
     DEF Closing, Resetting, UnaryStep, Attach, Reply, Replay, UnaryDone, Finish, Goto, CallRenew
<1>2. at'[q].wait \in {at[q].wait, {}}
  <2>1. CASE Finish(q)
    BY <1>a, <2>1 DEF Finish, NoLocals
  <2> DEFINE x == [at[q] EXCEPT !.out = "served"]
  <2>2. CASE CallRenew(q, x, "replay")
    <3>1. x \in Locals /\ x.wait = at[q].wait
      BY <1>a DEF Locals
    <3> QED BY <1>1, <2>2, <3>1, CallRenewQuiet DEF Quiet
  <2>3. CASE ~Finish(q) /\ ~CallRenew(q, x, "replay")
    BY <1>a, <2>3 DEF UnaryStep, Attach, Reply, Replay, UnaryDone, Locals
  <2> QED BY <2>1, <2>2, <2>3
<1> QED BY <1>1, <1>2 DEF Quiet

LEMMA RunQuiet ==
  ASSUME LocalsOK, NEW q \in Procs, RunStep(q)
  PROVE  Quiet(q)
<1>a. pc \in [Procs -> Labels] /\ at \in [Procs -> Locals] /\ at[q] \in Locals
  BY DEF LocalsOK
<1>1. pc[q] \notin Closing /\ pc'[q] \notin Closing
  BY <1>a
     DEF Closing, Resetting, RunStep, Open, RunRejected, RunFailed, PendingRead, PendingVerify, RefreshHinted,
             RunRetry, RunStarted, Finish, Goto, CallRenew
<1>2. at'[q].wait \in {at[q].wait, {}}
  <2>1. CASE Finish(q)
    BY <1>a, <2>1 DEF Finish, NoLocals
  <2>2. CASE RunRejected(q)
    <3> DEFINE x == [at[q] EXCEPT !.tried = TRUE, !.wire = None, !.client = None, !.via = "none"]
    <3>1. x \in Locals /\ x.wait = at[q].wait
      BY <1>a DEF Locals
    <3> QED BY <1>1, <2>2, <3>1, CallRenewQuiet DEF Quiet, RunRejected
  <2>3. CASE RefreshHinted(q)
    BY <1>a, <1>1, <2>3, CallRenewQuiet DEF Quiet, RefreshHinted
  <2>4. CASE ~Finish(q) /\ ~RunRejected(q) /\ ~RefreshHinted(q)
    BY <1>a, <2>4
       DEF RunStep, Open, RunFailed, PendingRead, PendingVerify, RunRetry, RunStarted, Locals
  <2> QED BY <2>1, <2>2, <2>3, <2>4
<1> QED BY <1>1, <1>2 DEF Quiet

LEMMA LoopQuiet ==
  ASSUME LocalsOK, NEW q \in Procs, LoopStep(q)
  PROVE  Quiet(q)
<1>a. pc \in [Procs -> Labels] /\ at \in [Procs -> Locals] /\ at[q] \in Locals
  BY DEF LocalsOK
<1>1. pc[q] \notin Closing /\ pc'[q] \notin Closing
  BY <1>a
     DEF Closing, Resetting, LoopStep, LoopTop, LoopStop, LoopTimer, Finish, Goto, CallRenew
<1>2. at'[q].wait \in {at[q].wait, {}}
  BY <1>a
     DEF LoopStep, LoopTop, LoopStop, LoopTimer, Finish, Goto, CallRenew, Locals, NoLocals
<1> QED BY <1>1, <1>2 DEF Quiet

LEMMA RenewQuiet ==
  ASSUME TypeInv, NEW q \in Procs, RenewStep(q)
  PROVE  Quiet(q)
<1>a. LocalsOK /\ pc \in [Procs -> Labels] /\ at \in [Procs -> Locals] /\ at[q] \in Locals
  BY TypeParts DEF LocalsOK
<1>b. pc[q] \in Renewing /\ pc[q] \notin Closing
  BY DEF RenewStep, RenewFail, RenewOk, Configure, VerifyRead, VerifySet, Warm, Renewing, Answered,
         Closing, Resetting
<1>1. ASSUME NEW res \in {"ok", "err", "fatal"}, RenewReturn(q, res) PROVE Quiet(q)
  BY <1>1, <1>a, <1>b, RenewReturnQuiet DEF RenewReturn, Goto
<1>2. ASSUME NEW answer \in Answers, RenewOk(q, answer) PROVE Quiet(q)
  BY <1>2, <1>a, <1>b DEF RenewOk, Goto, Quiet, Closing, Resetting, Locals
<1>3. CASE Configure(q)
  <2> DEFINE l == CHOOSE x \in FreeLoops : TRUE
             starts == StartsLoop(dp, at[q].answer)
             fresh == [NoLocals EXCEPT !.op = "renewal"]
             to == IF pc[q] = "install" THEN AfterRenew[at[q].ret]["ok"]
                   ELSE IF at[q].answer.status = "verified" THEN "verifyRead" ELSE "warm"
             locals == IF pc[q] = "install" THEN Renewed(q, "ok") ELSE at[q]
  <2>1. starts => l # q
    <3>1. FreeLoops # {} => l \in FreeLoops
      OBVIOUS
    <3>2. starts => pc[l] = "idle"
      BY <1>3, <3>1 DEF Configure, FreeLoops, Exited
    <3> QED BY <1>b, <3>2 DEF Renewing, Answered
  <2>2. /\ pc' = [pc EXCEPT ![q] = to, ![l] = IF starts THEN "top" ELSE @]
        /\ at' = [at EXCEPT ![q] = locals, ![l] = IF starts THEN fresh ELSE @]
    BY <1>3 DEF Configure
  <2> HIDE DEF l, starts, fresh
  <2>3. pc'[q] = to /\ at'[q] = locals
    <3> HIDE DEF to, locals
    <3> QED BY <1>a, <2>1, <2>2
  <2>4. CASE pc[q] = "install"
    BY <1>a, <1>b, <2>3, <2>4, RenewReturnQuiet
  <2>5. CASE pc[q] # "install"
    <3>1. pc'[q] \in {"verifyRead", "warm"} /\ at'[q] = at[q]
      BY <2>3, <2>5
    <3> QED BY <1>b, <3>1 DEF Quiet, Closing, Resetting
  <2> QED BY <2>4, <2>5
<1>4. CASE VerifyRead(q)
  <2>1. CASE RenewReturn(q, "ok")
    BY <1>1, <2>1
  <2>2. CASE ~RenewReturn(q, "ok")
    BY <1>4, <1>a, <1>b, <2>2 DEF VerifyRead, Goto, Quiet, Closing, Resetting, Locals
  <2> QED BY <2>1, <2>2
<1>5. CASE Warm(q)
  <2>1. CASE RenewReturn(q, "ok")
    BY <1>1, <2>1
  <2>2. ASSUME NEW w \in Warmers, dp.client # None,
               pc' = [pc EXCEPT ![q] = AfterRenew[at[q].ret]["ok"], ![w] = "attach"],
               at' = [at EXCEPT ![q] = Renewed(q, "ok"),
                                ![w] = [NoLocals EXCEPT !.op = "warm", !.via = "op",
                                                        !.client = dp.client]]
        PROVE  Quiet(q)
    <3>1. CASE q = w
      <4>1. at'[q].wait = {} /\ pc'[q] = "attach"
        BY <1>a, <2>2, <3>1 DEF NoLocals
      <4> QED BY <1>b, <4>1 DEF Quiet, Closing, Resetting
    <3>2. CASE q # w
      <4>1. pc'[q] = AfterRenew[at[q].ret]["ok"] /\ at'[q] = Renewed(q, "ok")
        BY <1>a, <2>2, <3>2
      <4> QED BY <1>a, <1>b, <4>1, RenewReturnQuiet
    <3> QED BY <3>1, <3>2
  <2> QED BY <1>5, <2>1, <2>2 DEF Warm
<1> QED BY <1>1, <1>2, <1>3, <1>4, <1>5 DEF RenewStep, RenewFail, VerifySet

\* A goroutine's own move is quiet, or the start or a step of a closing operation.
LEMMA OwnPlace ==
  ASSUME TypeInv, NEW q \in Procs, Own(q)
  PROVE  \/ Quiet(q)
         \/ CloseStep(q)
         \/ \E op \in {"pause", "release", "close"} : q \in Callers /\ Start(q, op)
<1>a. LocalsOK /\ pc \in [Procs -> Labels] /\ at \in [Procs -> Locals] /\ at[q] \in Locals
  BY TypeParts DEF LocalsOK
<1>1. ASSUME NEW op \in {"unary", "dial", "run"}, Start(q, op) PROVE Quiet(q)
  <2>1. EntryLabel[op] = "resolve"
    BY DEF EntryLabel
  <2> QED BY <1>1, <1>a, <2>1 DEF Start, Goto, Quiet, Closing, Resetting, Locals
<1>2. ASSUME NEW answer \in Answers, Event(q, answer) PROVE Quiet(q)
  BY <1>2, <1>a DEF Event, Goto, Quiet, Closing, Resetting, Locals
<1>3. CASE FlightCancelled(q)
  BY <1>3, <1>a, FinishQuiet DEF FlightCancelled, Closing, Resetting
<1>4. CASE Step(q)
  BY <1>4, <1>a, ResolveQuiet, ProbeQuiet, UnaryQuiet, RunQuiet, RenewQuiet, LoopQuiet DEF Step
<1>5. ASSUME NEW op \in OpKinds, Start(q, op) PROVE op \in OpKinds \ {"event"}
  BY <1>5 DEF Start
<1> QED BY <1>1, <1>2, <1>3, <1>4, <1>5 DEF Own, OpKinds

LEMMA OwnClosePlace ==
  ASSUME TypeInv, NEW q \in Procs, PlaceOK(q, pc[q], at[q]), CloseStep(q)
  PROVE  PlaceOK(q, pc'[q], at'[q])
<1>a. pc \in [Procs -> Labels] /\ at \in [Procs -> Locals] /\ at[q] \in Locals
  BY TypeParts DEF LocalsOK
<1>b. PlaceOK(q, "idle", NoLocals)
  BY DEF PlaceOK, OpFits, Closing, Resetting, Waiting, NoLocals
<1>1. CASE Finish(q)
  BY <1>1, <1>a, <1>b DEF Finish, Goto
<1>2. CASE ~Finish(q)
  BY <1>2, <1>a
     DEF CloseStep, PauseRPC, CloseLock, CloseDataPlane, WaitRenewalStopped, Terminate, ResetHint,
         ResetClear, ResetVerified, ResetWait, CloseEnd, Goto, PlaceOK, OpFits, Closing, Resetting,
         Waiting, Locals
<1> QED BY <1>1, <1>2

LEMMA PlacesStep ==
  ASSUME TypeInv, PlacesOK, [Next]_vars
  PROVE  PlacesOK'
<1> SUFFICES ASSUME NEW q \in Procs PROVE PlaceOK(q, pc'[q], at'[q])
  BY DEF PlacesOK
<1>a. PlaceOK(q, pc[q], at[q])
  BY DEF PlacesOK
<1>b. pc \in [Procs -> Labels] /\ at \in [Procs -> Locals] /\ at[q] \in Locals
  BY TypeParts DEF LocalsOK
<1>1. CASE Quiet(q)
  BY <1>a, <1>1 DEF PlaceOK, OpFits, Quiet, Closing, Resetting, Waiting
<1>2. ASSUME NEW op \in {"pause", "release", "close"}, q \in Callers, Start(q, op)
      PROVE  PlaceOK(q, pc'[q], at'[q])
  <2>1. pc'[q] = EntryLabel[op] /\ at'[q].op = op /\ at'[q].wait = at[q].wait /\ pc[q] = "idle"
    BY <1>2, <1>b DEF Start, Goto, Locals
  <2>2. EntryLabel[op] = IF op = "pause" THEN "pauseRPC" ELSE "closeLock"
    BY DEF EntryLabel
  <2> QED BY <1>a, <1>2, <2>1, <2>2 DEF PlaceOK, OpFits, Closing, Resetting, Waiting
<1>3. CASE Other(q)
  <2>1. CASE pc'[q] = pc[q] /\ at'[q] = at[q]
    BY <1>a, <2>1
  <2>2. CASE pc[q] = "flightWait" /\ pc'[q] = "flight" /\ at'[q] = at[q]
    BY <1>a, <2>2 DEF PlaceOK, OpFits, Closing, Resetting, Waiting
  <2>3. CASE pc'[q] \in {"top", "attach"} /\ at'[q].wait = {}
    BY <2>3 DEF PlaceOK, OpFits, Closing, Resetting, Waiting
  <2> QED BY <1>3, <2>1, <2>2, <2>3 DEF Other, NoLocals
<1> QED BY <1>a, <1>1, <1>2, <1>3, Frame, OwnPlace, OwnClosePlace

LEMMA PlacesInit == Init => PlacesOK
BY DEF Init, PlacesOK, PlaceOK, OpFits, Closing, Resetting, Waiting, NoLocals

-----------------------------------------------------------------------------
(* The handle's state, as the closing operations change it.                *)

Emptied == [FreshDataPlane EXCEPT !.closed = TRUE]

OneLive(d) ==
  /\ d.live \subseteq {d.cancel}
  /\ d.closed => d.live = {}

LEMMA CancelLive ==
  ASSUME NEW d \in DataPlaneState, OneLive(d)
  PROVE  CancelRenewal(d).live = {} /\ CancelRenewal(d).closed = d.closed
BY DEF CancelRenewal, OneLive, DataPlaneState

\* resetDataPlane leaves nothing but the closed flag.
LEMMA ResetEmpties ==
  ASSUME NEW d \in DataPlaneState, OneLive(d)
  PROVE  /\ ResetState(d) = [FreshDataPlane EXCEPT !.closed = d.closed]
         /\ OneLive(ResetState(d))
<1>1. CancelRenewal(d) \in DataPlaneState
  BY CancelRenewalType
<1>2. ResetState(d) = [FreshDataPlane EXCEPT !.closed = d.closed]
  <2> DEFINE c == CancelRenewal(d)
  <2>1. c.live = {} /\ c.closed = d.closed /\ c.cancel = None
    BY CancelLive DEF CancelRenewal, DataPlaneState
  <2> HIDE DEF c
  <2>2. c \in DataPlaneState
    BY <1>1 DEF c
  <2> DEFINE r == ResetState(d)
             f == [FreshDataPlane EXCEPT !.closed = d.closed]
  <2>3. r \in DataPlaneState /\ f \in DataPlaneState
    BY CancelRenewalType DEF FreshDataPlane, DataPlaneState
  <2>4. /\ r.closed = d.closed /\ r.endpoint = None /\ r.client = None /\ r.held = None
        /\ r.fromHint = FALSE /\ r.cred = None /\ r.credEndpoint = None /\ r.expires = FALSE
        /\ r.cancel = None /\ r.live = {} /\ r.dones = {}
    BY <2>1, <2>2 DEF ResetState, DrainRenewal, DataPlaneState, c
  <2>5. /\ f.closed = d.closed /\ f.endpoint = None /\ f.client = None /\ f.held = None
        /\ f.fromHint = FALSE /\ f.cred = None /\ f.credEndpoint = None /\ f.expires = FALSE
        /\ f.cancel = None /\ f.live = {} /\ f.dones = {}
    BY DEF FreshDataPlane
  <2> HIDE DEF r, f
  <2>6. r = f
    BY <2>3, <2>4, <2>5 DEF DataPlaneState
  <2> QED BY <2>6 DEF r, f
<1>3. ResetState(d).live = {}
  BY <1>2 DEF FreshDataPlane
<1> QED BY <1>2, <1>3 DEF OneLive

\* configureDataPlane leaves a closed handle alone and keeps one live loop.
LEMMA ConfigureLive ==
  ASSUME TypeInv, OneLive(dp), ConfigureStep
  PROVE  /\ dp.closed => dp' = dp
         /\ OneLive(dp')
<1>a. dp \in DataPlaneState
  BY DEF TypeInv, TypeOK
<1>1. PICK answer \in AnswerType, h \in BOOLEAN : \E c, l :
        /\ answer.ep # None => c \in Clients /\ c.ep = answer.ep
        /\ StartsLoop(dp, answer) => l \in Loops
        /\ dp' = Configured(dp, answer, h, c, Exited, l)
  BY DEF ConfigureStep
<1>2. PICK c, l :
        /\ answer.ep # None => c \in Clients /\ c.ep = answer.ep
        /\ StartsLoop(dp, answer) => l \in Loops
        /\ dp' = Configured(dp, answer, h, c, Exited, l)
  BY <1>1
<1>3. Refused(dp, answer.ep) => dp' = dp
  BY <1>2 DEF Configured
<1>4. CASE ~Refused(dp, answer.ep)
  <2> DEFINE d1 == Connect(dp, answer.ep, h, c)
             d2 == SetCredential(d1, answer)
  <2>a. ~dp.closed /\ answer.ep \in Endpoints \cup {None}
    BY <1>4 DEF Refused, AnswerType
  <2>1. d1 \in DataPlaneState /\ OneLive(d1) /\ ~d1.closed
    <3>1. d1 \in DataPlaneState
      BY <1>a, <1>2, <2>a, ConnectType
    <3>2. d1.closed = dp.closed
      BY <1>a DEF Connect, CancelRenewal, DataPlaneState
    <3>3. (d1.live = dp.live /\ d1.cancel = dp.cancel) \/ d1.live = CancelRenewal(dp).live
      BY <1>a DEF Connect, CancelRenewal, DataPlaneState
    <3> QED BY <1>a, <2>a, <3>1, <3>2, <3>3, CancelLive DEF OneLive
  <2> HIDE DEF d1
  <2>2. d2 \in DataPlaneState /\ OneLive(d2) /\ ~d2.closed
    <3>1. d2 \in DataPlaneState
      BY <2>1, <2>a, SetCredentialType
    <3>2. d2.live = d1.live /\ d2.cancel = d1.cancel /\ d2.closed = d1.closed
      BY <2>1 DEF SetCredential, DataPlaneState
    <3> QED BY <2>1, <3>1, <3>2 DEF OneLive
  <2> HIDE DEF d2
  <2>3. OneLive(RestartRenewal(d2, Exited, l))
    <3> DEFINE c2 == CancelRenewal(d2)
    <3>1. c2 \in DataPlaneState /\ c2.live = {} /\ ~c2.closed
      BY <2>2, CancelLive, CancelRenewalType
    <3> HIDE DEF c2
    <3> QED BY <3>1 DEF RestartRenewal, OneLive, DataPlaneState, c2
  <2>4. dp' \in {d1, RestartRenewal(d2, Exited, l)}
    BY <1>2, <1>4 DEF Configured, d1, d2
  <2> QED BY <2>a, <2>1, <2>3, <2>4
<1>5. dp.closed => Refused(dp, answer.ep)
  BY DEF Refused
<1> QED BY <1>3, <1>4, <1>5

-----------------------------------------------------------------------------
(* The holder of closeMu.                                                  *)

\* q is in Close or Release, past the lock
Inside(label, op) ==
  \/ label \in {"closeDP", "closeWait", "terminate", "closeEnd"}
  \/ label \in Resetting /\ op # "pause"

\* A goroutine inside holds closeMu; the handle is closed once it said so and
\* empty once it was reset; a Close that did not return early finds closeDone
\* unset for as long as it holds the lock.
HolderOK(q, label, op, mu, d, done) ==
  Inside(label, op) =>
    /\ mu = q
    /\ label # "closeDP" => d.closed
    /\ label \in {"resetVerified", "resetWait", "closeEnd"} => d = Emptied
    /\ op = "close" => ~done

HoldersOK == \A q \in Procs : HolderOK(q, pc[q], at[q].op, closeMu, dp, closeDone)

CloseInv == OneLive(dp) /\ HoldersOK /\ ReleasedIsEmpty

LEMMA OthersStay ==
  ASSUME TypeInv, NEW p \in Procs, CloseStep(p), NEW q \in Procs, q # p
  PROVE  pc'[q] = pc[q] /\ at'[q] = at[q]
<1>a. pc \in [Procs -> Labels] /\ at \in [Procs -> Locals]
  BY TypeParts DEF LocalsOK
<1> QED
  BY <1>a
     DEF CloseStep, PauseRPC, CloseLock, CloseDataPlane, WaitRenewalStopped, Terminate, ResetHint,
         ResetClear, ResetVerified, ResetWait, CloseEnd, Finish, Goto

\* Only the closing operations touch closeMu, released and closeDone.
LEMMA NoCloseStep ==
  ASSUME TypeInv, [Next]_vars, \A p \in Procs : ~CloseStep(p)
  PROVE  /\ UNCHANGED <<closeMu, released, closeDone>>
         /\ dp' = dp \/ ConfigureStep
<1>1. ASSUME NEW p \in Procs, ResolveStep(p) PROVE UNCHANGED <<closeMu, released, closeDone>>
  BY <1>1 DEF ResolveStep, Resolve, ReadHint, ConfigureFromHint, ReadHinted, Flight, FlightEnd,
              ReadResolved, ReadConfigured, Recheck, mutexes, flags
<1>2. ASSUME NEW p \in Procs, ProbeStep(p) \/ UnaryStep(p) \/ LoopStep(p) \/ FlightCancelled(p)
      PROVE  UNCHANGED <<closeMu, released, closeDone>>
  BY <1>2 DEF ProbeStep, ProbeLock, ProbeRetry, ProbeTimeout, MarkRead, MarkSet, Current,
              UnaryStep, Attach, Reply, Replay, UnaryDone, LoopStep, LoopTop, LoopStop, LoopTimer,
              FlightCancelled, mutexes, flags
<1>3. ASSUME NEW p \in Procs, RunStep(p) PROVE UNCHANGED <<closeMu, released, closeDone>>
  BY <1>3 DEF RunStep, Open, RunRejected, RunFailed, PendingRead, PendingVerify, RefreshHinted,
              RunRetry, RunStarted, mutexes, flags
<1>4. ASSUME NEW p \in Procs, RenewStep(p) PROVE UNCHANGED <<closeMu, released, closeDone>>
  BY <1>4 DEF RenewStep, RenewFail, RenewOk, Configure, VerifyRead, VerifySet, Warm, mutexes, flags
<1>5. ASSUME NEW p \in Callers,
             \/ \E op \in OpKinds : Start(p, op)
             \/ \E answer \in Answers : Event(p, answer)
      PROVE  UNCHANGED <<closeMu, released, closeDone>>
  BY <1>5 DEF Start, Event, mutexes, flags
<1>6. UNCHANGED <<closeMu, released, closeDone>>
  BY <1>1, <1>2, <1>3, <1>4, <1>5 DEF Next, Step, vars
<1>7. dp' = dp \/ ConfigureStep
  BY DataPlaneStep DEF CloseStep
<1> QED BY <1>6, <1>7

LEMMA UnrelatedStep ==
  ASSUME TypeInv, CloseInv, [Next]_vars, \A p \in Procs : ~CloseStep(p)
  PROVE  CloseInv'
<1>a. UNCHANGED <<closeMu, released, closeDone>> /\ OneLive(dp') /\ (dp.closed => dp' = dp)
  BY NoCloseStep, ConfigureLive DEF CloseInv
<1>b. Emptied.closed
  BY DEF Emptied, FreshDataPlane
<1>1. ReleasedIsEmpty'
  BY <1>a, <1>b DEF CloseInv, ReleasedIsEmpty, Emptied
<1>2. ASSUME NEW q \in Procs
      PROVE  HolderOK(q, pc'[q], at'[q].op, closeMu', dp', closeDone')
  <2>a. HolderOK(q, pc[q], at[q].op, closeMu, dp, closeDone)
    BY DEF CloseInv, HoldersOK
  <2>b. pc \in [Procs -> Labels]
    BY TypeParts DEF LocalsOK
  <2>1. CASE pc'[q] = pc[q] /\ at'[q] = at[q]
    BY <1>a, <2>a, <2>1 DEF HolderOK, Inside, Resetting
  <2>2. CASE pc'[q] \notin Closing \/ pc'[q] \in {"pauseRPC", "closeLock"}
    BY <2>2 DEF HolderOK, Inside, Closing, Resetting
  <2>3. ASSUME NEW op \in {"pause", "release", "close"}, Start(q, op)
        PROVE  pc'[q] \in {"pauseRPC", "closeLock"}
    BY <2>3, <2>b DEF Start, Goto, EntryLabel
  <2>4. CASE Own(q)
    BY <2>2, <2>3, <2>4, OwnPlace DEF Quiet
  <2>5. CASE Other(q)
    <3>1. (pc'[q] = pc[q] /\ at'[q] = at[q]) \/ pc'[q] \in {"flight", "top", "attach"}
      BY <2>5 DEF Other
    <3> QED BY <2>1, <2>2, <3>1 DEF Closing, Resetting
  <2> QED BY <2>4, <2>5, Frame
<1> QED BY <1>a, <1>1, <1>2 DEF CloseInv, HoldersOK

\* Another goroutine's standing survives a step that leaves the lock and closeDone
\* alone and at most resets the handle, and any step of the holder or under a free
\* lock, where nobody else is inside.
LEMMA OtherHolder ==
  ASSUME TypeInv, CloseInv, NEW p \in Procs, CloseStep(p), NEW q \in Procs, q # p,
         \/ UNCHANGED <<closeMu, closeDone>> /\ dp' \in {dp, ResetState(dp)}
         \/ closeMu \in {p, None}
  PROVE  HolderOK(q, pc'[q], at'[q].op, closeMu', dp', closeDone')
<1>a. HolderOK(q, pc[q], at[q].op, closeMu, dp, closeDone) /\ OneLive(dp)
  BY DEF CloseInv, HoldersOK
<1>b. pc'[q] = pc[q] /\ at'[q] = at[q]
  BY OthersStay
<1>c. dp \in DataPlaneState /\ None \notin Procs
  BY ConstantsAssumption DEF TypeInv, TypeOK, ConstantsAssumption
<1>1. CASE closeMu \in {p, None}
  BY <1>a, <1>b, <1>c, <1>1 DEF HolderOK
<1>2. CASE UNCHANGED <<closeMu, closeDone>> /\ dp' = dp
  BY <1>a, <1>b, <1>2
<1>3. CASE UNCHANGED <<closeMu, closeDone>> /\ dp' = ResetState(dp)
  <2>1. dp.closed => dp' = Emptied
    BY <1>a, <1>c, <1>3, ResetEmpties DEF Emptied
  <2>2. Emptied.closed
    BY DEF Emptied, FreshDataPlane
  <2> QED BY <1>a, <1>b, <1>3, <2>1, <2>2 DEF HolderOK, Inside, Resetting
<1> QED BY <1>1, <1>2, <1>3

LEMMA ClosingStep ==
  ASSUME TypeInv, PlacesOK, CloseInv, NEW p \in Procs, CloseStep(p)
  PROVE  CloseInv'
<1> DEFINE Mine == HolderOK(p, pc'[p], at'[p].op, closeMu', dp', closeDone')
<1>a. /\ pc \in [Procs -> Labels] /\ at \in [Procs -> Locals] /\ at[p] \in Locals
      /\ dp \in DataPlaneState /\ released \in BOOLEAN /\ closeDone \in BOOLEAN
      /\ p # None
  BY TypeParts, ConstantsAssumption DEF LocalsOK, GlobalsOK, ConstantsAssumption
<1>b. OneLive(dp) /\ HolderOK(p, pc[p], at[p].op, closeMu, dp, closeDone) /\ ReleasedIsEmpty
  BY DEF CloseInv, HoldersOK
<1>c. OpFits(pc[p], at[p].op)
  BY DEF PlacesOK, PlaceOK
<1>d. Emptied.closed /\ Emptied = [FreshDataPlane EXCEPT !.closed = TRUE]
  BY DEF Emptied, FreshDataPlane
<1>e. pc'[p] = "idle" => Mine
  BY DEF HolderOK, Inside, Resetting
<1>f. Finish(p) => pc'[p] = "idle"
  BY <1>a DEF Finish, Goto
<1>1. ASSUME OneLive(dp'), ReleasedIsEmpty', Mine,
             \/ UNCHANGED <<closeMu, closeDone>> /\ dp' \in {dp, ResetState(dp)}
             \/ closeMu \in {p, None}
      PROVE  CloseInv'
  <2>1. \A q \in Procs : HolderOK(q, pc'[q], at'[q].op, closeMu', dp', closeDone')
    BY <1>1, OtherHolder
  <2> QED BY <1>1, <2>1 DEF CloseInv, HoldersOK
<1>g. ASSUME UNCHANGED <<dp, closeMu, released, closeDone>>, Mine PROVE CloseInv'
  BY <1>1, <1>b, <1>g DEF ReleasedIsEmpty
<1>2. CASE PauseRPC(p)
  <2>1. UNCHANGED <<dp, closeMu, released, closeDone>>
    BY <1>2 DEF PauseRPC, mutexes, flags
  <2>2. Finish(p) \/ (pc'[p] = "resetHint" /\ at' = at /\ at[p].op = "pause")
    BY <1>2, <1>a, <1>c DEF PauseRPC, Goto, OpFits
  <2> QED BY <1>e, <1>f, <1>g, <2>1, <2>2 DEF HolderOK, Inside
<1>3. CASE CloseLock(p)
  <2>1. UNCHANGED <<dp, closeDone>> /\ closeMu = None
    BY <1>3 DEF CloseLock
  <2>2. CASE Finish(p)
    <3>1. Mine
      BY <1>e, <1>f, <2>2
    <3>2. ReleasedIsEmpty'
      BY <1>3, <1>a, <1>b, <2>1 DEF CloseLock, ReleasedIsEmpty
    <3> QED BY <1>1, <1>b, <2>1, <3>1, <3>2
  <2>3. CASE ~Finish(p)
    <3>1. closeMu' = p /\ pc'[p] = "closeDP" /\ at' = at /\ (at[p].op = "close" => ~closeDone)
      BY <1>3, <1>a, <2>3 DEF CloseLock, Goto
    <3>2. Mine
      BY <2>1, <3>1 DEF HolderOK, Inside, Resetting
    <3> QED BY <1>1, <1>a, <1>b, <2>1, <3>1, <3>2 DEF ReleasedIsEmpty
  <2> QED BY <2>2, <2>3
<1>4. CASE CloseDataPlane(p)
  <2>1. pc[p] = "closeDP" /\ closeMu = p /\ (at[p].op = "close" => ~closeDone)
    BY <1>4, <1>b DEF CloseDataPlane, HolderOK, Inside
  <2>2. UNCHANGED <<closeMu, released, closeDone>> /\ pc'[p] = "closeWait" /\ at'[p].op = at[p].op
    BY <1>4, <1>a DEF CloseDataPlane, Goto, mutexes, flags, Locals
  <2>3. dp'.closed /\ dp'.live = {}
    <3>1. CancelRenewal(dp) \in DataPlaneState /\ CancelRenewal(dp).live = {}
      BY <1>a, <1>b, CancelLive, CancelRenewalType
    <3> QED BY <1>4, <3>1 DEF CloseDataPlane, DrainRenewal, DataPlaneState
  <2>4. Mine
    BY <2>1, <2>2, <2>3 DEF HolderOK, Resetting
  <2>5. OneLive(dp') /\ ReleasedIsEmpty'
    BY <1>a, <2>1, <2>2, <2>3 DEF OneLive, ReleasedIsEmpty
  <2> QED BY <1>1, <2>1, <2>4, <2>5
<1>5. CASE WaitRenewalStopped(p) \/ Terminate(p) \/ ResetHint(p)
  <2>1. UNCHANGED <<dp, closeMu, released, closeDone>>
    BY <1>5 DEF WaitRenewalStopped, Terminate, ResetHint, mutexes, flags
  <2>2. /\ pc'[p] \in {"terminate", "resetHint", "resetClear"} /\ at'[p].op = at[p].op
        /\ pc[p] \in {"closeWait", "terminate", "resetHint"}
    BY <1>5, <1>a DEF WaitRenewalStopped, Terminate, ResetHint, Goto, Locals
  <2>3. pc'[p] = "terminate" => pc[p] = "closeWait"
    BY <1>5, <1>a DEF WaitRenewalStopped, Terminate, ResetHint, Goto
  <2>4. Inside(pc'[p], at'[p].op) => Inside(pc[p], at[p].op)
    BY <2>2, <2>3 DEF Inside, Resetting
  <2>5. Mine
    BY <1>b, <2>1, <2>2, <2>4 DEF HolderOK
  <2> QED BY <1>g, <2>1, <2>5
<1>6. CASE ResetClear(p)
  <2>1. UNCHANGED <<closeMu, released, closeDone>> /\ dp' = ResetState(dp)
    BY <1>6 DEF ResetClear, mutexes, flags
  <2>2. pc[p] = "resetClear" /\ pc'[p] = "resetVerified" /\ at'[p].op = at[p].op
    BY <1>6, <1>a DEF ResetClear, Goto, Locals
  <2>3. OneLive(dp') /\ (dp.closed => dp' = Emptied)
    BY <1>a, <1>b, <2>1, ResetEmpties DEF Emptied
  <2>4. Mine
    BY <1>b, <1>d, <2>1, <2>2, <2>3 DEF HolderOK, Inside, Resetting
  <2>5. ReleasedIsEmpty'
    BY <1>b, <1>d, <2>1, <2>3 DEF ReleasedIsEmpty
  <2> QED BY <1>1, <2>1, <2>3, <2>4, <2>5
<1>7. CASE ResetVerified(p)
  <2>1. UNCHANGED <<dp, closeMu, released, closeDone>>
    BY <1>7 DEF ResetVerified, mutexes, flags
  <2>2. pc[p] = "resetVerified" /\ pc'[p] = "resetWait" /\ at' = at
    BY <1>7, <1>a DEF ResetVerified, Goto
  <2> QED BY <1>b, <1>g, <2>1, <2>2 DEF HolderOK, Inside, Resetting
<1>8. CASE ResetWait(p)
  <2>1. UNCHANGED <<dp, released, closeDone>> /\ pc[p] = "resetWait"
    BY <1>8 DEF ResetWait, flags
  <2>2. CASE at[p].op = "pause"
    BY <1>8, <1>e, <1>f, <1>g, <2>1, <2>2 DEF ResetWait
  <2>3. CASE at[p].op # "pause"
    <3>1. closeMu = p /\ dp = Emptied /\ (at[p].op = "close" => ~closeDone)
      BY <1>b, <2>1, <2>3 DEF HolderOK, Inside, Resetting
    <3>2. ReleasedIsEmpty'
      BY <1>d, <2>1, <3>1 DEF ReleasedIsEmpty
    <3>3. CASE Finish(p)
      BY <1>1, <1>b, <1>e, <1>f, <2>1, <3>1, <3>2, <3>3
    <3>4. CASE ~Finish(p)
      <4>1. closeMu' = closeMu /\ pc'[p] = "closeEnd" /\ at'[p].op = at[p].op
        BY <1>8, <1>a, <2>3, <3>4 DEF ResetWait, Goto, Locals
      <4>2. Mine
        BY <1>d, <2>1, <3>1, <4>1 DEF HolderOK
      <4> QED BY <1>1, <1>b, <2>1, <3>1, <3>2, <4>2
    <3> QED BY <3>3, <3>4
  <2> QED BY <2>2, <2>3
<1>9. CASE CloseEnd(p)
  <2>1. closeMu = p /\ dp = Emptied /\ ~closeDone
    BY <1>9, <1>b, <1>c DEF CloseEnd, HolderOK, Inside, OpFits
  <2>2. Mine
    BY <1>9, <1>e, <1>f DEF CloseEnd
  <2>3. Emptied.live = {} /\ Emptied \in DataPlaneState
    BY DEF Emptied, FreshDataPlane, DataPlaneState
  <2>4. CASE dp' = dp
    <3>1. ReleasedIsEmpty'
      BY <1>d, <2>1, <2>4 DEF ReleasedIsEmpty
    <3> QED BY <1>1, <1>b, <2>1, <2>2, <2>4, <3>1
  <2>5. CASE dp' = [dp EXCEPT !.closed = released] /\ closeDone' = closeDone
    <3>1. released' = released
      BY <1>9 DEF CloseEnd
    <3>2. dp'.live = {}
      BY <2>1, <2>3, <2>5 DEF DataPlaneState
    <3>3. released => dp' = dp
      BY <1>d, <2>1, <2>3, <2>5 DEF DataPlaneState
    <3>4. ReleasedIsEmpty'
      BY <1>d, <2>1, <2>5, <3>1, <3>3 DEF ReleasedIsEmpty
    <3>5. OneLive(dp')
      BY <3>2 DEF OneLive
    <3> QED BY <1>1, <2>1, <2>2, <3>4, <3>5
  <2> QED BY <1>9, <2>4, <2>5 DEF CloseEnd
<1> QED BY <1>2, <1>3, <1>4, <1>5, <1>6, <1>7, <1>8, <1>9 DEF CloseStep

LEMMA ClosingCorrect == Spec => [](TypeInv /\ PlacesOK /\ CloseInv)
<1>1. Init => CloseInv
  BY DEF Init, CloseInv, OneLive, HoldersOK, HolderOK, Inside, Resetting, ReleasedIsEmpty,
         FreshDataPlane
<1>2. TypeInv /\ PlacesOK /\ CloseInv /\ [Next]_vars => CloseInv'
  BY ClosingStep, UnrelatedStep
<1>3. TypeInv /\ PlacesOK /\ [Next]_vars => PlacesOK'
  BY PlacesStep
<1> QED BY <1>1, <1>2, <1>3, PlacesInit, TypeInit, TypeStep, PTL DEF Spec

\* At most one renewal loop is uncancelled, and none on a closed handle
\* (restartCredentialRenewalLocked, drainRenewalLocked).
THEOREM RenewalCorrect == Spec => []OneRenewal
<1>1. CloseInv => OneRenewal
  BY DEF CloseInv, OneLive, OneRenewal
<1> QED BY <1>1, ClosingCorrect, PTL

\* After Release, or a Close that succeeded, the handle stays empty and closed,
\* whatever answers, resets and later Closes arrive.
THEOREM ReleaseCorrect == Spec => []ReleasedIsEmpty
<1>1. CloseInv => ReleasedIsEmpty
  BY DEF CloseInv
<1> QED BY <1>1, ClosingCorrect, PTL

\* TerminateSession is never called after a call of it succeeded.
THEOREM TerminateCorrect == Spec => []TerminateOnce
<1>1. PlacesOK /\ CloseInv => TerminateOnce
  BY DEF PlacesOK, PlaceOK, OpFits, CloseInv, HoldersOK, HolderOK, Inside, TerminateOnce
<1> QED BY <1>1, ClosingCorrect, PTL

\* While the handle is closed no step gives it a client.
THEOREM ClosedCorrect == Spec => ClosedAcquiresNothing
<1>1. TypeInv /\ CloseInv /\ [Next]_vars =>
        [dp.closed /\ dp'.client # None => dp'.client = dp.client]_vars
  <2> SUFFICES ASSUME TypeInv, CloseInv, [Next]_vars, dp.closed, dp'.client # None
               PROVE  dp'.client = dp.client
    OBVIOUS
  <2>a. dp \in DataPlaneState /\ OneLive(dp)
    BY DEF TypeInv, TypeOK, CloseInv
  <2>1. CASE ConfigureStep
    BY <2>1, <2>a, ConfigureLive
  <2>2. ASSUME NEW p \in Procs, ResetClear(p) PROVE FALSE
    BY <2>2, <2>a, ResetEmpties DEF ResetClear, FreshDataPlane
  <2>3. ASSUME NEW p \in Procs, CloseDataPlane(p) \/ CloseEnd(p) PROVE dp'.client = dp.client
    BY <2>3, <2>a DEF CloseDataPlane, CloseEnd, DrainRenewal, CancelRenewal, DataPlaneState
  <2> QED BY <2>1, <2>2, <2>3, DataPlaneStep
<1> QED BY <1>1, ClosingCorrect, PTL DEF Spec, ClosedAcquiresNothing

-----------------------------------------------------------------------------
(* No renewal loop is forgotten.                                           *)

\* A new loop is in renewalDones, and only exited ones are pruned from it.
LEMMA ConfiguredDones ==
  ASSUME NEW d \in DataPlaneState, NEW answer \in AnswerType, NEW h \in BOOLEAN,
         NEW c, answer.ep # None => c \in Clients, NEW exited, NEW l
  PROVE  /\ d.dones \ exited \subseteq Configured(d, answer, h, c, exited, l).dones
         /\ StartsLoop(d, answer) => l \in Configured(d, answer, h, c, exited, l).dones
<1> DEFINE d1 == Connect(d, answer.ep, h, c)
           d2 == SetCredential(d1, answer)
           d3 == RestartRenewal(d2, exited, l)
<1>a. answer.ep \in Endpoints \cup {None} /\ answer.cred \in {"plain", "expiring", "blank", None}
  BY DEF AnswerType
<1>1. d1 \in DataPlaneState /\ d1.dones = d.dones /\ d1.closed = d.closed
  <2>1. d1 \in DataPlaneState
    BY <1>a, ConnectType
  <2>2. d1.dones = d.dones /\ d1.closed = d.closed
    BY DEF Connect, CancelRenewal, DataPlaneState
  <2> QED BY <2>1, <2>2
<1> HIDE DEF d1
<1>2. /\ d2 \in DataPlaneState /\ d2.dones = d.dones /\ d2.closed = d.closed
      /\ answer.cred = "expiring" => d2.expires /\ d2.cred # None
  <2>1. d2 \in DataPlaneState
    BY <1>1, SetCredentialType
  <2>2. d2.dones = d1.dones /\ d2.closed = d1.closed /\ d2.expires = (answer.cred = "expiring")
    BY <1>1 DEF SetCredential, DataPlaneState
  <2>3. d2.cred = IF answer.cred = "blank" THEN None
                  ELSE IF answer.ep = None THEN Unnamed ELSE answer.ep
    BY <1>1 DEF SetCredential, DataPlaneState
  <2> QED BY <1>1, <2>1, <2>2, <2>3, ConstantsAssumption DEF ConstantsAssumption
<1> HIDE DEF d2
<1>3. /\ d.dones \ exited \subseteq d3.dones
      /\ ~d2.closed /\ d2.cred # None /\ d2.expires => l \in d3.dones
  <2> DEFINE k == CancelRenewal(d2)
  <2>1. k \in DataPlaneState /\ k.dones = d.dones
    BY <1>2, CancelRenewalType DEF CancelRenewal, DataPlaneState
  <2> HIDE DEF k
  <2> QED BY <2>1 DEF RestartRenewal, DataPlaneState, k
<1>4. Refused(d, answer.ep) \/ d.closed = FALSE
  BY DEF Refused, DataPlaneState
<1>5. CASE Refused(d, answer.ep)
  BY <1>5 DEF Configured, StartsLoop
<1>6. CASE ~Refused(d, answer.ep) /\ answer.cred = None
  BY <1>1, <1>6, ConstantsAssumption DEF Configured, StartsLoop, d1, ConstantsAssumption
<1>7. CASE ~Refused(d, answer.ep) /\ answer.cred # None
  <2>1. Configured(d, answer, h, c, exited, l) = d3
    BY <1>7 DEF Configured, d1, d2
  <2> QED BY <1>2, <1>3, <1>4, <1>7, <2>1 DEF StartsLoop
<1> QED BY <1>5, <1>6, <1>7

\* Only configureDataPlane starts a loop.
LEMMA LoopStarts ==
  ASSUME TypeInv, [Next]_vars, NEW l \in Loops, pc[l] = "idle", pc'[l] # "idle"
  PROVE  l \in dp'.dones
<1>a. /\ pc \in [Procs -> Labels] /\ at \in [Procs -> Locals] /\ l \in Procs
      /\ l \notin Callers /\ l \notin Warmers /\ dp \in DataPlaneState
  BY TypeParts, ConstantsAssumption DEF LocalsOK, GlobalsOK, Procs, ConstantsAssumption
<1>1. PICK p \in Procs : Step(p)
  <2>1. ASSUME NEW p \in Callers, NEW op \in OpKinds, Start(p, op) PROVE FALSE
    BY <1>a, <2>1 DEF Start, Goto
  <2>2. ASSUME NEW p \in Callers, NEW answer \in Answers, Event(p, answer) PROVE FALSE
    BY <1>a, <2>2 DEF Event, Goto
  <2>3. ASSUME NEW p \in Procs, FlightCancelled(p) PROVE FALSE
    BY <1>a, <2>3 DEF FlightCancelled, Finish, Goto
  <2> QED BY <2>1, <2>2, <2>3 DEF Next, vars
<1>2. CASE Configure(p)
  <2> DEFINE m == CHOOSE x \in FreeLoops : TRUE
             answer == at[p].answer
  <2>1. answer \in AnswerType /\ pc[p] \in Answered /\ p # l
    BY <1>2, <1>a, TypeParts DEF Configure, LocalsOK, RenewingOK, RenewOK, Answered
  <2>2. l = m /\ StartsLoop(dp, answer)
    <3> DEFINE to == IF pc[p] = "install" THEN AfterRenew[at[p].ret]["ok"]
                     ELSE IF answer.status = "verified" THEN "verifyRead" ELSE "warm"
    <3>1. pc' = [pc EXCEPT ![p] = to, ![m] = IF StartsLoop(dp, answer) THEN "top" ELSE @]
      BY <1>2 DEF Configure
    <3> HIDE DEF m, to, answer
    <3> QED BY <1>a, <2>1, <3>1
  <2>3. answer.ep # None => NewClient(answer.ep) \in Clients
    BY <1>2, <2>1, NewClientType DEF Configure, AnswerType
  <2>4. dp' = Configured(dp, answer, FALSE, NewClient(answer.ep), Exited, m)
    BY <1>2 DEF Configure
  <2> HIDE DEF m, answer
  <2> QED BY <1>a, <2>1, <2>2, <2>3, <2>4, ConfiguredDones
<1>3. CASE ~Configure(p)
  <2>1. pc'[l] = pc[l]
    <3>1. CASE p = l
      BY <1>1, <3>1
         DEF Step, ResolveStep, ProbeStep, UnaryStep, RunStep, RenewStep, LoopStep, CloseStep,
             Resolve, ReadHint, ConfigureFromHint, ReadHinted, Flight, FlightEnd, ReadResolved,
             ReadConfigured, Recheck, ProbeLock, ProbeRetry, ProbeTimeout, MarkRead, MarkSet,
             Current, Attach, Reply, Replay, UnaryDone, Open, RunRejected, RunFailed, PendingRead,
             PendingVerify, RefreshHinted, RunRetry, RunStarted, RenewFail, RenewOk, Configure,
             VerifyRead, VerifySet, Warm, LoopTop, LoopStop, LoopTimer, PauseRPC, CloseLock,
             CloseDataPlane, WaitRenewalStopped, Terminate, ResetHint, ResetClear, ResetVerified,
             ResetWait, CloseEnd
    <3>2. CASE p # l /\ (ResolveStep(p) \/ ProbeStep(p) \/ UnaryStep(p) \/ RunStep(p)
                        \/ LoopStep(p) \/ CloseStep(p))
      BY <1>a, <3>2
         DEF ResolveStep, ProbeStep, UnaryStep, RunStep, LoopStep, CloseStep,
             Resolve, ReadHint, ConfigureFromHint, ReadHinted, Flight, FlightEnd, ReadResolved,
             ReadConfigured, Recheck, ProbeLock, ProbeRetry, ProbeTimeout, MarkRead, MarkSet,
             Current, Attach, Reply, Replay, UnaryDone, Open, RunRejected, RunFailed, PendingRead,
             PendingVerify, RefreshHinted, RunRetry, RunStarted, LoopTop, LoopStop, LoopTimer,
             PauseRPC, CloseLock, CloseDataPlane, WaitRenewalStopped, Terminate, ResetHint,
             ResetClear, ResetVerified, ResetWait, CloseEnd, TakeClient, Finish, Goto, CallRenew
    <3>3. CASE p # l /\ RenewStep(p)
      BY <1>a, <1>3, <3>3
         DEF RenewStep, RenewFail, RenewOk, VerifyRead, VerifySet, Warm, RenewReturn, Goto
    <3> QED BY <1>1, <3>1, <3>2, <3>3 DEF Step
  <2> QED BY <2>1
<1> QED BY <1>2, <1>3

\* A signal stays in the hands of whoever waits for it until the loop has exited.
LEMMA SignalKept ==
  ASSUME TypeInv, PlacesOK, [Next]_vars, NEW l \in Loops, pc[l] # "idle",
         NEW p \in Procs, l \in at[p].wait
  PROVE  l \in at'[p].wait
<1>a. /\ pc \in [Procs -> Labels] /\ at \in [Procs -> Locals] /\ at[p] \in Locals
      /\ l \notin Exited
  BY TypeParts DEF LocalsOK, Exited
<1>b. pc[p] \in Waiting /\ p \in Callers
  BY DEF PlacesOK, PlaceOK, Waiting, Closing, Resetting
<1>c. p \notin Loops /\ p \notin Warmers
  BY <1>b, ConstantsAssumption DEF ConstantsAssumption
<1>1. CASE CloseStep(p)
  BY <1>1, <1>a, <1>b
     DEF CloseStep, PauseRPC, CloseLock, CloseDataPlane, WaitRenewalStopped, Terminate, ResetHint,
         ResetClear, ResetVerified, ResetWait, CloseEnd, Waiting
<1>2. CASE Other(p)
  BY <1>2, <1>b, <1>c DEF Other, Waiting
<1>3. ~Quiet(p) /\ \A op : ~Start(p, op)
  BY <1>b DEF Quiet, Start, Waiting, Closing, Resetting
<1> QED BY <1>1, <1>2, <1>3, Frame, OwnPlace

\* A running loop's signal leaves renewalDones only for a waiter's hands.
LEMMA SignalMoves ==
  ASSUME TypeInv, [Next]_vars, NEW l \in Loops, pc[l] # "idle", l \in dp.dones
  PROVE  l \in dp'.dones \/ \E p \in Procs : l \in at'[p].wait
<1>a. at \in [Procs -> Locals] /\ dp \in DataPlaneState /\ l \notin Exited
  BY TypeParts DEF LocalsOK, GlobalsOK, Exited
<1>1. CASE ConfigureStep
  BY <1>1, <1>a, ConfiguredDones DEF ConfigureStep
<1>2. ASSUME NEW p \in Procs, CloseDataPlane(p) \/ ResetClear(p) PROVE l \in at'[p].wait
  BY <1>2, <1>a DEF CloseDataPlane, ResetClear, Locals
<1>3. ASSUME NEW p \in Procs, CloseEnd(p) PROVE dp'.dones = dp.dones
  BY <1>3, <1>a DEF CloseEnd, DataPlaneState
<1> QED BY <1>1, <1>2, <1>3, DataPlaneStep

\* The exit signal of every running renewal loop is in renewalDones or with a
\* goroutine that waits for it (restartCredentialRenewalLocked,
\* drainRenewalLocked, waitRenewalStopped).
THEOREM LoopsCorrect == Spec => []LoopsAccounted
<1>1. Init => LoopsAccounted
  BY DEF Init, LoopsAccounted, Procs
<1>2. TypeInv /\ PlacesOK /\ LoopsAccounted /\ [Next]_vars => LoopsAccounted'
  <2> SUFFICES ASSUME TypeInv, PlacesOK, LoopsAccounted, [Next]_vars,
                      NEW l \in Loops, pc'[l] # "idle"
               PROVE  l \in dp'.dones \/ \E p \in Procs : l \in at'[p].wait
    BY DEF LoopsAccounted
  <2>1. CASE pc[l] = "idle"
    BY <2>1, LoopStarts
  <2>2. CASE pc[l] # "idle"
    BY <2>2, SignalMoves, SignalKept DEF LoopsAccounted
  <2> QED BY <2>1, <2>2
<1> QED BY <1>1, <1>2, ClosingCorrect, PTL DEF Spec
=============================================================================
