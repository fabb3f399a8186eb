------------------------ MODULE SessionDataPlaneProofs ------------------------
(***************************************************************************)
(* Proofs about SessionDataPlane, for any callers, loops, endpoints,       *)
(* engine answers and roles: the types first, then that the fields of the  *)
(* handle agree, and what follows for the requests that use them.          *)
(***************************************************************************)
EXTENDS SessionDataPlane, TLAPS

\* Labels at which a goroutine is inside renewDataPlaneCredential, and those at
\* which it has the engine's answer in hand.
Answered == {"configure", "install", "verifyRead", "verifySet", "warm"}
Renewing == {"rpc"} \cup Answered

Rets == {"loop", "flight", "refresh", "replay", "rerun", "rehint", "event"}

\* Inside a renewal there is a call site to return to, and an answer to apply.
RenewOK(label, x) ==
  /\ label \in Renewing => x.ret \in Rets
  /\ label \in Answered => x.answer \in AnswerType

RenewingOK == \A p \in Procs : RenewOK(pc[p], at[p])

LocalsOK ==
  /\ pc \in [Procs -> Labels]
  /\ at \in [Procs -> Locals]
  /\ RenewingOK

TypeInv == TypeOK /\ RenewingOK

\* A goroutine moves to a label with locals that fit it.
LEMMA LocalStep ==
  ASSUME LocalsOK, NEW p \in Procs, NEW label \in Labels, NEW x \in Locals,
         RenewOK(label, x),
         pc' = [pc EXCEPT ![p] = label], at' = [at EXCEPT ![p] = x]
  PROVE  LocalsOK'
BY DEF LocalsOK, RenewingOK

LEMMA NoLocalsType == NoLocals \in Locals
BY DEF NoLocals, Locals, OpKinds

LEMMA FinishType ==
  ASSUME LocalsOK, NEW p \in Procs, Finish(p)
  PROVE  LocalsOK'
<1>1. "idle" \in Labels /\ RenewOK("idle", NoLocals)
  BY DEF Labels, RenewOK, Renewing, Answered
<1> QED BY <1>1, NoLocalsType, LocalStep DEF Finish, Goto

\* Entering a renewal.
LEMMA CallRenewType ==
  ASSUME LocalsOK, NEW p \in Procs, NEW x \in Locals, NEW ret \in Rets, CallRenew(p, x, ret)
  PROVE  LocalsOK'
<1> DEFINE y == [x EXCEPT !.ret = ret]
<1>1. y \in Locals /\ y.ret = ret
  BY DEF Locals, Rets
<1>2. "rpc" \in Labels /\ RenewOK("rpc", y)
  BY <1>1 DEF Labels, RenewOK, Renewing, Answered
<1> QED BY <1>1, <1>2, LocalStep DEF CallRenew, Goto

\* Leaving one.
LEMMA RenewReturnType ==
  ASSUME LocalsOK, NEW p \in Procs, NEW res \in {"ok", "err", "fatal"},
         pc[p] \in Renewing
  PROVE  /\ AfterRenew[at[p].ret][res] \in Labels \ Renewing
         /\ Renewed(p, res) \in Locals
<1>1. at[p].ret \in Rets /\ at[p] \in Locals
  BY DEF LocalsOK, RenewingOK, RenewOK
<1>2. AfterRenew[at[p].ret][res] \in Labels \ Renewing
  BY <1>1 DEF AfterRenew, Rets, Labels, Renewing, Answered
<1>3. [at[p] EXCEPT !.ret = "none", !.answer = None, !.seen = None] \in Locals
  BY <1>1 DEF Locals
<1> QED BY <1>2, <1>3, NoLocalsType DEF Renewed

LEMMA Returned ==
  ASSUME LocalsOK, NEW p \in Procs, NEW res \in {"ok", "err", "fatal"},
         pc[p] \in Renewing, RenewReturn(p, res)
  PROVE  LocalsOK'
<1>1. RenewOK(AfterRenew[at[p].ret][res], Renewed(p, res))
  BY RenewReturnType DEF RenewOK, Renewing
<1> QED BY <1>1, RenewReturnType, LocalStep DEF RenewReturn, Goto

-----------------------------------------------------------------------------
(* The locked sections keep the type of the handle's state.                *)

LEMMA CancelRenewalType ==
  ASSUME NEW d \in DataPlaneState
  PROVE  /\ CancelRenewal(d) \in DataPlaneState
         /\ DrainRenewal(d) \in DataPlaneState
         /\ ResetState(d) \in DataPlaneState
         /\ CancelRenewal(d).endpoint = d.endpoint
<1>1. CancelRenewal(d) \in DataPlaneState /\ CancelRenewal(d).endpoint = d.endpoint
  BY DEF DataPlaneState, CancelRenewal
<1>2. DrainRenewal(d) \in DataPlaneState
  BY <1>1 DEF DataPlaneState, DrainRenewal
<1>3. ResetState(d) \in DataPlaneState
  BY <1>2 DEF DataPlaneState, ResetState
<1> QED BY <1>1, <1>2, <1>3

LEMMA ConnectType ==
  ASSUME NEW d \in DataPlaneState, NEW e \in Endpoints \cup {None}, NEW h \in BOOLEAN,
         NEW c, e # None => c \in Clients
  PROVE  Connect(d, e, h, c) \in DataPlaneState
<1> DEFINE moved == [CancelRenewal(d) EXCEPT
                       !.held = e, !.endpoint = e, !.client = c,
                       !.credEndpoint = IF d.cred # None /\ @ = None THEN e ELSE @]
           d1 == IF Moves(d, e) THEN moved ELSE d
<1>1. Moves(d, e) => moved \in DataPlaneState
  BY CancelRenewalType DEF DataPlaneState, Moves
<1>2. d1 \in DataPlaneState
  BY <1>1
<1>3. [d1 EXCEPT !.fromHint = h] \in DataPlaneState
  BY <1>2 DEF DataPlaneState
<1> QED BY <1>2, <1>3 DEF Connect

LEMMA SetCredentialType ==
  ASSUME NEW d \in DataPlaneState, NEW answer \in AnswerType
  PROVE  /\ SetCredential(d, answer) \in DataPlaneState
         /\ SetCredential(d, answer).closed = d.closed
         /\ SetCredential(d, answer).expires => answer.cred = "expiring"
<1>1. answer.cred \in {"plain", "expiring", "blank", None} /\ answer.ep \in Endpoints \cup {None}
  BY DEF AnswerType
<1>2. \A k \in Endpoints \cup {None, Unnamed}, b \in BOOLEAN :
        [d EXCEPT !.cred = k, !.credEndpoint = d.endpoint, !.expires = b] \in DataPlaneState
  BY DEF DataPlaneState
<1>3. SetCredential(d, answer) \in DataPlaneState
  BY <1>1, <1>2 DEF SetCredential
<1>4. SetCredential(d, answer).closed = d.closed
  BY DEF SetCredential, DataPlaneState
<1>5. SetCredential(d, answer).expires = (answer.cred = "expiring")
  BY DEF SetCredential, DataPlaneState
<1> QED BY <1>3, <1>4, <1>5

LEMMA RestartRenewalType ==
  ASSUME NEW d \in DataPlaneState, NEW exited, NEW l,
         ~d.closed /\ d.expires => l \in Loops
  PROVE  RestartRenewal(d, exited, l) \in DataPlaneState
<1> DEFINE pruned == [CancelRenewal(d) EXCEPT !.dones = @ \ exited]
<1>1. pruned \in DataPlaneState
  BY CancelRenewalType DEF DataPlaneState
<1>2. l \in Loops =>
        [pruned EXCEPT !.cancel = l, !.live = @ \cup {l}, !.dones = @ \cup {l}] \in DataPlaneState
  BY <1>1 DEF DataPlaneState
<1>3. CASE d.closed \/ d.cred = None \/ ~d.expires
  BY <1>1, <1>3 DEF RestartRenewal
<1>4. CASE ~(d.closed \/ d.cred = None \/ ~d.expires)
  BY <1>2, <1>4 DEF RestartRenewal
<1> QED BY <1>3, <1>4

LEMMA ConfiguredType ==
  ASSUME NEW d \in DataPlaneState, NEW answer \in AnswerType, NEW h \in BOOLEAN,
         NEW c, answer.ep # None => c \in Clients,
         NEW exited, NEW l, StartsLoop(d, answer) => l \in Loops
  PROVE  Configured(d, answer, h, c, exited, l) \in DataPlaneState
<1> DEFINE d1 == Connect(d, answer.ep, h, c)
           d2 == SetCredential(d1, answer)
<1>1. answer.ep \in Endpoints \cup {None}
  BY DEF AnswerType
<1>2. d1 \in DataPlaneState
  BY <1>1, ConnectType
<1>3. d2 \in DataPlaneState /\ (d2.expires => answer.cred = "expiring")
  BY <1>2, SetCredentialType
<1>4. ~Refused(d, answer.ep) => RestartRenewal(d2, exited, l) \in DataPlaneState
  BY <1>3, RestartRenewalType DEF StartsLoop
<1> QED BY <1>2, <1>4 DEF Configured

LEMMA NewClientType ==
  ASSUME NEW e \in Endpoints, FreeIds(e) # {}
  PROVE  NewClient(e) \in Clients /\ NewClient(e).ep = e
<1>1. (CHOOSE i \in FreeIds(e) : TRUE) \in FreeIds(e)
  OBVIOUS
<1>2. FreeIds(e) \subseteq ClientIds
  BY DEF FreeIds
<1> QED BY <1>1, <1>2 DEF NewClient, Clients

-----------------------------------------------------------------------------
(* Every step keeps the types.                                             *)

GlobalsOK ==
  /\ dp \in DataPlaneState
  /\ hint \in Endpoints \cup {None}
  /\ resolving \in Procs \cup {None}
  /\ verified \in Clients \cup {None}
  /\ probeMu \in Procs \cup {None} /\ closeMu \in Procs \cup {None}
  /\ released \in BOOLEAN /\ closeDone \in BOOLEAN /\ warmed \in BOOLEAN

LEMMA TypeParts == TypeInv <=> GlobalsOK /\ LocalsOK
BY DEF TypeInv, TypeOK, GlobalsOK, LocalsOK

LEMMA TypePartsNext == TypeInv' <=> GlobalsOK' /\ LocalsOK'
BY DEF TypeInv, TypeOK, GlobalsOK, LocalsOK

\* A goroutine outside a renewal changes its label, and perhaps locals that are
\* not those of a renewal.
LEMMA PlainStep ==
  ASSUME LocalsOK, NEW p \in Procs, NEW label \in Labels \ Renewing, NEW x \in Locals,
         Goto(p, label), at' = [at EXCEPT ![p] = x]
  PROVE  LocalsOK'
BY LocalStep DEF Goto, RenewOK, Renewing

LEMMA JustGoto ==
  ASSUME LocalsOK, NEW p \in Procs, NEW label \in Labels \ Renewing, Goto(p, label), at' = at
  PROVE  LocalsOK'
<1>1. at[p] \in Locals /\ at' = [at EXCEPT ![p] = at[p]]
  BY DEF LocalsOK
<1> QED BY <1>1, PlainStep

LEMMA ResolveTypes ==
  ASSUME TypeInv, ConstantsAssumption, NEW p \in Procs, ResolveStep(p)
  PROVE  TypeInv'
<1> USE TypeParts, TypePartsNext
<1>a. at[p] \in Locals /\ pc[p] \in Labels
  BY DEF LocalsOK
<1>1. CASE Resolve(p)
  <2>1. GlobalsOK'
    BY <1>1 DEF Resolve, GlobalsOK, mutexes, flags
  <2>2. CASE Finish(p)
    BY <2>1, <2>2, FinishType
  <2>3. ASSUME NEW stale \in BOOLEAN
        PROVE  [at[p] EXCEPT !.stale = stale] \in Locals
    BY <1>a DEF Locals
  <2>4. ASSUME NEW stale \in BOOLEAN,
               CallRenew(p, [at[p] EXCEPT !.stale = stale], "refresh")
        PROVE  LocalsOK'
    BY <2>3, <2>4, CallRenewType DEF Rets
  <2>5. ASSUME NEW stale \in BOOLEAN, NEW label \in {"hint", "flight", "recheck"},
               Goto(p, label), at' = [at EXCEPT ![p] = [at[p] EXCEPT !.stale = stale]]
        PROVE  LocalsOK'
    <3>1. label \in Labels \ Renewing
      BY DEF Labels, Renewing, Answered
    <3> QED BY <2>3, <2>5, <3>1, PlainStep
  <2>6. (dp.cred = None) \in BOOLEAN /\ (dp.cred = None \/ dp.expires) \in BOOLEAN
    OBVIOUS
  <2> QED BY <1>1, <2>1, <2>2, <2>4, <2>5, <2>6 DEF Resolve
<1>2. CASE ReadHint(p)
  <2>1. GlobalsOK'
    BY <1>2 DEF ReadHint, GlobalsOK, mutexes, flags
  <2>2. [at[p] EXCEPT !.resolved = hint] \in Locals
    BY <1>a DEF Locals, GlobalsOK
  <2>3. {"hintConfigure", "flight"} \subseteq Labels \ Renewing
    BY DEF Labels, Renewing, Answered
  <2> QED BY <1>2, <2>1, <2>2, <2>3, PlainStep DEF ReadHint
<1>3. CASE ConfigureFromHint(p)
  <2> DEFINE e == at[p].resolved
             answer == [ep |-> e, status |-> "unspecified", cred |-> None]
  <2>1. e \in Endpoints \cup {None} /\ answer \in AnswerType
    BY <1>a DEF Locals, AnswerType
  <2>2. answer.ep # None => NewClient(e) \in Clients
    BY <1>3, <2>1, NewClientType DEF ConfigureFromHint
  <2>3. ~StartsLoop(dp, answer)
    BY DEF ConstantsAssumption, StartsLoop
  <2>4. dp' \in DataPlaneState
    BY <1>3, <2>1, <2>2, <2>3, ConfiguredType DEF ConfigureFromHint, GlobalsOK
  <2>5. GlobalsOK'
    BY <1>3, <2>4 DEF ConfigureFromHint, GlobalsOK, mutexes, flags
  <2>6. {"hintRead", "postFinal"} \subseteq Labels \ Renewing
    BY DEF Labels, Renewing, Answered
  <2> QED BY <1>3, <2>5, <2>6, JustGoto DEF ConfigureFromHint
<1>4. CASE ReadHinted(p)
  <2>1. GlobalsOK'
    BY <1>4 DEF ReadHinted, GlobalsOK, mutexes, flags
  <2>2. {"flight", "recheck"} \subseteq Labels \ Renewing /\ "refresh" \in Rets
    BY DEF Labels, Renewing, Answered, Rets
  <2> QED BY <1>4, <1>a, <2>1, <2>2, CallRenewType, JustGoto DEF ReadHinted
<1>5. CASE Flight(p)
  <2>1. GlobalsOK'
    BY <1>5 DEF Flight, GlobalsOK, flags
  <2>2. [at[p] EXCEPT !.resolved = hint] \in Locals
    BY <1>a DEF Locals, GlobalsOK
  <2>3. {"postRead", "flightWait"} \subseteq Labels \ Renewing /\ "flight" \in Rets
    BY DEF Labels, Renewing, Answered, Rets
  <2> QED BY <1>5, <1>a, <2>1, <2>2, <2>3, CallRenewType, PlainStep, JustGoto DEF Flight
<1>6. CASE FlightEnd(p)
  <2>1. GlobalsOK'
    BY <1>6 DEF FlightEnd, GlobalsOK, flags
  <2>2. [at[p] EXCEPT !.resolved = hint] \in Locals
    BY <1>a DEF Locals, GlobalsOK
  <2>3. {"postRead", "idle", "flight"} \subseteq Labels \ Renewing
    BY DEF Labels, Renewing, Answered
  <2>4. at' \in [Procs -> Locals] /\ pc' \in [Procs -> Labels]
    BY <1>6, <2>2, <2>3, NoLocalsType DEF FlightEnd, LocalsOK
  <2>5. ASSUME NEW q \in Procs PROVE RenewOK(pc'[q], at'[q])
    <3>1. CASE q = p
      BY <1>6, <2>3, <3>1 DEF FlightEnd, RenewOK, Renewing
    <3>2. CASE q # p
      <4>1. at'[q] = at[q] /\ (pc'[q] = pc[q] \/ pc'[q] = "flight")
        BY <1>6, <3>2 DEF FlightEnd, LocalsOK
      <4> QED BY <2>3, <4>1 DEF RenewOK, Renewing, LocalsOK, RenewingOK
    <3> QED BY <3>1, <3>2
  <2> QED BY <2>1, <2>4, <2>5 DEF LocalsOK, RenewingOK
<1>7. CASE ReadResolved(p)
  <2>1. GlobalsOK'
    BY <1>7 DEF ReadResolved, GlobalsOK, mutexes, flags
  <2>2. {"postConfigure", "postFinal"} \subseteq Labels \ Renewing
    BY DEF Labels, Renewing, Answered
  <2> QED BY <1>7, <2>1, <2>2, JustGoto DEF ReadResolved
<1>8. ASSUME NEW b \in BOOLEAN, TakeClient(p, b) PROVE LocalsOK'
  <2> DEFINE x == [at[p] EXCEPT !.client = dp.client, !.resolved = None, !.stale = FALSE]
  <2>1. x \in Locals
    BY <1>a DEF Locals, GlobalsOK, DataPlaneState
  <2>2. {"probeLock", "open"} \subseteq Labels \ Renewing
    BY DEF Labels, Renewing, Answered
  <2>3. CASE Finish(p)
    BY <2>3, FinishType
  <2>4. CASE ~Finish(p)
    <3>1. PICK label \in {"probeLock", "open"} : Goto(p, label)
      BY <1>8, <2>4 DEF TakeClient
    <3>2. at' = [at EXCEPT ![p] = x]
      BY <1>8, <2>4, <1>a DEF TakeClient, LocalsOK
    <3> QED BY <2>1, <2>2, <3>1, <3>2, PlainStep
  <2> QED BY <2>3, <2>4
<1>9. CASE ReadConfigured(p)
  <2>1. GlobalsOK'
    BY <1>9 DEF ReadConfigured, GlobalsOK, mutexes, flags
  <2> QED BY <1>8, <1>9, <2>1 DEF ReadConfigured
<1>10. CASE Recheck(p)
  <2>1. GlobalsOK'
    BY <1>10 DEF Recheck, GlobalsOK, mutexes, flags
  <2>2. Verifies(at[p].op) \in BOOLEAN
    BY DEF Verifies
  <2> QED BY <1>8, <1>10, <2>1, <2>2 DEF Recheck
<1> QED BY <1>1, <1>2, <1>3, <1>4, <1>5, <1>6, <1>7, <1>9, <1>10 DEF ResolveStep

LEMMA ProbeTypes ==
  ASSUME TypeInv, NEW p \in Procs, ProbeStep(p)
  PROVE  TypeInv'
<1> USE TypeParts, TypePartsNext
<1>a. at[p] \in Locals
  BY DEF LocalsOK
<1>b. {"current", "attach", "markSet", "open"} \subseteq Labels \ Renewing
  BY DEF Labels, Renewing, Answered
<1>1. CASE ProbeLock(p)
  <2>1. GlobalsOK'
    BY <1>1 DEF ProbeLock, GlobalsOK, flags
  <2>2. [at[p] EXCEPT !.via = "probe"] \in Locals
    BY <1>a DEF Locals
  <2> QED BY <1>1, <1>b, <2>1, <2>2, PlainStep, JustGoto DEF ProbeLock
<1>2. CASE ProbeRetry(p)
  <2>1. GlobalsOK'
    BY <1>2 DEF ProbeRetry, GlobalsOK, mutexes, flags
  <2>2. [at[p] EXCEPT !.out = "none"] \in Locals
    BY <1>a DEF Locals
  <2> QED BY <1>2, <1>b, <2>1, <2>2, PlainStep DEF ProbeRetry
<1>3. CASE ProbeTimeout(p)
  <2>1. GlobalsOK'
    BY <1>3 DEF ProbeTimeout, GlobalsOK, flags
  <2> QED BY <1>3, <2>1, FinishType DEF ProbeTimeout
<1>4. CASE MarkRead(p)
  <2>1. GlobalsOK'
    BY <1>4 DEF MarkRead, GlobalsOK, flags
  <2> QED BY <1>4, <1>b, <2>1, JustGoto DEF MarkRead
<1>5. CASE MarkSet(p)
  <2>1. GlobalsOK'
    BY <1>5, <1>a DEF MarkSet, GlobalsOK, flags, Locals
  <2> QED BY <1>5, <1>b, <2>1, FinishType, JustGoto DEF MarkSet
<1>6. CASE Current(p)
  <2> DEFINE c == IF dp.client # None THEN dp.client ELSE at[p].client
             x == [at[p] EXCEPT !.via = "op", !.out = "none", !.client = c]
  <2>1. GlobalsOK'
    BY <1>6 DEF Current, GlobalsOK, mutexes, flags
  <2>2. c \in Clients \cup {None}
    BY <1>a DEF Locals, GlobalsOK, DataPlaneState
  <2>3. x \in Locals
    <3> HIDE DEF c
    <3> QED BY <1>a, <2>2 DEF Locals
  <2>4. at' = [at EXCEPT ![p] = x]
    BY <1>6 DEF Current, LocalsOK, Locals
  <2>5. PICK label \in {"open", "attach"} : Goto(p, label)
    BY <1>6 DEF Current
  <2> QED BY <1>b, <2>1, <2>3, <2>4, <2>5, PlainStep
<1> QED BY <1>1, <1>2, <1>3, <1>4, <1>5, <1>6 DEF ProbeStep

LEMMA UnaryTypes ==
  ASSUME TypeInv, NEW p \in Procs, UnaryStep(p)
  PROVE  TypeInv'
<1> USE TypeParts, TypePartsNext
<1>a. at[p] \in Locals
  BY DEF LocalsOK
<1>b. {"inflight", "reinflight", "answered", "reattach"} \subseteq Labels \ Renewing
  BY DEF Labels, Renewing, Answered
<1>c. ASSUME NEW o \in {"served", "local", "edge404"}
      PROVE  /\ [at[p] EXCEPT !.out = o, !.wire = None] \in Locals
             /\ [at EXCEPT ![p].out = o, ![p].wire = None]
                  = [at EXCEPT ![p] = [at[p] EXCEPT !.out = o, !.wire = None]]
  <2>1. [at[p] EXCEPT !.out = o, !.wire = None] \in Locals
    BY <1>a DEF Locals
  <2>2. at \in [Procs -> Locals]
    BY DEF LocalsOK
  <2>3. [at EXCEPT ![p].out = o, ![p].wire = None]
         = [at EXCEPT ![p] = [at[p] EXCEPT !.out = o, !.wire = None]]
    BY <2>2, Zenon
  <2> QED BY <2>1, <2>3
<1>1. CASE Attach(p)
  <2>1. GlobalsOK'
    BY <1>1 DEF Attach, GlobalsOK, mutexes, flags
  <2> DEFINE w == IF pc[p] = "reattach" /\ dp.cred = None THEN at[p].wire ELSE dp.cred
  <2>0. w \in Endpoints \cup {None, Unnamed}
    BY <1>a DEF Locals, GlobalsOK, DataPlaneState
  <2>2. [at[p] EXCEPT !.wire = w] \in Locals
    <3> HIDE DEF w
    <3> QED BY <1>a, <2>0 DEF Locals
  <2>3. CASE CredentialFits(dp, at[p].client.ep)
    <3>1. PICK label \in {"inflight", "reinflight"} : Goto(p, label)
      BY <1>1, <2>3 DEF Attach
    <3>2. at' = [at EXCEPT ![p] = [at[p] EXCEPT !.wire = w]]
      BY <1>1, <2>3 DEF Attach, LocalsOK
    <3> HIDE DEF w
    <3> QED BY <1>b, <2>1, <2>2, <3>1, <3>2, PlainStep
  <2>4. CASE ~CredentialFits(dp, at[p].client.ep)
    BY <1>1, <1>b, <1>c, <2>1, <2>4, PlainStep DEF Attach
  <2> QED BY <2>3, <2>4
<1>2. CASE Reply(p)
  <2>1. GlobalsOK'
    BY <1>2 DEF Reply, GlobalsOK, mutexes, flags
  <2>2. "replay" \in Rets
    BY DEF Rets
  <2>3. CASE CallRenew(p, [at[p] EXCEPT !.out = "served"], "replay")
    <3>1. [at[p] EXCEPT !.out = "served"] \in Locals
      BY <1>a DEF Locals
    <3> QED BY <2>1, <2>2, <2>3, <3>1, CallRenewType
  <2>4. ASSUME NEW out \in {"served", "local", "edge404"}, Goto(p, "answered"),
               at' = [at EXCEPT ![p].out = out, ![p].wire = None]
        PROVE  LocalsOK'
    BY <1>b, <1>c, <2>4, PlainStep
  <2> QED BY <1>2, <2>1, <2>3, <2>4 DEF Reply
<1>3. CASE Replay(p)
  <2>1. GlobalsOK'
    BY <1>3 DEF Replay, GlobalsOK, mutexes, flags
  <2> QED BY <1>3, <1>b, <2>1, JustGoto DEF Replay
<1>4. CASE UnaryDone(p)
  <2>1. GlobalsOK'
    BY <1>4 DEF UnaryDone, GlobalsOK, mutexes, flags
  <2> QED BY <1>4, <2>1, FinishType DEF UnaryDone
<1> QED BY <1>1, <1>2, <1>3, <1>4 DEF UnaryStep

LEMMA RunTypes ==
  ASSUME TypeInv, NEW p \in Procs, RunStep(p)
  PROVE  TypeInv'
<1> USE TypeParts, TypePartsNext
<1>a. at[p] \in Locals
  BY DEF LocalsOK
<1>b. {"panic", "opened", "runRetry", "pendRead", "pendVerify", "rehint", "resolve", "markSet"}
        \subseteq Labels \ Renewing
  BY DEF Labels, Renewing, Answered
<1>c. {"rerun", "rehint"} \subseteq Rets
  BY DEF Rets
<1>g. GlobalsOK'
  BY DEF RunStep, Open, RunRejected, RunFailed, PendingRead, PendingVerify, RefreshHinted,
         RunRetry, RunStarted, GlobalsOK, mutexes, flags
<1>1. CASE Open(p)
  <2>1. [at[p] EXCEPT !.wire = dp.cred] \in Locals
    BY <1>a DEF Locals, GlobalsOK, DataPlaneState
  <2> QED BY <1>1, <1>b, <1>g, <2>1, FinishType, PlainStep, JustGoto DEF Open
<1>2. CASE RunRejected(p)
  <2>1. [at[p] EXCEPT !.tried = TRUE, !.wire = None, !.client = None, !.via = "none"] \in Locals
    BY <1>a DEF Locals
  <2> QED BY <1>2, <1>c, <1>g, <2>1, CallRenewType DEF RunRejected
<1>3. CASE RunFailed(p)
  <2>1. ASSUME NEW label \in {"runRetry", "pendRead"}, NEW o \in {"none", "error"},
               Goto(p, label), at' = [at EXCEPT ![p].wire = None, ![p].out = o]
        PROVE  LocalsOK'
    <3> DEFINE x == [at[p] EXCEPT !.wire = None, !.out = o]
    <3>1. x \in Locals
      BY <1>a DEF Locals
    <3>2. at' = [at EXCEPT ![p] = x]
      BY <2>1 DEF LocalsOK
    <3> QED BY <1>b, <2>1, <3>1, <3>2, PlainStep
  <2> QED BY <1>3, <1>g, <2>1, FinishType DEF RunFailed
<1>4. CASE PendingRead(p)
  BY <1>4, <1>b, <1>g, FinishType, JustGoto DEF PendingRead
<1>5. CASE PendingVerify(p)
  BY <1>5, <1>b, <1>g, FinishType, JustGoto DEF PendingVerify
<1>6. CASE RefreshHinted(p)
  BY <1>6, <1>a, <1>b, <1>c, <1>g, CallRenewType, JustGoto DEF RefreshHinted
<1>7. CASE RunRetry(p)
  <2> DEFINE x == [at[p] EXCEPT !.client = None, !.out = "none"]
  <2>1. x \in Locals
    BY <1>a DEF Locals
  <2>2. CASE Goto(p, "resolve") /\ at' = [at EXCEPT ![p].client = None, ![p].out = "none"]
    <3>1. at' = [at EXCEPT ![p] = x]
      BY <2>2 DEF LocalsOK
    <3> QED BY <1>b, <1>g, <2>1, <2>2, <3>1, PlainStep
  <2> QED BY <1>7, <1>g, <2>2, FinishType DEF RunRetry
<1>8. CASE RunStarted(p)
  <2> DEFINE x == [at[p] EXCEPT !.wire = None, !.out = "served"]
  <2>1. x \in Locals
    BY <1>a DEF Locals
  <2>2. CASE Goto(p, "markSet") /\ at' = [at EXCEPT ![p].wire = None, ![p].out = "served"]
    <3>1. at' = [at EXCEPT ![p] = x]
      BY <2>2 DEF LocalsOK
    <3> QED BY <1>b, <1>g, <2>1, <2>2, <3>1, PlainStep
  <2> QED BY <1>8, <1>g, <2>2, FinishType DEF RunStarted
<1> QED BY <1>1, <1>2, <1>3, <1>4, <1>5, <1>6, <1>7, <1>8 DEF RunStep

LEMMA ConfigureTypes ==
  ASSUME TypeInv, ConstantsAssumption, NEW p \in Procs, Configure(p)
  PROVE  TypeInv'
<1> USE TypeParts, TypePartsNext
<1> DEFINE answer == at[p].answer
           l == CHOOSE x \in FreeLoops : TRUE
           to == IF pc[p] = "install" THEN AfterRenew[at[p].ret]["ok"]
                 ELSE IF answer.status = "verified" THEN "verifyRead" ELSE "warm"
           starts == StartsLoop(dp, answer)
           locals == IF pc[p] = "install" THEN Renewed(p, "ok") ELSE at[p]
           fresh == [NoLocals EXCEPT !.op = "renewal"]
<1>1. pc[p] \in {"configure", "install"} /\ pc[p] \in Renewing /\ pc[p] \in Answered
  BY DEF Configure, Renewing, Answered
<1>2. at[p] \in Locals /\ answer \in AnswerType /\ at[p].ret \in Rets
  BY <1>1 DEF LocalsOK, RenewingOK, RenewOK
<1>3. answer.ep # None => NewClient(answer.ep) \in Clients
  BY <1>2, NewClientType DEF Configure, AnswerType
<1>4. starts => l \in FreeLoops
  BY DEF Configure
<1>5. FreeLoops \subseteq Loops /\ \A x \in FreeLoops : pc[x] = "idle"
  BY DEF FreeLoops, Exited
<1>6. dp' \in DataPlaneState
  BY <1>2, <1>3, <1>4, <1>5, ConfiguredType DEF Configure, GlobalsOK
<1>7. GlobalsOK'
  BY <1>6 DEF Configure, GlobalsOK, mutexes, flags
<1>8. fresh \in Locals /\ RenewOK("top", fresh)
  BY DEF NoLocals, Locals, RenewOK, Renewing, Answered, OpKinds
<1>9. to \in Labels /\ locals \in Locals /\ RenewOK(to, locals)
  <2>1. CASE pc[p] = "install"
    BY <1>1, <2>1, RenewReturnType DEF RenewOK, Renewing
  <2>2. CASE pc[p] = "configure"
    <3>1. to \in {"verifyRead", "warm"} /\ locals = at[p]
      BY <2>2
    <3>2. {"verifyRead", "warm"} \subseteq Labels
      BY DEF Labels
    <3> QED BY <1>2, <3>1, <3>2 DEF RenewOK
  <2> QED BY <1>1, <2>1, <2>2
<1>10. pc' = [pc EXCEPT ![p] = to, ![l] = IF starts THEN "top" ELSE @]
  BY DEF Configure
<1>11. at' = [at EXCEPT ![p] = locals, ![l] = IF starts THEN fresh ELSE @]
  BY DEF Configure
<1>12. pc \in [Procs -> Labels] /\ at \in [Procs -> Locals]
  BY DEF LocalsOK
<1>13. "top" \in Labels
  BY DEF Labels
<1> HIDE DEF answer, l, to, starts, locals, fresh
<1>14. starts => l # p
  BY <1>1, <1>4, <1>5
<1>15. pc' \in [Procs -> Labels] /\ at' \in [Procs -> Locals]
  BY <1>8, <1>9, <1>10, <1>11, <1>12, <1>13
<1>16. ASSUME NEW q \in Procs PROVE RenewOK(pc'[q], at'[q])
  <2>1. CASE q = p
    <3>1. pc'[q] = to /\ at'[q] = locals
      BY <1>10, <1>11, <1>12, <1>14, <2>1
    <3> QED BY <1>9, <3>1
  <2>2. CASE q # p /\ q = l /\ starts
    <3>1. pc'[q] = "top" /\ at'[q] = fresh
      BY <1>10, <1>11, <1>12, <2>2
    <3> QED BY <1>8, <3>1
  <2>3. CASE q # p /\ ~(q = l /\ starts)
    <3>1. pc'[q] = pc[q] /\ at'[q] = at[q]
      BY <1>10, <1>11, <1>12, <2>3
    <3> QED BY <3>1 DEF LocalsOK, RenewingOK
  <2> QED BY <2>1, <2>2, <2>3
<1> QED BY <1>7, <1>15, <1>16 DEF LocalsOK, RenewingOK

LEMMA RenewTypes ==
  ASSUME TypeInv, ConstantsAssumption, NEW p \in Procs, RenewStep(p)
  PROVE  TypeInv'
<1> USE TypeParts, TypePartsNext
<1>a. at[p] \in Locals /\ {"rpc", "verifyRead", "verifySet", "warm"} \subseteq Renewing
  BY DEF LocalsOK, Renewing, Answered
<1>1. ASSUME NEW res \in {"err", "fatal"}, RenewFail(p, res) PROVE TypeInv'
  <2>1. GlobalsOK'
    BY <1>1 DEF RenewFail, GlobalsOK, mutexes, flags
  <2> QED BY <1>1, <1>a, <2>1, Returned DEF RenewFail
<1>2. ASSUME NEW answer \in Answers, RenewOk(p, answer) PROVE TypeInv'
  <2> DEFINE x == [at[p] EXCEPT !.answer = answer]
  <2>1. answer \in AnswerType /\ answer.ep \in Endpoints \cup {None}
    BY DEF ConstantsAssumption, AnswerType
  <2>2. GlobalsOK'
    BY <1>2, <2>1 DEF RenewOk, GlobalsOK, mutexes, flags
  <2>3. x \in Locals /\ x.ret = at[p].ret /\ x.answer = answer
    BY <1>a, <2>1 DEF Locals
  <2>4. at[p].ret \in Rets
    BY <1>2, <1>a DEF RenewOk, LocalsOK, RenewingOK, RenewOK
  <2>5. PICK label \in {"install", "configure"} : pc' = [pc EXCEPT ![p] = label]
    BY <1>2 DEF RenewOk, Goto
  <2>6. label \in Labels
    BY DEF Labels
  <2>7. RenewOK(label, x)
    BY <2>1, <2>3, <2>4 DEF RenewOK
  <2>8. at' = [at EXCEPT ![p] = x]
    BY <1>2 DEF RenewOk
  <2> QED BY <2>2, <2>3, <2>5, <2>6, <2>7, <2>8, LocalStep
<1>3. CASE Configure(p)
  BY <1>3, ConfigureTypes
<1>4. CASE VerifyRead(p)
  <2> DEFINE x == [at[p] EXCEPT !.seen = dp.client]
  <2>1. GlobalsOK'
    BY <1>4 DEF VerifyRead, GlobalsOK, mutexes, flags
  <2>2. CASE RenewReturn(p, "ok")
    BY <1>4, <1>a, <2>1, <2>2, Returned DEF VerifyRead
  <2>3. CASE Goto(p, "verifySet") /\ at' = [at EXCEPT ![p].seen = dp.client]
    <3>1. x \in Locals /\ x.ret = at[p].ret /\ x.answer = at[p].answer
      BY <1>a DEF Locals, GlobalsOK, DataPlaneState
    <3>2. RenewOK("verifyRead", at[p])
      BY <1>4 DEF VerifyRead, LocalsOK, RenewingOK
    <3>3. RenewOK("verifySet", x)
      BY <3>1, <3>2 DEF RenewOK, Renewing, Answered
    <3>4. "verifySet" \in Labels
      BY DEF Labels
    <3> QED BY <2>1, <2>3, <3>1, <3>3, <3>4, LocalStep DEF Goto
  <2> QED BY <1>4, <2>2, <2>3 DEF VerifyRead
<1>5. CASE VerifySet(p)
  <2>1. GlobalsOK'
    BY <1>5, <1>a DEF VerifySet, GlobalsOK, mutexes, flags, Locals
  <2> QED BY <1>5, <1>a, <2>1, Returned DEF VerifySet
<1>6. CASE Warm(p)
  <2>1. GlobalsOK'
    BY <1>6 DEF Warm, GlobalsOK, mutexes
  <2>2. CASE RenewReturn(p, "ok")
    BY <1>6, <1>a, <2>1, <2>2, Returned DEF Warm
  <2>3. ASSUME NEW w \in Warmers,
               pc' = [pc EXCEPT ![p] = AfterRenew[at[p].ret]["ok"], ![w] = "attach"],
               at' = [at EXCEPT ![p] = Renewed(p, "ok"),
                                ![w] = [NoLocals EXCEPT !.op = "warm", !.via = "op",
                                                        !.client = dp.client]]
        PROVE  LocalsOK'
    <3> DEFINE x == [NoLocals EXCEPT !.op = "warm", !.via = "op", !.client = dp.client]
               to == AfterRenew[at[p].ret]["ok"]
               y == Renewed(p, "ok")
    <3>1. dp.client \in Clients \cup {None}
      BY DEF GlobalsOK, DataPlaneState
    <3>2. x \in Locals
      BY <3>1, NoLocalsType DEF Locals
    <3>3. "attach" \in Labels \ Renewing
      BY DEF Labels, Renewing, Answered
    <3>4. to \in Labels \ Renewing /\ y \in Locals
      BY <1>6, <1>a, RenewReturnType DEF Warm
    <3>5. pc \in [Procs -> Labels] /\ at \in [Procs -> Locals]
      BY DEF LocalsOK
    <3>6. pc' = [pc EXCEPT ![p] = to, ![w] = "attach"] /\ at' = [at EXCEPT ![p] = y, ![w] = x]
      BY <2>3
    <3> HIDE DEF x, to, y
    <3>7. pc' \in [Procs -> Labels] /\ at' \in [Procs -> Locals]
      BY <3>2, <3>3, <3>4, <3>5, <3>6
    <3>8. ASSUME NEW q \in Procs PROVE RenewOK(pc'[q], at'[q])
      <4>1. pc'[q] \notin Renewing \/ (pc'[q] = pc[q] /\ at'[q] = at[q])
        BY <3>3, <3>4, <3>5, <3>6
      <4> QED BY <4>1 DEF RenewOK, Renewing, LocalsOK, RenewingOK
    <3> QED BY <3>7, <3>8 DEF LocalsOK, RenewingOK
  <2> QED BY <1>6, <2>1, <2>2, <2>3 DEF Warm
<1> QED BY <1>1, <1>2, <1>3, <1>4, <1>5, <1>6 DEF RenewStep

LEMMA LoopTypes ==
  ASSUME TypeInv, NEW p \in Procs, LoopStep(p)
  PROVE  TypeInv'
<1> USE TypeParts, TypePartsNext
<1>a. {"wait", "top"} \subseteq Labels \ Renewing /\ "loop" \in Rets /\ at[p] \in Locals
  BY DEF Labels, Renewing, Answered, Rets, LocalsOK
<1>1. GlobalsOK'
  BY DEF LoopStep, LoopTop, LoopStop, LoopTimer, GlobalsOK, mutexes, flags
<1>2. CASE LoopTop(p)
  BY <1>1, <1>2, <1>a, JustGoto, FinishType DEF LoopTop
<1>3. CASE LoopStop(p)
  BY <1>1, <1>3, FinishType DEF LoopStop
<1>4. CASE LoopTimer(p)
  BY <1>1, <1>4, <1>a, JustGoto, CallRenewType DEF LoopTimer
<1> QED BY <1>2, <1>3, <1>4 DEF LoopStep

LEMMA CloseTypes ==
  ASSUME TypeInv, NEW p \in Procs, CloseStep(p)
  PROVE  TypeInv'
<1> USE TypeParts, TypePartsNext
<1>a. at[p] \in Locals /\ dp \in DataPlaneState
  BY DEF LocalsOK, GlobalsOK
<1>b. {"resetHint", "closeDP", "closeWait", "terminate", "resetClear", "resetVerified",
       "resetWait", "closeEnd"} \subseteq Labels \ Renewing
  BY DEF Labels, Renewing, Answered
<1>c. ASSUME NEW w \in SUBSET Loops PROVE [at[p] EXCEPT !.wait = w] \in Locals
  BY <1>a DEF Locals
<1>1. CASE PauseRPC(p)
  <2>1. GlobalsOK'
    BY <1>1 DEF PauseRPC, GlobalsOK, mutexes, flags
  <2> QED BY <1>1, <1>b, <2>1, FinishType, JustGoto DEF PauseRPC
<1>2. CASE CloseLock(p)
  <2>1. GlobalsOK'
    BY <1>2 DEF CloseLock, GlobalsOK
  <2> QED BY <1>2, <1>b, <2>1, FinishType, JustGoto DEF CloseLock
<1>3. CASE CloseDataPlane(p)
  <2>1. dp' \in DataPlaneState
    BY <1>3, <1>a, CancelRenewalType DEF CloseDataPlane, DataPlaneState
  <2>2. GlobalsOK'
    BY <1>3, <2>1 DEF CloseDataPlane, GlobalsOK, mutexes, flags
  <2>3. dp.dones \ Exited \in SUBSET Loops
    BY <1>a DEF DataPlaneState
  <2> QED BY <1>3, <1>b, <1>c, <2>2, <2>3, PlainStep DEF CloseDataPlane
<1>4. CASE WaitRenewalStopped(p)
  <2>1. GlobalsOK'
    BY <1>4 DEF WaitRenewalStopped, GlobalsOK, mutexes, flags
  <2> QED BY <1>4, <1>b, <1>c, <2>1, PlainStep DEF WaitRenewalStopped
<1>5. CASE Terminate(p)
  <2>1. GlobalsOK'
    BY <1>5 DEF Terminate, GlobalsOK, mutexes, flags
  <2>2. ASSUME NEW o \in {"ok", "error"} PROVE [at[p] EXCEPT !.out = o] \in Locals
    BY <1>a DEF Locals
  <2> QED BY <1>5, <1>b, <2>1, <2>2, PlainStep DEF Terminate
<1>6. CASE ResetHint(p)
  <2>1. GlobalsOK'
    BY <1>6 DEF ResetHint, GlobalsOK, mutexes, flags
  <2> QED BY <1>6, <1>b, <2>1, JustGoto DEF ResetHint
<1>7. CASE ResetClear(p)
  <2>1. dp' \in DataPlaneState
    BY <1>7, <1>a, CancelRenewalType DEF ResetClear
  <2>2. GlobalsOK'
    BY <1>7, <2>1 DEF ResetClear, GlobalsOK, mutexes, flags
  <2>3. dp.dones \ Exited \in SUBSET Loops
    BY <1>a DEF DataPlaneState
  <2> QED BY <1>7, <1>b, <1>c, <2>2, <2>3, PlainStep DEF ResetClear
<1>8. CASE ResetVerified(p)
  <2>1. GlobalsOK'
    BY <1>8 DEF ResetVerified, GlobalsOK, mutexes, flags
  <2> QED BY <1>8, <1>b, <2>1, JustGoto DEF ResetVerified
<1>9. CASE ResetWait(p)
  <2>1. GlobalsOK'
    BY <1>9 DEF ResetWait, GlobalsOK, flags
  <2> QED BY <1>9, <1>b, <1>c, <2>1, FinishType, PlainStep DEF ResetWait
<1>10. CASE CloseEnd(p)
  <2>1. [dp EXCEPT !.closed = released] \in DataPlaneState
    BY <1>a DEF DataPlaneState, GlobalsOK
  <2>2. GlobalsOK'
    BY <1>10, <2>1 DEF CloseEnd, GlobalsOK
  <2> QED BY <1>10, <2>2, FinishType DEF CloseEnd
<1> QED BY <1>1, <1>2, <1>3, <1>4, <1>5, <1>6, <1>7, <1>8, <1>9, <1>10 DEF CloseStep

LEMMA StartTypes ==
  ASSUME TypeInv, ConstantsAssumption, NEW p \in Callers,
         \/ \E op \in OpKinds : Start(p, op)
         \/ \E answer \in Answers : Event(p, answer)
  PROVE  TypeInv'
<1> USE TypeParts, TypePartsNext
<1>a. at[p] \in Locals /\ p \in Procs
  BY DEF LocalsOK, Procs
<1>1. ASSUME NEW op \in OpKinds, Start(p, op) PROVE TypeInv'
  <2>1. GlobalsOK'
    BY <1>1 DEF Start, GlobalsOK, mutexes, flags
  <2>2. EntryLabel[op] \in Labels \ Renewing
    BY <1>1 DEF Start, EntryLabel, OpKinds, Labels, Renewing, Answered
  <2>3. [at[p] EXCEPT !.op = op] \in Locals
    BY <1>a DEF Locals
  <2> QED BY <1>1, <1>a, <2>1, <2>2, <2>3, PlainStep DEF Start
<1>2. ASSUME NEW answer \in Answers, Event(p, answer) PROVE TypeInv'
  <2> DEFINE x == [at[p] EXCEPT !.op = "event", !.ret = "event", !.answer = answer]
  <2>1. answer \in AnswerType /\ answer.ep \in Endpoints \cup {None}
    BY DEF ConstantsAssumption, AnswerType
  <2>2. GlobalsOK'
    BY <1>2, <2>1 DEF Event, GlobalsOK, mutexes, flags
  <2>3. x \in Locals
    BY <1>a, <2>1 DEF Locals, OpKinds
  <2>4. x.ret = "event" /\ x.answer = answer
    BY <1>a DEF Locals
  <2>5. at' = [at EXCEPT ![p] = x]
    BY <1>2 DEF Event, LocalsOK
  <2>6. RenewOK("configure", x) /\ "configure" \in Labels
    BY <2>1, <2>4 DEF RenewOK, Rets, Labels
  <2> QED BY <1>2, <1>a, <2>2, <2>3, <2>5, <2>6, LocalStep DEF Event, Goto
<1> QED BY <1>1, <1>2

LEMMA TypeStep ==
  ASSUME TypeInv, [Next]_vars
  PROVE  TypeInv'
<1> USE ConstantsAssumption
<1>1. CASE UNCHANGED vars
  BY <1>1 DEF TypeInv, TypeOK, RenewingOK, vars
<1>2. ASSUME NEW p \in Procs, Step(p) PROVE TypeInv'
  BY <1>2, ResolveTypes, ProbeTypes, UnaryTypes, RunTypes, RenewTypes, LoopTypes, CloseTypes
     DEF Step
<1>3. ASSUME NEW p \in Procs, FlightCancelled(p) PROVE TypeInv'
  <2>1. GlobalsOK'
    BY <1>3, TypeParts DEF FlightCancelled, GlobalsOK, mutexes, flags
  <2> QED BY <1>3, <2>1, FinishType, TypeParts, TypePartsNext DEF FlightCancelled
<1> QED BY <1>1, <1>2, <1>3, StartTypes DEF Next

LEMMA TypeInit == Init => TypeInv
<1> SUFFICES ASSUME Init PROVE TypeInv
  OBVIOUS
<1>1. dp \in DataPlaneState
  BY DEF Init, FreshDataPlane, DataPlaneState
<1>2. GlobalsOK
  BY <1>1 DEF Init, GlobalsOK
<1>3. "idle" \in Labels \ Renewing
  BY DEF Labels, Renewing, Answered
<1>4. LocalsOK
  BY <1>3, NoLocalsType DEF Init, LocalsOK, RenewingOK, RenewOK, Renewing
<1> QED BY <1>2, <1>4, TypeParts

\* Every variable of the handle and of its goroutines stays in its type, and a
\* goroutine inside renewDataPlaneCredential knows where to return and, once
\* answered, what to apply.
THEOREM TypeCorrect == Spec => [](TypeOK /\ RenewingOK)
<1>1. Spec => []TypeInv
  BY TypeInit, TypeStep, PTL DEF Spec
<1> QED BY <1>1, PTL DEF TypeInv

-----------------------------------------------------------------------------
(* The two views of a step.                                                *)

\* dp' is what configureDataPlane makes of some answer, with a client for the
\* endpoint the answer names.
ConfigureStep ==
  \E answer \in AnswerType, h \in BOOLEAN : \E c, l :
    /\ answer.ep # None => c \in Clients /\ c.ep = answer.ep
    /\ StartsLoop(dp, answer) => l \in Loops
    /\ dp' = Configured(dp, answer, h, c, Exited, l)

LEMMA DataPlaneStep ==
  ASSUME TypeInv, [Next]_vars
  PROVE  \/ dp' = dp
         \/ ConfigureStep
         \/ \E p \in Procs : CloseDataPlane(p) \/ ResetClear(p) \/ CloseEnd(p)
<1> USE TypeParts
<1>1. ASSUME NEW p \in Procs, ConfigureFromHint(p) PROVE ConfigureStep
  <2> DEFINE e == at[p].resolved
             answer == [ep |-> e, status |-> "unspecified", cred |-> None]
  <2>1. e \in Endpoints \cup {None}
    BY DEF LocalsOK, Locals
  <2>2. answer \in AnswerType /\ answer.ep = e /\ answer.cred = None
    BY <2>1 DEF AnswerType
  <2>3. e # None => NewClient(e) \in Clients /\ NewClient(e).ep = e
    BY <1>1, <2>1, NewClientType DEF ConfigureFromHint
  <2>4. ~StartsLoop(dp, answer)
    BY <2>2, ConstantsAssumption DEF ConstantsAssumption, StartsLoop
  <2>5. dp' = Configured(dp, answer, TRUE, NewClient(e), Exited, None)
    BY <1>1 DEF ConfigureFromHint
  <2> HIDE DEF e, answer
  <2> QED BY <2>2, <2>3, <2>4, <2>5 DEF ConfigureStep
<1>2. ASSUME NEW p \in Procs, Configure(p) PROVE ConfigureStep
  <2> DEFINE answer == at[p].answer
             l == CHOOSE x \in FreeLoops : TRUE
  <2>1. answer \in AnswerType
    BY <1>2 DEF Configure, LocalsOK, RenewingOK, RenewOK, Answered
  <2>2. answer.ep # None => NewClient(answer.ep) \in Clients /\ NewClient(answer.ep).ep = answer.ep
    BY <1>2, <2>1, NewClientType DEF Configure, AnswerType
  <2>3. StartsLoop(dp, answer) => l \in Loops
    BY <1>2 DEF Configure, FreeLoops, Exited
  <2>4. dp' = Configured(dp, answer, FALSE, NewClient(answer.ep), Exited, l)
    BY <1>2 DEF Configure
  <2> HIDE DEF answer, l
  <2> QED BY <2>1, <2>2, <2>3, <2>4 DEF ConfigureStep
<1>3. ASSUME NEW p \in Procs, Step(p),
             ~ConfigureFromHint(p), ~Configure(p),
             ~(CloseDataPlane(p) \/ ResetClear(p) \/ CloseEnd(p))
      PROVE  dp' = dp
  <2>1. CASE ResolveStep(p)
    BY <1>3, <2>1 DEF ResolveStep, Resolve, ReadHint, ReadHinted, Flight, FlightEnd,
                      ReadResolved, ReadConfigured, Recheck
  <2>2. CASE ProbeStep(p)
    BY <2>2 DEF ProbeStep, ProbeLock, ProbeRetry, ProbeTimeout, MarkRead, MarkSet, Current
  <2>3. CASE UnaryStep(p)
    BY <2>3 DEF UnaryStep, Attach, Reply, Replay, UnaryDone
  <2>4. CASE RunStep(p)
    BY <2>4 DEF RunStep, Open, RunRejected, RunFailed, PendingRead, PendingVerify,
                RefreshHinted, RunRetry, RunStarted
  <2>5. CASE RenewStep(p)
    BY <1>3, <2>5 DEF RenewStep, RenewFail, RenewOk, VerifyRead, VerifySet, Warm
  <2>6. CASE LoopStep(p)
    BY <2>6 DEF LoopStep, LoopTop, LoopStop, LoopTimer
  <2>7. CASE CloseStep(p)
    BY <1>3, <2>7 DEF CloseStep, PauseRPC, CloseLock, WaitRenewalStopped, Terminate,
                      ResetHint, ResetVerified, ResetWait
  <2> QED BY <1>3, <2>1, <2>2, <2>3, <2>4, <2>5, <2>6, <2>7 DEF Step
<1>4. ASSUME NEW p \in Procs, Step(p)
      PROVE  dp' = dp \/ ConfigureStep \/ CloseDataPlane(p) \/ ResetClear(p) \/ CloseEnd(p)
  BY <1>1, <1>2, <1>3, <1>4
<1>5. ASSUME NEW p, NEW op, Start(p, op) PROVE dp' = dp
  BY <1>5 DEF Start
<1>6. ASSUME NEW p, NEW answer, Event(p, answer) PROVE dp' = dp
  BY <1>6 DEF Event
<1>7. ASSUME NEW p, FlightCancelled(p) PROVE dp' = dp
  BY <1>7 DEF FlightCancelled
<1>8. CASE UNCHANGED vars
  BY <1>8 DEF vars
<1> QED BY <1>4, <1>5, <1>6, <1>7, <1>8 DEF Next

-----------------------------------------------------------------------------
(* The handle's fields agree.                                              *)

Coherent(d) ==
  /\ d.held = d.endpoint
  /\ d.client = None <=> d.endpoint = None
  /\ d.client # None => d.client.ep = d.endpoint
  /\ d.cred \in Endpoints => d.credEndpoint = d.cred

LEMMA ConnectCoherent ==
  ASSUME NEW d \in DataPlaneState, Coherent(d), NEW e \in Endpoints \cup {None}, NEW h \in BOOLEAN,
         NEW c, e # None => c \in Clients /\ c.ep = e
  PROVE  /\ Coherent(Connect(d, e, h, c))
         /\ e # None => Connect(d, e, h, c).endpoint = e
<1> DEFINE moved == [CancelRenewal(d) EXCEPT
                       !.held = e, !.endpoint = e, !.client = c,
                       !.credEndpoint = IF d.cred # None /\ @ = None THEN e ELSE @]
           d1 == IF Moves(d, e) THEN moved ELSE d
<1>1. /\ moved.held = e /\ moved.endpoint = e /\ moved.client = c /\ moved.cred = d.cred
      /\ moved.credEndpoint = IF d.cred # None /\ d.credEndpoint = None THEN e ELSE d.credEndpoint
  BY DEF DataPlaneState, CancelRenewal
<1>2. CASE Moves(d, e)
  <2>1. e # None /\ c \in Clients /\ c.ep = e /\ c # None /\ None \notin Endpoints
    BY <1>2, ConstantsAssumption DEF ConstantsAssumption, Moves
  <2>2. d.cred \in Endpoints => moved.credEndpoint = d.cred
    BY <1>1, <2>1 DEF Coherent
  <2>3. Coherent(d1) /\ d1.endpoint = e
    BY <1>1, <1>2, <2>1, <2>2 DEF Coherent
  <2> QED
    <3>1. d1 \in DataPlaneState
      BY <1>2, <2>1, CancelRenewalType DEF DataPlaneState
    <3> DEFINE d2 == [d1 EXCEPT !.fromHint = h]
    <3> HIDE DEF moved, d1
    <3>2. /\ d2.held = d1.held /\ d2.endpoint = d1.endpoint /\ d2.client = d1.client
          /\ d2.cred = d1.cred /\ d2.credEndpoint = d1.credEndpoint
      BY <3>1 DEF DataPlaneState
    <3>3. Coherent(d2) /\ d2.endpoint = e
      BY <2>3, <3>2 DEF Coherent
    <3>4. Connect(d, e, h, c) \in {d1, d2}
      BY DEF Connect, d1, moved
    <3> QED BY <2>3, <3>3, <3>4
<1>3. CASE ~Moves(d, e)
  <2> DEFINE d2 == [d EXCEPT !.fromHint = h]
  <2>1. Connect(d, e, h, c) = IF e # None /\ d.endpoint = e THEN d2 ELSE d
    BY <1>3 DEF Connect
  <2>2. e # None => d.endpoint = e
    BY <1>3 DEF Moves
  <2>3. /\ d2.held = d.held /\ d2.endpoint = d.endpoint /\ d2.client = d.client
        /\ d2.cred = d.cred /\ d2.credEndpoint = d.credEndpoint
    BY DEF DataPlaneState
  <2> QED BY <2>1, <2>2, <2>3 DEF Coherent
<1> QED BY <1>2, <1>3

LEMMA ConfiguredCoherent ==
  ASSUME TypeInv, Coherent(dp), ConfigureStep
  PROVE  Coherent(dp')
<1>1. PICK answer \in AnswerType, h \in BOOLEAN : \E c, l :
        /\ answer.ep # None => c \in Clients /\ c.ep = answer.ep
        /\ StartsLoop(dp, answer) => l \in Loops
        /\ dp' = Configured(dp, answer, h, c, Exited, l)
  BY DEF ConfigureStep
<1>2. PICK c, l :
        /\ answer.ep # None => c \in Clients /\ c.ep = answer.ep
        /\ dp' = Configured(dp, answer, h, c, Exited, l)
  BY <1>1
<1> DEFINE d1 == Connect(dp, answer.ep, h, c)
           d2 == SetCredential(d1, answer)
           d3 == RestartRenewal(d2, Exited, l)
<1>3. dp \in DataPlaneState /\ answer.ep \in Endpoints \cup {None}
  BY DEF TypeInv, TypeOK, AnswerType
<1>4. d1 \in DataPlaneState /\ Coherent(d1) /\ (answer.ep # None => d1.endpoint = answer.ep)
  BY <1>2, <1>3, ConnectType, ConnectCoherent
<1> HIDE DEF d1
<1>5. /\ d2 \in DataPlaneState
      /\ d2.held = d1.held /\ d2.endpoint = d1.endpoint /\ d2.client = d1.client
      /\ d2.credEndpoint = d1.endpoint /\ d2.cred \in {None, Unnamed, answer.ep}
  <2>1. d2 \in DataPlaneState
    BY <1>4, SetCredentialType
  <2>2. d2.held = d1.held /\ d2.endpoint = d1.endpoint /\ d2.client = d1.client
    BY <1>4 DEF SetCredential, DataPlaneState
  <2>3. d2.credEndpoint = d1.endpoint
    BY <1>4 DEF SetCredential, DataPlaneState
  <2>4. d2.cred = IF answer.cred = "blank" THEN None
                  ELSE IF answer.ep = None THEN Unnamed ELSE answer.ep
    BY <1>4 DEF SetCredential, DataPlaneState
  <2> QED BY <2>1, <2>2, <2>3, <2>4
<1>6. Coherent(d2)
  <2>1. d2.cred \in Endpoints => d2.cred = answer.ep /\ answer.ep # None
    BY <1>5, ConstantsAssumption DEF ConstantsAssumption
  <2> QED BY <1>4, <1>5, <2>1 DEF Coherent
<1> HIDE DEF d2
<1>7. /\ d3.held = d2.held /\ d3.endpoint = d2.endpoint /\ d3.client = d2.client
      /\ d3.credEndpoint = d2.credEndpoint /\ d3.cred = d2.cred
  BY <1>5 DEF RestartRenewal, CancelRenewal, DataPlaneState
<1>8. dp' \in {dp, d1, d3}
  BY <1>2 DEF Configured, d1, d2
<1> QED BY <1>4, <1>6, <1>7, <1>8 DEF Coherent

LEMMA CoherentStep ==
  ASSUME TypeInv, Coherent(dp), [Next]_vars
  PROVE  Coherent(dp')
<1>a. dp \in DataPlaneState /\ None \notin Endpoints
  BY ConstantsAssumption DEF TypeInv, TypeOK, ConstantsAssumption
<1>1. ASSUME NEW p \in Procs, CloseDataPlane(p) \/ CloseEnd(p) PROVE Coherent(dp')
  <2>1. /\ dp'.held = dp.held /\ dp'.endpoint = dp.endpoint /\ dp'.client = dp.client
        /\ dp'.credEndpoint = dp.credEndpoint /\ dp'.cred = dp.cred
    BY <1>1, <1>a DEF CloseDataPlane, CloseEnd, DrainRenewal, CancelRenewal, DataPlaneState
  <2> QED BY <2>1 DEF Coherent
<1>2. ASSUME NEW p \in Procs, ResetClear(p) PROVE Coherent(dp')
  <2>1. dp'.held = None /\ dp'.endpoint = None /\ dp'.client = None /\ dp'.cred = None
    BY <1>2, <1>a DEF ResetClear, ResetState, DrainRenewal, CancelRenewal, DataPlaneState
  <2> QED BY <1>a, <2>1 DEF Coherent
<1> QED BY <1>1, <1>2, ConfiguredCoherent, DataPlaneStep

\* However configure, reset and late renewals interleave, the handle's client,
\* transport, endpoint and credential belong together (HandleCoherent).
THEOREM HandleCorrect == Spec => []HandleCoherent
<1>1. Init => Coherent(dp)
  BY ConstantsAssumption DEF Init, FreshDataPlane, Coherent, ConstantsAssumption
<1>2. Coherent(dp) /\ TypeInv /\ [Next]_vars => Coherent(dp')
  BY CoherentStep
<1>3. Coherent(dp) <=> HandleCoherent
  BY DEF Coherent, HandleCoherent
<1>4. Coherent(dp') <=> HandleCoherent'
  BY DEF Coherent, HandleCoherent
<1>5. Init => HandleCoherent
  BY <1>1, <1>3
<1>6. HandleCoherent /\ TypeInv /\ [Next]_vars => HandleCoherent'
  BY <1>2, <1>3, <1>4
<1> QED BY <1>5, <1>6, TypeInit, TypeStep, PTL DEF Spec

-----------------------------------------------------------------------------
(* What a goroutine's step does to the others.                             *)

\* q itself moves
Own(q) ==
  \/ \E op \in OpKinds : q \in Callers /\ Start(q, op)
  \/ \E answer \in Answers : q \in Callers /\ Event(q, answer)
  \/ Step(q) \/ FlightCancelled(q)

\* q is left alone, woken from another's resolution, started as a renewal loop,
\* or started as the warm-up.
Other(q) ==
  \/ pc'[q] = pc[q] /\ at'[q] = at[q]
  \/ pc[q] = "flightWait" /\ pc'[q] = "flight" /\ at'[q] = at[q]
  \/ q \in Loops /\ pc[q] = "idle" /\ pc'[q] = "top"
     /\ at'[q] = [NoLocals EXCEPT !.op = "renewal"]
  \/ q \in Warmers /\ pc'[q] = "attach" /\ dp.client # None
     /\ at'[q] = [NoLocals EXCEPT !.op = "warm", !.via = "op", !.client = dp.client]

LEMMA ConfigureOther ==
  ASSUME TypeInv, NEW p \in Procs, NEW q \in Procs, q # p, Configure(p)
  PROVE  Other(q)
<1> DEFINE l == CHOOSE x \in FreeLoops : TRUE
           starts == StartsLoop(dp, at[p].answer)
           fresh == [NoLocals EXCEPT !.op = "renewal"]
<1>1. PICK to, locals :
        /\ pc' = [pc EXCEPT ![p] = to, ![l] = IF starts THEN "top" ELSE @]
        /\ at' = [at EXCEPT ![p] = locals, ![l] = IF starts THEN fresh ELSE @]
  BY DEF Configure
<1>2. starts => l \in FreeLoops
  BY DEF Configure
<1>3. FreeLoops \subseteq Loops /\ \A x \in FreeLoops : pc[x] = "idle"
  BY DEF FreeLoops, Exited
<1>4. pc \in [Procs -> Labels] /\ at \in [Procs -> Locals]
  BY TypeParts DEF LocalsOK
<1> HIDE DEF l, starts, fresh
<1>5. CASE q = l /\ starts
  <2>1. pc'[q] = "top" /\ at'[q] = fresh
    BY <1>1, <1>4, <1>5
  <2> QED BY <1>2, <1>3, <1>5, <2>1 DEF Other, fresh
<1>6. CASE ~(q = l /\ starts)
  <2>1. pc'[q] = pc[q] /\ at'[q] = at[q]
    BY <1>1, <1>4, <1>6
  <2> QED BY <2>1 DEF Other
<1> QED BY <1>5, <1>6

LEMMA StepOther ==
  ASSUME TypeInv, NEW p \in Procs, NEW q \in Procs, q # p, Step(p) \/ FlightCancelled(p)
  PROVE  Other(q)
<1>a. LocalsOK
  BY TypeParts
<1>b. pc \in [Procs -> Labels] /\ at \in [Procs -> Locals]
  BY <1>a DEF LocalsOK
<1>c. pc'[q] = pc[q] /\ at'[q] = at[q] => Other(q)
  BY DEF Other
<1>1. CASE ResolveStep(p)
  <2>1. CASE FlightEnd(p)
    BY <1>b, <2>1 DEF FlightEnd, Other
  <2>2. CASE ~FlightEnd(p)
    BY <1>1, <1>b, <1>c, <2>2
       DEF ResolveStep, Resolve, ReadHint, ConfigureFromHint, ReadHinted, Flight, ReadResolved,
           ReadConfigured, Recheck, TakeClient, Finish, Goto, CallRenew
  <2> QED BY <2>1, <2>2
<1>2. CASE ProbeStep(p)
  BY <1>2, <1>b, <1>c
     DEF ProbeStep, ProbeLock, ProbeRetry, ProbeTimeout, MarkRead, MarkSet, Current, Finish, Goto
<1>3. CASE UnaryStep(p)
  BY <1>3, <1>b, <1>c DEF UnaryStep, Attach, Reply, Replay, UnaryDone, Finish, Goto, CallRenew
<1>4. CASE RunStep(p)
  BY <1>4, <1>b, <1>c
     DEF RunStep, Open, RunRejected, RunFailed, PendingRead, PendingVerify, RefreshHinted,
         RunRetry, RunStarted, Finish, Goto, CallRenew
<1>5. CASE RenewStep(p)
  <2>1. CASE Configure(p)
    BY <2>1, ConfigureOther
  <2>2. CASE Warm(p)
    <3>1. CASE RenewReturn(p, "ok")
      BY <1>b, <1>c, <3>1 DEF RenewReturn, Goto
    <3>2. ASSUME NEW w \in Warmers, dp.client # None,
                 pc' = [pc EXCEPT ![p] = AfterRenew[at[p].ret]["ok"], ![w] = "attach"],
                 at' = [at EXCEPT ![p] = Renewed(p, "ok"),
                                  ![w] = [NoLocals EXCEPT !.op = "warm", !.via = "op",
                                                          !.client = dp.client]]
          PROVE  Other(q)
      <4>1. CASE q = w
        BY <1>b, <3>2, <4>1 DEF Other
      <4>2. CASE q # w
        BY <1>b, <1>c, <3>2, <4>2
      <4> QED BY <4>1, <4>2
    <3> QED BY <2>2, <3>1, <3>2 DEF Warm
  <2>3. CASE ~Configure(p) /\ ~Warm(p)
    BY <1>5, <1>b, <1>c, <2>3
       DEF RenewStep, RenewFail, RenewOk, VerifyRead, VerifySet, RenewReturn, Goto
  <2> QED BY <2>1, <2>2, <2>3
<1>6. CASE LoopStep(p)
  BY <1>6, <1>b, <1>c DEF LoopStep, LoopTop, LoopStop, LoopTimer, Finish, Goto, CallRenew
<1>7. CASE CloseStep(p)
  BY <1>7, <1>b, <1>c
     DEF CloseStep, PauseRPC, CloseLock, CloseDataPlane, WaitRenewalStopped, Terminate, ResetHint,
         ResetClear, ResetVerified, ResetWait, CloseEnd, Finish, Goto
<1>8. CASE FlightCancelled(p)
  BY <1>8, <1>b, <1>c DEF FlightCancelled, Finish, Goto
<1> QED BY <1>1, <1>2, <1>3, <1>4, <1>5, <1>6, <1>7, <1>8 DEF Step

\* In any step a goroutine moves itself or is moved as Other says.
LEMMA Frame ==
  ASSUME TypeInv, [Next]_vars, NEW q \in Procs
  PROVE  Own(q) \/ Other(q)
<1>a. pc \in [Procs -> Labels] /\ at \in [Procs -> Locals] /\ Callers \subseteq Procs
  BY TypeParts DEF LocalsOK, Procs
<1>1. ASSUME NEW p \in Callers, NEW op \in OpKinds, Start(p, op) PROVE Own(q) \/ Other(q)
  <2>1. CASE p = q
    BY <1>1, <2>1 DEF Own
  <2>2. CASE p # q
    BY <1>1, <1>a, <2>2 DEF Start, Goto, Other
  <2> QED BY <2>1, <2>2
<1>2. ASSUME NEW p \in Callers, NEW answer \in Answers, Event(p, answer)
      PROVE  Own(q) \/ Other(q)
  <2>1. CASE p = q
    BY <1>2, <2>1 DEF Own
  <2>2. CASE p # q
    BY <1>2, <1>a, <2>2 DEF Event, Goto, Other
  <2> QED BY <2>1, <2>2
<1>3. ASSUME NEW p \in Procs, Step(p) \/ FlightCancelled(p) PROVE Own(q) \/ Other(q)
  BY <1>3, StepOther DEF Own
<1>4. CASE UNCHANGED vars
  BY <1>4 DEF vars, Other
<1> QED BY <1>1, <1>2, <1>3, <1>4 DEF Next

-----------------------------------------------------------------------------
(* Requests go out on a client, with a credential for its endpoint.        *)

\* Labels of a goroutine that holds a client: the probe, a unary request and the
\* reaction to its answer, an open stream.
Holding == {"probeLock", "attach", "inflight", "reattach", "reinflight", "replay", "opened",
            "markSet", "current", "answered"}
\* ... of one whose request has its headers
Carrying == {"inflight", "replay", "reattach", "reinflight", "opened"}

WireOK(x) == x.wire \in {None, Unnamed, x.client.ep}

\* Client and headers are also kept across the renewal that precedes a replay.
ReqOK(label, x) ==
  /\ label \in Holding \/ (label \in Renewing /\ x.ret = "replay") => x.client # None
  /\ label \in Carrying \/ (label \in Renewing /\ x.ret = "replay") => WireOK(x)

RequestsOK == \A q \in Procs : ReqOK(pc[q], at[q])

LEMMA AfterRenewRange ==
  ASSUME NEW ret \in Rets, NEW res \in {"ok", "err", "fatal"}
  PROVE  /\ AfterRenew[ret][res] \notin Renewing
         /\ AfterRenew[ret][res] \in Holding => ret = "replay"
BY DEF Rets, AfterRenew, Renewing, Answered, Holding

\* Labels that ask nothing of a goroutine's locals.
LEMMA FreeLabel ==
  ASSUME NEW label, NEW x, label \notin Holding \cup Renewing
  PROVE  ReqOK(label, x)
BY DEF ReqOK, Carrying, Holding

LEMMA FinishReq ==
  ASSUME LocalsOK, NEW q \in Procs, Finish(q)
  PROVE  ReqOK(pc'[q], at'[q])
<1>1. pc'[q] = "idle"
  BY DEF Finish, Goto, LocalsOK
<1> QED BY <1>1, FreeLabel DEF Holding, Renewing, Answered

LEMMA CallRenewReq ==
  ASSUME LocalsOK, NEW q \in Procs, NEW x \in Locals, NEW ret \in Rets, CallRenew(q, x, ret),
         ret = "replay" => x.client # None /\ WireOK(x)
  PROVE  ReqOK(pc'[q], at'[q])
<1>1. pc'[q] = "rpc" /\ at'[q] = [x EXCEPT !.ret = ret]
  BY DEF CallRenew, Goto, LocalsOK
<1>2. at'[q].ret = ret /\ at'[q].client = x.client /\ at'[q].wire = x.wire
  BY <1>1 DEF Locals
<1> QED BY <1>1, <1>2 DEF ReqOK, WireOK, Holding, Carrying

LEMMA RenewReturnReq ==
  ASSUME LocalsOK, NEW q \in Procs, NEW res \in {"ok", "err", "fatal"}, pc[q] \in Renewing,
         ReqOK(pc[q], at[q]),
         pc'[q] = AfterRenew[at[q].ret][res], at'[q] = Renewed(q, res)
  PROVE  ReqOK(pc'[q], at'[q])
<1>1. at[q] \in Locals /\ at[q].ret \in Rets
  BY DEF LocalsOK, RenewingOK, RenewOK
<1>2. CASE pc'[q] \in Holding
  <2>1. at[q].ret = "replay" /\ at[q].client # None /\ WireOK(at[q]) /\ pc'[q] \notin Renewing
    BY <1>1, <1>2, AfterRenewRange DEF ReqOK
  <2>2. pc'[q] # "idle"
    BY <1>2 DEF Holding
  <2>3. at'[q].client = at[q].client /\ at'[q].wire = at[q].wire
    BY <1>1, <2>2 DEF Renewed, Locals
  <2> QED BY <2>1, <2>3 DEF ReqOK, WireOK
<1>3. CASE pc'[q] \notin Holding
  BY <1>1, <1>3, AfterRenewRange, FreeLabel
<1> QED BY <1>2, <1>3

LEMMA ResolveReq ==
  ASSUME TypeInv, NEW q \in Procs, ResolveStep(q)
  PROVE  ReqOK(pc'[q], at'[q])
<1>a. LocalsOK /\ at[q] \in Locals /\ pc \in [Procs -> Labels] /\ at \in [Procs -> Locals]
  BY TypeParts DEF LocalsOK
<1>b. {"refresh", "flight"} \subseteq Rets
  BY DEF Rets
<1>c. \A label \in {"hint", "flight", "recheck", "hintConfigure", "hintRead", "postFinal",
                    "postRead", "flightWait", "idle", "postConfigure", "open"} :
        label \notin Holding \cup Renewing
  BY DEF Holding, Renewing, Answered
<1>1. ASSUME NEW label \in {"hint", "flight", "recheck", "hintConfigure", "hintRead", "postFinal",
                           "postRead", "flightWait", "idle", "postConfigure", "open"},
             pc'[q] = label
      PROVE  ReqOK(pc'[q], at'[q])
  BY <1>1, <1>c, FreeLabel
<1>2. CASE Resolve(q)
  <2>1. ASSUME NEW stale \in BOOLEAN,
               CallRenew(q, [at[q] EXCEPT !.stale = stale], "refresh")
        PROVE  ReqOK(pc'[q], at'[q])
    <3>1. [at[q] EXCEPT !.stale = stale] \in Locals
      BY <1>a DEF Locals
    <3> QED BY <1>a, <1>b, <2>1, <3>1, CallRenewReq
  <2>2. (dp.cred = None) \in BOOLEAN /\ (dp.cred = None \/ dp.expires) \in BOOLEAN
    OBVIOUS
  <2>3. \/ Finish(q) \/ pc'[q] \in {"hint", "flight", "recheck"}
        \/ \E stale \in BOOLEAN : CallRenew(q, [at[q] EXCEPT !.stale = stale], "refresh")
    BY <1>2, <1>a, <2>2 DEF Resolve, Goto
  <2> QED BY <1>a, <1>1, <2>1, <2>3, FinishReq
<1>3. CASE ReadHint(q) \/ ConfigureFromHint(q) \/ ReadResolved(q) \/ FlightEnd(q)
  BY <1>3, <1>a, <1>1 DEF ReadHint, ConfigureFromHint, ReadResolved, FlightEnd, Goto
<1>4. CASE ReadHinted(q)
  <2>1. pc'[q] \in {"flight", "recheck"} \/ CallRenew(q, at[q], "refresh")
    BY <1>4, <1>a DEF ReadHinted, Goto
  <2> QED BY <1>a, <1>b, <1>1, <2>1, CallRenewReq
<1>5. CASE Flight(q)
  <2>1. pc'[q] \in {"postRead", "flightWait"} \/ CallRenew(q, at[q], "flight")
    BY <1>5, <1>a DEF Flight, Goto
  <2> QED BY <1>a, <1>b, <1>1, <2>1, CallRenewReq
<1>6. ASSUME NEW b \in BOOLEAN, TakeClient(q, b), Verifies(at[q].op) => b
      PROVE  ReqOK(pc'[q], at'[q])
  <2>1. CASE Finish(q)
    BY <1>a, <2>1, FinishReq
  <2>2. CASE ~Finish(q) /\ Verifies(at[q].op)
    <3>1. dp.client # None /\ pc'[q] = "probeLock"
      BY <1>6, <1>a, <2>2 DEF TakeClient, Goto
    <3>2. at'[q].client = dp.client
      BY <1>6, <1>a, <2>2 DEF TakeClient, Locals
    <3> QED BY <3>1, <3>2 DEF ReqOK, Carrying, Renewing, Answered
  <2>3. CASE ~Finish(q) /\ ~Verifies(at[q].op)
    BY <1>6, <1>a, <1>1, <2>3 DEF TakeClient, Goto
  <2> QED BY <2>1, <2>2, <2>3
<1>7. CASE ReadConfigured(q)
  BY <1>6, <1>7 DEF ReadConfigured
<1>8. CASE Recheck(q)
  <2>1. Verifies(at[q].op) \in BOOLEAN
    BY DEF Verifies
  <2> QED BY <1>6, <1>8, <2>1 DEF Recheck
<1> QED BY <1>2, <1>3, <1>4, <1>5, <1>7, <1>8 DEF ResolveStep

LEMMA ProbeReq ==
  ASSUME TypeInv, NEW q \in Procs, ReqOK(pc[q], at[q]), ProbeStep(q)
  PROVE  ReqOK(pc'[q], at'[q])
<1>a. LocalsOK /\ at[q] \in Locals /\ pc \in [Procs -> Labels] /\ at \in [Procs -> Locals]
  BY TypeParts DEF LocalsOK
<1>1. CASE Finish(q)
  BY <1>a, <1>1, FinishReq
<1>2. ASSUME ~Finish(q) PROVE at[q].client # None
  BY <1>2 DEF ProbeStep, ProbeLock, ProbeRetry, ProbeTimeout, MarkRead, MarkSet, Current,
              ReqOK, Holding
<1>3. ASSUME ~Finish(q), at'[q].client # None PROVE ReqOK(pc'[q], at'[q])
  <2>1. pc'[q] \in {"current", "attach", "markSet", "open"}
    BY <1>3, <1>a DEF ProbeStep, ProbeLock, ProbeRetry, ProbeTimeout, MarkRead, MarkSet, Current, Goto
  <2> QED BY <1>3, <2>1 DEF ReqOK, Carrying, Renewing, Answered
<1>4. CASE ~Finish(q) /\ Current(q)
  <2>1. at'[q].client = IF dp.client # None THEN dp.client ELSE at[q].client
    BY <1>4, <1>a DEF Current, Locals
  <2> QED BY <1>2, <1>3, <1>4, <2>1
<1>5. CASE ~Finish(q) /\ ~Current(q)
  <2>1. at'[q].client = at[q].client
    BY <1>5, <1>a DEF ProbeStep, ProbeLock, ProbeRetry, ProbeTimeout, MarkRead, MarkSet, Locals
  <2> QED BY <1>2, <1>3, <1>5, <2>1
<1> QED BY <1>1, <1>4, <1>5

\* The credential of a coherent handle that fits an endpoint is one for it.
LEMMA WireFits ==
  ASSUME TypeInv, Coherent(dp), NEW e, CredentialFits(dp, e)
  PROVE  dp.cred \in {None, Unnamed, e}
<1>1. dp.cred \in Endpoints \cup {None, Unnamed}
  BY DEF TypeInv, TypeOK, DataPlaneState
<1> QED BY <1>1 DEF Coherent, CredentialFits

LEMMA UnaryReq ==
  ASSUME TypeInv, Coherent(dp), NEW q \in Procs, ReqOK(pc[q], at[q]), UnaryStep(q)
  PROVE  ReqOK(pc'[q], at'[q])
<1>a. LocalsOK /\ at[q] \in Locals /\ pc \in [Procs -> Labels] /\ at \in [Procs -> Locals]
  BY TypeParts DEF LocalsOK
<1>1. at[q].client # None
  BY DEF UnaryStep, Attach, Reply, Replay, UnaryDone, ReqOK, Holding
<1>2. ASSUME pc'[q] = "answered", at'[q].client = at[q].client
      PROVE  ReqOK(pc'[q], at'[q])
  BY <1>1, <1>2 DEF ReqOK, Carrying, Renewing, Answered
<1>3. CASE Attach(q)
  <2>1. CASE CredentialFits(dp, at[q].client.ep)
    <3>1. /\ pc'[q] \in Carrying /\ pc'[q] \notin Renewing /\ at'[q].client = at[q].client
          /\ at'[q].wire = dp.cred \/ (pc[q] = "reattach" /\ at'[q].wire = at[q].wire)
      BY <1>3, <1>a, <2>1 DEF Attach, Goto, Carrying, Renewing, Answered, Locals
    <3>2. dp.cred \in {None, Unnamed, at[q].client.ep}
      BY <2>1, WireFits
    <3>3. pc[q] = "reattach" => WireOK(at[q])
      BY DEF ReqOK, Carrying, Renewing, Answered
    <3>4. WireOK(at'[q])
      BY <3>1, <3>2, <3>3 DEF WireOK
    <3> QED BY <1>1, <3>1, <3>4 DEF ReqOK
  <2>2. CASE ~CredentialFits(dp, at[q].client.ep)
    <3>1. pc'[q] = "answered" /\ at'[q].client = at[q].client
      BY <1>3, <1>a, <2>2 DEF Attach, Goto, Locals
    <3> QED BY <1>2, <3>1
  <2> QED BY <2>1, <2>2
<1>4. CASE Reply(q)
  <2>1. CASE CallRenew(q, [at[q] EXCEPT !.out = "served"], "replay")
    <3> DEFINE x == [at[q] EXCEPT !.out = "served"]
    <3>1. x \in Locals /\ x.client = at[q].client /\ x.wire = at[q].wire
      BY <1>a DEF Locals
    <3>2. "replay" \in Rets
      BY DEF Rets
    <3>3. WireOK(at[q])
      BY <1>4 DEF Reply, ReqOK, Carrying
    <3>4. WireOK(x)
      BY <3>1, <3>3 DEF WireOK
    <3> HIDE DEF x
    <3> QED BY <1>1, <1>a, <2>1, <3>1, <3>2, <3>4, CallRenewReq DEF x
  <2>2. ASSUME NEW out, Goto(q, "answered"),
               at' = [at EXCEPT ![q].out = out, ![q].wire = None]
        PROVE  ReqOK(pc'[q], at'[q])
    <3>1. pc'[q] = "answered" /\ at'[q].client = at[q].client
      BY <1>a, <2>2 DEF Goto, Locals
    <3> QED BY <1>2, <3>1
  <2> QED BY <1>4, <2>1, <2>2 DEF Reply
<1>5. CASE Replay(q)
  <2>1. pc'[q] \in {"reattach", "answered"} /\ at'[q] = at[q]
    BY <1>5, <1>a DEF Replay, Goto
  <2>2. WireOK(at[q])
    BY <1>5 DEF Replay, ReqOK, Carrying
  <2> QED BY <1>1, <2>1, <2>2 DEF ReqOK
<1>6. CASE UnaryDone(q)
  BY <1>6, <1>a, FinishReq DEF UnaryDone
<1> QED BY <1>3, <1>4, <1>5, <1>6 DEF UnaryStep

LEMMA RunReq ==
  ASSUME TypeInv, Coherent(dp), NEW q \in Procs, ReqOK(pc[q], at[q]), RunStep(q)
  PROVE  ReqOK(pc'[q], at'[q])
<1>a. LocalsOK /\ at[q] \in Locals /\ pc \in [Procs -> Labels] /\ at \in [Procs -> Locals]
  BY TypeParts DEF LocalsOK
<1>b. {"rerun", "rehint"} \subseteq Rets
  BY DEF Rets
<1>1. CASE Finish(q)
  BY <1>a, <1>1, FinishReq
<1>2. ASSUME pc'[q] \in {"panic", "runRetry", "pendRead", "pendVerify", "rehint", "resolve"}
      PROVE  ReqOK(pc'[q], at'[q])
  BY <1>2, FreeLabel DEF Holding, Renewing, Answered
<1>3. CASE ~Finish(q) /\ Open(q)
  <2>1. CASE pc'[q] = "panic"
    BY <1>2, <2>1
  <2>2. CASE pc'[q] # "panic"
    <3>1. /\ at[q].client # None /\ CredentialFits(dp, at[q].client.ep)
          /\ pc'[q] = "opened" /\ at'[q] = [at[q] EXCEPT !.wire = dp.cred]
      BY <1>3, <1>a, <2>2 DEF Open, Goto
    <3>2. at'[q].wire = dp.cred /\ at'[q].client = at[q].client
      BY <1>a, <3>1 DEF Locals
    <3> QED BY <3>1, <3>2, WireFits DEF ReqOK, WireOK, Renewing, Answered
  <2> QED BY <2>1, <2>2
<1>4. CASE RunRejected(q)
  <2>1. [at[q] EXCEPT !.tried = TRUE, !.wire = None, !.client = None, !.via = "none"] \in Locals
    BY <1>a DEF Locals
  <2> QED BY <1>4, <1>a, <1>b, <2>1, CallRenewReq DEF RunRejected
<1>5. CASE ~Finish(q) /\ RunFailed(q)
  <2>1. pc'[q] \in {"runRetry", "pendRead"}
    BY <1>5, <1>a DEF RunFailed, Goto
  <2> QED BY <1>2, <2>1
<1>6. CASE ~Finish(q) /\ (PendingRead(q) \/ PendingVerify(q) \/ RunRetry(q))
  BY <1>6, <1>a, <1>2 DEF PendingRead, PendingVerify, RunRetry, Goto
<1>7. CASE RefreshHinted(q)
  <2>1. pc'[q] = "runRetry" \/ CallRenew(q, at[q], "rehint")
    BY <1>7, <1>a DEF RefreshHinted, Goto
  <2> QED BY <1>2, <1>a, <1>b, <2>1, CallRenewReq
<1>8. CASE ~Finish(q) /\ RunStarted(q)
  <2>1. at[q].client # None
    BY <1>8 DEF RunStarted, ReqOK, Holding
  <2>2. pc'[q] = "markSet" /\ at'[q].client = at[q].client
    BY <1>8, <1>a DEF RunStarted, Goto, Locals
  <2> QED BY <2>1, <2>2 DEF ReqOK, Carrying, Renewing, Answered
<1> QED BY <1>1, <1>3, <1>4, <1>5, <1>6, <1>7, <1>8 DEF RunStep

LEMMA RenewReq ==
  ASSUME TypeInv, NEW q \in Procs, ReqOK(pc[q], at[q]), RenewStep(q)
  PROVE  ReqOK(pc'[q], at'[q])
<1>a. LocalsOK /\ at[q] \in Locals /\ pc \in [Procs -> Labels] /\ at \in [Procs -> Locals]
  BY TypeParts DEF LocalsOK
<1>b. pc[q] \in Renewing
  BY DEF RenewStep, RenewFail, RenewOk, Configure, VerifyRead, VerifySet, Warm, Renewing, Answered
<1>1. ASSUME NEW res \in {"ok", "err", "fatal"}, RenewReturn(q, res) PROVE ReqOK(pc'[q], at'[q])
  BY <1>1, <1>a, <1>b, RenewReturnReq DEF RenewReturn, Goto
<1>2. ASSUME pc'[q] \in Renewing, at'[q].client = at[q].client, at'[q].ret = at[q].ret,
             at'[q].wire = at[q].wire
      PROVE  ReqOK(pc'[q], at'[q])
  BY <1>2, <1>b DEF ReqOK, WireOK, Renewing, Answered, Holding, Carrying
<1>3. ASSUME NEW answer \in Answers, RenewOk(q, answer) PROVE ReqOK(pc'[q], at'[q])
  <2>1. pc'[q] \in Renewing
    BY <1>3, <1>a DEF RenewOk, Goto, Renewing, Answered
  <2>2. at'[q].client = at[q].client /\ at'[q].ret = at[q].ret /\ at'[q].wire = at[q].wire
    BY <1>3, <1>a DEF RenewOk, Locals
  <2> QED BY <1>2, <2>1, <2>2
<1>4. CASE Configure(q)
  <2> DEFINE l == CHOOSE x \in FreeLoops : TRUE
             starts == StartsLoop(dp, at[q].answer)
             to == IF pc[q] = "install" THEN AfterRenew[at[q].ret]["ok"]
                   ELSE IF at[q].answer.status = "verified" THEN "verifyRead" ELSE "warm"
             locals == IF pc[q] = "install" THEN Renewed(q, "ok") ELSE at[q]
             fresh == [NoLocals EXCEPT !.op = "renewal"]
  <2>1. /\ pc' = [pc EXCEPT ![q] = to, ![l] = IF starts THEN "top" ELSE @]
        /\ at' = [at EXCEPT ![q] = locals, ![l] = IF starts THEN fresh ELSE @]
    BY <1>4 DEF Configure
  <2>2. starts => l \in FreeLoops
    BY <1>4 DEF Configure
  <2>3. \A x \in FreeLoops : x # q
    BY <1>4 DEF FreeLoops, Exited, Configure
  <2>4. pc'[q] = to /\ at'[q] = locals
    <3> HIDE DEF l, starts, to, locals, fresh
    <3> QED BY <1>a, <2>1, <2>2, <2>3
  <2>5. CASE pc[q] = "install"
    BY <1>a, <1>b, <2>4, <2>5, RenewReturnReq
  <2>6. CASE pc[q] # "install"
    <3>1. to \in Renewing /\ locals = at[q]
      BY <2>6 DEF Renewing, Answered
    <3> QED BY <1>2, <2>4, <3>1
  <2> QED BY <2>5, <2>6
<1>5. CASE VerifyRead(q)
  <2>1. CASE RenewReturn(q, "ok")
    BY <1>1, <2>1
  <2>2. CASE Goto(q, "verifySet") /\ at' = [at EXCEPT ![q].seen = dp.client]
    <3>1. pc'[q] \in Renewing
      BY <1>a, <2>2 DEF Goto, Renewing, Answered
    <3>2. at'[q].client = at[q].client /\ at'[q].ret = at[q].ret /\ at'[q].wire = at[q].wire
      BY <1>a, <2>2 DEF Locals
    <3> QED BY <1>2, <3>1, <3>2
  <2> QED BY <1>5, <2>1, <2>2 DEF VerifyRead
<1>6. CASE Warm(q)
  <2>1. CASE RenewReturn(q, "ok")
    BY <1>1, <2>1
  <2>2. ASSUME NEW w \in Warmers, dp.client # None,
               pc' = [pc EXCEPT ![q] = AfterRenew[at[q].ret]["ok"], ![w] = "attach"],
               at' = [at EXCEPT ![q] = Renewed(q, "ok"),
                                ![w] = [NoLocals EXCEPT !.op = "warm", !.via = "op",
                                                        !.client = dp.client]]
        PROVE  ReqOK(pc'[q], at'[q])
    <3>1. CASE q = w
      <4>1. pc'[q] = "attach"
        BY <1>a, <2>2, <3>1
      <4>2. at'[q] = [NoLocals EXCEPT !.op = "warm", !.via = "op", !.client = dp.client]
        BY <1>a, <2>2, <3>1
      <4>3. at'[q].client = dp.client
        BY <4>2 DEF NoLocals
      <4> QED BY <2>2, <4>1, <4>3 DEF ReqOK, Carrying, Renewing, Answered
    <3>2. CASE q # w
      BY <1>a, <1>b, <2>2, <3>2, RenewReturnReq
    <3> QED BY <3>1, <3>2
  <2> QED BY <1>6, <2>1, <2>2 DEF Warm
<1> QED BY <1>1, <1>3, <1>4, <1>5, <1>6 DEF RenewStep, RenewFail, VerifySet

LEMMA OwnReq ==
  ASSUME TypeInv, Coherent(dp), NEW q \in Procs, ReqOK(pc[q], at[q]), Own(q)
  PROVE  ReqOK(pc'[q], at'[q])
<1>a. LocalsOK /\ at[q] \in Locals /\ pc \in [Procs -> Labels] /\ at \in [Procs -> Locals]
  BY TypeParts DEF LocalsOK
<1>1. ASSUME NEW op \in OpKinds, Start(q, op) PROVE ReqOK(pc'[q], at'[q])
  <2>1. EntryLabel[op] \notin Holding \cup Renewing
    BY <1>1 DEF Start, EntryLabel, OpKinds, Holding, Renewing, Answered
  <2> QED BY <1>1, <1>a, <2>1, FreeLabel DEF Start, Goto
<1>2. ASSUME NEW answer \in Answers, Event(q, answer) PROVE ReqOK(pc'[q], at'[q])
  <2>1. pc'[q] = "configure" /\ at'[q].ret = "event"
    BY <1>2, <1>a DEF Event, Goto, Locals
  <2> QED BY <2>1 DEF ReqOK, Holding, Carrying
<1>3. CASE LoopStep(q)
  <2>1. Finish(q) \/ CallRenew(q, at[q], "loop") \/ pc'[q] \in {"wait", "top"}
    BY <1>3, <1>a DEF LoopStep, LoopTop, LoopStop, LoopTimer, Goto
  <2>2. "loop" \in Rets
    BY DEF Rets
  <2>3. pc'[q] \in {"wait", "top"} => ReqOK(pc'[q], at'[q])
    BY FreeLabel DEF Holding, Renewing, Answered
  <2> QED BY <1>a, <2>1, <2>2, <2>3, FinishReq, CallRenewReq
<1>4. CASE CloseStep(q)
  <2>1. \/ Finish(q)
        \/ pc'[q] \in {"resetHint", "closeDP", "closeWait", "terminate", "resetClear",
                       "resetVerified", "resetWait", "closeEnd"}
    BY <1>4, <1>a
       DEF CloseStep, PauseRPC, CloseLock, CloseDataPlane, WaitRenewalStopped, Terminate,
           ResetHint, ResetClear, ResetVerified, ResetWait, CloseEnd, Goto
  <2>2. pc'[q] \in {"resetHint", "closeDP", "closeWait", "terminate", "resetClear",
                   "resetVerified", "resetWait", "closeEnd"} => ReqOK(pc'[q], at'[q])
    BY FreeLabel DEF Holding, Renewing, Answered
  <2> QED BY <1>a, <2>1, <2>2, FinishReq
<1>5. CASE FlightCancelled(q)
  BY <1>5, <1>a, FinishReq DEF FlightCancelled
<1>6. CASE Step(q)
  BY <1>3, <1>4, <1>6, ResolveReq, ProbeReq, UnaryReq, RunReq, RenewReq DEF Step
<1> QED BY <1>1, <1>2, <1>5, <1>6 DEF Own

LEMMA RequestsStep ==
  ASSUME TypeInv, Coherent(dp), RequestsOK, [Next]_vars
  PROVE  RequestsOK'
<1> SUFFICES ASSUME NEW q \in Procs PROVE ReqOK(pc'[q], at'[q])
  BY DEF RequestsOK
<1>1. ReqOK(pc[q], at[q])
  BY DEF RequestsOK
<1>2. CASE Own(q)
  BY <1>1, <1>2, OwnReq
<1>3. CASE Other(q)
  <2>1. CASE pc'[q] = pc[q] /\ at'[q] = at[q]
    BY <1>1, <2>1
  <2>2. CASE pc'[q] \in {"flight", "top"}
    BY <2>2, FreeLabel DEF Holding, Renewing, Answered
  <2>3. CASE pc'[q] = "attach" /\ dp.client # None
             /\ at'[q] = [NoLocals EXCEPT !.op = "warm", !.via = "op", !.client = dp.client]
    <3>1. at'[q].client = dp.client
      BY <2>3 DEF NoLocals
    <3> QED BY <2>3, <3>1 DEF ReqOK, Carrying, Renewing, Answered
  <2> QED BY <1>3, <2>1, <2>2, <2>3 DEF Other
<1> QED BY <1>2, <1>3, Frame

LEMMA RequestsCorrect == Spec => []RequestsOK
<1>1. Init => RequestsOK
  <2>1. ReqOK("idle", NoLocals)
    BY FreeLabel DEF Holding, Renewing, Answered
  <2> QED BY <2>1 DEF Init, RequestsOK
<1>2. HandleCoherent /\ TypeInv /\ RequestsOK /\ [Next]_vars => RequestsOK'
  BY RequestsStep DEF HandleCoherent, Coherent
<1> QED BY <1>1, <1>2, HandleCorrect, TypeInit, TypeStep, PTL DEF Spec

\* No request carries a credential to a node its mint did not name.
THEOREM RoutingCorrect == Spec => []CredentialRouting
<1>1. RequestsOK => CredentialRouting
  BY DEF RequestsOK, ReqOK, WireOK, CredentialRouting, Carrying
<1> QED BY <1>1, RequestsCorrect, PTL

\* The verified path never sends a request on a nil client.
THEOREM ClientCorrect == Spec => []RequestHasClient
<1>1. RequestsOK => RequestHasClient
  BY DEF RequestsOK, ReqOK, RequestHasClient, Holding
<1> QED BY <1>1, RequestsCorrect, PTL
=============================================================================
