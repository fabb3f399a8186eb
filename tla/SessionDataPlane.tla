--------------------------- MODULE SessionDataPlane ---------------------------
(***************************************************************************)
(* The data plane of one sandbox session handle (sandbox/session.go,       *)
(* sandbox/data_plane.go, the opening of a run in sandbox/run.go).         *)
(*                                                                         *)
(* A handle keeps the node endpoint that serves the session, a client for  *)
(* it on a pooled transport, the credential the engine minted, a goroutine *)
(* that renews the credential, a remembered endpoint hint and the client   *)
(* whose edge route is known to serve.  Callers use and tear down this     *)
(* state concurrently.  One step is one critical section of one mutex, or  *)
(* the end of one remote call: everything between two of them is local.    *)
(***************************************************************************)
EXTENDS Integers, FiniteSets

CONSTANTS
  Callers,       \* goroutines of the program that uses the handle
  Loops,         \* slots for credentialRenewalLoop goroutines (bound: how many exist at once)
  Warmers,       \* the goroutine of startDataPlaneWarm: one value, or none to leave it out
  Endpoints,     \* data-plane endpoints, one per node that may serve the session
  BadEndpoints,  \* the endpoints dataPlaneOrigin cannot parse
  ClientIds,     \* identities (addresses) of data-plane clients (bound)
  Role,          \* Role[p]: the operations caller p may perform
  Answers,       \* the data-plane answers the engine may give
  None,          \* absent: nil, "", the zero time
  Unnamed        \* mint of a credential whose answer named no endpoint

Procs == Callers \cup Loops \cup Warmers

\* unary: ReadFile, WriteFile and the file operations; dial: Dial and
\* ExposeHostPort; run: Command.Stream; pause: Pause, PauseAsync and Resume;
\* event: an engine answer applied by Create or WaitReady.
OpKinds == {"unary", "dial", "run", "pause", "release", "close", "event"}

\* dataPlane (verifyServing) as opposed to runDataPlane
Verifies(op) == op \in {"unary", "dial"}

Clients == [id : ClientIds, ep : Endpoints]

\* CreateSessionCredentialResponse, CreateSessionResponse and WaitSession events
\* carry the same three fields; cred is None when the message has no credential
\* and "blank" when its text trims to nothing.
AnswerType == [ep     : Endpoints \cup {None},
               status : {"unspecified", "not_ready", "verified", "failed"},
               cred   : {"plain", "expiring", "blank", None}]

ASSUME ConstantsAssumption ==
  /\ BadEndpoints \subseteq Endpoints
  /\ Role \in [Callers -> SUBSET OpKinds]
  /\ Answers \subseteq AnswerType
  /\ Callers \cap Loops = {} /\ Callers \cap Warmers = {} /\ Loops \cap Warmers = {}
  /\ None \notin Endpoints /\ None # Unnamed /\ Unnamed \notin Endpoints
  /\ None \notin Procs /\ None \notin Clients
  /\ None \notin {"plain", "expiring", "blank"}
  /\ None \notin AnswerType

VARIABLES
  dp,         \* the fields guarded by dataPlaneMu
  hint,       \* localDataPlaneHints.endpoint
  resolving,  \* localDataPlaneHints.resolving: the caller running resolve()
  verified,   \* dataPlaneVerifiedClient
  probeMu,    \* holder of dataPlaneProbeMu
  closeMu,    \* holder of closeMu
  released, closeDone,
  warmed,     \* dataPlaneWarmOnce has fired
  pc,         \* where each goroutine is
  at          \* its local variables

vars == <<dp, hint, resolving, verified, probeMu, closeMu, released,
          closeDone, warmed, pc, at>>
flags == <<released, closeDone, warmed>>
mutexes == <<resolving, probeMu, closeMu>>

-----------------------------------------------------------------------------
(* The state guarded by dataPlaneMu and its locked sections.               *)

DataPlaneState ==
  [closed       : BOOLEAN,                          \* dataPlaneClosed
   endpoint     : Endpoints \cup {None},
   client       : Clients \cup {None},
   held         : Endpoints \cup {None},            \* dataPlaneRelease: the pooled transport
   fromHint     : BOOLEAN,
   cred         : Endpoints \cup {None, Unnamed},   \* the endpoint its mint named
   credEndpoint : Endpoints \cup {None},
   expires      : BOOLEAN,                          \* dataPlaneExpiresAt is set
   cancel       : Loops \cup {None},                \* the loop renewalCancel stops
   live         : SUBSET Loops,                     \* loops whose context is not cancelled
   dones        : SUBSET Loops]                     \* renewalDones

FreshDataPlane ==
  [closed |-> FALSE, endpoint |-> None, client |-> None, held |-> None,
   fromHint |-> FALSE, cred |-> None, credEndpoint |-> None, expires |-> FALSE,
   cancel |-> None, live |-> {}, dones |-> {}]

\* Variant: renewalCancel is dropped without being called.
CancelRenewalForgotten(d) == [d EXCEPT !.cancel = None]

\* cancelRenewalLocked
CancelRenewal(d) == [d EXCEPT !.live = @ \ {d.cancel}, !.cancel = None]

\* drainRenewalLocked; the caller keeps d.dones to wait on, of which the signals
\* of exited loops are already closed
DrainRenewal(d) == [CancelRenewal(d) EXCEPT !.dones = {}]

\* Variant: an answer that names no endpoint also replaces the client.
MovesAlways(d, e) == d.endpoint # e \/ d.client = None

\* configureDataPlane replaces the client
Moves(d, e) == e # None /\ (d.endpoint # e \/ d.client = None)

\* Variant: a closed handle is configured like an open one.
RefusedUnlessClosed(d, e) == Moves(d, e) /\ e \in BadEndpoints

\* configureDataPlane returns early: handle closed, or no transport for e
Refused(d, e) == d.closed \/ (Moves(d, e) /\ e \in BadEndpoints)

\* configureDataPlane, up to the credential: c is the new client if one is made
Connect(d, e, fromHint, c) ==
  LET moved == [CancelRenewal(d) EXCEPT
                  !.held = e, !.endpoint = e, !.client = c,
                  !.credEndpoint = IF d.cred # None /\ @ = None THEN e ELSE @]
      d1 == IF Moves(d, e) THEN moved ELSE d
  IN  IF e # None /\ d1.endpoint = e THEN [d1 EXCEPT !.fromHint = fromHint] ELSE d1

\* setDataPlaneCredentialLocked, before it restarts renewal
SetCredential(d, answer) ==
  [d EXCEPT !.cred = IF answer.cred = "blank" THEN None
                     ELSE IF answer.ep = None THEN Unnamed ELSE answer.ep,
            !.credEndpoint = d.endpoint,
            !.expires = (answer.cred = "expiring")]

\* Variant: the previous loop is not cancelled.
RestartRenewalLeaking(d, exited, l) ==
  IF d.closed \/ d.cred = None \/ ~d.expires THEN d
  ELSE [d EXCEPT !.cancel = l, !.live = @ \cup {l}, !.dones = (@ \ exited) \cup {l}]

\* Variant: the exit signals of loops still stopping are forgotten.
RestartRenewalForgetful(d, exited, l) ==
  IF d.closed \/ d.cred = None \/ ~d.expires THEN [CancelRenewal(d) EXCEPT !.dones = {}]
  ELSE [CancelRenewal(d) EXCEPT !.cancel = l, !.live = @ \cup {l}, !.dones = {l}]

\* restartCredentialRenewalLocked; exited are the loops whose done is closed
RestartRenewal(d, exited, l) ==
  LET pruned == [CancelRenewal(d) EXCEPT !.dones = @ \ exited]
  IN  IF d.closed \/ d.cred = None \/ ~d.expires THEN pruned
      ELSE [pruned EXCEPT !.cancel = l, !.live = @ \cup {l}, !.dones = @ \cup {l}]

\* configureDataPlane as one locked section
Configured(d, answer, fromHint, c, exited, l) ==
  LET d1 == Connect(d, answer.ep, fromHint, c)
  IN  IF Refused(d, answer.ep) THEN d
      ELSE IF answer.cred = None THEN d1
      ELSE RestartRenewal(SetCredential(d1, answer), exited, l)

\* configureDataPlane starts a renewal loop
StartsLoop(d, answer) == ~Refused(d, answer.ep) /\ answer.cred = "expiring"

\* Variant: the reset keeps the endpoint.
ResetStateKeeping(d) ==
  [DrainRenewal(d) EXCEPT !.cred = None, !.credEndpoint = None, !.expires = FALSE,
                          !.client = None, !.fromHint = FALSE, !.held = None]

\* resetDataPlane's locked section
ResetState(d) ==
  [DrainRenewal(d) EXCEPT !.endpoint = None, !.cred = None, !.credEndpoint = None,
                          !.expires = FALSE, !.client = None, !.fromHint = FALSE,
                          !.held = None]

\* Variant: a credential is attached to any request.
CredentialFitsAll(d, e) == d.cred = None \/ e \in Endpoints

\* dataPlaneCredentialForEndpoint lets a request for e go out
CredentialFits(d, e) == d.cred = None \/ d.credEndpoint = e

-----------------------------------------------------------------------------
(* Goroutine-local state.                                                  *)

Locals ==
  [op       : OpKinds \cup {"none", "renewal", "warm"},
   client   : Clients \cup {None},           \* the client the operation holds
   resolved : Endpoints \cup {None},         \* hint or resolve() result in hand
   stale    : BOOLEAN,                       \* credential absent or expired when read
   tried    : BOOLEAN,                       \* reauthAttempted
   via      : {"none", "probe", "op"},       \* who sent the unary request
   wire     : Endpoints \cup {None, Unnamed},\* credential the request carries
   out      : {"none", "served", "local", "edge404", "ok", "error"},
   ret      : {"none", "loop", "flight", "refresh", "replay", "rerun", "rehint", "event"},
   answer   : AnswerType \cup {None},        \* engine answer being applied
   seen     : Clients \cup {None},           \* client markCurrentDataPlaneVerified read
   wait     : SUBSET Loops]                  \* loops waitRenewalStopped waits for

NoLocals ==
  [op |-> "none", client |-> None, resolved |-> None, stale |-> FALSE,
   tried |-> FALSE, via |-> "none", wire |-> None, out |-> "none",
   ret |-> "none", answer |-> None, seen |-> None, wait |-> {}]

Labels ==
  {"idle",
   "resolve", "hint", "hintConfigure", "hintRead", "flight", "flightWait",
   "flightOk", "flightErr", "postRead", "postConfigure", "postFinal", "recheck",
   "probeLock", "attach", "inflight", "replay", "reattach", "reinflight",
   "answered", "markSet", "current",
   "open", "opened", "pendRead", "pendVerify", "rehint", "runRetry", "panic",
   "rpc", "configure", "install", "verifyRead", "verifySet", "warm",
   "top", "wait", "backoff",
   "pauseRPC", "closeLock", "closeDP", "closeWait", "terminate",
   "resetHint", "resetClear", "resetVerified", "resetWait", "closeEnd"}

\* Where renewDataPlaneCredential returns to, by call site and result.
AfterRenew ==
  [loop    |-> [ok |-> "top",      err |-> "backoff",   fatal |-> "idle"],
   flight  |-> [ok |-> "flightOk", err |-> "flightErr", fatal |-> "flightErr"],
   refresh |-> [ok |-> "recheck",  err |-> "idle",      fatal |-> "idle"],
   replay  |-> [ok |-> "replay",   err |-> "answered",  fatal |-> "answered"],
   rerun   |-> [ok |-> "resolve",  err |-> "idle",      fatal |-> "idle"],
   rehint  |-> [ok |-> "runRetry", err |-> "idle",      fatal |-> "idle"],
   event   |-> [ok |-> "idle",     err |-> "idle",      fatal |-> "idle"]]

Goto(p, label) == pc' = [pc EXCEPT ![p] = label]

\* The operation returns to its caller (or the goroutine ends).
Finish(p) ==
  /\ Goto(p, "idle")
  /\ at' = [at EXCEPT ![p] = NoLocals]

\* p's locals when renewDataPlaneCredential returns res
Renewed(p, res) ==
  IF AfterRenew[at[p].ret][res] = "idle" THEN NoLocals
  ELSE [at[p] EXCEPT !.ret = "none", !.answer = None, !.seen = None]

RenewReturn(p, res) ==
  /\ Goto(p, AfterRenew[at[p].ret][res])
  /\ at' = [at EXCEPT ![p] = Renewed(p, res)]

\* Enter renewDataPlaneCredential, to come back to ret.
CallRenew(p, locals, ret) ==
  /\ Goto(p, "rpc")
  /\ at' = [at EXCEPT ![p] = [locals EXCEPT !.ret = ret]]

Exited == {l \in Loops : pc[l] = "idle"}
\* A slot is reused once its goroutine is gone and nobody waits on its channel.
FreeLoops == {l \in Exited : \A p \in Procs : l \notin at[p].wait}
UsedClients == {dp.client, verified} \cup {at[p].client : p \in Procs}
                                     \cup {at[p].seen : p \in Procs}
\* An address is reused once nothing refers to a client that had it.
FreeIds(e) == {i \in ClientIds : [id |-> i, ep |-> e] \notin UsedClients}
NewClient(e) == [id |-> CHOOSE i \in FreeIds(e) : TRUE, ep |-> e]

-----------------------------------------------------------------------------
(* Starting an operation.                                                  *)

EntryLabel == [unary |-> "resolve", dial |-> "resolve", run |-> "resolve", pause |-> "pauseRPC",
               release |-> "closeLock", close |-> "closeLock"]

Start(p, op) ==
  /\ pc[p] = "idle" /\ op \in Role[p] /\ op # "event"
  /\ Goto(p, EntryLabel[op])
  /\ at' = [at EXCEPT ![p].op = op]
  /\ UNCHANGED <<dp, hint, verified, mutexes, flags>>

\* A loop slot for every answer already received but not yet applied.
RoomForLoop ==
  Cardinality(FreeLoops) > Cardinality({q \in Procs : pc[q] \in {"configure", "install"}})

\* applyDataPlaneResponse for a Create response or a WaitSession event: a failed
\* route is ignored; a named endpoint becomes the hint before the lock is taken.
Event(p, answer) ==
  /\ pc[p] = "idle" /\ "event" \in Role[p]
  /\ answer.status # "failed"
  /\ RoomForLoop
  /\ Goto(p, "configure")
  /\ at' = [at EXCEPT ![p].op = "event", ![p].ret = "event", ![p].answer = answer]
  /\ hint' = IF answer.ep # None THEN answer.ep ELSE hint
  /\ UNCHANGED <<dp, verified, mutexes, flags>>

-----------------------------------------------------------------------------
(* resolveDataPlane.                                                       *)

Resolve(p) ==
  /\ pc[p] = "resolve"
  /\ \/ dp.closed /\ Finish(p)
     \/ /\ ~dp.closed
        /\ \E stale \in {dp.cred = None, dp.cred = None \/ dp.expires} :
             LET locals == [at[p] EXCEPT !.stale = stale] IN
             \/ /\ dp.client = None
                /\ Goto(p, IF dp.cred # None THEN "hint" ELSE "flight")
                /\ at' = [at EXCEPT ![p] = locals]
             \/ dp.client # None /\ stale /\ CallRenew(p, locals, "refresh")
             \/ /\ dp.client # None /\ ~stale
                /\ Goto(p, "recheck")
                /\ at' = [at EXCEPT ![p] = locals]
  /\ UNCHANGED <<dp, hint, verified, mutexes, flags>>

ReadHint(p) ==
  /\ pc[p] = "hint"
  /\ Goto(p, IF hint # None THEN "hintConfigure" ELSE "flight")
  /\ at' = [at EXCEPT ![p].resolved = hint]
  /\ UNCHANGED <<dp, hint, verified, mutexes, flags>>

\* configureDataPlane(resolved, nil, true)
ConfigureFromHint(p) ==
  LET answer == [ep |-> at[p].resolved, status |-> "unspecified", cred |-> None] IN
  /\ pc[p] \in {"hintConfigure", "postConfigure"}
  /\ FreeIds(at[p].resolved) # {}
  /\ dp' = Configured(dp, answer, TRUE, NewClient(at[p].resolved), Exited, None)
  /\ Goto(p, IF pc[p] = "hintConfigure" THEN "hintRead" ELSE "postFinal")
  /\ UNCHANGED <<hint, verified, mutexes, flags, at>>

ReadHinted(p) ==
  /\ pc[p] = "hintRead"
  /\ \/ dp.client # None /\ at[p].stale /\ CallRenew(p, at[p], "refresh")
     \/ /\ ~(dp.client # None /\ at[p].stale)
        /\ Goto(p, IF dp.client = None THEN "flight" ELSE "recheck")
        /\ at' = at
  /\ UNCHANGED <<dp, hint, verified, mutexes, flags>>

\* dataPlaneEndpointHints.resolve: take the hint, become the resolver, or wait
Flight(p) ==
  /\ pc[p] = "flight"
  /\ \/ /\ hint # None
        /\ Goto(p, "postRead")
        /\ at' = [at EXCEPT ![p].resolved = hint]
        /\ UNCHANGED resolving
     \/ /\ hint = None /\ resolving = None
        /\ resolving' = p
        /\ CallRenew(p, at[p], "flight")
     \/ /\ hint = None /\ resolving # None
        /\ Goto(p, "flightWait")
        /\ UNCHANGED <<resolving, at>>
  /\ UNCHANGED <<dp, hint, verified, probeMu, closeMu, flags>>

\* a waiter's context ends before the resolver is done
FlightCancelled(p) ==
  /\ pc[p] = "flightWait"
  /\ Finish(p)
  /\ UNCHANGED <<dp, hint, verified, mutexes, flags>>

\* Variant: the resolver does not close its wait channel.
FlightEndSilent(p) ==
  LET found == pc[p] = "flightOk" /\ hint # None IN
  /\ pc[p] \in {"flightOk", "flightErr"}
  /\ resolving' = None
  /\ pc' = [pc EXCEPT ![p] = IF found THEN "postRead" ELSE "idle"]
  /\ at' = [at EXCEPT ![p] = IF found THEN [@ EXCEPT !.resolved = hint] ELSE NoLocals]
  /\ UNCHANGED <<dp, hint, verified, probeMu, closeMu, flags>>

\* resolve() returned: close(wait) wakes every waiter
FlightEnd(p) ==
  LET found == pc[p] = "flightOk" /\ hint # None IN
  /\ pc[p] \in {"flightOk", "flightErr"}
  /\ resolving' = None
  /\ pc' = [q \in Procs |-> IF q = p THEN IF found THEN "postRead" ELSE "idle"
                            ELSE IF pc[q] = "flightWait" THEN "flight" ELSE pc[q]]
  /\ at' = [at EXCEPT ![p] = IF found THEN [@ EXCEPT !.resolved = hint] ELSE NoLocals]
  /\ UNCHANGED <<dp, hint, verified, probeMu, closeMu, flags>>

ReadResolved(p) ==
  /\ pc[p] = "postRead"
  /\ Goto(p, IF dp.client = None THEN "postConfigure" ELSE "postFinal")
  /\ UNCHANGED <<dp, hint, verified, mutexes, flags, at>>

\* The client the resolution ends with; a verified call without one fails, while
\* the run path of Recheck returns whatever it read.
TakeClient(p, failWithout) ==
  IF failWithout /\ dp.client = None THEN Finish(p)
  ELSE /\ Goto(p, IF Verifies(at[p].op) THEN "probeLock" ELSE "open")
       /\ at' = [at EXCEPT ![p].client = dp.client, ![p].resolved = None, ![p].stale = FALSE]

ReadConfigured(p) ==
  /\ pc[p] = "postFinal"
  /\ TakeClient(p, TRUE)
  /\ UNCHANGED <<dp, hint, verified, mutexes, flags>>

\* Variant: a verified operation also goes on without a client.
RecheckLoose(p) ==
  /\ pc[p] = "recheck"
  /\ TakeClient(p, FALSE)
  /\ UNCHANGED <<dp, hint, verified, mutexes, flags>>

Recheck(p) ==
  /\ pc[p] = "recheck"
  /\ TakeClient(p, Verifies(at[p].op))
  /\ UNCHANGED <<dp, hint, verified, mutexes, flags>>

-----------------------------------------------------------------------------
(* ensureDataPlaneServing and currentDataPlaneClient.                      *)

ProbeLock(p) ==
  /\ pc[p] = "probeLock" /\ probeMu = None
  /\ \/ /\ verified = at[p].client
        /\ Goto(p, "current")
        /\ UNCHANGED <<probeMu, at>>
     \/ /\ verified # at[p].client
        /\ probeMu' = p
        /\ Goto(p, "attach")
        /\ at' = [at EXCEPT ![p].via = "probe"]
  /\ UNCHANGED <<dp, hint, verified, resolving, closeMu, flags>>

\* an edge 404: back off and probe again, or give up with the budget
ProbeRetry(p) ==
  /\ pc[p] = "answered" /\ at[p].via = "probe" /\ at[p].out = "edge404"
  /\ Goto(p, "attach")
  /\ at' = [at EXCEPT ![p].out = "none"]
  /\ UNCHANGED <<dp, hint, verified, mutexes, flags>>

ProbeTimeout(p) ==
  /\ pc[p] = "answered" /\ at[p].via = "probe" /\ at[p].out = "edge404"
  /\ probeMu' = None
  /\ Finish(p)
  /\ UNCHANGED <<dp, hint, verified, resolving, closeMu, flags>>

\* markDataPlaneVerified, first lock; leaving releases the probe mutex
MarkRead(p) ==
  /\ pc[p] = "answered" /\ at[p].via = "probe" /\ at[p].out # "edge404"
  /\ \/ dp.client = at[p].client /\ Goto(p, "markSet") /\ UNCHANGED probeMu
     \/ dp.client # at[p].client /\ Goto(p, "current") /\ probeMu' = None
  /\ UNCHANGED <<dp, hint, verified, resolving, closeMu, flags, at>>

\* markDataPlaneVerified, second lock; then the probe returns or the run starts
MarkSet(p) ==
  /\ pc[p] = "markSet"
  /\ verified' = at[p].client
  /\ \/ at[p].via = "probe" /\ probeMu' = None /\ Goto(p, "current") /\ UNCHANGED at
     \/ at[p].via # "probe" /\ UNCHANGED probeMu /\ Finish(p)
  /\ UNCHANGED <<dp, hint, resolving, closeMu, flags>>

Current(p) ==
  /\ pc[p] = "current"
  /\ Goto(p, IF at[p].op = "dial" THEN "open" ELSE "attach")
  /\ at' = [at EXCEPT ![p].via = "op", ![p].out = "none",
                      ![p].client = IF dp.client # None THEN dp.client ELSE @]
  /\ UNCHANGED <<dp, hint, verified, mutexes, flags>>

-----------------------------------------------------------------------------
(* dataPlaneCredentialInterceptor.WrapUnary around one unary request.      *)

\* setHeaders: refuse a credential minted for another endpoint; a replay for which
\* there is none any more keeps the header it has.  (Requests name the handle's own
\* session, so misroutedSessionError passes them.)
Attach(p) ==
  /\ pc[p] \in {"attach", "reattach"}
  /\ IF CredentialFits(dp, at[p].client.ep)
     THEN /\ Goto(p, IF pc[p] = "attach" THEN "inflight" ELSE "reinflight")
          /\ at' = [at EXCEPT ![p].wire = IF pc[p] = "reattach" /\ dp.cred = None THEN @ ELSE dp.cred]
     ELSE /\ Goto(p, "answered")
          /\ at' = [at EXCEPT ![p].out = "local", ![p].wire = None]
  /\ UNCHANGED <<dp, hint, verified, mutexes, flags>>

\* The request ends: an answer of the node, an edge 404, or a local failure
\* (cancelled, timed out, not connected).  A first Unauthenticated re-mints.
Reply(p) ==
  /\ pc[p] \in {"inflight", "reinflight"}
  /\ \/ \E out \in {"served", "local", "edge404"} :
          /\ Goto(p, "answered")
          /\ at' = [at EXCEPT ![p].out = out, ![p].wire = None]
     \/ /\ pc[p] = "inflight"
        /\ CallRenew(p, [at[p] EXCEPT !.out = "served"], "replay")
  /\ UNCHANGED <<dp, hint, verified, mutexes, flags>>

\* replay only while the handle still targets this endpoint
Replay(p) ==
  /\ pc[p] = "replay"
  /\ Goto(p, IF dp.endpoint = at[p].client.ep THEN "reattach" ELSE "answered")
  /\ UNCHANGED <<dp, hint, verified, mutexes, flags, at>>

UnaryDone(p) ==
  /\ pc[p] = "answered" /\ at[p].via = "op"
  /\ Finish(p)
  /\ UNCHANGED <<dp, hint, verified, mutexes, flags>>

-----------------------------------------------------------------------------
(* Command.openRunStream, and the shorter retry loop of Dial and           *)
(* openHostPortStream: one reauth, no other retry, no verified mark.       *)

\* WrapStreamingClient checks the credential at open; dp.Run on a nil client
\* panics.
Open(p) ==
  /\ pc[p] = "open"
  /\ \/ at[p].client = None /\ Goto(p, "panic") /\ UNCHANGED at
     \/ /\ at[p].client # None /\ CredentialFits(dp, at[p].client.ep)
        /\ Goto(p, "opened")
        /\ at' = [at EXCEPT ![p].wire = dp.cred]
     \/ at[p].client # None /\ ~CredentialFits(dp, at[p].client.ep) /\ Finish(p)
  /\ UNCHANGED <<dp, hint, verified, mutexes, flags>>

RunRejected(p) ==
  /\ pc[p] = "opened" /\ ~at[p].tried
  /\ CallRenew(p, [at[p] EXCEPT !.tried = TRUE, !.wire = None, !.client = None,
                             !.via = "none"], "rerun")
  /\ UNCHANGED <<dp, hint, verified, mutexes, flags>>

\* edge 404, refused stream, GOAWAY, reset connection: retryable by itself;
\* "session not found" and Unavailable only while provisioning is pending;
\* anything else is returned
RunFailed(p) ==
  /\ pc[p] = "opened"
  /\ \/ \E next \in {<<"runRetry", "none">>, <<"pendRead", "none">>, <<"pendRead", "error">>} :
          /\ at[p].op = "run"
          /\ Goto(p, next[1])
          /\ at' = [at EXCEPT ![p].wire = None, ![p].out = next[2]]
     \/ Finish(p)
  /\ UNCHANGED <<dp, hint, verified, mutexes, flags>>

\* dataPlaneProvisioningPending, its two locks
PendingRead(p) ==
  /\ pc[p] = "pendRead"
  /\ \/ dp.client = at[p].client /\ Goto(p, "pendVerify") /\ UNCHANGED at
     \/ dp.client # at[p].client /\ Finish(p)
  /\ UNCHANGED <<dp, hint, verified, mutexes, flags>>

\* out = "error" stands for "session not found", which refreshes a hinted client
PendingVerify(p) ==
  /\ pc[p] = "pendVerify"
  /\ \/ /\ verified # at[p].client
        /\ Goto(p, IF at[p].out = "error" THEN "rehint" ELSE "runRetry")
        /\ UNCHANGED at
     \/ verified = at[p].client /\ Finish(p)
  /\ UNCHANGED <<dp, hint, verified, mutexes, flags>>

RefreshHinted(p) ==
  /\ pc[p] = "rehint"
  /\ \/ dp.client = at[p].client /\ dp.fromHint /\ CallRenew(p, at[p], "rehint")
     \/ ~(dp.client = at[p].client /\ dp.fromHint) /\ Goto(p, "runRetry") /\ UNCHANGED at
  /\ UNCHANGED <<dp, hint, verified, mutexes, flags>>

\* waitRunStreamEstablishmentRetry: try again, or the budget is spent
RunRetry(p) ==
  /\ pc[p] = "runRetry"
  /\ \/ /\ Goto(p, "resolve")
        /\ at' = [at EXCEPT ![p].client = None, ![p].out = "none"]
     \/ Finish(p)
  /\ UNCHANGED <<dp, hint, verified, mutexes, flags>>

\* the stream is established; a run then enters markDataPlaneVerified
RunStarted(p) ==
  /\ pc[p] = "opened"
  /\ \/ /\ at[p].op = "run" /\ dp.client = at[p].client /\ Goto(p, "markSet")
        /\ at' = [at EXCEPT ![p].wire = None, ![p].out = "served"]
     \/ ~(at[p].op = "run" /\ dp.client = at[p].client) /\ Finish(p)
  /\ UNCHANGED <<dp, hint, verified, mutexes, flags>>

-----------------------------------------------------------------------------
(* renewDataPlaneCredential and applyDataPlaneResponse.                    *)

\* A retryable answer is asked again and changes nothing: a stuttering step.
\* The call gives up with the readiness budget, its context or a fatal error.
RenewFail(p, res) ==
  /\ pc[p] = "rpc"
  /\ RenewReturn(p, res)
  /\ UNCHANGED <<dp, hint, verified, mutexes, flags>>

\* An answer without an endpoint installs its credential; one that names an
\* endpoint is remembered as the hint, then applied.
RenewOk(p, answer) ==
  /\ pc[p] = "rpc"
  /\ answer.cred # None /\ answer.status # "failed"
  /\ answer.ep = None => answer.status # "not_ready"
  /\ RoomForLoop
  /\ Goto(p, IF answer.ep = None THEN "install" ELSE "configure")
  /\ at' = [at EXCEPT ![p].answer = answer]
  /\ hint' = IF answer.ep # None THEN answer.ep ELSE hint
  /\ UNCHANGED <<dp, verified, mutexes, flags>>

\* The locked section of configureDataPlane, or of line 958, and the loop it starts.
Configure(p) ==
  LET answer == at[p].answer
      l == CHOOSE x \in FreeLoops : TRUE
      to == IF pc[p] = "install" THEN AfterRenew[at[p].ret]["ok"]
            ELSE IF answer.status = "verified" THEN "verifyRead" ELSE "warm"
      starts == StartsLoop(dp, answer)
      locals == IF pc[p] = "install" THEN Renewed(p, "ok") ELSE at[p]
  IN
  /\ pc[p] \in {"configure", "install"}
  /\ FreeIds(answer.ep) # {}
  /\ starts => FreeLoops # {}
  /\ dp' = Configured(dp, answer, FALSE, NewClient(answer.ep), Exited, l)
  /\ pc' = [pc EXCEPT ![p] = to, ![l] = IF starts THEN "top" ELSE @]
  /\ at' = [at EXCEPT ![p] = locals,
                      ![l] = IF starts THEN [NoLocals EXCEPT !.op = "renewal"] ELSE @]
  /\ UNCHANGED <<hint, verified, mutexes, flags>>

\* markCurrentDataPlaneVerified: read the client, then record it
VerifyRead(p) ==
  /\ pc[p] = "verifyRead"
  /\ \/ dp.client = None /\ RenewReturn(p, "ok")
     \/ /\ dp.client # None
        /\ Goto(p, "verifySet")
        /\ at' = [at EXCEPT ![p].seen = dp.client]
  /\ UNCHANGED <<dp, hint, verified, mutexes, flags>>

\* Variant: recording the client takes the probe's own mutex.
VerifySetUnderProbe(p) ==
  /\ pc[p] = "verifySet" /\ probeMu = None
  /\ verified' = at[p].seen
  /\ RenewReturn(p, "ok")
  /\ UNCHANGED <<dp, hint, mutexes, flags>>

VerifySet(p) ==
  /\ pc[p] = "verifySet"
  /\ verified' = at[p].seen
  /\ RenewReturn(p, "ok")
  /\ UNCHANGED <<dp, hint, mutexes, flags>>

\* startDataPlaneWarm: once per handle, a goroutine sends one Stat
Warm(p) ==
  /\ pc[p] = "warm"
  /\ \/ /\ (dp.client = None \/ warmed)
        /\ RenewReturn(p, "ok")
        /\ UNCHANGED warmed
     \/ /\ dp.client # None /\ ~warmed
        /\ warmed' = TRUE
        /\ \E w \in Warmers :
             /\ pc' = [pc EXCEPT ![p] = AfterRenew[at[p].ret]["ok"], ![w] = "attach"]
             /\ at' = [at EXCEPT ![p] = Renewed(p, "ok"),
                                 ![w] = [NoLocals EXCEPT !.op = "warm", !.via = "op",
                                                         !.client = dp.client]]
  /\ UNCHANGED <<dp, hint, verified, mutexes, released, closeDone>>

-----------------------------------------------------------------------------
(* credentialRenewalLoop.                                                  *)

LoopTop(l) ==
  /\ pc[l] = "top"
  /\ \/ dp.expires /\ Goto(l, "wait") /\ UNCHANGED at
     \/ ~dp.expires /\ Finish(l)
  /\ UNCHANGED <<dp, hint, verified, mutexes, flags>>

\* the context is cancelled while the loop waits for its timer
LoopStop(l) ==
  /\ pc[l] \in {"wait", "backoff"} /\ l \notin dp.live
  /\ Finish(l)
  /\ UNCHANGED <<dp, hint, verified, mutexes, flags>>

\* the timer fires; select may prefer it to a cancelled context
LoopTimer(l) ==
  /\ pc[l] \in {"wait", "backoff"}
  /\ \/ pc[l] = "wait" /\ CallRenew(l, at[l], "loop")
     \/ pc[l] = "backoff" /\ Goto(l, "top") /\ UNCHANGED at
  /\ UNCHANGED <<dp, hint, verified, mutexes, flags>>

-----------------------------------------------------------------------------
(* Pause, Resume, Release and Close.                                       *)

\* PauseSession or ResumeSession fails, or resetDataPlane follows
PauseRPC(p) ==
  /\ pc[p] = "pauseRPC"
  /\ \/ Finish(p)
     \/ Goto(p, "resetHint") /\ UNCHANGED at
  /\ UNCHANGED <<dp, hint, verified, mutexes, flags>>

\* Variant: Close does not look at closeDone.
CloseLockAgain(p) ==
  /\ pc[p] = "closeLock" /\ closeMu = None
  /\ closeMu' = p
  /\ released' = (released \/ at[p].op = "release")
  /\ Goto(p, "closeDP")
  /\ UNCHANGED <<dp, hint, verified, resolving, probeMu, closeDone, warmed, at>>

\* Release and Close take closeMu; a second Close after success returns
CloseLock(p) ==
  /\ pc[p] = "closeLock" /\ closeMu = None
  /\ \/ /\ at[p].op = "close" /\ closeDone
        /\ Finish(p)
        /\ UNCHANGED <<closeMu, released>>
     \/ /\ at[p].op = "close" => ~closeDone
        /\ closeMu' = p
        /\ released' = (released \/ at[p].op = "release")
        /\ Goto(p, "closeDP")
        /\ UNCHANGED at
  /\ UNCHANGED <<dp, hint, verified, resolving, probeMu, closeDone, warmed>>

CloseDataPlane(p) ==
  /\ pc[p] = "closeDP"
  /\ dp' = [DrainRenewal(dp) EXCEPT !.closed = TRUE]
  /\ at' = [at EXCEPT ![p].wait = dp.dones \ Exited]
  /\ Goto(p, "closeWait")
  /\ UNCHANGED <<hint, verified, mutexes, flags>>

WaitRenewalStopped(p) ==
  /\ pc[p] = "closeWait" /\ at[p].wait \subseteq Exited
  /\ at' = [at EXCEPT ![p].wait = {}]
  /\ Goto(p, IF at[p].op = "close" THEN "terminate" ELSE "resetHint")
  /\ UNCHANGED <<dp, hint, verified, mutexes, flags>>

Terminate(p) ==
  /\ pc[p] = "terminate"
  /\ \E out \in {"ok", "error"} : at' = [at EXCEPT ![p].out = out]
  /\ Goto(p, "resetHint")
  /\ UNCHANGED <<dp, hint, verified, mutexes, flags>>

ResetHint(p) ==
  /\ pc[p] = "resetHint"
  /\ hint' = None
  /\ Goto(p, "resetClear")
  /\ UNCHANGED <<dp, verified, mutexes, flags, at>>

ResetClear(p) ==
  /\ pc[p] = "resetClear"
  /\ dp' = ResetState(dp)
  /\ at' = [at EXCEPT ![p].wait = dp.dones \ Exited]
  /\ Goto(p, "resetVerified")
  /\ UNCHANGED <<hint, verified, mutexes, flags>>

ResetVerified(p) ==
  /\ pc[p] = "resetVerified"
  /\ verified' = None
  /\ Goto(p, "resetWait")
  /\ UNCHANGED <<dp, hint, mutexes, flags, at>>

ResetWait(p) ==
  /\ pc[p] = "resetWait" /\ at[p].wait \subseteq Exited
  /\ \/ at[p].op = "pause" /\ Finish(p) /\ UNCHANGED closeMu
     \/ at[p].op = "release" /\ Finish(p) /\ closeMu' = None
     \/ /\ at[p].op = "close" /\ Goto(p, "closeEnd") /\ UNCHANGED closeMu
        /\ at' = [at EXCEPT ![p].wait = {}]
  /\ UNCHANGED <<dp, hint, verified, resolving, probeMu, flags>>

\* Variant: a failed Close reopens the handle whoever released it.
CloseEndReopening(p) ==
  /\ pc[p] = "closeEnd"
  /\ \/ /\ at[p].out = "ok" /\ closeDone' = TRUE /\ UNCHANGED dp
     \/ /\ at[p].out # "ok" /\ dp' = [dp EXCEPT !.closed = FALSE] /\ UNCHANGED closeDone
  /\ closeMu' = None
  /\ Finish(p)
  /\ UNCHANGED <<hint, verified, resolving, probeMu, released, warmed>>

\* a failed Close leaves the handle closeable again, unless it was released
CloseEnd(p) ==
  /\ pc[p] = "closeEnd"
  /\ \/ /\ at[p].out = "ok" /\ closeDone' = TRUE /\ UNCHANGED dp
     \/ /\ at[p].out # "ok" /\ dp' = [dp EXCEPT !.closed = released] /\ UNCHANGED closeDone
  /\ closeMu' = None
  /\ Finish(p)
  /\ UNCHANGED <<hint, verified, resolving, probeMu, released, warmed>>

-----------------------------------------------------------------------------
Init ==
  /\ dp = FreshDataPlane
  /\ hint = None /\ resolving = None /\ verified = None
  /\ probeMu = None /\ closeMu = None
  /\ released = FALSE /\ closeDone = FALSE
  /\ warmed = (Warmers = {})
  /\ pc = [p \in Procs |-> "idle"]
  /\ at = [p \in Procs |-> NoLocals]

ResolveStep(p) ==
  \/ Resolve(p) \/ ReadHint(p) \/ ConfigureFromHint(p) \/ ReadHinted(p)
  \/ Flight(p) \/ FlightEnd(p)
  \/ ReadResolved(p) \/ ReadConfigured(p) \/ Recheck(p)
ProbeStep(p) ==
  \/ ProbeLock(p) \/ ProbeRetry(p) \/ ProbeTimeout(p)
  \/ MarkRead(p) \/ MarkSet(p) \/ Current(p)
UnaryStep(p) == Attach(p) \/ Reply(p) \/ Replay(p) \/ UnaryDone(p)
RunStep(p) ==
  \/ Open(p) \/ RunRejected(p) \/ RunFailed(p) \/ PendingRead(p)
  \/ PendingVerify(p) \/ RefreshHinted(p) \/ RunRetry(p) \/ RunStarted(p)
RenewStep(p) ==
  \/ \E res \in {"err", "fatal"} : RenewFail(p, res)
  \/ \E answer \in Answers : RenewOk(p, answer)
  \/ Configure(p) \/ VerifyRead(p) \/ VerifySet(p) \/ Warm(p)
LoopStep(l) == LoopTop(l) \/ LoopStop(l) \/ LoopTimer(l)
CloseStep(p) ==
  \/ PauseRPC(p) \/ CloseLock(p) \/ CloseDataPlane(p) \/ WaitRenewalStopped(p)
  \/ Terminate(p) \/ ResetHint(p) \/ ResetClear(p) \/ ResetVerified(p)
  \/ ResetWait(p) \/ CloseEnd(p)

Step(p) ==
  \/ ResolveStep(p) \/ ProbeStep(p) \/ UnaryStep(p) \/ RunStep(p)
  \/ RenewStep(p) \/ LoopStep(p) \/ CloseStep(p)

Next ==
  \/ \E p \in Callers, op \in OpKinds : Start(p, op)
  \/ \E p \in Callers, answer \in Answers : Event(p, answer)
  \/ \E p \in Procs : Step(p) \/ FlightCancelled(p)

Spec == Init /\ [][Next]_vars

-----------------------------------------------------------------------------
(* Fairness: a goroutine that can take its next step takes one; remote     *)
(* calls end (they run under the readiness budget or the caller's          *)
(* deadline); a mutex is not withheld from a waiter forever (Go's          *)
(* starvation mode); select does not ignore a closed Done forever; and the *)
(* readiness budget of a probe is finite.  Nothing forces a caller to call *)
(* or its context to end while it waits for another's resolution.          *)
Unblock(p) == CloseLock(p) \/ ProbeLock(p) \/ ProbeTimeout(p) \/ LoopStop(p)

Fairness == \A p \in Procs : WF_vars(Step(p)) /\ SF_vars(Unblock(p))

FairSpec == Spec /\ Fairness

-----------------------------------------------------------------------------
\* Every variable stays in its type.
TypeOK ==
  /\ dp \in DataPlaneState
  /\ hint \in Endpoints \cup {None}
  /\ resolving \in Procs \cup {None}
  /\ verified \in Clients \cup {None}
  /\ probeMu \in Procs \cup {None} /\ closeMu \in Procs \cup {None}
  /\ released \in BOOLEAN /\ closeDone \in BOOLEAN /\ warmed \in BOOLEAN
  /\ pc \in [Procs -> Labels]
  /\ at \in [Procs -> Locals]

\* A request in flight to a node carries no credential, or one whose mint named
\* that node (or named none): relocation, late renewals and replays never hand
\* one node's credential to another (setHeaders, dataPlaneClientTargets).
CredentialRouting ==
  \A p \in Procs : pc[p] \in {"inflight", "reinflight", "opened"} =>
    at[p].wire \in {None, Unnamed, at[p].client.ep}

\* The fields guarded by dataPlaneMu agree: a client targets the recorded
\* endpoint and holds that endpoint's pooled transport, and a credential whose
\* mint named an endpoint is bound to it, however configure, reset and late
\* renewals interleave.
HandleCoherent ==
  /\ dp.held = dp.endpoint
  /\ dp.client = None <=> dp.endpoint = None
  /\ dp.client # None => dp.client.ep = dp.endpoint
  /\ dp.cred \in Endpoints => dp.credEndpoint = dp.cred

\* At most one renewal loop is uncancelled and it is the one renewalCancel
\* stops; a closed handle has none (configureDataPlane: "A terminated session
\* must not acquire a transport or a renewal loop").
OneRenewal ==
  /\ dp.live \subseteq {dp.cancel}
  /\ dp.closed => dp.live = {}

\* The exit signal of every running loop is in renewalDones or in the hands of
\* a goroutine that waits for it, so no loop can be forgotten.
LoopsAccounted ==
  \A l \in Loops : pc[l] # "idle" =>
    l \in dp.dones \/ \E p \in Procs : l \in at[p].wait

\* Once Release, or a Close that succeeded, is over, the handle holds no
\* transport, credential, client or renewal, for good: no answer in flight
\* across it revives them, and a later failed Close does not reopen it.
ReleasedIsEmpty ==
  (released \/ closeDone) /\ closeMu = None =>
    dp = [FreshDataPlane EXCEPT !.closed = TRUE]

\* TerminateSession is not called again once a call of it succeeded.
TerminateOnce ==
  \A p \in Procs : pc[p] = "terminate" => ~closeDone

\* A request goes out only on a client: the verified path never uses the nil
\* client a concurrent reset leaves.
RequestHasClient ==
  \A p \in Procs : pc[p] \in {"probeLock", "attach", "inflight", "reattach",
                               "reinflight", "replay", "opened", "markSet"} =>
    at[p].client # None

\* "cannot start new data-plane operations": an operation that begins after the
\* handle is closed never obtains a client; stated on the handle: while closed
\* no step gives it a client it did not have.
ClosedAcquiresNothing ==
  [][dp.closed /\ dp'.client # None => dp'.client = dp.client]_vars

\* Close, Release, Pause and Resume return: the loops they wait for stop and
\* closeMu comes round.
CloseReturns ==
  \A p \in Callers :
    pc[p] \in {"pauseRPC", "closeLock", "closeDP", "closeWait", "terminate",
              "resetHint", "resetClear", "resetVerified", "resetWait", "closeEnd"}
      ~> pc[p] = "idle"

\* The readiness probe always lets go of dataPlaneProbeMu, also when its own
\* request re-mints the credential and re-enters the verified state.
ProbeReleased ==
  \A p \in Callers : probeMu = p ~> probeMu # p

\* Every caller that waits for another's endpoint resolution is woken.
FlightWakes ==
  \A p \in Callers : pc[p] = "flightWait" ~> pc[p] # "flightWait"

-----------------------------------------------------------------------------
(* What the documentation promises and the code does not keep.             *)

\* README.md: "Release is idempotent and safe to call concurrently. The
\* released handle cannot start new data-plane operations"; a run whose handle
\* is reset between two reads opens its stream on a nil client.
RunHasClient == \A p \in Procs : pc[p] # "panic"
=============================================================================
