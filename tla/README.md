# A TLA+ development for the Tenki sandbox SDK

The repository is a Go client library: a program creates sandbox sessions,
runs commands and moves files in them, opens tunnels, and manages snapshots,
volumes, templates and images. Two kinds of code in it are hard. One keeps state
on the client while goroutines, renewals, reconnects, timeouts and a relocating
server change it concurrently. The other turns what the program said, in any
order of options and builder calls, into one request. Both are modelled here.

## Inventory

| Part | State it keeps | Operations | What is hard | Module |
|---|---|---|---|---|
| Session data plane (`session.go`, `data_plane.go`, opening in `run.go`) | endpoint, client, pooled transport, credential, renewal loops, hint, verified client, closed/released flags | resolve, probe, attach a credential, renew, apply an answer, pause/resume, `Release`, `Close` | four mutexes held in turn, reads used after an unlock, answers in any order, relocation, teardown racing use | `SessionDataPlane` |
| Transport pool (`data_plane.go`) | one HTTP client and count per origin | acquire, release, `Client.Close` | releases after the pool was dropped | `TransportPool`, `TransportLeases` |
| Run streams (`run.go`, `stream.go`) | two unbuffered pipes, a bounded channel, a result | `Next`, `Wait`, `Cancel`, `Exec` | blocking on each other, end overtaking output | `RunStream` |
| Resilient tunnel (`tunnel.go`) | current tunnel, state, termination, listeners | reconnect loop, `Close`, `OnTerminated` | `Close` and the context's end racing a reconnect | `ResilientTunnel` |
| Host-port tunnel (`tunnel.go`) | a host connection per sub-stream, two `sync.Once`s | forward, pumps, `Close`, `OnTerminated` | half-closes, a pump that forgets a connection forward still uses, callbacks that call back | `HostPortTunnel` |
| Create and the waits (`sandbox.go`, `session.go`, `snapshot.go`, `volume.go`, `template.go`, `poll.go`) | deadline, attempts, the observed state, the events seen | `Create`, `WaitReady`, `WaitPaused`, `WaitResumed`, `WaitSnapshotReady`, `WaitForSnapshotDurable`, `WaitVolumeReady`, `DetachVolume`, `DeleteVolume`, the build wait | stale replica reads, stalled attempts, budgets, waits without a timeout | `Waits` |
| Template specifications (`template_spec.go`) | a specification that must not change | every builder method, JSON and back, `Validate`, the direct runtime | messages shared between specifications, merged maps, 32-bit conversions before the checks | `TemplateSpec` |
| Options and requests (`options.go`, `sandbox.go`, `template.go`, `snapshot.go`, `volume.go`, `session.go`) | a configuration with its set flags | `Create`, `CreateTemplate`, `UpdateTemplate`, `UpdateSnapshot`, `UpdateVolume`, `Session.Update` | options in any order, defaults against sources, what "not given" means | `Requests`, `MCRequests` |
| Listing (`pagination.go` and the list methods) | a page token and what was collected | the page loop | resources that come and go between pages, a repeated token | `Listing` |
| Everything else (registry, policies, tailnet, SSH, git, files, metrics, redaction, the workspace client, generated code) | none | translate a record, make one call | nothing a model checker reaches | not modelled |

The parts interact through calls on shared objects: an operation resolves the
session's data plane (`SessionDataPlane`), which takes its transport from the
pool (`TransportPool`: `Acquire` and `Release` are the calls made in
`configureDataPlane` and `resetDataPlane`); a run opened there continues in
`RunStream`; a tunnel is opened through the same resolution (the "dial"
operation), runs as a `HostPortTunnel`, and `ResilientTunnel` opens one after
the other; a specification of `TemplateSpec` and the options go into the request
of `Requests` (composed with `Listing` in one module, which extends both); the
answer to that request begins what `Waits` models, and the answers `Create` and
`WaitReady` receive are the "event" operation of `SessionDataPlane`.

## Modules

### SessionDataPlane

One handle, any number of callers, renewal-loop slots and warm-up goroutines.
`dp` is the record of the fields guarded by `dataPlaneMu`; `hint` and
`resolving` are `localDataPlaneHints`; `verified` is
`dataPlaneVerifiedClient`; `probeMu` and `closeMu` are the holders of those
mutexes; `pc` and `at` are the program counters and locals of the goroutines.
**One action is one critical section, or the end of one remote call**; what a
goroutine does between two of them is local and belongs to the action before
it. So `resolveDataPlane` is six actions (`Resolve`, `ReadHint`,
`ConfigureFromHint`, `Flight`..., `Recheck`), and everything another goroutine
can do between two lock holds can happen in the model.

A credential is abstracted to the endpoint its mint named (`Unnamed` if none)
and whether it expires; a client to its identity and endpoint; an answer of
the engine to its endpoint, route status and credential kind. Time is left
out: whether a credential is stale, a timer fires or a budget is used up is a
choice. `Loops` bounds how many renewal goroutines exist at once (a step that
would need another one is not taken), `ClientIds` the identities in use;
identities and slots nobody refers to are reused, so behaviours are unbounded
in length.

### TransportPool and TransportLeases

`TransportPool` has the reference-counted map and the release closures, each of
which remembers the entry it was made for. `TransportLeases` says what the pool
promises: a handle that takes a lease on an origin shares the transport the
others use, a transport is retired exactly when the last lessee returns it, or
with all others when the SDK client closes, and returning a lease of a retired
transport changes nothing. `ImplementsLeases` is the refinement under the
mapping at the end of `TransportPool`.

### RunStream

`pumpResponses` (a frame, then a blocking write into the pipe of its stream),
two copies (`copyRunOutput`, or the `io.Copy` of `Exec`; `sink` says which),
`receiveRunHandle`, and the program that calls `Next`, `Wait` and `Cancel` in
any order. A frame is its number; its data plays no role. Standard input and
keepalive frames touch none of this state.

### ResilientTunnel

`reconnectLoop`, any number of `Close` calls, the caller's context, `finish`
under its `sync.Once`, listeners that subscribe at any time. The inner
`HostPortTunnel` is its life only: open, or the reason it ended with.
`Tunnels` bounds how many are referred to at once; a tunnel nobody refers to is
reused. Delays are left out.

### HostPortTunnel

One tunnel between the engine and the services on the host. `forward` takes a
frame from the stream and looks its sub-stream up in `conns` (`Receive`), then
dials, writes, half-closes or closes (`Dial`, `Write`, `CloseWrite`,
`CloseConn`), and its deferred function closes what is left (`Cleanup`). A pump
per connection reads a chunk, or the end, and sends it (`PumpRead`, `PumpSend`),
then takes the connection out of the map without closing it (`PumpEnd`).
`Close` and `forward` meet in `finish`, whose `sync.Once` is held while the
listeners run: a listener that calls `Close` blocks its goroutine for ever
(`FinishCall`, "stuck"). External are the engine, which never uses a sub-stream
identity twice and may break the stream at any time, and the host, which may
write, end its data, close or reset. A chunk is its number. A Ping is answered
by a Pong and leaves no trace, so both are left out.

### Waits

Here time matters, so there is a clock. Ticks are about a second: a backoff
takes one (two in the durability and build waits, which poll every two seconds,
and that of `DeleteVolume` doubles), a call at most one unless its connection
stalls. `asked` is when the last call was made: its answer is a state the replica
served at some moment between then and now, so it may be older than the moment
the code compares with its grace (`resumeRevertGrace`, `pauseRevertGrace`, 3 s).
A delete or detach call that fails may have been applied, its answer lost. `hist`
is what the engine's resource went through with the time of each change, `served`
the newest state a replica has shown. Assumed of the engine: reads do not go back
in time, and a state is not served for more than `Lag` after it is over; the
states before the request are older than the lag. Only `WaitReady` bounds a stalled attempt; of the other
waits only the HTTP client's timeout does, and the properties say so. `Create`
is its held request followed by `WaitReady`, which begins (`start`) when that is
answered and gets the whole timeout. A stream of `WaitReady` that hangs up to the
deadline ends the wait with an error of the context, not with a timeout. A
durability wait tells the upload
states apart; the build wait replays the build's events to its handler.

### TemplateSpec, Requests, Listing

`TemplateSpec` keeps the runtime messages in a heap: a builder method clones its
receiver, and a clone that shared a message with its origin would change both.
`hist` keeps the calls that made each specification, so the properties compare a
specification with what was *said* (`Asked`), not with the code again. Names,
paths and commands stand for themselves or for a value that breaks the rule of
their field; a duration counts half seconds, so that truncation shows, and
`Word` stands for 2^32, so that a conversion wraps. `Validate` keeps the rules
that relate fields (secrets against plain variables, memory snapshots and starts
at build against readiness) and has one flag per step, entrypoint or check for
those on names, paths and lengths.

`Requests` folds the options, in the order they were given, over the default
configuration (`Apply`, with the `xxxSet` flags as the set of fields given),
refuses or sends. `int32` of a disk size wraps. Of the fields that are copied
unchanged (metadata, keys, volumes) only representatives are modelled. `Listing`
is the page loop against a service whose resources come and go, and counts how
often each was collected; a faulty service may repeat a token. `List` and
`ListTemplates` send the tag filter they were given (`Filtering`),
`ListSnapshots` and `ListVolumes` drop it (`Dropping`). `MCRequests` has the calls
and options of the checked instance.

## What is checked

Runs that pass (TLC, no error):

* **dataplane_ops** - one goroutine uses files, dials and runs commands, the
  other applies answers of two nodes, pauses and releases. `CredentialRouting`
  (no node gets another's credential), `HandleCoherent` (endpoint, client,
  transport and credential agree), `RequestHasClient` (the verified path never
  uses a nil client), `TypeOK`. Two nodes are enough for a relocation and one
  back; two goroutines for every pair of operations.
* **dataplane_close** - two goroutines call `Close`, one of them also `Release`,
  the other also `Pause`, a third applies answers, and two renewal loops apply
  theirs. `OneRenewal`, `LoopsAccounted`, `ReleasedIsEmpty`, `TerminateOnce`, the
  action property `ClosedAcquiresNothing`, and `CloseReturns` (whoever closes or
  releases returns). Two loop slots: one being replaced and its successor, so a
  loop's own renewal is answered, and applied, while a `Close` that holds
  `closeMu` waits for that loop and another `Close` waits for the mutex. One
  node: relocation does not touch what these properties say of loops, and
  the proofs below cover any number.
* **dataplane_resolve** - two callers, one of which releases the handle, and the
  warm-up goroutine of a create. `FlightWakes` (whoever waits for another's endpoint
  resolution is woken, however that one ends) and `ProbeReleased` (a probe
  gives its mutex back, also when its own request re-mints), with malformed
  answers: an endpoint that does not parse, a failed route, a missing or blank
  credential.
* **stream_output** - `NothingLost`, `EndAfterOutput`, `ResultBeforeReady`,
  `TypeOK`, `OutcomeReached`, with four frames and a channel of two: the channel
  fills while both copies hold a frame and the pump has another one. Deadlock
  checking is off because an early `Wait` can really block for ever (below).
* **transport_pool** - `RefsExact`, `ImplementsLeases`, `TypeOK`; three handles
  on two origins, so that a count reaches two while another handle comes and
  goes.
* **tunnel_reconnect** - `OneOpen`, `FinalReason`, `Notified` (every listener is
  called once), `CloseReleases`; three tunnels are the current one, the next
  one, and one a `Close` still holds.
* **tunnel_substreams** - `DownInOrder` and `UpInOrder` (each side gets what the
  other sent, in order, with nothing skipped, and the end only after it; while
  the pump of a connection lives nothing the sandbox sent is dropped),
  `ConnsReleased`, `FirstReason`, `TunnelEnds`. Two frames down and one chunk up
  on one sub-stream (so that the order of several chunks up rests on `UpCorrect`),
  one frame on its way while forward handles another: enough
  for a pump that ends between lookup and write, a close between two frames and
  a half-close from either side; sub-streams share only the map, the stream and
  forward, and the proofs below cover any number. Two closers and a listener
  that may call `Close` itself. Deadlock checking is off: a tunnel ends.
* **waits** - `Create` and nine waits. `OutcomeIsReal`, `TimeoutIsReal`,
  `BudgetKept`, `SettledReported` (a wait without a timeout ends once its
  resource has settled), `EventsOnce`, `NoOrphan` (only a `CreateSession` that
  fails after admission loses a live session). Timeouts of eight and six ticks and
  a clock of eleven leave room for lag, grace, a stalled attempt and a settled
  resource before the deadline; five states are the longest path of a resource
  that settles. About twenty million states.
* **requests** - the program makes up to three builder calls and options, and
  gives one of its specifications besides, to one of six operations, or lists.
  `BuiltAsAsked` (a specification is what its calls say), `SpecsPersist` (no
  specification ever changes), `RequestAsAsked`, `SentIsSound` (what is sent
  passes the rules that relate fields), `ListExact`. Three calls are enough for
  a value, its replacement and a field that depends on it; five items in pages
  of two are three pages, with two that come or go between them. About three
  million states. Deadlock checking is off: the program ends.

Every property has a mutant, a plausible wrong version of one definition (the
definitions marked "Variant"), that TLC finds to violate it.

Runs that end in a violation, each of a sentence in the repository:

* **dataplane_nilclient** - "Release is idempotent and safe to call
  concurrently" (README.md:21). `resolveDataPlane` for a run returns the client
  it reads after its last check; a `Release` in between leaves nil, and
  `openRunStream` calls a method on it.
* **stream_hang** - `Wait` "may drain and discard unread chunks so callers do
  not need to fully consume Next" (stream.go:42). A copy that sees the drain
  stops reading its pipe; the pump blocks on the pipe and never delivers the
  exit.
* **waits_create** - "WaitReady covers leftover budget" (sandbox.go:450). `Create`
  gives `WaitReady` its whole timeout again after the held request
  (sandbox.go:342), so it may take almost twice as long; `BudgetKept` bounds it by
  the held time plus the timeout.

Read in the code and not kept as runs:

* data plane: `closeDataPlane` can return while a renewal loop runs whose exit
  signal a concurrent `Pause` has drained (session.go:613 says none runs;
  `LoopsAccounted` says that somebody still waits for it); a readiness probe that
  fails locally, and a relocation between the two lock holds of
  `applyDataPlaneResponse`, mark a client as serving that nobody has seen serve
  (session.go:93, 802; the mark only skips a probe);
* streams and tunnels: `Wait` after `Cancel` returns the killed command's result,
  not an error (stream.go:58); a resilient tunnel whose context ends keeps
  saying it is open until somebody closes it (tunnel.go:435), and so it may after
  a `Close` that races a reconnect, because the loop sets the state last
  (tunnel.go:470; README.md:384 says "use `State()` to check availability"); a
  host that ends its side first ends the pump, which takes the connection out of
  the map without closing it (tunnel.go:269-271): forward then drops the rest of
  the sandbox's data and its half-close (tunnel.go:207-220), and nobody closes the
  connection (`DownInOrder` and `ConnsReleased` except these connections); a
  listener of a resilient tunnel that calls `Close` waits for its own `finish`, as
  in `HostPortTunnel`, and is not modelled there;
* time: `WaitResumed` and `WaitPaused` compare the grace with the time at which an
  answer is there, not with the time of the read (session.go:1202-1228,
  1258-1282), so a read made within the lag and answered after the grace reports
  a revert that did not happen (`OutcomeIsReal` names it); a held `CreateSession`
  that is cut off after the engine admitted the session is returned as a plain
  error (sandbox.go:330-332, 377), and nobody has the session sandbox.go:182-183
  promises (`NoOrphan` names it); a snapshot wait fails when a lagging replica
  does not know the snapshot yet;
* requests: `ListSnapshots` and `ListVolumes` ignore `WithTagFilter`
  (snapshot.go:203, volume.go:116), which "sets AND-tag filtering on list
  requests" (options.go:952); `UpdateTemplate` drops the parents it is given, also
  next to a specification, where `CreateTemplate` refuses them (template.go:183,
  426; options.go:1222 says it "cannot be combined with legacy field options");
  `WithDiskSizeGB` converts an `int` to `int32` before the range is checked, so
  2^32 + 5 is sent as 5 (options.go:880 says "Range is 5-100");
  `WithTemplateResources` takes an earlier disk size back; an empty environment
  is not sent; an unknown name of an enumeration becomes UNSPECIFIED; durations
  below a second become zero and those of 2^32 seconds and more wrap before they
  are checked. The properties name these exceptions where they touch them;
* listing: `advancePageToken` notices a token that repeats at once, not a cycle
  of two.

### Fairness

`SessionDataPlane`: weak fairness of each goroutine's next step (the Go
scheduler runs it, and remote calls end because they have deadlines), strong
fairness of taking a contended mutex (Go's starvation mode), of a closed `Done`
channel in a `select`, and of the end of a probe's budget. Nothing forces a
caller to call. `RunStream`: weak fairness of each goroutine; the node ends
its stream; the program keeps calling `Next`. `ResilientTunnel`: weak fairness
of goroutines, and of a stream failing once its context has ended; a `select`
does not prefer its timer to a cancelled context for ever. `HostPortTunnel`: weak
fairness of forward, the pumps and of finish (so a host reads what it is sent,
or its connection breaks: a `Write` has no deadline), and the engine ends a
stream whose other half is closed. `Waits`, `Requests` and `TransportPool` state
no liveness: the deadlines of `Waits` are safety properties of its clock.

## What is proved

TLAPS checks these for every value of the constants, that is for any number of
goroutines, loops, nodes, clients, handles, origins, tunnels, sub-streams, frames,
polls and faults, and any timeouts. The assumptions are the named `ASSUME`s of the
modules: the sets of goroutines are disjoint, the markers `None` and `Unnamed` are
not values, buffers and timeouts are positive, there are finitely many resources to list, and a builder method or an
option gives the fields its signature has (`CallsAssumption`,
`OptionsAssumption`).

* `SessionDataPlaneProofs!TypeCorrect`: `TypeOK`. It is not inductive alone: a
  goroutine that comes back from a renewal takes its next label and locals from
  the record of the caller that renewed, so the invariant also says which
  return points a goroutine inside a renewal can have (`RenewingOK`).
* `SessionDataPlaneProofs!HandleCorrect`: `HandleCoherent`. Every step that changes
  `dp` is one of the locked sections (`DataPlaneStep`), and each of these
  preserves the agreement of the fields; all other steps frame it away.
* `SessionDataPlaneProofs!RoutingCorrect` and `ClientCorrect`: `CredentialRouting`
  and `RequestHasClient`, from an invariant of each goroutine (the client in its
  hands is one; the credential on the wire fits the client's endpoint) that
  rests on `HandleCoherent` at the moment of `Attach`.
* `SessionCloseProofs!ReleaseCorrect`, `TerminateCorrect`, `RenewalCorrect` and
  `ClosedCorrect`: `ReleasedIsEmpty`, `TerminateOnce`, `OneRenewal` and
  `ClosedAcquiresNothing`. The strengthening (`CloseInv`) describes a goroutine
  inside `Close` or `Release`: it holds `closeMu`, the handle is closed once it
  said so and empty once it was reset, and a `Close` that passed the check of
  `closeDone` finds it unset until it lets go. A closed handle is left alone by
  `configureDataPlane`, and a reset of a closed handle leaves it empty, so a
  `Pause` that runs next to the holder disturbs nothing.
* `SessionCloseProofs!LoopsCorrect`: `LoopsAccounted`. A loop's exit signal
  enters `renewalDones` when the loop starts, is pruned only after the loop has
  exited, and is taken out only by a goroutine that keeps it until then; the
  invariant `PlacesOK` says where a goroutine can hold signals.
* `TransportPoolProofs!TypeCorrect`, and `RefsCorrect`: `RefsExact`, by counting:
  taking a member out of the set of holders of an entry lowers its cardinality by
  one, and the sets of other entries do not change. The invariant says in
  addition that an entry's transport is not used by two entries.
* `TransportPoolProofs!PoolImplementsLeases`: initial states map to initial
  states and every step to a step or stutter of `TransportLeases`; `RefsExact`
  is what makes "the count drops to zero" the same as "the last lessee returns".
* `ResilientTunnelProofs!OneOpenCorrect` and `FinalReasonCorrect`: `OneOpen` and
  `FinalReason`. Only the tunnel the loop waits for, or is about to install, can
  be open (`OpenIsLoops`), the loop waits for the current one (`LoopHolds`), and
  whoever is about to report holds a final reason (`FinishHolds`).
* `HostPortTunnelProofs!FirstReasonCorrect`: `FirstReason`; whoever set the
  termination has taken the `Once` (`TermInv`).
* `HostPortTunnelProofs!ConnsCorrect`: `ConnsReleased`. An open connection is in
  the map, or in the hands of forward that closes it, or its host has ended its
  side (`ConnInv`): the pump takes a connection out of the map only then.
* `HostPortTunnelProofs!UpCorrect`: `UpInOrder`. A sub-stream is accepted once,
  and nothing of it exists before (`AcceptInv`), so a pump starts with nothing
  sent; while the stream takes frames, what a pump has read and sent is what the
  sandbox got (`PumpInv`), so a stream that ends under it loses a tail and never
  a chunk in between.
* `HostPortTunnelProofs!DownCorrect`: `DownInOrder`. Of every sub-stream that is
  still carried, the frames after the last one forward took are exactly those on
  their way, in the order accept, data, half-close (`Flow`), and nothing of a
  sub-stream is on its way before it was opened (`Fresh`). What forward has in
  hand is the next one (`Taken`), so what a host got is a beginning of what was
  sent, and the end of its input comes only after all of it (`GotInv`); a
  connection a pump took out of the map gets nothing more. While the pump lives the
  connection is in the map (`OpenInv`), so forward finds it and nothing is lost.
* `RunStreamProofs!TypeCorrect`, `ResultCorrect`, `OutputCorrect` and
  `EndCorrect`: `TypeOK`, `ResultBeforeReady`, `NothingLost` and
  `EndAfterOutput`. The invariant says where a copy can be while it holds a frame
  (`HeldInv`: one of its own stream, and never the one the pump is writing) and in
  which order pump, copies, `receiveRunHandle` and the program come to their ends
  (`StageInv`: a copy is over early only when `Wait` drains, the result is
  published after both copies). `NothingLost` is then inductive, and at the end
  of `Next` nobody holds a frame any more.
* `WaitsProofs`: all six properties of `Waits`, for any timeouts, lag, grace,
  number of faults and length of the history. `OutcomeCorrect`
  (`OutcomeIsReal`) needs what the engine's transitions leave of each resource
  (`StateInv`) and that a state seen under way was served after the one before it
  (`ViewInv`); nothing is assumed of lag and grace, because an answer from before
  the request can end the wait only in the way the property excepts.
  `BudgetCorrect` (`BudgetKept`) follows from when each call, backoff and stream
  ends at the latest (`DueInv`), and of `Create` from when the held request was
  answered (`HeldInv`). `TimeoutCorrect` and `SettledCorrect`
  (`TimeoutIsReal`, `SettledReported`) bound a response: after `Base` every read
  of a settled resource ends the wait (`Tells`), so the call under way, a backoff
  and one more call are all that follows it, and each stalled attempt moves that by its own length
  (`PollInv`). They are bounded-time safety properties, so no fairness is needed.
  `EventsCorrect` (`EventsOnce`) keeps the events given as the numbers up to the
  last one seen, and `OrphanCorrect` (`NoOrphan`) that a session seen to
  terminate is not coming back and one that was answered stays known (`KnownInv`).

* `RequestsProofs`: all five properties of `Requests`, `TemplateSpec` and
  `Listing`, for any calls and options, sequences of them of any length, any
  limits, word size, page size and set of resources. The library's induction
  theorems take an operator and cannot be used, so induction over the length of a
  sequence, or over the size of a finite set, goes through a least counterexample
  (`Least`, from the well-foundedness of `<`).
  * `BuiltCorrect` and `PersistCorrect` (`BuiltAsAsked`, `SpecsPersist`): a call
    makes of what `h` asks for what `Append(h, c)` asks for (`MutateAsked`), where
    the last value, the merged maps, the ranks of the steps and the runtime each
    have a lemma on `Append`; JSON and back is the identity on what calls can ask
    for (`JSONSame`: no two short names of one enumeration mean the same, and the
    paths of enumerations and of variables never coincide). Every step adds at
    most one message to the heap, behind those there are (`SpecInv`), so no
    specification changes.
  * `RequestCorrect` (`RequestAsAsked`): after any prefix of the options the
    configuration is what they give (`CreateFits`, `TemplateFits`, `UpdateFits`,
    joined in `ConfigFits`); the options given are options of the one operation,
    and their specifications exist (`OptsInv`). At `Submit` each field of the
    request follows from the configuration, and the runtime that is sent from
    `SpecInv`.
  * `SentCorrect` (`SentIsSound`): from the checks of `Validate` on what the calls
    asked for; a negative stop grace wraps to a number over the limit as long as
    the limit leaves room below 2^32, which is the range the property names.
  * `ListCorrect` (`ListExact`): what has been collected is what matches up to the
    token and has been there all the time, once, and nothing else (`ListedTo`); a
    page ends at its greatest item, which nothing before it in the listing skips.
    Every method either sends its filter or is one of those that drop it.

Only model-checked: liveness (`CloseReturns`, `FlightWakes`, `ProbeReleased`,
`OutcomeReached`, `Notified`, `CloseReleases`, `TunnelEnds`), which needs fairness
and `ENABLED`, out of the prover's reach here.

## Plan

Done: the data plane, the pool with its refinement, run streams, both tunnels,
create and all waits, specifications, requests and listings; proofs of every
safety property of these.

Left: proofs of the safety core of the liveness properties, that is, that whoever
waits is waited for by someone who can still move.

## Not modelled

Generated protocol code, three quarters of the repository's Go lines: its
messages appear as records of the fields the models tell apart. Functions that
translate one record and make one call (registry, policies, preview URLs,
tailnet, secrets, the workspace client, metrics); the table of error codes, whose
outcomes the models enumerate; formatting and redaction; SSH keys and byte pipes;
the git command lines; the transfer of file contents; standard input of runs;
state-change listeners of the resilient tunnel, which only watch. None of these
keeps state a model checker could drive into a wrong one; of the hand-written
code a little under two fifths is mapped. The engine and its nodes are external:
they appear as the answers, transitions and frames the code handles.
