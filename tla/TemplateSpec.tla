------------------------------ MODULE TemplateSpec ------------------------------
(***************************************************************************)
(* The fluent builder of template build specs, sandbox/template_spec.go: a *)
(* program derives specs from specs it has, in any order, and sends them   *)
(* through JSON and back.  A spec is a protobuf message; its runtime is    *)
(* kept in a heap, because a message that were shared between two specs    *)
(* would change both.  What the program said is kept in `hist`.            *)
(*                                                                         *)
(* A call is a record: the method, and the values it is given by name.     *)
(* Names, paths and commands stand for themselves or for a value that      *)
(* breaks the rule of their field.  A duration counts half seconds.        *)
(***************************************************************************)
EXTENDS Integers, Sequences, FiniteSetsExt

CONSTANTS
  Calls,       \* the calls the program may make
  Word,        \* 2^32, scaled
  MaxGrace,    \* the most seconds Validate lets stopGrace have (300)
  MaxTimeout,  \* the most seconds of a run step or of readiness (86400)
  ReadyDefault \* defaultReadyWhenTimeout in seconds (60)

ASSUME TemplateSpecAssumption ==
  /\ {Word, MaxGrace, MaxTimeout, ReadyDefault} \subseteq Nat
  /\ MaxGrace < Word /\ MaxTimeout < Word /\ ReadyDefault \in 1..MaxTimeout

\* the values each method takes; an entrypoint has options with more
Takes ==
  [From |-> {"base"}, WithGitContext |-> {"context"}, Workdir |-> {"workdir"},
   Resources |-> {"resources"}, BuildEnv |-> {"build"}, RuntimeEnv |-> {"env"},
   Step |-> {"step"}, Start |-> {"entry"}, RuntimeRunAt |-> {"runAt"},
   RestartPolicy |-> {"restart"}, SnapshotMode |-> {"mode"}, ReadyWhen |-> {"ready"},
   StopGrace |-> {"grace"}]
EntrypointOptions == {"runAt", "restart", "secretEnv", "files", "ready"}

IsMap(m) == m = [k \in DOMAIN m |-> m[k]]

ASSUME CallsAssumption ==
  \A c \in Calls :
    /\ c.op \in DOMAIN Takes
    /\ Takes[c.op] \subseteq DOMAIN c.gives
    /\ DOMAIN c.gives \subseteq Takes[c.op] \cup IF c.op = "Start" THEN EntrypointOptions ELSE {}
    /\ \A f \in DOMAIN c.gives \cap {"build", "env", "secretEnv"} : IsMap(c.gives[f])

VARIABLES
  specs,  \* the specs the program holds; runtime is an address, 0: nil
  heap,   \* the runtime messages
  hist    \* the calls that made each spec

specVars == <<specs, heap, hist>>

NoMap == [k \in {} |-> ""]
Gives(c, field) == field \in DOMAIN c.gives
Optional(c, field, otherwise) == IF Gives(c, field) THEN c.gives[field] ELSE otherwise

\* the entries of one map put into another
Put(new, old) ==
  [k \in DOMAIN new \cup DOMAIN old |-> IF k \in DOMAIN new THEN new[k] ELSE old[k]]

\* uint32(d / time.Second): the division truncates towards zero
Seconds(d) == (IF d < 0 THEN -((-d) \div 2) ELSE d \div 2) % Word

\* runAtToProto, restartPolicyToProto, snapshotModeToProto, each with the
\* names in authored JSON; another string is UNSPECIFIED.  (Like
\* "always", so "on-failure" is left out.)
Enums ==
  [runAt |-> [boot |-> "RUN_AT_BOOT", build |-> "RUN_AT_BUILD", manual |-> "RUN_AT_MANUAL"],
   restart |-> [never |-> "RESTART_NEVER", always |-> "RESTART_ALWAYS"],
   mode |-> [filesystem |-> "MODE_FILESYSTEM", memory |-> "MODE_MEMORY"]]
Unspecified == "UNSPECIFIED"
ToProto(field, name) ==
  IF name \in DOMAIN Enums[field] THEN Enums[field][name] ELSE Unspecified

NewRuntime ==
  [entry |-> {}, env |-> NoMap, secretEnv |-> NoMap, files |-> "", runAt |-> Unspecified,
   restart |-> Unspecified, mode |-> Unspecified, ready |-> {}, grace |-> 0]

defaultTemplateSpecProto ==
  [base |-> [kind |-> "image", id |-> "sandbox"], context |-> "", workdir |-> "",
   build |-> NoMap, steps |-> <<>>, runtime |-> 0, resources |-> ""]

-----------------------------------------------------------------------------
(* The methods, on a message whose runtime is a set of at most one.        *)

EnsureRuntime(p) == IF p.runtime = {} THEN NewRuntime ELSE CHOOSE r \in p.runtime : TRUE

Base(p, c) == [p EXCEPT !.base = c.gives.base]
WithGitContext(p, c) == [p EXCEPT !.context = c.gives.context]
Workdir(p, c) == [p EXCEPT !.workdir = c.gives.workdir]
Resources(p, c) == [p EXCEPT !.resources = c.gives.resources]
BuildEnv(p, c) == [p EXCEPT !.build = Put(c.gives.build, @)]

RuntimeEnv(p, c) ==
  IF c.gives.env = NoMap THEN p
  ELSE [p EXCEPT !.runtime = {[EnsureRuntime(p) EXCEPT !.env = Put(c.gives.env, @)]}]

\* Run, RunArgs, Copy, WriteFile, Mkdir, Remove, Rename, Symlink, Apt, Pip, Npm, Bun
appendStep(p, c) ==
  LET step == c.gives.step IN
  [p EXCEPT !.steps = Append(@, [kind |-> step.kind, ok |-> step.ok,
                                 secs |-> IF step.timeout > 0 THEN Seconds(step.timeout) ELSE 0])]

readyWhenToProto(ready) ==
  [secs |-> IF ready.timeout > 0 THEN Seconds(ready.timeout) ELSE ReadyDefault, ok |-> ready.ok]

\* Variant: a new entrypoint begins a new runtime.
EntrypointFresh(p, c) ==
  [p EXCEPT !.runtime =
     {[NewRuntime EXCEPT !.entry = {c.gives.entry},
                         !.runAt = ToProto("runAt", Optional(c, "runAt", "")),
                         !.restart = ToProto("restart", Optional(c, "restart", "")),
                         !.secretEnv = Optional(c, "secretEnv", NoMap),
                         !.files = Optional(c, "files", ""),
                         !.ready = IF Gives(c, "ready") THEN {readyWhenToProto(c.gives.ready)} ELSE {}]}]

\* Start, StartArgs, ProcessCompose: the entrypoint is replaced, and of the
\* other settings those the options give.
Entrypoint(p, c) ==
  LET old == EnsureRuntime(p) IN
  [p EXCEPT !.runtime =
     {[old EXCEPT !.entry = {c.gives.entry},
                  !.runAt = IF Gives(c, "runAt") THEN ToProto("runAt", c.gives.runAt) ELSE @,
                  !.restart = IF Gives(c, "restart") THEN ToProto("restart", c.gives.restart) ELSE @,
                  !.secretEnv = Optional(c, "secretEnv", @),
                  !.files = Optional(c, "files", @),
                  !.ready = IF Gives(c, "ready") THEN {readyWhenToProto(c.gives.ready)} ELSE @]}]

\* RuntimeRunAt, RestartPolicy, SnapshotMode
Policy(p, c, field) ==
  [p EXCEPT !.runtime = {[EnsureRuntime(p) EXCEPT ![field] = ToProto(field, c.gives[field])]}]

ReadyWhen(p, c) ==
  [p EXCEPT !.runtime = {[EnsureRuntime(p) EXCEPT !.ready = {readyWhenToProto(c.gives.ready)}]}]

StopGrace(p, c) ==
  [p EXCEPT !.runtime = {[EnsureRuntime(p) EXCEPT !.grace = Seconds(c.gives.grace)]}]

Mutate(p, c) ==
  CASE c.op = "From" -> Base(p, c)
    [] c.op = "WithGitContext" -> WithGitContext(p, c)
    [] c.op = "Workdir" -> Workdir(p, c)
    [] c.op = "Resources" -> Resources(p, c)
    [] c.op = "BuildEnv" -> BuildEnv(p, c)
    [] c.op = "RuntimeEnv" -> RuntimeEnv(p, c)
    [] c.op = "Step" -> appendStep(p, c)
    [] c.op = "Start" -> Entrypoint(p, c)
    [] c.op = "RuntimeRunAt" -> Policy(p, c, "runAt")
    [] c.op = "RestartPolicy" -> Policy(p, c, "restart")
    [] c.op = "SnapshotMode" -> Policy(p, c, "mode")
    [] c.op = "ReadyWhen" -> ReadyWhen(p, c)
    [] c.op = "StopGrace" -> StopGrace(p, c)

-----------------------------------------------------------------------------
(* The heap: with clones the message and changes the clone.                *)

Load(p) == [p EXCEPT !.runtime = IF @ = 0 THEN {} ELSE {heap[@]}]

\* Variant: the clone is shallow.
CloneShallow(p) == IF p.runtime = 0 THEN Len(heap) + 1 ELSE p.runtime

\* where the runtime of a clone of p is (proto.Clone copies deeply)
CloneAt(p) == Len(heap) + 1

\* the heap with the runtime of message q at address a, and q itself
Written(q, a) ==
  IF q.runtime = {} THEN heap
  ELSE [n \in 1..(IF a > Len(heap) THEN a ELSE Len(heap)) |-> IF n = a THEN EnsureRuntime(q) ELSE heap[n]]
Stored(q, a) == [q EXCEPT !.runtime = IF @ = {} THEN 0 ELSE a]

Derive(i, q, calls) ==
  LET a == CloneAt(specs[i]) IN
  /\ heap' = Written(q, a)
  /\ specs' = Append(specs, Stored(q, a))
  /\ hist' = Append(hist, calls)

Call(i, c) == Derive(i, Mutate(Load(specs[i]), c), Append(hist[i], c))

-----------------------------------------------------------------------------
(* ToJSON and TemplateSpecFromJSON.  Of the document, the string values    *)
(* under "runtime" by their path.                                          *)

EnumFields == DOMAIN Enums
Leaves(r) ==
  [path \in {<<"runtime", f>> : f \in {g \in EnumFields : r[g] # Unspecified}}
              \cup {<<"runtime", "env", k>> : k \in DOMAIN r.env} |->
     IF Len(path) = 2 THEN r[path[2]] ELSE r.env[path[3]]]

\* authoredTemplateEnumFields
Table(path) == IF Len(path) = 2 THEN Enums[path[2]] ELSE NoMap

ToAuthored(path, v) ==
  IF \E short \in DOMAIN Table(path) : Table(path)[short] = v
  THEN CHOOSE short \in DOMAIN Table(path) : Table(path)[short] = v ELSE v
FromAuthored(path, v) == IF v \in DOMAIN Table(path) THEN Table(path)[v] ELSE v

ToJSON(r) == [path \in DOMAIN Leaves(r) |-> ToAuthored(path, Leaves(r)[path])]
FromJSON(r, doc) ==
  LET read == [path \in DOMAIN doc |-> FromAuthored(path, doc[path])]
      enum(f) == IF <<"runtime", f>> \in DOMAIN doc THEN read[<<"runtime", f>>] ELSE Unspecified IN
  [r EXCEPT !.runAt = enum("runAt"), !.restart = enum("restart"), !.mode = enum("mode"),
            !.env = [k \in DOMAIN r.env |-> read[<<"runtime", "env", k>>]]]

ThroughJSON(i) ==
  LET p == Load(specs[i]) IN
  Derive(i, [p EXCEPT !.runtime = {FromJSON(r, ToJSON(r)) : r \in p.runtime}], hist[i])

-----------------------------------------------------------------------------
(* Validate, and the check and the clone of directRuntimeProto.            *)

Absolute(path) == path \in {"", "/w", "/e"}

\* validateSecretFiles, of the files as a whole
FilesOk(files) == files # "overlapping"

GraceOk(r) == r.grace <= MaxGrace

ReadyOk(r) == \A w \in r.ready : w.ok /\ w.secs \in 1..MaxTimeout

RuntimeOk(r) ==
  /\ FilesOk(r.files)
  /\ DOMAIN r.secretEnv \cap DOMAIN r.env = {}
  /\ r.entry # {} /\ \A e \in r.entry : e.ok /\ Absolute(e.workdir)
  /\ r.runAt = "RUN_AT_BUILD" => r.ready # {}
  /\ r.mode # Unspecified => r.runAt = "RUN_AT_BUILD"
  /\ GraceOk(r)
  /\ ReadyOk(r)

StepOk(p, step) == step.ok /\ step.secs <= MaxTimeout /\ (step.kind = "copy" => p.context # "")

Validate(p) ==
  /\ IF p.base.kind = "image" THEN p.base.id # "" ELSE p.base.id = "uuid"
  /\ Absolute(p.workdir)
  /\ p.context # "misnamed"
  /\ \A n \in DOMAIN p.steps : StepOk(p, p.steps[n])
  /\ \A r \in p.runtime : RuntimeOk(r)
  /\ p.resources \in {"", "fits"}

RuntimeOnly(p) ==
  /\ p.base = [kind |-> "image", id |-> "sandbox"]
  /\ p.context = "" /\ p.build = NoMap /\ p.steps = <<>> /\ p.resources = ""

DirectOk(p) ==
  /\ RuntimeOnly(p) /\ Validate(p)
  /\ \E r \in p.runtime : r.runAt \in {Unspecified, "RUN_AT_BOOT"}

\* the runtime that is sent: an entrypoint without a directory has the spec's
Direct(p) ==
  [p EXCEPT !.runtime =
     {[r EXCEPT !.entry = {[e EXCEPT !.workdir = IF @ = "" THEN p.workdir ELSE @] : e \in @}] : r \in @}]

-----------------------------------------------------------------------------
(* What a sequence of calls asks for.                                      *)

Givers(h, field) == {n \in DOMAIN h : Gives(h[n], field)}
LastGiven(h, field, otherwise) ==
  IF Givers(h, field) = {} THEN otherwise ELSE h[Max(Givers(h, field))].gives[field]
Merged(h, field) ==
  LET givers(k) == {n \in Givers(h, field) : k \in DOMAIN h[n].gives[field]} IN
  [k \in UNION {DOMAIN h[n].gives[field] : n \in Givers(h, field)} |-> h[Max(givers(k))].gives[field][k]]

RuntimeFields == {"entry", "secretEnv", "files", "runAt", "restart", "mode", "ready", "grace"}
AsksRuntime(h) == Merged(h, "env") # NoMap \/ \E f \in RuntimeFields : Givers(h, f) # {}

AskedRuntime(h) ==
  [entry |-> {h[n].gives.entry : n \in {m \in Givers(h, "entry") : m = Max(Givers(h, "entry"))}},
   env |-> Merged(h, "env"), secretEnv |-> LastGiven(h, "secretEnv", NoMap),
   files |-> LastGiven(h, "files", ""),
   runAt |-> ToProto("runAt", LastGiven(h, "runAt", "")),
   restart |-> ToProto("restart", LastGiven(h, "restart", "")),
   mode |-> ToProto("mode", LastGiven(h, "mode", "")),
   ready |-> IF Givers(h, "ready") = {} THEN {} ELSE {readyWhenToProto(LastGiven(h, "ready", {}))},
   grace |-> Seconds(LastGiven(h, "grace", 0))]

\* the number of the n-th call that adds a step
StepCall(h, n) ==
  CHOOSE m \in Givers(h, "step") : Cardinality({k \in Givers(h, "step") : k <= m}) = n

Asked(h) ==
  [base |-> LastGiven(h, "base", defaultTemplateSpecProto.base),
   context |-> LastGiven(h, "context", ""), workdir |-> LastGiven(h, "workdir", ""),
   build |-> Merged(h, "build"),
   steps |-> [n \in 1..Cardinality(Givers(h, "step")) |->
                LET c == h[StepCall(h, n)].gives.step IN
                [kind |-> c.kind, ok |-> c.ok, secs |-> IF c.timeout > 0 THEN Seconds(c.timeout) ELSE 0]],
   runtime |-> IF AsksRuntime(h) THEN {AskedRuntime(h)} ELSE {},
   resources |-> LastGiven(h, "resources", "")]

\* A spec has, of every setting, the value the last of its calls that gave one
\* gave it, its environments merged and its steps in order, also after a round
\* trip through JSON: no call resets what another one set.
BuiltAsAsked == \A i \in DOMAIN specs : Load(specs[i]) = Asked(hist[i])

\* Every fluent method returns a new value (template_spec.go:224-225): whatever
\* is derived from a spec or sent, the specs the program holds stay what they are.
SpecsPersist ==
  [][\A i \in DOMAIN specs : Load(specs[i])' = Load(specs[i])]_<<specs, heap>>
================================================================================
