------------------------------- MODULE Requests --------------------------------
(***************************************************************************)
(* From options to requests: Client.Create, CreateTemplate, UpdateTemplate,*)
(* UpdateSnapshot, UpdateVolume and Session.Update (sandbox/sandbox.go,    *)
(* template.go, snapshot.go, volume.go, session.go) with the options of    *)
(* options.go, and the listings.  The program builds specs, lists the      *)
(* options of one operation and calls it; the operation is refused before  *)
(* anything is sent, or one request goes out.  What the answer to a Create *)
(* leads to is in Waits.  An option is a record like a call of             *)
(* TemplateSpec.                                                           *)
(***************************************************************************)
EXTENDS TemplateSpec, Listing

CONSTANTS
  Options,    \* by operation, the options the program may give it
  MaxCalls,   \* bound on calls of the builder and options together; one
              \* option that takes a spec is not counted
  MaxRes,     \* the greatest core count, memory and disk size
  DefaultRes, \* the core count, memory and disk size of a bare Create
  WaitDefault, SpecWaitDefault \* DefaultSessionCreateTimeout, DefaultTemplateSpecCreateTimeout

ASSUME RequestsAssumption ==
  /\ {MaxCalls, MaxRes, DefaultRes, WaitDefault, SpecWaitDefault} \subseteq Nat
  /\ DefaultRes \in 1..MaxRes

VARIABLES
  api,   \* the operation the options are for, "" before the first one
  opts,  \* the options
  sent,  \* the request, a set of at most one
  done   \* the operation has been called

requestVars == <<api, opts, sent, done>>
vars == <<specVars, requestVars, listVars>>

\* By operation, the fields the options with a rule of their own give, and those
\* the other options assign.
TemplateSpecial ==
  [WithEnvs |-> {"env"}, WithTemplateResources |-> {"cpu", "memory"}, WithTemplateDiskSizeGB |-> {"disk"},
   WithTags |-> {"tags"}, WithTemplateSpec |-> {"spec"}]
UpdateSpecial == [WithTags |-> {"tags"}]
Special ==
  [Create |-> [WithEnvs |-> {"env"}, WithCloneRepo |-> {"cloneRepo"}, WithDiskSizeGB |-> {"disk"},
               WithDirectRuntime |-> {"runtime"}],
   CreateTemplate |-> TemplateSpecial, UpdateTemplate |-> TemplateSpecial,
   UpdateSession |-> UpdateSpecial, UpdateSnapshot |-> UpdateSpecial, UpdateVolume |-> UpdateSpecial]
SpecialOps == UNION {DOMAIN Special[a] : a \in DOMAIN Special}

CreatePlain ==
  {"image", "snapshot", "template", "cpu", "memory", "files", "domains", "cidrs", "ports", "rules",
   "intercept", "openCode", "tailnet", "noTailnet", "waitReady", "waitForRuntime", "waitTimeout"}
TemplatePlain == {"baseImage", "setupScript", "startCmd", "parentTemplate", "parentImage"}
UpdatePlain == {"name", "expiresAt", "sticky", "maxDuration"}
Plain(a) ==
  IF a = "Create" THEN CreatePlain
  ELSE IF a \in {"CreateTemplate", "UpdateTemplate"} THEN TemplatePlain ELSE UpdatePlain

IsOption(a, o) ==
  /\ o = [op |-> o.op, gives |-> o.gives]
  /\ IF o.op \in SpecialOps
     THEN o.op \in DOMAIN Special[a] /\ DOMAIN o.gives = Special[a][o.op]
     ELSE DOMAIN o.gives \subseteq Plain(a)
  /\ "openCode" \in DOMAIN o.gives => o.gives.openCode \in BOOLEAN

ASSUME OptionsAssumption ==
  /\ DOMAIN Options \subseteq DOMAIN Special
  /\ \A a \in DOMAIN Options : \A o \in Options[a] : IsOption(a, o)

TakesSpec(o) == o.op \in {"WithDirectRuntime", "WithTemplateSpec"}
Resource == {"cpu", "memory", "disk"}

-----------------------------------------------------------------------------
(* The configurations, and what the options do to them.                    *)

defaultCreateConfig ==
  [image |-> "", snapshot |-> "", template |-> "", cpu |-> DefaultRes, memory |-> DefaultRes,
   disk |-> DefaultRes, env |-> NoMap, files |-> "", runtime |-> 0, domains |-> {},
   cidrs |-> {}, ports |-> {}, rules |-> {}, intercept |-> FALSE, openCode |-> FALSE, cloneRepo |-> "", tailnet |-> "", noTailnet |-> FALSE,
   waitReady |-> TRUE, waitForRuntime |-> FALSE, waitTimeout |-> WaitDefault, set |-> {}]

defaultTemplateConfig ==
  [baseImage |-> "", setupScript |-> "", startCmd |-> "", env |-> NoMap,
   resources |-> [f \in Resource |-> 0], parentTemplate |-> "", parentImage |-> "", spec |-> 0,
   tags |-> {}, set |-> {}]

defaultUpdateConfig ==
  [name |-> "", tags |-> {}, expiresAt |-> "", sticky |-> FALSE, maxDuration |-> 0, set |-> {}]

normalizeTagList(tags) == tags \ {" "}

\* WithEnvs, WithGitHubToken, WithOpenCodeProvider
CreateEnv(cfg, o) == [cfg EXCEPT !.env = Put(o.gives.env, @)]

WithCloneRepo(cfg, o) ==
  [cfg EXCEPT !.cloneRepo = o.gives.cloneRepo,
              !.openCode = IF o.gives.cloneRepo # "" THEN TRUE ELSE @]

WithTemplateResources(cfg, o) ==
  [cfg EXCEPT !.resources = [cpu |-> o.gives.cpu, memory |-> o.gives.memory, disk |-> 0]]
WithTemplateDiskSizeGB(cfg, o) == [cfg EXCEPT !.resources.disk = o.gives.disk]
WithTags(cfg, o) == [cfg EXCEPT !.tags = normalizeTagList(o.gives.tags)]

\* int32(gb), which wraps
Half == Word \div 2
Int32(n) == ((n + Half) % Word) - Half
WithDiskSizeGB(cfg, o) == [cfg EXCEPT !.disk = Int32(o.gives.disk)]

\* the other options assign the fields they give
Assign(cfg, o) == [f \in DOMAIN cfg |-> IF f \in DOMAIN o.gives THEN o.gives[f] ELSE cfg[f]]

\* The xxxSet flags are the fields given so far.  A resource option sets
\* resourcesSet, and WithIdleTimeout nothing.
Apply(cfg, o) ==
  LET next ==
        CASE o.op = "WithEnvs" /\ api = "Create" -> CreateEnv(cfg, o)
          [] o.op = "WithCloneRepo" -> WithCloneRepo(cfg, o)
          [] o.op = "WithTemplateResources" -> WithTemplateResources(cfg, o)
          [] o.op = "WithTemplateDiskSizeGB" -> WithTemplateDiskSizeGB(cfg, o)
          [] o.op = "WithTags" -> WithTags(cfg, o)
          [] o.op = "WithDiskSizeGB" -> WithDiskSizeGB(cfg, o)
          [] OTHER -> Assign(cfg, o) IN
  [next EXCEPT !.set = @ \cup DOMAIN o.gives]

Config(default) ==
  LET cfg[n \in 0..Len(opts)] == IF n = 0 THEN default ELSE Apply(cfg[n - 1], opts[n])
  IN  cfg[Len(opts)]

-----------------------------------------------------------------------------
(* The operations: whether they refuse, and the request they send.         *)

Refuse == sent' = {} /\ UNCHANGED specVars
Send(req) == sent' = {req}

Sources(cfg) == {f \in {"image", "snapshot", "template"} : cfg[f] # ""}

\* Variant: only the target's own specification is looked at.
EnvConflictWithin(cfg) == FALSE

\* the secret targets of a direct runtime against the session's environment
EnvConflict(cfg) ==
  cfg.runtime # 0 /\ \E r \in Load(specs[cfg.runtime]).runtime :
    DOMAIN r.secretEnv \cap DOMAIN cfg.env # {}

\* egressHTTPRulesToProto refuses a rule with two kinds of path,
\* tailnetAttachmentProto a provider, credential or policy it does not know
EgressOk(cfg) == "ambiguous" \notin cfg.rules
TailnetOk(cfg) == cfg.tailnet # "unusable" /\ ~(cfg.noTailnet /\ cfg.tailnet # "")

CreateOk(cfg) ==
  /\ \A f \in Resource : cfg[f] \in 1..MaxRes
  /\ Cardinality(Sources(cfg)) <= 1
  /\ FilesOk(cfg.files) /\ cfg.files # "source"
  /\ cfg.runtime # 0 => cfg.template = "" /\ DirectOk(Load(specs[cfg.runtime]))
  /\ ~EnvConflict(cfg) /\ EgressOk(cfg) /\ TailnetOk(cfg)

\* Variant: a source's own sizes win over the ones asked for.
CreateResourcesYield(cfg) ==
  [f \in Resource |-> IF Sources(cfg) = {} THEN {cfg[f]} ELSE {}]

\* a source's own sizes win over the defaults
CreateResources(cfg) ==
  [f \in Resource |-> IF Sources(cfg) = {} \/ f \in cfg.set THEN {cfg[f]} ELSE {}]

effectiveCreateWaitTimeout(cfg) ==
  IF cfg.template # "" /\ "waitTimeout" \notin cfg.set THEN SpecWaitDefault ELSE cfg.waitTimeout

\* a policy is sent when one of its parts is given
NoEgress == [domains |-> {}, cidrs |-> {}, ports |-> {}, rules |-> {}, intercept |-> FALSE]
Egress(cfg) == {[f \in DOMAIN NoEgress |-> cfg[f]]} \ {NoEgress}

CreateRequest(cfg, runtime) ==
  [source |-> {<<f, cfg[f]>> : f \in Sources(cfg)}, resources |-> CreateResources(cfg),
   env |-> cfg.env, files |-> cfg.files, runtime |-> runtime,
   egress |-> Egress(cfg),
   openCode |-> cfg.openCode, cloneRepo |-> cfg.cloneRepo,
   tailnet |-> cfg.tailnet, disableTailnet |-> cfg.noTailnet,
   waitReady |-> cfg.waitReady /\ cfg.waitForRuntime, waitForRuntime |-> cfg.waitForRuntime,
   waits |-> IF cfg.waitReady \/ cfg.waitForRuntime THEN effectiveCreateWaitTimeout(cfg) ELSE 0]

Create ==
  LET cfg == Config(defaultCreateConfig) IN
  \/ ~CreateOk(cfg) /\ Refuse
  \/ /\ CreateOk(cfg) /\ cfg.runtime = 0
     /\ Send(CreateRequest(cfg, 0))
     /\ UNCHANGED specVars
  \/ /\ CreateOk(cfg) /\ cfg.runtime # 0
     /\ LET a == CloneAt(specs[cfg.runtime]) IN
        /\ heap' = Written(Direct(Load(specs[cfg.runtime])), a)
        /\ Send(CreateRequest(cfg, a))
     /\ UNCHANGED <<specs, hist>>

LegacyFields == {"baseImage", "setupScript", "startCmd", "env", "cpu", "memory", "disk"}
Parents == {"parentTemplate", "parentImage"}

\* validateTemplateResources
TemplateResourcesOk(cfg) == \A f \in Resource : cfg.resources[f] \in 0..MaxRes

\* errTemplateSpecLegacyConflict; UpdateTemplate does not look at the parents
LegacyConflict(cfg) ==
  cfg.spec # 0 /\ (\/ cfg.set \cap LegacyFields # {}
                   \/ api = "CreateTemplate" /\ \E f \in Parents : cfg[f] # "")

TemplateOk(cfg) ==
  /\ TemplateResourcesOk(cfg)
  /\ ~LegacyConflict(cfg)
  /\ cfg.spec # 0 => Validate(Load(specs[cfg.spec]))

Sizes(cfg) == IF cfg.set \cap Resource = {} THEN {} ELSE {cfg.resources}
BuilderSpec(cfg) == IF cfg.spec = 0 THEN {} ELSE {Load(specs[cfg.spec])}

\* what an update does to the tags
Tags(cfg) ==
  [clear |-> "tags" \in cfg.set /\ cfg.tags = {},
   replace |-> IF "tags" \in cfg.set THEN cfg.tags ELSE {}]

CreateTemplateRequest(cfg) ==
  [baseImage |-> cfg.baseImage, setupScript |-> cfg.setupScript, startCmd |-> cfg.startCmd,
   env |-> cfg.env, parentTemplate |-> cfg.parentTemplate, parentImage |-> cfg.parentImage,
   tags |-> cfg.tags, resources |-> Sizes(cfg), spec |-> BuilderSpec(cfg)]

CreateTemplate ==
  LET cfg == Config(defaultTemplateConfig) IN
  /\ \/ ~TemplateOk(cfg) /\ Refuse
     \/ TemplateOk(cfg) /\ Send(CreateTemplateRequest(cfg)) /\ UNCHANGED specVars

\* A field that was not given is absent, and so is an empty environment, as an
\* empty map is on the wire.
Given(cfg, field) == IF field \in cfg.set THEN {cfg[field]} ELSE {}

UpdateTemplateRequest(cfg) ==
  [baseImage |-> Given(cfg, "baseImage"), setupScript |-> Given(cfg, "setupScript"),
   startCmd |-> Given(cfg, "startCmd"), env |-> Given(cfg, "env") \ {NoMap},
   tags |-> Tags(cfg), resources |-> Sizes(cfg), spec |-> BuilderSpec(cfg)]

UpdateTemplate ==
  LET cfg == Config(defaultTemplateConfig) IN
  /\ \/ ~TemplateOk(cfg) /\ Refuse
     \/ TemplateOk(cfg) /\ Send(UpdateTemplateRequest(cfg)) /\ UNCHANGED specVars

\* Session.Update, UpdateSnapshot and UpdateVolume: each has its own options
UpdateOk(cfg) == "maxDuration" \in cfg.set => cfg.maxDuration > 0 /\ "sticky" \in cfg.set

UpdateRequest(cfg) ==
  [name |-> Given(cfg, "name"), tags |-> Tags(cfg),
   expiresAt |-> Given(cfg, "expiresAt"), \* "": ClearExpiresAt
   sticky |-> Given(cfg, "sticky"), maxDuration |-> Given(cfg, "maxDuration")]

Update ==
  LET cfg == Config(defaultUpdateConfig) IN
  /\ \/ ~UpdateOk(cfg) /\ Refuse
     \/ UpdateOk(cfg) /\ Send(UpdateRequest(cfg)) /\ UNCHANGED specVars

-----------------------------------------------------------------------------
Init ==
  /\ specs = <<defaultTemplateSpecProto>> /\ heap = <<>> /\ hist = << <<>> >>
  /\ api = "" /\ opts = <<>> /\ sent = {} /\ done = FALSE
  /\ ListInit

Spent == Len(specs) - 1 + Cardinality({n \in DOMAIN opts : ~TakesSpec(opts[n])})

\* the program builds a spec
Build ==
  /\ ~done /\ opts = <<>> /\ Spent < MaxCalls
  /\ \E i \in DOMAIN specs : ThroughJSON(i) \/ \E c \in Calls : Call(i, c)
  /\ UNCHANGED <<requestVars, listVars>>

\* and gives an operation an option
Give ==
  /\ ~done
  /\ \E a \in DOMAIN Options : \E o \in Options[a] :
       /\ api \in {"", a}
       /\ IF TakesSpec(o)
          THEN /\ \A n \in DOMAIN opts : ~TakesSpec(opts[n])
               /\ \E i \in DOMAIN specs :
                    /\ i >= Len(specs) - 1 \* bound: older ones are sent in shorter behaviours
                    /\ opts' = Append(opts, [o EXCEPT !.gives = [f \in DOMAIN @ |-> i]])
          ELSE Spent < MaxCalls /\ opts' = Append(opts, o)
       /\ api' = a
  /\ UNCHANGED <<specVars, sent, done, listVars>>

Submit ==
  /\ ~done /\ done' = TRUE
  /\ \/ api = "Create" /\ Create
     \/ api = "CreateTemplate" /\ CreateTemplate
     \/ api = "UpdateTemplate" /\ UpdateTemplate
     \/ api \in {"UpdateSession", "UpdateSnapshot", "UpdateVolume"} /\ Update
  /\ UNCHANGED <<api, opts, listVars>>

\* or it lists resources instead
List ==
  /\ ~done /\ api = "" /\ Len(specs) = 1
  /\ \E m \in Filtering \cup Dropping, tags \in BOOLEAN : ListBegin(m, tags)
  /\ done' = TRUE
  /\ UNCHANGED <<specVars, api, opts, sent>>

Listed == ListNext /\ UNCHANGED <<specVars, requestVars>>

Next == Build \/ Give \/ Submit \/ List \/ Listed

Spec == Init /\ [][Next]_vars

-----------------------------------------------------------------------------
(* What the options ask for.                                               *)

AskedField(field) == IF Givers(opts, field) = {} THEN {} ELSE {LastGiven(opts, field, {})}
AskedSources == {f \in {"image", "snapshot", "template"} : LastGiven(opts, f, "") # ""}

AskedOpenCode ==
  LET asks == {n \in DOMAIN opts : Gives(opts[n], "openCode") \/ (Gives(opts[n], "cloneRepo") /\ opts[n].gives.cloneRepo # "")} IN
  asks # {} /\ Optional(opts[Max(asks)], "openCode", TRUE)

\* the calls of a spec ask for a runtime and its directory and nothing else,
\* but for the default image by its name
AsksOnlyRuntime(h) ==
  /\ \A f \in {"context", "resources"} : LastGiven(h, f, "") = ""
  /\ Merged(h, "build") = NoMap /\ Givers(h, "step") = {}
  /\ LastGiven(h, "base", [kind |-> "image", id |-> "sandbox"]).id = "sandbox"

AskedEntry(h) ==
  [LastGiven(h, "entry", {}) EXCEPT !.workdir = IF @ = "" THEN LastGiven(h, "workdir", "") ELSE @]

\* the sizes WithDiskSizeGB can convert
IsInt32(n) == n \in -Half..(Half - 1)

CreateAsAsked(q) ==
  /\ q.source = {<<f, LastGiven(opts, f, "")>> : f \in AskedSources} /\ Cardinality(q.source) <= 1
  /\ \A f \in Resource :
       IF Givers(opts, f) # {}
       THEN f # "disk" \/ IsInt32(LastGiven(opts, f, 0)) => q.resources[f] = {LastGiven(opts, f, 0)}
       ELSE q.resources[f] = IF AskedSources = {} THEN {DefaultRes} ELSE {}
  /\ q.env = Merged(opts, "env")
  /\ q.files = LastGiven(opts, "files", "")
  /\ q.egress = {[f \in DOMAIN NoEgress |-> LastGiven(opts, f, NoEgress[f])]} \ {NoEgress}
  /\ q.tailnet = LastGiven(opts, "tailnet", "")
  /\ q.disableTailnet = LastGiven(opts, "noTailnet", FALSE) /\ (q.disableTailnet => q.tailnet = "")
  /\ q.openCode = AskedOpenCode
  /\ q.runtime # 0 <=> AskedField("runtime") # {}
  /\ \A i \in AskedField("runtime") :
       /\ AsksOnlyRuntime(hist[i])
       /\ heap[q.runtime] = [AskedRuntime(hist[i]) EXCEPT !.entry = {AskedEntry(hist[i])}]
  /\ q.waits = IF ~LastGiven(opts, "waitReady", TRUE) /\ ~q.waitForRuntime THEN 0
               ELSE LastGiven(opts, "waitTimeout", IF "template" \in AskedSources THEN SpecWaitDefault ELSE WaitDefault)

\* A later WithTemplateResources takes the disk size back.
DiskTakenBack ==
  LET sizes == Givers(opts, "cpu") IN sizes # {} /\ \A n \in Givers(opts, "disk") : n < Max(sizes)
AskedSizes ==
  IF Givers(opts, "cpu") \cup Givers(opts, "disk") = {} THEN {}
  ELSE {[f \in Resource |-> IF f = "disk" /\ DiskTakenBack THEN 0 ELSE LastGiven(opts, f, 0)]}
AskedTags ==
  [clear |-> Givers(opts, "tags") # {} /\ LastGiven(opts, "tags", {}) \subseteq {" "},
   replace |-> LastGiven(opts, "tags", {}) \ {" "}]

TemplateAsAsked(q) ==
  /\ q.spec = {Asked(hist[i]) : i \in AskedField("spec")}
  /\ q.spec # {} => \A f \in LegacyFields : Givers(opts, f) = {}
  /\ q.resources = AskedSizes
  /\ IF api = "CreateTemplate"
     THEN /\ q.tags = AskedTags.replace
          /\ q.env = LastGiven(opts, "env", NoMap)
          /\ \A f \in {"baseImage", "setupScript", "startCmd"} \cup Parents : q[f] = LastGiven(opts, f, "")
          /\ q.spec # {} => \A f \in Parents : q[f] = ""
     ELSE /\ q.tags = AskedTags
          /\ q.env = AskedField("env") \ {NoMap}
          /\ \A f \in {"baseImage", "setupScript", "startCmd"} : q[f] = AskedField(f)

UpdateAsAsked(q) ==
  /\ q.tags = AskedTags
  /\ \A f \in {"name", "expiresAt", "sticky", "maxDuration"} : q[f] = AskedField(f)
  /\ q.maxDuration # {} => q.sticky # {}

\* A request that goes out says what the options and the calls of its spec say:
\* of every field the last value given, the defaults only where no source has
\* its own, nothing silently dropped and no spec next to the fields it
\* replaces.  The exceptions: dropped are the disk size given before
\* WithTemplateResources, an empty environment, and the parents of an
\* UpdateTemplate, with a spec too, where CreateTemplate refuses them (a legacy
\* option WithTemplateSpec "cannot be combined with", options.go:1222); and a
\* disk size that is no int32 wraps, so that one far outside the range 5-100 of
\* options.go:880 may be sent as one inside it.
RequestAsAsked ==
  \A q \in sent :
    CASE api = "Create" -> CreateAsAsked(q)
      [] api \in {"CreateTemplate", "UpdateTemplate"} -> TemplateAsAsked(q)
      [] OTHER -> UpdateAsAsked(q)

\* The calls of the spec that was sent.
SentCalls == {hist[i] : i \in IF sent = {} THEN {} ELSE AskedField("spec") \cup AskedField("runtime")}

\* What is sent can be carried out: no variable is both a secret and a plain
\* one of the runtime or the session, a memory snapshot or a start at build has
\* a readiness contract, and a stop grace that fits 32 bits is neither negative
\* nor over the limit although it is converted before it is checked.
SentIsSound ==
  \A h \in SentCalls :
    /\ DOMAIN LastGiven(h, "secretEnv", NoMap)
         \cap (DOMAIN Merged(h, "env") \cup DOMAIN Merged(opts, "env")) = {}
    /\ (LastGiven(h, "mode", "") = "memory" \/ LastGiven(h, "runAt", "") = "build") => Givers(h, "ready") # {}
    /\ LET grace == LastGiven(h, "grace", 0) IN
       grace \in -(2 * Word - 2 * MaxGrace - 2)..(2 * Word - 1) => grace > -2 /\ grace < 2 * MaxGrace + 2
================================================================================
