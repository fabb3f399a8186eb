------------------------------- MODULE MCRequests -------------------------------
(* The calls and options of the model-checked instance of Requests.        *)
EXTENDS Requests

C(op, gives) == [op |-> op, gives |-> gives]
Entry(how, ok, dir) == [how |-> how, ok |-> ok, workdir |-> dir]
Timed(kind, ok, timeout) == [step |-> [kind |-> kind, ok |-> ok, timeout |-> timeout]]

MCCalls ==
  {C("From", [base |-> b]) : b \in {[kind |-> "image", id |-> "sandbox"], [kind |-> "snapshot", id |-> "short"]}}
  \cup {C("WithGitContext", [context |-> c]) : c \in {"repo", "misnamed"}}
  \cup {C("Workdir", [workdir |-> "/w"]), C("Resources", [resources |-> "fits"])}
  \cup {C("BuildEnv", [build |-> e]) : e \in {NoMap, [A |-> "1"]}}
  \cup {C("RuntimeEnv", [env |-> e]) : e \in {NoMap, [A |-> "1"], [runAt |-> "boot"]}}
  \cup {C("Step", Timed("copy", TRUE, 0)), C("Step", Timed("run", TRUE, 5))}
  \cup {C("Start", [entry |-> Entry("command", TRUE, ""), secretEnv |-> [A |-> "s"]]),
        C("Start", [entry |-> Entry("argv", TRUE, "/e"), runAt |-> "build", ready |-> [timeout |-> 0, ok |-> TRUE]]),
        C("Start", [entry |-> Entry("compose", TRUE, ""), secretEnv |-> NoMap, restart |-> "always"])}
  \cup {C("RuntimeRunAt", [runAt |-> r]) : r \in {"boot", "other"}}
  \cup {C("RestartPolicy", [restart |-> "never"]), C("SnapshotMode", [mode |-> "memory"])}
  \cup {C("ReadyWhen", [ready |-> [timeout |-> 1, ok |-> TRUE]])}
  \cup {C("StopGrace", [grace |-> g]) : g \in {-4, 5, 37}}

Shared == {C("WithTags", [tags |-> t]) : t \in {{"t"}, {" "}, {}}}

TemplateOptions ==
  {C("WithBaseImageID", [baseImage |-> "b"]), C("WithStartCmd", [startCmd |-> "c"]),
   C("WithTemplateResources", [cpu |-> 2, memory |-> 2]), C("WithTemplateDiskSizeGB", [disk |-> 3]),
   C("WithParentTemplateID", [parentTemplate |-> "p"]), C("WithTemplateSpec", [spec |-> 0])}
  \cup {C("WithEnvs", [env |-> e]) : e \in {NoMap, [A |-> "1"]}}

MCOptions ==
  [Create |->
     {C("WithImage", [image |-> i]) : i \in {"i", ""}}
     \cup {C("WithSnapshot", [snapshot |-> "s"]), C("FromTemplateSpec", [template |-> "t"])}
     \cup {C("WithCPUCores", [cpu |-> n]) : n \in {0, 2}}
     \cup {C("WithDiskSizeGB", [disk |-> n]) : n \in {3, 12, 18}}
     \cup {C("WithEnvs", [env |-> e]) : e \in {[A |-> "1"], [A |-> "2", B |-> "2"]}}
     \cup {C("WithSecretFiles", [files |-> f]) : f \in {"content", "source", "overlapping"}}
     \cup {C("WithAllowDomains", [domains |-> d]) : d \in {{"d"}, {}}}
     \cup {C("WithAllowCIDRs", [cidrs |-> {"c"}]), C("WithEgressInterceptHTTPS", [intercept |-> TRUE])}
     \cup {C("WithAllowedPorts", [ports |-> {22}])}
     \cup {C("WithEgressHTTPRules", [rules |-> r]) : r \in {{"prefix"}, {"prefix", "ambiguous"}}}
     \cup {C("WithOpenCode", [openCode |-> b]) : b \in BOOLEAN}
     \cup {C("WithCloneRepo", [cloneRepo |-> "r"]), C("WithoutTailnet", [noTailnet |-> TRUE])}
     \cup {C("WithTailnet", [tailnet |-> t]) : t \in {"n", "unusable"}}
     \cup {C("WithWaitReady", [waitReady |-> FALSE]), C("WithWaitForRuntime", [waitForRuntime |-> TRUE])}
     \cup {C("WithWaitTimeout", [waitTimeout |-> 7]), C("WithDirectRuntime", [runtime |-> 0])},
   CreateTemplate |-> Shared \cup TemplateOptions, UpdateTemplate |-> Shared \cup TemplateOptions,
   UpdateSession |-> Shared \cup {C("WithSetSticky", [sticky |-> FALSE])}
     \cup {C("WithSetMaxDuration", [maxDuration |-> d]) : d \in {0, 3}},
   UpdateSnapshot |-> Shared \cup {C("WithName", [name |-> "n"])}
     \cup {C("WithExpiresAt", [expiresAt |-> t]) : t \in {"tomorrow", ""}},
   UpdateVolume |-> Shared \cup {C("WithName", [name |-> "n"])}]
================================================================================
