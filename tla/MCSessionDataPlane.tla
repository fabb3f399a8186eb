------------------------- MODULE MCSessionDataPlane -------------------------
(***************************************************************************)
(* Instances of SessionDataPlane for TLC.  Each run gives the callers the  *)
(* roles whose interleaving it is about.                                   *)
(***************************************************************************)
EXTENDS SessionDataPlane

CONSTANTS c1, c2, c3, e1, e2, e3

\* One goroutine uses the session while another relocates, pauses and releases it.
RoleOps == [p \in Callers |-> IF p = c1 THEN {"unary", "dial", "run"}
                              ELSE {"event", "pause", "release"}]
\* Two goroutines tear the handle down while a third applies answers, as do the
\* renewal loops.
RoleClose == [p \in Callers |-> IF p = c1 THEN {"close", "release"}
                                ELSE IF p = c2 THEN {"close", "pause"} ELSE {"event"}]
\* Two goroutines use files, and one of them releases the handle.
RoleResolve == [p \in Callers |-> IF p = c1 THEN {"unary", "release"} ELSE {"unary"}]
\* One goroutine runs commands while another releases the handle.
RoleRunRelease == [p \in Callers |-> IF p = c1 THEN {"run"} ELSE {"release"}]

Answer(e, s, c) == [ep |-> e, status |-> s, cred |-> c]

\* A relocating engine whose credentials need no renewal.
AnswersPlain ==
  {Answer(e1, "verified", "plain"), Answer(e2, "not_ready", "plain"),
   Answer(None, "unspecified", "plain")}
\* One node whose credentials expire: every answer starts a renewal loop.
AnswersRenewing == {Answer(e1, "not_ready", "expiring")}
\* One node, and answers with nothing, a blank credential for an endpoint that
\* does not parse, and a route that failed.
AnswersMalformed ==
  {Answer(e1, "verified", "plain"), Answer(e3, "not_ready", "blank"),
   Answer(e2, "failed", "plain"), Answer(None, "not_ready", None)}
=============================================================================
