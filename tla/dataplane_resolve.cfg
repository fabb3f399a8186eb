SPECIFICATION FairSpec
CONSTANTS
  c1 = c1
  c2 = c2
  c3 = c3
  e1 = e1
  e2 = e2
  e3 = e3
  None = None
  Unnamed = Unnamed
  Callers = {c1, c2}
  Loops = {l1}
  Warmers = {w}
  Endpoints = {e1, e2, e3}
  BadEndpoints = {e3}
  ClientIds = {1, 2, 3, 4, 5, 6}
  Role <- RoleResolve
  Answers <- AnswersMalformed
PROPERTIES
  ProbeReleased
  FlightWakes
