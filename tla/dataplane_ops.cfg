SPECIFICATION Spec
CONSTANTS
  c1 = c1
  c2 = c2
  c3 = c3
  e1 = e1
  e2 = e2
  e3 = e3
  None = None
  Unnamed = Unnamed
  Callers = {c1, c2}
  Loops = {l1, l2, l3}
  Warmers = {}
  Endpoints = {e1, e2}
  BadEndpoints = {}
  ClientIds = {1, 2, 3, 4, 5, 6}
  Role <- RoleOps
  Answers <- AnswersPlain
INVARIANTS
  TypeOK
  CredentialRouting
  HandleCoherent
  RequestHasClient
