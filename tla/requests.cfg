SPECIFICATION Spec
CONSTANTS
  Calls <- MCCalls
  Options <- MCOptions
  Word = 16
  MaxGrace = 3
  MaxTimeout = 9
  ReadyDefault = 6
  MaxCalls = 3
  MaxRes = 4
  DefaultRes = 1
  WaitDefault = 3
  SpecWaitDefault = 120
  Items = {1, 2, 3, 4, 5}
  PageSize = 2
  MaxChurn = 2
INVARIANTS
  ListExact
  BuiltAsAsked
  RequestAsAsked
  SentIsSound
PROPERTIES
  SpecsPersist
CHECK_DEADLOCK FALSE
