SPECIFICATION Spec
CONSTANTS
  Handles = {h1, h2, h3}
  Origins = {o1, o2}
  Transports = {t1, t2, t3, t4}
  None = None
INVARIANTS
  TypeOK
  RefsExact
PROPERTIES
  ImplementsLeases
