CONSTANTS
  Producers = {p1, p2}
  Launchers = {w1, w2}
  Stoppers = {}
  Nodes = {n1, n2, n3}
  NULL = NULL
  SENTINEL = SENTINEL
  Locality = FALSE
SPECIFICATION Spec
INVARIANTS
  TypeOK
  ExclusiveOwnership
PROPERTIES
  ImplementsSharedList
