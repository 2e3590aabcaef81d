CONSTANTS
  Producers = {p1, p2}
  Launchers = {}
  Stoppers = {w1}
  Nodes = {n1, n2, n3}
  NULL = NULL
  SENTINEL = SENTINEL
  Locality = FALSE
SPECIFICATION Spec
INVARIANTS
  ExclusiveOwnership
  WithdrawnIsGone
PROPERTIES
  ImplementsSharedList
