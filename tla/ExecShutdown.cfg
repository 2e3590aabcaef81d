CONSTANTS
  Workers = {w1, w2}
  Main = main
  Ops = {o1, o2}
  Attached = {o2}
  Slow = {o2}
  Buckets = {b1, b2}
SPECIFICATION FairSpec
INVARIANTS
  TypeOK
  NobodyOutlivesTheContext
  LeavingLosesNothing
PROPERTIES
  ImplementsSenderContract
  DestructorReturns
