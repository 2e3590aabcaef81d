CONSTANTS
  Workers = {w1, w2}
  o1 = o1
  o2 = o2
  Ops = {o1, o2}
  Attached = {}
  None = None
  Buckets = 2
  BucketOf <- MCBucketOf
  Entries = 1
  IodoneBatch = 1
  IodoneMaxnr = 1
SPECIFICATION Spec
INVARIANTS
  TypeOK
  InflightIsExact
  NoDanglingReference
  CancelsHitTheirTarget
PROPERTIES
  ImplementsSenderContract
SYMMETRY WorkerSymmetry
