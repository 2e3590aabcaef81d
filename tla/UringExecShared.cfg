CONSTANTS
  Workers = {w1, w2}
  o1 = o1
  o2 = o2
  Ops = {o1}
  Attached = {}
  None = None
  Buckets = 2
  BucketOf <- MCBucketOf
  Entries = 3
  IodoneBatch = 2
  IodoneMaxnr = 2
SPECIFICATION FairSpec
PROPERTIES
  StopIsHonoured
