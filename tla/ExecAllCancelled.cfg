CONSTANTS
  Workers = {w1}
  Main = main
  Ops = {o1, o2}
  Attached = {}
  Slow = {}
  Buckets = {b1, b2}
SPECIFICATION Spec
INVARIANT
  AllCancelled
