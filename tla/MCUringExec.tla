---------------------------- MODULE MCUringExec ----------------------------
(* Small instances of UringExec: at most two operations, whose addresses   *)
(* fall into different buckets, and threads that are interchangeable.      *)
EXTENDS UringExec, TLC

CONSTANTS o1, o2

MCBucketOf == [o \in Ops |-> IF o = o1 THEN 0 ELSE 1]

WorkerSymmetry == Permutations(Workers)
=============================================================================
