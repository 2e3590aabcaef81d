-------------------------- MODULE IoContext_proofs --------------------------
(***************************************************************************)
(* Proofs about IoContext for every set of contexts, any finite number of  *)
(* coroutines, any size of the queues and batches, with and without        *)
(* inflight_conflict: its type correctness, that a coroutine is in exactly *)
(* one place, and that _inflight is exact.                                 *)
(***************************************************************************)
EXTENDS IoContext, DataLemmas

\* The places of PlacesAt(), with a cqe at its index in the completion queue.
OpsAt(c, k, i) == i \in DOMAIN operations[k] /\ operations[k][i] = c
SwitchAt(c, k, i) == i \in DOMAIN switchSpsc[k] /\ switchSpsc[k][i] = c
SqAt(c, k, i) == i \in DOMAIN sq[k] /\ sq[k][i] = c
CqAt(c, k, i) == i \in done[k] + 1 .. Len(cq[k]) /\ cq[k][i] = c

Kinds == {"operations", "switchSpsc", "sq", "kern", "cq", "running"}

At(c, w, k, i) == \/ w = "operations" /\ OpsAt(c, k, i)
                  \/ w = "switchSpsc" /\ SwitchAt(c, k, i)
                  \/ w = "sq" /\ SqAt(c, k, i)
                  \/ w = "kern" /\ c \in kern[k] /\ i = 0
                  \/ w = "cq" /\ CqAt(c, k, i)
                  \/ w = "running" /\ running[k] = c /\ i = 0

OnlyAt(c, w, k, i) ==
  \A v \in Kinds, j \in Contexts, n \in Nat :
    At(c, v, j, n) <=> v = w /\ j = k /\ n = i
Nowhere(c) == \A v \in Kinds, j \in Contexts, n \in Nat : ~At(c, v, j, n)

\* A coroutine that was spawned is in one place, any other in none.
PlaceOK(c) ==
  IF c \in fresh THEN Nowhere(c)
  ELSE \E w \in Kinds, k \in Contexts, i \in Nat : OnlyAt(c, w, k, i)

\* The batch is there to be resumed, and the cqes that are counted were there.
PassOK(k) == some[k] <= Len(operations[k]) /\ done[k] <= Len(cq[k])

IInv == /\ TypeOK
        /\ \A c \in Coroutines : PlaceOK(c)
        /\ \A k \in Contexts : PassOK(k)
        /\ InflightIsExact

-----------------------------------------------------------------------------
(* Type correctness.                                                       *)

\* TypeOK by the variables of a line of vars, so that a step can leave alone
\* what it does not touch.
QueueTypes == /\ operations \in [Contexts -> Seq(Coroutines)]
              /\ switchSpsc \in [Contexts -> Seq(Coroutines)]
              /\ \A k \in Contexts : Len(switchSpsc[k]) <= SwitchMax
RingTypes == /\ sq \in [Contexts -> Seq(Coroutines)]
             /\ kern \in [Contexts -> SUBSET Coroutines]
             /\ cq \in [Contexts -> Seq(Coroutines)]
             /\ \A k \in Contexts : Len(sq[k]) <= Entries
LoopTypes ==
  /\ pc \in [Contexts -> {"run", "prepare", "batch", "submit", "reap", "returned"}]
  /\ some \in [Contexts -> 0 .. BatchMax]
  /\ done \in [Contexts -> Nat]
SwitchTypes == /\ storing \in [Contexts -> Coroutines \cup {None}]
               /\ ok \in [Coroutines -> BOOLEAN]
               /\ from \in [Coroutines -> Contexts \cup {None}]
               /\ told \in [Coroutines -> {"nothing", "switched", "refused"}]
OtherTypes == /\ inflight \in [Contexts -> Nat]
              /\ stop \in [Contexts -> BOOLEAN]
              /\ running \in [Contexts -> Coroutines \cup {None}]
              /\ fresh \subseteq Coroutines

(* TypeOK is those parts.                                                  *)
LEMMA TypeParts ==
  TypeOK <=> QueueTypes /\ RingTypes /\ LoopTypes /\ SwitchTypes /\ OtherTypes
BY DEF TypeOK, QueueTypes, RingTypes, LoopTypes, SwitchTypes, OtherTypes

(* A coroutine is resumed: the types of what that changes.                 *)
LEMMA ResumeTypes ==
  ASSUME TypeOK, NEW k \in Contexts, NEW c \in Coroutines, Resume(k, c)
  PROVE  running' \in [Contexts -> Coroutines \cup {None}] /\ SwitchTypes'
BY DEF TypeOK, Resume, SwitchTypes

(* Every step keeps the types: the queues have room for what is put in,    *)
(* and _inflight is not taken below zero.                                  *)
LEMMA NextType == IInv /\ Next => TypeOK'
<1> SUFFICES ASSUME IInv, Next PROVE TypeOK'
  OBVIOUS
<1> USE DEF queueVars, ringVars, loopVars, switchVars
<1>0. QueueTypes /\ RingTypes /\ LoopTypes /\ SwitchTypes /\ OtherTypes
  BY TypeParts DEF IInv
<1>q. QueueTypes' <=> /\ operations' \in [Contexts -> Seq(Coroutines)]
                      /\ switchSpsc' \in [Contexts -> Seq(Coroutines)]
                      /\ \A k \in Contexts : Len(switchSpsc'[k]) <= SwitchMax
  BY DEF QueueTypes
<1>c. Entries \in Nat /\ SwitchMax \in Nat /\ BatchMax \in Nat \ {0} /\ None \notin Coroutines
  BY ContextAssumption
<1>p. TypeOK' <=> QueueTypes' /\ RingTypes' /\ LoopTypes' /\ SwitchTypes' /\ OtherTypes'
  BY DEF TypeOK, QueueTypes, RingTypes, LoopTypes, SwitchTypes, OtherTypes
<1>k. ASSUME UNCHANGED queueVars PROVE QueueTypes'
  BY <1>0, <1>k DEF QueueTypes
<1>r. ASSUME UNCHANGED ringVars PROVE RingTypes'
  BY <1>0, <1>r DEF RingTypes
<1>l. ASSUME UNCHANGED loopVars PROVE LoopTypes'
  BY <1>0, <1>l DEF LoopTypes
<1>s. ASSUME UNCHANGED switchVars PROVE SwitchTypes'
  BY <1>0, <1>s DEF SwitchTypes
<1>o. ASSUME UNCHANGED <<inflight, stop, running, fresh>> PROVE OtherTypes'
  BY <1>0, <1>o DEF OtherTypes
<1>1. ASSUME NEW k \in Contexts, RunTest(k) \/ BatchEnd(k) PROVE TypeOK'
  <2>1. LoopTypes'
    BY <1>0, <1>1 DEF RunTest, BatchEnd, LoopTypes
  <2> QED BY <1>1, <2>1, <1>p, <1>k, <1>r, <1>s, <1>o DEF RunTest, BatchEnd
<1>2. ASSUME NEW k \in Contexts, Rerun(k) PROVE TypeOK'
  <2>1. LoopTypes' /\ OtherTypes'
    BY <1>0, <1>2 DEF Rerun, LoopTypes, OtherTypes
  <2> QED BY <1>2, <2>1, <1>p, <1>k, <1>r, <1>s DEF Rerun
<1>3. ASSUME NEW k \in Contexts, Prepare(k) PROVE TypeOK'
  <2>1. LoopTypes'
    <3>1. Pending(k) + Len(Pulled(k)) \in Nat
      BY <1>0 DEF QueueTypes, Pending, Pulled
    <3>2. TakeBatch(Pending(k) + Len(Pulled(k))) \in 0 .. BatchMax
      BY <1>c, <3>1 DEF TakeBatch
    <3> QED BY <1>0, <1>3, <3>2 DEF Prepare, LoopTypes
  <2>2. QueueTypes'
    <3>1. /\ operations' = [operations EXCEPT ![k] = @ \o Pulled(k)]
          /\ switchSpsc' = [switchSpsc EXCEPT ![k] = SubSeq(@, Len(Pulled(k)) + 1, Len(@))]
      BY <1>3 DEF Prepare
    <3>2. CASE switchSpsc[k] # << >>
      <4>1. Pulled(k) = <<Head(switchSpsc[k])>> /\ Head(switchSpsc[k]) \in Coroutines
        BY <1>0, <3>2 DEF Pulled, QueueTypes
      <4>2. /\ operations[k] \o <<Head(switchSpsc[k])>> \in Seq(Coroutines)
            /\ SubSeq(switchSpsc[k], 2, Len(switchSpsc[k])) \in Seq(Coroutines)
            /\ Len(SubSeq(switchSpsc[k], 2, Len(switchSpsc[k]))) <= Len(switchSpsc[k])
        BY <1>0, <3>2, <4>1 DEF QueueTypes
      <4> QED BY <1>0, <1>c, <3>1, <4>1, <4>2 DEF QueueTypes
    <3>3. CASE switchSpsc[k] = << >>
      <4>1. Pulled(k) = << >>
        BY <3>3 DEF Pulled
      <4>2. operations[k] \o << >> \in Seq(Coroutines) /\ SubSeq(<< >>, 1, 0) = << >>
        BY <1>0 DEF QueueTypes
      <4> QED BY <1>0, <3>1, <3>3, <4>1, <4>2 DEF QueueTypes
    <3> QED BY <3>2, <3>3
  <2> QED BY <1>3, <2>1, <2>2, <1>p, <1>r, <1>s, <1>o DEF Prepare
<1>4. ASSUME NEW k \in Contexts, ResumeFront(k) PROVE TypeOK'
  <2>1. some[k] > 0 /\ some[k] \in Nat /\ some[k] <= Len(operations[k]) /\ Len(operations[k]) \in Nat
    BY <1>0, <1>4, <1>c DEF IInv, PassOK, ResumeFront, LoopTypes, QueueTypes
  <2>2. operations[k] # << >>
    BY <2>1
  <2>3. Head(operations[k]) \in Coroutines /\ Tail(operations[k]) \in Seq(Coroutines)
    BY <1>0, <2>2 DEF QueueTypes
  <2>4. QueueTypes'
    BY <1>0, <1>4, <2>3 DEF ResumeFront, QueueTypes
  <2>5. LoopTypes'
    BY <1>0, <1>4, <2>1, <1>c DEF ResumeFront, LoopTypes
  <2>6. running' \in [Contexts -> Coroutines \cup {None}] /\ SwitchTypes'
    BY <1>4, <2>3, ResumeTypes DEF ResumeFront, IInv
  <2>7. OtherTypes'
    BY <1>0, <1>4, <2>6 DEF ResumeFront, OtherTypes
  <2> QED BY <1>4, <2>4, <2>5, <2>6, <2>7, <1>p, <1>r DEF ResumeFront
<1>5. ASSUME NEW k \in Contexts, Submit(k) PROVE TypeOK'
  <2>1. Range(sq[k]) \subseteq Coroutines /\ Len(sq[k]) \in Nat
    BY <1>0 DEF RingTypes, Range
  <2>2. RingTypes'
    BY <1>0, <1>c, <1>5, <2>1 DEF Submit, RingTypes
  <2>3. OtherTypes'
    BY <1>0, <1>5, <2>1 DEF Submit, Submitted, OtherTypes
  <2>4. LoopTypes'
    BY <1>0, <1>5 DEF Submit, LoopTypes
  <2> QED BY <1>5, <2>2, <2>3, <2>4, <1>p, <1>k, <1>s DEF Submit
<1>6. ASSUME NEW k \in Contexts, NEW c \in Coroutines, KernelCompletes(k, c) PROVE TypeOK'
  <2>1. RingTypes'
    BY <1>0, <1>6 DEF KernelCompletes, RingTypes
  <2> QED BY <1>6, <2>1, <1>p, <1>k, <1>l, <1>s, <1>o DEF KernelCompletes
<1>7. ASSUME NEW k \in Contexts, Reap(k) PROVE TypeOK'
  <2>1. cq[k][done[k] + 1] \in Coroutines
    BY <1>0, <1>7 DEF Reap, RingTypes, LoopTypes
  <2>2. running' \in [Contexts -> Coroutines \cup {None}] /\ SwitchTypes'
    BY <1>7, <2>1, ResumeTypes DEF Reap, IInv
  <2>3. OtherTypes'
    BY <1>0, <1>7, <2>2 DEF Reap, OtherTypes
  <2>4. LoopTypes'
    BY <1>0, <1>7 DEF Reap, LoopTypes
  <2> QED BY <1>7, <2>2, <2>3, <2>4, <1>p, <1>k, <1>r DEF Reap
<1>8. ASSUME NEW k \in Contexts, ReapEnd(k) PROVE TypeOK'
  <2>1. Advanced(k) \in Seq(Coroutines)
    BY <1>0 DEF Advanced, RingTypes, LoopTypes
  <2>2. RingTypes'
    BY <1>0, <1>8, <2>1 DEF ReapEnd, RingTypes
  <2>3. LoopTypes'
    BY <1>0, <1>8 DEF ReapEnd, LoopTypes
  <2>4. Workaround(inflight[k], done[k]) - done[k] \in Nat
    BY <1>0 DEF IInv, InflightIsExact, Workaround, OtherTypes, LoopTypes
  <2>5. OtherTypes'
    BY <1>0, <1>8, <2>4 DEF ReapEnd, OtherTypes
  <2> QED BY <1>8, <2>2, <2>3, <2>5, <1>p, <1>k, <1>s DEF ReapEnd
<1>9. ASSUME NEW k \in Contexts, SwitchStore(k) PROVE TypeOK'
  <2>1. SwitchTypes'
    BY <1>0, <1>9 DEF SwitchStore, SwitchTypes
  <2> QED BY <1>9, <2>1, <1>p, <1>k, <1>r, <1>l, <1>o DEF SwitchStore
<1>a. ASSUME NEW k \in Contexts, NEW c \in Coroutines, AwaitIo(k, c) PROVE TypeOK'
  <2>1. RingTypes'
    BY <1>0, <1>a, <1>c DEF AwaitIo, HasSqe, RingTypes
  <2>2. SwitchTypes' /\ OtherTypes'
    BY <1>0, <1>a DEF AwaitIo, Forget, SwitchTypes, OtherTypes
  <2> QED BY <1>a, <2>1, <2>2, <1>p, <1>k, <1>l DEF AwaitIo
<1>b. ASSUME NEW k \in Contexts, NEW c \in Coroutines, Spawn(k, c) PROVE TypeOK'
  <2>1. QueueTypes' /\ OtherTypes'
    BY <1>0, <1>b DEF Spawn, QueueTypes, OtherTypes
  <2> QED BY <1>b, <2>1, <1>p, <1>r, <1>l, <1>s DEF Spawn
<1>d. ASSUME NEW k \in Contexts, Stop(k) PROVE TypeOK'
  <2>1. OtherTypes'
    BY <1>0, <1>d DEF Stop, OtherTypes
  <2> QED BY <1>d, <2>1, <1>p, <1>k, <1>r, <1>l, <1>s DEF Stop
<1>e. ASSUME NEW k \in Contexts, NEW c \in Coroutines, Finish(k, c) PROVE TypeOK'
  <2>1. SwitchTypes' /\ OtherTypes'
    BY <1>0, <1>e DEF Finish, Forget, SwitchTypes, OtherTypes
  <2> QED BY <1>e, <2>1, <1>p, <1>k, <1>r, <1>l DEF Finish
<1>f. ASSUME NEW k \in Contexts, NEW j \in Contexts, NEW c \in Coroutines, SwitchPush(k, j, c)
      PROVE  TypeOK'
  <2>1. QueueTypes'
    BY <1>0, <1>f, <1>c DEF SwitchPush, QueueTypes
  <2>2. SwitchTypes' /\ OtherTypes'
    BY <1>0, <1>f DEF SwitchPush, SwitchTypes, OtherTypes
  <2> QED BY <1>f, <2>1, <2>2, <1>p, <1>r, <1>l DEF SwitchPush
<1>g. ASSUME NEW k \in Contexts, NEW j \in Contexts, NEW c \in Coroutines, SwitchRefused(k, j, c)
      PROVE  TypeOK'
  <2>1. SwitchTypes'
    BY <1>0, <1>g DEF SwitchRefused, SwitchTypes
  <2> QED BY <1>g, <2>1, <1>p, <1>k, <1>r, <1>l, <1>o DEF SwitchRefused
<1> QED
  BY <1>1, <1>2, <1>3, <1>4, <1>5, <1>6, <1>7, <1>8, <1>9, <1>a, <1>b, <1>d, <1>e, <1>f, <1>g
  DEF Next, RunOnce, Suspend

-----------------------------------------------------------------------------
(* The batch and the cqes of a pass.                                       *)

(* Every step keeps it: what a pass has still to resume is in the queue.   *)
LEMMA NextPass == IInv /\ Next => \A k \in Contexts : PassOK(k)'
<1> SUFFICES ASSUME IInv, Next, NEW q \in Contexts PROVE PassOK(q)'
  OBVIOUS
<1> USE DEF queueVars, ringVars, loopVars, switchVars
<1>0. /\ operations \in [Contexts -> Seq(Coroutines)] /\ switchSpsc \in [Contexts -> Seq(Coroutines)]
      /\ cq \in [Contexts -> Seq(Coroutines)]
      /\ some \in [Contexts -> 0 .. BatchMax] /\ done \in [Contexts -> Nat]
  BY DEF IInv, TypeOK
<1>a. /\ some[q] \in Nat /\ done[q] \in Nat
      /\ some[q] <= Len(operations[q]) /\ done[q] <= Len(cq[q])
  BY <1>0, ContextAssumption DEF IInv, PassOK
<1>1. ASSUME UNCHANGED <<operations, some, done, cq>> PROVE PassOK(q)'
  BY <1>1, <1>a DEF PassOK
<1>2. ASSUME NEW k \in Contexts, Prepare(k) PROVE PassOK(q)'
  <2>1. Len(operations[k] \o Pulled(k)) = Len(operations[k]) + Len(Pulled(k))
    BY <1>0 DEF Pulled
  <2>2. Len(operations[k]) + Len(Pulled(k)) \in Nat
    BY <1>0 DEF Pulled
  <2>3. TakeBatch(Pending(k) + Len(Pulled(k))) <= Len(operations[k] \o Pulled(k))
    BY <2>1, <2>2, ContextAssumption DEF TakeBatch, Pending
  <2>4. /\ operations' = [operations EXCEPT ![k] = @ \o Pulled(k)]
        /\ some' = [some EXCEPT ![k] = TakeBatch(Pending(k) + Len(Pulled(k)))]
        /\ UNCHANGED <<done, cq>>
    BY <1>2 DEF Prepare
  <2> QED BY <1>0, <1>a, <2>3, <2>4 DEF PassOK
<1>3. ASSUME NEW k \in Contexts, ResumeFront(k) PROVE PassOK(q)'
  <2>1. /\ operations' = [operations EXCEPT ![k] = Tail(@)]
        /\ some' = [some EXCEPT ![k] = @ - 1]
        /\ UNCHANGED <<done, cq>> /\ some[k] > 0
    BY <1>3 DEF ResumeFront
  <2>2. CASE q = k
    <3>1. operations[q] # << >>
      BY <1>a, <2>1, <2>2
    <3>2. Len(Tail(operations[q])) = Len(operations[q]) - 1
      BY <1>0, <3>1
    <3> QED BY <1>0, <1>a, <2>1, <2>2, <3>2 DEF PassOK
  <2>3. CASE q # k
    BY <1>0, <1>a, <2>1, <2>3 DEF PassOK
  <2> QED BY <2>2, <2>3
<1>4. ASSUME NEW k \in Contexts, NEW c \in Coroutines, KernelCompletes(k, c) PROVE PassOK(q)'
  BY <1>0, <1>a, <1>4 DEF KernelCompletes, PassOK
<1>5. ASSUME NEW k \in Contexts, Reap(k) PROVE PassOK(q)'
  BY <1>0, <1>a, <1>5 DEF Reap, PassOK
<1>6. ASSUME NEW k \in Contexts, ReapEnd(k) PROVE PassOK(q)'
  <2>1. done[k] <= Len(cq[k]) /\ done[k] \in Nat
    BY <1>0 DEF IInv, PassOK
  <2>2. Advanced(k) \in Seq(Coroutines)
    BY <1>0, <2>1 DEF Advanced
  <2> QED BY <1>0, <1>a, <1>6, <2>2 DEF ReapEnd, PassOK
<1>7. ASSUME NEW k \in Contexts, NEW c \in Coroutines, Spawn(k, c) PROVE PassOK(q)'
  BY <1>0, <1>a, <1>7 DEF Spawn, PassOK
<1>8. ASSUME NEW k \in Contexts,
             RunTest(k) \/ Rerun(k) \/ BatchEnd(k) \/ Submit(k) \/ SwitchStore(k) \/ Stop(k)
      PROVE  PassOK(q)'
  BY <1>1, <1>8 DEF RunTest, Rerun, BatchEnd, Submit, SwitchStore, Stop
<1>9. ASSUME NEW k \in Contexts, NEW c \in Coroutines,
             \/ AwaitIo(k, c) \/ Finish(k, c)
             \/ \E j \in Contexts : SwitchPush(k, j, c) \/ SwitchRefused(k, j, c)
      PROVE  PassOK(q)'
  BY <1>1, <1>9 DEF AwaitIo, Finish, SwitchPush, SwitchRefused
<1> QED
  BY <1>2, <1>3, <1>4, <1>5, <1>6, <1>7, <1>8, <1>9 DEF Next, RunOnce, Suspend

-----------------------------------------------------------------------------
(* A coroutine goes from queue to thread to ring and back, and is never in *)
(* two of them.                                                            *)

(* A step that leaves coroutine c where it is keeps its one place.         *)
LEMMA StaysPut ==
  ASSUME NEW c \in Coroutines, PlaceOK(c), c \in fresh' <=> c \in fresh,
         \A w \in Kinds, k \in Contexts, i \in Nat : At(c, w, k, i)' <=> At(c, w, k, i)
  PROVE  PlaceOK(c)'
<1>1. Nowhere(c) => Nowhere(c)'
  BY DEF Nowhere
<1>2. \A w \in Kinds, k \in Contexts, i \in Nat : OnlyAt(c, w, k, i) => OnlyAt(c, w, k, i)'
  BY DEF OnlyAt
<1> QED BY <1>1, <1>2 DEF PlaceOK

(* So does one that takes d other entries out in front of it.              *)
LEMMA MovesUp ==
  ASSUME NEW c \in Coroutines, PlaceOK(c), c \in fresh' <=> c \in fresh,
         NEW w \in Kinds, NEW k \in Contexts, NEW d \in Nat,
         \A v \in Kinds, j \in Contexts, n \in Nat : v # w \/ j # k =>
           (At(c, v, j, n)' <=> At(c, v, j, n)),
         \A n \in Nat : At(c, w, k, n)' <=> n > 0 /\ At(c, w, k, n + d),
         \A n \in Nat : At(c, w, k, n) => n > d
  PROVE  PlaceOK(c)'
<1>1. Nowhere(c) => Nowhere(c)'
  <2> SUFFICES ASSUME Nowhere(c), NEW v \in Kinds, NEW j \in Contexts, NEW n \in Nat
               PROVE  ~At(c, v, j, n)'
    BY DEF Nowhere
  <2>1. n + d \in Nat
    OBVIOUS
  <2> QED BY <2>1 DEF Nowhere
<1>2. ASSUME NEW u \in Kinds, NEW h \in Contexts, NEW i \in Nat, OnlyAt(c, u, h, i)
      PROVE  \E n \in Nat : OnlyAt(c, u, h, n)'
  <2>1. CASE u = w /\ h = k
    <3>1. i > d
      BY <1>2, <2>1 DEF OnlyAt
    <3>2. PICK m \in Nat : m = i - d /\ m > 0
      BY <3>1
    <3>3. ASSUME NEW n \in Nat PROVE At(c, w, k, n)' <=> n = m
      <4>1. n + d \in Nat /\ (n + d = i <=> n = m)
        BY <3>1, <3>2
      <4>2. At(c, w, k, n + d) <=> n + d = i
        BY <1>2, <2>1, <4>1 DEF OnlyAt
      <4> QED BY <3>2, <4>1, <4>2
    <3>4. OnlyAt(c, u, h, m)'
      BY <1>2, <2>1, <3>3 DEF OnlyAt
    <3> QED BY <3>4
  <2>2. CASE ~(u = w /\ h = k)
    <3>1. ASSUME NEW n \in Nat PROVE ~At(c, w, k, n)'
      <4>1. n + d \in Nat
        OBVIOUS
      <4> QED BY <1>2, <2>2, <4>1 DEF OnlyAt
    <3>2. OnlyAt(c, u, h, i)'
      BY <1>2, <2>2, <3>1 DEF OnlyAt
    <3> QED BY <3>2
  <2> QED BY <2>1, <2>2
<1> QED BY <1>1, <1>2 DEF PlaceOK
(* A coroutine that is somewhere was spawned.                              *)
LEMMA SomewhereIsSpawned ==
  ASSUME NEW c \in Coroutines, PlaceOK(c),
         NEW w \in Kinds, NEW k \in Contexts, NEW i \in Nat, At(c, w, k, i)
  PROVE  c \notin fresh /\ OnlyAt(c, w, k, i)
BY DEF PlaceOK, OnlyAt, Nowhere

(* Every step keeps each coroutine in one place.                           *)
LEMMA NextPlace == IInv /\ Next => \A c \in Coroutines : PlaceOK(c)'
<1> SUFFICES ASSUME IInv, Next, NEW c \in Coroutines PROVE PlaceOK(c)'
  OBVIOUS
<1> USE DEF queueVars, ringVars, loopVars, switchVars
<1>0. /\ operations \in [Contexts -> Seq(Coroutines)] /\ switchSpsc \in [Contexts -> Seq(Coroutines)]
      /\ sq \in [Contexts -> Seq(Coroutines)] /\ kern \in [Contexts -> SUBSET Coroutines]
      /\ cq \in [Contexts -> Seq(Coroutines)]
      /\ running \in [Contexts -> Coroutines \cup {None}]
      /\ some \in [Contexts -> 0 .. BatchMax] /\ done \in [Contexts -> Nat]
      /\ fresh \subseteq Coroutines
  BY DEF IInv, TypeOK
<1>a. PlaceOK(c) /\ None \notin Coroutines
  BY ContextAssumption DEF IInv
<1>b. \A k \in Contexts : /\ some[k] \in Nat /\ done[k] \in Nat
                          /\ some[k] <= Len(operations[k]) /\ done[k] <= Len(cq[k])
                          /\ Len(operations[k]) \in Nat /\ Len(cq[k]) \in Nat
  BY <1>0, ContextAssumption DEF IInv, PassOK
\* What stays the same while a variable does.
<1>c. /\ UNCHANGED operations => \A k, i : OpsAt(c, k, i)' <=> OpsAt(c, k, i)
      /\ UNCHANGED switchSpsc => \A k, i : SwitchAt(c, k, i)' <=> SwitchAt(c, k, i)
      /\ UNCHANGED sq => \A k, i : SqAt(c, k, i)' <=> SqAt(c, k, i)
      /\ UNCHANGED <<cq, done>> => \A k, i : CqAt(c, k, i)' <=> CqAt(c, k, i)
  BY DEF OpsAt, SwitchAt, SqAt, CqAt
<1>1. ASSUME UNCHANGED <<queueVars, ringVars, done, running, fresh>> PROVE PlaceOK(c)'
  BY <1>1, <1>a, <1>c, StaysPut DEF At
<1>2. ASSUME NEW k \in Contexts, Prepare(k) PROVE PlaceOK(c)'
  <2>1. /\ operations' = [operations EXCEPT ![k] = @ \o Pulled(k)]
        /\ switchSpsc' = [switchSpsc EXCEPT ![k] = SubSeq(@, Len(Pulled(k)) + 1, Len(@))]
        /\ UNCHANGED <<ringVars, done, running, fresh>>
    BY <1>2 DEF Prepare
  <2>2. CASE switchSpsc[k] = << >>
    <3>1. Pulled(k) = << >>
      BY <2>2 DEF Pulled
    <3>2. operations[k] \o << >> = operations[k] /\ SubSeq(<< >>, 1, 0) = << >>
      BY <1>0
    <3>3. UNCHANGED queueVars
      BY <1>0, <2>1, <2>2, <3>1, <3>2
    <3> QED BY <1>1, <2>1, <3>3
  <2>3. CASE switchSpsc[k] # << >>
    <3> DEFINE d == Head(switchSpsc[k])
               m == Len(operations[k]) + 1
    <3>1. Pulled(k) = <<d>> /\ d \in Coroutines /\ Len(switchSpsc[k]) > 0
      BY <1>0, <2>3 DEF Pulled
    <3>2. \A j \in Contexts, i \in Nat :
            OpsAt(c, j, i)' <=> OpsAt(c, j, i) \/ (j = k /\ i = m /\ c = d)
      <4>1. /\ operations[k] \in Seq(Coroutines)
            /\ operations'[k] = Append(operations[k], d)
            /\ \A j \in Contexts : j # k => operations'[j] = operations[j]
        BY <1>0, <2>1, <3>1
      <4>2. ASSUME NEW i \in Nat
            PROVE  OpsAt(c, k, i)' <=> OpsAt(c, k, i) \/ (i = m /\ c = d)
        <5>1. i \in DOMAIN Append(operations[k], d) /\ Append(operations[k], d)[i] = c
                <=> OpsAt(c, k, i) \/ (i = m /\ c = d)
          BY <3>1, <4>1, PlacesOfAppend DEF OpsAt
        <5> QED BY <4>1, <5>1, Zenon DEF OpsAt
      <4>3. \A j \in Contexts, i \in Nat : j # k => (OpsAt(c, j, i)' <=> OpsAt(c, j, i))
        BY <4>1, Zenon DEF OpsAt
      <4> QED BY <4>2, <4>3
    <3>3. \A j \in Contexts, i \in Nat :
            SwitchAt(c, j, i)' <=> IF j = k THEN i > 0 /\ SwitchAt(c, k, i + 1) ELSE SwitchAt(c, j, i)
      BY <1>0, <2>1, <3>1 DEF SwitchAt
    <3>4. CASE c = d
      <4>1. At(c, "switchSpsc", k, 1)
        BY <1>0, <3>1, <3>4 DEF At, SwitchAt
      <4>2. c \notin fresh /\ OnlyAt(c, "switchSpsc", k, 1)
        BY <1>a, <4>1, SomewhereIsSpawned DEF Kinds
      <4>3. PICK n \in Nat : n = m
        BY <1>b
      <4>a. /\ \A j \in Contexts, i \in Nat : ~OpsAt(c, j, i)
            /\ \A j \in Contexts, i \in Nat : SwitchAt(c, j, i) => j = k /\ i = 1
            /\ \A v \in Kinds \ {"operations", "switchSpsc"}, j \in Contexts, i \in Nat :
                 ~At(c, v, j, i)
        BY <4>2 DEF OnlyAt, At, Kinds
      <4>b. \A j \in Contexts, i \in Nat : OpsAt(c, j, i)' <=> j = k /\ i = n
        BY <3>2, <3>4, <4>a, <4>3
      <4>c. \A j \in Contexts, i \in Nat : ~SwitchAt(c, j, i)'
        BY <3>3, <4>a
      <4>d. \A v \in Kinds \ {"operations", "switchSpsc"}, j \in Contexts, i \in Nat :
              ~At(c, v, j, i)'
        BY <1>c, <2>1, <4>a DEF At
      <4> HIDE DEF m, d
      <4>4. OnlyAt(c, "operations", k, n)'
        BY <4>b, <4>c, <4>d DEF OnlyAt, At, Kinds
      <4> QED BY <2>1, <4>2, <4>4 DEF PlaceOK, Kinds
    <3>5. CASE c # d
      <4>1. \A n \in Nat : SwitchAt(c, k, n) => n > 1
        BY <1>0, <3>1, <3>5 DEF SwitchAt
      <4>2. \A v \in Kinds, j \in Contexts, n \in Nat : v # "switchSpsc" \/ j # k =>
              (At(c, v, j, n)' <=> At(c, v, j, n))
        BY <1>c, <2>1, <3>2, <3>3, <3>5 DEF At
      <4>3. \A n \in Nat : At(c, "switchSpsc", k, n)' <=> n > 0 /\ At(c, "switchSpsc", k, n + 1)
        BY <3>3 DEF At
      <4>4. \A n \in Nat : At(c, "switchSpsc", k, n) => n > 1
        BY <4>1 DEF At
      <4> QED BY <1>a, <2>1, <4>2, <4>3, <4>4, MovesUp DEF Kinds
    <3> QED BY <3>4, <3>5
  <2> QED BY <2>2, <2>3
<1>3. ASSUME NEW k \in Contexts, ResumeFront(k) PROVE PlaceOK(c)'
  <2> DEFINE d == Head(operations[k])
  <2>1. /\ operations' = [operations EXCEPT ![k] = Tail(@)]
        /\ running' = [running EXCEPT ![k] = d]
        /\ UNCHANGED <<switchSpsc, ringVars, done, fresh>>
        /\ running[k] = None /\ some[k] > 0
    BY <1>3 DEF ResumeFront, Resume, InLoop
  <2>2. operations[k] # << >> /\ d \in Coroutines
    BY <1>0, <1>b, <2>1
  <2>3. \A j \in Contexts, i \in Nat :
          OpsAt(c, j, i)' <=> IF j = k THEN i > 0 /\ OpsAt(c, k, i + 1) ELSE OpsAt(c, j, i)
    BY <1>0, <2>1, <2>2 DEF OpsAt
  <2>4. \A j \in Contexts : (running[j] = c)' <=> running[j] = c \/ (j = k /\ c = d)
    BY <1>0, <1>a, <2>1, <2>2
  <2>5. CASE c = d
    <3>1. At(c, "operations", k, 1)
      BY <1>0, <2>2, <2>5 DEF At, OpsAt
    <3>2. c \notin fresh /\ OnlyAt(c, "operations", k, 1)
      BY <1>a, <3>1, SomewhereIsSpawned DEF Kinds
    <3>3. OnlyAt(c, "running", k, 0)'
      BY <1>c, <2>1, <2>3, <2>4, <2>5, <3>2 DEF OnlyAt, At, Kinds
    <3> QED BY <2>1, <3>2, <3>3 DEF PlaceOK, Kinds
  <2>6. CASE c # d
    <3>1. \A n \in Nat : OpsAt(c, k, n) => n > 1
      BY <1>0, <2>2, <2>6 DEF OpsAt
    <3>2. \A v \in Kinds, j \in Contexts, n \in Nat : v # "operations" \/ j # k =>
            (At(c, v, j, n)' <=> At(c, v, j, n))
      BY <1>c, <2>1, <2>3, <2>4, <2>6 DEF At
    <3>3. \A n \in Nat : At(c, "operations", k, n)' <=> n > 0 /\ At(c, "operations", k, n + 1)
      BY <2>3 DEF At
    <3>4. \A n \in Nat : At(c, "operations", k, n) => n > 1
      BY <3>1 DEF At
    <3> QED BY <1>a, <2>1, <3>2, <3>3, <3>4, MovesUp DEF Kinds
  <2> QED BY <2>5, <2>6
<1>4. ASSUME NEW k \in Contexts, Submit(k) PROVE PlaceOK(c)'
  <2>1. /\ kern' = [kern EXCEPT ![k] = @ \cup Range(sq[k])]
        /\ sq' = [sq EXCEPT ![k] = << >>]
        /\ UNCHANGED <<queueVars, cq, done, running, fresh>>
    BY <1>4 DEF Submit
  <2>2. c \in Range(sq[k]) <=> \E i \in Nat : SqAt(c, k, i)
    BY <1>0 DEF Range, SqAt
  <2>3. \A j \in Contexts, i \in Nat : SqAt(c, j, i)' <=> j # k /\ SqAt(c, j, i)
    BY <1>0, <2>1 DEF SqAt
  <2>4. \A j \in Contexts :
          (c \in kern[j])' <=> c \in kern[j] \/ (j = k /\ c \in Range(sq[k]))
    BY <1>0, <2>1
  <2>5. CASE c \in Range(sq[k])
    <3>1. PICK i \in Nat : SqAt(c, k, i)
      BY <2>2, <2>5
    <3>2. c \notin fresh /\ OnlyAt(c, "sq", k, i)
      BY <1>a, <3>1, SomewhereIsSpawned DEF Kinds, At
    <3>3. OnlyAt(c, "kern", k, 0)'
      BY <1>c, <2>1, <2>3, <2>4, <2>5, <3>2 DEF OnlyAt, At, Kinds
    <3> QED BY <2>1, <3>2, <3>3 DEF PlaceOK, Kinds
  <2>6. CASE c \notin Range(sq[k])
    BY <1>a, <1>c, <2>1, <2>2, <2>3, <2>4, <2>6, StaysPut DEF At
  <2> QED BY <2>5, <2>6
<1>5. ASSUME NEW k \in Contexts, NEW d \in Coroutines, KernelCompletes(k, d) PROVE PlaceOK(c)'
  <2>1. /\ d \in kern[k]
        /\ kern' = [kern EXCEPT ![k] = @ \ {d}]
        /\ cq' = [cq EXCEPT ![k] = Append(@, d)]
        /\ UNCHANGED <<queueVars, sq, done, running, fresh>>
    BY <1>5 DEF KernelCompletes
  <2>2. \A j \in Contexts, i \in Nat :
          CqAt(c, j, i)' <=> CqAt(c, j, i) \/ (j = k /\ i = Len(cq[k]) + 1 /\ c = d)
    BY <1>0, <1>b, <2>1 DEF CqAt
  <2>3. \A j \in Contexts : (c \in kern[j])' <=> c \in kern[j] /\ ~(j = k /\ c = d)
    BY <1>0, <2>1
  <2>4. CASE c = d
    <3>1. c \notin fresh /\ OnlyAt(c, "kern", k, 0)
      BY <1>a, <2>1, <2>4, SomewhereIsSpawned DEF Kinds, At
    <3>2. PICK n \in Nat : n = Len(cq[k]) + 1
      BY <1>b
    <3>3. OnlyAt(c, "cq", k, n)'
      BY <1>c, <2>1, <2>2, <2>3, <2>4, <3>1, <3>2 DEF OnlyAt, At, Kinds
    <3> QED BY <2>1, <3>1, <3>3 DEF PlaceOK, Kinds
  <2>5. CASE c # d
    BY <1>a, <1>c, <2>1, <2>2, <2>3, <2>5, StaysPut DEF At
  <2> QED BY <2>4, <2>5
<1>6. ASSUME NEW k \in Contexts, Reap(k) PROVE PlaceOK(c)'
  <2> DEFINE m == done[k] + 1
             d == cq[k][m]
  <2>1. /\ done' = [done EXCEPT ![k] = @ + 1]
        /\ running' = [running EXCEPT ![k] = d]
        /\ UNCHANGED <<queueVars, ringVars, fresh>>
        /\ running[k] = None /\ done[k] < Len(cq[k])
    BY <1>6 DEF Reap, Resume, InLoop
  <2>2. d \in Coroutines /\ m \in 1 .. Len(cq[k])
    BY <1>0, <1>b, <2>1
  <2>3. \A j \in Contexts, i \in Nat : CqAt(c, j, i)' <=> CqAt(c, j, i) /\ ~(j = k /\ i = m)
    BY <1>0, <1>b, <2>1 DEF CqAt
  <2>4. \A j \in Contexts : (running[j] = c)' <=> running[j] = c \/ (j = k /\ c = d)
    BY <1>0, <1>a, <2>1, <2>2
  <2>5. CqAt(c, k, m) <=> c = d
    BY <1>b, <2>2 DEF CqAt
  <2>6. CASE c = d
    <3>1. c \notin fresh /\ OnlyAt(c, "cq", k, m)
      BY <1>a, <2>2, <2>5, <2>6, SomewhereIsSpawned DEF Kinds, At
    <3>2. OnlyAt(c, "running", k, 0)'
      BY <1>c, <2>1, <2>3, <2>4, <2>6, <3>1 DEF OnlyAt, At, Kinds
    <3> QED BY <2>1, <3>1, <3>2 DEF PlaceOK, Kinds
  <2>7. CASE c # d
    BY <1>a, <1>c, <2>1, <2>3, <2>4, <2>5, <2>7, StaysPut DEF At
  <2> QED BY <2>6, <2>7
<1>7. ASSUME NEW k \in Contexts, ReapEnd(k) PROVE PlaceOK(c)'
  <2>1. /\ cq' = [cq EXCEPT ![k] = SubSeq(@, done[k] + 1, Len(@))]
        /\ done' = [done EXCEPT ![k] = 0]
        /\ UNCHANGED <<queueVars, sq, kern, running, fresh>>
    BY <1>7 DEF ReapEnd, Advanced
  <2>2. /\ Len(SubSeq(cq[k], done[k] + 1, Len(cq[k]))) = Len(cq[k]) - done[k]
        /\ \A i \in 1 .. Len(cq[k]) - done[k] :
             SubSeq(cq[k], done[k] + 1, Len(cq[k]))[i] = cq[k][i + done[k]]
    BY <1>0, <1>b
  <2>3. \A i \in Nat : CqAt(c, k, i)' <=> i > 0 /\ CqAt(c, k, i + done[k])
    <3>1. done'[k] = 0 /\ cq'[k] = SubSeq(cq[k], done[k] + 1, Len(cq[k]))
      BY <1>0, <2>1
    <3>2. /\ DOMAIN cq[k] = 1 .. Len(cq[k]) /\ Len(cq'[k]) = Len(cq[k]) - done[k]
          /\ \A i \in 1 .. Len(cq[k]) - done[k] : cq'[k][i] = cq[k][i + done[k]]
      BY <1>0, <2>2, <3>1
    <3>3. \A i \in Nat : i \in 0 + 1 .. Len(cq[k]) - done[k] <=>
                            i > 0 /\ i + done[k] \in done[k] + 1 .. Len(cq[k])
      BY <1>b
    <3>4. \A i \in Nat : CqAt(c, k, i)' <=> i \in 0 + 1 .. Len(cq[k]) - done[k] /\ cq'[k][i] = c
      BY <3>1, <3>2 DEF CqAt
    <3>5. \A i \in Nat : i \in 0 + 1 .. Len(cq[k]) - done[k] => cq'[k][i] = cq[k][i + done[k]]
      BY <3>2
    <3> QED BY <3>3, <3>4, <3>5 DEF CqAt
  <2>4. \A j \in Contexts, i \in Nat : j # k => (CqAt(c, j, i)' <=> CqAt(c, j, i))
    BY <1>0, <2>1 DEF CqAt
  <2>5. \A i \in Nat : CqAt(c, k, i) => i > done[k]
    BY <1>b DEF CqAt
  <2>6. \A v \in Kinds, j \in Contexts, n \in Nat : v # "cq" \/ j # k =>
          (At(c, v, j, n)' <=> At(c, v, j, n))
    BY <1>c, <2>1, <2>4 DEF At
  <2>7. PICK d \in Nat : d = done[k]
    BY <1>b
  <2>8. \A n \in Nat : At(c, "cq", k, n)' <=> n > 0 /\ At(c, "cq", k, n + d)
    BY <2>3, <2>7 DEF At
  <2>9. \A n \in Nat : At(c, "cq", k, n) => n > d
    BY <2>5, <2>7 DEF At
  <2> QED BY <1>a, <2>1, <2>6, <2>8, <2>9, MovesUp DEF Kinds
<1>8. ASSUME NEW k \in Contexts, NEW d \in Coroutines, AwaitIo(k, d) PROVE PlaceOK(c)'
  <2>1. /\ sq' = [sq EXCEPT ![k] = Append(@, d)]
        /\ running' = [running EXCEPT ![k] = None]
        /\ running[k] = d
        /\ UNCHANGED <<queueVars, kern, cq, done, fresh>>
    BY <1>8 DEF AwaitIo
  <2>2. \A j \in Contexts, i \in Nat :
          SqAt(c, j, i)' <=> SqAt(c, j, i) \/ (j = k /\ i = Len(sq[k]) + 1 /\ c = d)
    BY <1>0, <2>1 DEF SqAt
  <2>3. \A j \in Contexts : (running[j] = c)' <=> running[j] = c /\ j # k
    BY <1>0, <1>a, <2>1
  <2>4. CASE c = d
    <3>1. c \notin fresh /\ OnlyAt(c, "running", k, 0)
      BY <1>a, <2>1, <2>4, SomewhereIsSpawned DEF Kinds, At
    <3>2. PICK n \in Nat : n = Len(sq[k]) + 1
      BY <1>0
    <3>3. OnlyAt(c, "sq", k, n)'
      BY <1>c, <2>1, <2>2, <2>3, <2>4, <3>1, <3>2 DEF OnlyAt, At, Kinds
    <3> QED BY <2>1, <3>1, <3>3 DEF PlaceOK, Kinds
  <2>5. CASE c # d
    BY <1>a, <1>c, <2>1, <2>2, <2>3, <2>5, StaysPut DEF At
  <2> QED BY <2>4, <2>5
<1>9. ASSUME NEW k \in Contexts, NEW d \in Coroutines, Spawn(k, d) PROVE PlaceOK(c)'
  <2>1. /\ operations' = [operations EXCEPT ![k] = Append(@, d)]
        /\ fresh' = fresh \ {d} /\ d \in fresh
        /\ UNCHANGED <<switchSpsc, ringVars, done, running>>
    BY <1>9 DEF Spawn
  <2>2. \A j \in Contexts, i \in Nat :
          OpsAt(c, j, i)' <=> OpsAt(c, j, i) \/ (j = k /\ i = Len(operations[k]) + 1 /\ c = d)
    BY <1>0, <2>1 DEF OpsAt
  <2>3. CASE c = d
    <3>1. Nowhere(c)
      BY <1>a, <2>1, <2>3 DEF PlaceOK
    <3>2. PICK n \in Nat : n = Len(operations[k]) + 1
      BY <1>0
    <3>3. OnlyAt(c, "operations", k, n)'
      BY <1>c, <2>1, <2>2, <2>3, <3>1, <3>2 DEF OnlyAt, Nowhere, At, Kinds
    <3> QED BY <2>1, <2>3, <3>3 DEF PlaceOK, Kinds
  <2>4. CASE c # d
    BY <1>a, <1>c, <2>1, <2>2, <2>4, StaysPut DEF At
  <2> QED BY <2>3, <2>4
<1>d. ASSUME NEW k \in Contexts, NEW d \in Coroutines, Finish(k, d) PROVE PlaceOK(c)'
  <2>1. /\ running' = [running EXCEPT ![k] = None]
        /\ fresh' = fresh \cup {d} /\ running[k] = d
        /\ UNCHANGED <<queueVars, ringVars, done>>
    BY <1>d DEF Finish
  <2>2. \A j \in Contexts : (running[j] = c)' <=> running[j] = c /\ j # k
    BY <1>0, <1>a, <2>1
  <2>3. CASE c = d
    <3>1. c \notin fresh /\ OnlyAt(c, "running", k, 0)
      BY <1>a, <2>1, <2>3, SomewhereIsSpawned DEF Kinds, At
    <3>2. Nowhere(c)'
      BY <1>c, <2>1, <2>2, <3>1 DEF OnlyAt, Nowhere, At, Kinds
    <3> QED BY <2>1, <2>3, <3>2 DEF PlaceOK
  <2>4. CASE c # d
    BY <1>a, <1>c, <2>1, <2>2, <2>4, StaysPut DEF At
  <2> QED BY <2>3, <2>4
<1>e. ASSUME NEW k \in Contexts, NEW h \in Contexts, NEW d \in Coroutines, SwitchPush(k, h, d)
      PROVE  PlaceOK(c)'
  <2>1. /\ switchSpsc' = [switchSpsc EXCEPT ![h] = Append(@, d)]
        /\ running' = [running EXCEPT ![k] = None]
        /\ running[k] = d
        /\ UNCHANGED <<operations, ringVars, done, fresh>>
    BY <1>e DEF SwitchPush
  <2>2. \A j \in Contexts, i \in Nat :
          SwitchAt(c, j, i)' <=> SwitchAt(c, j, i) \/ (j = h /\ i = Len(switchSpsc[h]) + 1 /\ c = d)
    <3>1. \A j \in Contexts : switchSpsc'[j] = IF j = h THEN Append(switchSpsc[h], d) ELSE switchSpsc[j]
      BY <1>0, <2>1
    <3>2. switchSpsc[h] \in Seq(Coroutines) /\ switchSpsc'[h] = Append(switchSpsc[h], d)
      BY <1>0, <3>1
    <3>3. ASSUME NEW i \in Nat
          PROVE  SwitchAt(c, h, i)' <=> SwitchAt(c, h, i) \/ (i = Len(switchSpsc[h]) + 1 /\ c = d)
      <4>1. /\ switchSpsc'[h] = Append(switchSpsc[h], d)
            /\ i \in DOMAIN Append(switchSpsc[h], d) /\ Append(switchSpsc[h], d)[i] = c
                 <=> SwitchAt(c, h, i) \/ (i = Len(switchSpsc[h]) + 1 /\ c = d)
        BY <3>2, PlacesOfAppend DEF SwitchAt
      <4> QED BY <4>1, Zenon DEF SwitchAt
    <3>4. ASSUME NEW j \in Contexts, NEW i \in Nat, j # h
          PROVE  SwitchAt(c, j, i)' <=> SwitchAt(c, j, i)
      BY <3>1, <3>4 DEF SwitchAt
    <3> QED BY <3>3, <3>4
  <2>3. \A j \in Contexts : (running[j] = c)' <=> running[j] = c /\ j # k
    BY <1>0, <1>a, <2>1
  <2>4. CASE c = d
    <3>1. c \notin fresh /\ OnlyAt(c, "running", k, 0)
      BY <1>a, <2>1, <2>4, SomewhereIsSpawned DEF Kinds, At
    <3>2. PICK n \in Nat : n = Len(switchSpsc[h]) + 1
      BY <1>0
    <3>3. OnlyAt(c, "switchSpsc", h, n)'
      BY <1>c, <2>1, <2>2, <2>3, <2>4, <3>1, <3>2 DEF OnlyAt, At, Kinds
    <3> QED BY <2>1, <3>1, <3>3 DEF PlaceOK, Kinds
  <2>5. CASE c # d
    BY <1>a, <1>c, <2>1, <2>2, <2>3, <2>5, StaysPut DEF At
  <2> QED BY <2>4, <2>5
<1>f. ASSUME NEW k \in Contexts,
             \/ RunTest(k) \/ Rerun(k) \/ BatchEnd(k) \/ SwitchStore(k) \/ Stop(k)
             \/ \E j \in Contexts, d \in Coroutines : SwitchRefused(k, j, d)
      PROVE  PlaceOK(c)'
  BY <1>1, <1>f DEF RunTest, Rerun, BatchEnd, SwitchStore, Stop, SwitchRefused
<1> QED
  BY <1>2, <1>3, <1>4, <1>5, <1>6, <1>7, <1>8, <1>9, <1>d, <1>e, <1>f
  DEF Next, RunOnce, Suspend
-----------------------------------------------------------------------------
(* _inflight.                                                              *)

(* The requests that io_uring_submit() moves are as many as it says: none  *)
(* is twice in the submission queue, none is with the kernel already.      *)
LEMMA SubmitCounts ==
  ASSUME IInv, NEW k \in Contexts
  PROVE  Cardinality(kern[k] \cup Range(sq[k])) = Cardinality(kern[k]) + Len(sq[k])
<1> DEFINE n == Len(sq[k])
           S == Range(sq[k])
<1>0. sq[k] \in Seq(Coroutines) /\ kern[k] \in SUBSET Coroutines /\ n \in Nat
  BY DEF IInv, TypeOK
<1>1. \A i, j \in 1 .. n : sq[k][i] = sq[k][j] => i = j
  <2> SUFFICES ASSUME NEW i \in 1 .. n, NEW j \in 1 .. n, sq[k][i] = sq[k][j]
               PROVE  i = j
    OBVIOUS
  <2> DEFINE c == sq[k][i]
  <2>1. c \in Coroutines /\ SqAt(c, k, i) /\ SqAt(c, k, j) /\ i \in Nat /\ j \in Nat
    BY <1>0 DEF SqAt
  <2>2. OnlyAt(c, "sq", k, i)
    BY <2>1, SomewhereIsSpawned DEF IInv, At, Kinds
  <2> QED BY <2>1, <2>2 DEF OnlyAt, At, Kinds
<1>2. kern[k] \cap S = {}
  <2> SUFFICES ASSUME NEW c \in kern[k], c \in S PROVE FALSE
    OBVIOUS
  <2>1. PICK i \in 1 .. n : sq[k][i] = c
    BY <1>0 DEF Range
  <2>2. c \in Coroutines /\ SqAt(c, k, i) /\ i \in Nat
    BY <1>0, <2>1 DEF SqAt
  <2>3. OnlyAt(c, "sq", k, i)
    BY <2>2, SomewhereIsSpawned DEF IInv, At, Kinds
  <2> QED BY <2>3 DEF OnlyAt, At, Kinds
<1>3. IsFiniteSet(kern[k])
  BY <1>0, FS_Subset, ContextAssumption
<1>4. IsFiniteSet(S) /\ Cardinality(S) = n
  <2>1. sq[k] \in [1 .. n -> S]
    BY <1>0 DEF Range
  <2>2. sq[k] \in Bijection(1 .. n, S)
    BY <1>0, <1>1, <2>1 DEF Bijection, Injection, IsInjective, Surjection, Range
  <2>3. ExistsBijection(1 .. n, S)
    BY <2>2 DEF ExistsBijection
  <2> QED BY <1>0, <2>3, FS_CountingElements, FS_NatBijection
<1>5. Cardinality(kern[k] \cup S) = Cardinality(kern[k]) + Cardinality(S) - Cardinality(kern[k] \cap S)
  BY <1>3, <1>4, FS_Union
<1>6. Cardinality(kern[k] \cap S) = 0
  BY <1>2, FS_EmptySet
<1>7. Cardinality(kern[k]) \in Nat
  BY <1>3, FS_CardinalityType
<1> QED BY <1>0, <1>4, <1>5, <1>6, <1>7

(* Every step keeps _inflight exact.                                       *)
LEMMA NextCount == IInv /\ Next => InflightIsExact'
<1> SUFFICES ASSUME IInv, Next, NEW q \in Contexts
             PROVE  /\ inflight'[q] = Cardinality(kern'[q]) + Len(cq'[q])
                    /\ inflight'[q] >= done'[q]
  BY DEF InflightIsExact
<1> USE DEF queueVars, ringVars, loopVars, switchVars
<1>0. /\ sq \in [Contexts -> Seq(Coroutines)] /\ kern \in [Contexts -> SUBSET Coroutines]
      /\ cq \in [Contexts -> Seq(Coroutines)]
      /\ inflight \in [Contexts -> Nat] /\ done \in [Contexts -> Nat]
  BY DEF IInv, TypeOK
<1>a. \A k \in Contexts : /\ inflight[k] = Cardinality(kern[k]) + Len(cq[k])
                          /\ inflight[k] >= done[k] /\ done[k] <= Len(cq[k])
                          /\ Len(cq[k]) \in Nat /\ Len(sq[k]) \in Nat
                          /\ done[k] \in Nat /\ inflight[k] \in Nat
  BY <1>0 DEF IInv, InflightIsExact, PassOK
<1>b. \A k \in Contexts : IsFiniteSet(kern[k]) /\ Cardinality(kern[k]) \in Nat
  BY <1>0, FS_Subset, FS_CardinalityType, ContextAssumption
<1>1. ASSUME NEW k \in Contexts, Submit(k)
      PROVE  /\ inflight'[q] = Cardinality(kern'[q]) + Len(cq'[q])
             /\ inflight'[q] >= done'[q]
  <2>1. /\ kern' = [kern EXCEPT ![k] = @ \cup Range(sq[k])]
        /\ inflight' = [inflight EXCEPT ![k] = @ + Len(sq[k])]
        /\ UNCHANGED <<cq, done>>
    BY <1>1 DEF Submit, Submitted
  <2>2. CASE q = k
    <3>1. kern'[q] = kern[k] \cup Range(sq[k]) /\ inflight'[q] = inflight[k] + Len(sq[k])
      BY <1>0, <2>1, <2>2
    <3>2. Cardinality(kern'[q]) = Cardinality(kern[k]) + Len(sq[k])
      BY <3>1, SubmitCounts
    <3> QED BY <1>a, <1>b, <2>1, <2>2, <3>1, <3>2
  <2>3. CASE q # k
    BY <1>0, <1>a, <2>1, <2>3
  <2> QED BY <2>2, <2>3
<1>2. ASSUME NEW k \in Contexts, NEW c \in Coroutines, KernelCompletes(k, c)
      PROVE  /\ inflight'[q] = Cardinality(kern'[q]) + Len(cq'[q])
             /\ inflight'[q] >= done'[q]
  <2>1. /\ c \in kern[k]
        /\ kern' = [kern EXCEPT ![k] = @ \ {c}]
        /\ cq' = [cq EXCEPT ![k] = Append(@, c)]
        /\ UNCHANGED <<inflight, done>>
    BY <1>2 DEF KernelCompletes
  <2>2. CASE q = k
    <3>1. kern'[q] = kern[k] \ {c} /\ Len(cq'[q]) = Len(cq[k]) + 1
      BY <1>0, <2>1, <2>2
    <3>2. Cardinality(kern'[q]) = Cardinality(kern[k]) - 1
      BY <1>b, <2>1, <3>1, FS_RemoveElement
    <3> QED BY <1>a, <1>b, <2>1, <2>2, <3>1, <3>2
  <2>3. CASE q # k
    BY <1>0, <1>a, <2>1, <2>3
  <2> QED BY <2>2, <2>3
<1>3. ASSUME NEW k \in Contexts, Reap(k)
      PROVE  /\ inflight'[q] = Cardinality(kern'[q]) + Len(cq'[q])
             /\ inflight'[q] >= done'[q]
  BY <1>0, <1>a, <1>b, <1>3 DEF Reap
<1>4. ASSUME NEW k \in Contexts, ReapEnd(k)
      PROVE  /\ inflight'[q] = Cardinality(kern'[q]) + Len(cq'[q])
             /\ inflight'[q] >= done'[q]
  <2>1. /\ cq' = [cq EXCEPT ![k] = SubSeq(@, done[k] + 1, Len(@))]
        /\ inflight' = [inflight EXCEPT ![k] = @ - done[k]]
        /\ done' = [done EXCEPT ![k] = 0]
        /\ UNCHANGED kern
    <3>1. Workaround(inflight[k], done[k]) = inflight[k]
      BY <1>a DEF Workaround
    <3> QED BY <1>0, <1>4, <3>1 DEF ReapEnd, Advanced
  <2>2. CASE q = k
    <3>1. Len(cq'[q]) = Len(cq[k]) - done[k]
      BY <1>0, <1>a, <2>1, <2>2
    <3> QED BY <1>0, <1>a, <1>b, <2>1, <2>2, <3>1
  <2>3. CASE q # k
    BY <1>0, <1>a, <2>1, <2>3
  <2> QED BY <2>2, <2>3
<1>5. ASSUME UNCHANGED <<inflight, kern, cq, done>>
      PROVE  /\ inflight'[q] = Cardinality(kern'[q]) + Len(cq'[q])
             /\ inflight'[q] >= done'[q]
  BY <1>5, <1>a
<1>6. ASSUME NEW k \in Contexts,
             \/ RunTest(k) \/ Rerun(k) \/ Prepare(k) \/ ResumeFront(k) \/ BatchEnd(k)
             \/ SwitchStore(k) \/ Stop(k)
      PROVE  UNCHANGED <<inflight, kern, cq, done>>
  BY <1>6 DEF RunTest, Rerun, Prepare, ResumeFront, BatchEnd, SwitchStore, Stop
<1>7. ASSUME NEW k \in Contexts, NEW c \in Coroutines,
             \/ AwaitIo(k, c) \/ Finish(k, c) \/ Spawn(k, c)
             \/ \E j \in Contexts : SwitchPush(k, j, c) \/ SwitchRefused(k, j, c)
      PROVE  UNCHANGED <<inflight, kern, cq, done>>
  BY <1>7 DEF AwaitIo, Finish, Spawn, SwitchPush, SwitchRefused
<1> QED
  BY <1>1, <1>2, <1>3, <1>4, <1>5, <1>6, <1>7 DEF Next, RunOnce, Suspend
-----------------------------------------------------------------------------
(* The tasks spawned before run() are in one queue, once each.             *)
LEMMA InitIInv == Init => IInv
<1> SUFFICES ASSUME Init PROVE IInv
  OBVIOUS
<1> DEFINE S == Coroutines \ fresh
           q == SetToSeq(S)
<1>1. fresh \subseteq Coroutines
  BY DEF Init
<1>2. IsFiniteSet(S)
  BY FS_Subset, ContextAssumption
<1>3. /\ q \in Seq(S)
      /\ \A i, j \in 1 .. Len(q) : q[i] = q[j] => i = j
      /\ \A x \in S : \E i \in 1 .. Len(q) : q[i] = x
  BY <1>2, SetToSeqProperties
<1> HIDE DEF q
<1>4. PICK k \in Contexts :
        operations = [j \in Contexts |-> IF j = k THEN q ELSE << >>]
  BY DEF Init, q
<1>5. q \in Seq(Coroutines)
  BY <1>3
<1>6. operations \in [Contexts -> Seq(Coroutines)]
  BY <1>4, <1>5
<1>7. TypeOK
  <2>1. Entries \in Nat /\ SwitchMax \in Nat /\ BatchMax \in Nat
    BY ContextAssumption
  <2>2. << >> \in Seq(Coroutines) /\ Len(<< >>) = 0
    OBVIOUS
  <2>3. QueueTypes /\ RingTypes /\ LoopTypes
    <3>0. switchSpsc = [j \in Contexts |-> << >>]
      BY DEF Init
    <3>1. QueueTypes
      BY <1>6, <2>1, <2>2, <3>0 DEF QueueTypes
    <3>2. RingTypes
      BY <2>1, <2>2 DEF Init, RingTypes
    <3>3. LoopTypes
      BY <2>1 DEF Init, LoopTypes
    <3> QED BY <3>1, <3>2, <3>3
  <2>4. SwitchTypes /\ OtherTypes
    BY <1>1 DEF Init, SwitchTypes, OtherTypes
  <2> QED BY <2>3, <2>4, TypeParts
<1>8. ASSUME NEW c \in Coroutines PROVE PlaceOK(c)
  <2>1. \A w \in Kinds, j \in Contexts, i \in Nat :
          At(c, w, j, i) <=> w = "operations" /\ j = k /\ i \in 1 .. Len(q) /\ q[i] = c
    <3>1. c # None
      BY ContextAssumption
    <3>2. \A j \in Contexts, i \in Nat :
            OpsAt(c, j, i) <=> j = k /\ i \in 1 .. Len(q) /\ q[i] = c
      BY <1>4, <1>5 DEF OpsAt
    <3>3. \A j \in Contexts, i \in Nat : /\ ~SwitchAt(c, j, i) /\ ~SqAt(c, j, i) /\ ~CqAt(c, j, i)
                                         /\ c \notin kern[j] /\ running[j] # c
      BY <3>1 DEF Init, SwitchAt, SqAt, CqAt
    <3> QED BY <3>2, <3>3 DEF At
  <2>2. CASE c \in fresh
    <3>1. \A i \in 1 .. Len(q) : q[i] # c
      BY <1>3, <2>2
    <3> QED BY <2>1, <2>2, <3>1 DEF PlaceOK, Nowhere
  <2>3. CASE c \notin fresh
    <3>1. PICK i \in 1 .. Len(q) : q[i] = c
      BY <1>3, <2>3
    <3>2. i \in Nat /\ \A n \in Nat : n \in 1 .. Len(q) /\ q[n] = c <=> n = i
      BY <1>3, <1>5, <3>1
    <3>3. OnlyAt(c, "operations", k, i)
      BY <2>1, <3>2 DEF OnlyAt
    <3> QED BY <2>3, <3>2, <3>3 DEF PlaceOK, Kinds
  <2> QED BY <2>2, <2>3
<1>9. \A j \in Contexts : PassOK(j)
  <2>1. \A j \in Contexts : Len(operations[j]) \in Nat
    BY <1>6
  <2> QED BY <2>1 DEF Init, PassOK
<1>a. InflightIsExact
  <2>1. Cardinality({}) = 0
    BY FS_EmptySet
  <2> QED BY <2>1 DEF Init, InflightIsExact
<1> QED BY <1>7, <1>8, <1>9, <1>a DEF IInv

(* The inductive invariant: types, one place each, a pass that takes what  *)
(* was there, and the count.                                               *)
THEOREM SpecIInv == Spec => []IInv
<1>1. Init => IInv
  BY InitIInv
<1>2. IInv /\ [Next]_vars => IInv'
  <2> SUFFICES ASSUME IInv, [Next]_vars PROVE IInv'
    OBVIOUS
  <2>1. CASE Next
    <3>1. TypeOK'
      BY <2>1, NextType
    <3>2. \A c \in Coroutines : PlaceOK(c)'
      BY <2>1, NextPlace
    <3>3. \A k \in Contexts : PassOK(k)'
      BY <2>1, NextPass
    <3>4. InflightIsExact'
      BY <2>1, NextCount
    <3> QED BY <3>1, <3>2, <3>3, <3>4 DEF IInv
  <2>2. CASE UNCHANGED vars
    BY <2>2 DEF vars, queueVars, ringVars, loopVars, switchVars, IInv, TypeOK, PlaceOK,
       Nowhere, OnlyAt, At, OpsAt, SwitchAt, SqAt, CqAt, PassOK, InflightIsExact
  <2> QED BY <2>1, <2>2
<1> QED BY <1>1, <1>2, PTL DEF Spec

(* No queue and no ring of an Io_context overruns, and _inflight is never  *)
(* taken below zero.                                                       *)
THEOREM SpecTypeOK == Spec => []TypeOK
<1>1. IInv => TypeOK
  BY DEF IInv
<1> QED BY <1>1, SpecIInv, PTL

(* _inflight counts the requests that were submitted and not yet reaped:   *)
(* assert(_inflight >= done) of run_once() holds with every number of      *)
(* contexts and coroutines.                                                *)
THEOREM SpecInflightIsExact == Spec => []InflightIsExact
<1>1. IInv => InflightIsExact
  BY DEF IInv
<1> QED BY <1>1, SpecIInv, PTL

(* The members of Places().                                                *)
LEMMA PlacesAre ==
  ASSUME IInv, NEW c \in Coroutines, NEW p
  PROVE  p \in Places(c) <=>
           \E k \in Contexts, w \in Kinds, i \in Nat :
             /\ p = <<k, <<w, i>>>>
             /\ At(c, w, k, IF w = "cq" THEN i + done[k] ELSE i)
             /\ w = "cq" => i > 0
<1>1. /\ operations \in [Contexts -> Seq(Coroutines)] /\ switchSpsc \in [Contexts -> Seq(Coroutines)]
      /\ sq \in [Contexts -> Seq(Coroutines)] /\ cq \in [Contexts -> Seq(Coroutines)]
      /\ done \in [Contexts -> Nat]
  BY DEF IInv, TypeOK
<1>2. ASSUME NEW k \in Contexts, NEW w, NEW i
      PROVE  <<w, i>> \in PlacesAt(k, c) <=>
               /\ w \in Kinds /\ i \in Nat /\ (w = "cq" => i > 0)
               /\ At(c, w, k, IF w = "cq" THEN i + done[k] ELSE i)
  <2>1. /\ i \in Where(operations[k], c) <=> i \in Nat /\ OpsAt(c, k, i)
        /\ i \in Where(switchSpsc[k], c) <=> i \in Nat /\ SwitchAt(c, k, i)
        /\ i \in Where(sq[k], c) <=> i \in Nat /\ SqAt(c, k, i)
    BY <1>1 DEF Where, OpsAt, SwitchAt, SqAt
  <2>2. i \in Where(Unseen(k), c) <=> i \in Nat /\ i > 0 /\ CqAt(c, k, i + done[k])
    <3>1. /\ Len(cq[k]) \in Nat /\ done[k] \in Nat /\ done[k] <= Len(cq[k])
      BY <1>1 DEF IInv, PassOK
    <3>2. /\ Unseen(k) \in Seq(Coroutines)
          /\ Len(Unseen(k)) = Len(cq[k]) - done[k]
          /\ \A j \in 1 .. Len(cq[k]) - done[k] : Unseen(k)[j] = cq[k][j + done[k]]
      BY <1>1, <3>1 DEF Unseen
    <3>3. DOMAIN Unseen(k) = 1 .. Len(cq[k]) - done[k]
      BY <3>2
    <3>4. i \in 1 .. Len(cq[k]) - done[k] <=>
            i \in Nat /\ i > 0 /\ i + done[k] \in done[k] + 1 .. Len(cq[k])
      BY <3>1
    <3> QED BY <3>2, <3>3, <3>4 DEF Where, CqAt
  <2>3. /\ i \in {n \in {0} : c \in kern[k]} <=> i = 0 /\ c \in kern[k]
        /\ i \in {n \in {0} : running[k] = c} <=> i = 0 /\ running[k] = c
    OBVIOUS
  <2> DEFINE ops == Where(operations[k], c)
             switch == Where(switchSpsc[k], c)
             sub == Where(sq[k], c)
             ker == {n \in {0} : c \in kern[k]}
             cpl == Where(Unseen(k), c)
             run == {n \in {0} : running[k] = c}
  <2>4. <<w, i>> \in PlacesAt(k, c) <=> \/ w = "operations" /\ i \in ops
                                        \/ w = "switchSpsc" /\ i \in switch
                                        \/ w = "sq" /\ i \in sub
                                        \/ w = "kern" /\ i \in ker
                                        \/ w = "cq" /\ i \in cpl
                                        \/ w = "running" /\ i \in run
    <3> HIDE DEF ops, switch, sub, ker, cpl, run
    <3>1. PlacesAt(k, c) = ({"operations"} \X ops) \cup ({"switchSpsc"} \X switch)
            \cup ({"sq"} \X sub) \cup ({"kern"} \X ker) \cup ({"cq"} \X cpl)
            \cup ({"running"} \X run)
      BY DEF PlacesAt, ops, switch, sub, ker, cpl, run
    <3> QED BY <3>1
  <2> QED BY <2>1, <2>2, <2>3, <2>4 DEF At, Kinds
<1>3. ASSUME NEW k \in Contexts, NEW x \in PlacesAt(k, c) PROVE \E w, i : x = <<w, i>>
  BY DEF PlacesAt
<1>4. p \in Places(c) <=> \E k \in Contexts : \E x \in PlacesAt(k, c) : p = <<k, x>>
  BY DEF Places
<1>5. p \in Places(c) <=> \E k \in Contexts : \E w, i : <<w, i>> \in PlacesAt(k, c) /\ p = <<k, <<w, i>>>>
  <2>1. ASSUME p \in Places(c)
        PROVE  \E k \in Contexts : \E w, i : <<w, i>> \in PlacesAt(k, c) /\ p = <<k, <<w, i>>>>
    <3>0. PICK k \in Contexts : \E x \in PlacesAt(k, c) : p = <<k, x>>
      BY <1>4, <2>1
    <3>1. PICK x \in PlacesAt(k, c) : p = <<k, x>>
      BY <3>0
    <3>2. PICK w, i : x = <<w, i>>
      BY <1>3
    <3> QED BY <3>1, <3>2
  <2>2. ASSUME NEW k \in Contexts, NEW w, NEW i, <<w, i>> \in PlacesAt(k, c), p = <<k, <<w, i>>>>
        PROVE  p \in Places(c)
    BY <1>4, <2>2, Zenon
  <2> QED BY <2>1, <2>2
<1> QED BY <1>2, <1>5

(* Until it finishes a coroutine is in exactly one queue, ring or thread:  *)
(* it is never lost, nor resumed twice from one suspension.                *)
THEOREM SpecOnePlace == Spec => []OnePlace
<1>1. ASSUME IInv, NEW c \in Coroutines
      PROVE  Cardinality(Places(c)) = IF c \in fresh THEN 0 ELSE 1
  <2>0. PlaceOK(c) /\ \A k \in Contexts : done[k] \in Nat
    BY <1>1 DEF IInv, TypeOK
  <2>1. CASE c \in fresh
    <3>1. \A w \in Kinds, k \in Contexts, i \in Nat : ~At(c, w, k, i)
      BY <2>0, <2>1 DEF PlaceOK, Nowhere
    <3>2. \A p : p \notin Places(c)
      <4> SUFFICES ASSUME NEW p, p \in Places(c) PROVE FALSE
        OBVIOUS
      <4>1. PICK k \in Contexts, w \in Kinds, i \in Nat :
              At(c, w, k, IF w = "cq" THEN i + done[k] ELSE i)
        BY <1>1, PlacesAre
      <4>2. (IF w = "cq" THEN i + done[k] ELSE i) \in Nat
        BY <2>0
      <4> QED BY <3>1, <4>1, <4>2
    <3>3. Places(c) = {}
      BY <3>2
    <3> QED BY <2>1, <3>3, FS_EmptySet
  <2>2. CASE c \notin fresh
    <3>1. PICK w \in Kinds, k \in Contexts, i \in Nat : OnlyAt(c, w, k, i)
      BY <2>0, <2>2 DEF PlaceOK
    <3>2. w = "cq" => i > done[k]
      BY <2>0, <3>1 DEF OnlyAt, At, CqAt
    <3>3. PICK m \in Nat : m = (IF w = "cq" THEN i - done[k] ELSE i) /\ (w = "cq" => m > 0)
      BY <2>0, <3>2
    <3>4. (IF w = "cq" THEN m + done[k] ELSE m) = i
      BY <2>0, <3>3
    <3>5. <<k, <<w, m>>>> \in Places(c)
      <4>1. At(c, w, k, i)
        BY <3>1 DEF OnlyAt
      <4> QED BY <1>1, <3>3, <3>4, <4>1, PlacesAre
    <3>6. ASSUME NEW p \in Places(c) PROVE p = <<k, <<w, m>>>>
      <4>1. PICK j \in Contexts, v \in Kinds, n \in Nat :
              /\ p = <<j, <<v, n>>>>
              /\ At(c, v, j, IF v = "cq" THEN n + done[j] ELSE n)
        BY <1>1, PlacesAre
      <4>2. (IF v = "cq" THEN n + done[j] ELSE n) \in Nat
        BY <2>0
      <4>3. v = w /\ j = k /\ (IF v = "cq" THEN n + done[j] ELSE n) = i
        BY <3>1, <4>1, <4>2 DEF OnlyAt
      <4>4. n = m
        BY <2>0, <3>3, <4>3
      <4> QED BY <4>1, <4>3, <4>4
    <3>7. Places(c) = {<<k, <<w, m>>>>}
      BY <3>5, <3>6
    <3> QED BY <2>2, <3>7, FS_Singleton
  <2> QED BY <2>1, <2>2
<1>2. IInv => OnePlace
  BY <1>1 DEF OnePlace
<1> QED BY <1>2, SpecIInv, PTL
=============================================================================
