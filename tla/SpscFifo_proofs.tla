--------------------------- MODULE SpscFifo_proofs ---------------------------
(***************************************************************************)
(* Proofs about SpscFifo for every SIZE and every set of elements: its     *)
(* type correctness, the inductive invariant IInv, the absence of data     *)
(* races, and that it implements BoundedFifo.                              *)
(***************************************************************************)
EXTENDS SpscFifo, SequenceTheorems, TLAPS

(* The arithmetic of the ring.  The power of two is not needed for it.     *)
LEMMA RingArithmetic ==
  ASSUME NEW a \in Index, NEW b \in Index, NEW c \in Index
  PROVE  /\ Inc(a) \in Index
         /\ Dist(a, b) \in 0 .. MASK
         /\ Dist(a, b) = 0 <=> a = b
         /\ a # b => Dist(Inc(a), b) = Dist(a, b) - 1
         /\ Inc(b) # a => Dist(a, Inc(b)) = Dist(a, b) + 1
         /\ Inc(b) = a <=> Dist(a, b) = MASK
         /\ Dist(a, c) <= Dist(a, b) => Dist(a, c) + Dist(c, b) = Dist(a, b)
BY SizeAssumption, SMT DEF Index, MASK, Inc, Dist

(* IInv is inductive.                                                      *)
LEMMA InitIInv == Init => IInv
BY SizeAssumption DEF Init, IInv, TypeOK, IndicesInOrder, Index, MASK, Dist

(* Every step of push() and pop() keeps IInv.                              *)
LEMMA NextIInv == IInv /\ [Next]_vars => IInv'
<1> SUFFICES ASSUME IInv, [Next]_vars PROVE IInv'
  OBVIOUS
<1> USE DEF IInv, TypeOK, IndicesInOrder
<1>1. ASSUME NEW e \in T, PushLoad(e) PROVE IInv'
  <2>1. PICK o \in Visible(seenOut, out) :
          /\ seenOut' = o
          /\ ppc' = IF LooksFull(in, o) THEN "idle" ELSE "write"
    BY <1>1 DEF PushLoad
  <2>2. /\ o \in Index
        /\ Dist(seenOut, o) + Dist(o, out) = Dist(seenOut, out)
        /\ Dist(seenOut, o) \in Nat
    BY RingArithmetic, SizeAssumption DEF Visible, Index, MASK
  <2>3. TypeOK'
    BY <1>1, <2>1, <2>2 DEF PushLoad, consumerVars
  <2>4. IndicesInOrder'
    <3>1. /\ Dist(seenOut, out) \in Int /\ Dist(o, out) \in Int
          /\ Dist(out, seenIn) \in Int /\ Dist(seenIn, in) \in Int
      BY <2>2, SizeAssumption DEF Index, MASK, Dist
    <3>2. Dist(o, out) + Dist(out, seenIn) + Dist(seenIn, in) < SIZE
      BY <2>2, <3>1, SizeAssumption
    <3> QED BY <1>1, <2>1, <3>2 DEF PushLoad, consumerVars, Dist
  <2>5. (ppc # "idle" => Inc(in) # seenOut)'
    BY <1>1, <2>1 DEF PushLoad, LooksFull, Inc, MASK
  <2>6. (ppc = "publish" => buffer[in] = elem)'
    BY <2>1
  <2> QED BY <1>1, <2>3, <2>4, <2>5, <2>6 DEF PushLoad, consumerVars
<1>2. CASE PushWrite
  BY <1>2 DEF PushWrite, consumerVars, Inc, Dist, MASK
<1>3. CASE PushPublish
  <2>1. Inc(in) # seenIn
    BY <1>3, RingArithmetic, SizeAssumption DEF PushPublish, Index, MASK, Dist, Inc
  <2> QED BY <1>3, <2>1, RingArithmetic, SizeAssumption
          DEF PushPublish, consumerVars, Index, MASK, Dist, Inc
<1>4. CASE PopLoad
  <2>1. PICK i \in Visible(seenIn, in) :
          /\ seenIn' = i
          /\ cpc' = IF LooksEmpty(i, out) THEN "idle" ELSE "read"
    BY <1>4 DEF PopLoad
  <2>2. i \in Index
    BY DEF Visible
  <2>3. Dist(out, i) + Dist(i, in) = Dist(out, seenIn) + Dist(seenIn, in)
    BY <2>2, SizeAssumption DEF Visible, Index, MASK, Dist
  <2>4. TypeOK'
    BY <1>4, <2>1, <2>2 DEF PopLoad, producerVars
  <2>5. IndicesInOrder'
    BY <1>4, <2>1, <2>2, <2>3, SizeAssumption
    DEF PopLoad, producerVars, Dist, Index, MASK
  <2>6. (cpc # "idle" => out # seenIn)'
    BY <1>4, <2>1 DEF PopLoad, LooksEmpty
  <2> QED BY <1>4, <2>4, <2>5, <2>6 DEF PopLoad, producerVars, Inc, MASK
<1>5. CASE PopRead
  BY <1>5 DEF PopRead, producerVars, Inc, Dist, MASK
<1>6. CASE PopPublish
  BY <1>6, RingArithmetic, SizeAssumption
  DEF PopPublish, producerVars, Index, MASK, Dist, Inc
<1>7. CASE UNCHANGED vars
  BY <1>7 DEF vars, producerVars, consumerVars, Inc, Dist, MASK
<1> QED BY <1>1, <1>2, <1>3, <1>4, <1>5, <1>6, <1>7 DEF Next

(* Every state push() and pop() can reach has its indices in range, in     *)
(* order, and a slot reserved for whoever is past the test.                *)
THEOREM SpecIInv == Spec => []IInv
BY InitIInv, NextIInv, PTL DEF Spec

(* The indices stay inside the buffer: `& MASK` wraps them in time.        *)
THEOREM SpecTypeOK == Spec => []TypeOK
<1>1. IInv => TypeOK
  BY DEF IInv
<1> QED BY <1>1, SpecIInv, PTL

(* The producer's write and the consumer's read of `_buffer` never meet in *)
(* one slot, however stale the indices they have loaded.                   *)
THEOREM SpecNoDataRace == Spec => []NoDataRace
<1>1. IInv => NoDataRace
  BY RingArithmetic, SizeAssumption
  DEF IInv, TypeOK, IndicesInOrder, NoDataRace, Index, MASK, Dist
<1> QED BY <1>1, SpecIInv, PTL

-----------------------------------------------------------------------------
(* Where the abstract queue lies in the ring.                              *)
LEMMA QueueInRing ==
  IInv => /\ Front \in Index
          /\ Dist(Front, in) \in 0 .. MASK
          /\ \A i \in 1 .. Dist(Front, in) : Slot(i) \in Index /\ Slot(i) # in
          /\ Slot(Dist(Front, in) + 1) = in
          /\ Queue \in Seq(T)
          /\ Len(Queue) = Dist(Front, in)
<1> SUFFICES ASSUME IInv
             PROVE  /\ Front \in Index
                    /\ Dist(Front, in) \in 0 .. MASK
                    /\ \A i \in 1 .. Dist(Front, in) : Slot(i) \in Index /\ Slot(i) # in
                    /\ Slot(Dist(Front, in) + 1) = in
                    /\ Queue \in Seq(T)
                    /\ Len(Queue) = Dist(Front, in)
  OBVIOUS
<1>1. Front \in Index
  BY RingArithmetic DEF IInv, TypeOK, Front
<1>2. Dist(Front, in) \in 0 .. MASK
  BY <1>1, RingArithmetic DEF IInv, TypeOK
<1>3. /\ \A i \in 1 .. Dist(Front, in) : Slot(i) \in Index /\ Slot(i) # in
      /\ Slot(Dist(Front, in) + 1) = in
  BY <1>1, SizeAssumption DEF IInv, TypeOK, Index, MASK, Dist, Slot
<1>4. Queue \in Seq(T) /\ Len(Queue) = Dist(Front, in)
  <2>1. Dist(Front, in) \in Nat
    BY <1>2, SizeAssumption DEF MASK
  <2>2. \A i \in 1 .. Dist(Front, in) : buffer[Slot(i)] \in T
    BY <1>3 DEF IInv, TypeOK
  <2> QED BY <2>1, <2>2 DEF Queue
<1> QED BY <1>1, <1>2, <1>3, <1>4

(* The buffer is empty at first, whatever its slots contain.               *)
LEMMA InitRefines == Init => Abstract!Init
<1> SUFFICES ASSUME Init PROVE Abstract!Init
  OBVIOUS
<1>1. Dist(Front, in) = 0
  BY DEF Init, Front, Dist
<1>2. Queue = << >>
  BY <1>1 DEF Queue
<1> QED BY <1>2 DEF Init, Abstract!Init

(* A step of push() or pop() is an abstract Push, an abstract Pop, or      *)
(* invisible.                                                              *)
LEMMA NextRefines == IInv /\ IInv' /\ [Next]_vars => [Abstract!Next]_(Abstract!vars)
<1> SUFFICES ASSUME IInv, IInv', [Next]_vars
             PROVE  Abstract!Next \/ UNCHANGED <<Queue, opt>>
  BY DEF Abstract!vars
<1>0. (Queue \in Seq(T) /\ Len(Queue) = Dist(Front, in))'
  BY QueueInRing, PTL
<1>1. ASSUME NEW e \in T, PushLoad(e) PROVE UNCHANGED <<Queue, opt>>
  BY <1>1 DEF PushLoad, consumerVars, Queue, Slot, Front, Dist
<1>2. CASE PushWrite
  <2>1. Front' = Front /\ in' = in /\ opt' = opt
    BY <1>2 DEF PushWrite, consumerVars, Front, Inc, MASK
  <2>2. \A i \in 1 .. Dist(Front, in) :
          buffer'[Slot(i)'] = buffer[Slot(i)]
    BY <1>2, <2>1, QueueInRing DEF PushWrite, Slot, IInv, TypeOK
  <2>3. Queue' = Queue
    BY <2>1, <2>2 DEF Queue, Dist
  <2> QED BY <2>1, <2>3
<1>3. CASE PushPublish
  <2>1. /\ Front' = Front /\ opt' = opt /\ buffer' = buffer
        /\ in' = Inc(in) /\ buffer[in] = elem
    BY <1>3 DEF PushPublish, consumerVars, Front, Inc, MASK, IInv
  <2>2. Dist(Front, in) < MASK
    BY <1>3, SizeAssumption
    DEF PushPublish, IInv, TypeOK, IndicesInOrder, Front, Inc, Dist, Index, MASK
  <2>3. Dist(Front, in)' = Dist(Front, in) + 1
    <3>1. Front \in Index /\ in \in Index /\ Dist(Front, in) # MASK
      BY <2>2, QueueInRing, SizeAssumption DEF IInv, TypeOK, MASK
    <3>2. Dist(Front, Inc(in)) = Dist(Front, in) + 1
      BY <3>1, RingArithmetic
    <3>3. Dist(Front, in)' = Dist(Front, Inc(in))
      BY <2>1 DEF Dist
    <3> QED BY <3>2, <3>3
  <2>4. \A i \in 1 .. Dist(Front, in) + 1 :
          Queue'[i] = IF i = Dist(Front, in) + 1 THEN elem ELSE Queue[i]
    BY <2>1, <2>3, QueueInRing DEF Queue, Slot
  <2>5. Queue' = Append(Queue, elem)
    <3>1. /\ Queue' \in Seq(T) /\ Queue \in Seq(T) /\ elem \in T
          /\ Len(Queue') = Len(Queue) + 1 /\ Len(Queue) = Dist(Front, in)
      BY <2>3, <1>0, QueueInRing DEF IInv, TypeOK
    <3> QED BY <3>1, <2>4, AppendProperties
  <2> QED BY <2>1, <2>2, <2>5, QueueInRing DEF Abstract!Next, Abstract!Push, MASK, IInv, TypeOK
<1>4. CASE PopLoad
  BY <1>4 DEF PopLoad, producerVars, IInv, Queue, Slot, Front, Dist
<1>5. CASE PopRead
  <2>1. /\ Front = out /\ Front' = Inc(out) /\ out # in
        /\ in' = in /\ buffer' = buffer /\ opt' = buffer[out]
    BY <1>5, SizeAssumption
    DEF PopRead, producerVars, Front, Inc, MASK, Index, Dist,
        IInv, TypeOK, IndicesInOrder
  <2>2. Dist(Front, in) > 0 /\ Dist(Front, in)' = Dist(Front, in) - 1
    BY <2>1, QueueInRing, SizeAssumption
    DEF IInv, TypeOK, Inc, Dist, Index, MASK
  <2>3. Slot(1) = out /\ \A i \in 1 .. Dist(Front, in) - 1 : Slot(i)' = Slot(i + 1)
    BY <2>1, QueueInRing, SizeAssumption
    DEF IInv, TypeOK, Slot, Inc, Dist, Index, MASK
  <2>4. Queue # << >> /\ Head(Queue) = buffer[out]
    BY <2>2, <2>3, QueueInRing DEF Queue
  <2>5. Queue' = Tail(Queue)
    <3>1. /\ Queue' \in Seq(T) /\ Queue \in Seq(T)
          /\ Len(Queue') = Len(Queue) - 1 /\ Len(Queue) = Dist(Front, in)
      BY <2>2, <1>0, QueueInRing
    <3>2. \A i \in 1 .. Len(Queue) - 1 : Queue'[i] = Queue[i + 1]
      <4> TAKE i \in 1 .. Len(Queue) - 1
      <4>1. /\ i \in 1 .. Dist(Front, in)' /\ i + 1 \in 1 .. Dist(Front, in)
            /\ Slot(i)' = Slot(i + 1)
        BY <2>2, <2>3, <3>1, QueueInRing, SizeAssumption DEF MASK
      <4>2. Queue'[i] = buffer'[Slot(i)'] /\ Queue[i + 1] = buffer[Slot(i + 1)]
        BY <4>1 DEF Queue
      <4> QED BY <2>1, <4>1, <4>2
    <3> QED BY <3>1, <3>2, <2>4, HeadTailProperties
  <2> QED BY <2>1, <2>4, <2>5 DEF Abstract!Next, Abstract!Pop
<1>6. CASE PopPublish
  BY <1>6 DEF PopPublish, producerVars, Queue, Slot, Front, Dist
<1>7. CASE UNCHANGED vars
  BY <1>7 DEF vars, producerVars, consumerVars, Queue, Slot, Front, Dist, Inc, MASK
<1> QED BY <1>1, <1>2, <1>3, <1>4, <1>5, <1>6, <1>7 DEF Next

(* push() and pop(), whatever their interleaving and however stale their   *)
(* loads, behave as one bounded first-in first-out queue.                  *)
THEOREM SpecImplementsBoundedFifo == Spec => ImplementsBoundedFifo
BY InitRefines, NextRefines, SpecIInv, PTL
DEF Spec, ImplementsBoundedFifo, Abstract!Spec
=============================================================================
