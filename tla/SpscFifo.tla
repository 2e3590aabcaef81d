------------------------------ MODULE SpscFifo ------------------------------
(***************************************************************************)
(* `Fifo<T, SIZE>` of src/include/utils.h: a ring buffer with one producer *)
(* and one consumer that share nothing but two atomic indices.  It is the  *)
(* queue through which co_context_switch.h hands a coroutine from one      *)
(* Io_context to another.                                                  *)
(*                                                                         *)
(* push() and pop() are split at every access to shared memory.  An        *)
(* acquire load returns some value of the index that is not older than the *)
(* one the same thread saw last (C++ coherence), not always the newest:    *)
(* seenOut and seenIn are what the producer knows of `_out` and the        *)
(* consumer of `_in`.                                                      *)
(***************************************************************************)
EXTENDS Integers, Sequences

CONSTANTS T,        \* elements that may be pushed
          SIZE      \* slots of the buffer

\* static_assert(SIZE > 1 && !(SIZE & (SIZE-1)))
ASSUME SizeAssumption == /\ SIZE \in Nat
                         /\ SIZE > 1
                         /\ \E k \in 0 .. SIZE : SIZE = 2 ^ k
ASSUME ElementAssumption == T # {}

VARIABLES buffer,   \* _buffer
          in,       \* _in, written by the producer only
          out,      \* _out, written by the consumer only
          ppc,      \* where the producer is in push()
          elem,     \* push()'s argument
          seenOut,  \* the value of _out the producer loaded last
          cpc,      \* where the consumer is in pop()
          opt,      \* pop()'s by-reference argument
          seenIn    \* the value of _in the consumer loaded last

producerVars == <<in, ppc, elem, seenOut>>
consumerVars == <<out, cpc, opt, seenIn>>
vars == <<buffer, producerVars, consumerVars>>

MASK == SIZE - 1
Index == 0 .. MASK

\* (i + 1) & MASK for an index i; the variant forgets the mask.
Inc_Unmasked(i) == i + 1
Inc(i) == IF i = MASK THEN 0 ELSE i + 1

\* How many slots lie from index a up to, and not including, index b.
Dist(a, b) == IF a <= b THEN b - a ELSE b - a + SIZE

\* The values a load may return: from the one seen last to the current one.
Visible(seen, current) == {i \in Index : Dist(seen, i) <= Dist(seen, current)}

\* The indices stay inside the buffer, whatever push() and pop() do with them.
TypeOK == /\ buffer \in [Index -> T]
          /\ in \in Index /\ out \in Index
          /\ seenIn \in Index /\ seenOut \in Index
          /\ elem \in T /\ opt \in T
          /\ ppc \in {"idle", "write", "publish"}
          /\ cpc \in {"idle", "read", "publish"}

Init == /\ buffer \in [Index -> T]      \* the array is not initialised
        /\ in = 0 /\ out = 0
        /\ seenIn = 0 /\ seenOut = 0
        /\ elem \in T /\ opt \in T
        /\ ppc = "idle" /\ cpc = "idle"

-----------------------------------------------------------------------------
(* The producer: push(elem).                                               *)

\* next_in == _out: the buffer looks full; the variant never refuses.
LooksFull_Never(i, o) == FALSE
LooksFull(i, o) == Inc(i) = o

PushLoad(e) ==
  /\ ppc = "idle"
  /\ elem' = e
  /\ \E o \in Visible(seenOut, out) :
       /\ seenOut' = o
       /\ ppc' = IF LooksFull(in, o) THEN "idle" ELSE "write"
  /\ UNCHANGED <<buffer, in, consumerVars>>

PushWrite ==
  /\ ppc = "write"
  /\ buffer' = [buffer EXCEPT ![in] = elem]
  /\ ppc' = "publish"
  /\ UNCHANGED <<in, elem, seenOut, consumerVars>>

PushPublish ==
  /\ ppc = "publish"
  /\ in' = Inc(in)
  /\ ppc' = "idle"
  /\ UNCHANGED <<buffer, elem, seenOut, consumerVars>>

-----------------------------------------------------------------------------
(* The consumer: pop(opt).                                                 *)

\* in == out: nothing to take.  The variant tests the wrong neighbour.
LooksEmpty_AsPush(i, o) == Inc(i) = o
LooksEmpty(i, o) == i = o

PopLoad ==
  /\ cpc = "idle"
  /\ \E i \in Visible(seenIn, in) :
       /\ seenIn' = i
       /\ cpc' = IF LooksEmpty(i, out) THEN "idle" ELSE "read"
  /\ UNCHANGED <<buffer, out, opt, producerVars>>

PopRead ==
  /\ cpc = "read"
  /\ opt' = buffer[out]
  /\ cpc' = "publish"
  /\ UNCHANGED <<buffer, out, seenIn, producerVars>>

PopPublish ==
  /\ cpc = "publish"
  /\ out' = Inc(out)
  /\ cpc' = "idle"
  /\ UNCHANGED <<buffer, opt, seenIn, producerVars>>

-----------------------------------------------------------------------------
Next == \/ \E e \in T : PushLoad(e)
        \/ PushWrite
        \/ PushPublish
        \/ PopLoad
        \/ PopRead
        \/ PopPublish

Spec == Init /\ [][Next]_vars

-----------------------------------------------------------------------------
(* The release store of `_in` comes after the slot is written and the      *)
(* acquire load of `_in` before it is read; likewise for `_out`.  So the   *)
(* two threads never work on one slot at a time: Fifo's plain accesses to  *)
(* `_buffer` are free of data races.                                       *)
NoDataRace == ~(ppc = "write" /\ cpc = "read" /\ in = out)

(* What either thread believes of the other's index is old, never wrong:   *)
(* around the ring seenOut, out, seenIn, in come in this order.            *)
IndicesInOrder ==
  Dist(seenOut, out) + Dist(out, seenIn) + Dist(seenIn, in) < SIZE

\* The inductive invariant: the order of the indices, the slot a producer
\* past its test may fill, the element it has written before it publishes it,
\* and the element a consumer past its test may take.
IInv == /\ TypeOK
        /\ IndicesInOrder
        /\ ppc # "idle" => Inc(in) # seenOut
        /\ ppc = "publish" => buffer[in] = elem
        /\ cpc # "idle" => out # seenIn

\* The queue the indices delimit; pop() has taken its element once it is read.
Front == IF cpc = "publish" THEN Inc(out) ELSE out
Slot(i) == IF Front + i - 1 < SIZE THEN Front + i - 1 ELSE Front + i - 1 - SIZE
Queue == [i \in 1 .. Dist(Front, in) |-> buffer[Slot(i)]]

Abstract == INSTANCE BoundedFifo WITH queue <- Queue

\* Fifo is a bounded first-in first-out queue: push() and pop() lose,
\* duplicate and reorder nothing, and an element appears whole.
ImplementsBoundedFifo == Abstract!Spec
=============================================================================
