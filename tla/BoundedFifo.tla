---------------------------- MODULE BoundedFifo ----------------------------
(***************************************************************************)
(* What `Fifo<T, SIZE>` of src/include/utils.h promises its two threads:   *)
(* a first-in first-out queue of at most SIZE - 1 elements, whose push()   *)
(* may be refused and whose pop() leaves its argument alone when there is  *)
(* nothing to take.  SpscFifo is shown to implement it.                    *)
(***************************************************************************)
EXTENDS Naturals, Sequences

CONSTANTS T,        \* elements that may be pushed
          SIZE      \* size of the buffer; one slot always stays free

VARIABLES queue,    \* what has been pushed and not yet popped, oldest first
          opt       \* the last element pop() handed out

vars == <<queue, opt>>

\* There are never more than SIZE - 1 elements in the buffer.
TypeOK == /\ queue \in Seq(T)
          /\ Len(queue) \in 0 .. SIZE - 1
          /\ opt \in T

Init == /\ queue = << >>
        /\ opt \in T

Push(elem) == /\ Len(queue) < SIZE - 1
              /\ queue' = Append(queue, elem)
              /\ UNCHANGED opt

Pop == /\ queue # << >>
       /\ opt' = Head(queue)
       /\ queue' = Tail(queue)

Next == Pop \/ \E elem \in T : Push(elem)

Spec == Init /\ [][Next]_vars
=============================================================================
