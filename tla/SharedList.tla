----------------------------- MODULE SharedList -----------------------------
(***************************************************************************)
(* What detail::intrusive_queue promises the threads that use it: a list   *)
(* to which anybody adds one element at a time, which a consumer takes     *)
(* whole, and to which it may give some of it back.  IntrusiveQueue is     *)
(* shown to implement it.                                                  *)
(***************************************************************************)
EXTENDS Sequences, SequencesExt

CONSTANTS Nodes,
          Consumers,
          OldestFirst     \* whether a consumer works in the order of the pushes

VARIABLES list,           \* what is queued, newest first
          held            \* what each consumer has taken and still has to do

vars == <<list, held>>

InUse == Range(list) \cup UNION {Range(held[c]) : c \in Consumers}

Init == /\ list = << >>
        /\ held = [c \in Consumers |-> << >>]

Push(n) == /\ n \notin InUse
           /\ list' = <<n>> \o list
           /\ UNCHANGED held

MoveAll(c) == /\ held[c] = << >>
              /\ held' = [held EXCEPT ![c] =
                            IF OldestFirst THEN Reverse(list) ELSE list]
              /\ list' = << >>

\* The consumer goes to work on the first element it holds.
Take(c) == /\ held[c] # << >>
           /\ held' = [held EXCEPT ![c] = Tail(@)]
           /\ UNCHANGED list

\* A consumer that does not care for the order drops any element it holds.
Withdraw(c) == /\ ~OldestFirst
               /\ \E k \in 1 .. Len(held[c]) :
                    held' = [held EXCEPT ![c] = RemoveAt(@, k)]
               /\ UNCHANGED list

\* It gives back the first k elements.
PushAll(c) == /\ ~OldestFirst
              /\ \E k \in 1 .. Len(held[c]) :
                   /\ list' = SubSeq(held[c], 1, k) \o list
                   /\ held' = [held EXCEPT ![c] = SubSeq(@, k + 1, Len(@))]

Next == \/ \E n \in Nodes : Push(n)
        \/ \E c \in Consumers : MoveAll(c) \/ Take(c) \/ Withdraw(c) \/ PushAll(c)

Spec == Init /\ [][Next]_vars
=============================================================================
