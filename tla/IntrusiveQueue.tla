--------------------------- MODULE IntrusiveQueue ---------------------------
(***************************************************************************)
(* detail::intrusive_queue of uring_exec/detail.h: a lock-free list linked *)
(* through its elements, with the clients it has in uring_exec.            *)
(*                                                                         *)
(*   Producers  push() one element: a task that is scheduled, or, from a   *)
(*              stop callback, an operation that is to be cancelled.       *)
(*   Launchers  take the tasks of an _immediate_map bucket or of an        *)
(*              _attached_queue and run them: `launch` of run().           *)
(*   Stoppers   the one thread that owns a _stopping_map bucket: it issues *)
(*              the cancellations it finds there (the end of run()'s step) *)
(*              and withdraws an operation that completes first            *)
(*              (uninstall_stoppable_callback()).                          *)
(*                                                                         *)
(* Every access to `_head` is a step.  What a thread does to elements it   *)
(* has taken off the list is split where the elements change hands.        *)
(***************************************************************************)
EXTENDS Naturals, FiniteSets, Sequences, SequencesExt, Functions

CONSTANTS Producers, Launchers, Stoppers,
          Nodes,          \* addresses of tasks or operations
          NULL,
          SENTINEL,       \* make_fifo()'s local node
          Locality        \* run_policy.locality: run tasks newest first

ASSUME ClientAssumption ==
  \* roles: a thread that has two of them is two, with turns of its own
  /\ Producers \cap (Launchers \cup Stoppers) = {}
  /\ Launchers = {} \/ Stoppers = {}      \* a list is of tasks or of stops
  /\ \A s, t \in Stoppers : s = t         \* a _stopping_map is thread-local
  /\ IsFiniteSet(Nodes)
  /\ Locality \in BOOLEAN
  /\ NULL \notin Nodes \cup Producers \cup Launchers \cup Stoppers
  /\ SENTINEL \notin Nodes /\ NULL # SENTINEL

VARIABLES head,           \* _head
          next,           \* the Next member of every element
          life,           \* of an element: "ready", "pushed" or "closed"
          pc,
          job,            \* which push()/push_all() call a thread is in
          expected,       \* `node`, the expected value of the CAS loops
          first, last,    \* the chain push_all() publishes; push(): op, op
          rest,           \* what is left of the chain move_all() returned
          prev,           \* make_fifo()'s `prev`
          op              \* the element a thread works on (`this`, `op`)

locals == <<pc, job, expected, first, last, rest, prev, op>>
vars == <<head, next, life, locals>>

Consumers == Launchers \cup Stoppers
Threads == Producers \cup Consumers
Link == Nodes \cup {NULL, SENTINEL}

\* The elements from n on, as `links` say (a cycle shows as a long chain).
Longest == Cardinality(Nodes) + 1
ChainIn(links, n) ==
  LET c[k \in 0 .. Longest] ==
        [m \in Link |-> IF m \notin Nodes \/ k = 0 THEN << >>
                       ELSE <<m>> \o c[k - 1][links[m]]]
  IN  c[Longest][n]

Chain(n) == ChainIn(next, n)

\* How many elements of s come before x: all of them if x is not in s.
Before(s, x) == CHOOSE k \in 0 .. Len(s) :
                  /\ \A i \in 1 .. k : s[i] # x
                  /\ k # Len(s) => s[k + 1] = x

\* Every link leads to an element or nowhere; what is on the list and what a
\* consumer walks over are elements, never make_fifo()'s sentinel.
TypeOK ==
  /\ head \in Nodes \cup {NULL}
  /\ next \in [Nodes -> Link]
  /\ life \in [Nodes -> {"ready", "pushed", "closed"}]
  /\ pc \in [Threads -> {"idle", "link", "cas", "grab", "reverse", "walk",
                         "complete", "scan", "prefix", "suffix"}]
  /\ job \in [Threads -> {"none", "push", "prefix", "suffix", "putback"}]
  \* the address of make_fifo()'s sentinel stays in make_fifo()
  /\ prev \in [Threads -> Link]
  /\ \A v \in {expected, first, last, rest, op} : v \in [Threads -> Nodes \cup {NULL}]

Init ==
  /\ head = NULL
  /\ next = [n \in Nodes |-> NULL]
  /\ life = [n \in Nodes |-> "ready"]
  /\ pc = [t \in Threads |-> "idle"]
  /\ job = [t \in Threads |-> "none"]
  /\ expected = [t \in Threads |-> NULL]
  /\ first = [t \in Threads |-> NULL] /\ last = [t \in Threads |-> NULL]
  /\ rest = [t \in Threads |-> NULL] /\ prev = [t \in Threads |-> NULL]
  /\ op = [t \in Threads |-> NULL]

-----------------------------------------------------------------------------
(* push() and the second half of push_all(): publish the chain first..last *)

\* auto node = _head.load(read_mo)
StartPublish(t, j, from, to) ==
  /\ expected' = [expected EXCEPT ![t] = head]
  /\ first' = [first EXCEPT ![t] = from]
  /\ last' = [last EXCEPT ![t] = to]
  /\ job' = [job EXCEPT ![t] = j]
  /\ pc' = [pc EXCEPT ![t] = "link"]

Push(t, n) ==
  /\ pc[t] = "idle"
  /\ life[n] = "ready"
  /\ life' = [life EXCEPT ![n] = "pushed"]
  /\ op' = [op EXCEPT ![t] = n]
  /\ StartPublish(t, "push", n, n)
  /\ UNCHANGED <<head, next, rest, prev>>

\* last->*Next = node
LinkLast(t) ==
  /\ pc[t] = "link"
  /\ next' = [next EXCEPT ![last[t]] = expected[t]]
  /\ pc' = [pc EXCEPT ![t] = "cas"]
  /\ UNCHANGED <<head, life, job, expected, first, last, rest, prev, op>>

\* compare_exchange_weak() fails, maybe for no reason: back to the top of the
\* loop, which links again.  The variant forgets that it has to.
AfterFailure_NoRelink == "cas"
AfterFailure == "link"

PublishFails(t) ==
  /\ pc[t] = "cas"
  /\ expected' = [expected EXCEPT ![t] = head]
  /\ pc' = [pc EXCEPT ![t] = AfterFailure]
  /\ UNCHANGED <<head, next, life, job, first, last, rest, prev, op>>

\* Where control goes when push() or push_all() has published its chain.
AfterPublish(j) == IF j = "prefix" THEN "suffix" ELSE "idle"

\* The element completes and is destroyed; another one may be constructed at
\* its address, with a null link.
Rebuilt(n, f) == [f EXCEPT ![n] = NULL]

PublishSucceeds(t) ==
  /\ pc[t] = "cas"
  /\ head = expected[t]
  /\ head' = first[t]
  /\ pc' = [pc EXCEPT ![t] = AfterPublish(job[t])]
  /\ IF job[t] = "suffix"
     THEN /\ life' = [life EXCEPT ![op[t]] = "ready"]
          /\ next' = Rebuilt(op[t], next)
     ELSE UNCHANGED <<life, next>>
  /\ op' = [op EXCEPT ![t] = IF job[t] = "prefix" THEN @ ELSE NULL]
  /\ job' = [job EXCEPT ![t] = "none"]
  /\ expected' = [expected EXCEPT ![t] = NULL]
  /\ first' = [first EXCEPT ![t] = NULL]
  /\ last' = [last EXCEPT ![t] = NULL]
  /\ UNCHANGED <<rest, prev>>

-----------------------------------------------------------------------------
(* move_all(): `expected` is loaded, then exchanged for a null _head.      *)

MoveAllLoad(t) ==
  /\ pc[t] = "idle"
  /\ expected' = [expected EXCEPT ![t] = head]
  /\ pc' = [pc EXCEPT ![t] = "grab"]
  /\ UNCHANGED <<head, next, life, job, first, last, rest, prev, op>>

MoveAllFails(t) ==
  /\ pc[t] = "grab"
  /\ head # expected[t]
  /\ expected' = [expected EXCEPT ![t] = head]
  /\ UNCHANGED <<head, next, life, pc, job, first, last, rest, prev, op>>

\* What a consumer does first with the chain.
AfterMoveAll(t) ==
  IF t \in Launchers THEN (IF Locality THEN "walk" ELSE "reverse")
  ELSE IF op[t] = NULL THEN "scan" ELSE "prefix"

MoveAllSucceeds(t) ==
  /\ pc[t] = "grab"
  /\ head = expected[t]
  /\ head' = NULL
  /\ rest' = [rest EXCEPT ![t] = expected[t]]
  /\ pc' = [pc EXCEPT ![t] = AfterMoveAll(t)]
  \* make_fifo(): prev = &sentinel; `last` keeps its argument `node`
  /\ IF AfterMoveAll(t) = "reverse"
     THEN /\ prev' = [prev EXCEPT ![t] = SENTINEL]
          /\ last' = [last EXCEPT ![t] = expected[t]]
     ELSE UNCHANGED <<prev, last>>
  /\ expected' = [expected EXCEPT ![t] = NULL]
  /\ UNCHANGED <<next, life, job, first, op>>

-----------------------------------------------------------------------------
(* Launchers: make_fifo(), then safe_for_each() complete.                  *)

ReverseStep(t) ==
  /\ pc[t] = "reverse"
  /\ rest[t] # NULL
  /\ next' = [next EXCEPT ![rest[t]] = prev[t]]
  /\ prev' = [prev EXCEPT ![t] = rest[t]]
  /\ rest' = [rest EXCEPT ![t] = next[rest[t]]]
  /\ UNCHANGED <<head, life, pc, job, expected, first, last, op>>

\* node->*Next = nullptr; the variant leaves the link to the sentinel's frame.
CutTail_Forgotten(n) == next
CutTail(n) == [next EXCEPT ![n] = NULL]

ReverseEnd(t) ==
  /\ pc[t] = "reverse"
  /\ rest[t] = NULL
  /\ IF last[t] = NULL
     THEN UNCHANGED <<next, rest>>
     ELSE /\ next' = CutTail(last[t])
          /\ rest' = [rest EXCEPT ![t] = prev[t]]
  /\ prev' = [prev EXCEPT ![t] = NULL]
  /\ last' = [last EXCEPT ![t] = NULL]
  /\ pc' = [pc EXCEPT ![t] = "walk"]
  /\ UNCHANGED <<head, life, job, expected, first, op>>

\* std::exchange(op, q.next(op)): the next element is known before this one
\* is completed and destroyed.
WalkNext(t) ==
  /\ pc[t] = "walk"
  /\ rest[t] # NULL
  /\ op' = [op EXCEPT ![t] = rest[t]]
  /\ rest' = [rest EXCEPT ![t] = next[rest[t]]]
  /\ pc' = [pc EXCEPT ![t] = "complete"]
  /\ UNCHANGED <<head, next, life, job, expected, first, last, prev>>

\* op->vtab.complete(op): the task is destroyed and may be scheduled anew.
Complete(t) ==
  /\ pc[t] = "complete"
  /\ life' = [life EXCEPT ![op[t]] = "ready"]
  /\ next' = Rebuilt(op[t], next)
  /\ op' = [op EXCEPT ![t] = NULL]
  /\ pc' = [pc EXCEPT ![t] = "walk"]
  /\ UNCHANGED <<head, job, expected, first, last, rest, prev>>

WalkEnd(t) ==
  /\ pc[t] = "walk"
  /\ rest[t] = NULL
  /\ pc' = [pc EXCEPT ![t] = "idle"]
  /\ UNCHANGED <<head, next, life, job, expected, first, last, rest, prev, op>>

-----------------------------------------------------------------------------
(* Stoppers: the scan of a _stopping_map bucket in run().                  *)

\* A cancel request is prepared for `op`; clear() forgets its link.
ClearLink_Kept(n) == next
ClearLink(n) == [next EXCEPT ![n] = NULL]

ScanNext(t) ==
  /\ pc[t] = "scan"
  /\ rest[t] # NULL
  /\ rest' = [rest EXCEPT ![t] = next[rest[t]]]
  /\ next' = ClearLink(rest[t])
  /\ UNCHANGED <<head, life, pc, job, expected, first, last, prev, op>>

\* There is no free sqe: push_all(op, ...) gives the rest back.
ScanFull(t) ==
  /\ pc[t] = "scan"
  /\ rest[t] # NULL
  /\ StartPublish(t, "putback", rest[t], Last(Chain(rest[t])))
  /\ rest' = [rest EXCEPT ![t] = NULL]
  /\ UNCHANGED <<head, next, life, prev, op>>

ScanEnd(t) ==
  /\ pc[t] = "scan"
  /\ rest[t] = NULL
  /\ pc' = [pc EXCEPT ![t] = "idle"]
  /\ UNCHANGED <<head, next, life, job, expected, first, last, rest, prev, op>>

-----------------------------------------------------------------------------
(* Stoppers: uninstall_stoppable_callback() of the operation x.            *)

\* stop_callback.reset() returns once no thread is inside the callback, and
\* keeps it from being called; then move_all() begins.
CallbackRunning(x) == \E p \in Producers : op[p] = x

Uninstall(t, x) ==
  /\ pc[t] = "idle"
  /\ ~CallbackRunning(x)
  /\ life' = [life EXCEPT ![x] = "closed"]
  /\ op' = [op EXCEPT ![t] = x]
  /\ expected' = [expected EXCEPT ![t] = head]
  /\ pc' = [pc EXCEPT ![t] = "grab"]
  /\ UNCHANGED <<head, next, job, first, last, rest, prev>>

\* if(!op) return: the bucket was empty.
UninstallEmpty(t) ==
  /\ pc[t] = "prefix"
  /\ rest[t] = NULL
  /\ life' = [life EXCEPT ![op[t]] = "ready"]
  /\ next' = Rebuilt(op[t], next)
  /\ op' = [op EXCEPT ![t] = NULL]
  /\ pc' = [pc EXCEPT ![t] = "idle"]
  /\ UNCHANGED <<head, job, expected, first, last, rest, prev>>

\* How much of the chain s satisfies `node && node != this`; the variant
\* forgets the second half of the condition.
Prefix_KeepsThis(s, x) == s
Prefix(s, x) == SubSeq(s, 1, Before(s, x))

\* q.push_all(op, node && node != this)
PushPrefix(t) ==
  /\ pc[t] = "prefix"
  /\ rest[t] # NULL
  /\ LET kept == Prefix(Chain(rest[t]), op[t]) IN
       IF kept = << >>
       THEN /\ pc' = [pc EXCEPT ![t] = "suffix"]
            /\ UNCHANGED <<job, expected, first, last>>
       ELSE StartPublish(t, "prefix", rest[t], Last(kept))
  /\ rest' = [rest EXCEPT ![t] = NULL]
  /\ UNCHANGED <<head, next, life, prev, op>>

\* q.push_all(q.next(this), node): nothing to do for a null next(this).
PushSuffix(t) ==
  /\ pc[t] = "suffix"
  /\ next[op[t]] # NULL
  /\ StartPublish(t, "suffix", next[op[t]], Last(Chain(next[op[t]])))
  /\ UNCHANGED <<head, next, life, rest, prev, op>>

UninstallEnd(t) ==
  /\ pc[t] = "suffix"
  /\ next[op[t]] = NULL
  /\ life' = [life EXCEPT ![op[t]] = "ready"]
  /\ op' = [op EXCEPT ![t] = NULL]
  /\ pc' = [pc EXCEPT ![t] = "idle"]
  /\ UNCHANGED <<head, next, job, expected, first, last, rest, prev>>

-----------------------------------------------------------------------------
Publish(t) == LinkLast(t) \/ PublishFails(t) \/ PublishSucceeds(t)
MoveAll(t) == MoveAllLoad(t) \/ MoveAllFails(t) \/ MoveAllSucceeds(t)

Produce(t) == (\E n \in Nodes : Push(t, n)) \/ Publish(t)

Launch(t) == MoveAll(t) \/ ReverseStep(t) \/ ReverseEnd(t)
               \/ WalkNext(t) \/ Complete(t) \/ WalkEnd(t)

Stop(t) == \/ MoveAll(t) \/ Publish(t)
           \/ ScanNext(t) \/ ScanFull(t) \/ ScanEnd(t)
           \/ \E x \in Nodes : Uninstall(t, x)
           \/ UninstallEmpty(t) \/ PushPrefix(t) \/ PushSuffix(t) \/ UninstallEnd(t)

Next == \/ \E t \in Producers : Produce(t)
        \/ \E t \in Launchers : Launch(t)
        \/ \E t \in Stoppers : Stop(t)

Spec == Init /\ [][Next]_vars

-----------------------------------------------------------------------------
\* The chain from element f to element l.
Segment(f, l) == LET s == Chain(f)
                     k == Before(s, l)
                 IN  IF k = Len(s) THEN s ELSE SubSeq(s, 1, k + 1)

\* What consumer t has taken and still has to do, in the order it will do it.
Held(t) ==
  CASE pc[t] = "reverse" -> Reverse(Chain(rest[t])) \o Chain(prev[t])
    [] pc[t] \in {"walk", "complete", "scan", "prefix"} -> Chain(rest[t])
    [] pc[t] = "suffix" -> Chain(next[op[t]])
    [] pc[t] \in {"link", "cas"} ->
         Segment(first[t], last[t])
           \o (IF job[t] = "prefix" THEN Chain(next[op[t]]) ELSE << >>)
    [] OTHER -> << >>

(* An element is in one place at a time: on the list, in the hands of one  *)
(* consumer or on its way in with one producer, once; and none that is in  *)
(* such a place has been destroyed.  Retries, giving back, withdrawing and *)
(* reuse of an address never break this.                                   *)
ExclusiveOwnership ==
  LET chains == [t \in Consumers \cup {NULL} |->
                   IF t = NULL THEN Chain(head) ELSE Held(t)]
  IN  /\ \A t \in Consumers \cup {NULL} :
           /\ IsInjective(chains[t])
           /\ \A n \in Range(chains[t]) :
                /\ life[n] # "ready"
                /\ \A p \in Producers : op[p] # n
      /\ \A t, u \in Consumers \cup {NULL} :
           t # u => Range(chains[t]) \cap Range(chains[u]) = {}

(* A stop request that was withdrawn is gone: the bucket does not lead to  *)
(* an operation that uninstall_stoppable_callback() is done with, although *)
(* it puts everybody else's requests back in two pieces.                   *)
WithdrawnIsGone ==
  \A t \in Stoppers : pc[t] = "suffix" => op[t] \notin Range(Chain(head))

Abstract == INSTANCE SharedList
              WITH list <- Chain(head),
                   held <- [t \in Consumers |-> Held(t)],
                   OldestFirst <- Launchers # {} /\ ~Locality

(* push(), move_all(), push_all() and make_fifo() act at one instant each: *)
(* nothing is lost, doubled or reordered between a push and the completion *)
(* of the task, whatever CAS fails and whoever else uses the list.         *)
ImplementsSharedList == Abstract!Spec
=============================================================================
