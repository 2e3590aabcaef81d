------------------------------ MODULE IoContext ------------------------------
(***************************************************************************)
(* The Io_context of src/include/coroutine.h: a thread, its io_uring and   *)
(* the coroutines it resumes; several of them, and the switch_to() of      *)
(* src/include/co_context_switch.h that moves a coroutine from one to      *)
(* another.                                                                *)
(*                                                                         *)
(* A coroutine stands for a task and the tasks it awaits, which count as   *)
(* a single operation (coroutine.h: symmetric transfer).  While a thread   *)
(* has one resumed, the thread's next step is what the coroutine does.     *)
(* The Fifo through which a coroutine is moved acts in one step, as        *)
(* SpscFifo shows.  The I/O features (links, multishot, buffers, SQPOLL)   *)
(* and cancelled requests are left out.                                    *)
(***************************************************************************)
EXTENDS Integers, FiniteSets, Sequences, SequencesExt

CONSTANTS Contexts,       \* each with a thread of its own
          Coroutines,
          None,
          Entries,        \* size of a submission queue
          SwitchMax,      \* what a _switch_spsc holds: its SIZE - 1
          BatchMax,       \* BATCH_MAX of take_batch(); 1 is take_once()
          InflightConflict  \* uring_features::inflight_conflict

ASSUME ContextAssumption ==
  /\ Entries \in Nat \ {0}
  /\ SwitchMax \in Nat \ {0}
  /\ BatchMax \in Nat \ {0}
  /\ InflightConflict \in BOOLEAN
  /\ None \notin Contexts \cup Coroutines
  /\ IsFiniteSet(Coroutines)

VARIABLES
  operations,     \* _operations: coroutines to resume, oldest first
  switchSpsc,     \* _switch_spsc: coroutines that other contexts hand over
  inflight,       \* _inflight
  stop,           \* _stop
  sq, kern, cq,   \* the ring: prepared, submitted, completed requests
  pc,             \* where the thread is in run() and run_once()
  some,           \* coroutines of this batch still to be resumed
  done,           \* cqes of this pass that were reaped
  running,        \* the coroutine the thread has resumed
  storing,        \* the coroutine whose `ok` await_suspend() is about to set
  ok,             \* the flag in the awaiter of switch_to()
  from,           \* where the coroutine's last switch_to() was called
  told,           \* what its await_resume() returned
  fresh           \* coroutines that were not spawned yet

ringVars == <<sq, kern, cq>>
queueVars == <<operations, switchSpsc>>
loopVars == <<pc, some, done>>
switchVars == <<storing, ok, from, told>>
vars == <<queueVars, inflight, stop, ringVars, loopVars, running, switchVars, fresh>>

\* Nothing overruns: not the submission queue, not _switch_spsc, and
\* _inflight, a size_t, is never decremented below zero.
TypeOK ==
  /\ operations \in [Contexts -> Seq(Coroutines)]
  /\ switchSpsc \in [Contexts -> Seq(Coroutines)]
  /\ inflight \in [Contexts -> Nat]
  /\ stop \in [Contexts -> BOOLEAN]
  /\ sq \in [Contexts -> Seq(Coroutines)]
  /\ kern \in [Contexts -> SUBSET Coroutines]
  /\ cq \in [Contexts -> Seq(Coroutines)]
  /\ pc \in [Contexts -> {"run", "prepare", "batch", "submit", "reap", "returned"}]
  /\ some \in [Contexts -> 0 .. BatchMax]
  /\ done \in [Contexts -> Nat]
  /\ running \in [Contexts -> Coroutines \cup {None}]
  /\ storing \in [Contexts -> Coroutines \cup {None}]
  /\ ok \in [Coroutines -> BOOLEAN]
  /\ from \in [Coroutines -> Contexts \cup {None}]
  /\ told \in [Coroutines -> {"nothing", "switched", "refused"}]
  /\ fresh \subseteq Coroutines
  /\ \A k \in Contexts : Len(sq[k]) <= Entries /\ Len(switchSpsc[k]) <= SwitchMax

\* Some tasks are spawned before run() is called.
Init ==
  /\ fresh \in SUBSET Coroutines
  /\ \E k \in Contexts :
       operations = [j \in Contexts |->
                       IF j = k THEN SetToSeq(Coroutines \ fresh) ELSE << >>]
  /\ switchSpsc = [k \in Contexts |-> << >>]
  /\ inflight = [k \in Contexts |-> 0]
  /\ stop = [k \in Contexts |-> FALSE]
  /\ sq = [k \in Contexts |-> << >>]
  /\ kern = [k \in Contexts |-> {}]
  /\ cq = [k \in Contexts |-> << >>]
  /\ pc = [k \in Contexts |-> "run"]
  /\ some = [k \in Contexts |-> 0]
  /\ done = [k \in Contexts |-> 0]
  /\ running = [k \in Contexts |-> None]
  /\ storing = [k \in Contexts |-> None]
  /\ ok = [c \in Coroutines |-> FALSE]
  /\ from = [c \in Coroutines |-> None]
  /\ told = [c \in Coroutines |-> "nothing"]

\* The thread is in run_once() itself, not in a coroutine it has resumed.
InLoop(k) == running[k] = None /\ storing[k] = None

-----------------------------------------------------------------------------
(* run()                                                                   *)

Pending(k) == Len(operations[k])
Stopped(k) == stop[k] /\ Pending(k) = 0
Drained(k) == Pending(k) = 0 /\ inflight[k] = 0

\* for(...; running(); run_once())
RunTest(k) ==
  /\ pc[k] = "run"
  /\ pc' = [pc EXCEPT ![k] = IF Stopped(k) THEN "returned" ELSE "prepare"]
  /\ UNCHANGED <<queueVars, inflight, stop, ringVars, some, done, running,
                 switchVars, fresh>>

\* run() is called again: it resets _stop.
Rerun(k) ==
  /\ pc[k] = "returned"
  /\ stop' = [stop EXCEPT ![k] = FALSE]
  /\ pc' = [pc EXCEPT ![k] = "run"]
  /\ UNCHANGED <<queueVars, inflight, ringVars, some, done, running, switchVars,
                 fresh>>

-----------------------------------------------------------------------------
(* run_once()                                                              *)

\* run_once_prepare() pulls one coroutine that was handed over, whatever
\* else there is to do.  The variant does so only in an idle context.
Pulled_IfIdle(k) ==
  IF Drained(k) /\ switchSpsc[k] # << >> THEN <<Head(switchSpsc[k])>> ELSE << >>
Pulled(k) ==
  IF switchSpsc[k] # << >> THEN <<Head(switchSpsc[k])>> ELSE << >>

\* take_batch()
TakeBatch(n) == IF n < BatchMax THEN n ELSE BatchMax

Prepare(k) ==
  /\ pc[k] = "prepare"
  /\ operations' = [operations EXCEPT ![k] = @ \o Pulled(k)]
  /\ switchSpsc' = [switchSpsc EXCEPT ![k] = SubSeq(@, Len(Pulled(k)) + 1, Len(@))]
  /\ some' = [some EXCEPT ![k] = TakeBatch(Pending(k) + Len(Pulled(k)))]
  /\ pc' = [pc EXCEPT ![k] = "batch"]
  /\ UNCHANGED <<inflight, stop, ringVars, done, running, switchVars, fresh>>

\* op.resume(); a coroutine that comes out of switch_to() reads `ok`, in
\* await_resume().
Resume(k, c) ==
  /\ running' = [running EXCEPT ![k] = c]
  /\ told' = [told EXCEPT ![c] =
                IF from[c] = None THEN "nothing"
                ELSE IF ok[c] THEN "switched" ELSE "refused"]
  /\ UNCHANGED <<storing, ok, from>>

ResumeFront(k) ==
  /\ pc[k] = "batch" /\ InLoop(k)
  /\ some[k] > 0
  /\ Resume(k, Head(operations[k]))
  /\ operations' = [operations EXCEPT ![k] = Tail(@)]
  /\ some' = [some EXCEPT ![k] = @ - 1]
  /\ UNCHANGED <<switchSpsc, inflight, stop, ringVars, pc, done, fresh>>

BatchEnd(k) ==
  /\ pc[k] = "batch" /\ InLoop(k)
  /\ some[k] = 0
  /\ pc' = [pc EXCEPT ![k] = "submit"]
  /\ UNCHANGED <<queueVars, inflight, stop, ringVars, some, done, running,
                 switchVars, fresh>>

\* _inflight += io_uring_submit(&uring); the variant looks at the wrong side
\* of the call.
Submitted_After(k) == 0
Submitted(k) == Len(sq[k])

Submit(k) ==
  /\ pc[k] = "submit"
  /\ kern' = [kern EXCEPT ![k] = @ \cup Range(sq[k])]
  /\ inflight' = [inflight EXCEPT ![k] = @ + Submitted(k)]
  /\ sq' = [sq EXCEPT ![k] = << >>]
  /\ pc' = [pc EXCEPT ![k] =
              IF inflight'[k] = 0 /\ ~InflightConflict THEN "run" ELSE "reap"]
  /\ UNCHANGED <<queueVars, stop, cq, some, done, running, switchVars, fresh>>

\* The kernel answers a request.
KernelCompletes(k, c) ==
  /\ c \in kern[k]
  /\ kern' = [kern EXCEPT ![k] = @ \ {c}]
  /\ cq' = [cq EXCEPT ![k] = Append(@, c)]
  /\ UNCHANGED <<queueVars, inflight, stop, sq, loopVars, running, switchVars, fresh>>

\* io_uring_for_each_cqe() sees the cqes that arrive while it runs as well.
Reap(k) ==
  /\ pc[k] = "reap" /\ InLoop(k)
  /\ done[k] < Len(cq[k])
  /\ done' = [done EXCEPT ![k] = @ + 1]
  /\ Resume(k, cq[k][done[k] + 1])
  /\ UNCHANGED <<queueVars, inflight, stop, ringVars, pc, some, fresh>>

\* io_uring_cq_advance(&uring, done); the variant lets one go too many.
Advanced_ByOneMore(k) == SubSeq(cq[k], done[k] + 2, Len(cq[k]))
Advanced(k) == SubSeq(cq[k], done[k] + 1, Len(cq[k]))

\* inflight_conflict_workaround()
Workaround(n, d) == IF InflightConflict /\ n < d THEN d ELSE n

ReapEnd(k) ==
  /\ pc[k] = "reap" /\ InLoop(k)
  /\ cq' = [cq EXCEPT ![k] = Advanced(k)]
  /\ inflight' = [inflight EXCEPT ![k] = Workaround(@, done[k]) - done[k]]
  /\ done' = [done EXCEPT ![k] = 0]
  /\ pc' = [pc EXCEPT ![k] = "run"]
  /\ UNCHANGED <<queueVars, stop, sq, kern, some, running, switchVars, fresh>>

-----------------------------------------------------------------------------
(* What the coroutine c that thread k has resumed may do.  co_await of an  *)
(* operation for which there is no sqe returns -ENOMEM at once and changes *)
(* nothing.                                                                *)

\* The answer of its last switch_to() is behind the coroutine.
Forget(c) == /\ from' = [from EXCEPT ![c] = None]
             /\ told' = [told EXCEPT ![c] = "nothing"]

\* io_uring_get_sqe() finds room; the variant is one off.
HasSqe_OffByOne(k) == Len(sq[k]) <= Entries
HasSqe(k) == Len(sq[k]) < Entries

AwaitIo(k, c) ==
  /\ running[k] = c
  /\ HasSqe(k)
  /\ sq' = [sq EXCEPT ![k] = Append(@, c)]
  /\ running' = [running EXCEPT ![k] = None]
  /\ Forget(c)
  /\ UNCHANGED <<queueVars, inflight, stop, kern, cq, loopVars, storing, ok, fresh>>

\* co_spawn() of another task on this context.
Spawn(k, d) ==
  /\ running[k] # None
  /\ d \in fresh
  /\ fresh' = fresh \ {d}
  /\ operations' = [operations EXCEPT ![k] = Append(@, d)]
  /\ UNCHANGED <<switchSpsc, inflight, stop, ringVars, loopVars, running, switchVars>>

Stop(k) ==
  /\ running[k] # None
  /\ stop' = [stop EXCEPT ![k] = TRUE]
  /\ UNCHANGED <<queueVars, inflight, ringVars, loopVars, running, switchVars, fresh>>

\* final_suspend() destroys the coroutine; a new task may be spawned instead.
Finish(k, c) ==
  /\ running[k] = c
  /\ running' = [running EXCEPT ![k] = None]
  /\ fresh' = fresh \cup {c}
  /\ ok' = [ok EXCEPT ![c] = FALSE]
  /\ Forget(c)
  /\ UNCHANGED <<queueVars, inflight, stop, ringVars, loopVars, storing>>

\* await_suspend() of switch_to(j): push_to_switch(h) succeeds.  From here on
\* the other thread may resume the coroutine.
SwitchPush(k, j, c) ==
  /\ running[k] = c
  /\ j # k
  /\ Len(switchSpsc[j]) < SwitchMax
  /\ switchSpsc' = [switchSpsc EXCEPT ![j] = Append(@, c)]
  /\ ok' = [ok EXCEPT ![c] = FALSE]
  /\ from' = [from EXCEPT ![c] = k]
  /\ told' = [told EXCEPT ![c] = "nothing"]
  /\ storing' = [storing EXCEPT ![k] = c]
  /\ running' = [running EXCEPT ![k] = None]
  /\ UNCHANGED <<operations, inflight, stop, ringVars, loopVars, fresh>>

\* ok.store(_ok), into the frame of a coroutine this thread has given away.
SwitchStore(k) ==
  /\ storing[k] # None
  /\ ok' = [ok EXCEPT ![storing[k]] = TRUE]
  /\ storing' = [storing EXCEPT ![k] = None]
  /\ UNCHANGED <<queueVars, inflight, stop, ringVars, loopVars, running, from, told,
                 fresh>>

\* push_to_switch(h) fails: the coroutine is not suspended after all.
SwitchRefused(k, j, c) ==
  /\ running[k] = c
  /\ j # k
  /\ Len(switchSpsc[j]) = SwitchMax
  /\ ok' = [ok EXCEPT ![c] = FALSE]
  /\ from' = [from EXCEPT ![c] = k]
  /\ told' = [told EXCEPT ![c] = "refused"]
  /\ UNCHANGED <<queueVars, inflight, stop, ringVars, loopVars, running, storing,
                 fresh>>

-----------------------------------------------------------------------------
RunOnce(k) == \/ Prepare(k) \/ ResumeFront(k) \/ BatchEnd(k)
              \/ Submit(k) \/ Reap(k) \/ ReapEnd(k) \/ SwitchStore(k)

\* The coroutine gives the thread back.
Suspend(k, c) == \/ AwaitIo(k, c)
                 \/ Finish(k, c)
                 \/ \E j \in Contexts : SwitchPush(k, j, c)

Next == \E k \in Contexts :
          \/ RunTest(k) \/ Rerun(k) \/ RunOnce(k) \/ Stop(k)
          \/ \E c \in Coroutines :
               \/ Suspend(k, c) \/ Spawn(k, c) \/ KernelCompletes(k, c)
               \/ \E j \in Contexts : SwitchRefused(k, j, c)

Spec == Init /\ [][Next]_vars

(* The operating system runs every thread again and again, and no coroutine *)
(* keeps one for ever.  Nothing is assumed of the I/O, or of who calls     *)
(* run() again.                                                            *)
Fairness ==
  \A k \in Contexts :
    WF_vars(RunTest(k) \/ RunOnce(k) \/ \E c \in Coroutines : Suspend(k, c))

FairSpec == Spec /\ Fairness

-----------------------------------------------------------------------------
\* The cqes of context k that are still to be reaped.
Unseen(k) == SubSeq(cq[k], done[k] + 1, Len(cq[k]))

\* Where coroutine c is at context k: each place is one that will resume it.
Where(q, c) == {i \in DOMAIN q : q[i] = c}
PlacesAt(k, c) ==
  ({"operations"} \X Where(operations[k], c))
    \cup ({"switchSpsc"} \X Where(switchSpsc[k], c))
    \cup ({"sq"} \X Where(sq[k], c))
    \cup ({"kern"} \X {i \in {0} : c \in kern[k]})
    \cup ({"cq"} \X Where(Unseen(k), c))
    \cup ({"running"} \X {i \in {0} : running[k] = c})
Places(c) == UNION {{k} \X PlacesAt(k, c) : k \in Contexts}

(* A coroutine is never resumed twice from one suspension, nor lost: until *)
(* it finishes it is in exactly one queue, ring or thread, also while it   *)
(* moves from one context to another.                                      *)
OnePlace ==
  \A c \in Coroutines : Cardinality(Places(c)) = IF c \in fresh THEN 0 ELSE 1

(* _inflight counts the submitted requests that were not yet reaped, and   *)
(* assert(_inflight >= done) holds; nothing is taken off that was not put  *)
(* on, in either order of submission and completion.                       *)
InflightIsExact ==
  \A k \in Contexts : /\ inflight[k] = Cardinality(kern[k]) + Len(cq[k])
                      /\ inflight[k] >= done[k]

(* A coroutine that was handed over is resumed by the other context, if    *)
(* only that context's run() goes on: the I/O it has in flight and the     *)
(* tasks it spawns do not keep it from pulling.                            *)
SwitchedIsPulled ==
  \A k \in Contexts, c \in Coroutines :
    Contains(switchSpsc[k], c) ~> (running[k] = c \/ pc[k] = "returned")

(* What drained() is for (`while(!drained()) run_once();` to complete all  *)
(* tasks): when it says yes between two calls of run_once(), nobody is     *)
(* waiting on this context's ring.                                         *)
DrainedMeansComplete ==
  \A k \in Contexts :
    pc[k] = "run" /\ Drained(k) => sq[k] = << >> /\ kern[k] = {} /\ cq[k] = << >>

(* What co_await switch_to() answers: it says no only to a coroutine that  *)
(* is still where it was.                                                  *)
RefusalIsTrue ==
  \A k \in Contexts, c \in Coroutines :
    running[k] = c /\ told[c] = "refused" => from[c] = k
=============================================================================
