------------------------------ MODULE UringExec ------------------------------
(***************************************************************************)
(* The execution context of uring_exec: threads that call                  *)
(* io_uring_exec::run(), the task queues they pull from, each thread's own *)
(* io_uring (io_uring_exec_local), the operations started on it and their  *)
(* cancellation.                                                           *)
(*                                                                         *)
(* A lock-free list acts in one step here, as IntrusiveQueue shows it may; *)
(* a task queue is kept oldest first, the order it is worked in, and a     *)
(* stopping bucket newest first, the order it is scanned in.               *)
(*                                                                         *)
(* run() is a member of the io_uring_exec that all the threads share, and  *)
(* so is the _walltime_step it uses to choose buckets: see StepLoad.       *)
(*                                                                         *)
(* Shutdown (request_stop() of the context, the destructors) is not part   *)
(* of this module.                                                         *)
(***************************************************************************)
EXTENDS Integers, FiniteSets, Sequences, SequencesExt

CONSTANTS Workers,        \* threads in run()
          Ops,            \* addresses of operation states
          Attached,       \* those scheduled through a local scheduler
          None,
          Buckets,        \* Fixed_bucket_size of the intrusive maps
          BucketOf,       \* address % Fixed_bucket_size
          Entries,        \* uring_entries: the size of a submission queue
          IodoneBatch,    \* run_policy.iodone_batch
          IodoneMaxnr     \* run_policy.iodone_maxnr

Bucket == 0 .. Buckets - 1

ASSUME ExecAssumption ==
  /\ Buckets \in Nat \ {0}
  /\ BucketOf \in [Ops -> Bucket]
  /\ Entries \in Nat \ {0}
  /\ IodoneBatch \in Nat \ {0}
  /\ IodoneMaxnr \in Nat
  /\ Attached \subseteq Ops
  /\ None \notin Ops \cup Workers

VARIABLES
  \* the operations
  state,          \* "connected", "queued", "inflight" or "completed"
  result,         \* how it completed
  stopRequested,  \* its receiver's stop token
  callback,       \* its stop_callback: "none", "armed", "running", "fired"
  home,           \* local_scheduler: the thread whose ring it is on
  \* io_uring_exec, shared by the threads
  immediate,      \* _immediate_map: a queue of tasks per bucket
  balance,        \* _store_balance % Fixed_bucket_size
  walltime,       \* _walltime_step % Fixed_bucket_size
  \* io_uring_exec_local, one per thread
  attached,       \* _attached_queue
  stopping,       \* _stopping_map: per bucket, the operations to cancel
  inflight,       \* _inflight
  sq, kern, cq,   \* the ring: submission queue, kernel, completion queue
  \* where each thread is in run()
  pc,
  tasks,          \* the tasks moved from a queue and not yet launched
  after,          \* where to go when they are launched
  cur,            \* the operation whose callback is about to be installed
  some, taken,    \* cqes in this batch, and how many are consumed
  done,           \* cqes consumed in this step of the loop
  step            \* the value of _walltime_step about to be incremented

opVars == <<state, result, stopRequested, callback, home>>
execVars == <<immediate, balance, walltime>>
queueVars == <<attached, stopping>>
ringVars == <<inflight, sq, kern, cq>>
runVars == <<pc, tasks, after, cur, some, taken, done, step>>
vars == <<opVars, execVars, queueVars, ringVars, runVars>>

\* Submission queue entries and completion queue entries.  The user_data of
\* a cancel request is `noop`; its argument is the address to look for.
Sqe == [kind : {"io", "cancel"}, op : Ops]
Cqe == [op : Ops \cup {None}, res : {"value", "stopped"}]

\* Nothing overruns: not the submission queue, not the counters of run(), and
\* _inflight, a size_t, is never decremented below zero.
TypeOK ==
  /\ state \in [Ops -> {"connected", "queued", "inflight", "completed"}]
  /\ result \in [Ops -> {"none", "value", "stopped"}]
  /\ stopRequested \in [Ops -> BOOLEAN]
  /\ callback \in [Ops -> {"none", "armed", "running", "fired"}]
  /\ home \in [Ops -> Workers \cup {None}]
  /\ immediate \in [Bucket -> Seq(Ops)]
  /\ balance \in Bucket /\ walltime \in Bucket
  /\ attached \in [Workers -> Seq(Ops)]
  /\ stopping \in [Workers -> [Bucket -> Seq(Ops)]]
  /\ inflight \in [Workers -> Nat]
  /\ sq \in [Workers -> Seq(Sqe)]
  /\ \A w \in Workers : Len(sq[w]) <= Entries
  /\ kern \in [Workers -> SUBSET Ops]
  /\ cq \in [Workers -> Seq(Cqe)]
  /\ pc \in [Workers -> {"attached", "robin", "random", "tasks", "install", "submit",
                         "peek", "consume", "stopping", "step", "store"}]
  /\ tasks \in [Workers -> Seq(Ops)]
  /\ after \in [Workers -> {"robin", "random", "submit"}]
  /\ cur \in [Workers -> Ops \cup {None}]
  /\ some \in [Workers -> 0 .. IodoneBatch]
  /\ taken \in [Workers -> 0 .. IodoneBatch]
  /\ done \in [Workers -> 0 .. IodoneMaxnr + IodoneBatch]
  /\ step \in [Workers -> Bucket]

Init ==
  /\ state = [o \in Ops |-> "connected"]
  /\ result = [o \in Ops |-> "none"]
  /\ stopRequested = [o \in Ops |-> FALSE]
  /\ callback = [o \in Ops |-> "none"]
  /\ home = [o \in Ops |-> None]
  /\ immediate = [b \in Bucket |-> << >>]
  /\ balance = 0
  /\ walltime \in Bucket                  \* a hash of the thread's id
  /\ attached = [w \in Workers |-> << >>]
  /\ stopping = [w \in Workers |-> [b \in Bucket |-> << >>]]
  /\ inflight = [w \in Workers |-> 0]
  /\ sq = [w \in Workers |-> << >>]
  /\ kern = [w \in Workers |-> {}]
  /\ cq = [w \in Workers |-> << >>]
  /\ pc = [w \in Workers |-> "attached"]
  /\ tasks = [w \in Workers |-> << >>]
  /\ after = [w \in Workers |-> "robin"]
  /\ cur = [w \in Workers |-> None]
  /\ some = [w \in Workers |-> 0]
  /\ taken = [w \in Workers |-> 0]
  /\ done = [w \in Workers |-> 0]
  /\ step = [w \in Workers |-> 0]

-----------------------------------------------------------------------------
(* Whoever uses the context: any thread may schedule and request a stop.   *)

\* start_operation(io_uring_exec *): the buckets are filled in turn.
PushImmediate(o) ==
  /\ immediate' = [immediate EXCEPT ![balance] = Append(@, o)]
  /\ balance' = (balance + 1) % Buckets

Schedule(o) ==
  /\ state[o] = "connected"
  /\ o \notin Attached
  /\ state' = [state EXCEPT ![o] = "queued"]
  /\ PushImmediate(o)
  /\ UNCHANGED <<result, stopRequested, callback, home, walltime, queueVars,
                 ringVars, runVars>>

\* start_operation(io_uring_exec_local *)
ScheduleOn(o, w) ==
  /\ state[o] = "connected"
  /\ o \in Attached
  /\ state' = [state EXCEPT ![o] = "queued"]
  /\ attached' = [attached EXCEPT ![w] = Append(@, o)]
  /\ UNCHANGED <<result, stopRequested, callback, home, execVars, stopping,
                 ringVars, runVars>>

\* request_stop() on the stop source of one operation: an installed callback
\* is taken out of the source's list and called.
RequestStop(o) ==
  /\ ~stopRequested[o]
  /\ state[o] # "completed"
  /\ stopRequested' = [stopRequested EXCEPT ![o] = TRUE]
  /\ callback' = [callback EXCEPT ![o] = IF @ = "armed" THEN "running" ELSE @]
  /\ UNCHANGED <<state, result, home, execVars, queueVars, ringVars, runVars>>

\* q.push(_self) on the stopping queue of the operation's own thread.
PushStopping(w, o) ==
  stopping' = [stopping EXCEPT ![w][BucketOf[o]] = <<o>> \o @]

\* cancellation::operator(), called by the requesting thread.
Cancellation(o) ==
  /\ callback[o] = "running"
  /\ PushStopping(home[o], o)
  /\ callback' = [callback EXCEPT ![o] = "fired"]
  /\ UNCHANGED <<state, result, stopRequested, home, execVars, attached,
                 ringVars, runVars>>

\* A completed operation state is destroyed; another is connected there.
Reconnect(o) ==
  /\ state[o] = "completed"
  /\ state' = [state EXCEPT ![o] = "connected"]
  /\ result' = [result EXCEPT ![o] = "none"]
  /\ stopRequested' = [stopRequested EXCEPT ![o] = FALSE]
  /\ UNCHANGED <<callback, home, execVars, queueVars, ringVars, runVars>>

-----------------------------------------------------------------------------
(* io_uring_exec_operation::start(), called by thread w.                   *)

\* io_uring_get_sqe() finds room; the variant does not check.
HasSqe_Unchecked(w) == TRUE
HasSqe(w) == Len(sq[w]) < Entries

Completes(o, r) ==
  /\ state' = [state EXCEPT ![o] = "completed"]
  /\ result' = [result EXCEPT ![o] = r]

\* stop_requested(): set_stopped() at once.
StartStopped(o) ==
  /\ stopRequested[o]
  /\ Completes(o, "stopped")
  /\ UNCHANGED <<stopRequested, callback, home, execVars, inflight, sq>>

StartSubmits(w, o) ==
  /\ ~stopRequested[o]
  /\ HasSqe(w)
  /\ inflight' = [inflight EXCEPT ![w] = @ + 1]
  /\ sq' = [sq EXCEPT ![w] = Append(@, [kind |-> "io", op |-> o])]
  /\ state' = [state EXCEPT ![o] = "inflight"]
  /\ home' = [home EXCEPT ![o] = w]
  /\ UNCHANGED <<result, stopRequested, callback, execVars>>

\* async_restart(): a task that calls start() again.
StartRestarts(w, o) ==
  /\ ~stopRequested[o]
  /\ ~HasSqe(w)
  /\ state' = [state EXCEPT ![o] = "queued"]
  /\ PushImmediate(o)
  /\ UNCHANGED <<result, stopRequested, callback, home, walltime, inflight, sq>>

\* start(), from which control goes on at `return`.
Start(w, o, return) ==
  \/ /\ StartSubmits(w, o)
     /\ cur' = [cur EXCEPT ![w] = o]
     /\ pc' = [pc EXCEPT ![w] = "install"]
  \/ /\ StartStopped(o) \/ StartRestarts(w, o)
     /\ pc' = [pc EXCEPT ![w] = return]
     /\ UNCHANGED cur

\* stop_callback.emplace(): if the stop was requested since start() looked,
\* the callback is called here and now.  The variant looks no more.
EmplaceCalls_Never(o) == FALSE
EmplaceCalls(o) == stopRequested[o]

\* Where a thread goes on that has launched a task, or started an operation.
Onward(w) == IF some[w] > 0 THEN "consume"
             ELSE IF tasks[w] # << >> THEN "tasks" ELSE after[w]

InstallCallback(w) ==
  /\ pc[w] = "install"
  /\ LET o == cur[w] IN
       IF EmplaceCalls(o)
       THEN /\ callback' = [callback EXCEPT ![o] = "fired"]
            /\ PushStopping(w, o)
       ELSE /\ callback' = [callback EXCEPT ![o] = "armed"]
            /\ UNCHANGED stopping
  /\ cur' = [cur EXCEPT ![w] = None]
  /\ pc' = [pc EXCEPT ![w] = Onward(w)]
  /\ UNCHANGED <<state, result, stopRequested, home, execVars, attached,
                 ringVars, tasks, after, some, taken, done, step>>

-----------------------------------------------------------------------------
(* run(), policy.launch                                                    *)

\* move_all() and make_fifo() of a queue that is then empty.
Moved(w, queue, goOn) ==
  /\ tasks' = [tasks EXCEPT ![w] = queue]
  /\ after' = [after EXCEPT ![w] = goOn]
  /\ pc' = [pc EXCEPT ![w] = IF queue = << >> THEN goOn ELSE "tasks"]
  /\ UNCHANGED <<cur, some, taken, done, step>>

LaunchAttached(w) ==
  /\ pc[w] = "attached"
  /\ Moved(w, attached[w], "robin")
  /\ attached' = [attached EXCEPT ![w] = << >>]
  /\ UNCHANGED <<opVars, execVars, stopping, ringVars>>

LaunchBucket(w, b, goOn) ==
  /\ Moved(w, immediate[b], goOn)
  /\ immediate' = [immediate EXCEPT ![b] = << >>]
  /\ UNCHANGED <<opVars, balance, walltime, queueVars, ringVars>>

LaunchRobin(w) == pc[w] = "robin" /\ LaunchBucket(w, walltime, "random")

LaunchRandom(w) == pc[w] = "random" /\ \E b \in Bucket : LaunchBucket(w, b, "submit")

\* op->vtab.complete(op) of a scheduled task: the receiver starts the
\* operation, or is stopped, which start() would find as well.
RunTask(w) ==
  /\ pc[w] = "tasks"
  /\ tasks' = [tasks EXCEPT ![w] = Tail(@)]
  /\ Start(w, Head(tasks[w]), IF Tail(tasks[w]) = << >> THEN after[w] ELSE "tasks")
  /\ UNCHANGED <<queueVars, kern, cq, after, some, taken, done, step>>

-----------------------------------------------------------------------------
(* run(), policy.submit, and the kernel.                                   *)

\* io_uring_submit() hands over every entry, in order.  A cancel request
\* finds an operation with that address on this ring or finds none.
SubmitOne(w) ==
  /\ pc[w] = "submit"
  /\ sq[w] # << >>
  /\ LET sqe == Head(sq[w])
         ack == [op |-> None, res |-> "value"]
     IN  IF sqe.kind = "io"
         THEN /\ kern' = [kern EXCEPT ![w] = @ \cup {sqe.op}]
              /\ UNCHANGED cq
         ELSE /\ kern' = [kern EXCEPT ![w] = @ \ {sqe.op}]
              /\ cq' = [cq EXCEPT ![w] =
                          IF sqe.op \in kern[w]
                          THEN @ \o <<ack, [op |-> sqe.op, res |-> "stopped"]>>
                          ELSE Append(@, ack)]
  /\ sq' = [sq EXCEPT ![w] = Tail(@)]
  /\ UNCHANGED <<opVars, execVars, queueVars, inflight, runVars>>

SubmitReturns(w) ==
  /\ pc[w] = "submit"
  /\ sq[w] = << >>
  /\ pc' = [pc EXCEPT ![w] = "peek"]
  /\ UNCHANGED <<opVars, execVars, queueVars, ringVars, tasks, after, cur, some,
                 taken, done, step>>

\* The I/O is done, well or badly.
KernelCompletes(w, o) ==
  /\ o \in kern[w]
  /\ kern' = [kern EXCEPT ![w] = @ \ {o}]
  /\ cq' = [cq EXCEPT ![w] = Append(@, [op |-> o, res |-> "value"])]
  /\ UNCHANGED <<opVars, execVars, queueVars, inflight, sq, runVars>>

-----------------------------------------------------------------------------
(* run(), policy.iodone                                                    *)

\* io_uring_peek_batch_cqe()
PeekBatch(w) ==
  /\ pc[w] = "peek"
  /\ LET n == IF Len(cq[w]) < IodoneBatch THEN Len(cq[w]) ELSE IodoneBatch IN
       /\ some' = [some EXCEPT ![w] = n]
       /\ pc' = [pc EXCEPT ![w] = IF n = 0 THEN "stopping" ELSE "consume"]
  /\ UNCHANGED <<opVars, execVars, queueVars, ringVars, tasks, after, cur, taken,
                 done, step>>

\* stop_callback.reset() waits for a callback that is running; the variant
\* does not.
ResetReturns_AtOnce(o) == TRUE
ResetReturns(o) == callback[o] # "running"

\* What it leaves of the callback; one that is running it cannot undo.
Deregistered(c) == IF c = "running" THEN c ELSE "none"

\* uninstall_stoppable_callback() withdraws the operation's stop request, if
\* it is still queued: what is before and what is behind it is pushed again.
\* The variant trusts that it has been served.
Without(q, o) == IF Contains(q, o) THEN RemoveAt(q, CHOOSE i \in DOMAIN q : q[i] = o)
                 ELSE q
Withdraw_Not(w, o) == stopping
Withdraw(w, o) == [stopping EXCEPT ![w][BucketOf[o]] = Without(@, o)]

\* consume_one(), and the operation's vtab.complete().
ConsumeOne(w) ==
  /\ pc[w] = "consume"
  /\ taken[w] < some[w]
  /\ LET cqe == cq[w][taken[w] + 1] IN
       IF cqe.op = None THEN UNCHANGED <<opVars, stopping>>    \* noop
       ELSE /\ ResetReturns(cqe.op)
            /\ stopping' = Withdraw(home[cqe.op], cqe.op)
            /\ callback' = [callback EXCEPT ![cqe.op] = Deregistered(@)]
            /\ home' = [home EXCEPT ![cqe.op] = None]
            /\ Completes(cqe.op, cqe.res)
            /\ UNCHANGED stopRequested
  /\ taken' = [taken EXCEPT ![w] = @ + 1]
  /\ UNCHANGED <<execVars, attached, ringVars, pc, tasks, after, cur, some, done,
                 step>>

\* set_value() may go on to start another operation on this very thread.
StartNext(w, o) ==
  /\ pc[w] = "consume"
  /\ taken[w] > 0
  /\ state[o] = "connected"
  /\ Start(w, o, "consume")
  /\ UNCHANGED <<queueVars, kern, cq, tasks, after, some, taken, done, step>>

\* greedy(some), with the total taken in this step: stop taking cqes.
Greedy(n, total) == total > IodoneMaxnr \/ n # IodoneBatch

\* io_uring_cq_advance(); the requests that were answered are not in flight.
AdvanceCq(w) ==
  /\ pc[w] = "consume"
  /\ taken[w] = some[w]
  /\ cq' = [cq EXCEPT ![w] = SubSeq(@, some[w] + 1, Len(@))]
  /\ inflight' = [inflight EXCEPT ![w] = @ - some[w]]
  /\ done' = [done EXCEPT ![w] = @ + some[w]]
  /\ pc' = [pc EXCEPT ![w] =
              IF Greedy(some[w], done[w] + some[w]) THEN "stopping" ELSE "peek"]
  /\ some' = [some EXCEPT ![w] = 0]
  /\ taken' = [taken EXCEPT ![w] = 0]
  /\ UNCHANGED <<opVars, execVars, queueVars, sq, kern, tasks, after, cur, step>>

-----------------------------------------------------------------------------
(* run(), not policy.blocking: cancel requests for one bucket.  Nobody     *)
(* else looks at what the thread has moved, so that its scan is one step.  *)

\* local.add_inflight() for each; the variant counts no cancel requests.
CountCancels_Not(w, n) == inflight
CountCancels(w, n) == [inflight EXCEPT ![w] = @ + n]

IssueCancels(w) ==
  /\ pc[w] = "stopping"
  /\ LET q == stopping[w][walltime]
         free == Entries - Len(sq[w])
         n == IF Len(q) < free THEN Len(q) ELSE free
     IN  /\ sq' = [sq EXCEPT ![w] =
                     @ \o [i \in 1 .. n |-> [kind |-> "cancel", op |-> q[i]]]]
         /\ inflight' = CountCancels(w, n)
         \* push_all(): retry when this bucket's turn comes again
         /\ stopping' = [stopping EXCEPT ![w][walltime] = SubSeq(q, n + 1, Len(q))]
  /\ pc' = [pc EXCEPT ![w] = "step"]
  /\ UNCHANGED <<opVars, execVars, attached, kern, cq, tasks, after, cur, some,
                 taken, done, step>>

-----------------------------------------------------------------------------
(* The end of the loop: _walltime_step++ on a plain size_t that every      *)
(* thread in run() increments, hence a load and a store.                   *)

StepLoad(w) ==
  /\ pc[w] = "step"
  /\ step' = [step EXCEPT ![w] = walltime]
  /\ pc' = [pc EXCEPT ![w] = "store"]
  /\ UNCHANGED <<opVars, execVars, queueVars, ringVars, tasks, after, cur, some,
                 taken, done>>

\* The variant forgets to count.
NextStep_Same(n) == n
NextStep(n) == (n + 1) % Buckets

StepStore(w) ==
  /\ pc[w] = "store"
  /\ walltime' = NextStep(step[w])
  /\ step' = [step EXCEPT ![w] = 0]
  /\ done' = [done EXCEPT ![w] = 0]
  /\ pc' = [pc EXCEPT ![w] = "attached"]
  /\ UNCHANGED <<opVars, immediate, balance, queueVars, ringVars, tasks, after, cur,
                 some, taken>>

-----------------------------------------------------------------------------
Launch(w) == LaunchAttached(w) \/ LaunchRobin(w) \/ LaunchRandom(w)
               \/ RunTask(w) \/ InstallCallback(w)
Submit(w) == SubmitOne(w) \/ SubmitReturns(w)
Iodone(w) == PeekBatch(w) \/ ConsumeOne(w) \/ AdvanceCq(w)
EndStep(w) == IssueCancels(w) \/ StepLoad(w) \/ StepStore(w)
Run(w) == Launch(w) \/ Submit(w) \/ Iodone(w) \/ EndStep(w)

Next == \/ \E o \in Ops : \/ Schedule(o) \/ RequestStop(o) \/ Cancellation(o)
                          \/ Reconnect(o)
                          \/ \E w \in Workers : \/ ScheduleOn(o, w)
                                                \/ KernelCompletes(w, o)
                                                \/ StartNext(w, o)
        \/ \E w \in Workers : Run(w)

Spec == Init /\ [][Next]_vars

(* A thread in run() is scheduled by the operating system again and again, *)
(* and so is one that is inside a stop callback.  Nothing is assumed of    *)
(* the I/O itself, nor of the users of the context.                        *)
Fairness == /\ \A w \in Workers : WF_vars(Run(w))
            /\ \A o \in Ops : WF_vars(Cancellation(o))

FairSpec == Spec /\ Fairness

-----------------------------------------------------------------------------
\* The operation's requests on ring w that are still to be answered or seen.
Unseen(w) == SubSeq(cq[w], taken[w] + 1, Len(cq[w]))
Requests(w, o) ==
  Cardinality({i \in DOMAIN sq[w] : sq[w][i] = [kind |-> "io", op |-> o]})
    + (IF o \in kern[w] THEN 1 ELSE 0)
    + Cardinality({i \in DOMAIN Unseen(w) : Unseen(w)[i].op = o})

(* The addresses the kernel and the queues hold are those of live          *)
(* operations: one that is in flight has exactly one request, on the ring  *)
(* of the thread that started it, and any other has none, nor a stop       *)
(* request or a callback through which a late request_stop() would reach   *)
(* it after it was destroyed.                                              *)
NoDanglingReference ==
  \A o \in Ops, w \in Workers :
    /\ Requests(w, o) = IF state[o] = "inflight" /\ home[o] = w THEN 1 ELSE 0
    /\ \A b \in Bucket : Contains(stopping[w][b], o)
         => state[o] = "inflight" /\ home[o] = w /\ callback[o] = "fired"
    /\ callback[o] # "none" => state[o] = "inflight"

(* _inflight counts what the kernel has still to answer and what run() has *)
(* still to see, cancel requests included: `autoquit` relies on it to tell *)
(* an idle thread from one that owes somebody a completion.                *)
InflightIsExact ==
  \A w \in Workers : inflight[w] = Len(sq[w]) + Cardinality(kern[w]) + Len(cq[w])

(* A cancel request is sent only while its operation is in flight, so that *)
(* one that is started later at the same address is never hit.             *)
CancelsHitTheirTarget ==
  \A w \in Workers : \A i \in DOMAIN sq[w] :
    sq[w][i].kind = "cancel" =>
      LET o == sq[w][i].op
      IN  state[o] = "inflight" /\ home[o] = w /\ stopRequested[o]

Contract == INSTANCE SenderContract
              WITH state <- [o \in Ops |->
                               IF state[o] \in {"queued", "inflight"} THEN "started"
                               ELSE state[o]],
                   asked <- stopRequested

(* Every operation completes once, and as stopped only if it was asked to. *)
ImplementsSenderContract == Contract!Spec

(* A task that is scheduled is launched: the thread's walk over the        *)
(* buckets comes by every one of them.                                     *)
ScheduledIsLaunched == \A o \in Ops : state[o] = "queued" ~> state[o] # "queued"

(* An operation in flight that is asked to stop completes, although its    *)
(* I/O may never be done.                                                  *)
StopIsHonoured ==
  \A o \in Ops : (state[o] = "inflight" /\ stopRequested[o]) ~> state[o] = "completed"
=============================================================================
