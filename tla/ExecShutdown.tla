---------------------------- MODULE ExecShutdown ----------------------------
(***************************************************************************)
(* How an io_uring_exec comes to its end: threads that leave run() and     *)
(* hand over the operations of their ring (transfer_run), the request to   *)
(* stop of the context, and the destructor, which waits for the threads    *)
(* and cancels what is left (terminal_run).                                *)
(*                                                                         *)
(* What run() does in normal times is UringExec's: here a pass of it takes *)
(* three steps, queues have no order, the queue of tasks has always room   *)
(* for one more request, and no operation is asked to stop by itself.      *)
(***************************************************************************)
EXTENDS Naturals, FiniteSets

CONSTANTS Workers,        \* threads that call run() and end
          Main,           \* the thread that owns the io_uring_exec
          Ops,
          Attached,       \* those scheduled through a local scheduler
          Slow,           \* those that the kernel cannot cancel at once
          Buckets         \* of _immediate_map

Threads == Workers \cup {Main}

ASSUME ShutdownAssumption ==
  /\ IsFiniteSet(Workers) /\ Main \notin Workers
  /\ Attached \subseteq Ops /\ Slow \subseteq Ops /\ Buckets # {}

VARIABLES
  \* the operations
  state,          \* "connected", "queued", "inflight" or "completed"
  result,         \* how it completed
  restarting,     \* those whose task in a queue is the one of async_restart()
  \* io_uring_exec
  immediate,      \* _immediate_map
  stopRequested,  \* its stop source
  mustHaveStopped,  \* _runloop_must_have_stopped
  runningLocal,   \* _running_local
  destroyed,
  \* io_uring_exec_local
  local,          \* "none" yet, "alive" or "gone"
  attached,       \* _attached_queue
  sq, kern, cq,   \* the ring
  \* each thread
  pc,
  policy,         \* of the run<policy>() it is in
  after           \* where it goes when that returns

opVars == <<state, result, restarting>>
stopVars == <<stopRequested, mustHaveStopped>>
localVars == <<runningLocal, destroyed, local>>
queueVars == <<immediate, attached>>
ringVars == <<sq, kern, cq>>
threadVars == <<pc, policy, after>>
vars == <<opVars, stopVars, localVars, queueVars, ringVars, threadVars>>

TypeOK ==
  /\ state \in [Ops -> {"connected", "queued", "inflight", "completed"}]
  /\ result \in [Ops -> {"none", "value", "stopped"}]
  /\ restarting \subseteq Ops
  /\ immediate \in [Buckets -> SUBSET Ops] /\ attached \in [Threads -> SUBSET Ops]
  /\ stopRequested \in BOOLEAN /\ mustHaveStopped \in BOOLEAN /\ destroyed \in BOOLEAN
  /\ runningLocal \in 0 .. Cardinality(Threads)
  /\ local \in [Threads -> {"none", "alive", "gone"}]
  /\ sq \in [Threads -> SUBSET Ops] /\ kern \in [Threads -> SUBSET Ops]
  /\ cq \in [Threads -> SUBSET (Ops \X {"value", "stopped"})]
  /\ pc \in [Threads -> {"out", "launch", "consume", "stopped", "leave",
                         "terminal", "wait", "destroy", "gone"}]
  /\ policy \in [Threads -> {"default", "transfer", "terminal"}]
  /\ after \in [Threads -> {"out", "stopped", "leave", "terminal", "destroy"}]

Init ==
  /\ state = [o \in Ops |-> "connected"]
  /\ result = [o \in Ops |-> "none"]
  /\ restarting = {}
  /\ immediate = [b \in Buckets |-> {}]
  /\ attached = [t \in Threads |-> {}]
  /\ stopRequested = FALSE /\ mustHaveStopped = FALSE /\ destroyed = FALSE
  /\ runningLocal = 0
  /\ local = [t \in Threads |-> "none"]
  /\ sq = [t \in Threads |-> {}]
  /\ kern = [t \in Threads |-> {}]
  /\ cq = [t \in Threads |-> {}]
  /\ pc = [t \in Threads |-> "out"]
  /\ policy = [t \in Threads |-> "default"]
  /\ after = [t \in Threads |-> "out"]

-----------------------------------------------------------------------------
(* Whoever uses the context, while it is there to be used.                 *)

InUse == /\ pc[Main] \notin {"terminal", "wait", "destroy", "gone"}
         /\ after[Main] \in {"out", "stopped"}

\* start_operation() of a task: in the next bucket, or that of a thread.
Schedule(o) ==
  /\ InUse
  /\ state[o] = "connected"
  /\ state' = [state EXCEPT ![o] = "queued"]
  /\ IF o \in Attached
     THEN /\ \E t \in Threads :
               /\ local[t] = "alive"
               /\ attached' = [attached EXCEPT ![t] = @ \cup {o}]
          /\ UNCHANGED immediate
     ELSE /\ \E b \in Buckets : immediate' = [immediate EXCEPT ![b] = @ \cup {o}]
          /\ UNCHANGED attached
  /\ UNCHANGED <<result, restarting, stopVars, localVars, ringVars, threadVars>>

RequestStop ==
  /\ InUse
  /\ stopRequested' = TRUE
  /\ UNCHANGED <<opVars, mustHaveStopped, localVars, queueVars, ringVars, threadVars>>

-----------------------------------------------------------------------------
(* run(): its beginning, a pass, and its end.                              *)

\* No run<policy>() is left to return from.
Goto(t, label) == /\ pc' = [pc EXCEPT ![t] = label]
                  /\ policy' = [policy EXCEPT ![t] = "default"]
                  /\ after' = [after EXCEPT ![t] = "out"]

\* run<p>(), which returns at once where `flag` says so.
Run(t, p, flag, goOn) ==
  IF flag THEN Goto(t, goOn)
  ELSE /\ pc' = [pc EXCEPT ![t] = "launch"]
       /\ policy' = [policy EXCEPT ![t] = p]
       /\ after' = [after EXCEPT ![t] = goOn]

\* get_local(): a thread's first one is constructed, and counts itself.
\* The variant constructs one each time.
Constructed_Always(t) == 1
Constructed(t) == IF local[t] = "none" THEN 1 ELSE 0

GetLocal(t) ==
  /\ local' = [local EXCEPT ![t] = "alive"]
  /\ runningLocal' = runningLocal + Constructed(t)
  /\ UNCHANGED destroyed

\* Where the flag is set, run() does not get as far as get_local().
Enter(t) ==
  /\ pc[t] = "out"
  /\ InUse \/ local[t] = "alive"
  /\ ~destroyed /\ ~mustHaveStopped
  /\ GetLocal(t)
  /\ Run(t, "default", FALSE, "out")
  /\ UNCHANGED <<opVars, stopVars, queueVars, ringVars>>

\* The tasks a pass moves from the queues: its own, and two buckets that
\* may be one, unless it is a transfer.
Pulled(t, b, c) ==
  attached[t] \cup (IF policy[t] = "transfer" THEN {} ELSE immediate[b] \cup immediate[c])

\* vtab.cancel() of a task; the task of async_restart() is a `then` in an
\* async_scope, and its set_stopped() never gets to the operation.
CancelTasks(T) ==
  /\ state' = [o \in Ops |-> IF o \in T \ restarting THEN "completed" ELSE state[o]]
  /\ result' = [o \in Ops |-> IF o \in T \ restarting THEN "stopped" ELSE result[o]]

\* policy.launch, then io_uring_submit().
Launch(t) ==
  /\ pc[t] = "launch"
  /\ \E b, c \in Buckets :
       LET T == Pulled(t, b, c) IN
       /\ IF policy[t] = "terminal"
          THEN CancelTasks(T) /\ kern' = [kern EXCEPT ![t] = @ \cup sq[t]]
          ELSE /\ state' = [o \in Ops |-> IF o \in T THEN "inflight" ELSE state[o]]
               /\ kern' = [kern EXCEPT ![t] = @ \cup sq[t] \cup T]
               /\ UNCHANGED result
       /\ restarting' = restarting \ T
       /\ immediate' = [d \in Buckets |-> immediate[d] \ T]
       /\ attached' = [attached EXCEPT ![t] = {}]
  /\ sq' = [sq EXCEPT ![t] = {}]
  /\ pc' = [pc EXCEPT ![t] = "consume"]
  /\ UNCHANGED <<stopVars, localVars, cq, policy, after>>

KernelCompletes(t, o) ==
  /\ o \in kern[t]
  /\ kern' = [kern EXCEPT ![t] = @ \ {o}]
  /\ cq' = [cq EXCEPT ![t] = @ \cup {<<o, "value">>}]
  /\ UNCHANGED <<opVars, stopVars, localVars, queueVars, sq, threadVars>>

\* vtab.restart(): a task that starts the operation again, whatever came of
\* its request.
Restart(o) ==
  /\ state' = [state EXCEPT ![o] = "queued"]
  /\ restarting' = restarting \cup {o}
  /\ \E b \in Buckets : immediate' = [immediate EXCEPT ![b] = @ \cup {o}]
  /\ UNCHANGED <<result, sq>>

\* vtab.complete(): a receiver that is told a value may go on to start
\* another operation, p, on this ring.
Complete(t, o, res) ==
  /\ \/ /\ state' = [state EXCEPT ![o] = "completed"]
        /\ UNCHANGED sq
     \/ \E p \in Ops :
          /\ res = "value" /\ state[p] = "connected"
          /\ state' = [state EXCEPT ![o] = "completed", ![p] = "inflight"]
          /\ sq' = [sq EXCEPT ![t] = @ \cup {p}]
  /\ result' = [result EXCEPT ![o] = res]
  /\ UNCHANGED <<restarting, immediate>>

\* consume_one(); the variant takes no notice of policy.transfer.
Consume_Completes(t, o, res) == Complete(t, o, res)
Consume(t, o, res) ==
  IF policy[t] = "transfer" THEN Restart(o) ELSE Complete(t, o, res)

ConsumeOne(t) ==
  /\ pc[t] = "consume"
  /\ \E cqe \in cq[t] : /\ Consume(t, cqe[1], cqe[2])
                        /\ cq' = [cq EXCEPT ![t] = @ \ {cqe}]
  /\ UNCHANGED <<stopVars, localVars, attached, kern, threadVars>>

\* greedy(): transfer and terminal take every cqe, and then return
\* (weakly_parallel).
PassEnd(t) ==
  /\ pc[t] = "consume" /\ policy[t] # "default"
  /\ cq[t] = {}
  /\ Goto(t, after[t])
  /\ UNCHANGED <<opVars, stopVars, localVars, queueVars, ringVars>>

\* submit_destructive_command(): flushes the submission queue, then cancels
\* whatever of this ring the kernel can.  The variant cancels first.
Flushed(t) == kern[t] \cup sq[t]
Cancelled_First(t) == kern[t] \ Slow
Cancelled(t) == Flushed(t) \ Slow

CancelAny(t) ==
  /\ kern' = [kern EXCEPT ![t] = Flushed(t) \ Cancelled(t)]
  /\ sq' = [sq EXCEPT ![t] = {}]
  /\ cq' = [cq EXCEPT ![t] = @ \cup (Cancelled(t) \X {"stopped"})]

\* remote.stop_requested(); the variant is policy.detached.
SeesStop_Detached == FALSE
SeesStop == stopRequested

\* The end of a default step, which may leave cqes for the next one: the
\* per-run() stop token, autoquit, or the next step.
StepEnd(t) ==
  /\ pc[t] = "consume" /\ policy[t] = "default"
  /\ \/ Goto(t, "out")
     \/ ~SeesStop /\ Goto(t, "launch")
  /\ UNCHANGED <<opVars, stopVars, localVars, queueVars, ringVars>>

\* The context was asked to stop: inplace_terminal_run(local).
StepEndStopped(t) ==
  /\ pc[t] = "consume" /\ policy[t] = "default"
  /\ SeesStop
  /\ CancelAny(t)
  /\ Run(t, "terminal", mustHaveStopped, "stopped")
  /\ UNCHANGED <<opVars, stopVars, localVars, queueVars>>

\* _runloop_must_have_stopped = true, on behalf of every thread.
Stopped(t) ==
  /\ pc[t] = "stopped"
  /\ mustHaveStopped' = TRUE
  /\ Goto(t, "out")
  /\ UNCHANGED <<opVars, stopRequested, localVars, queueVars, ringVars>>

-----------------------------------------------------------------------------
(* ~io_uring_exec_local(), at the end of a thread other than Main, whose   *)
(* own comes after that of the context.                                    *)

ExitThread(t) ==
  /\ t # Main /\ pc[t] = "out" /\ local[t] = "alive"
  /\ CancelAny(t)
  /\ Run(t, "transfer", FALSE, "leave")      \* the flag of the local itself
  /\ UNCHANGED <<opVars, stopVars, localVars, queueVars>>

\* _running_local.fetch_sub(1), and the members are destroyed with what is
\* left in them.
Leave(t) ==
  /\ pc[t] = "leave"
  /\ runningLocal' = runningLocal - 1
  /\ local' = [local EXCEPT ![t] = "gone"]
  /\ attached' = [attached EXCEPT ![t] = {}]
  \* io_uring_queue_exit(): sq and cq are empty already
  /\ kern' = [kern EXCEPT ![t] = {}]
  /\ Goto(t, "gone")
  /\ UNCHANGED <<opVars, stopVars, destroyed, immediate, sq, cq>>

-----------------------------------------------------------------------------
(* ~io_uring_exec()                                                        *)

\* transfer_run()
DestructorTransfers ==
  /\ pc[Main] = "out" /\ ~destroyed
  /\ GetLocal(Main)
  /\ CancelAny(Main)
  /\ Run(Main, "transfer", mustHaveStopped, "terminal")
  /\ UNCHANGED <<opVars, stopVars, queueVars>>

\* terminal_run()
TerminalRun ==
  /\ pc[Main] = "terminal"
  /\ stopRequested' = TRUE
  /\ Goto(Main, "wait")
  /\ UNCHANGED <<opVars, mustHaveStopped, localVars, queueVars, ringVars>>

\* Main thread == 1; the variant forgets it.
WaitIsOver_Early == runningLocal <= 2
WaitIsOver == runningLocal <= 1

Wait ==
  /\ pc[Main] = "wait"
  /\ WaitIsOver
  /\ CancelAny(Main)
  /\ Run(Main, "terminal", mustHaveStopped, "destroy")
  /\ UNCHANGED <<opVars, stopVars, localVars, queueVars>>

Destroy ==
  /\ pc[Main] = "destroy"
  /\ destroyed' = TRUE
  /\ immediate' = [b \in Buckets |-> {}]
  /\ Goto(Main, "gone")
  /\ UNCHANGED <<opVars, stopVars, runningLocal, local, attached, ringVars>>

Destructor == DestructorTransfers \/ TerminalRun \/ Wait \/ Destroy

-----------------------------------------------------------------------------
RunStep(t) == \/ Launch(t) \/ ConsumeOne(t) \/ PassEnd(t)
              \/ StepEnd(t) \/ StepEndStopped(t) \/ Stopped(t) \/ Leave(t)

\* Nothing but the operating system's clean-up is left to do.
Over == destroyed /\ \A t \in Threads : pc[t] \in {"out", "gone"}

Next ==
  \/ RequestStop \/ Destructor \/ (Over /\ UNCHANGED vars)
  \/ \E t \in Threads :
       \/ RunStep(t) \/ Enter(t) \/ ExitThread(t)
       \/ \E o \in Ops : KernelCompletes(t, o)
  \/ \E o \in Ops : Schedule(o)

Spec == Init /\ [][Next]_vars

(* Threads run, once it has begun the destructor goes on, and a thread     *)
(* does not call run() over and over again but ends some day.              *)
Fairness ==
  /\ \A t \in Threads : WF_vars(RunStep(t))
  /\ \A t \in Workers : SF_vars(ExitThread(t))
  /\ WF_vars(TerminalRun \/ Wait \/ Destroy)

FairSpec == Spec /\ Fairness

-----------------------------------------------------------------------------
\* The queues and rings that know of operation o.
Places(o) ==
  Cardinality({b \in Buckets : o \in immediate[b]})
    + Cardinality({t \in Threads : o \in attached[t]})
    + Cardinality({t \in Threads : o \in sq[t]})
    + Cardinality({t \in Threads : o \in kern[t]})
    + Cardinality({t \in Threads : \E res \in {"value", "stopped"} : <<o, res>> \in cq[t]})

(* No thread still runs, or is about to restart an operation, in a context *)
(* that ~io_uring_exec() has finished to destroy: a worker's ~local hands  *)
(* over to the context before it counts itself out.                        *)
NobodyOutlivesTheContext ==
  destroyed => \A w \in Workers : local[w] # "alive" /\ pc[w] \in {"out", "gone"}

(* As long as the context was not asked to stop, threads may come and go   *)
(* and transfer_run() leaves no operation behind: it is known in exactly   *)
(* one place, where some run() will find it.  This is not so of an         *)
(* operation of a local scheduler, which may be launched in the last pass, *)
(* nor of one that the kernel does not cancel at once.                     *)
LeavingLosesNothing ==
  ~stopRequested =>
    \A o \in Ops \ (Attached \cup Slow) :
      Places(o) = IF state[o] \in {"queued", "inflight"} THEN 1 ELSE 0

Contract == INSTANCE SenderContract
              WITH state <- [o \in Ops |->
                               IF state[o] \in {"queued", "inflight"} THEN "started"
                               ELSE state[o]],
                   asked <- [o \in Ops |-> stopRequested]

(* An operation completes once, and as stopped only after the context was  *)
(* asked to: the cancellation with which a thread takes its ring apart is  *)
(* never seen by a receiver.                                               *)
ImplementsSenderContract == Contract!Spec

(* ~io_uring_exec() returns, however the threads in run() are scheduled.   *)
DestructorReturns == pc[Main] \in {"terminal", "wait"} ~> destroyed

(* "Cancel all the pending tasks/operations" (~io_uring_exec()): when it   *)
(* is done nobody waits for an operation any more.                         *)
AllCancelled == destroyed => \A o \in Ops : state[o] \in {"connected", "completed"}
=============================================================================
