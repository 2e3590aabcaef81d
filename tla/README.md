# io_uring-examples-cpp in TLA+

A model of the two libraries of this repository and of what they promise:

* the **coroutine library** in `src/include` (C++20 coroutines over `io_uring`), and
* **uring_exec** in `src/experimental/stdexec` (senders/receivers over `io_uring`).

Below, `U/` is `src/experimental/stdexec/include/uring_exec/`.

## 1. The system

### Coroutine library (`src/include`)

| Component | State | Operations | Talks to |
|---|---|---|---|
| `Io_context` (`coroutine.h`) | `_operations`, `_inflight`, `_stop`, `_switch_spsc`, a ring | `run`, `run_once`, `co_spawn`, `stop`, `drained`, `push_to_switch` | kernel through the ring; other contexts through `_switch_spsc` |
| `Task`, `Async_operation` (`coroutine.h`) | coroutine frame, `sqe`/`cqe`/handle of a request | `co_await` a task or a request | resumed by `Io_context` |
| `Fifo` (`utils.h`) | `_buffer`, `_in`, `_out` | `push` (producer), `pop` (consumer) | shared by two threads |
| `switch_to` (`co_context_switch.h`) | `ok` in the awaiter | `await_suspend`, `await_resume` | moves a coroutine between contexts |
| io link / drain / multishot / provided buffers / SQPOLL (`feature_*.h`) | flags of a request, a buffer ring | decorate requests, cancel in a destructor, rejoin a buffer | kernel |
| `check`, `nofail`, `defer`, `make_server` (`utils.h`) | none | wrap system calls | - |

### uring_exec (`U/`)

| Component | State | Operations | Talks to |
|---|---|---|---|
| `intrusive_queue` (`detail.h`) | `_head`, a link in each element | `push`, `move_all`, `push_all`, `make_fifo`, `clear` | any thread |
| `trivial_intrusive_map`, schedulers (`io_uring_exec_internal.h`) | sixteen queues, `_store_balance` | `start_operation` of a remote or a local scheduler | filled by users, emptied by `run` |
| `run()` (`io_uring_exec_internal_run.h`) | `_walltime_step`, `_runloop_must_have_stopped`, both shared by all threads of an `io_uring_exec` | launch tasks, submit, consume cqes, issue cancel requests, stop | all of the above |
| `io_uring_exec_local` | a ring, `_attached_queue`, `_stopping_map`, `_inflight` | one per thread | kernel |
| `io_uring_exec_operation` | receiver, `stop_callback`, `local_scheduler` | `start`, `async_restart`, install/uninstall the callback, `complete`, `cancel`, `restart` | stop sources of its users; `_stopping_map` of its thread |
| shutdown | `_running_local`, the context's stop source | `transfer_run`, `terminal_run`, destructors | every thread |

### What is hard about it, and what makes it correct

* `Fifo`: two threads, stale loads, wrap-around. *No slot is used by both; it is a bounded FIFO.*
* `intrusive_queue`: CAS loops, address reuse, a list put back in two pieces.
  *Nothing is lost, doubled or reordered; no destroyed element stays reachable.*
* cancellation: three parties (requesting thread, owning thread, kernel) race for one operation.
  *One completion; "stopped" only if asked; a stop request is not lost; an old address is not cancelled.*
* run loop: one bucket per step, full submission queue, counters of requests.
  *Scheduled work is launched; `_inflight` is exact.*
* shutdown: threads leave in any order and hand over what they have in flight, while the
  destructor counts them. *Nobody outlives the context; leaving loses nothing; the destructor returns.*
* the servers: descriptors and buffers are used again while requests complete in an order of their own.
  *Messages are not lost, doubled or crossed; each connection has one handler.*
* `Io_context`: coroutines resumed in two phases of a pass, moved between threads.
  *No coroutine lost or resumed twice; statistics mean what they say.*

`PROJECT.json` lists each hazard at its line with the properties that would show it going wrong.

## 2. The modules

```
 BoundedFifo <--implements-- SpscFifo <--EXTENDS-- SpscFifo_proofs
                                |   acts in one step in
                                v
                            IoContext <--EXTENDS-- IoContext_proofs

 SharedList  <--implements-- IntrusiveQueue <--EXTENDS-- IntrusiveQueue_proofs
                                |   acts in one step in
                                v                          +-- MCUringExec
 SenderContract <--implements-- UringExec <--EXTENDS-------+-- UringExec_proofs
        ^
        +---------implements-- ExecShutdown <--EXTENDS-- ExecShutdown_proofs
                                                                     ^
 EchoServer <--EXTENDS-+- EchoServer_proofs    ExecTransfer_proofs --+ EXTENDS
                       +- MCEchoServer
```

The compositions are by abstraction: `SpscFifo` and `IntrusiveQueue` are checked at the
granularity of single memory accesses and shown to act atomically; `IoContext` and `UringExec`
use the atomic form (`switchSpsc`; `immediate`, `attached`, `stopping`).

**SpscFifo** (`utils.h`). `in`, `out`, `buffer` are the members. `push()` is `PushLoad` (argument,
acquire load of `_out`, test), `PushWrite`, `PushPublish`; `pop()` is `PopLoad`, `PopRead`,
`PopPublish`. An acquire load may return any value between the one this thread saw last
(`seenOut`, `seenIn`) and the current one, as C++ coherence allows. In this protocol every
release store is a store to an index, so what follows an acquire load is ordered as the model has it.

**IntrusiveQueue** (`detail.h` with `U/io_uring_exec_internal_run.h` and
`U/io_uring_exec_operation.h`). A thread's `pc` is the point it has reached in `push`/`push_all`
(`link`, `cas`), `move_all` (`grab`), `make_fifo` (`reverse`), the walk over tasks (`walk`,
`complete`), the scan for cancel requests (`scan`) or the withdrawal (`prefix`, `suffix`).
`compare_exchange_weak` may fail spuriously. An element that completes is destroyed and its
address is used again with a null link. The predicate loops of `push_all` and the link cuts run
over elements nobody else can reach and are single steps.

**UringExec** (`U/`). Each action is one access to shared state by a thread in `run()` (`pc`), by
a user of the context or by the kernel. `Start` is `io_uring_exec_operation::start()`,
including restart on a full queue; `InstallCallback` is separate, because a stop may be requested
in between; `RequestStop`/`Cancellation` are the two steps of a stop callback on another thread;
`ConsumeOne` is `complete()` with `uninstall_stoppable_callback()`. The batch stays in
`cq`, and counted in `inflight`, until `AdvanceCq`, as in the code. `StepLoad`/`StepStore` are the two halves
of the unsynchronised `_walltime_step++`. A race on a plain `size_t` is formally undefined; the
model takes the outcome a build produces, a load and a store.
`SenderContract` is what users see: started once, completed once, "stopped" only if asked.
The tasks of one `schedule() | let_value(async_...)` are one operation with one address, so that
a bucket of tasks and a bucket of stops are over the same small set `Ops`.

**IoContext** (`coroutine.h`, `co_context_switch.h`, `config.h`). A thread's `pc` is its place in
`run()`/`run_once()`; while it has resumed a coroutine (`running`) the next step is the coroutine's:
await I/O, spawn, stop, finish, switch (in two steps: push, then store `ok`). A context has its
own `Fifo`, whose producer is then the only other context, as `push_to_switch()` demands.

**ExecShutdown** (`U/`). How an `io_uring_exec` ends. A thread's `pc` is its place in `run()` (`launch`,
`consume`), `policy` the run policy it is in and `after` what it returns to: `leave` is the rest of
`~io_uring_exec_local()`, `terminal`, `wait`, `destroy` the rest of `~io_uring_exec()`, `stopped`
the line that sets `_runloop_must_have_stopped`. `CancelAny` is `submit_destructive_command()`: it flushes the ring (`Flushed`) and
cancels what is on it (`Cancelled`), except `Slow` operations, which the kernel may finish later.
In a transfer a cqe makes its operation a task again (`Restart`); in a terminal pass tasks are cancelled.
Bucket choice is arbitrary. Per-operation stop requests, order in queues and full submission
queues are `UringExec`'s and left out; `Enter` is one step, so a thread between `:127` and
`:132` of `run()` while the destructor counts is not considered. The destructor is only entered when `Main` is outside `run()`;
users schedule and stop until then (`InUse`), and worker threads run on.
Both modules implement the same `SenderContract`, this one with "asked" being the context's stop.

**EchoServer** (`src/examples`, `feature_*.h`). One of the servers (`program`) with its clients and
the kernel. `echo.cpp`, whose handlers submit at once and find buffers by descriptor (`bufMap`), and
the coroutine servers, whose requests wait in `sq` for the next `run_once()` (`Launch`, reaping until `PassEnd`): multishot (which, once
it is refused, is the plain `echo_coroutine.cpp`), drained, with provided buffers (`bufRing`, `held`), and the chain
write-write-close of `feature_io_link.cpp`. An `echo()` coroutine is where its one request is. `OnAccept`,
`OnRead`, `OnWrite`, `OnClose` are the handlers and, with another way to issue requests, the parts of the
coroutine between two suspensions. `nofail()` ends the program (`OnFailure`). The chain has no `nofail()`: when a write of it fails the kernel cancels the rest,
and `run_once()` skips those cqes. The cqe of the write itself resumes `std::noop_coroutine()`, for nobody awaits that request
(`Resumable`), so that the server goes on, and the coroutine waits for ever with its descriptor open (`OnBrokenChain`).

**External.** The kernel (`KernelCompletes`, `SubmitOne`, `Submit`): accepts every submission,
answers every request at most once, at any time or never, and in any order; a cancel request
finds an operation on the same ring that is still in the kernel, or finds none. `-EALREADY`, where the
kernel cannot interrupt what already runs, is the case in which the I/O is done first. stdexec
(`RequestStop`): a stop callback runs at most once and `reset()` waits for it.
In `EchoServer` the kernel starts requests in any order that drain and link flags allow, those of drained requests as
`feature_io_drain.h:11-13` has them: such a request starts when all earlier ones are complete, and no later one starts before it is (`DrainOrder`). A new connection gets the lowest descriptor that is free (`Lowest`).
A read that selected a buffer names it in its cqe, at end of file as well
(`feature_provided_buffers.h:51`). A request fails only when the client has gone or no buffer is left.

## 3. What the runs show

| Run | Instance | Result |
|---|---|---|
| `SpscFifo` | 4 slots, 2 values | `TypeOK`, `NoDataRace`, `IInv`, implements `BoundedFifo` |
| `IntrusiveQueueTasks` | 2 pushing threads, 2 launching threads, 3 nodes | `ExclusiveOwnership`, implements `SharedList` oldest first |
| `IntrusiveQueueStops` | 2 callbacks, 1 owner, 3 nodes | `ExclusiveOwnership`, `WithdrawnIsGone`, implements `SharedList` |
| `UringExecOne` | 1 thread, 1 remote and 1 attached operation, 2 buckets, SQ of 3, fair | `StopIsHonoured`, `ScheduledIsLaunched` |
| `UringExecTwo` | 2 threads, 2 remote operations, SQ of 1, batch of 1 | `NoDanglingReference`, `InflightIsExact`, `CancelsHitTheirTarget`, implements `SenderContract` |
| `UringExecShared` | 2 threads, 1 operation, fair | **violates** `StopIsHonoured` |
| `IoContext` | 2 contexts, 2 coroutines, SQ of 1, Fifo of 1, batch of 1, fair | `OnePlace`, `InflightIsExact`, `SwitchedIsPulled` |
| `IoContextDrained` | the same | **violates** `DrainedMeansComplete` |
| `IoContextSwitch` | the same, with `inflight_conflict` as it is shipped | **violates** `RefusalIsTrue` |
| `ExecShutdown` | 2 workers and the owner, 1 remote and 1 attached operation that is slow to cancel, 2 buckets, fair | `NobodyOutlivesTheContext`, `LeavingLosesNothing`, `DestructorReturns`, implements `SenderContract` |
| `ExecAllCancelled` | 1 worker, 2 remote operations, 2 buckets | **violates** `AllCancelled` |
| `EchoServer` | 5 programs, 2 clients of 2 messages, 1 buffer; 4 clients of the drained program; fair | `EchoesInOrder`, `OneHandlerEach`, `NoErasedBuffer`, `BuffersHaveOneOwner`, `RespondsInTurn`, `HelloThenGoodbye`, `NewcomersAreAccepted`, `GoodbyeIsSaid` |

### Why the bounds are enough

* *Fifo*: four slots hold three elements: empty, partly filled, wrapped and full rings all occur, and
  an index can be seen up to three stores late. The proof removes the bound.
* *Lists*: three nodes let a push, a held chain and a list coexist, so that each CAS can fail for
  each reason (push, `move_all`, reuse of the head's address) and a chain has a first, a middle
  and a last element for `make_fifo` and for the two pieces of `push_all`.
* *UringExec*: two buckets make the walk over buckets matter; two operations, one of which is started
  from the completion of the other, fill an SQ of one, so restart and "retry in the next round"
  happen; batch 1 and `iodone_maxnr` 1 take `greedy()` through all its answers. Nothing grows without bound: an operation has one request
  and at most one cancel request at a time, so the completion queue needs no cap.
* *UringExecOne* has a larger SQ, since with an SQ of at most `2 * (|Ops| - 1)` entries other
  operations may fill it for ever just before a particular one is started: neither the code nor
  the kernel promises any fairness between operations on a full queue, and no liveness is claimed there.
* *IoContext*: two coroutines, two contexts, and SQ, Fifo and batch of one put every queue at its limit.
  Counters need no cap: `_inflight` and `done` are bounded by the number of coroutines.
* *ExecShutdown*: with two workers one leaves while the other runs, both leave, or one stops the loop
  for all; a task can sit in the bucket that a pass does not look at. One operation takes each way
  (remote or attached, cancelled at once or later); one that completes may start the other.
* *EchoServer*: a descriptor is closed and accepted again for the second client, one buffer makes the ring
  run out and be fought over, two messages make order matter and a loop turn twice. A client sends
  at most `Says` of its program, and no more than `MaxMessages`; it may ask to be disconnected with any of them, hang up at any time, or stay silent.
  Clients connect in the order of `Arrivals`, which for interchangeable ones means no loss. With drained accepts two more accepts come between the
  first read of a connection and its first write, so the first client hears nothing before two others have connected: there four
  clients are needed for a second one to be answered, and the first two, which alone can be, send a message each.
  The proofs are for any `Arrivals` and `Says`.
* *Symmetry* (`WorkerSymmetry`) permutes interchangeable threads, only in `UringExecTwo`, which
  checks safety and a safety refinement.

### Fairness

`UringExec!Fairness`: each thread in `run()` keeps running, and so does a thread inside a stop
callback. `run()` has no blocking call, so this is what the operating system gives. I/O, users,
and stop requests are not fair: `StopIsHonoured` holds for I/O that never ends.
`IoContext!Fairness`: threads run, and a coroutine that was resumed gives the thread back.
A context may be left by `run()` once it is stopped; `SwitchedIsPulled` says so.
`ExecShutdown!Fairness`: threads in `run()` go on, and so does the destructor once it has begun. A thread that has
used the context ends some day if it is outside `run()` again and again (strong fairness of
`ExitThread`): the destructor waits for the *end* of each thread, so a thread that calls `run()` for
ever, or sleeps for ever, blocks it, and no scheduler helps. Neither the kernel nor users are fair.
`EchoServer!FairSpec`: the server runs and the kernel does what it can; clients may be silent for ever, so
nothing is claimed about answers, and nothing about acceptance with drained requests. `GoodbyeIsSaid` is about clients that stay: the kernel writes to them
and closes their connections sooner or later, whatever happens to the chains of others.

### Findings

1. **A stop request may be ignored for ever when several threads run** (`UringExecShared`).
   `_walltime_step` belongs to the shared `io_uring_exec`, but each thread uses it to choose a bucket
   of its *own* `_stopping_map`. With two threads in lock step each visits every other bucket.
   No increment has to be lost for this.
2. **`drained()` may say yes too early** (`IoContextDrained`). A coroutine resumed from a cqe
   prepares its next request after the submission of this pass; nothing counts it until the next
   `run_once()`, which `while(!drained()) run_once();` does not make. This is so with
   `inflight_conflict` false, where `_inflight` is meant to be accurate.
3. **`switch_to()` may deny that it switched** (`IoContextSwitch`). `ok` is stored after the
   handle was given to the other thread, so `await_resume()` there may read it first. Then the store
   may also go to a frame that was destroyed, which the model does not show.
4. **The destructor does not cancel everything** (`ExecAllCancelled`). Its terminal pass is one pass, which looks at
   two buckets of `_immediate_map`, and is skipped when a thread in `run()` has set
   `_runloop_must_have_stopped` on behalf of all. What is in the other buckets is never completed.
   Also, cancelling the task of `async_restart()` does not complete the operation it was to restart.

By the way, and without a run: when a write of `feature_io_link.cpp` fails, the close at the end of the chain is cancelled, and since `run_once()` skips
every `-ECANCELED` (`coroutine.h:175`) the coroutine that waits for it is never resumed; its frame and its descriptor are leaked. `GoodbyeIsSaid` shows that no other connection suffers.
On the drained server, where nothing starts while an earlier accept waits, even the first message of a client
is read only when another client has connected, and answered only when a third one has. `LeavingLosesNothing` has to exclude operations of a local scheduler, which a
transfer may launch after it has sent its cancel request, and those that the kernel does not cancel at once;
both are dropped when the ring is destroyed. A transfer does again what was already done, for it restarts every cqe, also that of I/O that succeeded.

## 4. What is proved

`SpscFifo_proofs` is about every `SIZE` and every set `T` of elements, from `SizeAssumption` (a
power of two greater than one; only `SIZE > 1` is used) and `ElementAssumption`.

`NoDataRace` is not inductive: a state in which the producer is about to write a slot that the consumer is
about to read is excluded only by what each of them has *seen*. `IInv` says that around
the ring `seenOut`, `out`, `seenIn`, `in` come in this order (their distances add up to less
than `SIZE`), that a producer past its test has found room before `seenOut`, that one past its write
has its element in the slot, and that a consumer past its test has found one before `seenIn`.
`RingArithmetic` collects the facts about distances on the ring that SMT proves; `InitIInv` and
`NextIInv` (one step per action) give `SpecIInv`, from which `SpecTypeOK` and `SpecNoDataRace` follow.

`SpecImplementsBoundedFifo` is the refinement: under `IInv`, `PushPublish` is the abstract `Push`,
`PopRead` the abstract `Pop`, everything else stutters (`NextRefines`); `QueueInRing` says where
the abstract queue lies in the buffer.

`IntrusiveQueue_proofs` is about any number of producers and launchers, or of producers and the one owner of a bucket of
stop requests, and any finite set of elements, from `ClientAssumption`. None of its four properties is inductive, for the code has no
variable that says what is on the list: there are only links, of elements that are destroyed and built again. `IInv` therefore
says that *some layout explains all links*: there is a function `Q` from places to sequences (the list; for each thread
the chain it goes through or publishes, `Main`, and what it has aside, `Aside`: the reversed part, the element it completes, what comes after the
operation it withdraws) such that

* `Apart`: no element occurs twice, in one place or in two;
* `MainOK`, `AsideOK`, `ListOK`: each sequence is what the links spell out from where the thread's variables point (`Linked`), to the end that
  its `pc` demands: null, the expected head (`cas`), or, while `make_fifo()` is at work, the sentinel, so that no other link leads there;
* `ElementsOK`: what is somewhere is alive; what is nowhere has a null link, as `PushSuffix` relies on when the operation was not on the list;
* `WithdrawnOK`, with the roles (`RolesOK`): an operation that is being withdrawn cannot be pushed again.

`Step` is the frame: a step that changes one thread's two chains and perhaps the list, takes no element from the others and writes
no link or life of theirs, leads to a layout again (`Laid`); `LocalStep`, `LocalMove` and `QuietStep` are its special cases, and there is one lemma per action, which
says what the new chains are (`Leads`). The head's address may have been used again between a load and a CAS that succeeds
(ABA): `PublishStep` needs only that `last`'s link is the head *now*, which the comparison says.
The model's `Chain` is a recursive function: `ChainIs` shows, by induction over sets of numbers, that it finds the sequence that the links spell out, and
`FindsChains` that `Held` is what `HeldIs` says of a layout. `SpecTypeOK`, `SpecExclusiveOwnership` and `SpecWithdrawnIsGone` follow.
For `SpecImplementsSharedList`, `PublishSucceeds` is the abstract `Push` or `PushAll`, `MoveAllSucceeds` is `MoveAll` (in reverse, before
`make_fifo()` has done anything), `WalkNext` and `ScanNext` are `Take`, a `PushPrefix` that finds its operation is `Withdraw`; everything else, every
failed CAS among it, stutters (`NextRefines`).

`ExecShutdown_proofs` is about every finite set of workers and all sets of operations and
buckets, from `ShutdownAssumption` (the owner is not a worker, the workers are finitely many,
`Attached` and `Slow` are operations, there is a bucket).

`NobodyOutlivesTheContext` speaks of the moment after `Destroy`, but is decided earlier, when
the destructor reads `_running_local`. `IInv` therefore has three parts: `DataOK` (types);
`Counted`, by which `_running_local` is the number of live locals at every step; and `ControlOK`, which
says where threads may be and that once the destructor is past its wait (`Past`) no worker has a live
local. `Counting` gives from the cardinality lemmas of the library that "at most one, and
`Main`'s is alive" means nobody else's; `Enter` then cannot make another one, for `Past` excludes `InUse`.
One lemma per part (`NextData`, `NextControl`, `NextCounted`, one step per action) gives `SpecIInv`, from
which `SpecTypeOK` and `SpecNobodyOutlives` follow.

For the refinement (`SpecImplementsSenderContract`) `StrongIInv` adds two parts. `StopOK`: whatever
acts on a request to stop does so after one was made, and a cqe that reports a cancellation nobody
asked for lies only in the ring of a thread that is transferring, where no receiver sees it.
`PlacedOK`: an operation in a queue is "queued", one in a ring "inflight", and it is in one ring, and in
one place of it; else a pass could launch what was completed, or complete an operation twice. `StepContract` then maps
`Schedule` to `Start`, `RequestStop` and `TerminalRun` to `Ask`, a terminal `Launch` and a `ConsumeOne`
that does not restart to `Complete`; everything else stutters.

`ExecTransfer_proofs` goes on from there to `SpecLeavingLosesNothing`. `PlacedOK` says that an operation is in
at most one place, the theorem that it is in one: nothing is dropped. What could drop it is `Leave`, which destroys a
ring and a queue. So `HandsOver` follows a thread from `CancelAny`, which empties its submission queue
and leaves only `Slow` operations with the kernel, through the one launch of a transfer, which adds only those of its own
`_attached_queue`, to the drained completion queue of `PassEnd`: when it leaves it has nothing of the others. `Kept` is
the other half, that an operation's state leads to a queue or a ring, in one bucket at most. The theorem holds until a
stop is requested, and `KeptOK` needs that the destructor is not past its wait before (`Past => stopRequested`).

`UringExec_proofs` is about every set of threads and operations, any number of buckets and all sizes of the submission
queue and the batches, from `ExecAssumption` (the sizes are positive, `BucketOf` is a function into the
buckets, `None` is neither a thread nor an operation). All four invariants and the refinement rest on one inductive invariant, for
none of them can be proved alone:

* `CountOK` (`InflightIsExact`) needs `ControlOK`, which ties `taken`, `some` and the completion queue to
  the point of `greedy()` a thread has reached: cqes that were handled stay in the queue, and counted, until `AdvanceCq`.
* `RingOK`: an operation in flight has exactly one request, on the ring of its `home` thread, and any other operation has none.
  Without the "one" a second cqe would complete an operation twice; without the "none" a new operation at the same address would get the old one's.
* `QueuedOK`: a task is in one queue, once. `RunTask` would otherwise start an operation that is in flight.
* `CallbackOK` and `StoppingOK`: a stop request that is queued belongs to an operation that is in flight *on that thread*, whose
  callback has fired, once and in the operation's own bucket. This is what `uninstall_stoppable_callback()` has to restore before the operation is gone.
* `CancelsOK`: a cancel request in the submission queue names an operation that is still in flight. It is so because a
  thread handles cqes only when everything it prepared is submitted (`Quiet`), so no completion comes between the scan and the kernel.

There is one lemma per part (`NextType`, `NextControl`, `NextQueued`, `NextRing`, ...), with one step per action.
`QueuesShrink` and `SamePlace` say once what most actions do to an operation that they are not about. `StepContract` maps
`Schedule` and a start from a completion to `Start`, `RequestStop` to `Ask`, `StartStopped` of an operation in a queue and a
`ConsumeOne` that takes an operation's cqe to `Complete`, `StartStopped` of a connected one to the contract's, `Reconnect` to
`Reconnect`; the start of an operation in a queue, also its restart on a full submission queue, stutters.

`IoContext_proofs` is about any number of contexts, of coroutines (finitely many) and all sizes, from `ContextAssumption`.
`PlaceOK`: a coroutine that was spawned is at one index of one queue or ring of one context, or running on one; any other is nowhere.
`PassOK`: the batch of `run_once()` is there to be resumed, and the cqes that are counted were there. `InflightIsExact`
needs both: that `_inflight -= done` does not underflow, and that adding the length of the submission
queue counts no coroutine twice. `PlacesAre` counts the places of `OnePlace` from `PlaceOK`.

`EchoServer_proofs` is about each of the six programs, any clients, descriptors and messages, and any finite ring of buffers
(`EchoAssumption`: descriptors are numbers, `None` is none of all these, the bounds `Arrivals` and `Says` are functions). The one idea is that a connection is *where its one request is*:

* `HandlersOK` counts (`Handlers`) what is on a descriptor in all four places, and says one if it is open and none if it is not. It is
  `OneHandlerEach` without the hypothesis that the server is still up.
* `QueuesOK` says what is in the queues by sets that depend on the state: `Pending`, `Ended` and `Spawned` are the requests, the cqes and the
  coroutines that find their client as they expect it (`Idle`: all that was read was written; `Carrying`: one
  message is in the client's buffer, `Room`, and next in order; `Empty` or `Holding` a provided buffer; `Mapped`: the buffer of echo.cpp exists).
  So `NoErasedBuffer` is part of it, and `EchoesInOrder` follows since a write is `Idle` or `Carrying`.
* The two need each other. A step that moves client c on falsifies what `QueuesOK` says of every other request on c's descriptor;
  `OthersOfKern` and `OthersOfCq` say that, by the count, there is none. What the step leaves alone is `Untouched`, and stays in the sets (`KeptPending`,
  `KeptSpawned`, `KeptEnded`). `ReadRoom` is why no other client's buffer is read into.
* `BuffersOK`: a buffer is in the ring as often as it is not held, once. It needs that at most one cqe of a close stands for a coroutine: by then the descriptor may
  belong to another connection, so that `HandlersOK` says nothing of it.
* `InTurn` is the reason of `RespondsInTurn`. It looks at what was prepared as one `Line == kern \o sq`, since a drained server submits in the order it prepares.
  There is one accept, in the line or as a cqe (`OneAccept`), and a coroutine is spawned together with the next one (`NewestBegins`). So the first read of a client
  that has heard nothing has an accept before it, which is drained: the read ends only when another client was accepted, and its first write when a third one was.
  `Newest(s, m, c)` says that c was accepted m clients before the last one; m is 0 or 1 for a first read in the line, 1 or 2 for one that has ended or for a first write (`LineInTurn`, `CqInTurn`). So
  a client hears nothing before two more were accepted (`HeardInTurn`), while each client that is still waiting (`NobodyForgotten`) is
  one of the last three: no earlier one waits. `NothingUnsaid` is why the first response has something in it, except for a client that hung up without a word.
* `LinkOK` is all that the types need of the sixth program, whose chains put three requests on a descriptor.
* `Linked` is the reason of `HelloThenGoodbye`, about the rest of a chain that each client has in the kernel: its requests are on the client's descriptor and
  in the order of the chain (`ChainsInOrder`), and one that has not its predecessor before it in the queue finds delivered what came before (`EachAfterThePrevious`, `Said`).
  A client gets one chain (`BegunOnce`), so `Launch` appends to nothing of the same client; a failure takes out a whole rest. The close that
  may start, by `LinkOrder`, has no predecessor left.

`DataLemmas` has what these proofs need of sequences and finite sets: `Append()`, `RemoveAt()`, `SetToSeq()`, prefixes, sets of one element and of none, how
many elements of a sequence are in a set (`Count`), and `FlattenSeq()`, by an induction over sets of numbers (`SetInduction`): its type, and where each of its elements comes from (`FlattenSeqPlaces`).

Only model-checked is liveness (`StopIsHonoured`, `ScheduledIsLaunched`,
`SwitchedIsPulled`, `DestructorReturns`, `NewcomersAreAccepted`, `GoodbyeIsSaid`), which is out of TLAPS's reach. So are the orders of steps that `IoContextDrained`, `IoContextSwitch`,
`UringExecShared` and `ExecAllCancelled` exhibit: they are counterexamples.

## 5. Not modelled

* Other policies of `run()`: `waitable`, `weakly_concurrent`, `blocking`, `detached`, `busyloop`, which only leave phases out
  or sleep. `autoquit` and the per-`run()` stop token are an arbitrary end of a step (`ExecShutdown!StepEnd`).
* `_inflight` on the shutdown path, where the destructive command is not counted and nobody reads it again.
* Hard links, the destructor of a multishot operation (`feature_multishot.h:42-61`), SQPOLL parameters,
  cancellation in the coroutine library.
* Short reads and writes, failures of `io_uring_submit()` and of allocation.
* `cat.cpp`, `test_multi_task.cpp` and the benchmarks, which use the library without state of their own;
  the signal blocker and `async_sigwait`; `multi_lock`, which nothing uses; vtables and other type plumbing; of the senders
  only `connect()` (`Reconnect`), the rest being compile-time adaptors.

## 6. Plan

Done: `BoundedFifo`, `SpscFifo`; `SharedList`, `IntrusiveQueue`; `SenderContract`, `UringExec`;
`IoContext`; `ExecShutdown`; `EchoServer`; the proofs about all of them.

Every safety property that a passing run checks is a theorem. What is left is outside of the models (section 5).
