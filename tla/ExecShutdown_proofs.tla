------------------------- MODULE ExecShutdown_proofs -------------------------
(***************************************************************************)
(* Proofs about ExecShutdown for every finite set of threads and every set *)
(* of operations and buckets: its type correctness, that no thread         *)
(* outlives the context, and that it implements SenderContract.            *)
(***************************************************************************)
EXTENDS ExecShutdown, FiniteSetTheorems, TLAPS

\* The data of TypeOK.
DataOK ==
  /\ state \in [Ops -> {"connected", "queued", "inflight", "completed"}]
  /\ result \in [Ops -> {"none", "value", "stopped"}]
  /\ restarting \subseteq Ops
  /\ immediate \in [Buckets -> SUBSET Ops] /\ attached \in [Threads -> SUBSET Ops]
  /\ sq \in [Threads -> SUBSET Ops] /\ kern \in [Threads -> SUBSET Ops]
  /\ cq \in [Threads -> SUBSET (Ops \X {"value", "stopped"})]

ControlTypes ==
  /\ stopRequested \in BOOLEAN /\ mustHaveStopped \in BOOLEAN /\ destroyed \in BOOLEAN
  /\ local \in [Threads -> {"none", "alive", "gone"}]
  /\ pc \in [Threads -> {"out", "launch", "consume", "stopped", "leave",
                         "terminal", "wait", "destroy", "gone"}]
  /\ policy \in [Threads -> {"default", "transfer", "terminal"}]
  /\ after \in [Threads -> {"out", "stopped", "leave", "terminal", "destroy"}]

\* The destructor has seen that it is alone.
Past == destroyed \/ pc[Main] = "destroy" \/ after[Main] = "destroy"

\* Where threads may be, and what is known of their locals there.
ControlOK ==
  /\ ControlTypes
  /\ \A t \in Threads : after[t] # "out" => pc[t] \in {"launch", "consume"}
  /\ \A w \in Workers : /\ pc[w] \notin {"terminal", "wait", "destroy"}
                        /\ after[w] \notin {"terminal", "destroy"}
                        /\ local[w] = "none" => pc[w] = "out"
                        /\ local[w] = "gone" <=> pc[w] = "gone"
  /\ pc[Main] # "leave" /\ after[Main] # "leave" /\ local[Main] # "gone"
  /\ pc[Main] \in {"terminal", "wait", "destroy", "gone"} => local[Main] = "alive"
  /\ after[Main] \in {"terminal", "destroy"} => local[Main] = "alive"
  /\ destroyed <=> pc[Main] = "gone"
  /\ Past => \A w \in Workers : local[w] # "alive"

Alive == {t \in Threads : local[t] = "alive"}

Counted == runningLocal = Cardinality(Alive)

IInv == DataOK /\ ControlOK /\ Counted

\* Nothing acts on a request to stop that was not made.  The stops of
\* CancelAny that precede one are in the ring of a thread that transfers.
StopOK ==
  /\ mustHaveStopped => stopRequested
  /\ pc[Main] = "wait" => stopRequested
  /\ \A t \in Threads :
       /\ "stopped" \in {pc[t], after[t]} => stopRequested
       /\ policy[t] = "terminal" => stopRequested
       /\ policy[t] # "default" => pc[t] \in {"launch", "consume"}
       /\ \A o \in Ops : <<o, "stopped">> \in cq[t] =>
                           stopRequested \/ policy[t] = "transfer"

\* Operation o is known to the ring of t.
InRing(t, o) == o \in sq[t] \/ o \in kern[t] \/ <<o, "value">> \in cq[t]
                            \/ <<o, "stopped">> \in cq[t]

\* An operation is in a queue or in a ring, as its state says, and only once
\* in queues that different threads read and in rings.
Placed(o) ==
  /\ \A b \in Buckets : o \in immediate[b] =>
       /\ state[o] = "queued"
       /\ \A t \in Threads : o \notin attached[t]
  /\ \A t \in Threads :
       /\ o \in attached[t] =>
            state[o] = "queued" /\ \A u \in Threads : o \in attached[u] => u = t
       /\ InRing(t, o) =>
            state[o] = "inflight" /\ \A u \in Threads : InRing(u, o) => u = t
       /\ o \in sq[t] => o \notin kern[t]
       /\ o \in sq[t] \cup kern[t] =>
            <<o, "value">> \notin cq[t] /\ <<o, "stopped">> \notin cq[t]
       /\ ~(<<o, "value">> \in cq[t] /\ <<o, "stopped">> \in cq[t])

PlacedOK == \A o \in Ops : Placed(o)

StrongIInv == IInv /\ StopOK /\ PlacedOK

-----------------------------------------------------------------------------
(* The program begins with no local and no operation that was started.    *)
LEMMA InitIInv == Init => IInv
<1> SUFFICES ASSUME Init PROVE IInv
  OBVIOUS
<1>1. Alive = {}
  BY DEF Init, Alive
<1>2. DataOK
  BY DEF Init, DataOK
<1>3. ControlOK
  BY ShutdownAssumption DEF Init, ControlOK, ControlTypes, Past, Threads
<1>4. Counted
  BY <1>1, FS_EmptySet DEF Init, Counted
<1> QED BY <1>2, <1>3, <1>4 DEF IInv

(* A pass takes its tasks out of the queues: all of its own queue's, and   *)
(* some of the others'.                                                    *)
LEMMA Launching ==
  ASSUME DataOK, ControlTypes, NEW t \in Threads, Launch(t)
  PROVE  \E T \in SUBSET Ops :
           /\ attached[t] \subseteq T
           /\ \A o \in T : o \in attached[t] \/ \E d \in Buckets : o \in immediate[d]
           /\ IF policy[t] = "terminal"
              THEN CancelTasks(T) /\ kern' = [kern EXCEPT ![t] = @ \cup sq[t]]
              ELSE /\ state' = [o \in Ops |-> IF o \in T THEN "inflight" ELSE state[o]]
                   /\ kern' = [kern EXCEPT ![t] = @ \cup sq[t] \cup T]
                   /\ UNCHANGED result
           /\ restarting' = restarting \ T
           /\ immediate' = [d \in Buckets |-> immediate[d] \ T]
<1>1. PICK b \in Buckets, c \in Buckets :
         /\ IF policy[t] = "terminal"
            THEN CancelTasks(Pulled(t, b, c)) /\ kern' = [kern EXCEPT ![t] = @ \cup sq[t]]
            ELSE /\ state' = [o \in Ops |-> IF o \in Pulled(t, b, c) THEN "inflight" ELSE state[o]]
                 /\ kern' = [kern EXCEPT ![t] = @ \cup sq[t] \cup Pulled(t, b, c)]
                 /\ UNCHANGED result
         /\ restarting' = restarting \ Pulled(t, b, c)
         /\ immediate' = [d \in Buckets |-> immediate[d] \ Pulled(t, b, c)]
  BY DEF Launch
<1> DEFINE T == Pulled(t, b, c)
<1>2. /\ T \in SUBSET Ops
      /\ attached[t] \subseteq T
      /\ \A o \in T : o \in attached[t] \/ \E d \in Buckets : o \in immediate[d]
  BY DEF Pulled, DataOK
<1> QED BY <1>1, <1>2

(* Every step leaves operations where operations may be.                   *)
LEMMA NextData == DataOK /\ ControlTypes /\ [Next]_vars => DataOK'
<1> SUFFICES ASSUME DataOK, ControlTypes, [Next]_vars PROVE DataOK'
  OBVIOUS
<1> USE DEF DataOK, ControlTypes, Threads
<1>0. ASSUME NEW t \in Threads, CancelAny(t)
      PROVE  /\ kern' \in [Threads -> SUBSET Ops] /\ sq' \in [Threads -> SUBSET Ops]
             /\ cq' \in [Threads -> SUBSET (Ops \X {"value", "stopped"})]
  <2>1. Flushed(t) \in SUBSET Ops
    BY DEF Flushed
  <2>2. /\ kern' = [kern EXCEPT ![t] = Flushed(t) \ (Flushed(t) \ Slow)]
        /\ sq' = [sq EXCEPT ![t] = {}]
        /\ cq' = [cq EXCEPT ![t] = @ \cup ((Flushed(t) \ Slow) \X {"stopped"})]
    BY <1>0 DEF CancelAny, Cancelled
  <2>3. (Flushed(t) \ Slow) \X {"stopped"} \in SUBSET (Ops \X {"value", "stopped"})
    BY <2>1
  <2> QED BY <2>1, <2>2, <2>3
<1>1. CASE RequestStop \/ TerminalRun
  BY <1>1 DEF RequestStop, TerminalRun, opVars, queueVars, ringVars
<1>2. ASSUME NEW o \in Ops, Schedule(o) PROVE DataOK'
  BY <1>2 DEF Schedule, ringVars
<1>3. CASE DestructorTransfers \/ Wait
  BY <1>3, <1>0 DEF DestructorTransfers, Wait, opVars, queueVars
<1>4. CASE Destroy
  BY <1>4 DEF Destroy, opVars, ringVars
<1>5. ASSUME NEW t \in Threads, Enter(t) \/ PassEnd(t) \/ StepEnd(t) \/ Stopped(t)
      PROVE  DataOK'
  BY <1>5 DEF Enter, PassEnd, StepEnd, Stopped, opVars, queueVars, ringVars
<1>6. ASSUME NEW t \in Threads, ExitThread(t) \/ StepEndStopped(t) PROVE DataOK'
  BY <1>6, <1>0 DEF ExitThread, StepEndStopped, opVars, queueVars
<1>7. ASSUME NEW t \in Threads, Leave(t) PROVE DataOK'
  BY <1>7 DEF Leave, opVars
<1>8. ASSUME NEW t \in Threads, Launch(t) PROVE DataOK'
  <2>1. PICK T \in SUBSET Ops :
           /\ attached[t] \subseteq T
           /\ \A o \in T : o \in attached[t] \/ \E d \in Buckets : o \in immediate[d]
           /\ IF policy[t] = "terminal"
              THEN CancelTasks(T) /\ kern' = [kern EXCEPT ![t] = @ \cup sq[t]]
              ELSE /\ state' = [o \in Ops |-> IF o \in T THEN "inflight" ELSE state[o]]
                   /\ kern' = [kern EXCEPT ![t] = @ \cup sq[t] \cup T]
                   /\ UNCHANGED result
           /\ restarting' = restarting \ T
           /\ immediate' = [d \in Buckets |-> immediate[d] \ T]
    BY <1>8, Launching
  <2>2. /\ attached' = [attached EXCEPT ![t] = {}] /\ sq' = [sq EXCEPT ![t] = {}]
        /\ cq' = cq
    BY <1>8 DEF Launch
  <2>3. state' \in [Ops -> {"connected", "queued", "inflight", "completed"}]
    BY <2>1 DEF CancelTasks
  <2>4. result' \in [Ops -> {"none", "value", "stopped"}]
    BY <2>1 DEF CancelTasks
  <2>5. kern' \in [Threads -> SUBSET Ops]
    BY <2>1
  <2> QED BY <2>1, <2>2, <2>3, <2>4, <2>5
<1>9. ASSUME NEW t \in Threads, NEW o \in Ops, KernelCompletes(t, o) PROVE DataOK'
  BY <1>9 DEF KernelCompletes, opVars, queueVars
<1>10. ASSUME NEW t \in Threads, ConsumeOne(t) PROVE DataOK'
  <2>1. PICK cqe \in cq[t] : Consume(t, cqe[1], cqe[2]) /\ cq' = [cq EXCEPT ![t] = @ \ {cqe}]
    BY <1>10 DEF ConsumeOne
  <2>2. cqe[1] \in Ops /\ cqe[2] \in {"value", "stopped"}
    OBVIOUS
  <2>3. attached' = attached /\ kern' = kern
    BY <1>10 DEF ConsumeOne
  <2>4. CASE Restart(cqe[1])
    BY <2>1, <2>2, <2>3, <2>4 DEF Restart
  <2>5. CASE Complete(t, cqe[1], cqe[2])
    BY <2>1, <2>2, <2>3, <2>5 DEF Complete
  <2> QED BY <2>1, <2>4, <2>5 DEF Consume
<1>11. CASE UNCHANGED vars
  BY <1>11 DEF vars, opVars, queueVars, ringVars
<1> QED BY <1>1, <1>2, <1>3, <1>4, <1>5, <1>6, <1>7, <1>8, <1>9, <1>10, <1>11
        DEF Next, Destructor, RunStep

(* Locals are counted as they come and go.                                 *)
LEMMA Counting ==
  ASSUME ControlTypes, Counted, NEW t \in Threads
  PROVE  /\ IsFiniteSet(Alive) /\ runningLocal \in Nat
         /\ Cardinality(Alive \cup {t}) =
              IF local[t] = "alive" THEN runningLocal ELSE runningLocal + 1
         /\ Cardinality(Alive \ {t}) =
              IF local[t] = "alive" THEN runningLocal - 1 ELSE runningLocal
         /\ runningLocal <= 1 /\ local[t] = "alive" =>
              \A u \in Threads \ {t} : local[u] # "alive"
<1>1. IsFiniteSet(Threads)
  BY ShutdownAssumption, FS_AddElement DEF Threads
<1>2. IsFiniteSet(Alive)
  BY <1>1, FS_Subset DEF Alive
<1>3. runningLocal \in Nat
  BY <1>2, FS_CardinalityType DEF Counted
<1>4. t \in Alive <=> local[t] = "alive"
  BY DEF Alive
<1>5. Cardinality(Alive \cup {t}) =
        IF t \in Alive THEN runningLocal ELSE runningLocal + 1
  BY <1>2, FS_AddElement DEF Counted
<1>6. IsFiniteSet(Alive \ {t}) /\ Cardinality(Alive \ {t}) =
        IF t \in Alive THEN runningLocal - 1 ELSE runningLocal
  BY <1>2, FS_RemoveElement DEF Counted
<1>7. ASSUME runningLocal <= 1, local[t] = "alive"
      PROVE  \A u \in Threads \ {t} : local[u] # "alive"
  <2>1. Cardinality(Alive \ {t}) = 0
    BY <1>3, <1>4, <1>6, <1>7, FS_CardinalityType
  <2>2. Alive \ {t} = {}
    BY <1>6, <2>1, FS_EmptySet
  <2> QED BY <2>2 DEF Alive
<1> QED BY <1>2, <1>3, <1>4, <1>5, <1>6, <1>7

(* Every step leads a thread only where the destructor and its own local   *)
(* allow: the destructor goes on only when it is alone, and nobody enters  *)
(* run() for the first time after it has begun.                            *)
LEMMA NextControl == ControlOK /\ Counted /\ [Next]_vars => ControlOK'
<1> SUFFICES ASSUME ControlOK, Counted, [Next]_vars PROVE ControlOK'
  OBVIOUS
<1>a. Main \in Threads /\ Main \notin Workers /\ Workers \subseteq Threads
      /\ \A t \in Threads : t # Main => t \in Workers
  BY ShutdownAssumption DEF Threads
<1> USE <1>a DEF ControlOK, ControlTypes, Past, Goto, Run
<1>1. CASE RequestStop
  BY <1>1 DEF RequestStop, localVars, threadVars
<1>2. ASSUME NEW o \in Ops, Schedule(o) PROVE ControlOK'
  BY <1>2 DEF Schedule, stopVars, localVars, threadVars
<1>3. CASE DestructorTransfers
  BY <1>3 DEF DestructorTransfers, GetLocal, stopVars
<1>4. CASE TerminalRun
  BY <1>4 DEF TerminalRun, localVars
<1>5. CASE Wait
  <2>1. runningLocal <= 1 /\ local[Main] = "alive"
    BY <1>5 DEF Wait, WaitIsOver
  <2>2. \A u \in Threads \ {Main} : local[u] # "alive"
    BY <2>1, Counting
  <2>3. \A w \in Workers : local[w] # "alive"
    BY <2>2
  <2> QED BY <1>5, <2>3 DEF Wait, stopVars, localVars
<1>6. CASE Destroy
  BY <1>6 DEF Destroy, stopVars
<1>7. ASSUME NEW t \in Threads, Enter(t) PROVE ControlOK'
  BY <1>7 DEF Enter, InUse, GetLocal, stopVars
<1>8. ASSUME NEW t \in Threads, Launch(t) PROVE ControlOK'
  <2>1. /\ pc[t] = "launch" /\ pc' = [pc EXCEPT ![t] = "consume"]
        /\ UNCHANGED <<stopVars, localVars, policy, after>>
    BY <1>8 DEF Launch
  <2> QED BY <2>1 DEF stopVars, localVars
<1>9. ASSUME NEW t \in Threads, NEW o \in Ops, KernelCompletes(t, o) PROVE ControlOK'
  BY <1>9 DEF KernelCompletes, stopVars, localVars, threadVars
<1>10. ASSUME NEW t \in Threads, ConsumeOne(t) PROVE ControlOK'
  BY <1>10 DEF ConsumeOne, stopVars, localVars, threadVars
<1>11. ASSUME NEW t \in Threads, PassEnd(t) PROVE ControlOK'
  BY <1>11 DEF PassEnd, stopVars, localVars
<1>12. ASSUME NEW t \in Threads, StepEnd(t) PROVE ControlOK'
  BY <1>12 DEF StepEnd, stopVars, localVars
<1>13. ASSUME NEW t \in Threads, StepEndStopped(t) PROVE ControlOK'
  BY <1>13 DEF StepEndStopped, stopVars, localVars
<1>14. ASSUME NEW t \in Threads, Stopped(t) PROVE ControlOK'
  BY <1>14 DEF Stopped, localVars
<1>15. ASSUME NEW t \in Threads, ExitThread(t) PROVE ControlOK'
  BY <1>15 DEF ExitThread, stopVars, localVars
<1>16. ASSUME NEW t \in Threads, Leave(t) PROVE ControlOK'
  BY <1>16 DEF Leave, stopVars
<1>17. CASE UNCHANGED vars
  BY <1>17 DEF vars, stopVars, localVars, threadVars
<1> QED BY <1>1, <1>2, <1>3, <1>4, <1>5, <1>6, <1>7, <1>8, <1>9, <1>10, <1>11,
           <1>12, <1>13, <1>14, <1>15, <1>16, <1>17 DEF Next, Destructor, RunStep

(* Every step keeps _running_local the number of the locals there are.     *)
LEMMA NextCounted == ControlOK /\ Counted /\ [Next]_vars => Counted'
<1> SUFFICES ASSUME ControlOK, Counted, [Next]_vars PROVE Counted'
  OBVIOUS
<1> USE DEF ControlOK, ControlTypes
<1>1. ASSUME NEW t \in Threads, GetLocal(t), local[t] # "gone" PROVE Counted'
  <2>1. Alive' = Alive \cup {t}
    BY <1>1 DEF GetLocal, Alive
  <2>2. Constructed(t) = IF local[t] = "alive" THEN 0 ELSE 1
    BY <1>1 DEF Constructed
  <2>3. Cardinality(Alive \cup {t}) =
          IF local[t] = "alive" THEN runningLocal ELSE runningLocal + 1
    BY Counting
  <2>4. runningLocal \in Nat
    BY Counting
  <2> QED BY <1>1, <2>1, <2>2, <2>3, <2>4 DEF GetLocal, Counted
<1>2. ASSUME UNCHANGED <<runningLocal, local>> PROVE Counted'
  BY <1>2 DEF Counted, Alive
<1>3. ASSUME NEW t \in Threads, Enter(t) PROVE Counted'
  BY <1>1, <1>3, ShutdownAssumption DEF Enter, Threads
<1>4. CASE DestructorTransfers
  BY <1>1, <1>4 DEF DestructorTransfers, Threads
<1>5. ASSUME NEW t \in Threads, Leave(t) PROVE Counted'
  <2>1. local[t] = "alive"
    BY <1>5, ShutdownAssumption DEF Leave, Threads
  <2>2. Alive' = Alive \ {t}
    BY <1>5 DEF Leave, Alive
  <2> QED BY <1>5, <2>1, <2>2, Counting DEF Leave, Counted
<1>6. CASE RequestStop \/ TerminalRun \/ Wait \/ Destroy \/ UNCHANGED vars
  BY <1>2, <1>6 DEF RequestStop, TerminalRun, Wait, Destroy, vars, localVars
<1>7. ASSUME NEW o \in Ops, Schedule(o) PROVE Counted'
  BY <1>2, <1>7 DEF Schedule, localVars
<1>8. ASSUME NEW t \in Threads,
             \/ Launch(t) \/ ConsumeOne(t) \/ PassEnd(t) \/ StepEnd(t)
             \/ StepEndStopped(t) \/ Stopped(t) \/ ExitThread(t)
             \/ \E o \in Ops : KernelCompletes(t, o)
      PROVE  Counted'
  <2>1. UNCHANGED localVars
    BY <1>8 DEF Launch, ConsumeOne, PassEnd, StepEnd, StepEndStopped, Stopped,
                ExitThread, KernelCompletes
  <2> QED BY <1>2, <2>1 DEF localVars
<1> QED BY <1>3, <1>4, <1>5, <1>6, <1>7, <1>8 DEF Next, Destructor, RunStep

-----------------------------------------------------------------------------
(* Every reachable state satisfies the inductive invariant.                *)
THEOREM SpecIInv == Spec => []IInv
<1>1. Init => IInv
  BY InitIInv
<1>2. IInv /\ [Next]_vars => IInv'
  BY NextData, NextControl, NextCounted DEF IInv, ControlOK
<1> QED BY <1>1, <1>2, PTL DEF Spec

(* Type correctness, with _running_local never below zero nor above the    *)
(* number of threads.                                                      *)
THEOREM SpecTypeOK == Spec => []TypeOK
<1>1. IInv => TypeOK
  <2> SUFFICES ASSUME IInv PROVE TypeOK
    OBVIOUS
  <2>1. IsFiniteSet(Threads)
    BY ShutdownAssumption, FS_AddElement DEF Threads
  <2>2. /\ IsFiniteSet(Alive) /\ Cardinality(Alive) <= Cardinality(Threads)
        /\ Cardinality(Alive) \in Nat /\ Cardinality(Threads) \in Nat
    BY <2>1, FS_Subset, FS_CardinalityType DEF Alive
  <2>3. runningLocal \in 0 .. Cardinality(Threads)
    BY <2>2 DEF IInv, Counted
  <2> QED BY <2>3 DEF IInv, DataOK, ControlOK, ControlTypes, TypeOK
<1> QED BY <1>1, SpecIInv, PTL

(* No thread runs, or hands over operations, in a context that             *)
(* ~io_uring_exec() has finished to destroy.                               *)
THEOREM SpecNobodyOutlives == Spec => []NobodyOutlivesTheContext
<1>1. IInv => NobodyOutlivesTheContext
  BY DEF IInv, ControlOK, ControlTypes, Past, NobodyOutlivesTheContext, Threads
<1> QED BY <1>1, SpecIInv, PTL

-----------------------------------------------------------------------------
(* submit_destructive_command() takes every request out of the submission  *)
(* queue: into the kernel if it is slow to cancel, else it has a cqe.      *)
LEMMA Cancelling ==
  ASSUME DataOK, NEW t \in Threads, CancelAny(t)
  PROVE  /\ \A u \in Threads \ {t} : sq'[u] = sq[u] /\ kern'[u] = kern[u] /\ cq'[u] = cq[u]
         /\ sq'[t] = {}
         /\ \A o \in Ops :
              /\ o \in kern'[t] <=> o \in kern[t] \cup sq[t] /\ o \in Slow
              /\ <<o, "value">> \in cq'[t] <=> <<o, "value">> \in cq[t]
              /\ <<o, "stopped">> \in cq'[t] <=>
                   <<o, "stopped">> \in cq[t] \/ (o \in kern[t] \cup sq[t] /\ o \notin Slow)
  <1>1. /\ kern' = [kern EXCEPT ![t] = Flushed(t) \ (Flushed(t) \ Slow)]
        /\ sq' = [sq EXCEPT ![t] = {}]
        /\ cq' = [cq EXCEPT ![t] = @ \cup ((Flushed(t) \ Slow) \X {"stopped"})]
    BY DEF CancelAny, Cancelled
  <1>2. \A o \in Ops :
          /\ <<o, "stopped">> \in (Flushed(t) \ Slow) \X {"stopped"} <=> o \in Flushed(t) \ Slow
          /\ <<o, "value">> \notin (Flushed(t) \ Slow) \X {"stopped"}
    OBVIOUS
  <1> QED BY <1>1, <1>2 DEF DataOK, Flushed

(* Requests to stop are not forgotten, and cqes of a cancellation that     *)
(* nobody asked for do not outlast the transfer that made them.            *)
LEMMA NextStop == DataOK /\ ControlOK /\ StopOK /\ [Next]_vars => StopOK'
<1> SUFFICES ASSUME DataOK, ControlOK, StopOK, [Next]_vars PROVE StopOK'
  OBVIOUS
<1>a. Main \in Threads /\ Main \notin Workers /\ Workers \subseteq Threads
      /\ \A t \in Threads : t # Main => t \in Workers
  BY ShutdownAssumption DEF Threads
<1>b. cq \in [Threads -> SUBSET (Ops \X {"value", "stopped"})]
  BY DEF DataOK
<1> USE <1>a, <1>b DEF ControlOK, ControlTypes, StopOK, Goto, Run
<1>1. CASE RequestStop
  BY <1>1 DEF RequestStop, threadVars, ringVars
<1>2. ASSUME NEW o \in Ops, Schedule(o) PROVE StopOK'
  BY <1>2 DEF Schedule, stopVars, threadVars, ringVars
<1>3. CASE DestructorTransfers
  <2>1. CancelAny(Main) /\ pc[Main] = "out" /\ Run(Main, "transfer", mustHaveStopped, "terminal")
        /\ UNCHANGED stopVars
    BY <1>3 DEF DestructorTransfers
  <2>2. \A u \in Threads \ {Main} : cq'[u] = cq[u] /\ policy'[u] = policy[u]
    BY <2>1, Cancelling
  <2>3. stopRequested \/ policy'[Main] = "transfer"
    BY <2>1 DEF stopVars
  <2>4. \A u \in Threads, o \in Ops : <<o, "stopped">> \in cq'[u] =>
                                       stopRequested' \/ policy'[u] = "transfer"
    BY <2>1, <2>2, <2>3 DEF stopVars
  <2> HIDE <1>b
  <2> QED BY <2>1, <2>4 DEF stopVars
<1>4. CASE TerminalRun
  BY <1>4 DEF TerminalRun, ringVars
<1>5. CASE Wait
  BY <1>5, Cancelling DEF Wait, stopVars
<1>6. CASE Destroy
  BY <1>6 DEF Destroy, stopVars, ringVars
<1>7. ASSUME NEW t \in Threads, Enter(t) PROVE StopOK'
  BY <1>7 DEF Enter, stopVars, ringVars
<1>8. ASSUME NEW t \in Threads, Launch(t) PROVE StopOK'
  <2>1. /\ pc[t] = "launch" /\ pc' = [pc EXCEPT ![t] = "consume"]
        /\ UNCHANGED <<stopVars, cq, policy, after>>
    BY <1>8 DEF Launch
  <2> QED BY <2>1 DEF stopVars
<1>9. ASSUME NEW t \in Threads, NEW o \in Ops, KernelCompletes(t, o) PROVE StopOK'
  <2>1. /\ UNCHANGED <<stopVars, threadVars>>
        /\ cq' = [cq EXCEPT ![t] = @ \cup {<<o, "value">>}]
    BY <1>9 DEF KernelCompletes
  <2>2. \A p \in Ops, u \in Threads : <<p, "stopped">> \in cq'[u] => <<p, "stopped">> \in cq[u]
    BY <2>1
  <2> QED BY <2>1, <2>2 DEF stopVars, threadVars
<1>10. ASSUME NEW t \in Threads, ConsumeOne(t) PROVE StopOK'
  <2>1. UNCHANGED <<stopVars, threadVars>>
    BY <1>10 DEF ConsumeOne
  <2>2. \A u \in Threads : cq'[u] \subseteq cq[u]
    BY <1>10 DEF ConsumeOne
  <2> QED BY <2>1, <2>2 DEF stopVars, threadVars
<1>11. ASSUME NEW t \in Threads, PassEnd(t) PROVE StopOK'
  BY <1>11 DEF PassEnd, stopVars, ringVars
<1>12. ASSUME NEW t \in Threads, StepEnd(t) PROVE StopOK'
  BY <1>12 DEF StepEnd, stopVars, ringVars
<1>13. ASSUME NEW t \in Threads, StepEndStopped(t) PROVE StopOK'
  BY <1>13, Cancelling DEF StepEndStopped, SeesStop, stopVars
<1>14. ASSUME NEW t \in Threads, Stopped(t) PROVE StopOK'
  BY <1>14 DEF Stopped, ringVars
<1>15. ASSUME NEW t \in Threads, ExitThread(t) PROVE StopOK'
  <2>1. CancelAny(t) /\ pc[t] = "out" /\ Run(t, "transfer", FALSE, "leave")
        /\ UNCHANGED stopVars
    BY <1>15 DEF ExitThread
  <2>2. \A u \in Threads \ {t} : cq'[u] = cq[u] /\ policy'[u] = policy[u]
    BY <2>1, Cancelling
  <2>3. stopRequested \/ policy'[t] = "transfer"
    BY <2>1 DEF stopVars
  <2>4. \A u \in Threads, o \in Ops : <<o, "stopped">> \in cq'[u] =>
                                       stopRequested' \/ policy'[u] = "transfer"
    BY <2>1, <2>2, <2>3 DEF stopVars
  <2> HIDE <1>b
  <2> QED BY <2>1, <2>4 DEF stopVars
<1>16. ASSUME NEW t \in Threads, Leave(t) PROVE StopOK'
  BY <1>16 DEF Leave, stopVars
<1>17. CASE UNCHANGED vars
  BY <1>17 DEF vars, stopVars, threadVars, ringVars
<1> QED BY <1>1, <1>2, <1>3, <1>4, <1>5, <1>6, <1>7, <1>8, <1>9, <1>10, <1>11,
           <1>12, <1>13, <1>14, <1>15, <1>16, <1>17 DEF Next, Destructor, RunStep

\* Whatever the next state knows of operation o the present one does.
Fewer(o) ==
  /\ state'[o] = state[o]
  /\ \A b \in Buckets : o \in immediate'[b] => o \in immediate[b]
  /\ \A t \in Threads : /\ o \in attached'[t] => o \in attached[t]
                        /\ o \in sq'[t] => o \in sq[t]
                        /\ o \in kern'[t] => o \in kern[t]
                        /\ \A r \in {"value", "stopped"} : <<o, r>> \in cq'[t] => <<o, r>> \in cq[t]

(* What is in its place and copied nowhere stays so.                       *)
LEMMA FewerPlaced == ASSUME NEW o \in Ops, Placed(o), Fewer(o) PROVE Placed(o)'
BY DEF Placed, Fewer, InRing

(* Operations move between queues and rings without being copied.          *)
LEMMA NextPlaced == DataOK /\ ControlTypes /\ PlacedOK /\ [Next]_vars => PlacedOK'
<1> SUFFICES ASSUME DataOK, ControlTypes, PlacedOK, [Next]_vars, NEW o \in Ops
             PROVE  Placed(o)'
  BY DEF PlacedOK
<1>p. \A q \in Ops : Placed(q)
  BY DEF PlacedOK
<1>0. ASSUME UNCHANGED <<state, immediate, attached, sq, kern, cq>> PROVE Placed(o)'
  BY <1>0, <1>p DEF Placed, InRing
<1>1. CASE RequestStop \/ TerminalRun \/ UNCHANGED vars
  BY <1>0, <1>1 DEF RequestStop, TerminalRun, vars, opVars, queueVars, ringVars
<1>2. ASSUME NEW q \in Ops, Schedule(q) PROVE Placed(o)'
  <2>1. /\ state[q] = "connected" /\ state' = [state EXCEPT ![q] = "queued"]
        /\ UNCHANGED <<sq, kern, cq>>
    BY <1>2 DEF Schedule, ringVars
  <2>2. \/ /\ \E t \in Threads : attached' = [attached EXCEPT ![t] = @ \cup {q}]
           /\ UNCHANGED immediate
        \/ /\ \E b \in Buckets : immediate' = [immediate EXCEPT ![b] = @ \cup {q}]
           /\ UNCHANGED attached
    BY <1>2 DEF Schedule
  <2>3. CASE o # q
    <3>1. Fewer(o)
      BY <2>1, <2>2, <2>3 DEF Fewer, DataOK
    <3> QED BY <3>1, <1>p, FewerPlaced
  <2>4. CASE o = q
    <3>1. /\ \A b \in Buckets : q \notin immediate[b]
          /\ \A t \in Threads : q \notin attached[t] /\ ~InRing(t, q)
      BY <2>1, <1>p DEF Placed
    <3>2. state'[q] = "queued"
      BY <2>1 DEF DataOK
    <3>3. \A t \in Threads : ~InRing(t, q)'
      BY <2>1, <3>1 DEF InRing
    <3>4. \/ \A t \in Threads : q \notin attached'[t]
          \/ /\ \A b \in Buckets : q \notin immediate'[b]
             /\ \A t, u \in Threads : q \in attached'[t] /\ q \in attached'[u] => u = t
      BY <2>2, <3>1 DEF DataOK
    <3> QED BY <2>4, <3>2, <3>3, <3>4 DEF Placed, InRing
  <2> QED BY <2>3, <2>4
<1>3. ASSUME NEW t \in Threads, CancelAny(t), UNCHANGED <<state, immediate, attached>>
      PROVE  Placed(o)'
  <2>1. /\ \A u \in Threads \ {t} : sq'[u] = sq[u] /\ kern'[u] = kern[u] /\ cq'[u] = cq[u]
        /\ o \notin sq'[t]
        /\ o \in kern'[t] <=> o \in kern[t] \cup sq[t] /\ o \in Slow
        /\ <<o, "value">> \in cq'[t] <=> <<o, "value">> \in cq[t]
        /\ <<o, "stopped">> \in cq'[t] <=>
             <<o, "stopped">> \in cq[t] \/ (o \in kern[t] \cup sq[t] /\ o \notin Slow)
    BY <1>3, Cancelling
  <2>2. \A u \in Threads : InRing(u, o)' <=> InRing(u, o)
    BY <2>1 DEF InRing
  <2> QED BY <1>3, <1>p, <2>1, <2>2 DEF Placed, InRing
<1>4. CASE DestructorTransfers \/ Wait
  BY <1>3, <1>4 DEF DestructorTransfers, Wait, Threads, opVars, queueVars
<1>5. CASE Destroy
  <2>1. Fewer(o)
    BY <1>5 DEF Destroy, opVars, ringVars, Fewer
  <2> QED BY <2>1, <1>p, FewerPlaced
<1>6. ASSUME NEW t \in Threads, Enter(t) \/ PassEnd(t) \/ StepEnd(t) \/ Stopped(t)
      PROVE  Placed(o)'
  BY <1>0, <1>6 DEF Enter, PassEnd, StepEnd, Stopped, opVars, queueVars, ringVars
<1>7. ASSUME NEW t \in Threads, ExitThread(t) \/ StepEndStopped(t) PROVE Placed(o)'
  BY <1>3, <1>7 DEF ExitThread, StepEndStopped, opVars, queueVars
<1>8. ASSUME NEW t \in Threads, Leave(t) PROVE Placed(o)'
  <2>1. Fewer(o)
    BY <1>8 DEF Leave, opVars, DataOK, Fewer
  <2> QED BY <2>1, <1>p, FewerPlaced
<1>9. ASSUME NEW t \in Threads, Launch(t) PROVE Placed(o)'
  <2>1. PICK T \in SUBSET Ops :
           /\ attached[t] \subseteq T
           /\ \A q \in T : q \in attached[t] \/ \E d \in Buckets : q \in immediate[d]
           /\ IF policy[t] = "terminal"
              THEN CancelTasks(T) /\ kern' = [kern EXCEPT ![t] = @ \cup sq[t]]
              ELSE /\ state' = [q \in Ops |-> IF q \in T THEN "inflight" ELSE state[q]]
                   /\ kern' = [kern EXCEPT ![t] = @ \cup sq[t] \cup T]
                   /\ UNCHANGED result
           /\ restarting' = restarting \ T
           /\ immediate' = [d \in Buckets |-> immediate[d] \ T]
    BY <1>9, Launching
  <2>2. /\ attached' = [attached EXCEPT ![t] = {}] /\ sq' = [sq EXCEPT ![t] = {}]
        /\ cq' = cq
    BY <1>9 DEF Launch
  <2>3. CASE o \in T
    <3>1. /\ state[o] = "queued"
          /\ \A u \in Threads : ~InRing(u, o) /\ (u # t => o \notin attached[u])
      BY <2>1, <2>3, <1>p DEF Placed
    <3>2. /\ \A d \in Buckets : o \notin immediate'[d]
          /\ \A u \in Threads : o \notin attached'[u] /\ o \notin sq'[u]
          /\ \A u \in Threads : <<o, "value">> \notin cq'[u] /\ <<o, "stopped">> \notin cq'[u]
      BY <2>1, <2>2, <2>3, <3>1 DEF DataOK, InRing
    <3>3. CASE policy[t] = "terminal"
      <4>1. \A u \in Threads : o \notin kern'[u]
        BY <2>1, <3>1, <3>3 DEF DataOK, InRing
      <4> QED BY <3>2, <4>1 DEF Placed, InRing
    <3>4. CASE policy[t] # "terminal"
      <4>1. state'[o] = "inflight" /\ \A u \in Threads : o \in kern'[u] => u = t
        BY <2>1, <2>3, <3>1, <3>4 DEF DataOK, InRing
      <4> QED BY <3>2, <4>1 DEF Placed, InRing
    <3> QED BY <3>3, <3>4
  <2>4. CASE o \notin T
    <3>1. state'[o] = state[o]
      BY <2>1, <2>4 DEF CancelTasks
    <3>2. /\ \A d \in Buckets : o \in immediate'[d] <=> o \in immediate[d]
          /\ \A u \in Threads : /\ o \in attached'[u] => o \in attached[u]
                                /\ cq'[u] = cq[u]
                                /\ u # t => sq'[u] = sq[u] /\ kern'[u] = kern[u]
          /\ o \notin sq'[t]
      BY <2>1, <2>2, <2>4 DEF DataOK
    <3>3. o \in kern'[t] <=> o \in kern[t] \cup sq[t]
      BY <2>1, <2>4 DEF DataOK
    <3>4. \A u \in Threads : InRing(u, o)' <=> InRing(u, o)
      BY <3>2, <3>3 DEF InRing
    <3> QED BY <1>p, <3>1, <3>2, <3>3, <3>4 DEF Placed, InRing
  <2> QED BY <2>3, <2>4
<1>10. ASSUME NEW t \in Threads, NEW q \in Ops, KernelCompletes(t, q) PROVE Placed(o)'
  <2>1. /\ q \in kern[t] /\ kern' = [kern EXCEPT ![t] = @ \ {q}]
        /\ cq' = [cq EXCEPT ![t] = @ \cup {<<q, "value">>}]
        /\ UNCHANGED <<state, immediate, attached, sq>>
    BY <1>10 DEF KernelCompletes, opVars, queueVars
  <2>2. CASE o # q
    <3>1. Fewer(o)
      BY <2>1, <2>2 DEF Fewer, DataOK
    <3> QED BY <3>1, <1>p, FewerPlaced
  <2>3. CASE o = q
    <3>1. \A u \in Threads : InRing(u, o)' <=> InRing(u, o)
      BY <2>1, <2>3 DEF InRing, DataOK
    <3>2. /\ o \notin kern'[t]
          /\ \A u \in Threads : <<o, "stopped">> \in cq'[u] <=> <<o, "stopped">> \in cq[u]
          /\ \A u \in Threads \ {t} : cq'[u] = cq[u] /\ kern'[u] = kern[u]
      BY <2>1, <2>3 DEF DataOK
    <3> QED BY <1>p, <2>1, <2>3, <3>1, <3>2 DEF Placed, InRing
  <2> QED BY <2>2, <2>3
<1>11. ASSUME NEW t \in Threads, ConsumeOne(t) PROVE Placed(o)'
  <2>1. PICK cqe \in cq[t] : Consume(t, cqe[1], cqe[2]) /\ cq' = [cq EXCEPT ![t] = @ \ {cqe}]
    BY <1>11 DEF ConsumeOne
  <2>2. PICK q \in Ops, r \in {"value", "stopped"} : cqe = <<q, r>>
    BY <2>1 DEF DataOK
  <2>3. attached' = attached /\ kern' = kern
    BY <1>11 DEF ConsumeOne
  <2>4. /\ state[q] = "inflight"
        /\ \A u \in Threads : q \notin sq[u] /\ q \notin kern[u] /\ q \notin attached[u]
        /\ \A d \in Buckets : q \notin immediate[d]
        /\ \A u \in Threads : InRing(u, q) => u = t
    <3>1. InRing(t, q)
      BY <2>1, <2>2 DEF InRing
    <3> QED BY <1>p, <2>1, <2>2, <3>1 DEF Placed, InRing
  <2>5. \A u \in Threads : <<q, "value">> \notin cq'[u] /\ <<q, "stopped">> \notin cq'[u]
    <3>1. CASE r = "value"
      <4>1. <<q, "stopped">> \notin cq[t]
        BY <1>p, <2>1, <2>2, <3>1 DEF Placed
      <4> QED BY <2>1, <2>2, <2>4, <3>1, <4>1 DEF InRing, DataOK
    <3>2. CASE r = "stopped"
      <4>1. <<q, "value">> \notin cq[t]
        BY <1>p, <2>1, <2>2, <3>2 DEF Placed
      <4> QED BY <2>1, <2>2, <2>4, <3>2, <4>1 DEF InRing, DataOK
    <3> QED BY <2>2, <3>1, <3>2
  <2>6. \A u \in Threads, p \in Ops, x \in {"value", "stopped"} :
          <<p, x>> \in cq'[u] => <<p, x>> \in cq[u]
    BY <2>1 DEF DataOK
  <2>7. CASE Restart(q)
    <3>1. CASE o # q
      <4>1. Fewer(o)
        BY <2>3, <2>6, <2>7, <3>1 DEF Restart, Fewer, DataOK
      <4> QED BY <4>1, <1>p, FewerPlaced
    <3>2. CASE o = q
      <4>1. state'[q] = "queued" /\ \A u \in Threads : ~InRing(u, q)'
        BY <2>3, <2>4, <2>5, <2>7 DEF Restart, InRing, DataOK
      <4> QED BY <2>3, <2>4, <3>2, <4>1 DEF Placed, InRing
    <3> QED BY <3>1, <3>2
  <2>8. CASE Complete(t, q, r)
    <3>1. CASE state' = [state EXCEPT ![q] = "completed"] /\ UNCHANGED <<sq, immediate>>
      <4>1. CASE o # q
        <5>1. Fewer(o)
          BY <2>3, <2>6, <3>1, <4>1 DEF Fewer, DataOK
        <5> QED BY <5>1, <1>p, FewerPlaced
      <4>2. CASE o = q
        BY <2>3, <2>4, <2>5, <3>1, <4>2 DEF Placed, InRing
      <4> QED BY <4>1, <4>2
    <3>2. ASSUME NEW p \in Ops, state[p] = "connected", UNCHANGED immediate,
                 state' = [state EXCEPT ![q] = "completed", ![p] = "inflight"],
                 sq' = [sq EXCEPT ![t] = @ \cup {p}]
          PROVE  Placed(o)'
      <4>1. CASE o # q /\ o # p
        <5>1. Fewer(o)
          BY <2>3, <2>6, <3>2, <4>1 DEF Fewer, DataOK
        <5> QED BY <5>1, <1>p, FewerPlaced
      <4>2. CASE o = q
        <5>1. q # p /\ \A u \in Threads : q \notin sq'[u]
          BY <2>4, <3>2 DEF DataOK
        <5> QED BY <2>3, <2>4, <2>5, <3>2, <4>2, <5>1 DEF Placed, InRing
      <4>3. CASE o = p
        <5>1. /\ \A d \in Buckets : p \notin immediate[d]
              /\ \A u \in Threads : p \notin attached[u] /\ ~InRing(u, p)
          BY <1>p, <3>2 DEF Placed
        <5>2. state'[p] = "inflight" /\ \A u \in Threads : p \in sq'[u] => u = t
          BY <3>2, <5>1 DEF InRing, DataOK
        <5>3. \A u \in Threads : /\ p \notin kern'[u]
                                 /\ <<p, "value">> \notin cq'[u] /\ <<p, "stopped">> \notin cq'[u]
          BY <2>3, <2>6, <5>1 DEF InRing
        <5> QED BY <2>3, <3>2, <4>3, <5>1, <5>2, <5>3 DEF Placed, InRing
      <4> QED BY <4>1, <4>2, <4>3
    <3> QED BY <2>8, <3>1, <3>2 DEF Complete
  <2> QED BY <2>1, <2>2, <2>7, <2>8 DEF Consume
<1> QED BY <1>1, <1>2, <1>4, <1>5, <1>6, <1>7, <1>8, <1>9, <1>10, <1>11
        DEF Next, Destructor, RunStep

(* Every reachable state satisfies the stronger inductive invariant.       *)
THEOREM SpecStrongIInv == Spec => []StrongIInv
<1>1. Init => StrongIInv
  <2> SUFFICES ASSUME Init PROVE StopOK /\ PlacedOK
    BY InitIInv DEF StrongIInv
  <2> QED BY DEF Init, StopOK, PlacedOK, Placed, InRing, Threads
<1>2. StrongIInv /\ [Next]_vars => StrongIInv'
  BY NextData, NextControl, NextCounted, NextStop, NextPlaced
     DEF StrongIInv, IInv, ControlOK
<1> QED BY <1>1, <1>2, PTL DEF Spec

\* How SenderContract sees the operations.
Seen == [o \in Ops |-> IF state[o] \in {"queued", "inflight"} THEN "started"
                       ELSE state[o]]

(* Every step of the context is a step of the contract, or none.           *)
LEMMA StepContract == StrongIInv /\ [Next]_vars => [Contract!Next]_(Contract!vars)
<1> SUFFICES ASSUME StrongIInv, [Next]_vars PROVE [Contract!Next]_(Contract!vars)
  OBVIOUS
<1> USE DEF StrongIInv, IInv
<1>a. /\ state \in [Ops -> {"connected", "queued", "inflight", "completed"}]
      /\ result \in [Ops -> {"none", "value", "stopped"}]
  BY DEF DataOK
<1>0. ASSUME Seen' = Seen, result' = result, stopRequested' = stopRequested
      PROVE  [Contract!Next]_(Contract!vars)
  BY <1>0 DEF Contract!vars, Seen
<1>1. ASSUME UNCHANGED <<state, result, stopRequested>>
      PROVE  [Contract!Next]_(Contract!vars)
  BY <1>1, <1>0 DEF Seen
<1>2. ASSUME NEW o \in Ops, Schedule(o) PROVE [Contract!Next]_(Contract!vars)
  <2>1. /\ state[o] = "connected" /\ state' = [state EXCEPT ![o] = "queued"]
        /\ result' = result /\ stopRequested' = stopRequested
    BY <1>2 DEF Schedule, stopVars
  <2>2. Contract!Start({o})
    BY <1>a, <2>1 DEF Contract!Start, Contract!Move
  <2> QED BY <2>2 DEF Contract!Next
<1>3. CASE RequestStop \/ TerminalRun
  <2>1. stopRequested' = TRUE /\ state' = state /\ result' = result
    BY <1>3 DEF RequestStop, TerminalRun, opVars
  <2>2. Contract!Ask(Ops)
    BY <2>1 DEF Contract!Ask
  <2> QED BY <2>2 DEF Contract!Next
<1>4. CASE DestructorTransfers \/ Wait \/ Destroy \/ UNCHANGED vars
  BY <1>1, <1>4 DEF DestructorTransfers, Wait, Destroy, vars, opVars, stopVars
<1>5. ASSUME NEW t \in Threads,
             \/ Enter(t) \/ PassEnd(t) \/ StepEnd(t) \/ StepEndStopped(t) \/ Stopped(t)
             \/ ExitThread(t) \/ Leave(t) \/ \E o \in Ops : KernelCompletes(t, o)
      PROVE  [Contract!Next]_(Contract!vars)
  BY <1>1, <1>5 DEF Enter, PassEnd, StepEnd, StepEndStopped, Stopped, ExitThread, Leave,
                    KernelCompletes, opVars, stopVars
<1>6. ASSUME NEW t \in Threads, Launch(t) PROVE [Contract!Next]_(Contract!vars)
  <2>1. PICK T \in SUBSET Ops :
           /\ attached[t] \subseteq T
           /\ \A o \in T : o \in attached[t] \/ \E d \in Buckets : o \in immediate[d]
           /\ IF policy[t] = "terminal"
              THEN CancelTasks(T) /\ kern' = [kern EXCEPT ![t] = @ \cup sq[t]]
              ELSE /\ state' = [o \in Ops |-> IF o \in T THEN "inflight" ELSE state[o]]
                   /\ kern' = [kern EXCEPT ![t] = @ \cup sq[t] \cup T]
                   /\ UNCHANGED result
           /\ restarting' = restarting \ T
           /\ immediate' = [d \in Buckets |-> immediate[d] \ T]
    BY <1>6, Launching DEF ControlOK
  <2>2. stopRequested' = stopRequested
    BY <1>6 DEF Launch, stopVars
  <2>3. \A o \in T : state[o] = "queued"
    BY <2>1 DEF PlacedOK, Placed
  <2>4. CASE policy[t] = "terminal"
    <3>1. stopRequested
      BY <2>4 DEF StopOK
    <3>2. Contract!Complete(T \ restarting, "stopped", {})
      BY <1>a, <2>1, <2>2, <2>3, <2>4, <3>1
         DEF Contract!Complete, Contract!Move, CancelTasks
    <3> QED BY <3>2 DEF Contract!Next
  <2>5. CASE policy[t] # "terminal"
    <3>1. Seen' = Seen
      BY <1>a, <2>1, <2>3, <2>5 DEF Seen
    <3> QED BY <1>0, <2>1, <2>2, <2>5, <3>1
  <2> QED BY <2>4, <2>5
<1>7. ASSUME NEW t \in Threads, ConsumeOne(t) PROVE [Contract!Next]_(Contract!vars)
  <2>1. PICK cqe \in cq[t] : Consume(t, cqe[1], cqe[2])
    BY <1>7 DEF ConsumeOne
  <2>2. PICK o \in Ops, r \in {"value", "stopped"} : cqe = <<o, r>>
    BY <2>1 DEF DataOK
  <2>3. pc[t] = "consume" /\ stopRequested' = stopRequested
    BY <1>7 DEF ConsumeOne, stopVars
  <2>4. state[o] = "inflight"
    BY <2>1, <2>2 DEF PlacedOK, Placed, InRing
  <2>5. CASE policy[t] = "transfer"
    <3>1. state' = [state EXCEPT ![o] = "queued"] /\ result' = result
      BY <2>1, <2>2, <2>5 DEF Consume, Restart
    <3>2. Seen' = Seen
      BY <1>a, <2>4, <3>1 DEF Seen
    <3> QED BY <1>0, <2>3, <3>1, <3>2
  <2>6. CASE policy[t] # "transfer"
    <3>1. Complete(t, o, r)
      BY <2>1, <2>2, <2>6 DEF Consume
    <3>2. r = "stopped" => stopRequested
      BY <2>1, <2>2, <2>6 DEF StopOK
    <3>3. result' = [result EXCEPT ![o] = r]
      BY <3>1 DEF Complete
    <3>4. CASE state' = [state EXCEPT ![o] = "completed"]
      <4>1. Contract!Complete({o}, r, {})
        BY <1>a, <2>3, <2>4, <3>2, <3>3, <3>4 DEF Contract!Complete, Contract!Move
      <4> QED BY <2>2, <4>1 DEF Contract!Next
    <3>5. ASSUME NEW p \in Ops, r = "value", state[p] = "connected",
                 state' = [state EXCEPT ![o] = "completed", ![p] = "inflight"]
          PROVE  [Contract!Next]_(Contract!vars)
      <4>1. Contract!Complete({o}, r, {p})
        BY <1>a, <2>3, <2>4, <3>3, <3>5 DEF Contract!Complete, Contract!Move
      <4> QED BY <2>2, <4>1 DEF Contract!Next
    <3> QED BY <3>1, <3>4, <3>5 DEF Complete
  <2> QED BY <2>5, <2>6
<1> QED BY <1>2, <1>3, <1>4, <1>5, <1>6, <1>7 DEF Next, Destructor, RunStep

(* With any number of threads, operations and buckets an operation         *)
(* completes once, and as stopped only if the context was asked to stop.   *)
THEOREM SpecImplementsSenderContract == Spec => ImplementsSenderContract
<1>1. Init => Contract!Init
  BY DEF Init, Contract!Init
<1>2. StrongIInv /\ [Next]_vars => [Contract!Next]_(Contract!vars)
  BY StepContract
<1> QED BY <1>1, <1>2, SpecStrongIInv, PTL DEF Spec, ImplementsSenderContract, Contract!Spec
=============================================================================
