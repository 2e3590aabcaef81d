------------------------ MODULE ExecTransfer_proofs ------------------------
(***************************************************************************)
(* The proof that transfer_run() loses no operation, for every finite set  *)
(* of threads and every set of operations and buckets.                     *)
(***************************************************************************)
EXTENDS ExecShutdown_proofs, DataLemmas

\* The operations that the theorem is about.
Plain == Ops \ (Attached \cup Slow)

\* A thread that leaves has none of them left: CancelAny() emptied its
\* submission queue and took what it could out of the kernel, and the last
\* pass launches nothing but its own queue.
HandsOver(t) ==
  /\ attached[t] \subseteq Attached
  /\ after[t] = "leave" => policy[t] = "transfer"
  /\ policy[t] = "transfer" \/ pc[t] = "leave" =>
       sq[t] = {} /\ kern[t] \subseteq Attached \cup Slow
  /\ pc[t] = "leave" => \A o \in Plain : ~InRing(t, o)

\* An operation that was started is where some run() will find it.
Kept(o) ==
  /\ \A b, c \in Buckets : o \in immediate[b] /\ o \in immediate[c] => b = c
  /\ state[o] = "queued" => \E b \in Buckets : o \in immediate[b]
  /\ state[o] = "inflight" => \E t \in Threads : InRing(t, o)

KeptOK ==
  /\ \A t \in Threads : HandsOver(t)
  /\ Past => stopRequested
  /\ ~stopRequested => \A o \in Plain : Kept(o)

TransferIInv == StrongIInv /\ KeptOK

-----------------------------------------------------------------------------
(* No thread leaves at first, and nothing is in a queue or a ring.         *)
LEMMA InitKept == Init => KeptOK
<1> SUFFICES ASSUME Init PROVE KeptOK
  OBVIOUS
<1>1. /\ \A t \in Threads : attached[t] = {} /\ sq[t] = {} /\ kern[t] = {} /\ cq[t] = {}
      /\ \A t \in Threads : pc[t] = "out" /\ policy[t] = "default" /\ after[t] = "out"
      /\ \A b \in Buckets : immediate[b] = {}
      /\ \A o \in Ops : state[o] = "connected"
      /\ ~destroyed /\ Main \in Threads
  BY DEF Init, Threads
<1>2. \A t \in Threads : HandsOver(t)
  BY <1>1 DEF HandsOver
<1>3. ~Past
  BY <1>1 DEF Past
<1>4. \A o \in Plain : Kept(o)
  BY <1>1 DEF Plain, Kept
<1> QED BY <1>2, <1>3, <1>4 DEF KeptOK

(* Only the last pass of a run<transfer>() comes to leave.                 *)
LEMMA NextHandsOver ==
  ASSUME DataOK, ControlOK, StopOK, \A t \in Threads : HandsOver(t), [Next]_vars,
         NEW u \in Threads
  PROVE  HandsOver(u)'
<1>h. HandsOver(u)
  OBVIOUS
<1>a. /\ pc \in [Threads -> {"out", "launch", "consume", "stopped", "leave",
                             "terminal", "wait", "destroy", "gone"}]
      /\ policy \in [Threads -> {"default", "transfer", "terminal"}]
      /\ after \in [Threads -> {"out", "stopped", "leave", "terminal", "destroy"}]
      /\ Main \in Threads
      /\ after[u] # "out" => pc[u] \in {"launch", "consume"}
      /\ policy[u] # "default" => pc[u] \in {"launch", "consume"}
  BY DEF ControlOK, ControlTypes, StopOK, Threads
<1>b. /\ attached \in [Threads -> SUBSET Ops] /\ sq \in [Threads -> SUBSET Ops]
      /\ kern \in [Threads -> SUBSET Ops]
      /\ cq \in [Threads -> SUBSET (Ops \X {"value", "stopped"})]
  BY DEF DataOK
\* What a step leaves alone.
<1>0. ASSUME attached'[u] \subseteq Attached, sq'[u] = sq[u], kern'[u] = kern[u],
             cq'[u] = cq[u], pc'[u] = pc[u], policy'[u] = policy[u], after'[u] = after[u]
      PROVE  HandsOver(u)'
  BY <1>0, <1>h DEF HandsOver, InRing
\* A thread that goes elsewhere than to leave, and is in no transfer.
<1>1. ASSUME attached'[u] \subseteq Attached, pc'[u] # "leave", after'[u] # "leave",
             policy'[u] # "transfer"
      PROVE  HandsOver(u)'
  BY <1>1 DEF HandsOver
\* A thread that cancels what is in its ring.
<1>2. ASSUME CancelAny(u), attached'[u] = attached[u], pc'[u] # "leave",
             after'[u] = "leave" => policy'[u] = "transfer"
      PROVE  HandsOver(u)'
  <2>1. sq'[u] = {} /\ kern'[u] \subseteq Slow
    BY <1>2, <1>b DEF CancelAny, Cancelled, Flushed
  <2> QED BY <1>2, <1>h, <2>1 DEF HandsOver
<1>3. CASE RequestStop \/ TerminalRun \/ Destroy \/ UNCHANGED vars
  <2>1. UNCHANGED <<attached, sq, kern, cq>>
    BY <1>3 DEF RequestStop, TerminalRun, Destroy, vars, queueVars, ringVars
  <2>2. \/ UNCHANGED threadVars
        \/ Goto(Main, "wait") \/ Goto(Main, "gone")
    BY <1>3 DEF RequestStop, TerminalRun, Destroy, vars
  <2>3. CASE UNCHANGED threadVars \/ u # Main
    BY <1>0, <1>a, <1>h, <2>1, <2>2, <2>3 DEF Goto, threadVars, HandsOver
  <2>4. CASE u = Main /\ (Goto(Main, "wait") \/ Goto(Main, "gone"))
    BY <1>1, <1>a, <1>h, <2>1, <2>4 DEF Goto, HandsOver
  <2> QED BY <2>2, <2>3, <2>4
<1>4. ASSUME NEW o \in Ops, Schedule(o) PROVE HandsOver(u)'
  <2>1. UNCHANGED <<ringVars, threadVars>>
    BY <1>4 DEF Schedule
  <2>2. attached'[u] \subseteq Attached
    BY <1>4, <1>b, <1>h DEF Schedule, HandsOver
  <2> QED BY <1>0, <2>1, <2>2 DEF ringVars, threadVars
<1>5. CASE DestructorTransfers
  <2>1. /\ CancelAny(Main) /\ Run(Main, "transfer", mustHaveStopped, "terminal")
        /\ UNCHANGED attached
    BY <1>5 DEF DestructorTransfers, queueVars
  <2>2. CASE u = Main
    BY <1>2, <1>a, <2>1, <2>2 DEF Run, Goto
  <2>3. CASE u # Main
    BY <1>0, <1>a, <1>h, <2>1, <2>3, Cancelling DEF Run, Goto, HandsOver
  <2> QED BY <2>2, <2>3
<1>6. CASE Wait
  <2>1. /\ CancelAny(Main) /\ Run(Main, "terminal", mustHaveStopped, "destroy")
        /\ UNCHANGED attached
    BY <1>6 DEF Wait, queueVars
  <2>2. CASE u = Main
    BY <1>2, <1>a, <2>1, <2>2 DEF Run, Goto
  <2>3. CASE u # Main
    BY <1>0, <1>a, <1>h, <2>1, <2>3, Cancelling DEF Run, Goto, HandsOver
  <2> QED BY <2>2, <2>3
<1>7. ASSUME NEW t \in Threads, StepEndStopped(t) PROVE HandsOver(u)'
  <2>1. /\ CancelAny(t) /\ Run(t, "terminal", mustHaveStopped, "stopped")
        /\ UNCHANGED attached
    BY <1>7 DEF StepEndStopped, queueVars
  <2>2. CASE u = t
    BY <1>2, <1>a, <2>1, <2>2 DEF Run, Goto
  <2>3. CASE u # t
    BY <1>0, <1>a, <1>h, <2>1, <2>3, Cancelling DEF Run, Goto, HandsOver
  <2> QED BY <2>2, <2>3
<1>8. ASSUME NEW t \in Threads, ExitThread(t) PROVE HandsOver(u)'
  <2>1. /\ CancelAny(t) /\ Run(t, "transfer", FALSE, "leave")
        /\ UNCHANGED attached
    BY <1>8 DEF ExitThread, queueVars
  <2>2. CASE u = t
    BY <1>2, <1>a, <2>1, <2>2 DEF Run, Goto
  <2>3. CASE u # t
    BY <1>0, <1>a, <1>h, <2>1, <2>3, Cancelling DEF Run, Goto, HandsOver
  <2> QED BY <2>2, <2>3
<1>9. ASSUME NEW t \in Threads, Enter(t) \/ StepEnd(t) \/ Stopped(t) PROVE HandsOver(u)'
  <2>1. UNCHANGED <<attached, sq, kern, cq>>
    BY <1>9 DEF Enter, StepEnd, Stopped, queueVars, ringVars
  <2>2. Goto(t, "out") \/ Goto(t, "launch") \/ Run(t, "default", FALSE, "out")
    BY <1>9 DEF Enter, StepEnd, Stopped
  <2>3. CASE u = t
    BY <1>1, <1>a, <1>h, <2>1, <2>2, <2>3 DEF Run, Goto, HandsOver
  <2>4. CASE u # t
    BY <1>0, <1>a, <1>h, <2>1, <2>2, <2>4 DEF Run, Goto, HandsOver
  <2> QED BY <2>3, <2>4
<1>10. ASSUME NEW t \in Threads, PassEnd(t) PROVE HandsOver(u)'
  <2>1. Goto(t, after[t]) /\ cq[t] = {} /\ UNCHANGED <<attached, sq, kern, cq>>
    BY <1>10 DEF PassEnd, queueVars, ringVars
  <2>2. CASE u = t /\ after[t] = "leave"
    <3>1. sq[u] = {} /\ kern[u] \subseteq Attached \cup Slow /\ cq[u] = {}
      BY <1>h, <2>1, <2>2 DEF HandsOver
    <3>2. \A o \in Plain : ~InRing(u, o)'
      BY <2>1, <3>1 DEF InRing, Plain
    <3> QED BY <1>a, <1>h, <2>1, <2>2, <3>1, <3>2 DEF HandsOver, Goto
  <2>3. CASE u = t /\ after[t] # "leave"
    BY <1>1, <1>a, <1>h, <2>1, <2>3 DEF Goto, HandsOver
  <2>4. CASE u # t
    BY <1>0, <1>a, <1>h, <2>1, <2>4 DEF Goto, HandsOver
  <2> QED BY <2>2, <2>3, <2>4
<1>11. ASSUME NEW t \in Threads, Launch(t) PROVE HandsOver(u)'
  <2>1. /\ pc' = [pc EXCEPT ![t] = "consume"] /\ pc[t] = "launch"
        /\ sq' = [sq EXCEPT ![t] = {}] /\ attached' = [attached EXCEPT ![t] = {}]
        /\ UNCHANGED <<cq, policy, after>>
    BY <1>11 DEF Launch
  <2>2. \A v \in Threads \ {t} : kern'[v] = kern[v]
    BY <1>11, <1>b DEF Launch
  <2>3. policy[t] = "transfer" => kern'[t] = kern[t] \cup sq[t] \cup attached[t]
    <3>1. PICK b \in Buckets, c \in Buckets :
            policy[t] # "terminal" =>
              kern' = [kern EXCEPT ![t] = @ \cup sq[t] \cup Pulled(t, b, c)]
      BY <1>11 DEF Launch
    <3>2. policy[t] = "transfer" => Pulled(t, b, c) = attached[t]
      BY DEF Pulled
    <3> QED BY <1>b, <3>1, <3>2
  <2>4. CASE u = t
    BY <1>a, <1>b, <1>h, <2>1, <2>3, <2>4 DEF HandsOver
  <2>5. CASE u # t
    BY <1>0, <1>a, <1>b, <1>h, <2>1, <2>2, <2>5 DEF HandsOver
  <2> QED BY <2>4, <2>5
<1>12. ASSUME NEW t \in Threads, NEW o \in Ops, KernelCompletes(t, o) PROVE HandsOver(u)'
  <2>1. /\ o \in kern[t] /\ kern' = [kern EXCEPT ![t] = @ \ {o}]
        /\ cq' = [cq EXCEPT ![t] = @ \cup {<<o, "value">>}]
        /\ UNCHANGED <<attached, sq, pc, policy, after>>
    BY <1>12 DEF KernelCompletes, queueVars, threadVars
  <2>2. \A p \in Plain : InRing(u, p)' => InRing(u, p)
    BY <1>b, <2>1 DEF InRing, Plain
  <2>3. kern'[u] \subseteq kern[u]
    BY <1>b, <2>1
  <2> QED BY <1>h, <2>1, <2>2, <2>3 DEF HandsOver
<1>13. ASSUME NEW t \in Threads, ConsumeOne(t) PROVE HandsOver(u)'
  <2>1. /\ pc[t] = "consume" /\ UNCHANGED <<attached, kern, pc, policy, after>>
        /\ \A v \in Threads \ {t} : cq'[v] = cq[v]
    BY <1>13, <1>b DEF ConsumeOne, threadVars
  <2>2. /\ \A v \in Threads \ {t} : sq'[v] = sq[v]
        /\ policy[t] = "transfer" => UNCHANGED sq
    BY <1>13, <1>b DEF ConsumeOne, Consume, Restart, Complete
  <2>3. CASE u = t
    BY <1>h, <2>1, <2>2, <2>3 DEF HandsOver
  <2>4. CASE u # t
    BY <1>0, <1>h, <2>1, <2>2, <2>4 DEF HandsOver
  <2> QED BY <2>3, <2>4
<1>14. ASSUME NEW t \in Threads, Leave(t) PROVE HandsOver(u)'
  <2>1. /\ Goto(t, "gone") /\ attached' = [attached EXCEPT ![t] = {}]
        /\ kern' = [kern EXCEPT ![t] = {}] /\ UNCHANGED <<sq, cq>>
    BY <1>14 DEF Leave
  <2>2. CASE u = t
    BY <1>1, <1>a, <1>b, <2>1, <2>2 DEF Goto
  <2>3. CASE u # t
    BY <1>0, <1>a, <1>b, <1>h, <2>1, <2>3 DEF Goto, HandsOver
  <2> QED BY <2>2, <2>3
<1> QED BY <1>3, <1>4, <1>5, <1>6, <1>7, <1>8, <1>9, <1>10, <1>11, <1>12, <1>13, <1>14
        DEF Next, Destructor, RunStep


(* What goes into the rings and queues of plain operations as CancelAny()  *)
(* sees them: each stays in its ring.                                      *)
LEMMA CancellingPlain ==
  ASSUME DataOK, NEW t \in Threads, CancelAny(t), NEW o \in Plain, NEW u \in Threads
  PROVE  InRing(u, o)' <=> InRing(u, o)
<1>1. o \in Ops /\ o \notin Slow
  BY DEF Plain
<1>2. CASE u = t
  BY <1>1, <1>2, Cancelling DEF InRing
<1>3. CASE u # t
  BY <1>3, Cancelling DEF InRing
<1> QED BY <1>2, <1>3

(* Until the context is asked to stop, an operation that was started stays *)
(* in a queue that some run() pulls from or in the ring of a thread.       *)
LEMMA NextKept ==
  ASSUME StrongIInv, KeptOK, Next, ~stopRequested, NEW o \in Plain
  PROVE  stopRequested' \/ Kept(o)'
<1>k. Kept(o) /\ \A t \in Threads : HandsOver(t)
  BY DEF KeptOK
<1>o. o \in Ops /\ o \notin Attached /\ o \notin Slow
  BY DEF Plain
<1>d. DataOK /\ StopOK /\ ControlTypes /\ \A q \in Ops : Placed(q)
  BY DEF StrongIInv, IInv, PlacedOK, ControlOK
<1>p. /\ \A b \in Buckets : o \in immediate[b] => state[o] = "queued"
      /\ \A t \in Threads : InRing(t, o) => state[o] = "inflight"
      /\ \A t \in Threads : o \notin attached[t]
  BY <1>d, <1>k, <1>o DEF Placed, HandsOver
<1>t. /\ state \in [Ops -> {"connected", "queued", "inflight", "completed"}]
      /\ immediate \in [Buckets -> SUBSET Ops] /\ attached \in [Threads -> SUBSET Ops]
      /\ sq \in [Threads -> SUBSET Ops] /\ kern \in [Threads -> SUBSET Ops]
      /\ cq \in [Threads -> SUBSET (Ops \X {"value", "stopped"})]
  BY <1>d DEF DataOK
\* What becomes of o where a step leaves its queue and its ring alone, where
\* it takes o into a queue, and where it takes o into a ring.
<1>0. ASSUME state'[o] = state[o],
             \A b \in Buckets : o \in immediate'[b] <=> o \in immediate[b],
             \A t \in Threads : InRing(t, o) => InRing(t, o)'
      PROVE  Kept(o)'
  BY <1>0, <1>k DEF Kept
<1>1. ASSUME NEW b \in Buckets, immediate' = [immediate EXCEPT ![b] = @ \cup {o}],
             state[o] # "queued", state'[o] = "queued"
      PROVE  Kept(o)'
  <2>1. \A c \in Buckets : o \in immediate'[c] <=> c = b
    BY <1>1, <1>p, <1>t
  <2> QED BY <1>1, <2>1 DEF Kept
<1>2. ASSUME NEW t \in Threads, InRing(t, o)', state'[o] = "inflight",
             \A b \in Buckets : o \notin immediate'[b]
      PROVE  Kept(o)'
  BY <1>2 DEF Kept
<1>3. ASSUME UNCHANGED <<state, immediate, sq, kern, cq>> PROVE Kept(o)'
  BY <1>0, <1>3 DEF InRing
<1>4. CASE RequestStop \/ TerminalRun \/ (Over /\ UNCHANGED vars)
  BY <1>3, <1>4 DEF RequestStop, TerminalRun, vars, opVars, queueVars, ringVars
<1>5. CASE Wait \/ Destroy
  BY <1>5, <1>d DEF Wait, Destroy, StopOK, KeptOK, Past
<1>6. ASSUME NEW t \in Threads, CancelAny(t), UNCHANGED <<state, immediate>>
      PROVE  Kept(o)'
  BY <1>0, <1>6, <1>d, CancellingPlain
<1>7. ASSUME NEW t \in Threads,
             Enter(t) \/ StepEnd(t) \/ Stopped(t) \/ PassEnd(t)
      PROVE  Kept(o)'
  <2>1. UNCHANGED <<opVars, queueVars, ringVars>>
    BY <1>7 DEF Enter, StepEnd, Stopped, PassEnd
  <2>2. UNCHANGED <<state, immediate, sq, kern, cq>>
    BY <2>1 DEF opVars, queueVars, ringVars
  <2> QED BY <1>3, <2>2
<1>8. ASSUME NEW t \in Threads, ExitThread(t) \/ StepEndStopped(t) PROVE Kept(o)'
  BY <1>6, <1>8 DEF ExitThread, StepEndStopped, opVars, queueVars
<1>9. CASE DestructorTransfers
  BY <1>6, <1>9, ShutdownAssumption DEF DestructorTransfers, opVars, queueVars, Threads
<1>10. ASSUME NEW q \in Ops, Schedule(q) PROVE Kept(o)'
  <2>1. /\ state[q] = "connected" /\ state' = [state EXCEPT ![q] = "queued"]
        /\ UNCHANGED <<sq, kern, cq>>
    BY <1>10 DEF Schedule, ringVars
  <2>2. \/ q \in Attached /\ UNCHANGED immediate
        \/ \E b \in Buckets : immediate' = [immediate EXCEPT ![b] = @ \cup {q}]
    BY <1>10 DEF Schedule
  <2>3. CASE o = q
    BY <1>1, <1>o, <1>t, <2>1, <2>2, <2>3
  <2>4. CASE o # q
    <3>1. \A b \in Buckets : o \in immediate'[b] <=> o \in immediate[b]
      BY <1>t, <2>2, <2>4
    <3>2. state'[o] = state[o]
      BY <2>1, <2>4
    <3> QED BY <1>0, <2>1, <3>1, <3>2 DEF InRing
  <2> QED BY <2>3, <2>4
<1>11. ASSUME NEW t \in Threads, Launch(t) PROVE Kept(o)'
  <2>1. PICK T \in SUBSET Ops :
           /\ state' = [p \in Ops |-> IF p \in T THEN "inflight" ELSE state[p]]
           /\ kern' = [kern EXCEPT ![t] = @ \cup sq[t] \cup T]
           /\ immediate' = [d \in Buckets |-> immediate[d] \ T]
    BY <1>11, <1>d, Launching DEF StopOK
  <2>2. sq' = [sq EXCEPT ![t] = {}] /\ cq' = cq
    BY <1>11 DEF Launch
  <2>3. CASE o \in T
    <3>1. InRing(t, o)'
      BY <1>t, <2>1, <2>3 DEF InRing
    <3>2. state'[o] = "inflight" /\ \A b \in Buckets : o \notin immediate'[b]
      BY <1>o, <1>t, <2>1, <2>3
    <3> QED BY <1>2, <3>1, <3>2
  <2>4. CASE o \notin T
    <3>1. \A u \in Threads : InRing(u, o) => InRing(u, o)'
      BY <1>t, <2>1, <2>2 DEF InRing
    <3>2. /\ state'[o] = state[o]
          /\ \A b \in Buckets : o \in immediate'[b] <=> o \in immediate[b]
      BY <1>o, <1>t, <2>1, <2>4
    <3> QED BY <1>0, <3>1, <3>2
  <2> QED BY <2>3, <2>4
<1>12. ASSUME NEW t \in Threads, NEW q \in Ops, KernelCompletes(t, q) PROVE Kept(o)'
  <2>1. /\ kern' = [kern EXCEPT ![t] = @ \ {q}]
        /\ cq' = [cq EXCEPT ![t] = @ \cup {<<q, "value">>}]
        /\ UNCHANGED <<state, immediate, sq>>
    BY <1>12 DEF KernelCompletes, opVars, queueVars
  <2>2. \A u \in Threads : InRing(u, o) => InRing(u, o)'
    BY <1>t, <2>1 DEF InRing
  <2> QED BY <1>0, <2>1, <2>2
<1>13. ASSUME NEW t \in Threads, ConsumeOne(t) PROVE Kept(o)'
  <2>1. PICK cqe \in cq[t] : Consume(t, cqe[1], cqe[2]) /\ cq' = [cq EXCEPT ![t] = @ \ {cqe}]
    BY <1>13 DEF ConsumeOne
  <2>2. PICK q \in Ops, r \in {"value", "stopped"} : cqe = <<q, r>>
    BY <1>t, <2>1
  <2>3. kern' = kern
    BY <1>13 DEF ConsumeOne
  <2>4. state[q] = "inflight"
    <3>1. InRing(t, q)
      BY <2>1, <2>2 DEF InRing
    <3> QED BY <1>d, <3>1 DEF Placed
  <2>5. ASSUME o # q, \A u \in Threads : o \in sq[u] => o \in sq'[u], NEW u \in Threads,
               InRing(u, o)
        PROVE  InRing(u, o)'
    <3>1. <<o, "value">> # cqe /\ <<o, "stopped">> # cqe
      BY <2>2, <2>5
    <3>2. \A x \in cq[u] : x # cqe => x \in cq'[u]
      BY <1>t, <2>1
    <3> QED BY <2>3, <2>5, <3>1, <3>2 DEF InRing
  <2>6. CASE Restart(q)
    <3>1. /\ state' = [state EXCEPT ![q] = "queued"] /\ sq' = sq
          /\ \E b \in Buckets : immediate' = [immediate EXCEPT ![b] = @ \cup {q}]
      BY <2>6 DEF Restart
    <3>2. CASE o = q
      BY <1>1, <1>o, <1>t, <2>4, <3>1, <3>2
    <3>3. CASE o # q
      <4>1. /\ state'[o] = state[o]
            /\ \A b \in Buckets : o \in immediate'[b] <=> o \in immediate[b]
        BY <1>t, <3>1, <3>3
      <4> QED BY <1>0, <2>5, <3>1, <3>3, <4>1
    <3> QED BY <3>2, <3>3
  <2>7. CASE Complete(t, q, r)
    <3>1. /\ immediate' = immediate
          /\ \/ state' = [state EXCEPT ![q] = "completed"] /\ sq' = sq
             \/ \E p \in Ops :
                  /\ state[p] = "connected"
                  /\ state' = [state EXCEPT ![q] = "completed", ![p] = "inflight"]
                  /\ sq' = [sq EXCEPT ![t] = @ \cup {p}]
      BY <2>7 DEF Complete
    <3>2. CASE state' = [state EXCEPT ![q] = "completed"] /\ sq' = sq
      <4>1. CASE o = q
        BY <1>o, <1>p, <1>t, <2>4, <3>1, <3>2, <4>1 DEF Kept
      <4>2. CASE o # q
        BY <1>0, <2>5, <3>1, <3>2, <4>2
      <4> QED BY <4>1, <4>2
    <3>3. ASSUME NEW p \in Ops, state[p] = "connected",
                 state' = [state EXCEPT ![q] = "completed", ![p] = "inflight"],
                 sq' = [sq EXCEPT ![t] = @ \cup {p}]
          PROVE  Kept(o)'
      <4>1. CASE o = p
        <5>1. InRing(t, o)'
          BY <1>t, <3>3, <4>1 DEF InRing
        <5>2. state'[o] = "inflight"
          BY <1>t, <3>3, <4>1
        <5>3. \A b \in Buckets : o \notin immediate'[b]
          BY <1>p, <3>1, <3>3, <4>1
        <5> QED BY <1>2, <5>1, <5>2, <5>3
      <4>2. CASE o = q /\ o # p
        BY <1>o, <1>p, <1>t, <2>4, <3>1, <3>3, <4>2 DEF Kept
      <4>3. CASE o # q /\ o # p
        <5>1. \A u \in Threads : o \in sq[u] => o \in sq'[u]
          BY <1>t, <3>3
        <5>2. state'[o] = state[o]
          BY <1>o, <1>t, <3>3, <4>3
        <5> QED BY <1>0, <2>5, <3>1, <4>3, <5>1, <5>2
      <4> QED BY <4>1, <4>2, <4>3
    <3> QED BY <3>1, <3>2, <3>3
  <2> QED BY <2>1, <2>2, <2>6, <2>7 DEF Consume
<1>14. ASSUME NEW t \in Threads, Leave(t) PROVE Kept(o)'
  <2>1. /\ pc[t] = "leave" /\ kern' = [kern EXCEPT ![t] = {}]
        /\ UNCHANGED <<state, immediate, sq, cq>>
    BY <1>14 DEF Leave, opVars
  <2>2. \A u \in Threads : InRing(u, o) => InRing(u, o)'
    <3>1. ~InRing(t, o)
      BY <1>k, <2>1 DEF HandsOver
    <3> QED BY <1>t, <2>1, <3>1 DEF InRing
  <2> QED BY <1>0, <2>1, <2>2
<1> QED BY <1>4, <1>5, <1>7, <1>8, <1>9, <1>10, <1>11, <1>12, <1>13, <1>14
        DEF Next, Destructor, RunStep

(* A request to stop is for good.                                          *)
LEMMA StopLasts == stopRequested /\ [Next]_vars => stopRequested'
BY DEF Next, vars, Destructor, RunStep, DestructorTransfers, TerminalRun, Wait, Destroy,
       RequestStop, Enter, Launch, ConsumeOne, PassEnd, StepEnd, StepEndStopped, Stopped,
       ExitThread, Leave, KernelCompletes, Schedule, stopVars

(* The destructor finds itself alone only after it has asked to stop.      *)
LEMMA NextPast ==
  ASSUME StrongIInv, Past => stopRequested, [Next]_vars
  PROVE  (Past => stopRequested)'
<1>a. /\ StopOK /\ ControlTypes /\ Main \in Threads /\ Main \notin Workers
      /\ \A t \in Threads : t # Main => t \in Workers
      /\ after[Main] # "out" => pc[Main] \in {"launch", "consume"}
  BY ShutdownAssumption DEF StrongIInv, IInv, ControlOK, Threads
<1>1. stopRequested => stopRequested'
  BY StopLasts
<1>2. CASE Wait \/ Destroy
  BY <1>1, <1>2, <1>a DEF Wait, Destroy, StopOK, Past
<1>3. CASE RequestStop \/ TerminalRun
  BY <1>3 DEF RequestStop, TerminalRun
<1>4. ASSUME Past' => Past PROVE (Past => stopRequested)'
  BY <1>1, <1>4
<1>5. CASE UNCHANGED vars \/ \E o \in Ops : Schedule(o)
  BY <1>4, <1>5 DEF vars, Schedule, localVars, threadVars, Past
<1>6. CASE DestructorTransfers
  BY <1>4, <1>6, <1>a DEF DestructorTransfers, GetLocal, Run, Goto, ControlTypes, Past
<1>7. ASSUME NEW t \in Threads, Enter(t) PROVE (Past => stopRequested)'
  BY <1>4, <1>7, <1>a DEF Enter, GetLocal, Run, Goto, ControlTypes, Past
<1>8. ASSUME NEW t \in Threads, StepEnd(t) \/ Stopped(t) PROVE (Past => stopRequested)'
  BY <1>4, <1>8, <1>a DEF StepEnd, Stopped, localVars, Goto, ControlTypes, Past
<1>9. ASSUME NEW t \in Threads, PassEnd(t) PROVE (Past => stopRequested)'
  BY <1>4, <1>9, <1>a DEF PassEnd, localVars, Goto, ControlTypes, Past
<1>10. ASSUME NEW t \in Threads, StepEndStopped(t) PROVE (Past => stopRequested)'
  BY <1>4, <1>10, <1>a DEF StepEndStopped, localVars, Run, Goto, ControlTypes, Past
<1>11. ASSUME NEW t \in Threads, ExitThread(t) PROVE (Past => stopRequested)'
  BY <1>4, <1>11, <1>a DEF ExitThread, localVars, Run, Goto, ControlTypes, Past
<1>12. ASSUME NEW t \in Threads, Launch(t) PROVE (Past => stopRequested)'
  BY <1>4, <1>12, <1>a DEF Launch, localVars, ControlTypes, Past
<1>13. ASSUME NEW t \in Threads, ConsumeOne(t) PROVE (Past => stopRequested)'
  BY <1>4, <1>13 DEF ConsumeOne, localVars, threadVars, Past
<1>14. ASSUME NEW t \in Threads, NEW o \in Ops, KernelCompletes(t, o)
       PROVE  (Past => stopRequested)'
  BY <1>4, <1>14 DEF KernelCompletes, localVars, threadVars, Past
<1>15. ASSUME NEW t \in Threads, Leave(t) PROVE (Past => stopRequested)'
  BY <1>4, <1>15, <1>a DEF Leave, Goto, ControlTypes, Past
<1> QED BY <1>2, <1>3, <1>5, <1>6, <1>7, <1>8, <1>9, <1>10, <1>11, <1>12, <1>13, <1>14, <1>15
        DEF Next, Destructor, RunStep

(* In every reachable state a plain operation that was started is kept.    *)
THEOREM SpecTransferIInv == Spec => []TransferIInv
<1>1. Init => KeptOK
  BY InitKept
<1>2. StrongIInv /\ KeptOK /\ [Next]_vars => KeptOK'
  <2> SUFFICES ASSUME StrongIInv, KeptOK, [Next]_vars PROVE KeptOK'
    OBVIOUS
  <2>1. \A t \in Threads : HandsOver(t)'
    BY NextHandsOver DEF StrongIInv, IInv, KeptOK
  <2>2. (Past => stopRequested)'
    BY NextPast DEF KeptOK
  <2>3. ~stopRequested' => ~stopRequested
    BY StopLasts
  <2>4. CASE Next
    <3>1. ASSUME NEW o \in Plain, ~stopRequested' PROVE Kept(o)'
      BY <2>3, <2>4, <3>1, NextKept
    <3> QED BY <2>1, <2>2, <3>1, Zenon DEF KeptOK, Plain
  <2>5. CASE UNCHANGED vars
    <3>1. ASSUME NEW o \in Plain, Kept(o) PROVE Kept(o)'
      BY <2>5, <3>1 DEF vars, opVars, queueVars, ringVars, Kept, InRing
    <3> QED BY <2>1, <2>2, <2>3, <3>1, Zenon DEF KeptOK, Plain
  <2> QED BY <2>4, <2>5
<1> QED BY <1>1, <1>2, SpecStrongIInv, PTL DEF Spec, TransferIInv

-----------------------------------------------------------------------------
(* What is kept, and placed as its state says, is in one place, and what   *)
(* was not started or has completed is in none.                            *)
LEMMA PlacesOfKept ==
  ASSUME StrongIInv, KeptOK, ~stopRequested, NEW o \in Plain
  PROVE  Places(o) = IF state[o] \in {"queued", "inflight"} THEN 1 ELSE 0
<1> DEFINE I == {b \in Buckets : o \in immediate[b]}
           A == {t \in Threads : o \in attached[t]}
           S == {t \in Threads : o \in sq[t]}
           K == {t \in Threads : o \in kern[t]}
           C == {t \in Threads : \E res \in {"value", "stopped"} : <<o, res>> \in cq[t]}
<1>a. /\ Placed(o) /\ Kept(o) /\ o \in Ops /\ o \notin Attached
      /\ \A t \in Threads : attached[t] \subseteq Attached
  BY DEF StrongIInv, PlacedOK, KeptOK, HandsOver, Plain
<1>1. Cardinality(A) = 0
  BY <1>a, SetOfNone
<1>2. /\ \A t \in Threads : t \in S \cup K \cup C <=> InRing(t, o)
      /\ S \cup K \cup C \subseteq Threads
  BY DEF InRing
<1>3. CASE state[o] = "queued"
  <2>1. PICK b \in Buckets : \A c : c \in I <=> c = b
    BY <1>3, <1>a DEF Kept
  <2>2. Cardinality(I) = 1
    <3> HIDE DEF I
    <3> QED BY <2>1, SetOfOne
  <2>3. \A t \in Threads : ~InRing(t, o)
    BY <1>3, <1>a DEF Placed
  <2>4. Cardinality(S) = 0 /\ Cardinality(K) = 0 /\ Cardinality(C) = 0
    BY <1>2, <2>3, SetOfNone
  <2> QED BY <1>1, <1>3, <2>2, <2>4 DEF Places
<1>4. CASE state[o] = "inflight"
  <2>1. Cardinality(I) = 0
    BY <1>4, <1>a, SetOfNone DEF Placed
  <2>2. PICK t \in Threads : InRing(t, o) /\ \A u \in Threads : InRing(u, o) => u = t
    BY <1>4, <1>a DEF Kept, Placed
  <2>3. \A u \in S \cup K \cup C : u = t
    BY <1>2, <2>2
  <2>4. /\ t \in S => t \notin K
        /\ t \in S \cup K => t \notin C
        /\ t \in S \cup K \cup C
    BY <1>2, <1>a, <2>2 DEF Placed
  <2>5. CASE t \in S
    <3>1. Cardinality(S) = 1
      <4>1. \A u : u \in S <=> u = t
        BY <2>3, <2>5
      <4> HIDE DEF S
      <4> QED BY <4>1, SetOfOne
    <3>2. Cardinality(K) = 0 /\ Cardinality(C) = 0
      BY <2>3, <2>4, <2>5, SetOfNone
    <3> QED BY <1>1, <1>4, <2>1, <3>1, <3>2 DEF Places
  <2>6. CASE t \in K
    <3>1. Cardinality(K) = 1
      <4>1. \A u : u \in K <=> u = t
        BY <2>3, <2>6
      <4> HIDE DEF K
      <4> QED BY <4>1, SetOfOne
    <3>2. Cardinality(S) = 0 /\ Cardinality(C) = 0
      BY <2>3, <2>4, <2>6, SetOfNone
    <3> QED BY <1>1, <1>4, <2>1, <3>1, <3>2 DEF Places
  <2>7. CASE t \in C
    <3>1. Cardinality(C) = 1
      <4>1. \A u : u \in C <=> u = t
        BY <2>3, <2>7
      <4> HIDE DEF C
      <4> QED BY <4>1, SetOfOne
    <3>2. Cardinality(S) = 0 /\ Cardinality(K) = 0
      BY <2>3, <2>4, <2>7, SetOfNone
    <3> QED BY <1>1, <1>4, <2>1, <3>1, <3>2 DEF Places
  <2> QED BY <2>4, <2>5, <2>6, <2>7
<1>5. CASE state[o] \notin {"queued", "inflight"}
  <2>1. \A t \in Threads : ~InRing(t, o)
    BY <1>5, <1>a DEF Placed
  <2>2. Cardinality(I) = 0
    BY <1>5, <1>a, SetOfNone DEF Placed
  <2>3. Cardinality(S) = 0 /\ Cardinality(K) = 0 /\ Cardinality(C) = 0
    BY <1>2, <2>1, SetOfNone
  <2> QED BY <1>1, <1>5, <2>2, <2>3 DEF Places
<1> QED BY <1>3, <1>4, <1>5

(* Threads come and go, and until the context is asked to stop no          *)
(* operation of its own scheduler is lost or found twice: it is in one     *)
(* queue or in one ring.                                                   *)
THEOREM SpecLeavingLosesNothing == Spec => []LeavingLosesNothing
<1>1. TransferIInv => LeavingLosesNothing
  BY PlacesOfKept DEF TransferIInv, LeavingLosesNothing, Plain
<1> QED BY <1>1, SpecTransferIInv, PTL
=============================================================================
