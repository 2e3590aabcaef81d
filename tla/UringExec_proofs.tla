-------------------------- MODULE UringExec_proofs --------------------------
(***************************************************************************)
(* Proofs about UringExec for every set of threads and operations, any     *)
(* number of buckets and any size of queues and batches: its type          *)
(* correctness and safety invariants, and that it implements               *)
(* SenderContract.                                                         *)
(***************************************************************************)
EXTENDS UringExec, DataLemmas

\* Between the submission of everything and the next cancel requests.
Quiet(w) == pc[w] \in {"peek", "consume", "stopping"} \/ some[w] > 0

\* Where thread w may be in run(), and what it has in its hands there.
ControlOK ==
  \A w \in Workers :
    /\ pc[w] = "tasks" => tasks[w] # << >>
    /\ pc[w] = "consume" => some[w] > 0
    /\ some[w] > 0 => pc[w] \in {"consume", "install"}
    /\ taken[w] <= some[w] /\ some[w] <= Len(cq[w])
    /\ cur[w] # None <=> pc[w] = "install"
    /\ pc[w] \notin {"stopping", "step", "store"} => done[w] <= IodoneMaxnr

\* A task is in one queue and once in it, and is "queued".
QueuedOK(o) ==
  /\ \A b \in Bucket : \A i \in DOMAIN immediate[b] : immediate[b][i] = o =>
       /\ state[o] = "queued"
       /\ \A c \in Bucket : \A j \in DOMAIN immediate[c] :
            immediate[c][j] = o => c = b /\ j = i
       /\ \A w \in Workers : ~Contains(attached[w], o) /\ ~Contains(tasks[w], o)
  /\ \A w \in Workers : \A i \in DOMAIN attached[w] : attached[w][i] = o =>
       /\ state[o] = "queued"
       /\ \A v \in Workers : \A j \in DOMAIN attached[v] :
            attached[v][j] = o => v = w /\ j = i
       /\ \A v \in Workers : ~Contains(tasks[v], o)
  /\ \A w \in Workers : \A i \in DOMAIN tasks[w] : tasks[w][i] = o =>
       /\ state[o] = "queued"
       /\ \A v \in Workers : \A j \in DOMAIN tasks[v] :
            tasks[v][j] = o => v = w /\ j = i

\* The places of a request of operation o on ring w.
InSq(w, o, i) == i \in DOMAIN sq[w] /\ sq[w][i] = [kind |-> "io", op |-> o]
InCq(w, o, i) == i \in taken[w] + 1 .. Len(cq[w]) /\ cq[w][i].op = o

\* It is in the submission queue of ring w and nowhere else, or with the
\* kernel, or in the completion queue, or nowhere.
AtSq(w, o, k) == /\ \A v \in Workers, i \in Nat : InSq(v, o, i) <=> v = w /\ i = k
                 /\ \A v \in Workers, i \in Nat : ~InCq(v, o, i)
                 /\ \A v \in Workers : o \notin kern[v]
AtKern(w, o) == /\ \A v \in Workers, i \in Nat : ~InSq(v, o, i) /\ ~InCq(v, o, i)
                /\ \A v \in Workers : o \in kern[v] <=> v = w
AtCq(w, o, k) == /\ \A v \in Workers, i \in Nat : InCq(v, o, i) <=> v = w /\ i = k
                 /\ \A v \in Workers, i \in Nat : ~InSq(v, o, i)
                 /\ \A v \in Workers : o \notin kern[v]
Nowhere(o) == /\ \A v \in Workers, i \in Nat : ~InSq(v, o, i) /\ ~InCq(v, o, i)
              /\ \A v \in Workers : o \notin kern[v]

\* An operation in flight has one request, on its own ring; any other none.
RingOK(o) ==
  IF state[o] = "inflight"
  THEN /\ home[o] \in Workers
       /\ \/ \E k \in Nat : AtSq(home[o], o, k)
          \/ AtKern(home[o], o)
          \/ \E k \in Nat : AtCq(home[o], o, k)
  ELSE Nowhere(o)

\* What the stop callback of operation o says of it.
CallbackOK(o) ==
  /\ callback[o] # "none" => state[o] = "inflight"
  /\ callback[o] = "armed" => ~stopRequested[o]
  /\ callback[o] \in {"running", "fired"} => stopRequested[o]
  /\ \A w \in Workers : cur[w] = o =>
       state[o] = "inflight" /\ home[o] = w /\ callback[o] = "none"

\* A queued request to stop operation o.
StoppingOK(o) ==
  \A w \in Workers, b \in Bucket : \A i \in DOMAIN stopping[w][b] :
    stopping[w][b][i] = o =>
      /\ b = BucketOf[o]
      /\ state[o] = "inflight" /\ home[o] = w /\ callback[o] = "fired"
      /\ \A j \in DOMAIN stopping[w][b] : stopping[w][b][j] = o => j = i

\* What was sent because of one, and what was answered.
SentOK(w) ==
  \A i \in DOMAIN sq[w] : sq[w][i].kind = "cancel" =>
    /\ ~Quiet(w)
    /\ LET o == sq[w][i].op
       IN  state[o] = "inflight" /\ home[o] = w /\ stopRequested[o]
AnsweredOK(w) ==
  \A i \in taken[w] + 1 .. Len(cq[w]) :
    cq[w][i].op # None /\ cq[w][i].res = "stopped" => stopRequested[cq[w][i].op]

CancelsOK == \A w \in Workers : SentOK(w) /\ AnsweredOK(w)

CountOK == InflightIsExact /\ \A w \in Workers : IsFiniteSet(kern[w])

OpOK(o) == QueuedOK(o) /\ RingOK(o) /\ CallbackOK(o) /\ StoppingOK(o)

IInv == /\ TypeOK
        /\ ControlOK
        /\ \A o \in Ops : OpOK(o)
        /\ CancelsOK
        /\ CountOK

-----------------------------------------------------------------------------
(* What SequencesExt's operators do to the sequences of this module.       *)
LEMMA WithoutProperties ==
  ASSUME NEW S, NEW q \in Seq(S), NEW o
  PROVE  /\ Without(q, o) \in Seq(S)
         /\ \A i \in DOMAIN Without(q, o) : \E j \in DOMAIN q :
              /\ Without(q, o)[i] = q[j]
              /\ j = i \/ j = i + 1
         /\ (\A i, j \in DOMAIN q : q[i] = o /\ q[j] = o => i = j)
              => \A i \in DOMAIN Without(q, o) : Without(q, o)[i] # o
         /\ \A p : p # o /\ (\A i, j \in DOMAIN q : q[i] = p /\ q[j] = p => i = j)
              => \A i, j \in DOMAIN Without(q, o) :
                   Without(q, o)[i] = p /\ Without(q, o)[j] = p => i = j
<1>1. CASE ~Contains(q, o)
  BY <1>1 DEF Without, Contains
<1>2. CASE Contains(q, o)
  <2> DEFINE n == CHOOSE i \in DOMAIN q : q[i] = o
             r == RemoveAt(q, n)
  <2>1. n \in 1 .. Len(q) /\ q[n] = o
    BY <1>2 DEF Contains
  <2> HIDE DEF n
  <2>2. /\ r \in Seq(S) /\ Len(r) = Len(q) - 1
        /\ \A j \in 1 .. Len(q) - 1 : r[j] = IF j < n THEN q[j] ELSE q[j + 1]
    BY <2>1, RemoveAtProperties
  <2> HIDE DEF r
  <2>3. \A i \in DOMAIN r : \E j \in DOMAIN q : r[i] = q[j] /\ (j = i \/ j = i + 1) /\ j # n
    BY <2>1, <2>2
  <2>4. \A i \in DOMAIN r : \E j \in DOMAIN q : r[i] = q[j] /\ (j = i \/ j = i + 1)
    BY <2>3
  <2>5. ASSUME \A i, j \in DOMAIN q : q[i] = o /\ q[j] = o => i = j
        PROVE  \A i \in DOMAIN r : r[i] # o
    BY <2>1, <2>3, <2>5
  <2>6. ASSUME NEW p, \A i, j \in DOMAIN q : q[i] = p /\ q[j] = p => i = j,
               NEW i \in DOMAIN r, NEW j \in DOMAIN r, r[i] = p, r[j] = p
        PROVE  i = j
    <3> DEFINE at(k) == IF k < n THEN k ELSE k + 1
    <3>1. at(i) \in DOMAIN q /\ at(j) \in DOMAIN q /\ q[at(i)] = p /\ q[at(j)] = p
      BY <2>1, <2>2, <2>6
    <3>2. at(i) = at(j)
      BY <2>6, <3>1
    <3> QED BY <2>1, <2>2, <2>6, <3>2
  <2>7. Without(q, o) = r
    BY <1>2 DEF Without, r, n
  <2> QED BY <2>2, <2>4, <2>5, <2>6, <2>7
<1> QED BY <1>1, <1>2

-----------------------------------------------------------------------------
(* Every queue is empty at first, and no operation is started.             *)
LEMMA InitIInv == Init => IInv
<1> SUFFICES ASSUME Init PROVE IInv
  OBVIOUS
<1> USE ExecAssumption
<1>1. TypeOK
  BY DEF Init, TypeOK, Bucket, Sqe, Cqe
<1>2. ControlOK
  BY DEF Init, ControlOK
<1>3. ASSUME NEW o \in Ops
      PROVE  OpOK(o)
  <2>1. QueuedOK(o)
    BY DEF Init, QueuedOK, Contains
  <2>2. RingOK(o)
    BY <1>3 DEF Init, RingOK, Nowhere, InSq, InCq
  <2>3. CallbackOK(o) /\ StoppingOK(o)
    BY <1>3 DEF Init, CallbackOK, StoppingOK
  <2> QED BY <2>1, <2>2, <2>3 DEF OpOK
<1>4. CancelsOK
  BY DEF Init, CancelsOK, SentOK, AnsweredOK
<1>5. CountOK
  BY FS_EmptySet DEF Init, CountOK, InflightIsExact
<1> QED BY <1>1, <1>2, <1>3, <1>4, <1>5 DEF IInv

-----------------------------------------------------------------------------
(* What the invariant says of the operation a thread has in its hands.     *)

\* Thread w calls start() of operation o, which nobody else holds.
Starts(w, o) ==
  /\ state[o] \in {"connected", "queued"}
  /\ \/ pc[w] = "tasks" /\ some[w] = 0
     \/ pc[w] = "consume" /\ taken[w] > 0
  /\ \E return \in IF pc[w] = "tasks" THEN {"robin", "random", "submit", "tasks"}
                    ELSE {"consume"} : Start(w, o, return)
  /\ UNCHANGED <<queueVars, kern, cq, after, some, taken, done, step>>

(* The task that a thread launches next is a queued operation.             *)
LEMMA RunTaskStarts ==
  ASSUME IInv, NEW w \in Workers, RunTask(w)
  PROVE  /\ Head(tasks[w]) \in Ops
         /\ state[Head(tasks[w])] = "queued"
         /\ Starts(w, Head(tasks[w]))
<1> DEFINE o == Head(tasks[w])
<1>1. tasks[w] \in Seq(Ops) /\ tasks[w] # << >> /\ after[w] \in {"robin", "random", "submit"}
  BY DEF IInv, TypeOK, ControlOK, RunTask
<1>2. o \in Ops /\ 1 \in DOMAIN tasks[w] /\ tasks[w][1] = o
  BY <1>1
<1>3. state[o] = "queued"
  BY <1>2 DEF IInv, OpOK, QueuedOK
<1>4. some[w] = 0 /\ pc[w] = "tasks"
  <2>1. pc[w] = "tasks" /\ ~(some[w] > 0)
    BY DEF IInv, ControlOK, RunTask
  <2>2. some[w] \in 0 .. IodoneBatch
    BY DEF IInv, TypeOK
  <2> QED BY <2>1, <2>2, ExecAssumption
<1>5. \E return \in {"robin", "random", "submit", "tasks"} : Start(w, o, return)
  <2> DEFINE r == IF Tail(tasks[w]) = << >> THEN after[w] ELSE "tasks"
  <2>1. r \in {"robin", "random", "submit", "tasks"}
    BY <1>1
  <2>2. Start(w, o, r)
    BY DEF RunTask
  <2> HIDE DEF r, o
  <2> QED BY <2>1, <2>2
<1>6. UNCHANGED <<queueVars, kern, cq, after, some, taken, done, step>>
  BY DEF RunTask
<1> HIDE DEF o
<1>7. o \in Ops /\ state[o] = "queued" /\ Starts(w, o)
  BY <1>2, <1>3, <1>4, <1>5, <1>6 DEF Starts
<1> QED BY <1>7 DEF o

(* So is the connected operation that a receiver goes on to start.        *)
LEMMA StartNextStarts ==
  ASSUME IInv, NEW w \in Workers, NEW o \in Ops, StartNext(w, o)
  PROVE  Starts(w, o) /\ state[o] = "connected" /\ tasks' = tasks
BY DEF Starts, StartNext, queueVars

\* Thread w takes the cqe of operation o, which completes.
Finishes(w, o) ==
  /\ o \in Ops /\ state[o] = "inflight" /\ home[o] = w
  /\ InCq(w, o, taken[w] + 1)
  /\ callback[o] # "running"
  /\ stopping' = Withdraw(w, o)
  /\ callback' = [callback EXCEPT ![o] = "none"]
  /\ home' = [home EXCEPT ![o] = None]
  /\ \E r \in {"value", "stopped"} :
       Completes(o, r) /\ (r = "stopped" => stopRequested[o])
  /\ UNCHANGED stopRequested

\* What else it does, whether the cqe is an operation's or a noop.
Consumes(w) ==
  /\ pc[w] = "consume"
  /\ taken[w] \in Nat /\ some[w] \in Nat /\ cq[w] \in Seq(Cqe)
  /\ taken[w] < some[w] /\ some[w] <= Len(cq[w])
  /\ taken' = [taken EXCEPT ![w] = @ + 1]
  /\ UNCHANGED <<execVars, attached, ringVars, pc, tasks, after, cur, some, done,
                 step>>

(* A cqe that is consumed is a noop's or that of an operation in flight on *)
(* this ring, whose callback is gone when it completes.                    *)
LEMMA ConsumeOneFinishes ==
  ASSUME IInv, NEW w \in Workers, ConsumeOne(w)
  PROVE  /\ Consumes(w)
         /\ \/ cq[w][taken[w] + 1].op = None /\ UNCHANGED <<opVars, stopping>>
            \/ Finishes(w, cq[w][taken[w] + 1].op)
<1>1. taken[w] \in Nat /\ some[w] \in Nat /\ cq[w] \in Seq(Cqe)
  BY ExecAssumption DEF IInv, TypeOK
<1>2. pc[w] = "consume" /\ taken[w] < some[w] /\ some[w] <= Len(cq[w])
  BY DEF IInv, ControlOK, ConsumeOne
<1>3. Consumes(w)
  BY <1>1, <1>2 DEF Consumes, ConsumeOne
<1>4. CASE cq[w][taken[w] + 1].op = None
  BY <1>3, <1>4 DEF ConsumeOne
<1>5. ASSUME cq[w][taken[w] + 1].op # None
      PROVE  Finishes(w, cq[w][taken[w] + 1].op)
  <2> DEFINE i == taken[w] + 1
             o == cq[w][i].op
  <2>1. i \in 1 .. Len(cq[w]) /\ i \in taken[w] + 1 .. Len(cq[w]) /\ cq[w][i] \in Cqe
    BY <1>1, <1>2
  <2>2. o \in Ops /\ cq[w][i].res \in {"value", "stopped"}
    BY <1>5, <2>1 DEF Cqe
  <2>3. InCq(w, o, i)
    BY <2>1 DEF InCq
  <2>4. cq[w][i].res = "stopped" => stopRequested[o]
    BY <1>5, <2>1 DEF IInv, CancelsOK, AnsweredOK
  <2>5. /\ ResetReturns(o)
        /\ stopping' = Withdraw(home[o], o)
        /\ callback' = [callback EXCEPT ![o] = Deregistered(@)]
        /\ home' = [home EXCEPT ![o] = None]
        /\ Completes(o, cq[w][i].res)
        /\ UNCHANGED stopRequested
    BY <1>5 DEF ConsumeOne
  <2> HIDE DEF i, o
  <2>6. state[o] = "inflight" /\ home[o] = w
    <3>1. RingOK(o) /\ i \in Nat
      BY <1>1, <2>1, <2>2 DEF IInv, OpOK
    <3> QED BY <2>3, <3>1 DEF RingOK, AtSq, AtKern, AtCq, Nowhere
  <2>7. callback[o] # "running" /\ callback' = [callback EXCEPT ![o] = "none"]
    BY <2>5 DEF ResetReturns, Deregistered
  <2>8. Finishes(w, o)
    <3> DEFINE r == cq[w][i].res
    <3>1. r \in {"value", "stopped"} /\ Completes(o, r) /\ (r = "stopped" => stopRequested[o])
      BY <2>2, <2>4, <2>5
    <3> HIDE DEF r
    <3> QED BY <2>2, <2>3, <2>5, <2>6, <2>7, <3>1 DEF Finishes, i
  <2> QED BY <2>8 DEF o, i
<1> QED BY <1>3, <1>4, <1>5

-----------------------------------------------------------------------------
(* Writing one queue of a map of queues.                                   *)
LEMMA BucketWritten ==
  ASSUME NEW m \in [Workers -> [Bucket -> Seq(Ops)]], NEW w \in Workers,
         NEW b \in Bucket, NEW q \in Seq(Ops)
  PROVE  /\ [m EXCEPT ![w][b] = q] \in [Workers -> [Bucket -> Seq(Ops)]]
         /\ \A v \in Workers, c \in Bucket :
              [m EXCEPT ![w][b] = q][v][c] = IF v = w /\ c = b THEN q ELSE m[v][c]
OBVIOUS

OpTypes ==
  /\ state \in [Ops -> {"connected", "queued", "inflight", "completed"}]
  /\ result \in [Ops -> {"none", "value", "stopped"}]
  /\ stopRequested \in [Ops -> BOOLEAN]
  /\ callback \in [Ops -> {"none", "armed", "running", "fired"}]
  /\ home \in [Ops -> Workers \cup {None}]

QueueTypes ==
  /\ immediate \in [Bucket -> Seq(Ops)]
  /\ balance \in Bucket /\ walltime \in Bucket
  /\ attached \in [Workers -> Seq(Ops)]
  /\ stopping \in [Workers -> [Bucket -> Seq(Ops)]]

RingTypes ==
  /\ inflight \in [Workers -> Nat]
  /\ sq \in [Workers -> Seq(Sqe)]
  /\ \A w \in Workers : Len(sq[w]) <= Entries
  /\ kern \in [Workers -> SUBSET Ops]
  /\ cq \in [Workers -> Seq(Cqe)]

RunTypes ==
  /\ pc \in [Workers -> {"attached", "robin", "random", "tasks", "install", "submit",
                         "peek", "consume", "stopping", "step", "store"}]
  /\ tasks \in [Workers -> Seq(Ops)]
  /\ after \in [Workers -> {"robin", "random", "submit"}]
  /\ cur \in [Workers -> Ops \cup {None}]
  /\ some \in [Workers -> 0 .. IodoneBatch]
  /\ taken \in [Workers -> 0 .. IodoneBatch]
  /\ done \in [Workers -> 0 .. IodoneMaxnr + IodoneBatch]
  /\ step \in [Workers -> Bucket]

(* The invariant's parts about the types, by what changes together.        *)
LEMMA TypeParts == TypeOK <=> OpTypes /\ QueueTypes /\ RingTypes /\ RunTypes
BY DEF TypeOK, OpTypes, QueueTypes, RingTypes, RunTypes

(* Starting an operation keeps the types: there is room for its sqe.       *)
LEMMA StartsType ==
  ASSUME TypeOK, NEW o \in Ops, NEW w \in Workers, Starts(w, o),
         tasks' \in [Workers -> Seq(Ops)]
  PROVE  TypeOK'
<1> USE ExecAssumption
<1>0. OpTypes /\ QueueTypes /\ RingTypes /\ RunTypes
  BY TypeParts
<1>1. StartSubmits(w, o) \/ StartStopped(o) \/ StartRestarts(w, o)
  BY DEF Starts, Start
<1>2. OpTypes'
  <2>1. CASE StartSubmits(w, o)
    BY <1>0, <2>1 DEF OpTypes, StartSubmits
  <2>2. CASE StartStopped(o)
    BY <1>0, <2>2 DEF OpTypes, StartStopped, Completes
  <2>3. CASE StartRestarts(w, o)
    BY <1>0, <2>3 DEF OpTypes, StartRestarts
  <2> QED BY <1>1, <2>1, <2>2, <2>3
<1>3. QueueTypes'
  <2>1. UNCHANGED <<attached, stopping, walltime>>
    BY <1>1 DEF Starts, queueVars, StartSubmits, StartStopped, StartRestarts, execVars
  <2>2. CASE UNCHANGED execVars
    BY <1>0, <2>1, <2>2 DEF QueueTypes, execVars
  <2>3. CASE StartRestarts(w, o)
    BY <1>0, <2>1, <2>3 DEF QueueTypes, StartRestarts, PushImmediate, Bucket
  <2> QED BY <1>1, <2>2, <2>3 DEF StartSubmits, StartStopped
<1>4. RingTypes'
  <2>1. UNCHANGED <<kern, cq>>
    BY DEF Starts
  <2>2. CASE StartSubmits(w, o)
    <3>1. sq[w] \in Seq(Sqe) /\ Len(sq[w]) < Entries /\ [kind |-> "io", op |-> o] \in Sqe
      BY <1>0, <2>2 DEF RingTypes, StartSubmits, HasSqe, Sqe
    <3>2. /\ Append(sq[w], [kind |-> "io", op |-> o]) \in Seq(Sqe)
          /\ Len(Append(sq[w], [kind |-> "io", op |-> o])) <= Entries
      BY <3>1
    <3> QED BY <1>0, <2>1, <2>2, <3>2 DEF RingTypes, StartSubmits
  <2>3. CASE UNCHANGED <<inflight, sq>>
    BY <1>0, <2>1, <2>3 DEF RingTypes
  <2> QED BY <1>1, <2>2, <2>3 DEF StartStopped, StartRestarts
<1>5. RunTypes'
  <2>1. UNCHANGED <<after, some, taken, done, step>>
    BY DEF Starts
  <2>2. PICK return \in {"robin", "random", "submit", "tasks", "consume"} : Start(w, o, return)
    BY DEF Starts
  <2>3. cur' \in [Workers -> Ops \cup {None}]
    <3>1. cur' = [cur EXCEPT ![w] = o] \/ cur' = cur
      BY <2>2 DEF Start
    <3> QED BY <1>0, <3>1 DEF RunTypes
  <2>4. pc' = [pc EXCEPT ![w] = "install"] \/ pc' = [pc EXCEPT ![w] = return]
    BY <2>2 DEF Start
  <2> QED BY <1>0, <2>1, <2>3, <2>4 DEF RunTypes
<1> QED BY <1>2, <1>3, <1>4, <1>5 DEF TypeOK, OpTypes, QueueTypes, RingTypes, RunTypes

\* Thread w sends n cancel requests, for the first operations of a bucket.
Cancels(w, n) ==
  /\ n <= Len(stopping[w][walltime]) /\ Len(sq[w]) + n <= Entries
  /\ sq' \in [Workers -> Seq(Sqe)]
  /\ \A v \in Workers : v # w => sq'[v] = sq[v]
  /\ Len(sq'[w]) = Len(sq[w]) + n
  /\ \A i \in 1 .. Len(sq[w]) : sq'[w][i] = sq[w][i]
  /\ \A i \in 1 .. n :
       sq'[w][Len(sq[w]) + i] = [kind |-> "cancel", op |-> stopping[w][walltime][i]]
  /\ inflight' = [inflight EXCEPT ![w] = @ + n]
  /\ stopping' = [stopping EXCEPT ![w][walltime] =
                    SubSeq(stopping[w][walltime], n + 1, Len(stopping[w][walltime]))]

(* A scan takes as many stop requests as there is room for, in order.      *)
LEMMA IssueCancelsSends ==
  ASSUME TypeOK, NEW w \in Workers, IssueCancels(w)
  PROVE  \E n \in Nat : Cancels(w, n)
<1> DEFINE q == stopping[w][walltime]
           free == Entries - Len(sq[w])
           n == IF Len(q) < free THEN Len(q) ELSE free
           c == [i \in 1 .. n |-> [kind |-> "cancel", op |-> q[i]]]
<1>1. /\ q \in Seq(Ops) /\ sq[w] \in Seq(Sqe) /\ Len(sq[w]) <= Entries
      /\ sq \in [Workers -> Seq(Sqe)]
  BY DEF TypeOK
<1>2. /\ sq' = [sq EXCEPT ![w] = @ \o c]
      /\ inflight' = [inflight EXCEPT ![w] = @ + n]
      /\ stopping' = [stopping EXCEPT ![w][walltime] = SubSeq(q, n + 1, Len(q))]
  BY DEF IssueCancels, CountCancels
<1>3. n \in Nat /\ n <= Len(q) /\ Len(sq[w]) + n <= Entries
  BY <1>1, ExecAssumption
<1> HIDE DEF n
<1>4. c \in Seq(Sqe) /\ Len(c) = n
  BY <1>1, <1>3 DEF Sqe
<1>5. \A i \in 1 .. n : c[i] = [kind |-> "cancel", op |-> q[i]]
  OBVIOUS
<1> HIDE DEF c
<1>6. /\ sq[w] \o c \in Seq(Sqe)
      /\ Len(sq[w] \o c) = Len(sq[w]) + Len(c)
      /\ \A i \in 1 .. Len(sq[w]) + Len(c) :
           (sq[w] \o c)[i] = IF i <= Len(sq[w]) THEN sq[w][i] ELSE c[i - Len(sq[w])]
  BY <1>1, <1>4, ConcatProperties, Zenon
<1>7. /\ sq' \in [Workers -> Seq(Sqe)]
      /\ \A v \in Workers : v # w => sq'[v] = sq[v]
      /\ sq'[w] = sq[w] \o c
  BY <1>1, <1>2, <1>6
<1>8. Len(sq'[w]) = Len(sq[w]) + n
  BY <1>4, <1>6, <1>7
<1>9. \A i \in 1 .. Len(sq[w]) : sq'[w][i] = sq[w][i]
  BY <1>1, <1>3, <1>4, <1>6, <1>7
<1>10. \A i \in 1 .. n : sq'[w][Len(sq[w]) + i] = [kind |-> "cancel", op |-> q[i]]
  BY <1>1, <1>3, <1>4, <1>5, <1>6, <1>7
<1>11. Cancels(w, n)
  BY <1>2, <1>3, <1>7, <1>8, <1>9, <1>10 DEF Cancels
<1> QED BY <1>3, <1>11

(* Nothing overruns: the queues and counters stay within their types.      *)
LEMMA NextType == IInv /\ Next => TypeOK'
<1> SUFFICES ASSUME IInv, Next PROVE TypeOK'
  OBVIOUS
<1> USE ExecAssumption
<1> USE DEF opVars, execVars, queueVars, ringVars, runVars
<1>0. TypeOK /\ OpTypes /\ QueueTypes /\ RingTypes /\ RunTypes
  BY TypeParts DEF IInv
<1>a. OpTypes' /\ QueueTypes' /\ RingTypes' /\ RunTypes' => TypeOK'
  BY DEF TypeOK, OpTypes, QueueTypes, RingTypes, RunTypes
<1>b. /\ UNCHANGED opVars => OpTypes'
      /\ UNCHANGED <<execVars, queueVars>> => QueueTypes'
      /\ UNCHANGED ringVars => RingTypes'
      /\ UNCHANGED runVars => RunTypes'
  BY <1>0 DEF OpTypes, QueueTypes, RingTypes, RunTypes
<1>1. ASSUME NEW o \in Ops, Schedule(o) PROVE TypeOK'
  <2>1. OpTypes'
    BY <1>0, <1>1 DEF OpTypes, Schedule
  <2>2. QueueTypes'
    BY <1>0, <1>1 DEF QueueTypes, Schedule, PushImmediate, Bucket
  <2> QED BY <1>1, <2>1, <2>2, <1>a, <1>b DEF Schedule
<1>2. ASSUME NEW o \in Ops, NEW w \in Workers, ScheduleOn(o, w) PROVE TypeOK'
  <2>1. OpTypes'
    BY <1>0, <1>2 DEF OpTypes, ScheduleOn
  <2>2. QueueTypes'
    BY <1>0, <1>2 DEF QueueTypes, ScheduleOn
  <2> QED BY <1>2, <2>1, <2>2, <1>a, <1>b DEF ScheduleOn
<1>3. ASSUME NEW o \in Ops, RequestStop(o) PROVE TypeOK'
  <2>1. OpTypes'
    BY <1>0, <1>3 DEF OpTypes, RequestStop
  <2> QED BY <1>3, <2>1, <1>a, <1>b DEF RequestStop
<1>4. ASSUME NEW o \in Ops, Cancellation(o) PROVE TypeOK'
  <2>1. OpTypes'
    BY <1>0, <1>4 DEF OpTypes, Cancellation
  <2>2. state[o] = "inflight" /\ home[o] \in Workers
    BY <1>4 DEF IInv, OpOK, CallbackOK, RingOK, Cancellation
  <2>3. QueueTypes'
    <3>1. stopping' \in [Workers -> [Bucket -> Seq(Ops)]]
      BY <1>0, <1>4, <2>2 DEF QueueTypes, Cancellation, PushStopping
    <3> QED BY <1>0, <1>4, <3>1 DEF QueueTypes, Cancellation
  <2> QED BY <1>4, <2>1, <2>3, <1>a, <1>b DEF Cancellation
<1>5. ASSUME NEW o \in Ops, Reconnect(o) PROVE TypeOK'
  <2>1. OpTypes'
    BY <1>0, <1>5 DEF OpTypes, Reconnect
  <2> QED BY <1>5, <2>1, <1>a, <1>b DEF Reconnect
<1>6. ASSUME NEW w \in Workers, InstallCallback(w) PROVE TypeOK'
  <2>1. cur[w] \in Ops
    BY <1>0, <1>6 DEF IInv, ControlOK, InstallCallback, RunTypes
  <2>2. OpTypes'
    BY <1>0, <1>6, <2>1 DEF OpTypes, InstallCallback
  <2>3. QueueTypes'
    <3> DEFINE b == BucketOf[cur[w]]
               q == <<cur[w]>> \o stopping[w][b]
    <3>1. b \in Bucket /\ q \in Seq(Ops)
      BY <1>0, <2>1 DEF QueueTypes
    <3>2. UNCHANGED stopping \/ stopping' = [stopping EXCEPT ![w][b] = q]
      BY <1>6 DEF InstallCallback, PushStopping
    <3> HIDE DEF b, q
    <3>3. stopping' \in [Workers -> [Bucket -> Seq(Ops)]]
      <4>1. stopping \in [Workers -> [Bucket -> Seq(Ops)]]
        BY <1>0 DEF QueueTypes
      <4>2. [stopping EXCEPT ![w][b] = q] \in [Workers -> [Bucket -> Seq(Ops)]]
        BY <3>1, <4>1, BucketWritten
      <4> QED BY <3>2, <4>1, <4>2
    <3> QED BY <1>0, <1>6, <3>3 DEF QueueTypes, InstallCallback
  <2>4. RunTypes'
    BY <1>0, <1>6 DEF RunTypes, InstallCallback, Onward
  <2> QED BY <1>6, <2>2, <2>3, <2>4, <1>a, <1>b DEF InstallCallback
<1>7. ASSUME NEW w \in Workers, LaunchAttached(w) PROVE TypeOK'
  <2>1. QueueTypes'
    BY <1>0, <1>7 DEF QueueTypes, LaunchAttached
  <2>2. RunTypes'
    BY <1>0, <1>7 DEF RunTypes, QueueTypes, LaunchAttached, Moved
  <2> QED BY <1>7, <2>1, <2>2, <1>a, <1>b DEF LaunchAttached
<1>8. ASSUME NEW w \in Workers, NEW b \in Bucket, NEW goOn \in {"random", "submit"},
             LaunchBucket(w, b, goOn)
      PROVE  TypeOK'
  <2>1. QueueTypes'
    BY <1>0, <1>8 DEF QueueTypes, LaunchBucket
  <2>2. RunTypes'
    BY <1>0, <1>8 DEF RunTypes, QueueTypes, LaunchBucket, Moved
  <2> QED BY <1>8, <2>1, <2>2, <1>a, <1>b DEF LaunchBucket
<1>9. ASSUME NEW w \in Workers, RunTask(w) PROVE TypeOK'
  <2>1. Head(tasks[w]) \in Ops /\ Starts(w, Head(tasks[w]))
    BY <1>9, RunTaskStarts
  <2>2. tasks[w] \in Seq(Ops) /\ tasks[w] # << >>
    BY <1>0, <1>9 DEF RunTypes, RunTask, IInv, ControlOK
  <2>3. tasks' \in [Workers -> Seq(Ops)]
    BY <1>0, <1>9, <2>2 DEF RunTypes, RunTask
  <2> QED BY <1>0, <2>1, <2>3, StartsType
<1>10. ASSUME NEW w \in Workers, NEW o \in Ops, StartNext(w, o) PROVE TypeOK'
  <2>1. tasks' \in [Workers -> Seq(Ops)]
    BY <1>0, <1>10 DEF RunTypes, StartNext
  <2> QED BY <1>0, <1>10, <2>1, StartsType, StartNextStarts
<1>11. ASSUME NEW w \in Workers, SubmitOne(w) PROVE TypeOK'
  <2>1. sq[w] \in Seq(Sqe) /\ sq[w] # << >> /\ Len(sq[w]) <= Entries
    BY <1>0, <1>11 DEF RingTypes, SubmitOne
  <2>2. /\ Tail(sq[w]) \in Seq(Sqe) /\ Len(Tail(sq[w])) <= Entries
        /\ Head(sq[w]) \in Sqe
    BY <2>1, ExecAssumption
  <2>3. Head(sq[w]).op \in Ops
    BY <2>2 DEF Sqe
  <2>4. cq' \in [Workers -> Seq(Cqe)]
    <3> DEFINE ack == [op |-> None, res |-> "value"]
               ans == [op |-> Head(sq[w]).op, res |-> "stopped"]
    <3>1. ack \in Cqe /\ ans \in Cqe
      BY <2>3 DEF Cqe
    <3>2. cq[w] \o <<ack, ans>> \in Seq(Cqe) /\ Append(cq[w], ack) \in Seq(Cqe)
      BY <1>0, <3>1 DEF RingTypes
    <3>3. cq' = cq \/ \E q \in Seq(Cqe) : cq' = [cq EXCEPT ![w] = q]
      BY <1>11, <3>2 DEF SubmitOne
    <3> QED BY <1>0, <3>3 DEF RingTypes
  <2>5. sq' = [sq EXCEPT ![w] = Tail(@)] /\ UNCHANGED inflight
    BY <1>11 DEF SubmitOne
  <2>6. kern' \in [Workers -> SUBSET Ops]
    <3>1. kern[w] \cup {Head(sq[w]).op} \in SUBSET Ops /\ kern[w] \ {Head(sq[w]).op} \in SUBSET Ops
      BY <1>0, <2>3 DEF RingTypes
    <3>2. \/ kern' = [kern EXCEPT ![w] = kern[w] \cup {Head(sq[w]).op}]
          \/ kern' = [kern EXCEPT ![w] = kern[w] \ {Head(sq[w]).op}]
      BY <1>11 DEF SubmitOne
    <3> QED BY <1>0, <3>1, <3>2 DEF RingTypes
  <2>7. RingTypes'
    BY <1>0, <2>2, <2>4, <2>5, <2>6 DEF RingTypes
  <2> QED BY <1>11, <2>7, <1>a, <1>b DEF SubmitOne
<1>12. ASSUME NEW w \in Workers, SubmitReturns(w) PROVE TypeOK'
  <2>1. RunTypes'
    BY <1>0, <1>12 DEF RunTypes, SubmitReturns
  <2> QED BY <1>12, <2>1, <1>a, <1>b DEF SubmitReturns
<1>13. ASSUME NEW w \in Workers, NEW o \in Ops, KernelCompletes(w, o) PROVE TypeOK'
  <2>1. [op |-> o, res |-> "value"] \in Cqe
    BY DEF Cqe
  <2>2. RingTypes'
    BY <1>0, <1>13, <2>1 DEF RingTypes, KernelCompletes
  <2> QED BY <1>13, <2>2, <1>a, <1>b DEF KernelCompletes
<1>14. ASSUME NEW w \in Workers, PeekBatch(w) PROVE TypeOK'
  <2>1. RunTypes'
    BY <1>0, <1>14 DEF RunTypes, RingTypes, PeekBatch
  <2> QED BY <1>14, <2>1, <1>a, <1>b DEF PeekBatch
<1>15. ASSUME NEW w \in Workers, ConsumeOne(w) PROVE TypeOK'
  <2> DEFINE o == cq[w][taken[w] + 1].op
  <2>1. Consumes(w)
    BY <1>15, ConsumeOneFinishes
  <2>2. RunTypes'
    BY <1>0, <2>1 DEF RunTypes, Consumes
  <2>3. OpTypes' /\ QueueTypes'
    <3>1. CASE UNCHANGED <<opVars, stopping>>
      BY <2>1, <3>1, <1>0 DEF OpTypes, QueueTypes, Consumes
    <3>2. CASE Finishes(w, o)
      <4> HIDE DEF o
      <4>1. OpTypes'
        BY <1>0, <3>2 DEF OpTypes, Finishes, Completes
      <4>2. BucketOf[o] \in Bucket /\ stopping[w][BucketOf[o]] \in Seq(Ops)
        BY <1>0, <3>2 DEF QueueTypes, Finishes
      <4>3. Without(stopping[w][BucketOf[o]], o) \in Seq(Ops)
        BY <4>2, WithoutProperties
      <4>4. stopping' \in [Workers -> [Bucket -> Seq(Ops)]]
        BY <1>0, <3>2, <4>2, <4>3 DEF QueueTypes, Finishes, Withdraw
      <4> QED BY <1>0, <2>1, <4>1, <4>4 DEF QueueTypes, Consumes
    <3> QED BY <1>15, <3>1, <3>2, ConsumeOneFinishes
  <2> QED BY <2>1, <2>2, <2>3, <1>a, <1>b DEF Consumes
<1>16. ASSUME NEW w \in Workers, AdvanceCq(w) PROVE TypeOK'
  <2>0. some[w] \in Nat
    BY <1>0 DEF RunTypes
  <2>1. some[w] \in Nat /\ some[w] <= Len(cq[w]) /\ done[w] <= IodoneMaxnr
    BY <2>0, <1>16 DEF IInv, ControlOK, AdvanceCq
  <2>2. inflight[w] \in Nat /\ some[w] <= inflight[w]
    <3>1. Cardinality(kern[w]) \in Nat
      BY FS_CardinalityType DEF IInv, CountOK
    <3>2. inflight[w] = Len(sq[w]) + Cardinality(kern[w]) + Len(cq[w])
      BY DEF IInv, CountOK, InflightIsExact
    <3>3. Len(sq[w]) \in Nat /\ Len(cq[w]) \in Nat
      BY <1>0 DEF RingTypes
    <3> QED BY <2>1, <3>1, <3>2, <3>3
  <2>3. RingTypes'
    BY <1>0, <1>16, <2>1, <2>2 DEF RingTypes, AdvanceCq
  <2>4. RunTypes'
    BY <1>0, <1>16, <2>1 DEF RunTypes, AdvanceCq
  <2> QED BY <1>16, <2>3, <2>4, <1>a, <1>b DEF AdvanceCq
<1>17. ASSUME NEW w \in Workers, IssueCancels(w) PROVE TypeOK'
  <2>1. RunTypes'
    BY <1>0, <1>17 DEF RunTypes, IssueCancels
  <2>2. PICK n \in Nat : Cancels(w, n)
    BY <1>0, <1>17, IssueCancelsSends
  <2>3. stopping' \in [Workers -> [Bucket -> Seq(Ops)]]
    <3> DEFINE q == stopping[w][walltime]
    <3>0. q \in Seq(Ops) /\ walltime \in Bucket
      BY <1>0 DEF QueueTypes
    <3>1. SubSeq(q, n + 1, Len(q)) \in Seq(Ops)
      BY <3>0
    <3>2. stopping' = [stopping EXCEPT ![w][walltime] = SubSeq(q, n + 1, Len(q))]
      BY <2>2 DEF Cancels
    <3> HIDE DEF q
    <3> QED BY <1>0, <3>1, <3>2 DEF QueueTypes
  <2>4. QueueTypes'
    BY <1>0, <1>17, <2>3 DEF QueueTypes, IssueCancels
  <2>5. RingTypes'
    <3>1. inflight' \in [Workers -> Nat]
      BY <1>0, <2>2 DEF RingTypes, Cancels
    <3>2. sq' \in [Workers -> Seq(Sqe)] /\ \A v \in Workers : Len(sq'[v]) <= Entries
      BY <1>0, <2>2 DEF RingTypes, Cancels
    <3> QED BY <1>0, <1>17, <3>1, <3>2 DEF RingTypes, IssueCancels
  <2> QED BY <1>17, <2>1, <2>4, <2>5, <1>a, <1>b DEF IssueCancels
<1>18. ASSUME NEW w \in Workers, StepLoad(w) PROVE TypeOK'
  <2>1. RunTypes'
    BY <1>0, <1>18 DEF RunTypes, QueueTypes, StepLoad
  <2> QED BY <1>18, <2>1, <1>a, <1>b DEF StepLoad
<1>19. ASSUME NEW w \in Workers, StepStore(w) PROVE TypeOK'
  <2>1. NextStep(step[w]) \in Bucket
    BY <1>0 DEF RunTypes, NextStep, Bucket
  <2>2. QueueTypes'
    BY <1>0, <1>19, <2>1 DEF QueueTypes, StepStore
  <2>3. RunTypes'
    BY <1>0, <1>19 DEF RunTypes, StepStore, Bucket
  <2> QED BY <1>19, <2>2, <2>3, <1>a, <1>b DEF StepStore
<1> QED
  <2>1. walltime \in Bucket
    BY <1>0 DEF TypeOK
  <2> QED
    BY <1>1, <1>2, <1>3, <1>4, <1>5, <1>6, <1>7, <1>8, <1>9, <1>10, <1>11, <1>12, <1>13,
       <1>14, <1>15, <1>16, <1>17, <1>18, <1>19, <2>1
    DEF Next, Run, Launch, Submit, Iodone, EndStep, LaunchRobin, LaunchRandom

-----------------------------------------------------------------------------
(* A thread's hands are full or empty as its place in run() says: it takes *)
(* only tasks there are, and only completions that were peeked.            *)
LEMMA NextControl == IInv /\ Next => ControlOK'
<1> SUFFICES ASSUME IInv, Next PROVE ControlOK'
  OBVIOUS
<1> USE ExecAssumption
<1>0. ControlOK
  BY DEF IInv
<1>a. \A w \in Workers :
        /\ pc[w] \in {"attached", "robin", "random", "tasks", "install", "submit",
                      "peek", "consume", "stopping", "step", "store"}
        /\ after[w] \in {"robin", "random", "submit"}
        /\ tasks[w] \in Seq(Ops)
        /\ some[w] \in Nat /\ some[w] <= IodoneBatch
        /\ taken[w] \in Nat /\ done[w] \in Nat
        /\ cq[w] \in Seq(Cqe) /\ Len(cq[w]) \in Nat
  BY DEF IInv, TypeOK
<1>b. /\ DOMAIN pc = Workers /\ DOMAIN tasks = Workers /\ DOMAIN some = Workers
      /\ DOMAIN taken = Workers /\ DOMAIN cur = Workers /\ DOMAIN done = Workers
      /\ DOMAIN cq = Workers
      /\ pc = [w \in Workers |-> pc[w]] /\ tasks = [w \in Workers |-> tasks[w]]
      /\ some = [w \in Workers |-> some[w]] /\ taken = [w \in Workers |-> taken[w]]
      /\ cur = [w \in Workers |-> cur[w]] /\ done = [w \in Workers |-> done[w]]
      /\ cq = [w \in Workers |-> cq[w]]
  BY DEF IInv, TypeOK
<1>1. ASSUME UNCHANGED runVars, \A w \in Workers : cq'[w] \in Seq(Cqe) /\ Len(cq'[w]) >= Len(cq[w])
      PROVE  ControlOK'
  <2>1. \A w \in Workers : Len(cq'[w]) \in Nat
    BY <1>1
  <2> QED BY <1>0, <1>1, <1>a, <2>1 DEF ControlOK, runVars
<1>2. ASSUME UNCHANGED runVars, UNCHANGED cq PROVE ControlOK'
  BY <1>0, <1>2 DEF ControlOK, runVars
<1>3. ASSUME NEW w \in Workers, InstallCallback(w) PROVE ControlOK'
  BY <1>0, <1>3, <1>a, <1>b DEF ControlOK, InstallCallback, Onward, ringVars
<1>4. ASSUME NEW w \in Workers, NEW queue \in Seq(Ops), NEW goOn \in {"robin", "random", "submit"},
             pc[w] \in {"attached", "robin", "random"}, Moved(w, queue, goOn), UNCHANGED ringVars
      PROVE  ControlOK'
  BY <1>0, <1>4, <1>a, <1>b DEF ControlOK, Moved, ringVars
<1>5. ASSUME NEW w \in Workers, RunTask(w) PROVE ControlOK'
  <2> DEFINE rest == Tail(tasks[w])
             o == Head(tasks[w])
             goOn == IF rest = << >> THEN after[w] ELSE "tasks"
  <2>1. o \in Ops /\ o # None
    BY <1>5, RunTaskStarts
  <2>2. pc[w] = "tasks" /\ tasks' = [tasks EXCEPT ![w] = rest] /\ Start(w, o, goOn)
        /\ UNCHANGED <<cq, some, taken, done>>
    BY <1>5 DEF RunTask
  <2>3. goOn \in {"robin", "random", "submit"} \/ (goOn = "tasks" /\ rest # << >>)
    BY <1>a
  <2> HIDE DEF goOn, o, rest
  <2>4. \/ cur' = [cur EXCEPT ![w] = o] /\ pc' = [pc EXCEPT ![w] = "install"]
        \/ UNCHANGED cur /\ pc' = [pc EXCEPT ![w] = goOn]
    BY <2>2 DEF Start
  <2> QED BY <1>0, <2>1, <2>2, <2>3, <2>4, <1>a, <1>b DEF ControlOK
<1>6. ASSUME NEW w \in Workers, NEW o \in Ops, StartNext(w, o) PROVE ControlOK'
  <2>1. \/ cur' = [cur EXCEPT ![w] = o] /\ pc' = [pc EXCEPT ![w] = "install"]
        \/ UNCHANGED cur /\ pc' = [pc EXCEPT ![w] = "consume"]
    BY <1>6 DEF StartNext, Start
  <2>2. pc[w] = "consume" /\ UNCHANGED <<tasks, cq, some, taken, done>>
    BY <1>6 DEF StartNext
  <2> QED BY <1>0, <2>1, <2>2, <1>a, <1>b DEF ControlOK
<1>7. ASSUME NEW w \in Workers, SubmitOne(w) PROVE ControlOK'
  <2>1. UNCHANGED runVars
    BY <1>7 DEF SubmitOne
  <2>2. \A v \in Workers : cq'[v] \in Seq(Cqe)
    BY NextType DEF TypeOK
  <2>3. \A v \in Workers : Len(cq'[v]) >= Len(cq[v])
    <3> DEFINE ack == [op |-> None, res |-> "value"]
               ans == [op |-> Head(sq[w]).op, res |-> "stopped"]
    <3>1. Len(cq[w] \o <<ack, ans>>) >= Len(cq[w]) /\ Len(Append(cq[w], ack)) >= Len(cq[w])
      BY <1>a
    <3>2. \/ cq' = cq
          \/ cq' = [cq EXCEPT ![w] = cq[w] \o <<ack, ans>>]
          \/ cq' = [cq EXCEPT ![w] = Append(cq[w], ack)]
      BY <1>7 DEF SubmitOne
    <3>3. cq' = cq \/ cq'[w] = cq[w] \o <<ack, ans>> \/ cq'[w] = Append(cq[w], ack)
      BY <3>2, <1>b
    <3>4. \A v \in Workers : v # w => cq'[v] = cq[v]
      BY <3>2, <1>b
    <3> QED BY <3>1, <3>3, <3>4, <1>a
  <2> QED BY <1>1, <2>1, <2>2, <2>3
<1>8. ASSUME NEW w \in Workers, NEW o \in Ops, KernelCompletes(w, o) PROVE ControlOK'
  <2>1. UNCHANGED runVars
    BY <1>8 DEF KernelCompletes
  <2>2. \A v \in Workers : cq'[v] \in Seq(Cqe)
    BY NextType DEF TypeOK
  <2>3. \A v \in Workers : Len(cq'[v]) >= Len(cq[v])
    BY <1>8, <1>a, <1>b DEF KernelCompletes
  <2> QED BY <1>1, <2>1, <2>2, <2>3
<1>9. ASSUME NEW w \in Workers, SubmitReturns(w) PROVE ControlOK'
  BY <1>0, <1>9, <1>a, <1>b DEF ControlOK, SubmitReturns, ringVars
<1>10. ASSUME NEW w \in Workers, PeekBatch(w) PROVE ControlOK'
  BY <1>0, <1>10, <1>a, <1>b DEF ControlOK, PeekBatch, ringVars
<1>11. ASSUME NEW w \in Workers, ConsumeOne(w) PROVE ControlOK'
  <2>1. Consumes(w)
    BY <1>11, ConsumeOneFinishes
  <2> QED BY <1>0, <2>1, <1>a, <1>b DEF ControlOK, Consumes, ringVars
<1>12. ASSUME NEW w \in Workers, AdvanceCq(w) PROVE ControlOK'
  <2>1. \A v \in Workers : Len(cq'[v]) \in Nat /\ (v # w => cq'[v] = cq[v])
    <3>1. \A v \in Workers : cq'[v] \in Seq(Cqe)
      BY NextType DEF TypeOK
    <3>2. \A v \in Workers : Len(cq'[v]) \in Nat
      BY <3>1
    <3>3. \A v \in Workers : v # w => cq'[v] = cq[v]
      BY <1>12, <1>b DEF AdvanceCq
    <3> QED BY <3>2, <3>3
  <2>2. /\ some' = [some EXCEPT ![w] = 0] /\ taken' = [taken EXCEPT ![w] = 0]
        /\ UNCHANGED <<tasks, cur>>
        /\ pc[w] = "consume"
        /\ done' = [done EXCEPT ![w] = @ + some[w]]
        /\ \/ pc' = [pc EXCEPT ![w] = "stopping"]
           \/ pc' = [pc EXCEPT ![w] = "peek"] /\ done[w] + some[w] <= IodoneMaxnr
    <3>1. ~Greedy(some[w], done[w] + some[w]) => done[w] + some[w] <= IodoneMaxnr
      BY <1>a DEF Greedy
    <3>2. CASE Greedy(some[w], done[w] + some[w])
      BY <1>12, <3>2 DEF AdvanceCq
    <3>3. CASE ~Greedy(some[w], done[w] + some[w])
      BY <1>12, <3>1, <3>3 DEF AdvanceCq
    <3> QED BY <3>2, <3>3
  <2>3. ASSUME NEW v \in Workers, v # w
        PROVE  /\ pc'[v] = pc[v] /\ tasks'[v] = tasks[v] /\ cur'[v] = cur[v]
               /\ some'[v] = some[v] /\ taken'[v] = taken[v] /\ done'[v] = done[v]
               /\ cq'[v] = cq[v]
    BY <1>b, <2>1, <2>2, <2>3
  <2>4. /\ some'[w] = 0 /\ taken'[w] = 0 /\ cur'[w] = cur[w] /\ cur[w] = None
        /\ Len(cq'[w]) \in Nat
        /\ pc'[w] = "stopping" \/ (pc'[w] = "peek" /\ done'[w] <= IodoneMaxnr)
    BY <1>0, <1>b, <2>1, <2>2 DEF ControlOK
  <2> QED BY <1>0, <1>a, <2>3, <2>4 DEF ControlOK
<1>13. ASSUME NEW w \in Workers, IssueCancels(w) PROVE ControlOK'
  BY <1>0, <1>13, <1>a, <1>b DEF ControlOK, IssueCancels
<1>14. ASSUME NEW w \in Workers, StepLoad(w) PROVE ControlOK'
  BY <1>0, <1>14, <1>a, <1>b DEF ControlOK, StepLoad, ringVars
<1>15. ASSUME NEW w \in Workers, StepStore(w) PROVE ControlOK'
  BY <1>0, <1>15, <1>a, <1>b DEF ControlOK, StepStore, ringVars
<1>16. ASSUME NEW w \in Workers, LaunchAttached(w) PROVE ControlOK'
  <2>1. attached[w] \in Seq(Ops)
    BY DEF IInv, TypeOK
  <2> QED BY <1>4, <1>16, <2>1 DEF LaunchAttached
<1>17. ASSUME NEW w \in Workers, NEW b \in Bucket, NEW goOn \in {"random", "submit"},
              pc[w] \in {"robin", "random"}, LaunchBucket(w, b, goOn)
       PROVE  ControlOK'
  <2>1. immediate[b] \in Seq(Ops)
    BY DEF IInv, TypeOK
  <2> QED BY <1>4, <1>17, <2>1 DEF LaunchBucket
<1> QED
  <2>1. walltime \in Bucket
    BY DEF IInv, TypeOK
  <2>2. ASSUME NEW o \in Ops,
               \/ Schedule(o) \/ RequestStop(o) \/ Cancellation(o) \/ Reconnect(o)
               \/ \E w \in Workers : ScheduleOn(o, w)
        PROVE  ControlOK'
    BY <1>2, <2>2 DEF Schedule, RequestStop, Cancellation, Reconnect, ScheduleOn, ringVars
  <2> QED
    BY <2>1, <2>2, <1>3, <1>5, <1>6, <1>7, <1>9, <1>10, <1>11, <1>12, <1>13, <1>14,
       <1>15, <1>8, <1>16, <1>17
    DEF Next, Run, Launch, Submit, Iodone, EndStep, LaunchRobin, LaunchRandom

-----------------------------------------------------------------------------
(* No queue comes to hold q where it did not, but for the tasks of w, which *)
(* move up by d: q stays in the one place where it was, if any.            *)
LEMMA QueuesShrink ==
  ASSUME NEW q \in Ops, QueuedOK(q), NEW w \in Workers, NEW d \in Nat,
         attached \in [Workers -> Seq(Ops)], UNCHANGED attached,
         tasks \in [Workers -> Seq(Ops)], tasks' \in [Workers -> Seq(Ops)],
         state[q] = "queued" => state'[q] = "queued",
         \A b \in Bucket : \A i \in DOMAIN immediate'[b] : immediate'[b][i] = q =>
           i \in DOMAIN immediate[b] /\ immediate[b][i] = q,
         \A v \in Workers : v # w => tasks'[v] = tasks[v],
         \A i \in DOMAIN tasks'[w] : tasks'[w][i] = q =>
           i + d \in DOMAIN tasks[w] /\ tasks[w][i + d] = q
  PROVE  QueuedOK(q)'
<1>1. ASSUME NEW v \in Workers, Contains(tasks'[v], q) PROVE Contains(tasks[v], q)
  <2>1. PICK i \in DOMAIN tasks'[v] : tasks'[v][i] = q
    BY <1>1 DEF Contains
  <2>2. CASE v = w
    <3>1. i \in DOMAIN tasks'[w] /\ tasks'[w][i] = q
      BY <2>1, <2>2
    <3>2. i + d \in DOMAIN tasks[w] /\ tasks[w][i + d] = q
      BY <3>1
    <3>3. i + d \in 1 .. Len(tasks[w])
      BY <3>2
    <3> QED BY <2>2, <3>2, <3>3, Zenon DEF Contains
  <2>3. CASE v # w
    <3>1. tasks'[v] = tasks[v]
      BY <2>3
    <3> QED BY <1>1, <3>1 DEF Contains
  <2> QED BY <2>2, <2>3
<1>2. ASSUME NEW b \in Bucket, NEW i \in DOMAIN immediate'[b], immediate'[b][i] = q
      PROVE  /\ state'[q] = "queued"
             /\ \A c \in Bucket : \A j \in DOMAIN immediate'[c] :
                  immediate'[c][j] = q => c = b /\ j = i
             /\ \A v \in Workers : ~Contains(attached'[v], q) /\ ~Contains(tasks'[v], q)
  <2>1. i \in DOMAIN immediate[b] /\ immediate[b][i] = q
    BY <1>2
  <2>2. /\ state[q] = "queued"
        /\ \A c \in Bucket : \A j \in DOMAIN immediate[c] :
             immediate[c][j] = q => c = b /\ j = i
        /\ \A v \in Workers : ~Contains(attached[v], q) /\ ~Contains(tasks[v], q)
    BY <2>1 DEF QueuedOK
  <2> QED BY <1>1, <2>2
<1>3. ASSUME NEW u \in Workers, NEW i \in DOMAIN attached[u], attached[u][i] = q
      PROVE  /\ state'[q] = "queued"
             /\ \A v \in Workers : \A j \in DOMAIN attached[v] :
                  attached[v][j] = q => v = u /\ j = i
             /\ \A v \in Workers : ~Contains(tasks'[v], q)
  <2>1. /\ state[q] = "queued"
        /\ \A v \in Workers : \A j \in DOMAIN attached[v] :
             attached[v][j] = q => v = u /\ j = i
        /\ \A v \in Workers : ~Contains(tasks[v], q)
    BY <1>3 DEF QueuedOK
  <2> QED BY <1>1, <2>1
<1>4. ASSUME NEW u \in Workers, NEW i \in DOMAIN tasks'[u], tasks'[u][i] = q
      PROVE  /\ state'[q] = "queued"
             /\ \A v \in Workers : \A j \in DOMAIN tasks'[v] :
                  tasks'[v][j] = q => v = u /\ j = i
  <2>1. PICK k \in Nat : k \in DOMAIN tasks[u] /\ tasks[u][k] = q /\ k = IF u = w THEN i + d ELSE i
    <3>1. i \in Nat
      OBVIOUS
    <3> QED BY <1>4, <3>1
  <2>2. /\ state[q] = "queued"
        /\ \A v \in Workers : \A j \in DOMAIN tasks[v] : tasks[v][j] = q => v = u /\ j = k
    BY <2>1 DEF QueuedOK
  <2>3. ASSUME NEW v \in Workers, NEW j \in DOMAIN tasks'[v], tasks'[v][j] = q
        PROVE  v = u /\ j = i
    <3>1. i \in Nat /\ j \in Nat
      OBVIOUS
    <3>2. v = w => j + d \in DOMAIN tasks[v] /\ tasks[v][j + d] = q
      BY <2>3
    <3>3. v # w => j \in DOMAIN tasks[v] /\ tasks[v][j] = q
      BY <2>3
    <3> QED BY <2>1, <2>2, <3>1, <3>2, <3>3
  <2> QED BY <2>2, <2>3
<1> QED BY <1>2, <1>3, <1>4 DEF QueuedOK

(* A queue that is moved, and a task that is pushed, launched or pushed    *)
(* again, stays in one place: no operation is ever scheduled twice.        *)
LEMMA NextQueued == IInv /\ Next => \A q \in Ops : QueuedOK(q)'
<1> SUFFICES ASSUME IInv, Next, NEW q \in Ops PROVE QueuedOK(q)'
  OBVIOUS
<1> USE DEF opVars, execVars, queueVars, runVars
<1>0. QueuedOK(q)
  BY DEF IInv, OpOK
<1>a. /\ immediate \in [Bucket -> Seq(Ops)] /\ balance \in Bucket /\ walltime \in Bucket
      /\ attached \in [Workers -> Seq(Ops)]
      /\ tasks \in [Workers -> Seq(Ops)]
      /\ state \in [Ops -> {"connected", "queued", "inflight", "completed"}]
  BY DEF IInv, TypeOK
<1>1. ASSUME UNCHANGED <<immediate, attached, tasks>>,
             state[q] = "queued" => state'[q] = "queued"
      PROVE  QueuedOK(q)'
  BY <1>0, <1>1 DEF QueuedOK, Contains
<1>2. ASSUME NEW o \in Ops, Schedule(o) PROVE QueuedOK(q)'
  BY <1>0, <1>2, <1>a DEF QueuedOK, Contains, Schedule, PushImmediate
<1>3. ASSUME NEW o \in Ops, NEW w \in Workers, ScheduleOn(o, w) PROVE QueuedOK(q)'
  BY <1>0, <1>3, <1>a DEF QueuedOK, Contains, ScheduleOn
<1>4. ASSUME NEW o \in Ops, Reconnect(o) PROVE QueuedOK(q)'
  BY <1>1, <1>4, <1>a DEF Reconnect
<1>5. ASSUME NEW w \in Workers, LaunchAttached(w) PROVE QueuedOK(q)'
  BY <1>0, <1>5, <1>a DEF QueuedOK, Contains, LaunchAttached, Moved
<1>6. ASSUME NEW w \in Workers, NEW b \in Bucket, NEW goOn, LaunchBucket(w, b, goOn)
      PROVE  QueuedOK(q)'
  BY <1>0, <1>6, <1>a DEF QueuedOK, Contains, LaunchBucket, Moved
<1>7. ASSUME NEW w \in Workers, RunTask(w) PROVE QueuedOK(q)'
  <2> DEFINE o == Head(tasks[w])
  <2>1. /\ tasks[w] # << >> /\ tasks[w] \in Seq(Ops)
        /\ o = tasks[w][1] /\ 1 \in DOMAIN tasks[w]
        /\ tasks' = [tasks EXCEPT ![w] = Tail(@)]
        /\ UNCHANGED attached
    BY <1>7, <1>a DEF RunTask, IInv, ControlOK
  <2>2. o \in Ops /\ state[o] = "queued" /\ Starts(w, o)
    BY <1>7, RunTaskStarts
  <2> HIDE DEF o
  <2>3. \A v \in Workers : \A i \in DOMAIN tasks'[v] :
          \E j \in DOMAIN tasks[v] : tasks'[v][i] = tasks[v][j] /\ j = IF v = w THEN i + 1 ELSE i
    BY <2>1, <1>a
  <2>4. CASE q = o
    <3>1. /\ \A b \in Bucket : \A i \in DOMAIN immediate[b] : immediate[b][i] # q
          /\ \A v \in Workers : \A i \in DOMAIN attached'[v] : attached'[v][i] # q
      BY <1>0, <1>a, <2>1, <2>4 DEF QueuedOK, Contains
    <3>2. \A v \in Workers : \A i \in DOMAIN tasks'[v] : tasks'[v][i] # q
      BY <1>0, <1>a, <2>1, <2>3, <2>4 DEF QueuedOK
    <3>3. CASE UNCHANGED immediate
      BY <3>1, <3>2, <3>3 DEF QueuedOK
    <3>4. CASE StartRestarts(w, o)
      <4>1. /\ state' = [state EXCEPT ![q] = "queued"]
            /\ immediate' = [immediate EXCEPT ![balance] = Append(@, q)]
        BY <2>4, <3>4 DEF StartRestarts, PushImmediate
      <4>2. \A v \in Workers : ~Contains(attached'[v], q) /\ ~Contains(tasks'[v], q)
        <5>1. tasks' \in [Workers -> Seq(Ops)] /\ attached' = attached
          BY <2>1, <1>a
        <5> QED BY <3>1, <3>2, <5>1, <1>a DEF Contains
      <4>3. \A b \in Bucket : \A i \in DOMAIN immediate'[b] :
              immediate'[b][i] = q => b = balance /\ i = Len(immediate[balance]) + 1
        BY <3>1, <4>1, <1>a
      <4> QED BY <3>1, <3>2, <4>1, <4>2, <4>3, <1>a DEF QueuedOK
    <3> QED BY <2>2, <3>3, <3>4 DEF Starts, Start, StartSubmits, StartStopped
  <2>5. CASE q # o
    <3>d. PICK d \in Nat : d = 1
      OBVIOUS
    <3>0. /\ tasks' \in [Workers -> Seq(Ops)]
          /\ \A v \in Workers : v # w => tasks'[v] = tasks[v]
          /\ \A i \in DOMAIN tasks'[w] : tasks'[w][i] = q =>
               i + d \in DOMAIN tasks[w] /\ tasks[w][i + d] = q
      BY <1>a, <2>1, <3>d
    <3>e. /\ attached \in [Workers -> Seq(Ops)] /\ UNCHANGED attached
          /\ tasks \in [Workers -> Seq(Ops)]
      BY <1>a, <2>1
    <3>1. CASE UNCHANGED immediate /\ state'[q] = state[q]
      BY <1>0, <3>0, <3>e, <3>1, QueuesShrink
    <3>2. CASE StartRestarts(w, o)
      <4>1. /\ state' = [state EXCEPT ![o] = "queued"]
            /\ immediate' = [immediate EXCEPT ![balance] = Append(@, o)]
        BY <3>2 DEF StartRestarts, PushImmediate
      <4>2. \A b \in Bucket : \A i \in DOMAIN immediate'[b] : immediate'[b][i] = q =>
              i \in DOMAIN immediate[b] /\ immediate[b][i] = q
        BY <1>a, <2>2, <2>5, <4>1
      <4>3. state[q] = "queued" => state'[q] = "queued"
        BY <1>a, <2>5, <4>1
      <4> HIDE DEF opVars, execVars, queueVars, runVars
      <4> QED BY <1>0, <3>0, <3>e, <4>2, <4>3, QueuesShrink, Zenon
    <3> QED BY <2>2, <2>5, <3>1, <3>2, <1>a DEF Starts, Start, StartSubmits, StartStopped, Completes
  <2> QED BY <2>4, <2>5
<1>8. ASSUME NEW w \in Workers, NEW o \in Ops, StartNext(w, o) PROVE QueuedOK(q)'
  <2>1. Starts(w, o) /\ state[o] = "connected" /\ tasks' = tasks /\ attached' = attached
    BY <1>8, StartNextStarts DEF StartNext
  <2>2. CASE StartRestarts(w, o)
    <3>1. /\ state' = [state EXCEPT ![o] = "queued"]
          /\ immediate' = [immediate EXCEPT ![balance] = Append(@, o)]
      BY <2>2 DEF StartRestarts, PushImmediate
    <3>2. CASE q = o
      <4>1. /\ \A b \in Bucket : \A i \in DOMAIN immediate[b] : immediate[b][i] # q
            /\ \A v \in Workers : ~Contains(attached[v], q) /\ ~Contains(tasks[v], q)
        BY <1>0, <2>1, <3>2 DEF QueuedOK, Contains
      <4>2. state'[q] = "queued"
        BY <1>a, <3>1, <3>2
      <4>3. \A b \in Bucket : \A i \in DOMAIN immediate'[b] :
              immediate'[b][i] = q => b = balance /\ i = Len(immediate[balance]) + 1
        BY <1>a, <3>1, <4>1
      <4>4. \A v \in Workers : ~Contains(attached'[v], q) /\ ~Contains(tasks'[v], q)
        BY <2>1, <4>1
      <4>5. \A v \in Workers : \A i \in DOMAIN attached'[v] : attached'[v][i] # q
        <5>1. \A v \in Workers : DOMAIN attached'[v] = 1 .. Len(attached'[v])
          BY <1>a, <2>1
        <5> QED BY <4>4, <5>1, Zenon DEF Contains
      <4>6. \A v \in Workers : \A i \in DOMAIN tasks'[v] : tasks'[v][i] # q
        <5>1. \A v \in Workers : DOMAIN tasks'[v] = 1 .. Len(tasks'[v])
          BY <1>a, <2>1
        <5> QED BY <4>4, <5>1, Zenon DEF Contains
      <4> QED BY <4>2, <4>3, <4>4, <4>5, <4>6 DEF QueuedOK
    <3>3. CASE q # o
      <4>1. \A b \in Bucket : \A i \in DOMAIN immediate'[b] : immediate'[b][i] = q =>
              i \in DOMAIN immediate[b] /\ immediate[b][i] = q
        BY <1>a, <3>1, <3>3
      <4>2. state[q] = "queued" => state'[q] = "queued"
        BY <1>a, <3>1, <3>3
      <4>3. PICK d \in Nat : d = 0
        OBVIOUS
      <4>4. \A i \in DOMAIN tasks'[w] : tasks'[w][i] = q =>
              i + d \in DOMAIN tasks[w] /\ tasks[w][i + d] = q
        BY <1>a, <2>1, <4>3
      <4>5. /\ attached \in [Workers -> Seq(Ops)] /\ UNCHANGED attached
            /\ tasks \in [Workers -> Seq(Ops)] /\ tasks' \in [Workers -> Seq(Ops)]
            /\ \A v \in Workers : v # w => tasks'[v] = tasks[v]
        BY <1>a, <2>1
      <4> HIDE DEF opVars, execVars, queueVars, runVars
      <4> QED BY <1>0, <4>1, <4>2, <4>4, <4>5, QueuesShrink, Zenon
    <3> QED BY <3>2, <3>3
  <2>3. CASE UNCHANGED immediate /\ (state[q] = "queued" => state'[q] = "queued")
    BY <1>1, <2>1, <2>3
  <2> QED BY <2>1, <2>2, <2>3, <1>a DEF Starts, Start, StartSubmits, StartStopped, Completes
<1>9. ASSUME NEW w \in Workers, ConsumeOne(w) PROVE QueuedOK(q)'
  <2>1. UNCHANGED <<immediate, attached, tasks>>
    BY <1>9 DEF ConsumeOne
  <2>2. state[q] = "queued" => state'[q] = "queued"
    <3> DEFINE o == cq[w][taken[w] + 1].op
    <3>1. UNCHANGED state \/ Finishes(w, o)
      BY <1>9, ConsumeOneFinishes
    <3> HIDE DEF o
    <3> QED BY <3>1, <1>a DEF Finishes, Completes
  <2> QED BY <1>1, <2>1, <2>2
<1> QED
  <2>1. ASSUME NEW o \in Ops,
               \/ RequestStop(o) \/ Cancellation(o)
               \/ \E w \in Workers : KernelCompletes(w, o)
        PROVE  QueuedOK(q)'
    BY <1>1, <2>1 DEF RequestStop, Cancellation, KernelCompletes
  <2>2. ASSUME NEW w \in Workers,
               \/ InstallCallback(w) \/ Submit(w) \/ PeekBatch(w) \/ AdvanceCq(w) \/ EndStep(w)
        PROVE  QueuedOK(q)'
    BY <1>1, <2>2 DEF InstallCallback, Submit, SubmitOne, SubmitReturns, PeekBatch,
       AdvanceCq, EndStep, IssueCancels, StepLoad, StepStore
  <2> QED
    BY <2>1, <2>2, <1>2, <1>3, <1>4, <1>5, <1>6, <1>7, <1>8, <1>9, <1>a
    DEF Next, Run, Launch, Iodone, LaunchRobin, LaunchRandom

-----------------------------------------------------------------------------
(* The request of an operation goes from the submission queue to the       *)
(* kernel, from there to the completion queue, and is gone when it is      *)
(* seen: the operation is in flight exactly as long.                       *)

\* A step that leaves the request of operation o where it is.
SamePlace(o) ==
  /\ \A v \in Workers, i \in Nat : (InSq(v, o, i)' <=> InSq(v, o, i))
                                   /\ (InCq(v, o, i)' <=> InCq(v, o, i))
  /\ \A v \in Workers : (o \in kern[v])' <=> o \in kern[v]

(* Such a step keeps what the invariant says of its place.                *)
LEMMA SamePlaceKeeps ==
  ASSUME NEW o \in Ops, RingOK(o), SamePlace(o),
         (state[o] = "inflight")' <=> state[o] = "inflight",
         state[o] = "inflight" => home'[o] = home[o]
  PROVE  RingOK(o)'
<1>1. Nowhere(o) => Nowhere(o)'
  BY DEF SamePlace, Nowhere
<1>2. \A w \in Workers : AtKern(w, o) => AtKern(w, o)'
  BY DEF SamePlace, AtKern
<1>3. \A w \in Workers, k \in Nat : (AtSq(w, o, k) => AtSq(w, o, k)') /\ (AtCq(w, o, k) => AtCq(w, o, k)')
  BY DEF SamePlace, AtSq, AtCq
<1> QED BY <1>1, <1>2, <1>3 DEF RingOK

(* Every step keeps what the invariant says of the place of each request.  *)
LEMMA NextRing == IInv /\ Next => \A q \in Ops : RingOK(q)'
<1> SUFFICES ASSUME IInv, Next, NEW q \in Ops PROVE RingOK(q)'
  OBVIOUS
<1> USE DEF opVars, execVars, queueVars, ringVars, runVars
<1>0. RingOK(q)
  BY DEF IInv, OpOK
<1>a. /\ state \in [Ops -> {"connected", "queued", "inflight", "completed"}]
      /\ home \in [Ops -> Workers \cup {None}]
      /\ sq \in [Workers -> Seq(Sqe)] /\ cq \in [Workers -> Seq(Cqe)]
      /\ kern \in [Workers -> SUBSET Ops]
      /\ some \in [Workers -> 0 .. IodoneBatch] /\ taken \in [Workers -> 0 .. IodoneBatch]
  BY DEF IInv, TypeOK
<1>b. \A w \in Workers : /\ some[w] \in Nat /\ taken[w] \in Nat
                         /\ taken[w] <= some[w] /\ some[w] <= Len(cq[w])
                         /\ Len(cq[w]) \in Nat /\ Len(sq[w]) \in Nat
  <2>1. \A w \in Workers : some[w] \in Nat /\ taken[w] \in Nat
    BY <1>a, ExecAssumption
  <2> QED BY <1>a, <2>1 DEF IInv, ControlOK
<1>1. ASSUME UNCHANGED <<sq, kern, cq, taken>>,
             (state[q] = "inflight")' <=> state[q] = "inflight",
             state[q] = "inflight" => home'[q] = home[q]
      PROVE  RingOK(q)'
  <2>1. SamePlace(q)
    BY <1>1 DEF SamePlace, InSq, InCq
  <2> QED BY <1>0, <1>1, <2>1, SamePlaceKeeps
<1>2. ASSUME NEW w \in Workers, NEW o \in Ops, Starts(w, o) PROVE RingOK(q)'
  <2>1. UNCHANGED <<kern, cq, taken>> /\ state[o] # "inflight"
    BY <1>2 DEF Starts
  <2>2. CASE StartStopped(o) \/ StartRestarts(w, o)
    BY <1>1, <1>a, <2>1, <2>2 DEF StartStopped, StartRestarts, Completes
  <2>3. CASE StartSubmits(w, o)
    <3> DEFINE e == [kind |-> "io", op |-> o]
    <3>1. /\ sq' = [sq EXCEPT ![w] = Append(@, e)]
          /\ state' = [state EXCEPT ![o] = "inflight"]
          /\ home' = [home EXCEPT ![o] = w]
      BY <2>3 DEF StartSubmits
    <3>2. \A v \in Workers, i \in Nat :
            InSq(v, q, i)' <=> InSq(v, q, i) \/ (v = w /\ i = Len(sq[w]) + 1 /\ q = o)
      BY <3>1, <1>a DEF InSq
    <3>3. \A v \in Workers, i \in Nat : InCq(v, q, i)' <=> InCq(v, q, i)
      BY <2>1 DEF InCq
    <3>4. CASE q = o
      <4>1. Nowhere(q)
        BY <1>0, <2>1, <3>4 DEF RingOK
      <4>k. PICK k \in Nat : k = Len(sq[w]) + 1
        BY <1>b
      <4>2. AtSq(w, q, k)'
        BY <2>1, <3>2, <3>3, <3>4, <4>1, <4>k DEF AtSq, Nowhere
      <4> QED BY <1>a, <1>b, <3>1, <3>4, <4>2 DEF RingOK
    <3>5. CASE q # o
      <4>1. SamePlace(q)
        BY <2>1, <3>2, <3>3, <3>5 DEF SamePlace
      <4> QED BY <1>0, <1>a, <3>1, <3>5, <4>1, SamePlaceKeeps
    <3> QED BY <3>4, <3>5
  <2> QED BY <1>2, <2>2, <2>3 DEF Starts, Start
<1>3. ASSUME NEW w \in Workers, NEW o \in Ops, KernelCompletes(w, o) PROVE RingOK(q)'
  <2>1. /\ o \in kern[w]
        /\ kern' = [kern EXCEPT ![w] = @ \ {o}]
        /\ cq' = [cq EXCEPT ![w] = Append(@, [op |-> o, res |-> "value"])]
        /\ UNCHANGED <<sq, taken, state, home>>
    BY <1>3 DEF KernelCompletes
  <2>2. \A v \in Workers, i \in Nat : InSq(v, q, i)' <=> InSq(v, q, i)
    BY <2>1 DEF InSq
  <2>3. \A v \in Workers, i \in Nat :
          InCq(v, q, i)' <=> InCq(v, q, i) \/ (v = w /\ i = Len(cq[w]) + 1 /\ q = o)
    BY <2>1, <1>a, <1>b DEF InCq
  <2>4. CASE q = o
    <3>1. AtKern(w, q) /\ state[q] = "inflight" /\ home[q] = w
      BY <1>0, <2>1, <2>4 DEF RingOK, AtSq, AtKern, AtCq, Nowhere
    <3>k. PICK k \in Nat : k = Len(cq[w]) + 1
      BY <1>b
    <3>2. AtCq(w, q, k)'
      BY <1>a, <2>1, <2>2, <2>3, <2>4, <3>1, <3>k DEF AtCq, AtKern
    <3> QED BY <1>b, <2>1, <3>1, <3>2 DEF RingOK
  <2>5. CASE q # o
    <3>1. SamePlace(q)
      BY <1>a, <2>1, <2>2, <2>3, <2>5 DEF SamePlace
    <3> QED BY <1>0, <2>1, <3>1, SamePlaceKeeps
  <2> QED BY <2>4, <2>5
<1>4. ASSUME NEW w \in Workers, IssueCancels(w) PROVE RingOK(q)'
  <2>1. UNCHANGED <<kern, cq, taken, state, home>>
    BY <1>4 DEF IssueCancels
  <2>2. PICK n \in Nat : Cancels(w, n)
    BY <1>4, IssueCancelsSends DEF IInv
  <2>3. \A v \in Workers, i \in Nat : InSq(v, q, i)' <=> InSq(v, q, i)
    <3>1. \A v \in Workers : v # w => sq'[v] = sq[v]
      BY <2>2 DEF Cancels
    <3>2. /\ sq'[w] \in Seq(Sqe) /\ Len(sq'[w]) = Len(sq[w]) + n
          /\ \A i \in 1 .. Len(sq[w]) : sq'[w][i] = sq[w][i]
      BY <2>2 DEF Cancels
    <3>3. \A i \in 1 .. n : sq'[w][Len(sq[w]) + i].kind = "cancel"
      <4>1. \A i \in 1 .. n : sq'[w][Len(sq[w]) + i] =
                                [kind |-> "cancel", op |-> stopping[w][walltime][i]]
        BY <2>2 DEF Cancels
      <4> SUFFICES ASSUME NEW i \in 1 .. n PROVE sq'[w][Len(sq[w]) + i].kind = "cancel"
        OBVIOUS
      <4>2. sq'[w][Len(sq[w]) + i] = [kind |-> "cancel", op |-> stopping[w][walltime][i]]
        BY <4>1
      <4> QED BY ONLY <4>2
    <3>4. \A i \in Nat : i \in DOMAIN sq'[w] /\ i \notin DOMAIN sq[w] => sq'[w][i].kind = "cancel"
      <4> SUFFICES ASSUME NEW i \in Nat, i \in DOMAIN sq'[w], i \notin DOMAIN sq[w]
                   PROVE  sq'[w][i].kind = "cancel"
        OBVIOUS
      <4>1. i - Len(sq[w]) \in 1 .. n /\ Len(sq[w]) + (i - Len(sq[w])) = i
        BY <1>a, <3>2
      <4> QED BY <3>3, <4>1
    <3>5. \A i \in Nat : InSq(w, q, i)' <=> InSq(w, q, i)
      <4>1. \A i \in Nat : i \in DOMAIN sq[w] => i \in DOMAIN sq'[w] /\ sq'[w][i] = sq[w][i]
        <5>1. DOMAIN sq[w] = 1 .. Len(sq[w]) /\ DOMAIN sq'[w] = 1 .. Len(sq'[w])
          BY <1>a, <3>2
        <5> QED BY <1>b, <2>2, <3>2, <5>1
      <4> QED BY <3>4, <4>1 DEF InSq
    <3> QED BY <3>1, <3>5 DEF InSq
  <2>4. SamePlace(q)
    BY <2>1, <2>3 DEF SamePlace, InCq
  <2> QED BY <1>0, <2>1, <2>4, SamePlaceKeeps
<1>5. ASSUME NEW w \in Workers, ConsumeOne(w) PROVE RingOK(q)'
  <2> DEFINE o == cq[w][taken[w] + 1].op
  <2>1. /\ UNCHANGED <<sq, kern, cq>>
        /\ taken' = [taken EXCEPT ![w] = @ + 1]
        /\ taken[w] < Len(cq[w])
    BY <1>5, <1>b, ConsumeOneFinishes DEF Consumes
  <2>2. \A v \in Workers, i \in Nat :
          InCq(v, q, i)' <=> InCq(v, q, i) /\ ~(v = w /\ i = taken[w] + 1)
    BY <2>1, <1>a, <1>b DEF InCq
  <2>3. \A v \in Workers, i \in Nat : InSq(v, q, i)' <=> InSq(v, q, i)
    BY <2>1 DEF InSq
  <2>4. CASE q = o
    <3>1. Finishes(w, q)
      BY <1>5, <2>4, ConsumeOneFinishes, ExecAssumption
    <3>2. AtCq(w, q, taken[w] + 1)
      <4>1. InCq(w, q, taken[w] + 1) /\ taken[w] + 1 \in Nat
        BY <1>b, <3>1 DEF Finishes
      <4> QED BY <1>0, <4>1 DEF RingOK, AtSq, AtKern, AtCq, Nowhere
    <3>3. Nowhere(q)'
      BY <2>1, <2>2, <2>3, <3>2 DEF AtCq, Nowhere
    <3>4. state'[q] = "completed"
      BY <1>a, <3>1 DEF Finishes, Completes
    <3> QED BY <3>3, <3>4 DEF RingOK
  <2>5. CASE q # o
    <3>1. ~InCq(w, q, taken[w] + 1)
      BY <2>5 DEF InCq
    <3>2. SamePlace(q)
      BY <2>1, <2>2, <2>3, <3>1 DEF SamePlace
    <3>3. state'[q] = state[q] /\ home'[q] = home[q]
      <4>1. UNCHANGED opVars \/ Finishes(w, o)
        BY <1>5, ConsumeOneFinishes
      <4> HIDE DEF o
      <4> QED BY <1>a, <2>5, <4>1 DEF Finishes, Completes
    <3> QED BY <1>0, <3>2, <3>3, SamePlaceKeeps
  <2> QED BY <2>4, <2>5
<1>6. ASSUME NEW w \in Workers, AdvanceCq(w) PROVE RingOK(q)'
  <2>1. /\ UNCHANGED <<sq, kern, state, home>>
        /\ cq' = [cq EXCEPT ![w] = SubSeq(@, some[w] + 1, Len(@))]
        /\ taken' = [taken EXCEPT ![w] = 0]
        /\ taken[w] = some[w]
    BY <1>6 DEF AdvanceCq
  <2>2. \A v \in Workers, i \in Nat : InSq(v, q, i)' <=> InSq(v, q, i)
    BY <2>1 DEF InSq
  <2>3. \A v \in Workers, i \in Nat :
          InCq(v, q, i)' <=> IF v = w THEN i > 0 /\ InCq(w, q, i + some[w]) ELSE InCq(v, q, i)
    <3>1. \A v \in Workers : v # w => cq'[v] = cq[v] /\ taken'[v] = taken[v]
      BY <2>1, <1>a
    <3>2. /\ taken'[w] = 0
          /\ Len(cq'[w]) = Len(cq[w]) - some[w]
          /\ \A i \in 1 .. Len(cq[w]) - some[w] : cq'[w][i] = cq[w][i + some[w]]
      BY <2>1, <1>a, <1>b
    <3>3. \A i \in Nat : InCq(w, q, i)' <=> i > 0 /\ InCq(w, q, i + some[w])
      <4> SUFFICES ASSUME NEW i \in Nat
                   PROVE  InCq(w, q, i)' <=> i > 0 /\ InCq(w, q, i + some[w])
        OBVIOUS
      <4>1. (i \in taken[w] + 1 .. Len(cq[w]))' <=> i \in 1 .. Len(cq[w]) - some[w]
        BY <3>2
      <4>2. i + some[w] \in taken[w] + 1 .. Len(cq[w]) /\ i > 0 <=> i \in 1 .. Len(cq[w]) - some[w]
        BY <2>1, <1>b
      <4> QED BY <3>2, <4>1, <4>2 DEF InCq
    <3> QED BY <3>1, <3>3 DEF InCq
  <2>4. \A i \in Nat : InCq(w, q, i) => i - some[w] \in Nat /\ i - some[w] > 0
    BY <2>1, <1>b DEF InCq
  <2>5. CASE state[q] # "inflight"
    <3>1. Nowhere(q)'
      BY <1>0, <1>b, <2>1, <2>2, <2>3, <2>5 DEF RingOK, Nowhere
    <3> QED BY <2>1, <2>5, <3>1 DEF RingOK
  <2>6. CASE state[q] = "inflight"
    <3>0. PICK u \in Workers : u = home[q]
      BY <1>0, <2>6 DEF RingOK
    <3>1. ASSUME NEW k \in Nat, AtSq(u, q, k) PROVE AtSq(u, q, k)'
      <4>1. \A v \in Workers, i \in Nat : ~InCq(v, q, i)'
        BY <1>b, <2>3, <3>1 DEF AtSq
      <4> QED BY <2>1, <2>2, <3>1, <4>1 DEF AtSq
    <3>2. ASSUME AtKern(u, q) PROVE AtKern(u, q)'
      <4>1. \A v \in Workers, i \in Nat : ~InCq(v, q, i)'
        BY <1>b, <2>3, <3>2 DEF AtKern
      <4> QED BY <2>1, <2>2, <3>2, <4>1 DEF AtKern
    <3>3. ASSUME NEW k \in Nat, AtCq(u, q, k), u # w
          PROVE  AtCq(u, q, k)'
      BY <1>b, <2>1, <2>2, <2>3, <3>3 DEF AtCq
    <3>4. ASSUME NEW k \in Nat, AtCq(w, q, k)
          PROVE  \E j \in Nat : AtCq(w, q, j)'
      <4>1. PICK j \in Nat : j = k - some[w] /\ j > 0
        BY <2>4, <3>4 DEF AtCq
      <4>2. \A i \in Nat : i + some[w] = k <=> i = j
        BY <1>b, <4>1
      <4>3. \A v \in Workers, i \in Nat : InCq(v, q, i)' <=> v = w /\ i = j
        <5>1. \A v \in Workers, i \in Nat : v # w => ~InCq(v, q, i)'
          BY <2>3, <3>4 DEF AtCq
        <5>2. \A i \in Nat : i + some[w] \in Nat /\ (InCq(w, q, i + some[w]) <=> i = j)
          <6>1. \A i \in Nat : i + some[w] \in Nat
            BY <1>b
          <6>2. \A i \in Nat : InCq(w, q, i) <=> i = k
            BY <3>4 DEF AtCq
          <6> QED BY <4>2, <6>1, <6>2
        <5>3. \A i \in Nat : InCq(w, q, i)' <=> i = j
          BY <2>3, <4>1, <5>2
        <5> QED BY <5>1, <5>3
      <4>4. AtCq(w, q, j)'
        BY <2>1, <2>2, <3>4, <4>3 DEF AtCq
      <4> QED BY <4>4
    <3> QED BY <1>0, <2>1, <2>6, <3>0, <3>1, <3>2, <3>3, <3>4 DEF RingOK
  <2> QED BY <2>5, <2>6
<1>7. ASSUME NEW w \in Workers, SubmitOne(w) PROVE RingOK(q)'
  <2> DEFINE h == Head(sq[w])
  <2>1. /\ sq[w] # << >> /\ sq[w] \in Seq(Sqe)
        /\ sq' = [sq EXCEPT ![w] = Tail(@)]
        /\ UNCHANGED <<state, home, taken>>
    BY <1>7, <1>a DEF SubmitOne
  <2>2. h = sq[w][1] /\ h \in Sqe
    BY <2>1
  <2>3. h.kind \in {"io", "cancel"} /\ (h.kind = "io" => h = [kind |-> "io", op |-> h.op])
    BY <2>2 DEF Sqe
  <2> HIDE DEF h
  <2>4. \A v \in Workers, i \in Nat :
          InSq(v, q, i)' <=> IF v = w THEN i > 0 /\ InSq(w, q, i + 1) ELSE InSq(v, q, i)
    BY <1>a, <1>b, <2>1 DEF InSq
  <2>5. InSq(w, q, 1) <=> h.kind = "io" /\ h.op = q
    BY <2>1, <2>2, <2>3 DEF InSq
  <2>6. \A i \in Nat : InSq(w, q, i) => i > 0
    BY <2>1 DEF InSq
  \* The entry is not this operation's, or a cancel request in vain.
  <2>7. ASSUME \A v \in Workers : (q \in kern[v])' <=> q \in kern[v],
               \A v \in Workers, i \in Nat : InCq(v, q, i)' <=> InCq(v, q, i),
               ~InSq(w, q, 1)
        PROVE  RingOK(q)'
    <3>1. CASE state[q] # "inflight"
      <4>1. Nowhere(q)'
        BY <1>0, <2>4, <2>7, <3>1 DEF RingOK, Nowhere
      <4> QED BY <2>1, <3>1, <4>1 DEF RingOK
    <3>2. CASE state[q] = "inflight"
      <4>0. PICK u \in Workers : u = home[q]
        BY <1>0, <3>2 DEF RingOK
      <4>1. ASSUME NEW k \in Nat, AtSq(u, q, k), u # w
            PROVE  AtSq(u, q, k)'
        BY <2>4, <2>7, <4>1 DEF AtSq
      <4>2. ASSUME NEW k \in Nat, AtSq(w, q, k)
            PROVE  \E j \in Nat : AtSq(w, q, j)'
        <5>1. k > 0 /\ k # 1
          BY <2>6, <2>7, <4>2 DEF AtSq
        <5>2. PICK j \in Nat : j = k - 1 /\ j > 0
          BY <5>1
        <5>3. AtSq(w, q, j)'
          BY <2>4, <2>7, <4>2, <5>2 DEF AtSq
        <5> QED BY <5>3
      <4>3. ASSUME AtKern(u, q) PROVE AtKern(u, q)'
        BY <2>4, <2>7, <4>3 DEF AtKern
      <4>4. ASSUME NEW k \in Nat, AtCq(u, q, k) PROVE AtCq(u, q, k)'
        BY <2>4, <2>7, <4>4 DEF AtCq
      <4> QED BY <1>0, <2>1, <3>2, <4>0, <4>1, <4>2, <4>3, <4>4 DEF RingOK
    <3> QED BY <3>1, <3>2
  <2>8. CASE h.kind = "io"
    <3>1. UNCHANGED cq /\ kern' = [kern EXCEPT ![w] = @ \cup {h.op}]
      BY <1>7, <2>8 DEF SubmitOne, h
    <3>2. \A v \in Workers, i \in Nat : InCq(v, q, i)' <=> InCq(v, q, i)
      BY <2>1, <3>1 DEF InCq
    <3>3. \A v \in Workers : (q \in kern[v])' <=> q \in kern[v] \/ (v = w /\ h.op = q)
      BY <1>a, <3>1
    <3>4. CASE h.op = q
      <4>1. AtSq(w, q, 1) /\ state[q] = "inflight" /\ home[q] = w
        BY <1>0, <2>5, <2>8, <3>4 DEF RingOK, AtSq, AtKern, AtCq, Nowhere
      <4>2. AtKern(w, q)'
        BY <2>4, <2>6, <3>2, <3>3, <3>4, <4>1 DEF AtSq, AtKern
      <4> QED BY <2>1, <4>1, <4>2 DEF RingOK
    <3> QED BY <2>5, <2>7, <3>2, <3>3, <3>4
  <2>9. CASE h.kind = "cancel"
    <3> DEFINE hit == h.op = q /\ q \in kern[w]
               ack == [op |-> None, res |-> "value"]
               ans == [op |-> h.op, res |-> "stopped"]
    <3>1. kern' = [kern EXCEPT ![w] = @ \ {h.op}]
      BY <1>7, <2>9 DEF SubmitOne, h
    <3>2. \A v \in Workers : (q \in kern[v])' <=> q \in kern[v] /\ ~(v = w /\ h.op = q)
      BY <1>a, <3>1
    <3>3. \A v \in Workers, i \in Nat :
            InCq(v, q, i)' <=> InCq(v, q, i) \/ (v = w /\ hit /\ i = Len(cq[w]) + 2)
      <4>1. cq' = [cq EXCEPT ![w] = IF h.op \in kern[w] THEN cq[w] \o <<ack, ans>>
                                    ELSE Append(cq[w], ack)]
        BY <1>7, <2>9 DEF SubmitOne, h
      <4>2. q # None
        BY ExecAssumption
      <4>3. \A v \in Workers : v # w => cq'[v] = cq[v]
        BY <4>1, <1>a
      <4>4. CASE h.op \in kern[w]
        <5>1. /\ Len(cq'[w]) = Len(cq[w]) + 2
              /\ \A i \in 1 .. Len(cq[w]) : cq'[w][i] = cq[w][i]
              /\ cq'[w][Len(cq[w]) + 1] = ack /\ cq'[w][Len(cq[w]) + 2] = ans
          <6>1. cq'[w] = cq[w] \o <<ack, ans>>
            BY <4>1, <4>4, <1>a
          <6> HIDE DEF ack, ans
          <6> QED BY <6>1, <1>a
        <5>2. /\ cq'[w][Len(cq[w]) + 1].op # q
              /\ cq'[w][Len(cq[w]) + 2].op = h.op
          BY <4>2, <5>1 DEF ack, ans
        <5>3. \A i \in Nat : InCq(w, q, i)' <=> InCq(w, q, i) \/ (hit /\ i = Len(cq[w]) + 2)
          <6> HIDE DEF ack, ans
          <6>1. hit <=> h.op = q
            BY <4>4
          <6> HIDE DEF hit
          <6>2. taken'[w] = taken[w]
            BY <2>1
          <6>3. taken[w] \in Nat /\ Len(cq[w]) \in Nat /\ taken[w] <= Len(cq[w])
            BY <1>b
          <6> SUFFICES ASSUME NEW i \in Nat
                       PROVE  /\ i \in taken'[w] + 1 .. Len(cq'[w]) /\ cq'[w][i].op = q
                                <=> \/ i \in taken[w] + 1 .. Len(cq[w]) /\ cq[w][i].op = q
                                    \/ hit /\ i = Len(cq[w]) + 2
            BY DEF InCq
          <6>4. CASE i \in 1 .. Len(cq[w])
            BY <5>1, <6>2, <6>3, <6>4
          <6>5. CASE i = Len(cq[w]) + 1
            BY <5>1, <5>2, <6>2, <6>3, <6>5
          <6>6. CASE i = Len(cq[w]) + 2
            BY <5>1, <5>2, <6>1, <6>2, <6>3, <6>6
          <6>7. CASE i = 0 \/ i > Len(cq[w]) + 2
            BY <5>1, <6>2, <6>3, <6>7
          <6> QED BY <6>3, <6>4, <6>5, <6>6, <6>7
        <5> HIDE DEF hit
        <5> QED BY <2>1, <4>3, <5>3 DEF InCq
      <4>5. CASE h.op \notin kern[w]
        <5>1. /\ Len(cq'[w]) = Len(cq[w]) + 1
              /\ \A i \in 1 .. Len(cq[w]) : cq'[w][i] = cq[w][i]
              /\ cq'[w][Len(cq[w]) + 1] = ack
          <6>1. cq'[w] = Append(cq[w], ack)
            BY <4>1, <4>5, <1>a
          <6> HIDE DEF ack
          <6> QED BY <6>1, <1>a
        <5>2. cq'[w][Len(cq[w]) + 1].op # q
          BY <4>2, <5>1
        <5>3. q \in kern[w] /\ h.op = q => FALSE
          BY <4>5
        <5> HIDE DEF ack, ans
        <5>4. \A i \in Nat : InCq(w, q, i)' <=> InCq(w, q, i)
          BY <1>b, <2>1, <5>1, <5>2 DEF InCq
        <5>5. \A v \in Workers, i \in Nat : v # w => (InCq(v, q, i)' <=> InCq(v, q, i))
          BY <2>1, <4>3 DEF InCq
        <5> QED BY <5>3, <5>4, <5>5
      <4> QED BY <4>4, <4>5
    <3> HIDE DEF ack, ans
    <3>4. CASE hit
      <4>1. AtKern(w, q) /\ state[q] = "inflight" /\ home[q] = w
        BY <1>0, <3>4 DEF RingOK, AtSq, AtKern, AtCq, Nowhere
      <4>k. PICK k \in Nat : k = Len(cq[w]) + 2
        BY <1>b
      <4>2. AtCq(w, q, k)'
        BY <2>4, <3>2, <3>3, <3>4, <4>1, <4>k DEF AtCq, AtKern
      <4> QED BY <2>1, <4>1, <4>2 DEF RingOK
    <3>5. CASE ~hit
      <4>1. \A v \in Workers : (q \in kern[v])' <=> q \in kern[v]
        BY <3>2, <3>5
      <4>2. \A v \in Workers, i \in Nat : InCq(v, q, i)' <=> InCq(v, q, i)
        BY <3>3, <3>5
      <4>3. ~InSq(w, q, 1)
        BY <2>5, <2>9
      <4> QED BY <2>7, <4>1, <4>2, <4>3
    <3> QED BY <3>4, <3>5
  <2> QED BY <2>3, <2>8, <2>9
<1> QED
  <2>1. ASSUME NEW o \in Ops,
               \/ Schedule(o) \/ RequestStop(o) \/ Cancellation(o) \/ Reconnect(o)
               \/ \E w \in Workers : ScheduleOn(o, w)
        PROVE  RingOK(q)'
    BY <1>1, <1>a, <2>1 DEF Schedule, RequestStop, Cancellation, Reconnect, ScheduleOn
  <2>2. ASSUME NEW w \in Workers,
               \/ LaunchAttached(w) \/ LaunchRobin(w) \/ LaunchRandom(w) \/ InstallCallback(w)
               \/ SubmitReturns(w) \/ PeekBatch(w) \/ StepLoad(w) \/ StepStore(w)
        PROVE  RingOK(q)'
    BY <1>1, <2>2 DEF LaunchAttached, LaunchRobin, LaunchRandom, LaunchBucket, Moved,
       InstallCallback, SubmitReturns, PeekBatch, StepLoad, StepStore
  <2>3. ASSUME NEW w \in Workers, RunTask(w) PROVE RingOK(q)'
    BY <1>2, <2>3, RunTaskStarts
  <2>4. ASSUME NEW w \in Workers, NEW o \in Ops, StartNext(w, o) PROVE RingOK(q)'
    BY <1>2, <2>4, StartNextStarts
  <2> QED
    BY <2>1, <2>2, <2>3, <2>4, <1>3, <1>4, <1>5, <1>6, <1>7
    DEF Next, Run, Launch, Submit, Iodone, EndStep

-----------------------------------------------------------------------------
(* A stop callback is there only while its operation is in flight, and its *)
(* state agrees with the stop source's: that is what start(), which looks  *)
(* before it installs the callback, and the callback's destruction, which  *)
(* waits for it, are about.                                                *)
LEMMA NextCallback == IInv /\ Next => \A q \in Ops : CallbackOK(q)'
<1> SUFFICES ASSUME IInv, Next, NEW q \in Ops PROVE CallbackOK(q)'
  OBVIOUS
<1> USE DEF opVars, execVars, queueVars, ringVars, runVars
<1>0. CallbackOK(q) /\ q # None
  BY ExecAssumption DEF IInv, OpOK
<1>a. /\ state \in [Ops -> {"connected", "queued", "inflight", "completed"}]
      /\ stopRequested \in [Ops -> BOOLEAN]
      /\ callback \in [Ops -> {"none", "armed", "running", "fired"}]
      /\ home \in [Ops -> Workers \cup {None}]
      /\ cur \in [Workers -> Ops \cup {None}]
  BY DEF IInv, TypeOK
<1>1. ASSUME UNCHANGED <<stopRequested, callback, cur>>,
             state[q] = "inflight" => state'[q] = "inflight" /\ home'[q] = home[q]
      PROVE  CallbackOK(q)'
  BY <1>0, <1>1 DEF CallbackOK
<1>2. ASSUME NEW o \in Ops, RequestStop(o) PROVE CallbackOK(q)'
  BY <1>0, <1>2, <1>a DEF CallbackOK, RequestStop
<1>3. ASSUME NEW o \in Ops, Cancellation(o) PROVE CallbackOK(q)'
  BY <1>0, <1>3, <1>a DEF CallbackOK, Cancellation
<1>4. ASSUME NEW o \in Ops, Reconnect(o) PROVE CallbackOK(q)'
  BY <1>0, <1>4, <1>a DEF CallbackOK, Reconnect
<1>5. ASSUME NEW w \in Workers, NEW o \in Ops, Starts(w, o) PROVE CallbackOK(q)'
  <2>1. state[o] # "inflight"
    BY <1>5 DEF Starts
  <2>2. CASE StartSubmits(w, o) /\ cur' = [cur EXCEPT ![w] = o]
    BY <1>0, <1>a, <2>1, <2>2 DEF CallbackOK, StartSubmits
  <2>3. CASE (StartStopped(o) \/ StartRestarts(w, o)) /\ UNCHANGED cur
    BY <1>1, <1>a, <2>1, <2>3 DEF StartStopped, StartRestarts, Completes
  <2> QED BY <1>5, <2>2, <2>3 DEF Starts, Start
<1>6. ASSUME NEW w \in Workers, InstallCallback(w) PROVE CallbackOK(q)'
  BY <1>0, <1>6, <1>a DEF CallbackOK, InstallCallback, EmplaceCalls
<1>7. ASSUME NEW w \in Workers, ConsumeOne(w) PROVE CallbackOK(q)'
  <2> DEFINE o == cq[w][taken[w] + 1].op
  <2>1. UNCHANGED cur /\ pc[w] = "consume" /\ (UNCHANGED opVars \/ Finishes(w, o))
    BY <1>7, ConsumeOneFinishes DEF Consumes
  <2> HIDE DEF o
  <2>2. cur[w] = None
    BY <2>1 DEF IInv, ControlOK
  <2>3. CASE UNCHANGED opVars
    BY <1>1, <2>1, <2>3
  <2>4. CASE Finishes(w, o)
    BY <1>0, <1>a, <2>1, <2>2, <2>4 DEF CallbackOK, Finishes, Completes
  <2> QED BY <2>1, <2>3, <2>4
<1> QED
  <2>1. ASSUME NEW o \in Ops,
               \/ Schedule(o)
               \/ \E w \in Workers : ScheduleOn(o, w) \/ KernelCompletes(w, o)
        PROVE  CallbackOK(q)'
    BY <1>1, <1>a, <2>1 DEF Schedule, ScheduleOn, KernelCompletes
  <2>2. ASSUME NEW w \in Workers,
               \/ LaunchAttached(w) \/ LaunchRobin(w) \/ LaunchRandom(w)
               \/ Submit(w) \/ PeekBatch(w) \/ AdvanceCq(w) \/ EndStep(w)
        PROVE  CallbackOK(q)'
    BY <1>1, <2>2 DEF LaunchAttached, LaunchRobin, LaunchRandom, LaunchBucket, Moved,
       Submit, SubmitOne, SubmitReturns, PeekBatch, AdvanceCq, EndStep, IssueCancels,
       StepLoad, StepStore
  <2>3. ASSUME NEW w \in Workers, RunTask(w) PROVE CallbackOK(q)'
    BY <1>5, <2>3, RunTaskStarts
  <2>4. ASSUME NEW w \in Workers, NEW o \in Ops, StartNext(w, o) PROVE CallbackOK(q)'
    BY <1>5, <2>4, StartNextStarts
  <2> QED
    BY <2>1, <2>2, <2>3, <2>4, <1>2, <1>3, <1>4, <1>6, <1>7 DEF Next, Run, Launch, Iodone

(* A request to stop is queued on the thread that has the operation, once, *)
(* and withdrawn before the operation completes.                           *)
LEMMA NextStopping == IInv /\ Next => \A q \in Ops : StoppingOK(q)'
<1> SUFFICES ASSUME IInv, Next, NEW q \in Ops PROVE StoppingOK(q)'
  OBVIOUS
<1> USE DEF opVars, execVars, queueVars, ringVars, runVars
<1>0. StoppingOK(q) /\ CallbackOK(q) /\ q # None
  BY ExecAssumption DEF IInv, OpOK
<1>a. /\ state \in [Ops -> {"connected", "queued", "inflight", "completed"}]
      /\ callback \in [Ops -> {"none", "armed", "running", "fired"}]
      /\ home \in [Ops -> Workers \cup {None}]
      /\ cur \in [Workers -> Ops \cup {None}]
      /\ stopping \in [Workers -> [Bucket -> Seq(Ops)]]
      /\ BucketOf \in [Ops -> Bucket] /\ walltime \in Bucket
  BY ExecAssumption DEF IInv, TypeOK
<1>1. ASSUME UNCHANGED stopping,
             state[q] = "inflight" => state'[q] = "inflight" /\ home'[q] = home[q],
             callback[q] = "fired" => callback'[q] = "fired"
      PROVE  StoppingOK(q)'
  BY <1>0, <1>1 DEF StoppingOK
\* The callback of operation o pushes it on its own thread's queue.
<1>2. ASSUME NEW w \in Workers, NEW o \in Ops, PushStopping(w, o),
             state[o] = "inflight", home[o] = w, callback[o] # "fired",
             callback' = [callback EXCEPT ![o] = "fired"], UNCHANGED <<state, home>>
      PROVE  StoppingOK(q)'
  <2> DEFINE b == BucketOf[o]
             r == <<o>> \o stopping[w][b]
  <2>1. /\ b \in Bucket /\ r \in Seq(Ops) /\ Len(r) = Len(stopping[w][b]) + 1
        /\ stopping[w][b] \in Seq(Ops)
        /\ r[1] = o /\ \A i \in 2 .. Len(r) : r[i] = stopping[w][b][i - 1]
    BY <1>a
  <2>2. stopping' = [stopping EXCEPT ![w][b] = r]
    BY <1>2 DEF PushStopping
  <2>3. b = BucketOf[o]
    OBVIOUS
  <2> HIDE DEF b, r
  <2>4. \A v \in Workers, c \in Bucket :
          stopping'[v][c] = IF v = w /\ c = b THEN r ELSE stopping[v][c]
    BY <2>1, <2>2, <1>a
  <2>5. CASE q = o
    <3>1. \A v \in Workers, c \in Bucket : \A i \in DOMAIN stopping[v][c] : stopping[v][c][i] # q
      BY <1>0, <1>2, <2>5 DEF StoppingOK
    <3>2. \A i \in DOMAIN r : r[i] = q => i = 1
      BY <2>1, <3>1
    <3> QED BY <1>2, <1>a, <2>1, <2>3, <2>4, <2>5, <3>1, <3>2 DEF StoppingOK
  <2>6. CASE q # o
    <3>1. /\ state'[q] = state[q] /\ home'[q] = home[q] /\ callback'[q] = callback[q]
      BY <1>2, <1>a, <2>6
    <3>2. ASSUME NEW i \in DOMAIN r, r[i] = q
          PROVE  i - 1 \in DOMAIN stopping[w][b] /\ stopping[w][b][i - 1] = q
      BY <2>1, <2>6, <3>2
    <3>3. \A i, j \in DOMAIN r : r[i] = q /\ r[j] = q => i = j
      BY <1>0, <2>1, <3>2 DEF StoppingOK
    <3> QED BY <1>0, <2>1, <2>4, <3>1, <3>2, <3>3 DEF StoppingOK
  <2> QED BY <2>5, <2>6
<1>3. ASSUME NEW o \in Ops, Cancellation(o) PROVE StoppingOK(q)'
  <2>1. state[o] = "inflight" /\ home[o] \in Workers
    BY <1>3 DEF IInv, OpOK, CallbackOK, RingOK, Cancellation
  <2> QED BY <1>2, <1>3, <2>1 DEF Cancellation
<1>4. ASSUME NEW w \in Workers, InstallCallback(w) PROVE StoppingOK(q)'
  <2>1. cur[w] \in Ops
    BY <1>4, <1>a DEF IInv, ControlOK, InstallCallback
  <2>2. state[cur[w]] = "inflight" /\ home[cur[w]] = w /\ callback[cur[w]] = "none"
    BY <2>1 DEF IInv, OpOK, CallbackOK
  <2>3. CASE EmplaceCalls(cur[w])
    BY <1>2, <1>4, <2>1, <2>2, <2>3 DEF InstallCallback
  <2>4. CASE ~EmplaceCalls(cur[w])
    BY <1>1, <1>4, <1>a, <2>1, <2>2, <2>4 DEF InstallCallback
  <2> QED BY <2>3, <2>4
<1>5. ASSUME NEW w \in Workers, NEW o \in Ops, Starts(w, o) PROVE StoppingOK(q)'
  <2>1. state[o] # "inflight" /\ UNCHANGED <<stopping, callback>>
    BY <1>5 DEF Starts, Start, StartSubmits, StartStopped, StartRestarts
  <2>2. q # o => state'[q] = state[q] /\ home'[q] = home[q]
    BY <1>5, <1>a DEF Starts, Start, StartSubmits, StartStopped, StartRestarts, Completes
  <2> QED BY <1>1, <2>1, <2>2
<1>6. ASSUME NEW w \in Workers, ConsumeOne(w) PROVE StoppingOK(q)'
  <2> DEFINE o == cq[w][taken[w] + 1].op
  <2>1. UNCHANGED <<opVars, stopping>> \/ Finishes(w, o)
    BY <1>6, ConsumeOneFinishes
  <2> HIDE DEF o
  <2>2. CASE UNCHANGED <<opVars, stopping>>
    BY <1>1, <2>2
  <2>3. CASE Finishes(w, o)
    <3> DEFINE b == BucketOf[o]
               r == Without(stopping[w][b], o)
    <3>1. o \in Ops /\ b \in Bucket /\ stopping[w][b] \in Seq(Ops) /\ b = BucketOf[o]
      BY <2>3, <1>a DEF Finishes
    <3>2. \A p \in Ops : \A i, j \in DOMAIN stopping[w][b] :
            stopping[w][b][i] = p /\ stopping[w][b][j] = p => i = j
      BY <3>1 DEF IInv, OpOK, StoppingOK
    <3>3. /\ r \in Seq(Ops)
          /\ \A i \in DOMAIN r : \E j \in DOMAIN stopping[w][b] : r[i] = stopping[w][b][j]
          /\ \A i \in DOMAIN r : r[i] # o
          /\ q # o => \A i, j \in DOMAIN r : r[i] = q /\ r[j] = q => i = j
      <4> DEFINE l == stopping[w][b]
      <4>1. l \in Seq(Ops) /\ \A p \in Ops : \A i, j \in DOMAIN l : l[i] = p /\ l[j] = p => i = j
        BY <3>1, <3>2
      <4> HIDE DEF l
      <4>2. /\ Without(l, o) \in Seq(Ops)
            /\ \A i \in DOMAIN Without(l, o) : \E j \in DOMAIN l : Without(l, o)[i] = l[j]
        BY <4>1, WithoutProperties
      <4>3. \A i \in DOMAIN Without(l, o) : Without(l, o)[i] # o
        BY <3>1, <4>1, WithoutProperties
      <4>4. q # o => \A i, j \in DOMAIN Without(l, o) :
                       Without(l, o)[i] = q /\ Without(l, o)[j] = q => i = j
        <5>1. \A i, j \in DOMAIN l : l[i] = q /\ l[j] = q => i = j
          BY <4>1
        <5>2. \A p : p # o /\ (\A i, j \in DOMAIN l : l[i] = p /\ l[j] = p => i = j)
                => \A i, j \in DOMAIN Without(l, o) :
                     Without(l, o)[i] = p /\ Without(l, o)[j] = p => i = j
          BY <4>1, WithoutProperties
        <5> QED BY <5>1, <5>2
      <4> QED BY <4>2, <4>3, <4>4 DEF l
    <3>4. stopping' = [stopping EXCEPT ![w][b] = r]
      BY <2>3 DEF Finishes, Withdraw
    <3> HIDE DEF b, r
    <3>5. \A v \in Workers, c \in Bucket :
            stopping'[v][c] = IF v = w /\ c = b THEN r ELSE stopping[v][c]
      BY <3>1, <3>3, <3>4, <1>a
    <3>6. CASE q = o
      <4>1. state[q] = "inflight" /\ home[q] = w
        BY <2>3, <3>6 DEF Finishes
      <4>2. \A v \in Workers, c \in Bucket : \A i \in DOMAIN stopping'[v][c] : stopping'[v][c][i] # q
        BY <1>0, <3>1, <3>3, <3>5, <3>6, <4>1 DEF StoppingOK
      <4> QED BY <4>2 DEF StoppingOK
    <3>7. CASE q # o
      <4>1. state'[q] = state[q] /\ home'[q] = home[q] /\ callback'[q] = callback[q]
        BY <1>a, <2>3, <3>7 DEF Finishes, Completes
      <4> QED BY <1>0, <3>1, <3>3, <3>5, <3>7, <4>1 DEF StoppingOK
    <3> QED BY <3>6, <3>7
  <2> QED BY <2>1, <2>2, <2>3
<1>7. ASSUME NEW w \in Workers, IssueCancels(w) PROVE StoppingOK(q)'
  <2>1. UNCHANGED opVars
    BY <1>7 DEF IssueCancels
  <2>2. PICK n \in Nat : Cancels(w, n)
    BY <1>7, IssueCancelsSends DEF IInv
  <2> DEFINE l == stopping[w][walltime]
             r == SubSeq(l, n + 1, Len(l))
  <2>3. l \in Seq(Ops) /\ n <= Len(l) /\ stopping' = [stopping EXCEPT ![w][walltime] = r]
    BY <1>a, <2>2 DEF Cancels
  <2>4. r \in Seq(Ops) /\ \A i \in DOMAIN r : i + n \in DOMAIN l /\ r[i] = l[i + n]
    <3> HIDE DEF l
    <3>1. r \in Seq(Ops) /\ Len(r) = Len(l) - n
      BY <2>2, <2>3
    <3>2. \A i \in 1 .. Len(l) - n : i + n \in DOMAIN l /\ r[i] = l[i + n]
      BY <2>2, <2>3
    <3>3. DOMAIN r = 1 .. Len(l) - n
      BY <3>1
    <3> QED BY <3>1, <3>2, <3>3
  <2>5. \A v \in Workers, c \in Bucket :
          stopping'[v][c] = IF v = w /\ c = walltime THEN r ELSE stopping[v][c]
    BY <1>a, <2>3, <2>4
  <2>6. l = stopping[w][walltime]
    OBVIOUS
  <2> HIDE DEF l, r
  <2>7. \A i, j \in DOMAIN r : r[i] = q /\ r[j] = q => i = j
    <3>1. \A i, j \in DOMAIN l : l[i] = q /\ l[j] = q => i = j
      BY <1>0, <1>a, <2>6 DEF StoppingOK
    <3> QED BY <2>2, <2>4, <3>1
  <2> SUFFICES ASSUME NEW v \in Workers, NEW c \in Bucket, NEW i \in DOMAIN stopping'[v][c],
                      stopping'[v][c][i] = q
               PROVE  /\ c = BucketOf[q]
                      /\ state[q] = "inflight" /\ home[q] = v /\ callback[q] = "fired"
                      /\ \A j \in DOMAIN stopping'[v][c] : stopping'[v][c][j] = q => j = i
    BY <2>1 DEF StoppingOK
  <2>8. CASE v = w /\ c = walltime
    <3>1. stopping'[v][c] = r /\ i + n \in DOMAIN stopping[v][c] /\ stopping[v][c][i + n] = q
      BY <2>4, <2>5, <2>6, <2>8
    <3> QED BY <1>0, <2>7, <3>1 DEF StoppingOK
  <2>9. CASE ~(v = w /\ c = walltime)
    BY <1>0, <2>5, <2>9 DEF StoppingOK
  <2> QED BY <2>8, <2>9
<1> QED
  <2>1. ASSUME NEW o \in Ops,
               \/ Schedule(o) \/ RequestStop(o) \/ Reconnect(o)
               \/ \E w \in Workers : ScheduleOn(o, w) \/ KernelCompletes(w, o)
        PROVE  StoppingOK(q)'
    BY <1>1, <1>a, <2>1 DEF Schedule, RequestStop, Reconnect, ScheduleOn, KernelCompletes
  <2>2. ASSUME NEW w \in Workers,
               \/ LaunchAttached(w) \/ LaunchRobin(w) \/ LaunchRandom(w)
               \/ Submit(w) \/ PeekBatch(w) \/ AdvanceCq(w) \/ StepLoad(w) \/ StepStore(w)
        PROVE  StoppingOK(q)'
    BY <1>1, <2>2 DEF LaunchAttached, LaunchRobin, LaunchRandom, LaunchBucket, Moved,
       Submit, SubmitOne, SubmitReturns, PeekBatch, AdvanceCq, StepLoad, StepStore
  <2>3. ASSUME NEW w \in Workers, RunTask(w) PROVE StoppingOK(q)'
    BY <1>5, <2>3, RunTaskStarts
  <2>4. ASSUME NEW w \in Workers, NEW o \in Ops, StartNext(w, o) PROVE StoppingOK(q)'
    BY <1>5, <2>4, StartNextStarts
  <2> QED
    BY <2>1, <2>2, <2>3, <2>4, <1>3, <1>4, <1>6, <1>7
    DEF Next, Run, Launch, Iodone, EndStep

-----------------------------------------------------------------------------
(* No completion is seen between the sending of cancel requests and their  *)
(* arrival in the kernel, so that their operations are still in flight.    *)
LEMMA NextCancels == IInv /\ Next => CancelsOK'
<1> SUFFICES ASSUME IInv, Next, NEW v \in Workers PROVE SentOK(v)' /\ AnsweredOK(v)'
  BY DEF CancelsOK
<1> USE DEF opVars, execVars, queueVars, ringVars, runVars
<1>0. SentOK(v) /\ AnsweredOK(v) /\ ControlOK
  BY DEF IInv, CancelsOK
<1>a. /\ state \in [Ops -> {"connected", "queued", "inflight", "completed"}]
      /\ stopRequested \in [Ops -> BOOLEAN]
      /\ home \in [Ops -> Workers \cup {None}]
      /\ sq \in [Workers -> Seq(Sqe)] /\ cq \in [Workers -> Seq(Cqe)]
      /\ pc \in [Workers -> {"attached", "robin", "random", "tasks", "install", "submit",
                             "peek", "consume", "stopping", "step", "store"}]
      /\ after \in [Workers -> {"robin", "random", "submit"}]
      /\ some \in [Workers -> 0 .. IodoneBatch] /\ taken \in [Workers -> 0 .. IodoneBatch]
  BY DEF IInv, TypeOK
<1>b. \A w \in Workers : /\ some[w] \in Nat /\ taken[w] \in Nat
                         /\ taken[w] <= some[w] /\ some[w] <= Len(cq[w])
                         /\ Len(cq[w]) \in Nat /\ Len(sq[w]) \in Nat
  <2>1. \A w \in Workers : some[w] \in Nat /\ taken[w] \in Nat
    BY <1>a, ExecAssumption
  <2> QED BY <1>0, <1>a, <2>1 DEF ControlOK
<1>c. /\ \A i \in DOMAIN sq[v] : sq[v][i].op \in Ops
      /\ \A i \in DOMAIN cq[v] : cq[v][i].op \in Ops \cup {None}
  <2>1. /\ \A i \in DOMAIN sq[v] : sq[v][i] \in Sqe
        /\ \A i \in DOMAIN cq[v] : cq[v][i] \in Cqe
    BY <1>a
  <2> QED BY <2>1 DEF Sqe, Cqe
\* An operation with a cqe to be seen is in flight.
<1>d. \A i \in taken[v] + 1 .. Len(cq[v]) : cq[v][i].op # None =>
        state[cq[v][i].op] = "inflight" /\ home[cq[v][i].op] = v
  <2> SUFFICES ASSUME NEW i \in taken[v] + 1 .. Len(cq[v]), cq[v][i].op # None
               PROVE  state[cq[v][i].op] = "inflight" /\ home[cq[v][i].op] = v
    OBVIOUS
  <2>1. PICK o \in Ops : o = cq[v][i].op
    <3>1. i \in DOMAIN cq[v]
      BY <1>a, <1>b
    <3> QED BY <1>c, <3>1
  <2>2. InCq(v, o, i) /\ i \in Nat /\ RingOK(o)
    BY <1>b, <2>1 DEF InCq, IInv, OpOK
  <2> QED BY <2>1, <2>2 DEF RingOK, AtSq, AtKern, AtCq, Nowhere
<1>1. ASSUME sq'[v] = sq[v], Quiet(v)' => Quiet(v),
             \A o \in Ops : state[o] = "inflight" /\ home[o] = v
               => state'[o] = "inflight" /\ home'[o] = v /\ (stopRequested[o] => stopRequested'[o])
      PROVE  SentOK(v)'
  BY <1>0, <1>1, <1>c DEF SentOK
<1>2. ASSUME Quiet(v), sq'[v] = sq[v] PROVE SentOK(v)'
  BY <1>0, <1>2 DEF SentOK
<1>3. ASSUME cq'[v] = cq[v], taken'[v] = taken[v],
             \A o \in Ops : state[o] = "inflight" /\ stopRequested[o] => stopRequested'[o]
      PROVE  AnsweredOK(v)'
  <2>1. \A i \in taken[v] + 1 .. Len(cq[v]) : cq[v][i].op \in Ops \cup {None}
    BY <1>a, <1>b, <1>c
  <2> QED BY <1>0, <1>3, <1>d, <2>1 DEF AnsweredOK
\* Whoever uses the context, and the launching of queues.
<1>4. ASSUME UNCHANGED ringVars, UNCHANGED <<some, taken>>, Quiet(v)' => Quiet(v),
             \A o \in Ops : state[o] = "inflight"
               => state'[o] = "inflight" /\ home'[o] = home[o]
                  /\ (stopRequested[o] => stopRequested'[o])
      PROVE  SentOK(v)' /\ AnsweredOK(v)'
  BY <1>1, <1>3, <1>4
<1>5. ASSUME NEW o \in Ops,
             \/ Schedule(o) \/ RequestStop(o) \/ Cancellation(o) \/ Reconnect(o)
             \/ \E w \in Workers : ScheduleOn(o, w)
      PROVE  SentOK(v)' /\ AnsweredOK(v)'
  <2>1. UNCHANGED ringVars /\ UNCHANGED runVars
    BY <1>5 DEF Schedule, RequestStop, Cancellation, Reconnect, ScheduleOn
  <2>2. \A p \in Ops : state[p] = "inflight"
          => state'[p] = "inflight" /\ home'[p] = home[p] /\ (stopRequested[p] => stopRequested'[p])
    BY <1>5, <1>a DEF Schedule, RequestStop, Cancellation, Reconnect, ScheduleOn
  <2> QED BY <1>4, <2>1, <2>2 DEF Quiet
<1>6. ASSUME NEW w \in Workers,
             \/ LaunchAttached(w) \/ LaunchRobin(w) \/ LaunchRandom(w)
             \/ StepLoad(w) \/ StepStore(w)
      PROVE  SentOK(v)' /\ AnsweredOK(v)'
  <2>1. UNCHANGED ringVars /\ UNCHANGED opVars /\ UNCHANGED <<some, taken>>
    BY <1>6 DEF LaunchAttached, LaunchRobin, LaunchRandom, LaunchBucket, Moved, StepLoad, StepStore
  <2>2. /\ \A u \in Workers : u # w => pc'[u] = pc[u]
        /\ pc'[w] \notin {"peek", "consume", "stopping"}
    BY <1>6, <1>a DEF LaunchAttached, LaunchRobin, LaunchRandom, LaunchBucket, Moved, StepLoad, StepStore
  <2> QED BY <1>4, <2>1, <2>2 DEF Quiet
<1>7. ASSUME NEW w \in Workers, InstallCallback(w) PROVE SentOK(v)' /\ AnsweredOK(v)'
  <2>1. UNCHANGED ringVars /\ UNCHANGED <<some, taken, state, home, stopRequested>>
    BY <1>7 DEF InstallCallback
  <2>2. Quiet(v)' => Quiet(v)
    BY <1>7, <1>a DEF InstallCallback, Onward, Quiet
  <2> QED BY <1>4, <2>1, <2>2
<1>8. ASSUME NEW w \in Workers, NEW o \in Ops, Starts(w, o) PROVE SentOK(v)' /\ AnsweredOK(v)'
  <2>1. /\ UNCHANGED <<cq, some, taken, stopRequested>> /\ state[o] # "inflight"
        /\ pc[w] \in {"tasks", "consume"} /\ (pc[w] = "consume" => Quiet(w))
        /\ \E p : /\ pc' = [pc EXCEPT ![w] = p]
                  /\ p \in {"robin", "random", "submit", "tasks", "install"} \/ pc[w] = "consume"
    BY <1>8 DEF Starts, Start, StartSubmits, StartStopped, StartRestarts, Quiet
  <2>2. \A p \in Ops : state[p] = "inflight" => state'[p] = "inflight" /\ home'[p] = home[p]
    BY <1>8, <1>a, <2>1 DEF Starts, Start, StartSubmits, StartStopped, StartRestarts, Completes
  <2>3. AnsweredOK(v)'
    BY <1>3, <2>1
  <2>4. Quiet(v)' => Quiet(v)
    <3>1. CASE pc[w] = "consume" /\ v = w
      BY <2>1, <3>1
    <3>2. CASE v # w
      BY <1>a, <2>1, <3>2 DEF Quiet
    <3>3. CASE pc[w] = "tasks" /\ v = w
      <4>1. some[w] = 0 /\ some'[w] = 0
        BY <1>8, <2>1, <3>3 DEF Starts
      <4>2. pc'[w] \in {"robin", "random", "submit", "tasks", "install"}
        BY <1>a, <2>1, <3>3
      <4> QED BY <3>3, <4>1, <4>2 DEF Quiet
    <3> QED BY <2>1, <3>1, <3>2, <3>3
  <2>5. \A i \in DOMAIN sq'[v] : sq'[v][i].kind = "cancel" => i \in DOMAIN sq[v] /\ sq'[v][i] = sq[v][i]
    <3>1. CASE sq' = sq
      BY <3>1
    <3>2. CASE sq' = [sq EXCEPT ![w] = Append(@, [kind |-> "io", op |-> o])]
      BY <1>a, <3>2
    <3> QED BY <1>8, <3>1, <3>2 DEF Starts, Start, StartSubmits, StartStopped, StartRestarts
  <2>6. SentOK(v)'
    BY <1>0, <1>c, <2>1, <2>2, <2>4, <2>5 DEF SentOK
  <2> QED BY <2>3, <2>6
<1>9. ASSUME NEW w \in Workers, SubmitOne(w) PROVE SentOK(v)' /\ AnsweredOK(v)'
  <2> DEFINE h == Head(sq[w])
             ack == [op |-> None, res |-> "value"]
             ans == [op |-> h.op, res |-> "stopped"]
  <2>1. /\ sq[w] # << >> /\ sq[w] \in Seq(Sqe)
        /\ sq' = [sq EXCEPT ![w] = Tail(@)]
        /\ UNCHANGED <<state, home, stopRequested, pc, some, taken>>
    BY <1>9, <1>a DEF SubmitOne
  <2>2. h = sq[w][1] /\ 1 \in DOMAIN sq[w] /\ h \in Sqe
    BY <2>1
  <2>3. h.kind \in {"io", "cancel"}
    BY <2>2 DEF Sqe
  <2>4. SentOK(v)'
    <3>1. \A i \in DOMAIN sq'[v] : \E j \in DOMAIN sq[v] : sq'[v][i] = sq[v][j]
      BY <1>a, <2>1
    <3>2. Quiet(v)' = Quiet(v)
      BY <2>1 DEF Quiet
    <3> QED BY <1>0, <2>1, <3>1, <3>2 DEF SentOK
  <2>5. \/ cq'[w] = cq[w]
        \/ cq'[w] = cq[w] \o <<ack, ans>> /\ h.kind = "cancel"
        \/ cq'[w] = Append(cq[w], ack)
    BY <1>9, <1>a, <2>3 DEF SubmitOne
  <2>6. \A u \in Workers : u # w => cq'[u] = cq[u]
    BY <1>9, <1>a DEF SubmitOne
  <2>7. h.kind = "cancel" /\ v = w => stopRequested[h.op]
    BY <1>0, <2>2 DEF SentOK
  <2>8. AnsweredOK(v)'
    <3>1. CASE cq'[v] = cq[v]
      BY <1>3, <2>1, <3>1
    <3>2. CASE v = w /\ cq'[w] = Append(cq[w], ack)
      <4>1. \A i \in taken[v] + 1 .. Len(cq'[v]) :
              \/ i \in taken[v] + 1 .. Len(cq[v]) /\ cq'[v][i] = cq[v][i]
              \/ cq'[v][i] = ack
        <5> HIDE DEF ack
        <5> QED BY <1>a, <1>b, <3>2
      <4> QED BY <1>0, <2>1, <4>1 DEF AnsweredOK
    <3>3. CASE v = w /\ cq'[w] = cq[w] \o <<ack, ans>> /\ h.kind = "cancel"
      <4>1. \A i \in taken[v] + 1 .. Len(cq'[v]) :
              \/ i \in taken[v] + 1 .. Len(cq[v]) /\ cq'[v][i] = cq[v][i]
              \/ cq'[v][i] = ack
              \/ cq'[v][i] = ans
        <5> HIDE DEF ack, ans
        <5>1. cq[w] \in Seq(Cqe) /\ Len(cq'[w]) = Len(cq[w]) + 2
          BY <1>a, <3>3
        <5>2. /\ \A i \in 1 .. Len(cq[w]) : cq'[w][i] = cq[w][i]
              /\ cq'[w][Len(cq[w]) + 1] = ack /\ cq'[w][Len(cq[w]) + 2] = ans
          BY <1>a, <3>3
        <5>3. cq'[v] = cq'[w] /\ taken[v] \in Nat
          BY <1>a, <1>b, <3>3
        <5>4. ASSUME NEW i \in taken[v] + 1 .. Len(cq[w]) + 2
              PROVE  i \in 1 .. Len(cq[w]) \/ i = Len(cq[w]) + 1 \/ i = Len(cq[w]) + 2
          BY <5>1, <5>3
        <5> QED BY <3>3, <5>1, <5>2, <5>3, <5>4
      <4>2. ack.op = None /\ ans.op = h.op
        OBVIOUS
      <4> HIDE DEF ack, ans, h
      <4> SUFFICES ASSUME NEW i \in taken'[v] + 1 .. Len(cq'[v]),
                          cq'[v][i].op # None, cq'[v][i].res = "stopped"
                   PROVE  stopRequested[cq'[v][i].op]
        BY <2>1 DEF AnsweredOK
      <4> QED BY <1>0, <2>1, <2>7, <3>3, <4>1, <4>2 DEF AnsweredOK
    <3> QED BY <2>5, <2>6, <3>1, <3>2, <3>3
  <2> QED BY <2>4, <2>8
<1>10. ASSUME NEW w \in Workers, SubmitReturns(w) PROVE SentOK(v)' /\ AnsweredOK(v)'
  <2>1. UNCHANGED ringVars /\ UNCHANGED opVars /\ UNCHANGED <<some, taken>>
        /\ sq[w] = << >> /\ pc' = [pc EXCEPT ![w] = "peek"]
    BY <1>10 DEF SubmitReturns
  <2>2. AnsweredOK(v)'
    BY <1>3, <2>1
  <2>3. CASE v = w
    <3>1. sq'[v] = << >>
      BY <2>1, <2>3
    <3>2. SentOK(v)'
      BY <3>1 DEF SentOK
    <3> QED BY <2>2, <3>2
  <2>4. CASE v # w
    BY <1>4, <1>a, <2>1, <2>4 DEF Quiet
  <2> QED BY <2>2, <2>3, <2>4
<1>11. ASSUME NEW w \in Workers, NEW o \in Ops, KernelCompletes(w, o)
       PROVE  SentOK(v)' /\ AnsweredOK(v)'
  <2> DEFINE c == [op |-> o, res |-> "value"]
  <2>1. /\ cq' = [cq EXCEPT ![w] = Append(@, c)]
        /\ UNCHANGED <<state, home, stopRequested, sq, pc, some, taken>>
    BY <1>11 DEF KernelCompletes
  <2>2. SentOK(v)'
    BY <1>1, <2>1 DEF Quiet
  <2>3. \A i \in taken[v] + 1 .. Len(cq'[v]) :
          (i \in taken[v] + 1 .. Len(cq[v]) /\ cq'[v][i] = cq[v][i]) \/ cq'[v][i] = c
    <3> HIDE DEF c
    <3>1. CASE v = w
      BY <1>a, <1>b, <2>1, <3>1
    <3>2. CASE v # w
      BY <1>a, <1>b, <2>1, <3>2
    <3> QED BY <3>1, <3>2
  <2>4. AnsweredOK(v)'
    <3>1. c.res # "stopped"
      OBVIOUS
    <3> HIDE DEF c
    <3> SUFFICES ASSUME NEW i \in taken'[v] + 1 .. Len(cq'[v]),
                        cq'[v][i].op # None, cq'[v][i].res = "stopped"
                 PROVE  stopRequested[cq'[v][i].op]
      BY <2>1 DEF AnsweredOK
    <3> QED BY <1>0, <2>1, <2>3, <3>1 DEF AnsweredOK
  <2> QED BY <2>2, <2>4
<1>12. ASSUME NEW w \in Workers, PeekBatch(w) PROVE SentOK(v)' /\ AnsweredOK(v)'
  <2>1. /\ UNCHANGED <<opVars, ringVars, taken>> /\ pc[w] = "peek"
        /\ \A u \in Workers : u # w => pc'[u] = pc[u] /\ some'[u] = some[u]
    BY <1>12, <1>a DEF PeekBatch
  <2>2. AnsweredOK(v)'
    BY <1>3, <2>1
  <2>3. SentOK(v)'
    BY <1>1, <1>2, <2>1 DEF Quiet
  <2> QED BY <2>2, <2>3
<1>13. ASSUME NEW w \in Workers, ConsumeOne(w) PROVE SentOK(v)' /\ AnsweredOK(v)'
  <2> DEFINE o == cq[w][taken[w] + 1].op
  <2>1. /\ UNCHANGED <<sq, cq, pc, some, stopRequested>> /\ pc[w] = "consume"
        /\ taken' = [taken EXCEPT ![w] = @ + 1]
        /\ UNCHANGED opVars \/ Finishes(w, o)
    BY <1>13, ConsumeOneFinishes DEF Consumes, Finishes
  <2> HIDE DEF o
  <2>2. AnsweredOK(v)'
    <3>1. \A i \in taken'[v] + 1 .. Len(cq[v]) : i \in taken[v] + 1 .. Len(cq[v])
      BY <1>a, <1>b, <2>1
    <3> QED BY <1>0, <2>1, <3>1 DEF AnsweredOK
  <2>3. CASE v = w
    BY <1>2, <2>1, <2>2, <2>3 DEF Quiet
  <2>4. CASE v # w
    <3>1. \A p \in Ops : state[p] = "inflight" /\ home[p] = v
                          => state'[p] = "inflight" /\ home'[p] = v
      BY <1>a, <2>1, <2>4 DEF Finishes, Completes
    <3> QED BY <1>1, <2>1, <2>2, <3>1 DEF Quiet
  <2> QED BY <2>3, <2>4
<1>14. ASSUME NEW w \in Workers, AdvanceCq(w) PROVE SentOK(v)' /\ AnsweredOK(v)'
  <2>1. /\ UNCHANGED opVars /\ UNCHANGED <<sq, kern>> /\ pc[w] = "consume"
        /\ cq' = [cq EXCEPT ![w] = SubSeq(@, some[w] + 1, Len(@))]
        /\ taken' = [taken EXCEPT ![w] = 0] /\ taken[w] = some[w]
        /\ \A u \in Workers : u # w => pc'[u] = pc[u] /\ some'[u] = some[u]
    BY <1>14, <1>a DEF AdvanceCq
  <2>2. CASE v = w
    <3>1. SentOK(v)'
      BY <1>2, <2>1, <2>2 DEF Quiet
    <3>2. \A i \in taken'[v] + 1 .. Len(cq'[v]) :
            i + some[v] \in taken[v] + 1 .. Len(cq[v]) /\ cq'[v][i] = cq[v][i + some[v]]
      BY <1>a, <1>b, <2>1, <2>2
    <3>3. AnsweredOK(v)'
      <4> SUFFICES ASSUME NEW i \in taken'[v] + 1 .. Len(cq'[v]),
                          cq'[v][i].op # None, cq'[v][i].res = "stopped"
                   PROVE  stopRequested[cq'[v][i].op]
        BY <2>1 DEF AnsweredOK
      <4> QED BY <1>0, <3>2 DEF AnsweredOK
    <3> QED BY <3>1, <3>3
  <2>3. CASE v # w
    <3>1. sq'[v] = sq[v] /\ cq'[v] = cq[v] /\ taken'[v] = taken[v] /\ Quiet(v)' = Quiet(v)
      BY <1>a, <2>1, <2>3 DEF Quiet
    <3> QED BY <1>1, <1>3, <2>1, <3>1
  <2> QED BY <2>2, <2>3
<1>15. ASSUME NEW w \in Workers, IssueCancels(w) PROVE SentOK(v)' /\ AnsweredOK(v)'
  <2>1. /\ UNCHANGED opVars /\ UNCHANGED <<cq, taken, some>> /\ pc[w] = "stopping"
        /\ pc' = [pc EXCEPT ![w] = "step"]
    BY <1>15 DEF IssueCancels
  <2>2. AnsweredOK(v)'
    BY <1>3, <2>1
  <2>3. PICK n \in Nat : Cancels(w, n)
    BY <1>15, IssueCancelsSends DEF IInv
  <2>4. CASE v # w
    <3>1. sq'[v] = sq[v] /\ (Quiet(v)' => Quiet(v))
      BY <1>a, <2>1, <2>3, <2>4 DEF Cancels, Quiet
    <3> QED BY <1>1, <2>1, <2>2, <3>1
  <2>5. CASE v = w
    <3> DEFINE l == stopping[w][walltime]
    <3>1. l \in Seq(Ops) /\ n <= Len(l) /\ walltime \in Bucket
      BY <2>3 DEF Cancels, IInv, TypeOK
    <3>2. ASSUME NEW i \in DOMAIN l
          PROVE  state[l[i]] = "inflight" /\ home[l[i]] = w /\ stopRequested[l[i]]
      <4>1. l[i] \in Ops
        BY <3>1
      <4>2. StoppingOK(l[i]) /\ CallbackOK(l[i])
        BY <4>1 DEF IInv, OpOK
      <4> QED BY <3>1, <4>1, <4>2 DEF StoppingOK, CallbackOK
    <3>3. ~Quiet(w)'
      <4>1. ~(some[w] > 0) /\ some'[w] = some[w] /\ pc'[w] = "step"
        BY <1>0, <1>a, <2>1 DEF ControlOK
      <4> QED BY <4>1 DEF Quiet
    <3>4. ~\E i \in DOMAIN sq[w] : sq[w][i].kind = "cancel"
      BY <1>0, <2>1, <2>5 DEF SentOK, Quiet
    <3>5. \A i \in DOMAIN sq'[w] : sq'[w][i].kind = "cancel" =>
            \E j \in DOMAIN l : sq'[w][i] = [kind |-> "cancel", op |-> l[j]]
      <4> SUFFICES ASSUME NEW i \in DOMAIN sq'[w], sq'[w][i].kind = "cancel"
                   PROVE  \E j \in DOMAIN l : sq'[w][i] = [kind |-> "cancel", op |-> l[j]]
        OBVIOUS
      <4>1. /\ sq'[w] \in Seq(Sqe) /\ Len(sq'[w]) = Len(sq[w]) + n
            /\ \A k \in 1 .. Len(sq[w]) : sq'[w][k] = sq[w][k]
            /\ \A k \in 1 .. n : sq'[w][Len(sq[w]) + k] = [kind |-> "cancel", op |-> l[k]]
        BY <2>3 DEF Cancels
      <4> HIDE DEF l
      <4>2. i \in 1 .. Len(sq[w]) + n /\ DOMAIN sq[w] = 1 .. Len(sq[w])
        BY <1>a, <4>1
      <4>3. i \notin 1 .. Len(sq[w])
        BY <3>4, <4>1, <4>2
      <4>4. i - Len(sq[w]) \in 1 .. n /\ Len(sq[w]) + (i - Len(sq[w])) = i
        <5> DEFINE m == Len(sq[w])
        <5>1. m \in Nat /\ n \in Nat /\ i \in 1 .. m + n /\ i \notin 1 .. m
          BY <1>b, <4>2, <4>3
        <5> HIDE DEF m
        <5>2. i - m \in 1 .. n /\ m + (i - m) = i
          BY <5>1
        <5> QED BY <5>2 DEF m
      <4>5. i - Len(sq[w]) \in DOMAIN l
        BY <2>3, <3>1, <4>4
      <4> QED BY <4>1, <4>4, <4>5
    <3> HIDE DEF l
    <3>6. SentOK(w)'
      <4> SUFFICES ASSUME NEW i \in DOMAIN sq'[w], sq'[w][i].kind = "cancel"
                   PROVE  /\ state[sq'[w][i].op] = "inflight" /\ home[sq'[w][i].op] = w
                          /\ stopRequested[sq'[w][i].op]
        BY <2>1, <3>3 DEF SentOK
      <4>1. PICK j \in DOMAIN l : sq'[w][i] = [kind |-> "cancel", op |-> l[j]]
        BY <3>5
      <4>2. sq'[w][i].op = l[j]
        BY <4>1
      <4> QED BY <3>2, <4>2
    <3> QED BY <2>2, <2>5, <3>6
  <2> QED BY <2>4, <2>5
<1> QED
  <2>1. ASSUME NEW w \in Workers, RunTask(w) PROVE SentOK(v)' /\ AnsweredOK(v)'
    BY <1>8, <2>1, RunTaskStarts
  <2>2. ASSUME NEW w \in Workers, NEW o \in Ops, StartNext(w, o) PROVE SentOK(v)' /\ AnsweredOK(v)'
    BY <1>8, <2>2, StartNextStarts
  <2> QED
    BY <2>1, <2>2, <1>5, <1>6, <1>7, <1>9, <1>10, <1>11, <1>12, <1>13, <1>14, <1>15
    DEF Next, Run, Launch, Submit, Iodone, EndStep

-----------------------------------------------------------------------------
(* A ring's counter moves with its entries: one for what is submitted, one *)
(* more for the cqe of a cancel request that hit, less for what was seen.  *)

Counted(w) == /\ IsFiniteSet(kern[w])
              /\ inflight[w] = Len(sq[w]) + Cardinality(kern[w]) + Len(cq[w])

(* inflight stays exact in every step.                                     *)
LEMMA NextCount == IInv /\ Next => CountOK'
<1> SUFFICES ASSUME IInv, Next, NEW v \in Workers PROVE Counted(v)'
  BY DEF CountOK, InflightIsExact, Counted
<1> USE DEF opVars, execVars, queueVars, ringVars, runVars
<1>0. Counted(v)
  BY DEF IInv, CountOK, InflightIsExact, Counted
<1>a. /\ inflight \in [Workers -> Nat] /\ kern \in [Workers -> SUBSET Ops]
      /\ sq \in [Workers -> Seq(Sqe)] /\ cq \in [Workers -> Seq(Cqe)]
      /\ some \in [Workers -> 0 .. IodoneBatch]
  BY DEF IInv, TypeOK
<1>b. /\ Len(sq[v]) \in Nat /\ Len(cq[v]) \in Nat /\ some[v] \in Nat /\ inflight[v] \in Nat
      /\ Cardinality(kern[v]) \in Nat
  BY <1>0, <1>a, FS_CardinalityType, ExecAssumption DEF Counted
<1>1. ASSUME inflight'[v] = inflight[v], sq'[v] = sq[v], kern'[v] = kern[v], cq'[v] = cq[v]
      PROVE  Counted(v)'
  BY <1>0, <1>1 DEF Counted
<1>2. ASSUME NEW w \in Workers, NEW o \in Ops, Starts(w, o) PROVE Counted(v)'
  <2>1. UNCHANGED <<kern, cq>>
    BY <1>2 DEF Starts
  <2>2. CASE UNCHANGED <<inflight, sq>>
    BY <1>1, <2>1, <2>2
  <2>3. CASE StartSubmits(w, o) /\ v = w
    <3>1. /\ inflight'[v] = inflight[v] + 1
          /\ Len(sq'[v]) = Len(sq[v]) + 1
      <4>1. /\ inflight' = [inflight EXCEPT ![w] = @ + 1]
            /\ sq' = [sq EXCEPT ![w] = Append(@, [kind |-> "io", op |-> o])]
        BY <2>3 DEF StartSubmits
      <4> QED BY <1>a, <2>3, <4>1
    <3> QED BY <1>0, <1>b, <2>1, <3>1 DEF Counted
  <2>4. CASE StartSubmits(w, o) /\ v # w
    BY <1>1, <1>a, <2>1, <2>4 DEF StartSubmits
  <2> QED BY <1>2, <2>2, <2>3, <2>4 DEF Starts, Start, StartStopped, StartRestarts
<1>3. ASSUME NEW w \in Workers, SubmitOne(w) PROVE Counted(v)'
  <2> DEFINE h == Head(sq[w])
             ack == [op |-> None, res |-> "value"]
             ans == [op |-> h.op, res |-> "stopped"]
  <2>1. /\ sq[w] # << >> /\ sq[w] \in Seq(Sqe) /\ sq[w][1] = h /\ h \in Sqe
        /\ sq' = [sq EXCEPT ![w] = Tail(@)] /\ UNCHANGED inflight
    BY <1>3, <1>a DEF SubmitOne
  <2>2. CASE v # w
    BY <1>1, <1>3, <1>a, <2>2 DEF SubmitOne
  <2>3. CASE v = w
    <3>1. Len(sq'[v]) = Len(sq[v]) - 1 /\ inflight'[v] = inflight[v]
      BY <1>a, <2>1, <2>3
    <3>2. h.kind \in {"io", "cancel"} /\ h.op \in Ops
          /\ (h.kind = "io" => h = [kind |-> "io", op |-> h.op])
      BY <2>1 DEF Sqe
    <3>3. CASE h.kind = "io"
      <4>1. kern'[v] = kern[v] \cup {h.op} /\ cq'[v] = cq[v]
        BY <1>3, <1>a, <2>3, <3>3 DEF SubmitOne
      <4>2. h.op \notin kern[v]
        <5>1. PICK o \in Ops : o = h.op
          BY <3>2
        <5>2. InSq(w, o, 1) /\ RingOK(o)
          BY <2>1, <3>2, <3>3, <5>1 DEF InSq, IInv, OpOK
        <5> QED BY <2>3, <5>1, <5>2 DEF RingOK, AtSq, AtKern, AtCq, Nowhere
      <4> HIDE DEF h
      <4>3. IsFiniteSet(kern'[v]) /\ Cardinality(kern'[v]) = Cardinality(kern[v]) + 1
        BY <1>0, <4>1, <4>2, FS_AddElement DEF Counted
      <4> QED BY <1>0, <1>b, <2>1, <3>1, <4>1, <4>3 DEF Counted
    <3>4. CASE h.kind = "cancel" /\ h.op \in kern[v]
      <4>1. kern'[v] = kern[v] \ {h.op} /\ cq'[v] = cq[v] \o <<ack, ans>>
        BY <1>3, <1>a, <2>3, <3>4 DEF SubmitOne
      <4>2. Len(cq'[v]) = Len(cq[v]) + 2
        BY <1>a, <4>1
      <4> HIDE DEF h
      <4>3. IsFiniteSet(kern'[v]) /\ Cardinality(kern'[v]) = Cardinality(kern[v]) - 1
        BY <1>0, <3>4, <4>1, FS_RemoveElement DEF Counted
      <4>4. inflight'[v] = Len(sq'[v]) + Cardinality(kern'[v]) + Len(cq'[v])
        <5>1. \A i, j, k \in Nat : i + j + k = (i - 1) + (j - 1) + (k + 2)
          OBVIOUS
        <5>2. inflight[v] = (Len(sq[v]) - 1) + (Cardinality(kern[v]) - 1) + (Len(cq[v]) + 2)
          BY <1>0, <1>b, <5>1, Zenon DEF Counted
        <5> QED BY <3>1, <4>2, <4>3, <5>2
      <4> QED BY <4>3, <4>4 DEF Counted
    <3>5. CASE h.kind = "cancel" /\ h.op \notin kern[v]
      <4>1. kern'[v] = kern[v] \ {h.op} /\ cq'[v] = Append(cq[v], ack)
        BY <1>3, <1>a, <2>3, <3>5 DEF SubmitOne
      <4>2. Len(cq'[v]) = Len(cq[v]) + 1 /\ kern'[v] = kern[v]
        BY <1>a, <3>5, <4>1
      <4>3. Len(sq[v]) + Cardinality(kern[v]) + Len(cq[v])
              = (Len(sq[v]) - 1) + Cardinality(kern[v]) + (Len(cq[v]) + 1)
        BY <1>b
      <4> QED BY <1>0, <3>1, <4>2, <4>3 DEF Counted
    <3> QED BY <3>2, <3>3, <3>4, <3>5
  <2> QED BY <2>2, <2>3
<1>4. ASSUME NEW w \in Workers, NEW o \in Ops, KernelCompletes(w, o) PROVE Counted(v)'
  <2>1. /\ o \in kern[w]
        /\ kern' = [kern EXCEPT ![w] = @ \ {o}]
        /\ cq' = [cq EXCEPT ![w] = Append(@, [op |-> o, res |-> "value"])]
        /\ UNCHANGED <<inflight, sq>>
    BY <1>4 DEF KernelCompletes
  <2>2. CASE v # w
    BY <1>1, <1>a, <2>1, <2>2
  <2>3. CASE v = w
    <3>1. kern'[v] = kern[v] \ {o} /\ Len(cq'[v]) = Len(cq[v]) + 1
      BY <1>a, <2>1, <2>3
    <3>2. IsFiniteSet(kern'[v]) /\ Cardinality(kern'[v]) = Cardinality(kern[v]) - 1
      BY <1>0, <2>1, <2>3, <3>1, FS_RemoveElement DEF Counted
    <3> QED BY <1>0, <1>b, <2>1, <3>1, <3>2 DEF Counted
  <2> QED BY <2>2, <2>3
<1>5. ASSUME NEW w \in Workers, AdvanceCq(w) PROVE Counted(v)'
  <2>1. /\ UNCHANGED <<sq, kern>>
        /\ cq' = [cq EXCEPT ![w] = SubSeq(@, some[w] + 1, Len(@))]
        /\ inflight' = [inflight EXCEPT ![w] = @ - some[w]]
    BY <1>5 DEF AdvanceCq
  <2>2. CASE v # w
    BY <1>1, <1>a, <2>1, <2>2
  <2>3. CASE v = w
    <3>1. some[v] <= Len(cq[v])
      BY DEF IInv, ControlOK
    <3>2. Len(cq'[v]) = Len(cq[v]) - some[v] /\ inflight'[v] = inflight[v] - some[v]
      BY <1>a, <1>b, <2>1, <2>3, <3>1
    <3>3. kern'[v] = kern[v] /\ sq'[v] = sq[v]
      BY <2>1
    <3>4. Cardinality(kern[v]) \in Nat
      BY <1>0, FS_CardinalityType DEF Counted
    <3> QED BY <1>0, <1>b, <3>1, <3>2, <3>3, <3>4 DEF Counted
  <2> QED BY <2>2, <2>3
<1>6. ASSUME NEW w \in Workers, IssueCancels(w) PROVE Counted(v)'
  <2>1. UNCHANGED <<kern, cq>>
    BY <1>6 DEF IssueCancels
  <2>2. PICK n \in Nat : Cancels(w, n)
    BY <1>6, IssueCancelsSends DEF IInv
  <2>3. CASE v # w
    BY <1>1, <1>a, <2>1, <2>2, <2>3 DEF Cancels
  <2>4. CASE v = w
    <3>1. Len(sq'[v]) = Len(sq[v]) + n /\ inflight'[v] = inflight[v] + n
      BY <1>a, <2>2, <2>4 DEF Cancels
    <3> QED BY <1>0, <1>b, <2>1, <2>2, <3>1 DEF Counted
  <2> QED BY <2>3, <2>4
<1> QED
  <2>1. ASSUME NEW o \in Ops,
               \/ Schedule(o) \/ RequestStop(o) \/ Cancellation(o) \/ Reconnect(o)
               \/ \E w \in Workers : ScheduleOn(o, w)
        PROVE  Counted(v)'
    BY <1>1, <2>1 DEF Schedule, RequestStop, Cancellation, Reconnect, ScheduleOn
  <2>2. ASSUME NEW w \in Workers,
               \/ LaunchAttached(w) \/ LaunchRobin(w) \/ LaunchRandom(w) \/ InstallCallback(w)
               \/ SubmitReturns(w) \/ PeekBatch(w) \/ ConsumeOne(w) \/ StepLoad(w) \/ StepStore(w)
        PROVE  Counted(v)'
    BY <1>1, <2>2 DEF LaunchAttached, LaunchRobin, LaunchRandom, LaunchBucket, Moved,
       InstallCallback, SubmitReturns, PeekBatch, ConsumeOne, StepLoad, StepStore
  <2>3. ASSUME NEW w \in Workers, RunTask(w) PROVE Counted(v)'
    BY <1>2, <2>3, RunTaskStarts
  <2>4. ASSUME NEW w \in Workers, NEW o \in Ops, StartNext(w, o) PROVE Counted(v)'
    BY <1>2, <2>4, StartNextStarts
  <2> QED
    BY <2>1, <2>2, <2>3, <2>4, <1>3, <1>4, <1>5, <1>6
    DEF Next, Run, Launch, Submit, Iodone, EndStep

-----------------------------------------------------------------------------
(* The strengthening holds in every reachable state.                       *)
THEOREM SpecIInv == Spec => []IInv
<1>1. IInv /\ Next => IInv'
  BY NextType, NextControl, NextQueued, NextRing, NextCallback, NextStopping, NextCancels,
     NextCount DEF IInv, OpOK
<1>2. ASSUME IInv, UNCHANGED vars PROVE IInv'
  <2> USE <1>2 DEF vars, opVars, execVars, queueVars, ringVars, runVars
  <2>1. TypeOK'
    BY DEF IInv, TypeOK
  <2>2. ControlOK'
    BY DEF IInv, ControlOK
  <2>3. ASSUME NEW o \in Ops PROVE OpOK(o)'
    <3>1. OpOK(o)
      BY DEF IInv
    <3>2. QueuedOK(o)' /\ CallbackOK(o)' /\ StoppingOK(o)'
      BY <3>1 DEF OpOK, QueuedOK, CallbackOK, StoppingOK, Contains
    <3>3. SamePlace(o)
      BY DEF SamePlace, InSq, InCq
    <3>4. RingOK(o)'
      BY <3>1, <3>3, SamePlaceKeeps DEF OpOK
    <3> QED BY <3>2, <3>4 DEF OpOK
  <2>4. CancelsOK'
    BY DEF IInv, CancelsOK, SentOK, AnsweredOK, Quiet
  <2>5. CountOK'
    BY DEF IInv, CountOK, InflightIsExact
  <2> QED BY <2>1, <2>2, <2>3, <2>4, <2>5 DEF IInv
<1>3. IInv /\ [Next]_vars => IInv'
  BY <1>1, <1>2
<1> QED BY InitIInv, <1>3, PTL DEF Spec

(* No queue, batch or counter of run() leaves its bounds: the submission   *)
(* queue is never overrun, and _inflight, a size_t, never wraps.           *)
THEOREM SpecTypeOK == Spec => []TypeOK
<1>1. IInv => TypeOK
  BY DEF IInv
<1> QED BY <1>1, SpecIInv, PTL

(* _inflight is the number of requests of this ring that are to be         *)
(* answered or seen, for every interleaving of threads, stops and I/O.     *)
THEOREM SpecInflightIsExact == Spec => []InflightIsExact
<1>1. IInv => InflightIsExact
  BY DEF IInv, CountOK
<1> QED BY <1>1, SpecIInv, PTL

(* A cancel request that is to be submitted is that of an operation which  *)
(* is in flight on the same ring and was asked to stop.                    *)
THEOREM SpecCancelsHitTheirTarget == Spec => []CancelsHitTheirTarget
<1>1. IInv => CancelsHitTheirTarget
  BY DEF IInv, CancelsOK, SentOK, CancelsHitTheirTarget
<1> QED BY <1>1, SpecIInv, PTL

-----------------------------------------------------------------------------
(* An operation is known to the ring of its own thread and to no other,    *)
(* and only while it is in flight.                                         *)
LEMMA RequestsOfOne ==
  ASSUME IInv, NEW o \in Ops, NEW w \in Workers
  PROVE  Requests(w, o) = IF state[o] = "inflight" /\ home[o] = w THEN 1 ELSE 0
<1> DEFINE A == {i \in DOMAIN sq[w] : sq[w][i] = [kind |-> "io", op |-> o]}
           B == {i \in DOMAIN Unseen(w) : Unseen(w)[i].op = o}
<1>1. RingOK(o) /\ sq[w] \in Seq(Sqe) /\ cq[w] \in Seq(Cqe)
  BY DEF IInv, OpOK, TypeOK
<1>2. taken[w] \in Nat /\ Len(cq[w]) \in Nat /\ taken[w] <= Len(cq[w])
  <2>1. taken[w] \in Nat /\ some[w] \in Nat
    BY ExecAssumption DEF IInv, TypeOK
  <2> QED BY <1>1, <2>1 DEF IInv, ControlOK
<1>3. \A i : i \in A <=> i \in Nat /\ InSq(w, o, i)
  BY <1>1 DEF InSq
<1>4. \A i : i \in B <=> i \in Nat /\ i > 0 /\ InCq(w, o, i + taken[w])
  <2>1. DOMAIN Unseen(w) = 1 .. Len(cq[w]) - taken[w]
        /\ \A i \in 1 .. Len(cq[w]) - taken[w] : Unseen(w)[i] = cq[w][i + taken[w]]
    BY <1>1, <1>2 DEF Unseen
  <2>2. \A i \in Nat : i > 0 => (i + taken[w] \in taken[w] + 1 .. Len(cq[w])
                                 <=> i \in 1 .. Len(cq[w]) - taken[w])
    BY <1>2
  <2>3. \A i : i \in 1 .. Len(cq[w]) - taken[w] => i \in Nat /\ i > 0
    BY <1>2
  <2> QED BY <2>1, <2>2, <2>3 DEF InCq
<1>5. Requests(w, o) = Cardinality(A) + (IF o \in kern[w] THEN 1 ELSE 0) + Cardinality(B)
  BY DEF Requests
<1> HIDE DEF A, B
<1>6. CASE ~(state[o] = "inflight" /\ home[o] = w)
  <2>1. /\ \A i \in Nat : ~InSq(w, o, i) /\ ~InCq(w, o, i)
        /\ o \notin kern[w]
    BY <1>1, <1>6 DEF RingOK, AtSq, AtKern, AtCq, Nowhere
  <2>2. (\A i : i \notin A) /\ (\A i : i \notin B)
    BY <1>2, <1>3, <1>4, <2>1
  <2>3. Cardinality(A) = 0 /\ Cardinality(B) = 0
    BY <2>2, SetOfNone
  <2> QED BY <1>5, <1>6, <2>1, <2>3
<1>7. CASE state[o] = "inflight" /\ home[o] = w
  <2>1. ASSUME NEW k \in Nat, AtSq(w, o, k)
        PROVE  Requests(w, o) = 1
    <3>1. (\A i : i \in A <=> i = k) /\ (\A i : i \notin B) /\ o \notin kern[w]
      BY <1>2, <1>3, <1>4, <2>1 DEF AtSq
    <3>2. Cardinality(A) = 1
      BY <3>1, SetOfOne
    <3>3. Cardinality(B) = 0
      BY <3>1, SetOfNone
    <3> QED BY <1>5, <3>1, <3>2, <3>3
  <2>2. ASSUME AtKern(w, o)
        PROVE  Requests(w, o) = 1
    <3>1. (\A i : i \notin A) /\ (\A i : i \notin B) /\ o \in kern[w]
      BY <1>2, <1>3, <1>4, <2>2 DEF AtKern
    <3>2. Cardinality(A) = 0 /\ Cardinality(B) = 0
      BY <3>1, SetOfNone
    <3> QED BY <1>5, <3>1, <3>2
  <2>3. ASSUME NEW k \in Nat, AtCq(w, o, k)
        PROVE  Requests(w, o) = 1
    <3>1. (\A i : i \notin A) /\ o \notin kern[w]
      BY <1>3, <2>3 DEF AtCq
    <3>2. InCq(w, o, k) /\ \A i \in Nat : InCq(w, o, i) => i = k
      BY <2>3 DEF AtCq
    <3>3. PICK j \in Nat : j > 0 /\ k = j + taken[w]
      <4>1. k > taken[w]
        BY <1>2, <3>2 DEF InCq
      <4>2. k - taken[w] \in Nat /\ k - taken[w] > 0 /\ k = (k - taken[w]) + taken[w]
        BY <1>2, <4>1
      <4> QED BY <4>2
    <3>4. \A i : i \in B <=> i = j
      BY <1>2, <1>4, <3>2, <3>3
    <3>5. Cardinality(A) = 0
      BY <3>1, SetOfNone
    <3>6. Cardinality(B) = 1
      <4>1. B = {j}
        BY <3>4
      <4> QED BY <4>1, FS_Singleton
    <3> QED BY <1>5, <3>1, <3>5, <3>6
  <2> QED BY <1>1, <1>7, <2>1, <2>2, <2>3 DEF RingOK
<1> QED BY <1>6, <1>7

(* No address of an operation state is held by a ring, a stopping queue or *)
(* a stop source after the operation has completed and may be destroyed.   *)
THEOREM SpecNoDanglingReference == Spec => []NoDanglingReference
<1>1. ASSUME IInv PROVE NoDanglingReference
  <2> SUFFICES ASSUME NEW o \in Ops, NEW w \in Workers
               PROVE  /\ Requests(w, o) = IF state[o] = "inflight" /\ home[o] = w THEN 1 ELSE 0
                      /\ \A b \in Bucket : Contains(stopping[w][b], o)
                           => state[o] = "inflight" /\ home[o] = w /\ callback[o] = "fired"
                      /\ callback[o] # "none" => state[o] = "inflight"
    BY DEF NoDanglingReference
  <2>1. Requests(w, o) = IF state[o] = "inflight" /\ home[o] = w THEN 1 ELSE 0
    BY <1>1, RequestsOfOne
  <2>2. ASSUME NEW b \in Bucket, Contains(stopping[w][b], o)
        PROVE  state[o] = "inflight" /\ home[o] = w /\ callback[o] = "fired"
    <3>1. stopping[w][b] \in Seq(Ops)
      BY <1>1 DEF IInv, TypeOK
    <3>2. \E i \in DOMAIN stopping[w][b] : stopping[w][b][i] = o
      BY <2>2, <3>1 DEF Contains
    <3> QED BY <1>1, <3>2 DEF IInv, OpOK, StoppingOK
  <2>3. callback[o] # "none" => state[o] = "inflight"
    BY <1>1 DEF IInv, OpOK, CallbackOK
  <2> QED BY <2>1, <2>2, <2>3
<1> QED BY <1>1, SpecIInv, PTL

-----------------------------------------------------------------------------
\* How SenderContract sees the operations.
Seen == [o \in Ops |-> IF state[o] \in {"queued", "inflight"} THEN "started" ELSE state[o]]

(* Every step of run() and of its users is a step of the contract or none. *)
LEMMA StepContract == IInv /\ [Next]_vars => [Contract!Next]_(Contract!vars)
<1> SUFFICES ASSUME IInv, [Next]_vars PROVE [Contract!Next]_(Contract!vars)
  OBVIOUS
<1> USE DEF opVars
<1>a. /\ state \in [Ops -> {"connected", "queued", "inflight", "completed"}]
      /\ result \in [Ops -> {"none", "value", "stopped"}]
      /\ stopRequested \in [Ops -> BOOLEAN]
  BY DEF IInv, TypeOK
<1>0. ASSUME Seen' = Seen, result' = result, stopRequested' = stopRequested
      PROVE  [Contract!Next]_(Contract!vars)
  BY <1>0 DEF Contract!vars, Seen
<1>1. ASSUME UNCHANGED <<state, result, stopRequested>>
      PROVE  [Contract!Next]_(Contract!vars)
  BY <1>1, <1>0 DEF Seen
<1>2. ASSUME NEW o \in Ops, state[o] = "connected",
             \E s \in {"queued", "inflight"} : state' = [state EXCEPT ![o] = s],
             UNCHANGED <<result, stopRequested>>
      PROVE  [Contract!Next]_(Contract!vars)
  <2>1. Contract!Start({o})
    BY <1>a, <1>2 DEF Contract!Start, Contract!Move
  <2> QED BY <2>1 DEF Contract!Next
<1>3. ASSUME NEW o \in Ops, RequestStop(o) PROVE [Contract!Next]_(Contract!vars)
  <2>1. UNCHANGED <<state, result>> /\ stopRequested' = [stopRequested EXCEPT ![o] = TRUE]
    BY <1>3 DEF RequestStop
  <2>2. stopRequested' = [p \in Ops |-> stopRequested[p] \/ p \in {o}]
    BY <1>a, <2>1
  <2>3. Contract!Ask({o})
    BY <2>1, <2>2 DEF Contract!Ask
  <2> QED BY <2>3 DEF Contract!Next
<1>4. ASSUME NEW o \in Ops, Reconnect(o) PROVE [Contract!Next]_(Contract!vars)
  <2>1. Contract!Reconnect(o)
    BY <1>a, <1>4 DEF Reconnect, Contract!Reconnect
  <2> QED BY <2>1 DEF Contract!Next
\* An operation that was started completes, as stopped only if asked to.
<1>5. ASSUME NEW o \in Ops, state[o] \in {"queued", "inflight"},
             NEW r \in {"value", "stopped"}, Completes(o, r), r = "stopped" => stopRequested[o],
             UNCHANGED stopRequested
      PROVE  [Contract!Next]_(Contract!vars)
  <2>1. Contract!Complete({o}, r, {})
    BY <1>a, <1>5 DEF Completes, Contract!Complete, Contract!Move
  <2>2. {o} \in SUBSET Ops /\ {} \in SUBSET Ops
    OBVIOUS
  <2> QED BY <2>1, <2>2 DEF Contract!Next
<1>6. ASSUME NEW o \in Ops, NEW w \in Workers, Starts(w, o)
      PROVE  [Contract!Next]_(Contract!vars)
  <2>1. CASE StartStopped(o) /\ state[o] = "queued"
    BY <1>5, <2>1 DEF StartStopped
  <2>2. CASE StartStopped(o) /\ state[o] = "connected"
    <3>1. Contract!StartStopped(o)
      BY <1>a, <2>2 DEF StartStopped, Completes, Contract!StartStopped
    <3> QED BY <3>1 DEF Contract!Next
  <2>3. CASE (StartSubmits(w, o) \/ StartRestarts(w, o)) /\ state[o] = "queued"
    <3>1. Seen' = Seen /\ UNCHANGED <<result, stopRequested>>
      BY <1>a, <2>3 DEF Seen, StartSubmits, StartRestarts
    <3> QED BY <1>0, <3>1
  <2>4. CASE (StartSubmits(w, o) \/ StartRestarts(w, o)) /\ state[o] = "connected"
    BY <1>2, <2>4 DEF StartSubmits, StartRestarts
  <2> QED BY <1>6, <2>1, <2>2, <2>3, <2>4 DEF Starts, Start
<1>7. ASSUME NEW w \in Workers, ConsumeOne(w) PROVE [Contract!Next]_(Contract!vars)
  <2> DEFINE o == cq[w][taken[w] + 1].op
  <2>1. UNCHANGED opVars \/ Finishes(w, o)
    BY <1>7, ConsumeOneFinishes
  <2> HIDE DEF o
  <2>2. CASE UNCHANGED opVars
    BY <1>1, <2>2
  <2>3. CASE Finishes(w, o)
    BY <1>5, <2>3 DEF Finishes
  <2> QED BY <2>1, <2>2, <2>3
<1> QED
  <2>1. ASSUME NEW o \in Ops, Schedule(o) \/ \E w \in Workers : ScheduleOn(o, w)
        PROVE  [Contract!Next]_(Contract!vars)
    BY <1>2, <2>1 DEF Schedule, ScheduleOn
  <2>2. ASSUME NEW o \in Ops, Cancellation(o) \/ \E w \in Workers : KernelCompletes(w, o)
        PROVE  [Contract!Next]_(Contract!vars)
    BY <1>1, <2>2 DEF Cancellation, KernelCompletes
  <2>3. ASSUME NEW w \in Workers,
               \/ LaunchAttached(w) \/ LaunchRobin(w) \/ LaunchRandom(w) \/ InstallCallback(w)
               \/ Submit(w) \/ PeekBatch(w) \/ AdvanceCq(w) \/ EndStep(w)
        PROVE  [Contract!Next]_(Contract!vars)
    BY <1>1, <2>3 DEF LaunchAttached, LaunchRobin, LaunchRandom, LaunchBucket, InstallCallback,
       Submit, SubmitOne, SubmitReturns, PeekBatch, AdvanceCq, EndStep, IssueCancels, StepLoad,
       StepStore
  <2>4. ASSUME NEW w \in Workers, RunTask(w) PROVE [Contract!Next]_(Contract!vars)
    BY <1>6, <2>4, RunTaskStarts
  <2>5. ASSUME NEW w \in Workers, NEW o \in Ops, StartNext(w, o)
        PROVE  [Contract!Next]_(Contract!vars)
    BY <1>6, <2>5, StartNextStarts
  <2>6. UNCHANGED vars => [Contract!Next]_(Contract!vars)
    BY <1>1 DEF vars
  <2> QED
    BY <2>1, <2>2, <2>3, <2>4, <2>5, <2>6, <1>3, <1>4, <1>7 DEF Next, Run, Launch, Iodone

(* With any number of threads, operations, buckets and entries, and        *)
(* whatever is asked to stop when, an operation completes once, and as     *)
(* stopped only if it was asked to.                                        *)
THEOREM SpecImplementsSenderContract == Spec => ImplementsSenderContract
<1>1. Init => Contract!Init
  BY DEF Init, Contract!Init
<1>2. IInv /\ [Next]_vars => [Contract!Next]_(Contract!vars)
  BY StepContract
<1> QED BY <1>1, <1>2, SpecIInv, PTL DEF Spec, ImplementsSenderContract, Contract!Spec
=============================================================================
