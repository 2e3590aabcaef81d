------------------------- MODULE EchoServer_proofs -------------------------
(***************************************************************************)
(* Proofs about the servers, for any number of clients, of descriptors, of *)
(* buffers and of messages: one handler for each connection, everything    *)
(* echoed in order, every buffer with one owner; and with drained accepts  *)
(* no response before those that are due to earlier clients, with linked   *)
(* requests each hello before its goodbye.                                 *)
(***************************************************************************)
EXTENDS EchoServer, DataLemmas

\* The handler of client c has request r.
Serves(c, r) ==
  /\ r.fd # None /\ socket[c] = r.fd
  /\ r.task = IF program = "echo" THEN None ELSE c

\* The buffer of client c.
Room(c) == IF program = "echo" THEN socket[c]
           ELSE IF program = "buffers" THEN held[c] ELSE c

\* All that was read was written, or one message is still to be written.
Idle(c) == taken[c] = Len(delivered[c])
Carrying(c) == /\ taken[c] = Len(delivered[c]) + 1
               /\ memory[Room(c)] = sent[c][taken[c]]

\* A turn of echo() begins without a provided buffer, and gets one.
Empty(c) == program = "buffers" => held[c] = None
Holding(c) == program = "buffers" => held[c] # None
Mapped(c) == program = "echo" => socket[c] \in bufMap

\* A request that waits, for submission or in the kernel.
PendingOK(r) ==
  \/ r = AcceptRequest
  \/ \E c \in Clients : Serves(c, r) /\
       \/ r.op = "read" /\ r.arg = 0 /\ Idle(c) /\ Empty(c) /\ Mapped(c)
       \/ r.op = "write" /\ r.arg = 0 /\ Idle(c) /\ Holding(c) /\ Mapped(c)
       \/ r.op = "write" /\ r.arg = 1 /\ Carrying(c) /\ Holding(c) /\ Mapped(c)
       \/ r.op = "close" /\ r.arg = 0 /\ Idle(c) /\ Holding(c)

\* A cqe.
EndedOK(e) ==
  LET r == e.request IN
  \/ /\ r.op = "accept" /\ e.res = 1
     /\ r.fd # None /\ r.task # None /\ socket[r.task] = r.fd
     /\ Idle(r.task) /\ Empty(r.task)
  \/ r.op \in {"read", "write"} /\ \E c \in Clients : Serves(c, r) /\
       \/ e.res = Failed
       \/ r.op = "read" /\ e.res = 0 /\ Idle(c) /\ Holding(c) /\ Mapped(c)
       \/ r.op = "read" /\ e.res = 1 /\ Carrying(c) /\ Holding(c) /\ Mapped(c)
       \/ r.op = "write" /\ e.res # Failed /\ Idle(c) /\ Holding(c) /\ Mapped(c)
  \/ /\ r.op = "close" /\ r.fd # None
     /\ program = "buffers" =>
          r.task # None /\ socket[r.task] = None /\ held[r.task] # None

\* A coroutine that was spawned is about to read.
FirstRead(o) == Request("read", o[2], o[1], 0)

Pending == {r \in Requests : PendingOK(r)}
Ended == {e \in Cqes : EndedOK(e)}
Spawned == {o \in Clients \X Fds : PendingOK(FirstRead(o))}

\* Whatever is in a queue finds its client as it expects it.
QueuesOK ==
  program # "link" =>
    /\ sq \in Seq(Pending) /\ kern \in Seq(Pending)
    /\ cq \in Seq(Ended)
    /\ operations \in Seq(Spawned)

\* echo.cpp does not know of passes.
PhaseOK == program = "echo" => phase = "reap" /\ sq = << >> /\ operations = << >>

\* A descriptor is one client's; who was not accepted yet has nothing.
ClientsOK ==
  /\ \A c, d \in Clients : socket[c] = socket[d] /\ socket[c] # None => c = d
  /\ \A i, j \in DOMAIN backlog : backlog[i] = backlog[j] => i = j
  /\ \A i \in DOMAIN backlog : backlog[i] \notin Range(accepted)
  /\ \A c \in Clients \ Range(accepted) :
       socket[c] = None /\ held[c] = None /\ taken[c] = 0 /\ delivered[c] = << >>
  /\ \A c \in Clients : Len(sent[c]) <= MaxMessages

OfFd(f) == {r \in Requests : r.fd = f}
OpenOn(f) == {e \in Cqes : e.request.fd = f /\ e.request.op # "close"}
SpawnedOn(f) == {o \in Clients \X Fds : o[2] = f}
Handlers(f) == Count(sq, OfFd(f)) + Count(kern, OfFd(f))
                 + Count(cq, OpenOn(f)) + Count(operations, SpawnedOn(f))

\* OneHandlerEach, also when the server has ended.
HandlersOK ==
  program # "link" => \A f \in Fds :
    Handlers(f) = IF \E c \in Clients : socket[c] = f THEN 1 ELSE 0

\* The buffer that a coroutine held goes back by the one cqe of its close.
ClosedBy(c) == {e \in Cqes : e.request.op = "close" /\ e.request.task = c}

BuffersOK ==
  program = "buffers" =>
    /\ \A c, d \in Clients : held[c] = held[d] /\ held[c] # None => c = d
    /\ \A b \in Bids : Count(bufRing, {b}) = IF \E c \in Clients : held[c] = b THEN 0 ELSE 1
    /\ \A c \in Clients : Count(cq, ClosedBy(c)) <= 1

\* The chains of feature_io_link.cpp; there, only a cqe that failed is a
\* write's.
LinkPending ==
  {AcceptRequest} \cup
  {r \in Requests : /\ r.task \in Clients /\ r.fd \in Fds
                    /\ \/ r.op = "write" /\ r.arg \in {1, 2}
                       \/ r.op = "close"}
LinkEnded ==
  {e \in Cqes : /\ e.request.task \in Clients /\ e.request.fd \in Fds
                /\ e.request.op \in {"accept", "write", "close"}
                /\ e.request.op = "write" => e.res = Failed}
LinkOK ==
  program = "link" =>
    /\ sq \in Seq({AcceptRequest}) /\ kern \in Seq(LinkPending)
    /\ cq \in Seq(LinkEnded)

IInv == /\ TypeOK /\ QueuesOK /\ PhaseOK /\ ClientsOK
        /\ HandlersOK /\ BuffersOK /\ LinkOK /\ EchoesInOrder

-----------------------------------------------------------------------------
\* What a step that is not about client c leaves it.
Untouched(c) ==
  /\ socket'[c] = socket[c]
  /\ Idle(c) => Idle(c)'
  /\ Carrying(c) /\ Holding(c) => Carrying(c)'
  /\ Empty(c) => Empty(c)'
  /\ Holding(c) => Holding(c)'
  /\ Mapped(c) => Mapped(c)'

(* A request stays what its client expects, unless the step is about it: F *)
(* are the descriptors of the connections that it is about.                *)
LEMMA KeptPending ==
  ASSUME program' = program, NEW F,
         \A d \in Clients : socket[d] # None /\ socket[d] \notin F => Untouched(d),
         NEW r \in Pending, r.fd \notin F
  PROVE  r \in Pending'
<1>1. CASE r = AcceptRequest
  BY <1>1 DEF Pending, PendingOK
<1>2. CASE r # AcceptRequest
  <2>1. PICK c \in Clients : Serves(c, r) /\
           \/ r.op = "read" /\ r.arg = 0 /\ Idle(c) /\ Empty(c) /\ Mapped(c)
           \/ r.op = "write" /\ r.arg = 0 /\ Idle(c) /\ Holding(c) /\ Mapped(c)
           \/ r.op = "write" /\ r.arg = 1 /\ Carrying(c) /\ Holding(c) /\ Mapped(c)
           \/ r.op = "close" /\ r.arg = 0 /\ Idle(c) /\ Holding(c)
    BY <1>2 DEF Pending, PendingOK
  <2>2. Untouched(c)
    BY <2>1 DEF Serves
  <2>3. Serves(c, r)'
    BY <2>1, <2>2 DEF Serves, Untouched
  <2>4. PendingOK(r)'
    BY <2>1, <2>2, <2>3, Zenon DEF PendingOK, Untouched
  <2> QED BY <2>4 DEF Pending
<1> QED BY <1>1, <1>2

LEMMA KeptSpawned ==
  ASSUME program' = program, NEW F,
         \A d \in Clients : socket[d] # None /\ socket[d] \notin F => Untouched(d),
         NEW o \in Spawned, o[2] \notin F
  PROVE  o \in Spawned'
<1>1. FirstRead(o) \in Pending
  BY DEF Spawned, Pending, FirstRead, Request, Requests
<1>2. FirstRead(o).fd = o[2]
  BY DEF FirstRead, Request
<1>3. FirstRead(o) \in Pending'
  BY <1>1, <1>2, KeptPending
<1> QED BY <1>3 DEF Spawned, Pending

(* The cqe of a close has only its task, of which G are exempt.            *)
LEMMA KeptEnded ==
  ASSUME program' = program, NEW F, NEW G,
         \A d \in Clients : socket[d] # None /\ socket[d] \notin F => Untouched(d),
         \A d \in Clients : program = "buffers" /\ socket[d] = None /\ held[d] # None /\ d \notin G
                             => socket'[d] = None /\ held'[d] # None,
         NEW e \in Ended,
         IF e.request.op = "close" THEN e.request.task \notin G ELSE e.request.fd \notin F
  PROVE  e \in Ended'
<1> DEFINE r == e.request
<1>0. e \in Cqes /\ r \in Requests
  BY DEF Ended, Cqes
<1>1. CASE r.op = "accept"
  <2>1. /\ e.res = 1
        /\ r.fd # None /\ r.task # None /\ socket[r.task] = r.fd
        /\ Idle(r.task) /\ Empty(r.task)
    BY <1>1 DEF Ended, EndedOK
  <2>2. r.task \in Clients
    BY <1>0, <2>1 DEF Requests
  <2>3. Untouched(r.task)
    BY <1>1, <2>1, <2>2
  <2>4. socket'[r.task] = r.fd /\ Idle(r.task)' /\ Empty(r.task)'
    BY <2>1, <2>3 DEF Untouched
  <2>5. EndedOK(e)'
    BY <1>1, <2>1, <2>4 DEF EndedOK
  <2> QED BY <1>0, <2>5 DEF Ended
<1>2. CASE r.op \in {"read", "write"}
  <2>1. PICK c \in Clients : Serves(c, r) /\
       \/ e.res = Failed
       \/ r.op = "read" /\ e.res = 0 /\ Idle(c) /\ Holding(c) /\ Mapped(c)
       \/ r.op = "read" /\ e.res = 1 /\ Carrying(c) /\ Holding(c) /\ Mapped(c)
       \/ r.op = "write" /\ e.res # Failed /\ Idle(c) /\ Holding(c) /\ Mapped(c)
    BY <1>2 DEF Ended, EndedOK
  <2>2. Untouched(c)
    BY <1>2, <2>1 DEF Serves
  <2>3. Serves(c, r)'
    BY <2>1, <2>2 DEF Serves, Untouched
  <2>4. EndedOK(e)'
    BY <1>2, <2>1, <2>2, <2>3, Zenon DEF EndedOK, Untouched
  <2> QED BY <1>0, <2>4 DEF Ended
<1>3. CASE r.op = "close"
  <2>1. /\ r.fd # None
        /\ program = "buffers" =>
             r.task # None /\ socket[r.task] = None /\ held[r.task] # None
    BY <1>3 DEF Ended, EndedOK
  <2>2. program = "buffers" => r.task \in Clients /\ socket'[r.task] = None /\ held'[r.task] # None
    BY <1>0, <1>3, <2>1 DEF Requests
  <2>3. EndedOK(e)'
    BY <1>3, <2>1, <2>2 DEF EndedOK
  <2> QED BY <1>0, <2>3 DEF Ended
<1> QED BY <1>0, <1>1, <1>2, <1>3 DEF Requests

\* The same for all that is in a queue.
LEMMA AllKept ==
  ASSUME program' = program,
         \A d \in Clients : socket[d] # None => Untouched(d),
         \A d \in Clients : program = "buffers" /\ socket[d] = None /\ held[d] # None
                             => socket'[d] = None /\ held'[d] # None
  PROVE  Pending \subseteq Pending' /\ Spawned \subseteq Spawned' /\ Ended \subseteq Ended'
<1>1. \A r \in Pending : r \in Pending'
  <2> TAKE r \in Pending
  <2> QED BY KeptPending, r.fd \notin {}
<1>2. \A o \in Spawned : o \in Spawned'
  <2> TAKE o \in Spawned
  <2> QED BY KeptSpawned, o[2] \notin {}
<1>3. \A e \in Ended : e \in Ended'
  <2> TAKE e \in Ended
  <2> QED BY KeptEnded, e.request.fd \notin {}, e.request.task \notin {}
<1> QED BY <1>1, <1>2, <1>3

LEMMA OthersKept ==
  ASSUME program' = program, NEW f \in Fds,
         \A d \in Clients : socket[d] # None /\ socket[d] # f => Untouched(d),
         \A d \in Clients : program = "buffers" /\ socket[d] = None /\ held[d] # None
                             => socket'[d] = None /\ held'[d] # None
  PROVE  /\ Pending \ OfFd(f) \subseteq Pending'
         /\ Spawned \ SpawnedOn(f) \subseteq Spawned'
         /\ Ended \ OpenOn(f) \subseteq Ended'
<1>1. \A r \in Pending : r.fd # f => r \in Pending'
  <2> TAKE r \in Pending
  <2> QED BY KeptPending, r.fd \notin {f} <=> r.fd # f
<1>2. \A o \in Spawned : o[2] # f => o \in Spawned'
  <2> TAKE o \in Spawned
  <2> QED BY KeptSpawned, o[2] \notin {f} <=> o[2] # f
<1>3. \A e \in Ended : e.request.op = "close" \/ e.request.fd # f => e \in Ended'
  <2> TAKE e \in Ended
  <2> QED BY KeptEnded, e.request.fd \notin {f} <=> e.request.fd # f, e.request.task \notin {}
<1> QED BY <1>1, <1>2, <1>3 DEF OfFd, SpawnedOn, OpenOn, Pending, Spawned, Ended

-----------------------------------------------------------------------------
(* If a request or a cqe is on descriptor f nothing else is: what is said  *)
(* of others, says nothing less.                                           *)
LEMMA OthersOfKern ==
  ASSUME TypeOK, QueuesOK, HandlersOK, program # "link",
         NEW i \in DOMAIN kern, NEW f \in Fds, kern[i].fd = f
  PROVE  /\ sq \in Seq(Pending \ OfFd(f)) /\ RemoveAt(kern, i) \in Seq(Pending \ OfFd(f))
         /\ cq \in Seq(Ended \ OpenOn(f)) /\ operations \in Seq(Spawned \ SpawnedOn(f))
         /\ \E c \in Clients : socket[c] = f
<1>1. /\ sq \in Seq(Pending) /\ kern \in Seq(Pending)
      /\ cq \in Seq(Ended) /\ operations \in Seq(Spawned)
  BY DEF QueuesOK
<1> DEFINE a == Count(sq, OfFd(f))
           b == Count(RemoveAt(kern, i), OfFd(f))
           k == Count(kern, OfFd(f))
           c == Count(cq, OpenOn(f))
           d == Count(operations, SpawnedOn(f))
<1>2. a + k + c + d = IF \E e \in Clients : socket[e] = f THEN 1 ELSE 0
  BY DEF HandlersOK, Handlers
<1>3. i \in 1 .. Len(kern) /\ RemoveAt(kern, i) \in Seq(Pending)
  BY <1>1, RemoveAtProperties
<1>4. k = b + 1
  <2>1. kern[i] \in OfFd(f)
    BY <1>1 DEF OfFd, Pending
  <2> QED BY <1>1, <1>3, <2>1, CountRemoveAt
<1>5. a \in Nat /\ b \in Nat /\ c \in Nat /\ d \in Nat
  BY <1>1, <1>3, CountType
<1> HIDE DEF a, b, c, d, k
<1>6. a = 0 /\ b = 0 /\ c = 0 /\ d = 0 /\ \E e \in Clients : socket[e] = f
  BY <1>2, <1>4, <1>5
<1> QED BY <1>1, <1>3, <1>6, CountZero DEF a, b, c, d

LEMMA OthersOfCq ==
  ASSUME TypeOK, QueuesOK, HandlersOK, program # "link", cq # << >>,
         NEW f \in Fds, Head(cq) \in OpenOn(f)
  PROVE  /\ sq \in Seq(Pending \ OfFd(f)) /\ kern \in Seq(Pending \ OfFd(f))
         /\ Tail(cq) \in Seq(Ended \ OpenOn(f)) /\ operations \in Seq(Spawned \ SpawnedOn(f))
         /\ \E c \in Clients : socket[c] = f
<1>1. /\ sq \in Seq(Pending) /\ kern \in Seq(Pending)
      /\ cq \in Seq(Ended) /\ operations \in Seq(Spawned) /\ Tail(cq) \in Seq(Ended)
  BY DEF QueuesOK
<1> DEFINE a == Count(sq, OfFd(f))
           b == Count(Tail(cq), OpenOn(f))
           k == Count(kern, OfFd(f))
           c == Count(cq, OpenOn(f))
           d == Count(operations, SpawnedOn(f))
<1>2. a + k + c + d = IF \E e \in Clients : socket[e] = f THEN 1 ELSE 0
  BY DEF HandlersOK, Handlers
<1>4. c = b + 1
  BY <1>1, CountTail
<1>5. a \in Nat /\ b \in Nat /\ k \in Nat /\ d \in Nat
  BY <1>1, CountType
<1> HIDE DEF a, b, c, d, k
<1>6. a = 0 /\ b = 0 /\ k = 0 /\ d = 0 /\ \E e \in Clients : socket[e] = f
  BY <1>2, <1>4, <1>5
<1> QED BY <1>1, <1>6, CountZero DEF a, b, k, d

(* Where a new request goes, there is it counted.                          *)
LEMMA IssueSeq ==
  ASSUME NEW S, sq \in Seq(S), kern \in Seq(S), NEW rs \in Seq(S), Issue(rs)
  PROVE  sq' \in Seq(S) /\ kern' \in Seq(S)
<1>1. sq \o rs \in Seq(S) /\ kern \o rs \in Seq(S)
  BY ConcatProperties
<1>2. (kern' = kern \o rs /\ sq' = sq) \/ (sq' = sq \o rs /\ kern' = kern)
  BY DEF Issue
<1> QED BY <1>1, <1>2

LEMMA IssueCount ==
  ASSUME NEW S, sq \in Seq(S), kern \in Seq(S), NEW rs \in Seq(S), Issue(rs), NEW X
  PROVE  /\ Count(sq', X) + Count(kern', X) = Count(sq, X) + Count(kern, X) + Count(rs, X)
         /\ Count(sq', X) \in Nat /\ Count(kern', X) \in Nat
<1>1. Count(sq, X) \in Nat /\ Count(kern, X) \in Nat /\ Count(rs, X) \in Nat
  BY CountType
<1>2. Count(sq \o rs, X) = Count(sq, X) + Count(rs, X) /\ Count(kern \o rs, X) = Count(kern, X) + Count(rs, X)
  BY CountConcat
<1>3. CASE program = "echo"
  <2>1. kern' = kern \o rs /\ sq' = sq
    BY <1>3 DEF Issue
  <2> QED BY <1>1, <1>2, <2>1
<1>4. CASE program # "echo"
  <2>1. sq' = sq \o rs /\ kern' = kern
    BY <1>4 DEF Issue
  <2> QED BY <1>1, <1>2, <2>1
<1> QED BY <1>3, <1>4

(* A request that waits, and a cqe, seen from the client on its descriptor. *)
LEMMA PendingOf ==
  ASSUME ClientsOK, NEW r \in Pending, NEW c \in Clients, socket[c] = r.fd, r.fd # None
  PROVE  Serves(c, r) /\
           \/ r.op = "read" /\ r.arg = 0 /\ Idle(c) /\ Empty(c) /\ Mapped(c)
           \/ r.op = "write" /\ r.arg = 0 /\ Idle(c) /\ Holding(c) /\ Mapped(c)
           \/ r.op = "write" /\ r.arg = 1 /\ Carrying(c) /\ Holding(c) /\ Mapped(c)
           \/ r.op = "close" /\ r.arg = 0 /\ Idle(c) /\ Holding(c)
<1>1. r # AcceptRequest
  BY DEF AcceptRequest, Request
<1>2. PICK d \in Clients : Serves(d, r) /\
           \/ r.op = "read" /\ r.arg = 0 /\ Idle(d) /\ Empty(d) /\ Mapped(d)
           \/ r.op = "write" /\ r.arg = 0 /\ Idle(d) /\ Holding(d) /\ Mapped(d)
           \/ r.op = "write" /\ r.arg = 1 /\ Carrying(d) /\ Holding(d) /\ Mapped(d)
           \/ r.op = "close" /\ r.arg = 0 /\ Idle(d) /\ Holding(d)
  BY <1>1 DEF Pending, PendingOK
<1>3. d = c
  BY <1>2 DEF Serves, ClientsOK
<1> QED BY <1>2, <1>3

(* A request that waits and is not for accepting is on some client's.      *)
LEMMA PendingSocket ==
  ASSUME TypeOK, ClientsOK, NEW r \in Pending, r.op # "accept"
  PROVE  /\ r.fd \in Fds /\ \E c \in Clients : socket[c] = r.fd
         /\ \A c \in Clients : socket[c] = r.fd => Serves(c, r)
<1>1. r # AcceptRequest /\ r \in Requests
  BY DEF AcceptRequest, Request, Pending
<1>2. PICK c \in Clients : Serves(c, r)
  BY <1>1 DEF Pending, PendingOK
<1>3. r.fd # None /\ r.fd \in Fds
  BY <1>1, <1>2 DEF Serves, Requests
<1> QED BY <1>2, <1>3, PendingOf DEF Serves

(* Nothing that a client goes by is changed.                               *)
LEMMA SameClient ==
  ASSUME program' = program, NEW d \in Clients, socket[d] # None,
         socket'[d] = socket[d], taken'[d] = taken[d], delivered'[d] = delivered[d],
         sent'[d][taken[d]] = sent[d][taken[d]],
         program = "buffers" => held'[d] = held[d],
         program = "echo" /\ socket[d] \in bufMap => socket[d] \in bufMap',
         program # "buffers" \/ held[d] # None => memory'[Room(d)] = memory[Room(d)]
  PROVE  Untouched(d)
<1>1. Room(d)' = Room(d)
  BY DEF Room
<1>2. Idle(d) => Idle(d)'
  BY DEF Idle
<1>3. Carrying(d) /\ Holding(d) => Carrying(d)'
  <2> SUFFICES ASSUME Carrying(d), Holding(d) PROVE Carrying(d)'
    OBVIOUS
  <2>1. memory'[Room(d)] = memory[Room(d)]
    BY DEF Holding
  <2>2. memory'[Room(d)'] = sent'[d][taken'[d]]
    BY <1>1, <2>1 DEF Carrying
  <2> QED BY <2>2 DEF Carrying
<1>4. (Empty(d) => Empty(d)') /\ (Holding(d) => Holding(d)') /\ (Mapped(d) => Mapped(d)')
  BY DEF Empty, Holding, Mapped
<1> QED BY <1>2, <1>3, <1>4 DEF Untouched

-----------------------------------------------------------------------------
(* The kernel answers request i with cqe e, and is done with it.           *)
LEMMA AnsweredQueues ==
  ASSUME TypeOK, QueuesOK, HandlersOK, program # "link", program' = program,
         NEW i \in DOMAIN kern, NEW f \in Fds, kern[i].fd = f,
         Pending \ OfFd(f) \subseteq Pending', Spawned \ SpawnedOn(f) \subseteq Spawned',
         Ended \ OpenOn(f) \subseteq Ended',
         NEW e \in Ended', cq' = Append(cq, e), kern' = RemoveAt(kern, i),
         UNCHANGED <<sq, operations>>
  PROVE  QueuesOK'
<1>1. /\ sq \in Seq(Pending \ OfFd(f)) /\ RemoveAt(kern, i) \in Seq(Pending \ OfFd(f))
      /\ cq \in Seq(Ended \ OpenOn(f)) /\ operations \in Seq(Spawned \ SpawnedOn(f))
  BY OthersOfKern
<1>2. /\ sq \in Seq(Pending') /\ RemoveAt(kern, i) \in Seq(Pending')
      /\ cq \in Seq(Ended') /\ operations \in Seq(Spawned')
  BY <1>1, SeqWidens
<1>3. Append(cq, e) \in Seq(Ended')
  BY <1>2
<1> QED BY <1>2, <1>3 DEF QueuesOK

LEMMA RoomIsSlot ==
  ASSUME TypeOK, NEW d \in Clients, socket[d] # None, program # "buffers" \/ held[d] # None
  PROVE  Room(d) \in Slots
BY DEF TypeOK, Room, Slots

(* The buffer that is read into is the client's own from now on.           *)
LEMMA ReadRoom ==
  ASSUME TypeOK, ClientsOK, BuffersOK, program # "link", program' = program,
         NEW c \in Clients, NEW r \in Pending, r.op = "read", socket[c] = r.fd, r.fd \in Fds,
         Empty(c), SelectBuffer(r), socket' = socket, bufMap' = bufMap
  PROVE  LET s == IF program = "buffers" THEN Head(bufRing) ELSE Slot(r) IN
         /\ s \in Slots
         /\ Room(c)' = s
         /\ program = "buffers" =>
              held' = [held EXCEPT ![c] = s] /\ s \in Bids /\ \A d \in Clients : held[d] # s
         /\ program # "buffers" => held' = held
         /\ \A d \in Clients : d # c /\ socket[d] # None => Room(d) # s
<1>1. Serves(c, r)
  BY PendingOf, EchoAssumption
<1>2. CASE program = "buffers"
  <2>1. bufRing # << >> /\ bufRing \in Seq(Bids) /\ r.task = c /\ held' = [held EXCEPT ![c] = Head(bufRing)]
    BY <1>1, <1>2 DEF SelectBuffer, TypeOK, Serves
  <2>2. Head(bufRing) \in Bids
    BY <2>1
  <2>3. Count(bufRing, {Head(bufRing)}) # 0
    <3>1. 1 \in DOMAIN bufRing /\ bufRing[1] \in {Head(bufRing)}
      BY <2>1
    <3> QED BY <2>1, <3>1, CountType
  <2>4. \A d \in Clients : held[d] # Head(bufRing)
    BY <1>2, <2>2, <2>3 DEF BuffersOK
  <2>5. held'[c] = Head(bufRing)
    BY <2>1 DEF TypeOK
  <2> QED BY <1>2, <2>1, <2>2, <2>4, <2>5 DEF Room, Slots
<1>3. CASE program = "echo"
  <2>1. held' = held /\ Slot(r) = r.fd
    BY <1>3 DEF SelectBuffer, Slot
  <2> QED BY <1>3, <2>1 DEF Room, Slots, ClientsOK
<1>4. CASE program \notin {"echo", "buffers"}
  <2>1. held' = held /\ Slot(r) = c
    BY <1>1, <1>4 DEF SelectBuffer, Slot, Serves
  <2> QED BY <1>4, <2>1 DEF Room, Slots
<1> QED BY <1>2, <1>3, <1>4

LEMMA KernelReadsQueues ==
  ASSUME IInv, program # "link", program' = program, UNCHANGED operations,
         NEW i \in DOMAIN kern, KernelReads(i)
  PROVE  QueuesOK'
<1> USE DEF IInv
<1>0. kern[i] \in Pending /\ Pending \subseteq Requests
  BY DEF QueuesOK, Pending
<1>r. PICK r \in Requests : r = kern[i]
  BY <1>0
<1> DEFINE s == IF program = "buffers" THEN Head(bufRing) ELSE Slot(r)
<1>1. r \in Pending /\ r \in Requests /\ r.op = "read"
  BY <1>0, <1>r DEF KernelReads
<1>2. PICK c \in Clients : socket[c] = r.fd /\ ReadFrom(c, r, i)
  BY <1>r DEF KernelReads
<1>3. r.fd \in Fds /\ r.fd # None /\ Serves(c, r)
  BY <1>1, <1>2, PendingSocket, EchoAssumption
<1>4. Idle(c) /\ Empty(c) /\ Mapped(c)
  BY <1>1, <1>2, <1>3, PendingOf
<1>5. UNCHANGED <<socket, sent, delivered, bufMap>>
  BY DEF KernelReads
<1>6. SelectBuffer(r)
  BY <1>2 DEF ReadFrom
<1>7. /\ s \in Slots
      /\ Room(c)' = s
      /\ program = "buffers" =>
           held' = [held EXCEPT ![c] = s] /\ s \in Bids /\ \A d \in Clients : held[d] # s
      /\ program # "buffers" => held' = held
      /\ \A d \in Clients : d # c /\ socket[d] # None => Room(d) # s
  BY <1>1, <1>2, <1>3, <1>4, <1>5, <1>6, ReadRoom
<1>8. PICK res \in {0, 1} :
        /\ cq' = Append(cq, [request |-> r, res |-> res, more |-> FALSE])
        /\ kern' = RemoveAt(kern, i) /\ sq' = sq
        /\ res = 0 => UNCHANGED <<memory, taken>>
        /\ res = 1 => /\ taken[c] < Len(sent[c])
                      /\ memory' = [memory EXCEPT ![s] = sent[c][taken[c] + 1]]
                      /\ taken' = [taken EXCEPT ![c] = @ + 1]
  <2>1. ~Skipped(r)
    BY <1>1 DEF Skipped
  <2>2. CASE taken[c] < Len(sent[c])
    BY <1>2, <2>1, <2>2 DEF ReadFrom, Answer
  <2>3. CASE ~(taken[c] < Len(sent[c]))
    BY <1>2, <2>1, <2>3 DEF ReadFrom, Answer
  <2> QED BY <2>2, <2>3
<1> HIDE DEF s
<1>t. /\ taken \in [Clients -> 0 .. MaxMessages] /\ memory \in [Slots -> Message \cup {None}]
      /\ held \in [Clients -> Bids \cup {None}] /\ MaxMessages \in Nat
  BY EchoAssumption DEF TypeOK
<1>9. ASSUME NEW d \in Clients, socket[d] # None, socket[d] # r.fd PROVE Untouched(d)
  <2>1. d # c
    BY <1>2, <1>9
  <2>2. taken'[d] = taken[d] /\ (program = "buffers" => held'[d] = held[d])
    BY <1>7, <1>8, <1>t, <2>1
  <2>3. Room(d) # s
    BY <1>7, <1>9, <2>1
  <2>4. program # "buffers" \/ held[d] # None => memory'[Room(d)] = memory[Room(d)]
    BY <1>8, <1>9, <1>t, <2>3, RoomIsSlot
  <2> QED BY <1>5, <1>9, <2>2, <2>4, SameClient
<1>10. ASSUME NEW d \in Clients, program = "buffers", socket[d] = None, held[d] # None
       PROVE  socket'[d] = None /\ held'[d] # None
  <2>1. d # c
    BY <1>2, <1>3, <1>10
  <2> QED BY <1>5, <1>7, <1>10, <1>t, <2>1
<1>11. /\ Pending \ OfFd(r.fd) \subseteq Pending'
       /\ Spawned \ SpawnedOn(r.fd) \subseteq Spawned'
       /\ Ended \ OpenOn(r.fd) \subseteq Ended'
  BY <1>3, <1>9, <1>10, OthersKept
<1> DEFINE e == [request |-> r, res |-> res, more |-> FALSE]
<1>12. e \in Ended'
  <2>1. e \in Cqes
    BY <1>1 DEF Cqes
  <2>2. Serves(c, r)'
    BY <1>3, <1>5 DEF Serves
  <2>3. Mapped(c)' /\ Holding(c)'
    <3>1. Mapped(c)'
      BY <1>4, <1>5 DEF Mapped
    <3>2. program = "buffers" => held'[c] = s /\ s # None
      BY <1>7, <1>t, EchoAssumption
    <3> QED BY <3>1, <3>2 DEF Holding
  <2>4. res = 0 => Idle(c)'
    BY <1>4, <1>5, <1>8 DEF Idle
  <2>5. res = 1 => Carrying(c)'
    <3> SUFFICES ASSUME res = 1 PROVE Carrying(c)'
      OBVIOUS
    <3>1. taken'[c] = taken[c] + 1
      BY <1>8, <1>t
    <3>2. memory'[s] = sent[c][taken[c] + 1]
      BY <1>7, <1>8, <1>t
    <3> QED BY <1>4, <1>5, <1>7, <3>1, <3>2 DEF Carrying, Idle
  <2>6. EndedOK(e)'
    BY <1>1, <2>2, <2>3, <2>4, <2>5 DEF EndedOK
  <2> QED BY <2>1, <2>6 DEF Ended
<1> HIDE DEF e
<1>13. cq' = Append(cq, e)
  BY <1>8 DEF e
<1> QED BY <1>r, <1>3, <1>8, <1>11, <1>12, <1>13, AnsweredQueues

LEMMA KernelWritesQueues ==
  ASSUME IInv, program # "link", program' = program, UNCHANGED operations,
         NEW i \in DOMAIN kern, KernelWrites(i)
  PROVE  QueuesOK'
<1> USE DEF IInv
<1>0. kern[i] \in Pending /\ Pending \subseteq Requests
  BY DEF QueuesOK, Pending
<1>r. PICK r \in Requests : r = kern[i]
  BY <1>0
<1>1. r \in Pending /\ r.op = "write"
  BY <1>0, <1>r DEF KernelWrites
<1> DEFINE said == IF r.arg = 0 THEN << >> ELSE <<memory[Slot(r)]>>
<1>2. PICK c \in Clients : socket[c] = r.fd /\ delivered' = [delivered EXCEPT ![c] = @ \o said]
  BY <1>r DEF KernelWrites
<1>3. r.fd \in Fds /\ r.fd # None /\ Serves(c, r)
  BY <1>1, <1>2, PendingSocket, EchoAssumption
<1>4. /\ Holding(c) /\ Mapped(c)
      /\ (r.arg = 0 /\ Idle(c)) \/ (r.arg = 1 /\ Carrying(c))
  BY <1>1, <1>2, <1>3, PendingOf
<1>5. UNCHANGED <<socket, sent, taken, memory, bufMap, held>>
  BY DEF KernelWrites, bufferVars
<1>6. PICK res \in {0, 1} :
        /\ cq' = Append(cq, [request |-> r, res |-> res, more |-> FALSE])
        /\ kern' = RemoveAt(kern, i) /\ sq' = sq
  <2>1. ~Skipped(r)
    BY DEF Skipped
  <2>2. Answer(i, r, IF r.arg = 0 THEN 0 ELSE 1, FALSE)
    BY <1>r DEF KernelWrites
  <2>3. (IF r.arg = 0 THEN 0 ELSE 1) \in {0, 1}
    OBVIOUS
  <2> QED BY <2>1, <2>2, <2>3 DEF Answer
<1>t. /\ taken \in [Clients -> 0 .. MaxMessages] /\ MaxMessages \in Nat
      /\ delivered \in [Clients -> Seq(Message \cup {Word(1), Word(2)})]
  BY EchoAssumption DEF TypeOK
<1>7. Idle(c)'
  <2>1. delivered[c] \in Seq(Message \cup {Word(1), Word(2)}) /\ delivered'[c] = delivered[c] \o said
    BY <1>2, <1>t
  <2>2. CASE r.arg = 0
    <3>1. delivered'[c] = delivered[c]
      BY <2>1, <2>2
    <3> QED BY <1>4, <1>5, <2>2, <3>1 DEF Idle
  <2>3. CASE r.arg = 1
    <3> DEFINE m == memory[Slot(r)]
               q == delivered[c]
    <3>1. delivered'[c] = q \o <<m>> /\ taken[c] = Len(q) + 1
      BY <1>4, <2>1, <2>3 DEF Carrying
    <3> HIDE DEF m, q
    <3>2. Len(q \o <<m>>) = Len(q) + 1
      <4>1. q \in Seq({q[j] : j \in DOMAIN q} \cup {m})
        BY <2>1 DEF q
      <4>2. <<m>> \in Seq({q[j] : j \in DOMAIN q} \cup {m}) /\ Len(<<m>>) = 1
        OBVIOUS
      <4> QED BY <4>1, <4>2, ConcatProperties
    <3> QED BY <1>5, <3>1, <3>2 DEF Idle
  <2> QED BY <1>4, <2>2, <2>3
<1>9. ASSUME NEW d \in Clients, socket[d] # None, socket[d] # r.fd PROVE Untouched(d)
  <2>1. d # c
    BY <1>2, <1>9
  <2>2. delivered'[d] = delivered[d]
    BY <1>2, <1>t, <2>1
  <2> QED BY <1>5, <1>9, <2>2, SameClient
<1>10. ASSUME NEW d \in Clients, program = "buffers", socket[d] = None, held[d] # None
       PROVE  socket'[d] = None /\ held'[d] # None
  BY <1>5, <1>10
<1>11. /\ Pending \ OfFd(r.fd) \subseteq Pending'
       /\ Spawned \ SpawnedOn(r.fd) \subseteq Spawned'
       /\ Ended \ OpenOn(r.fd) \subseteq Ended'
  BY <1>3, <1>9, <1>10, OthersKept
<1> DEFINE e == [request |-> r, res |-> res, more |-> FALSE]
<1>12. e \in Ended'
  <2>1. e \in Cqes
    BY <1>1 DEF Cqes
  <2>2. Serves(c, r)'
    BY <1>3, <1>5 DEF Serves
  <2>3. Mapped(c)' /\ Holding(c)'
    BY <1>4, <1>5 DEF Mapped, Holding
  <2>6. EndedOK(e)'
    BY <1>1, <1>7, <2>2, <2>3 DEF EndedOK, Failed
  <2> QED BY <2>1, <2>6 DEF Ended
<1> HIDE DEF e
<1>13. cq' = Append(cq, e)
  BY <1>6 DEF e
<1> QED BY <1>r, <1>3, <1>6, <1>11, <1>12, <1>13, AnsweredQueues

LEMMA KernelClosesQueues ==
  ASSUME IInv, program # "link", program' = program, UNCHANGED operations,
         NEW i \in DOMAIN kern, KernelCloses(i)
  PROVE  QueuesOK'
<1> USE DEF IInv
<1>0. kern[i] \in Pending /\ Pending \subseteq Requests
  BY DEF QueuesOK, Pending
<1>r. PICK r \in Requests : r = kern[i]
  BY <1>0
<1>1. r \in Pending /\ r.op = "close"
  BY <1>0, <1>r DEF KernelCloses
<1>2. PICK c \in Clients : socket[c] = r.fd /\ Serves(c, r)
  BY <1>1, PendingSocket
<1>3. r.fd \in Fds /\ r.fd # None
  BY <1>1, PendingSocket, EchoAssumption
<1>4. Holding(c)
  BY <1>1, <1>2, <1>3, PendingOf
<1>5. /\ UNCHANGED <<sent, taken, delivered, memory, bufMap, held>>
      /\ socket' = [d \in Clients |-> IF socket[d] = r.fd THEN None ELSE socket[d]]
  BY <1>r DEF KernelCloses, bufferVars
<1>6. /\ cq' = Append(cq, [request |-> r, res |-> 1, more |-> FALSE])
      /\ kern' = RemoveAt(kern, i) /\ sq' = sq
  BY <1>r DEF KernelCloses, Answer, Skipped
<1>9. ASSUME NEW d \in Clients, socket[d] # None, socket[d] # r.fd PROVE Untouched(d)
  BY <1>5, <1>9, SameClient
<1>10. ASSUME NEW d \in Clients, program = "buffers", socket[d] = None, held[d] # None
       PROVE  socket'[d] = None /\ held'[d] # None
  BY <1>5, <1>10
<1>11. /\ Pending \ OfFd(r.fd) \subseteq Pending'
       /\ Spawned \ SpawnedOn(r.fd) \subseteq Spawned'
       /\ Ended \ OpenOn(r.fd) \subseteq Ended'
  BY <1>3, <1>9, <1>10, OthersKept
<1> DEFINE e == [request |-> r, res |-> 1, more |-> FALSE]
<1>12. e \in Ended'
  <2>1. e \in Cqes
    BY <1>1 DEF Cqes
  <2>2. program = "buffers" => r.task = c /\ c # None /\ socket'[c] = None /\ held'[c] # None
    BY <1>2, <1>4, <1>5, EchoAssumption DEF Serves, Holding
  <2>6. EndedOK(e)'
    BY <1>1, <1>3, <2>2 DEF EndedOK
  <2> QED BY <2>1, <2>6 DEF Ended
<1> HIDE DEF e
<1>13. cq' = Append(cq, e)
  BY <1>6 DEF e
<1> QED BY <1>r, <1>3, <1>6, <1>11, <1>12, <1>13, AnsweredQueues

LEMMA KernelFailsQueues ==
  ASSUME IInv, program # "link", NEW i \in DOMAIN kern, KernelFails(i)
  PROVE  QueuesOK'
<1> USE DEF IInv
<1>0. kern[i] \in Pending /\ Pending \subseteq Requests
  BY DEF QueuesOK, Pending
<1>r. PICK r \in Requests : r = kern[i]
  BY <1>0
<1>1. r \in Pending /\ r.op \in {"read", "write"}
  BY <1>0, <1>r DEF KernelFails
<1>2. PICK c \in Clients : socket[c] = r.fd /\ Serves(c, r)
  BY <1>1, PendingSocket
<1>3. r.fd \in Fds
  BY <1>1, PendingSocket
<1>5. /\ UNCHANGED <<clientVars, bufferVars, sq, operations>> /\ program' = program
      /\ cq' = Append(cq, [request |-> r, res |-> Failed, more |-> FALSE])
      /\ kern' = RemoveAt(kern, i)
  BY <1>r DEF KernelFails, serverVars
<1>9. ASSUME NEW d \in Clients, socket[d] # None, socket[d] # r.fd PROVE Untouched(d)
  BY <1>5, <1>9, SameClient DEF clientVars, bufferVars
<1>11. /\ Pending \ OfFd(r.fd) \subseteq Pending'
       /\ Spawned \ SpawnedOn(r.fd) \subseteq Spawned'
       /\ Ended \ OpenOn(r.fd) \subseteq Ended'
  BY <1>3, <1>5, <1>9, OthersKept DEF clientVars, bufferVars
<1> DEFINE e == [request |-> r, res |-> Failed, more |-> FALSE]
<1>12. e \in Ended'
  <2>1. e \in Cqes
    BY <1>1 DEF Cqes
  <2>2. Serves(c, r)'
    BY <1>2, <1>5 DEF Serves, clientVars
  <2>6. EndedOK(e)'
    BY <1>1, <2>2 DEF EndedOK
  <2> QED BY <2>1, <2>6 DEF Ended
<1> HIDE DEF e
<1>13. cq' = Append(cq, e)
  BY <1>5 DEF e
<1> QED BY <1>r, <1>3, <1>5, <1>11, <1>12, <1>13, AnsweredQueues

LEMMA KernelAcceptsQueues ==
  ASSUME IInv, program # "link", program' = program, UNCHANGED operations,
         NEW i \in DOMAIN kern, KernelAccepts(i)
  PROVE  QueuesOK'
<1> USE DEF IInv
<1>0. kern[i] \in Pending /\ Pending \subseteq Requests
  BY DEF QueuesOK, Pending
<1>r. PICK r \in Requests : r = kern[i]
  BY <1>0
<1>c. PICK c \in Clients : c = Head(backlog)
  BY DEF TypeOK, KernelAccepts
<1>2. PICK f \in Fds, more \in BOOLEAN :
        /\ \A d \in Clients : socket[d] # f
        /\ socket' = [socket EXCEPT ![c] = f]
        /\ Answer(i, [r EXCEPT !.fd = f, !.task = c], 1, more)
  <2>1. \A x : x \in (IF awaiter THEN BOOLEAN ELSE {FALSE}) => x \in BOOLEAN
    OBVIOUS
  <2> QED BY <1>r, <1>c, <2>1 DEF KernelAccepts
<1>5. UNCHANGED <<sent, taken, delivered, memory, bufMap, held>>
  BY DEF KernelAccepts, bufferVars
<1>b. r.op = "accept" /\ backlog # << >> /\ backlog \in Seq(Clients)
  BY <1>r DEF KernelAccepts, TypeOK
<1>t. socket \in [Clients -> Fds \cup {None}]
  BY DEF TypeOK
<1>3. socket[c] = None /\ held[c] = None /\ taken[c] = 0 /\ delivered[c] = << >>
  <2>1. 1 \in DOMAIN backlog /\ backlog[1] = c
    BY <1>b, <1>c
  <2> QED BY <2>1 DEF ClientsOK
<1>9. ASSUME NEW d \in Clients, socket[d] # None PROVE Untouched(d)
  <2>1. socket'[d] = socket[d]
    BY <1>2, <1>3, <1>9, <1>t
  <2> QED BY <1>5, <1>9, <2>1, SameClient
<1>10. ASSUME NEW d \in Clients, program = "buffers", socket[d] = None, held[d] # None
       PROVE  socket'[d] = None /\ held'[d] # None
  BY <1>2, <1>3, <1>5, <1>10, <1>t
<1>11. Pending \subseteq Pending' /\ Spawned \subseteq Spawned' /\ Ended \subseteq Ended'
  BY <1>9, <1>10, AllKept
<1> DEFINE a == [r EXCEPT !.fd = f, !.task = c]
           e == [request |-> a, res |-> 1, more |-> more]
<1>12. e \in Ended'
  <2>1. a \in Requests /\ a.op = "accept" /\ a.fd = f /\ a.task = c
    BY <1>b DEF Requests
  <2>2. e \in Cqes
    BY <2>1 DEF Cqes
  <2>3. f # None /\ c # None
    BY EchoAssumption
  <2>4. Idle(c)' /\ Empty(c)' /\ socket'[c] = f
    BY <1>2, <1>3, <1>5, <1>t DEF Idle, Empty
  <2> HIDE DEF a
  <2>5. EndedOK(e)'
    BY <2>1, <2>3, <2>4 DEF EndedOK
  <2> QED BY <2>2, <2>5 DEF Ended
<1>13. cq' = Append(cq, e) /\ sq' = sq /\ (kern' = kern \/ kern' = RemoveAt(kern, i))
  BY <1>2, <1>b DEF Answer, Skipped
<1> HIDE DEF e
<1>14. /\ sq \in Seq(Pending') /\ kern \in Seq(Pending')
       /\ cq \in Seq(Ended') /\ operations \in Seq(Spawned')
  BY <1>11, SeqWidens DEF QueuesOK
<1>15. Append(cq, e) \in Seq(Ended')
  BY <1>12, <1>14
<1>16. RemoveAt(kern, i) \in Seq(Pending')
  BY <1>14, RemoveAtProperties
<1> QED BY <1>13, <1>14, <1>15, <1>16 DEF QueuesOK

(* The cqe that a handler takes, and what it says of its client.           *)
LEMMA HandledCqe ==
  ASSUME TypeOK, QueuesOK, program # "link", NEW op, Handles(op)
  PROVE  /\ cq # << >> /\ Head(cq) \in Ended /\ Head(cq) \in Cqes
         /\ Head(cq).request.op = op /\ Head(cq).res # Failed
         /\ Tail(cq) \in Seq(Ended) /\ cq' = Tail(cq)
         /\ UNCHANGED <<program, clientVars>>
<1>1. cq # << >> /\ cq \in Seq(Ended) /\ Ended \subseteq Cqes
  BY DEF Handles, QueuesOK, Ended
<1>2. Head(cq) \in Ended /\ Tail(cq) \in Seq(Ended)
  BY <1>1
<1> QED BY <1>1, <1>2 DEF Handles

LEMMA OnAcceptQueues ==
  ASSUME IInv, program # "link", OnAccept
  PROVE  QueuesOK'
<1> USE DEF IInv
<1>1. /\ cq # << >> /\ Head(cq) \in Ended /\ Head(cq) \in Cqes
      /\ Head(cq).request.op = "accept"
      /\ Tail(cq) \in Seq(Ended) /\ cq' = Tail(cq)
      /\ UNCHANGED <<program, clientVars>>
  BY HandledCqe DEF OnAccept
<1>c. PICK cqe \in Cqes : cqe = Head(cq)
  BY <1>1
<1>r. PICK r \in Requests : r = cqe.request
  BY DEF Cqes
<1>k. PICK c \in Clients : c = r.task
  BY <1>1, <1>c, <1>r DEF Ended, EndedOK, Requests
<1>2. /\ r.fd \in Fds /\ r.fd # None /\ socket[c] = r.fd /\ Idle(c) /\ Empty(c)
  BY <1>1, <1>c, <1>r, <1>k DEF Ended, EndedOK, Requests
<1>3. UNCHANGED <<memory, held>>
  BY DEF OnAccept
<1>4. bufMap \subseteq bufMap' /\ (program = "echo" => r.fd \in bufMap')
  BY <1>c, <1>r DEF OnAccept, HandlerAccepts, ServerAccepts
<1>9. ASSUME NEW d \in Clients, socket[d] # None PROVE Untouched(d)
  BY <1>1, <1>3, <1>4, <1>9, SameClient DEF clientVars
<1>11. Pending \subseteq Pending' /\ Spawned \subseteq Spawned' /\ Ended \subseteq Ended'
  BY <1>1, <1>3, <1>9, AllKept DEF clientVars
<1>14. /\ sq \in Seq(Pending') /\ kern \in Seq(Pending')
       /\ Tail(cq) \in Seq(Ended') /\ operations \in Seq(Spawned')
  BY <1>1, <1>11, SeqWidens DEF QueuesOK
<1>5. AcceptRequest \in Pending'
  BY DEF Pending, PendingOK, AcceptRequest, Request, Requests
<1>6. socket'[c] = r.fd /\ Idle(c)' /\ Empty(c)'
  BY <1>1, <1>2, <1>3 DEF clientVars, Idle, Empty
<1>7. CASE program = "echo"
  <2> DEFINE a == Request("read", r.fd, None, 0)
  <2>1. a \in Requests /\ a.op = "read" /\ a.arg = 0 /\ a.fd = r.fd /\ a.task = None
    BY <1>2 DEF Request, Requests
  <2>2. Issue(<<a, AcceptRequest>>) /\ operations' = operations
    BY <1>7, <1>c, <1>r DEF OnAccept, HandlerAccepts
  <2> HIDE DEF a
  <2>3. Serves(c, a)' /\ Mapped(c)'
    BY <1>1, <1>2, <1>4, <1>6, <1>7, <2>1 DEF Serves, Mapped, clientVars
  <2>4. a \in Pending'
    BY <1>6, <2>1, <2>3 DEF Pending, PendingOK
  <2>5. <<a, AcceptRequest>> \in Seq(Pending')
    BY <1>5, <2>4
  <2>6. sq' \in Seq(Pending') /\ kern' \in Seq(Pending')
    BY <1>14, <2>2, <2>5, IssueSeq
  <2> QED BY <1>1, <1>14, <2>2, <2>6 DEF QueuesOK
<1>8. CASE program # "echo"
  <2> DEFINE rs == IF awaiter' THEN << >> ELSE <<AcceptRequest>>
             o == <<c, r.fd>>
  <2>1. operations' = Append(operations, o) /\ Issue(rs)
    BY <1>8, <1>c, <1>r, <1>k DEF OnAccept, ServerAccepts
  <2>2. rs \in Seq(Pending')
    BY <1>5
  <2>3. sq' \in Seq(Pending') /\ kern' \in Seq(Pending')
    BY <1>14, <2>1, <2>2, IssueSeq
  <2>4. o \in Clients \X Fds /\ o[1] = c /\ o[2] = r.fd
    BY <1>2
  <2> HIDE DEF o
  <2>5. PICK a : a = FirstRead(o)
    OBVIOUS
  <2>6. a.op = "read" /\ a.arg = 0 /\ a.fd = r.fd /\ a.task = c
    BY <2>4, <2>5 DEF FirstRead, Request
  <2>7. Serves(c, a)' /\ Mapped(c)'
    BY <1>1, <1>2, <1>6, <1>8, <2>6 DEF Serves, Mapped
  <2>8. PendingOK(a)'
    BY <1>6, <2>6, <2>7 DEF PendingOK
  <2>9. o \in Spawned'
    BY <2>4, <2>5, <2>8 DEF Spawned
  <2>10. operations' \in Seq(Spawned')
    BY <1>14, <2>1, <2>9
  <2> QED BY <1>1, <1>14, <2>3, <2>10 DEF QueuesOK
<1> QED BY <1>7, <1>8

\* The handler goes on with another request on the same descriptor.
Reissue(r, op, n) == [r EXCEPT !.op = op, !.arg = n]

(* It is a request, for the same client.                                   *)
LEMMA Reissued ==
  ASSUME NEW r \in Requests, NEW op \in {"read", "write", "close"}, NEW n \in 0 .. 1
  PROVE  LET a == Reissue(r, op, n) IN
         a \in Requests /\ a.op = op /\ a.arg = n /\ a.fd = r.fd /\ a.task = r.task
<1> DEFINE a == [r EXCEPT !.op = op, !.arg = n]
           b == [r EXCEPT !.op = op]
<1>1. b \in Requests /\ b.op = op /\ b.fd = r.fd /\ b.task = r.task
  BY DEF Requests
<1> HIDE DEF b
<1>2. [b EXCEPT !.arg = n] \in Requests /\ [b EXCEPT !.arg = n].arg = n
  BY <1>1 DEF Requests
<1>3. [b EXCEPT !.arg = n].op = op /\ [b EXCEPT !.arg = n].fd = r.fd /\ [b EXCEPT !.arg = n].task = r.task
  BY <1>1 DEF Requests
<1>4. a = [b EXCEPT !.arg = n]
  BY DEF b
<1> QED BY <1>2, <1>3, <1>4 DEF Reissue

LEMMA OnReadQueues ==
  ASSUME IInv, program # "link", OnRead
  PROVE  QueuesOK'
<1> USE DEF IInv
<1>1. /\ cq # << >> /\ Head(cq) \in Ended /\ Head(cq) \in Cqes
      /\ Head(cq).request.op = "read" /\ Head(cq).res # Failed
      /\ Tail(cq) \in Seq(Ended) /\ cq' = Tail(cq)
      /\ UNCHANGED <<program, clientVars>>
  BY HandledCqe DEF OnRead
<1>c. PICK cqe \in Cqes : cqe = Head(cq)
  BY <1>1
<1>r. PICK r \in Requests : r = cqe.request
  BY DEF Cqes
<1>2. PICK c \in Clients : Serves(c, r) /\ Holding(c) /\ Mapped(c) /\
         ((cqe.res = 0 /\ Idle(c)) \/ (cqe.res = 1 /\ Carrying(c)))
  <2>1. r.op = "read" /\ EndedOK(cqe) /\ cqe.res # Failed
    BY <1>1, <1>c, <1>r DEF Ended
  <2> QED BY <1>r, <2>1 DEF EndedOK
<1>3. UNCHANGED <<memory, held, bufMap, operations>>
  BY DEF OnRead, Rejoin, RejoinsAfter
<1>9. ASSUME NEW d \in Clients, socket[d] # None PROVE Untouched(d)
  BY <1>1, <1>3, <1>9, SameClient DEF clientVars
<1>11. Pending \subseteq Pending' /\ Spawned \subseteq Spawned' /\ Ended \subseteq Ended'
  BY <1>1, <1>3, <1>9, AllKept DEF clientVars
<1>14. /\ sq \in Seq(Pending') /\ kern \in Seq(Pending')
       /\ Tail(cq) \in Seq(Ended') /\ operations \in Seq(Spawned')
  BY <1>1, <1>11, SeqWidens DEF QueuesOK
<1>n. PICK n \in 0 .. 1 : n = cqe.res
  BY <1>2
<1> DEFINE a == Reissue(r, "write", n)
<1>4. a \in Requests /\ a.op = "write" /\ a.arg = n /\ a.fd = r.fd /\ a.task = r.task
  BY Reissued
<1>5. Issue(<<a>>)
  BY <1>c, <1>r, <1>n DEF OnRead, Reissue
<1> HIDE DEF a
<1>6. Untouched(c)
  BY <1>2, <1>9 DEF Serves
<1>7. /\ Serves(c, a)' /\ Holding(c)' /\ Mapped(c)'
      /\ (a.arg = 0 /\ Idle(c)') \/ (a.arg = 1 /\ Carrying(c)')
  BY <1>1, <1>2, <1>4, <1>6, <1>n DEF Untouched, Serves
<1>8. a \in Pending'
  BY <1>4, <1>7 DEF Pending, PendingOK
<1>10. <<a>> \in Seq(Pending')
  BY <1>8
<1>12. sq' \in Seq(Pending') /\ kern' \in Seq(Pending')
  BY <1>5, <1>10, <1>14, IssueSeq
<1> QED BY <1>1, <1>3, <1>12, <1>14 DEF QueuesOK

LEMMA OnWriteQueues ==
  ASSUME IInv, program # "link", OnWrite
  PROVE  QueuesOK'
<1> USE DEF IInv
<1>1. /\ cq # << >> /\ Head(cq) \in Ended /\ Head(cq) \in Cqes
      /\ Head(cq).request.op = "write" /\ Head(cq).res # Failed
      /\ Tail(cq) \in Seq(Ended) /\ cq' = Tail(cq)
      /\ UNCHANGED <<program, clientVars>>
  BY HandledCqe DEF OnWrite
<1>c. PICK cqe \in Cqes : cqe = Head(cq)
  BY <1>1
<1>r. PICK r \in Requests : r = cqe.request
  BY DEF Cqes
<1>2. PICK c \in Clients : Serves(c, r) /\ Holding(c) /\ Mapped(c) /\ Idle(c)
  <2>1. r.op = "write" /\ EndedOK(cqe) /\ cqe.res # Failed
    BY <1>1, <1>c, <1>r DEF Ended
  <2> QED BY <1>r, <2>1 DEF EndedOK
<1>3. UNCHANGED <<memory, operations>>
  BY DEF OnWrite
<1>p. PICK closing \in BOOLEAN : closing = Closing(cqe)
  <2>1. \A m \in Message : m.zz \in BOOLEAN
    BY DEF Message
  <2> QED BY DEF Closing
<1>t. held \in [Clients -> Bids \cup {None}]
  BY DEF TypeOK
<1>f. r.fd \in Fds /\ r.fd # None /\ socket[c] = r.fd
  BY <1>2 DEF Serves, Requests
<1>4. /\ bufMap' = IF closing THEN bufMap \ {r.fd} ELSE bufMap
      /\ IF program = "buffers" /\ ~closing THEN held' = [held EXCEPT ![c] = None] ELSE held' = held
  <2>1. /\ bufMap' = IF closing THEN bufMap \ {r.fd} ELSE bufMap
        /\ Rejoin("write", closing, r.task)
    BY <1>c, <1>r, <1>p DEF OnWrite, Erases
  <2>2. program = "buffers" => r.task = c
    BY <1>2 DEF Serves
  <2> QED BY <2>1, <2>2 DEF Rejoin, RejoinsAfter
<1>9. ASSUME NEW d \in Clients, socket[d] # None, socket[d] # r.fd PROVE Untouched(d)
  <2>1. d # c
    BY <1>9, <1>f
  <2>2. held'[d] = held[d]
    BY <1>4, <1>t, <2>1
  <2> QED BY <1>1, <1>3, <1>4, <1>9, <2>2, SameClient DEF clientVars
<1>10. ASSUME NEW d \in Clients, program = "buffers", socket[d] = None, held[d] # None
       PROVE  socket'[d] = None /\ held'[d] # None
  BY <1>1, <1>4, <1>10, <1>t, <1>f DEF clientVars
<1>11. /\ Pending \ OfFd(r.fd) \subseteq Pending'
       /\ Spawned \ SpawnedOn(r.fd) \subseteq Spawned'
       /\ Ended \ OpenOn(r.fd) \subseteq Ended'
  BY <1>1, <1>f, <1>9, <1>10, OthersKept
<1>12. Head(cq) \in OpenOn(r.fd)
  BY <1>1, <1>c, <1>r DEF OpenOn
<1>13. /\ sq \in Seq(Pending \ OfFd(r.fd)) /\ kern \in Seq(Pending \ OfFd(r.fd))
       /\ Tail(cq) \in Seq(Ended \ OpenOn(r.fd)) /\ operations \in Seq(Spawned \ SpawnedOn(r.fd))
  BY <1>1, <1>f, <1>12, OthersOfCq
<1>14. /\ sq \in Seq(Pending') /\ kern \in Seq(Pending')
       /\ Tail(cq) \in Seq(Ended') /\ operations \in Seq(Spawned')
  BY <1>11, <1>13, SeqWidens
<1>o. PICK op \in {"read", "write", "close"} : op = IF closing THEN "close" ELSE "read"
  OBVIOUS
<1>n. PICK n \in 0 .. 1 : n = 0
  OBVIOUS
<1> DEFINE a == Reissue(r, op, n)
<1>5. a \in Requests /\ a.op = op /\ a.arg = n /\ a.fd = r.fd /\ a.task = r.task
  BY Reissued
<1>6. Issue(<<a>>)
  BY <1>n, <1>c, <1>r, <1>p, <1>o DEF OnWrite, AfterWrite, Reissue
<1> HIDE DEF a
<1>7. Serves(c, a)' /\ Idle(c)'
  BY <1>1, <1>2, <1>5, <1>f DEF Serves, Idle, clientVars
<1>8. op = "close" => Holding(c)'
  BY <1>2, <1>4, <1>1, <1>o DEF Holding
<1>15. op = "read" => Empty(c)' /\ Mapped(c)'
  BY <1>1, <1>2, <1>4, <1>o, <1>t DEF Empty, Mapped, clientVars
<1>16. a \in Pending'
  BY <1>n, <1>o, <1>5, <1>7, <1>8, <1>15 DEF Pending, PendingOK
<1>17. <<a>> \in Seq(Pending')
  BY <1>16
<1>18. sq' \in Seq(Pending') /\ kern' \in Seq(Pending')
  BY <1>6, <1>14, <1>17, IssueSeq
<1> QED BY <1>1, <1>3, <1>14, <1>18 DEF QueuesOK

(* Only one cqe stands for the buffer that is given back.                  *)
LEMMA OnCloseQueues ==
  ASSUME IInv, program # "link", OnClose
  PROVE  QueuesOK'
<1> USE DEF IInv
<1>1. /\ cq # << >> /\ Head(cq) \in Ended /\ Head(cq) \in Cqes
      /\ Head(cq).request.op = "close" /\ Head(cq).res # Failed
      /\ Tail(cq) \in Seq(Ended) /\ cq' = Tail(cq)
      /\ UNCHANGED <<program, clientVars>>
  BY HandledCqe DEF OnClose
<1>c. PICK c : c = Head(cq).request.task
  OBVIOUS
<1>2. program = "buffers" => c \in Clients /\ socket[c] = None /\ held[c] # None
  BY <1>1, <1>c DEF Ended, EndedOK, Cqes, Requests
<1>3. /\ UNCHANGED <<memory, operations, sq, kern, bufMap>>
      /\ IF program = "buffers" THEN held' = [held EXCEPT ![c] = None] ELSE held' = held
  BY <1>c DEF OnClose, Rejoin, RejoinsAfter
<1>t. held \in [Clients -> Bids \cup {None}]
  BY DEF TypeOK
<1>9. ASSUME NEW d \in Clients, socket[d] # None PROVE Untouched(d)
  <2>1. program = "buffers" => d # c /\ held'[d] = held[d]
    BY <1>2, <1>3, <1>9, <1>t
  <2> QED BY <1>1, <1>3, <1>9, <2>1, SameClient DEF clientVars
<1>10. ASSUME NEW d \in Clients, program = "buffers", socket[d] = None, held[d] # None, d # c
       PROVE  socket'[d] = None /\ held'[d] # None
  BY <1>1, <1>3, <1>10, <1>t DEF clientVars
<1>4. CASE program = "buffers"
  <2>1. Tail(cq) \in Seq(Ended \ ClosedBy(c))
    <3>1. cq \in Seq(Ended)
      BY DEF QueuesOK
    <3>2. Head(cq) \in ClosedBy(c)
      BY <1>1, <1>c DEF ClosedBy
    <3>3. Count(cq, ClosedBy(c)) = Count(Tail(cq), ClosedBy(c)) + 1
      BY <1>1, <3>1, <3>2, CountTail
    <3>4. Count(cq, ClosedBy(c)) <= 1 /\ Count(Tail(cq), ClosedBy(c)) \in Nat
      BY <1>1, <1>2, <1>4, CountType DEF BuffersOK
    <3>5. Count(Tail(cq), ClosedBy(c)) = 0
      BY <3>3, <3>4
    <3> QED BY <1>1, <3>5, CountZero
  <2>2. \A r \in Pending : r \in Pending'
    <3> TAKE r \in Pending
    <3> QED BY <1>1, <1>9, KeptPending, r.fd \notin {}
  <2>3. \A o \in Spawned : o \in Spawned'
    <3> TAKE o \in Spawned
    <3> QED BY <1>1, <1>9, KeptSpawned, o[2] \notin {}
  <2>4. \A e \in Ended \ ClosedBy(c) : e \in Ended'
    <3> TAKE e \in Ended \ ClosedBy(c)
    <3>1. e \in Cqes
      BY DEF Ended
    <3>2. IF e.request.op = "close" THEN e.request.task \notin {c} ELSE e.request.fd \notin {}
      BY <3>1 DEF ClosedBy
    <3>3. \A d \in Clients : program = "buffers" /\ socket[d] = None /\ held[d] # None /\ d \notin {c}
                              => socket'[d] = None /\ held'[d] # None
      BY <1>10
    <3>4. \A d \in Clients : socket[d] # None /\ socket[d] \notin {} => Untouched(d)
      BY <1>9
    <3> QED BY <1>1, <3>2, <3>3, <3>4, KeptEnded
  <2>5. /\ sq \in Seq(Pending') /\ kern \in Seq(Pending')
        /\ Tail(cq) \in Seq(Ended') /\ operations \in Seq(Spawned')
    <3>1. Pending \subseteq Pending' /\ Spawned \subseteq Spawned' /\ Ended \ ClosedBy(c) \subseteq Ended'
      BY <2>2, <2>3, <2>4
    <3> QED BY <2>1, <3>1, SeqWidens DEF QueuesOK
  <2> QED BY <1>1, <1>3, <2>5 DEF QueuesOK
<1>5. CASE program # "buffers"
  <2>1. Pending \subseteq Pending' /\ Spawned \subseteq Spawned' /\ Ended \subseteq Ended'
    BY <1>1, <1>5, <1>9, AllKept
  <2>2. /\ sq \in Seq(Pending') /\ kern \in Seq(Pending')
        /\ Tail(cq) \in Seq(Ended') /\ operations \in Seq(Spawned')
    BY <1>1, <2>1, SeqWidens DEF QueuesOK
  <2> QED BY <1>1, <1>3, <2>2 DEF QueuesOK
<1> QED BY <1>4, <1>5

(* What is prepared before the first suspension.                           *)
LEMMA LaunchedReads ==
  ASSUME program # "link", NEW q \in Seq(Clients \X Fds)
  PROVE  LET rs == FlattenSeq([i \in DOMAIN q |-> Begins(q[i][1], q[i][2])]) IN
         /\ rs \in Seq(Requests) /\ Len(rs) = Len(q)
         /\ \A i \in DOMAIN q : rs[i] = FirstRead(q[i])
<1> DEFINE s == [i \in DOMAIN q |-> Begins(q[i][1], q[i][2])]
<1>1. \A i \in DOMAIN q : q[i][1] \in Clients /\ q[i][2] \in Fds /\ Begins(q[i][1], q[i][2]) = <<FirstRead(q[i])>>
  BY DEF Begins, FirstRead
<1>2. \A i \in DOMAIN q : FirstRead(q[i]) \in Requests
  BY <1>1 DEF FirstRead, Request, Requests
<1>3. s \in Seq(Seq(Requests)) /\ Len(s) = Len(q) /\ DOMAIN s = DOMAIN q
      /\ \A i \in DOMAIN s : s[i] = <<FirstRead(q[i])>>
  <2>1. DOMAIN q = 1 .. Len(q) /\ Len(q) \in Nat
    OBVIOUS
  <2>2. \A i \in DOMAIN q : s[i] = <<FirstRead(q[i])>>
    BY <1>1, Zenon
  <2>3. \A i \in DOMAIN q : <<FirstRead(q[i])>> \in Seq(Requests)
    BY <1>2
  <2>4. s \in [1 .. Len(q) -> Seq(Requests)]
    BY <2>1, <2>2, <2>3
  <2> HIDE DEF s
  <2>5. DOMAIN s = DOMAIN q
    BY <2>1, <2>4
  <2>6. s \in Seq(Seq(Requests)) /\ Len(s) = Len(q)
    BY <2>1, <2>4
  <2> QED BY <2>2, <2>5, <2>6, Zenon
<1> HIDE DEF s
<1>4. ASSUME NEW i \in DOMAIN s PROVE Len(s[i]) = 1 /\ s[i][1] = FirstRead(q[i])
  <2>1. s[i] = <<FirstRead(q[i])>>
    BY <1>3
  <2> QED BY <2>1
<1>5. /\ FlattenSeq(s) \in Seq(Requests) /\ Len(FlattenSeq(s)) = Len(s)
      /\ \A i \in DOMAIN s : FlattenSeq(s)[i] = s[i][1]
  BY <1>3, <1>4, FlattenOfSingles
<1> QED BY <1>3, <1>4, <1>5 DEF s

LEMMA LaunchQueues ==
  ASSUME IInv, program # "link", Launch
  PROVE  QueuesOK'
<1> USE DEF IInv
<1>1. UNCHANGED <<program, clientVars, bufferVars, cq>> /\ sq' = << >> /\ operations' = << >>
  BY DEF Launch
<1>9. ASSUME NEW d \in Clients, socket[d] # None PROVE Untouched(d)
  BY <1>1, <1>9, SameClient DEF clientVars, bufferVars
<1>11. Pending \subseteq Pending' /\ Spawned \subseteq Spawned' /\ Ended \subseteq Ended'
  BY <1>1, <1>9, AllKept DEF clientVars, bufferVars
<1>14. sq \in Seq(Pending') /\ kern \in Seq(Pending') /\ cq \in Seq(Ended')
  BY <1>11, SeqWidens DEF QueuesOK
<1> DEFINE rs == FlattenSeq([i \in DOMAIN operations |-> Begins(operations[i][1], operations[i][2])])
<1>2. /\ rs \in Seq(Requests) /\ Len(rs) = Len(operations)
      /\ \A i \in DOMAIN operations : rs[i] = FirstRead(operations[i])
  BY LaunchedReads DEF TypeOK
<1>3. kern' = kern \o sq \o rs
  BY DEF Launch
<1> HIDE DEF rs
<1>4. \A i \in DOMAIN rs : rs[i] \in Pending'
  <2> SUFFICES ASSUME NEW i \in DOMAIN rs PROVE rs[i] \in Pending'
    OBVIOUS
  <2>1. i \in DOMAIN operations /\ rs[i] = FirstRead(operations[i]) /\ rs[i] \in Requests
    <3>1. DOMAIN rs = 1 .. Len(rs) /\ DOMAIN operations = 1 .. Len(operations)
      BY <1>2 DEF TypeOK
    <3>2. rs[i] \in Requests
      BY <1>2
    <3> QED BY <1>2, <3>1, <3>2
  <2>2. operations[i] \in Spawned
    BY <2>1 DEF QueuesOK
  <2>3. rs[i] \in Pending
    BY <2>1, <2>2 DEF Spawned, Pending
  <2> QED BY <1>11, <2>3
<1>5. rs \in Seq(Pending')
  BY <1>2, <1>4
<1>6. kern \o sq \in Seq(Pending')
  BY <1>14, ConcatProperties
<1>7. kern \o sq \o rs \in Seq(Pending')
  BY <1>5, <1>6, ConcatProperties
<1> QED BY <1>1, <1>3, <1>7, <1>14 DEF QueuesOK

(* What a client does, and a pass that ends, leave the requests alone.     *)
LEMMA QuietQueues ==
  ASSUME IInv, program # "link", UNCHANGED <<program, ringVars, operations, bufferVars>>,
         UNCHANGED <<socket, taken, delivered>>,
         \A d \in Clients : sent'[d] = sent[d] \/ \E m \in Message : sent'[d] = Append(sent[d], m)
  PROVE  QueuesOK'
<1> USE DEF IInv
<1>t. /\ sent \in [Clients -> Seq(Message)] /\ taken \in [Clients -> 0 .. MaxMessages]
      /\ \A d \in Clients : taken[d] <= Len(sent[d])
      /\ delivered \in [Clients -> Seq(Message \cup {Word(1), Word(2)})]
  BY DEF TypeOK
<1>9. ASSUME NEW d \in Clients, socket[d] # None PROVE Untouched(d)
  <2>1. CASE taken[d] # 0
    <3> DEFINE q == sent[d]
               n == taken[d]
    <3>1. q \in Seq(Message) /\ n \in 1 .. Len(q)
      BY <1>t, <2>1
    <3> HIDE DEF q, n
    <3>2. \A m \in Message : Append(q, m)[n] = q[n]
      BY <3>1
    <3>3. sent'[d][n] = sent[d][n]
      BY <3>2 DEF q
    <3> QED BY <1>9, <3>3, SameClient DEF bufferVars, n
  <2>2. CASE taken[d] = 0
    <3>1. ~Carrying(d)
      <4>1. Len(delivered[d]) \in Nat
        BY <1>t
      <4> QED BY <2>2, <4>1 DEF Carrying
    <3> QED BY <3>1 DEF Untouched, Idle, Empty, Holding, Mapped, bufferVars
  <2> QED BY <2>1, <2>2
<1>11. Pending \subseteq Pending' /\ Spawned \subseteq Spawned' /\ Ended \subseteq Ended'
  BY <1>9, AllKept DEF bufferVars
<1>14. /\ sq \in Seq(Pending') /\ kern \in Seq(Pending')
       /\ cq \in Seq(Ended') /\ operations \in Seq(Spawned')
  BY <1>11, SeqWidens DEF QueuesOK
<1> QED BY <1>14 DEF QueuesOK, ringVars

LEMMA NextQueues ==
  ASSUME IInv, [Next]_vars
  PROVE  QueuesOK'
<1> USE DEF IInv
<1>p. program' = program
  BY DEF Next, vars, Connect, Send, HangUp, KernelDoes, KernelFails, Server, OnAccept, OnRead,
         OnWrite, OnClose, Handles, OnFailure, OnBrokenChain, Launch, PassEnd
<1> SUFFICES ASSUME program # "link" PROVE QueuesOK'
  BY <1>p DEF QueuesOK
<1>1. ASSUME NEW c \in Clients, Connect(c) PROVE QueuesOK'
  BY <1>1, QuietQueues DEF Connect, serverVars
<1>2. ASSUME NEW c \in Clients, Send(c) PROVE QueuesOK'
  <2>1. sent \in [Clients -> Seq(Message)] /\ Len(sent[c]) < MaxMessages
    BY <1>2 DEF TypeOK, Send
  <2>2. PICK zz \in BOOLEAN : sent' = [sent EXCEPT ![c] = Append(@, [from |-> c, nr |-> Len(@) + 1, zz |-> zz])]
    BY <1>2 DEF Send
  <2>3. [from |-> c, nr |-> Len(sent[c]) + 1, zz |-> zz] \in Message
    BY <2>1, EchoAssumption DEF Message
  <2>4. \A d \in Clients : sent'[d] = sent[d] \/ \E m \in Message : sent'[d] = Append(sent[d], m)
    BY <2>1, <2>2, <2>3
  <2> QED BY <1>2, <2>4, QuietQueues DEF Send, serverVars
<1>3. ASSUME NEW c \in Clients, HangUp(c) PROVE QueuesOK'
  BY <1>3, QuietQueues DEF HangUp, serverVars
<1>4. ASSUME KernelDoes PROVE QueuesOK'
  <2>1. UNCHANGED operations
    BY <1>4 DEF KernelDoes, serverVars
  <2>2. PICK i \in DOMAIN kern :
          KernelAccepts(i) \/ KernelReads(i) \/ KernelWrites(i) \/ KernelCloses(i)
    BY <1>4 DEF KernelDoes
  <2> QED BY <1>p, <2>1, <2>2, KernelAcceptsQueues, KernelReadsQueues, KernelWritesQueues,
             KernelClosesQueues
<1>5. ASSUME NEW i \in DOMAIN kern, KernelFails(i) PROVE QueuesOK'
  BY <1>5, KernelFailsQueues
<1>6. ASSUME OnFailure \/ OnBrokenChain \/ PassEnd \/ UNCHANGED vars PROVE QueuesOK'
  BY <1>6, QuietQueues DEF OnFailure, OnBrokenChain, PassEnd, vars, serverVars, clientVars
<1>7. ASSUME OnAccept \/ OnRead \/ OnWrite \/ OnClose \/ Launch PROVE QueuesOK'
  BY <1>7, OnAcceptQueues, OnReadQueues, OnWriteQueues, OnCloseQueues, LaunchQueues
<1> QED BY <1>1, <1>2, <1>3, <1>4, <1>5, <1>6, <1>7 DEF Next, Server

-----------------------------------------------------------------------------
(* echo.cpp spawns nothing and submits at once.                            *)
LEMMA NextPhase ==
  ASSUME IInv, [Next]_vars
  PROVE  PhaseOK'
<1> SUFFICES ASSUME program' = "echo" PROVE PhaseOK'
  BY DEF PhaseOK
<1>p. program = "echo" /\ phase = "reap" /\ sq = << >> /\ operations = << >>
  BY DEF Next, vars, Connect, Send, HangUp, KernelDoes, KernelFails, Server, OnAccept, OnRead,
         OnWrite, OnClose, Handles, OnFailure, OnBrokenChain, Launch, PassEnd, IInv, PhaseOK
<1>1. CASE KernelDoes
  BY <1>p, <1>1 DEF KernelDoes, KernelAccepts, KernelReads, ReadFrom, KernelWrites, KernelCloses,
                   Answer, serverVars, PhaseOK
<1>2. CASE UNCHANGED vars \/ \E c \in Clients : Connect(c) \/ Send(c) \/ HangUp(c)
  BY <1>p, <1>2 DEF vars, Connect, Send, HangUp, ringVars, serverVars, PhaseOK
<1>3. CASE \E i \in DOMAIN kern : KernelFails(i)
  BY <1>p, <1>3 DEF KernelFails, serverVars, PhaseOK
<1>4. CASE OnAccept \/ OnRead \/ OnWrite \/ OnClose
  BY <1>p, <1>4 DEF OnAccept, HandlerAccepts, OnRead, OnWrite, OnClose, Handles, Issue, PhaseOK
<1>5. CASE OnFailure \/ OnBrokenChain \/ Launch \/ PassEnd
  BY <1>p, <1>5 DEF OnFailure, OnBrokenChain, Launch, PassEnd, ringVars, serverVars, PhaseOK
<1> QED BY <1>1, <1>2, <1>3, <1>4, <1>5 DEF Next, Server

-----------------------------------------------------------------------------
(* A request in the kernel, of whatever program.                           *)
LEMMA KernelsRequest ==
  ASSUME IInv, NEW i \in DOMAIN kern, kern[i].op # "accept"
  PROVE  /\ kern[i] \in Requests /\ kern[i].fd \in Fds /\ kern[i].fd # None
         /\ program = "link" => kern[i] \in LinkPending /\ kern[i].op # "read"
         /\ program # "link" => kern[i] \in Pending
         /\ program = "buffers" => \A c \in Clients : socket[c] = kern[i].fd => kern[i].task = c
<1> USE DEF IInv
<1>r. PICK r \in Requests : r = kern[i]
  BY DEF TypeOK
<1>1. CASE program = "link"
  <2>1. r \in LinkPending /\ r # AcceptRequest
    BY <1>1, <1>r DEF LinkOK, AcceptRequest, Request
  <2>2. r.fd \in Fds /\ r.op # "read" /\ r.fd # None
    BY <2>1, EchoAssumption DEF LinkPending
  <2> QED BY <1>1, <1>r, <2>1, <2>2
<1>2. CASE program # "link"
  <2>1. r \in Pending
    BY <1>2, <1>r DEF QueuesOK
  <2>2. r.fd \in Fds /\ \A c \in Clients : socket[c] = r.fd => Serves(c, r)
    BY <1>r, <2>1, PendingSocket
  <2>3. program = "buffers" => \A c \in Clients : socket[c] = r.fd => r.task = c
    BY <2>2 DEF Serves
  <2> QED BY <1>2, <1>r, <2>1, <2>2, <2>3, EchoAssumption
<1> QED BY <1>1, <1>2

LEMMA NextClients ==
  ASSUME IInv, [Next]_vars
  PROVE  ClientsOK'
<1> USE DEF IInv
<1>t. /\ backlog \in Seq(Clients) /\ accepted \in Seq(Clients)
      /\ socket \in [Clients -> Fds \cup {None}]
      /\ taken \in [Clients -> 0 .. MaxMessages] /\ held \in [Clients -> Bids \cup {None}]
      /\ sent \in [Clients -> Seq(Message)]
      /\ delivered \in [Clients -> Seq(Message \cup {Word(1), Word(2)})]
  BY DEF TypeOK
<1>c. /\ \A c, d \in Clients : socket[c] = socket[d] /\ socket[c] # None => c = d
      /\ \A i, j \in DOMAIN backlog : backlog[i] = backlog[j] => i = j
      /\ \A i \in DOMAIN backlog : backlog[i] \notin Range(accepted)
      /\ \A c \in Clients \ Range(accepted) :
           socket[c] = None /\ held[c] = None /\ taken[c] = 0 /\ delivered[c] = << >>
      /\ \A c \in Clients : Len(sent[c]) <= MaxMessages
  BY DEF ClientsOK
<1>1. ASSUME NEW c \in Clients, Connect(c) PROVE ClientsOK'
  <2>1. /\ backlog' = Append(backlog, c) /\ c \notin Range(backlog) /\ c \notin Range(accepted)
        /\ UNCHANGED <<accepted, socket, held, taken, delivered, sent>>
    BY <1>1 DEF Connect, bufferVars
  <2>2. /\ DOMAIN backlog' = 1 .. Len(backlog) + 1 /\ DOMAIN backlog = 1 .. Len(backlog)
        /\ \A i \in 1 .. Len(backlog) : backlog'[i] = backlog[i] /\ backlog[i] # c
        /\ backlog'[Len(backlog) + 1] = c /\ Len(backlog) \in Nat
    BY <1>t, <2>1 DEF Range
  <2>3. \A i, j \in DOMAIN backlog' : backlog'[i] = backlog'[j] => i = j
    BY <1>c, <2>2
  <2>4. \A i \in DOMAIN backlog' : backlog'[i] \notin Range(accepted)
    BY <1>c, <2>1, <2>2
  <2> QED BY <1>c, <2>1, <2>3, <2>4 DEF ClientsOK
<1>2. ASSUME NEW c \in Clients, Send(c) PROVE ClientsOK'
  <2>1. UNCHANGED <<backlog, accepted, socket, held, taken, delivered>> /\ Len(sent[c]) < MaxMessages
    BY <1>2 DEF Send, bufferVars
  <2>2. PICK m : sent' = [sent EXCEPT ![c] = Append(@, m)]
    BY <1>2 DEF Send
  <2>3. \A d \in Clients : Len(sent'[d]) <= MaxMessages
    <3>1. Len(Append(sent[c], m)) = Len(sent[c]) + 1 /\ Len(sent[c]) \in Nat
      <4>1. sent[c] \in Seq(Message \cup {m})
        BY <1>t
      <4> QED BY <4>1
    <3>2. Len(Append(sent[c], m)) <= MaxMessages
      BY <2>1, <3>1, EchoAssumption
    <3> QED BY <1>c, <1>t, <2>2, <3>2
  <2> QED BY <1>c, <2>1, <2>3 DEF ClientsOK
<1>3. ASSUME NEW c \in Clients, HangUp(c) PROVE ClientsOK'
  BY <1>c, <1>3 DEF HangUp, bufferVars, ClientsOK
<1>4. ASSUME NEW i \in DOMAIN kern, KernelAccepts(i) PROVE ClientsOK'
  <2>1. backlog # << >> /\ backlog' = Tail(backlog) /\ UNCHANGED <<sent, taken, delivered, held>>
    BY <1>4 DEF KernelAccepts, bufferVars
  <2>2. PICK c \in Clients : c = Head(backlog) /\ c = backlog[1] /\ 1 \in DOMAIN backlog
    BY <1>t, <2>1
  <2>3. PICK f \in Fds : /\ \A d \in Clients : socket[d] # f
                         /\ socket' = [socket EXCEPT ![c] = f]
    BY <1>4, <2>2 DEF KernelAccepts
  <2>4. accepted' = Append(accepted, c)
    BY <1>4, <2>2 DEF KernelAccepts
  <2>5. Range(accepted') = Range(accepted) \cup {c}
    <3>1. /\ DOMAIN accepted' = 1 .. Len(accepted) + 1 /\ DOMAIN accepted = 1 .. Len(accepted)
          /\ \A k \in 1 .. Len(accepted) : accepted'[k] = accepted[k]
          /\ accepted'[Len(accepted) + 1] = c /\ Len(accepted) \in Nat
      BY <1>t, <2>4
    <3>2. \A k : k \in 1 .. Len(accepted) + 1 <=> k \in 1 .. Len(accepted) \/ k = Len(accepted) + 1
      BY <3>1
    <3>3. \A x : x \in Range(accepted') <=> x \in Range(accepted) \cup {c}
      BY <3>1, <3>2 DEF Range
    <3> QED BY <3>3
  <2>6. /\ \A k \in DOMAIN backlog' : backlog'[k] = backlog[k + 1] /\ k + 1 \in DOMAIN backlog /\ k + 1 # 1
        /\ DOMAIN backlog' \subseteq Nat
    <3>1. /\ DOMAIN Tail(backlog) = 1 .. Len(backlog) - 1 /\ DOMAIN backlog = 1 .. Len(backlog)
          /\ Len(backlog) \in Nat
          /\ \A k \in 1 .. Len(backlog) - 1 : Tail(backlog)[k] = backlog[k + 1]
      BY <1>t, <2>1
    <3> QED BY <2>1, <3>1
  <2>7. \A k, j \in DOMAIN backlog' : backlog'[k] = backlog'[j] => k = j
    BY <1>c, <2>6
  <2>8. \A k \in DOMAIN backlog' : backlog'[k] \notin Range(accepted')
    BY <1>c, <2>2, <2>5, <2>6
  <2>9. \A b, d \in Clients : socket'[b] = socket'[d] /\ socket'[b] # None => b = d
    BY <1>c, <1>t, <2>3
  <2>10. \A d \in Clients \ Range(accepted') : socket'[d] = socket[d] /\ d \notin Range(accepted)
    BY <1>t, <2>3, <2>5
  <2> QED BY <1>c, <2>1, <2>7, <2>8, <2>9, <2>10 DEF ClientsOK
<1>5. ASSUME NEW i \in DOMAIN kern, KernelReads(i) PROVE ClientsOK'
  <2>1. PICK c \in Clients : socket[c] = kern[i].fd /\ ReadFrom(c, kern[i], i)
    BY <1>5 DEF KernelReads
  <2>2. UNCHANGED <<backlog, accepted, socket, sent, delivered>>
    BY <1>5 DEF KernelReads
  <2>3. kern[i].fd # None /\ (program = "buffers" => kern[i].task = c)
    BY <1>5, <2>1, KernelsRequest DEF KernelReads
  <2>4. c \in Range(accepted)
    BY <1>c, <2>1, <2>3
  <2>5. \A d \in Clients : d # c => taken'[d] = taken[d] /\ held'[d] = held[d]
    BY <1>t, <2>1, <2>3 DEF ReadFrom, SelectBuffer
  <2> QED BY <1>c, <2>2, <2>4, <2>5 DEF ClientsOK
<1>6. ASSUME NEW i \in DOMAIN kern, KernelWrites(i) PROVE ClientsOK'
  <2>1. UNCHANGED <<backlog, accepted, socket, sent, taken, held>>
    BY <1>6 DEF KernelWrites, bufferVars
  <2>2. PICK c \in Clients : /\ socket[c] = kern[i].fd
                            /\ \A d \in Clients : d # c => delivered'[d] = delivered[d]
    BY <1>6, <1>t DEF KernelWrites
  <2>3. kern[i].fd # None
    BY <1>6, KernelsRequest DEF KernelWrites
  <2>4. c \in Range(accepted)
    BY <1>c, <2>2, <2>3
  <2> QED BY <1>c, <2>1, <2>2, <2>4 DEF ClientsOK
<1>7. ASSUME NEW i \in DOMAIN kern, KernelCloses(i) PROVE ClientsOK'
  <2>1. UNCHANGED <<backlog, accepted, sent, taken, delivered, held>>
    BY <1>7 DEF KernelCloses, bufferVars
  <2>2. \A d \in Clients : socket'[d] = socket[d] \/ socket'[d] = None
    BY <1>7, <1>t DEF KernelCloses
  <2> QED BY <1>c, <2>1, <2>2 DEF ClientsOK
<1>8. ASSUME UNCHANGED <<backlog, accepted, socket, sent, taken, delivered>>,
             \A d \in Clients : held'[d] = held[d] \/ held'[d] = None
      PROVE  ClientsOK'
  BY <1>c, <1>8 DEF ClientsOK
<1>9. ASSUME NEW i \in DOMAIN kern, KernelFails(i) PROVE ClientsOK'
  BY <1>8, <1>9 DEF KernelFails, clientVars, bufferVars
<1>10. ASSUME OnAccept \/ Launch \/ PassEnd \/ OnFailure \/ OnBrokenChain \/ UNCHANGED vars PROVE ClientsOK'
  BY <1>8, <1>10 DEF OnAccept, Handles, Launch, PassEnd, OnFailure, OnBrokenChain, vars, clientVars, bufferVars
<1>11. ASSUME OnRead \/ OnWrite \/ OnClose PROVE ClientsOK'
  <2>1. UNCHANGED clientVars
    BY <1>11 DEF OnRead, OnWrite, OnClose, Handles
  <2>2. ASSUME NEW op \in {"read", "write", "close"}, NEW closing, NEW c, Rejoin(op, closing, c),
               op # "read"
        PROVE  \A d \in Clients : held'[d] = held[d] \/ held'[d] = None
    BY <1>t, <2>2 DEF Rejoin
  <2>3. ASSUME OnRead PROVE held' = held
    BY <2>3 DEF OnRead, Rejoin, RejoinsAfter
  <2>4. ASSUME OnWrite PROVE \A d \in Clients : held'[d] = held[d] \/ held'[d] = None
    BY <2>2, <2>4 DEF OnWrite
  <2>5. ASSUME OnClose PROVE \A d \in Clients : held'[d] = held[d] \/ held'[d] = None
    BY <2>2, <2>5 DEF OnClose
  <2> QED BY <1>8, <1>11, <2>1, <2>3, <2>4, <2>5 DEF clientVars
<1> QED BY <1>1, <1>2, <1>3, <1>4, <1>5, <1>6, <1>7, <1>9, <1>10, <1>11 DEF Next, KernelDoes, Server

-----------------------------------------------------------------------------
(* What a queue counts, counted by parts.                                  *)
LEMMA CountsOf ==
  ASSUME TypeOK, NEW f
  PROVE  /\ Count(sq, OfFd(f)) \in Nat /\ Count(kern, OfFd(f)) \in Nat
         /\ Count(cq, OpenOn(f)) \in Nat /\ Count(operations, SpawnedOn(f)) \in Nat
BY CountType DEF TypeOK

(* The kernel's answer takes the place of the request, but that of a close. *)
LEMMA AnsweredHandlers ==
  ASSUME TypeOK, NEW i \in DOMAIN kern, NEW r \in Requests, kern[i] = r, NEW e \in Cqes, e.request = r,
         kern' = RemoveAt(kern, i), cq' = Append(cq, e), UNCHANGED <<sq, operations>>, NEW f \in Fds
  PROVE  Handlers(f)' = Handlers(f) - IF r.fd = f /\ r.op = "close" THEN 1 ELSE 0
<1> DEFINE s == Count(sq, OfFd(f))
           k == Count(kern, OfFd(f))
           c == Count(cq, OpenOn(f))
           o == Count(operations, SpawnedOn(f))
           a == Count(kern', OfFd(f))
           b == Count(cq', OpenOn(f))
<1>1. k = a + IF r.fd = f THEN 1 ELSE 0
  <2>1. kern \in Seq(Requests) /\ i \in 1 .. Len(kern)
    BY DEF TypeOK
  <2>2. r \in OfFd(f) <=> r.fd = f
    BY DEF OfFd
  <2> QED BY <2>1, <2>2, CountRemoveAt
<1>2. b = c + IF r.fd = f /\ r.op # "close" THEN 1 ELSE 0
  <2>1. cq \in Seq(Cqes)
    BY DEF TypeOK
  <2>2. e \in OpenOn(f) <=> r.fd = f /\ r.op # "close"
    BY DEF OpenOn
  <2> QED BY <2>1, <2>2, CountAppend
<1>3. s \in Nat /\ k \in Nat /\ c \in Nat /\ o \in Nat
  BY CountsOf
<1>4. a \in Nat
  <2>1. kern' \in Seq(Requests)
    BY RemoveAtProperties DEF TypeOK
  <2> QED BY <2>1, CountType
<1>5. Handlers(f) = s + k + c + o /\ Handlers(f)' = s + a + b + o
  BY DEF Handlers
<1> HIDE DEF s, k, c, o, a, b
<1> QED BY <1>1, <1>2, <1>3, <1>4, <1>5

(* A handler's cqe is followed by its next requests.                       *)
LEMMA HandledHandlers ==
  ASSUME TypeOK, cq # << >>, cq' = Tail(cq), NEW rs \in Seq(Requests), Issue(rs),
         operations' \in Seq(Clients \X Fds), NEW f \in Fds
  PROVE  /\ Handlers(f)' + (IF Head(cq) \in OpenOn(f) THEN 1 ELSE 0) + Count(operations, SpawnedOn(f))
              = Handlers(f) + Count(rs, OfFd(f)) + Count(operations', SpawnedOn(f))
         /\ Handlers(f) \in Nat /\ Handlers(f)' \in Nat
<1> DEFINE s == Count(sq, OfFd(f))
           k == Count(kern, OfFd(f))
           c == Count(cq, OpenOn(f))
           o == Count(operations, SpawnedOn(f))
           a == Count(sq', OfFd(f))
           b == Count(kern', OfFd(f))
           d == Count(cq', OpenOn(f))
           p == Count(operations', SpawnedOn(f))
           n == Count(rs, OfFd(f))
<1>1. a + b = s + k + n /\ a \in Nat /\ b \in Nat
  BY IssueCount DEF TypeOK
<1>h. PICK h \in 0 .. 1 : h = IF Head(cq) \in OpenOn(f) THEN 1 ELSE 0
  OBVIOUS
<1>2. c = d + (IF Head(cq) \in OpenOn(f) THEN 1 ELSE 0)
  BY CountTail DEF TypeOK
<1>3. s \in Nat /\ k \in Nat /\ c \in Nat /\ o \in Nat
  BY CountsOf
<1>4. d \in Nat /\ p \in Nat /\ n \in Nat
  <2>1. cq' \in Seq(Cqes)
    BY DEF TypeOK
  <2> QED BY <2>1, CountType
<1>5. Handlers(f) = s + k + c + o /\ Handlers(f)' = a + b + d + p
  BY DEF Handlers
<1> HIDE DEF s, k, c, o, a, b, d, p, n
<1>6. a + b + d + p + h + o = s + k + c + o + n + p
  BY <1>1, <1>2, <1>3, <1>4, <1>h
<1>7. a + b + d + p \in Nat /\ s + k + c + o \in Nat
  BY <1>1, <1>3, <1>4
<1> QED BY <1>5, <1>6, <1>7, <1>h DEF o, n, p

(* Each of the kernel's steps is for one kind of request.                  *)
LEMMA KernelsKind ==
  ASSUME NEW i
  PROVE  /\ KernelAccepts(i) => kern[i].op = "accept"
         /\ KernelReads(i) => kern[i].op = "read"
         /\ KernelWrites(i) => kern[i].op = "write"
         /\ KernelCloses(i) => kern[i].op = "close"
BY DEF KernelAccepts, KernelReads, KernelWrites, KernelCloses

LEMMA KernelDoesHandlers ==
  ASSUME IInv, program # "link", program' = program, UNCHANGED operations,
         NEW i \in DOMAIN kern,
         KernelAccepts(i) \/ KernelReads(i) \/ KernelWrites(i) \/ KernelCloses(i)
  PROVE  HandlersOK'
<1> USE DEF IInv
<1> SUFFICES ASSUME NEW f \in Fds
             PROVE  Handlers(f)' = IF \E c \in Clients : socket'[c] = f THEN 1 ELSE 0
  BY DEF HandlersOK
<1>0. Handlers(f) = IF \E c \in Clients : socket[c] = f THEN 1 ELSE 0
  BY DEF HandlersOK
<1>r. PICK r \in Requests : r = kern[i]
  BY DEF TypeOK
<1>n. f # None
  BY EchoAssumption
<1>t. socket \in [Clients -> Fds \cup {None}]
  BY DEF TypeOK
<1>1. CASE r.op \in {"read", "write"}
  <2>0. KernelReads(i) \/ KernelWrites(i)
    BY <1>1, <1>r, KernelsKind
  <2>1. socket' = socket /\ ~Skipped(r)
    BY <2>0 DEF KernelReads, KernelWrites, Skipped
  <2>2. PICK res \in {0, 1} : Answer(i, r, res, FALSE)
    <3>1. KernelReads(i) => \E res \in {0, 1} : Answer(i, r, res, FALSE)
      BY <1>r DEF KernelReads, ReadFrom
    <3>2. KernelWrites(i) => \E res \in {0, 1} : Answer(i, r, res, FALSE)
      <4>1. (IF r.arg = 0 THEN 0 ELSE 1) \in {0, 1}
        OBVIOUS
      <4> QED BY <1>r, <4>1 DEF KernelWrites
    <3> QED BY <2>0, <3>1, <3>2
  <2>c. [request |-> r, res |-> res, more |-> FALSE] \in Cqes
    BY DEF Cqes
  <2>3. PICK e \in Cqes : e = [request |-> r, res |-> res, more |-> FALSE] /\ e.request = r
    BY <2>c
  <2>4. cq' = Append(cq, e) /\ kern' = RemoveAt(kern, i) /\ sq' = sq
    BY <2>1, <2>2, <2>3 DEF Answer
  <2>5. Handlers(f)' = Handlers(f) - IF r.fd = f /\ r.op = "close" THEN 1 ELSE 0
    BY <1>r, <2>3, <2>4, AnsweredHandlers
  <2> QED BY <1>0, <1>1, <2>1, <2>5
<1>2. CASE r.op = "close"
  <2>0. KernelCloses(i)
    BY <1>2, <1>r, KernelsKind
  <2>1. socket' = [d \in Clients |-> IF socket[d] = r.fd THEN None ELSE socket[d]]
    BY <1>r, <2>0 DEF KernelCloses
  <2>2. Answer(i, r, 1, FALSE) /\ ~Skipped(r)
    BY <1>r, <2>0 DEF KernelCloses, Skipped
  <2>c. [request |-> r, res |-> 1, more |-> FALSE] \in Cqes
    BY DEF Cqes
  <2>3. PICK e \in Cqes : e = [request |-> r, res |-> 1, more |-> FALSE] /\ e.request = r
    BY <2>c
  <2>4. cq' = Append(cq, e) /\ kern' = RemoveAt(kern, i) /\ sq' = sq
    BY <2>2, <2>3 DEF Answer
  <2>5. Handlers(f)' = Handlers(f) - IF r.fd = f /\ r.op = "close" THEN 1 ELSE 0
    BY <1>r, <2>3, <2>4, AnsweredHandlers
  <2>6. r \in Pending
    BY <1>r DEF QueuesOK
  <2>7. \E c \in Clients : socket[c] = r.fd
    BY <1>2, <2>6, PendingSocket
  <2>8. CASE r.fd = f
    <3>1. ~ \E c \in Clients : socket'[c] = f
      BY <1>n, <2>1, <2>8
    <3> QED BY <1>0, <1>2, <2>5, <2>7, <2>8, <3>1
  <2>9. CASE r.fd # f
    <3>1. \A c \in Clients : socket'[c] = f <=> socket[c] = f
      BY <1>n, <2>1, <2>9
    <3> QED BY <1>0, <2>5, <2>9, <3>1
  <2> QED BY <2>8, <2>9
<1>3. CASE r.op = "accept"
  <2>1. r \in Pending
    BY <1>r DEF QueuesOK
  <2>2. r = AcceptRequest /\ r.fd \notin Fds
    BY <1>3, <2>1, EchoAssumption DEF Pending, PendingOK, AcceptRequest, Request
  <2>0. KernelAccepts(i)
    BY <1>3, <1>r, KernelsKind
  <2>b. backlog # << >> /\ backlog \in Seq(Clients)
    BY <2>0 DEF TypeOK, KernelAccepts
  <2>3. PICK c \in Clients : c = Head(backlog)
    BY <2>b
  <2>4. PICK g \in Fds, more \in BOOLEAN :
          /\ \A d \in Clients : socket[d] # g
          /\ socket' = [socket EXCEPT ![c] = g]
          /\ Answer(i, [r EXCEPT !.fd = g, !.task = c], 1, more)
    <3>1. \A x : x \in (IF awaiter THEN BOOLEAN ELSE {FALSE}) => x \in BOOLEAN
      OBVIOUS
    <3> QED BY <1>r, <2>0, <2>3, <3>1 DEF KernelAccepts
  <2>5. socket[c] = None
    <3>1. 1 \in DOMAIN backlog /\ backlog[1] = c
      BY <2>b, <2>3
    <3> QED BY <3>1 DEF ClientsOK
  <2> DEFINE a == [r EXCEPT !.fd = g, !.task = c]
             e == [request |-> a, res |-> 1, more |-> more]
  <2>6. a \in Requests /\ a.op = "accept" /\ a.fd = g
    BY <1>3 DEF Requests
  <2>7. /\ cq' = Append(cq, e) /\ sq' = sq /\ (kern' = kern \/ kern' = RemoveAt(kern, i))
    BY <2>4, <1>3 DEF Answer, Skipped
  <2> HIDE DEF a
  <2>8. e \in Cqes /\ e.request = a
    BY <2>6 DEF Cqes
  <2> HIDE DEF e
  <2> DEFINE ks == Count(kern, OfFd(f))
             ss == Count(sq, OfFd(f))
             cs == Count(cq, OpenOn(f))
             os == Count(operations, SpawnedOn(f))
  <2>9. Count(kern', OfFd(f)) = ks
    <3>1. r \notin OfFd(f)
      BY <2>2 DEF OfFd
    <3>2. kern \in Seq(Requests) /\ i \in 1 .. Len(kern)
      BY DEF TypeOK
    <3>3. ks = Count(RemoveAt(kern, i), OfFd(f)) + 0 /\ Count(RemoveAt(kern, i), OfFd(f)) \in Nat
      BY <1>r, <3>1, <3>2, CountRemoveAt, RemoveAtProperties, CountType
    <3> QED BY <2>7, <3>3
  <2>10. Count(cq', OpenOn(f)) = cs + IF g = f THEN 1 ELSE 0
    <3>1. cq \in Seq(Cqes)
      BY DEF TypeOK
    <3>2. e \in OpenOn(f) <=> g = f
      BY <2>6, <2>8 DEF OpenOn
    <3> QED BY <2>7, <2>8, <3>1, <3>2, CountAppend
  <2>11. ks \in Nat /\ ss \in Nat /\ cs \in Nat /\ os \in Nat
    BY CountsOf
  <2>12. Handlers(f) = ss + ks + cs + os
         /\ Handlers(f)' = ss + Count(kern', OfFd(f)) + Count(cq', OpenOn(f)) + os
    BY <2>7 DEF Handlers
  <2> HIDE DEF ks, ss, cs, os
  <2>13. Handlers(f)' = Handlers(f) + IF g = f THEN 1 ELSE 0
    BY <2>9, <2>10, <2>11, <2>12
  <2>14. CASE g = f
    <3>1. socket'[c] = f
      BY <1>t, <2>4, <2>14
    <3> QED BY <1>0, <2>4, <2>13, <2>14, <3>1
  <2>15. CASE g # f
    <3>1. \A d \in Clients : socket'[d] = f <=> socket[d] = f
      BY <1>n, <1>t, <2>4, <2>5, <2>15
    <3> QED BY <1>0, <2>13, <2>15, <3>1
  <2> QED BY <2>14, <2>15
<1> QED BY <1>1, <1>2, <1>3 DEF Requests

(* Nothing in the queues but counts to zero.                               *)
LEMMA CountNothing ==
  ASSUME NEW X
  PROVE  Count(<< >>, X) = 0
BY SetOfNone DEF Count

LEMMA ServerHandlers ==
  ASSUME IInv, program # "link", OnAccept \/ OnRead \/ OnWrite \/ OnClose, NEW f \in Fds
  PROVE  Handlers(f)' = Handlers(f)
<1> USE DEF IInv
<1>t. /\ cq \in Seq(Cqes) /\ operations \in Seq(Clients \X Fds)
      /\ sq \in Seq(Requests) /\ kern \in Seq(Requests)
  BY DEF TypeOK
<1>n. f # None
  BY EchoAssumption
<1>c. PICK op \in {"accept", "read", "write", "close"} : Handles(op)
  BY DEF OnAccept, OnRead, OnWrite, OnClose
<1>1. /\ cq # << >> /\ Head(cq) \in Ended /\ Head(cq) \in Cqes
      /\ cq' = Tail(cq)
  BY <1>c, HandledCqe
<1>e. PICK cqe \in Cqes : cqe = Head(cq)
  BY <1>1
<1>r. PICK r \in Requests : r = cqe.request
  BY DEF Cqes
<1>o. Head(cq) \in OpenOn(f) <=> r.fd = f /\ r.op # "close"
  BY <1>e, <1>r DEF OpenOn
<1>2. AcceptRequest \in Requests /\ AcceptRequest \notin OfFd(f)
  BY <1>n DEF OfFd, AcceptRequest, Request, Requests
<1>h. /\ Count(sq, OfFd(f)) \in Nat /\ Count(kern, OfFd(f)) \in Nat
      /\ Count(cq, OpenOn(f)) \in Nat /\ Count(operations, SpawnedOn(f)) \in Nat
  BY CountsOf
<1>3. CASE OnAccept /\ program = "echo"
  <2>1. r.op = "accept" /\ operations' = operations
    BY <1>e, <1>r, <1>3 DEF OnAccept, Handles, HandlerAccepts
  <2> DEFINE a == Request("read", r.fd, None, 0)
             rs == <<a, AcceptRequest>>
  <2>2. Issue(rs)
    BY <1>e, <1>r, <1>3 DEF OnAccept, HandlerAccepts
  <2>3. a \in Requests /\ (a \in OfFd(f) <=> r.fd = f)
    BY DEF OfFd, Request, Requests
  <2> HIDE DEF a
  <2>4. rs \in Seq(Requests) /\ Count(rs, OfFd(f)) = IF r.fd = f THEN 1 ELSE 0
    <3>0. \A x, y : <<x, y>> = Append(<<x>>, y)
      OBVIOUS
    <3>1. PICK q \in Seq(Requests) : q = <<a>> /\ rs = Append(q, AcceptRequest)
      <4>1. <<a>> \in Seq(Requests)
        BY <2>3
      <4>2. rs = Append(<<a>>, AcceptRequest)
        BY <3>0
      <4> QED BY <4>1, <4>2
    <3>2. Count(q, OfFd(f)) = IF r.fd = f THEN 1 ELSE 0
      BY <2>3, <3>1, CountOne
    <3> HIDE DEF rs
    <3>3. Count(rs, OfFd(f)) = Count(q, OfFd(f)) + IF AcceptRequest \in OfFd(f) THEN 1 ELSE 0
      BY <1>2, <3>1, CountAppend
    <3>4. rs \in Seq(Requests)
      BY <1>2, <3>1
    <3> QED BY <1>2, <3>2, <3>3, <3>4
  <2> HIDE DEF rs
  <2>5. /\ Handlers(f)' + (IF Head(cq) \in OpenOn(f) THEN 1 ELSE 0) + Count(operations, SpawnedOn(f))
             = Handlers(f) + Count(rs, OfFd(f)) + Count(operations', SpawnedOn(f))
        /\ Handlers(f) \in Nat /\ Handlers(f)' \in Nat
    BY <1>1, <1>t, <2>1, <2>2, <2>4, HandledHandlers
  <2> QED BY <1>h, <1>o, <2>1, <2>4, <2>5
<1>4. CASE OnAccept /\ program # "echo"
  <2>0. r.op = "accept"
    BY <1>e, <1>r, <1>4 DEF OnAccept, Handles
  <2> DEFINE rs == IF awaiter' THEN << >> ELSE <<AcceptRequest>>
  <2>1. Issue(rs) /\ operations' = Append(operations, <<r.task, r.fd>>)
    BY <1>e, <1>r, <1>4 DEF OnAccept, ServerAccepts
  <2>2. rs \in Seq(Requests) /\ Count(rs, OfFd(f)) = 0
    BY <1>2, CountOne, CountNothing
  <2> HIDE DEF rs
  <2>3. <<r.task, r.fd>> \in Clients \X Fds /\ (<<r.task, r.fd>> \in SpawnedOn(f) <=> r.fd = f)
    <3>1. r.task \in Clients /\ r.fd \in Fds
      BY <1>1, <1>e, <1>r, <2>0 DEF Ended, EndedOK, Requests
    <3> QED BY <3>1 DEF SpawnedOn
  <2>4. Count(operations', SpawnedOn(f)) = Count(operations, SpawnedOn(f)) + IF r.fd = f THEN 1 ELSE 0
    <3>1. PICK o \in Clients \X Fds : o = <<r.task, r.fd>>
      BY <2>3
    <3>2. Count(Append(operations, o), SpawnedOn(f))
            = Count(operations, SpawnedOn(f)) + IF o \in SpawnedOn(f) THEN 1 ELSE 0
      BY <1>t, CountAppend
    <3> QED BY <2>1, <2>3, <3>1, <3>2
  <2>5. operations' \in Seq(Clients \X Fds)
    BY <1>t, <2>1, <2>3
  <2>6. /\ Handlers(f)' + (IF Head(cq) \in OpenOn(f) THEN 1 ELSE 0) + Count(operations, SpawnedOn(f))
             = Handlers(f) + Count(rs, OfFd(f)) + Count(operations', SpawnedOn(f))
        /\ Handlers(f) \in Nat /\ Handlers(f)' \in Nat
    BY <1>1, <2>1, <2>2, <2>5, HandledHandlers
  <2> QED BY <1>h, <1>o, <2>0, <2>2, <2>4, <2>6
<1>5. CASE OnRead \/ OnWrite
  <2>0. r.op # "close" /\ operations' = operations
    BY <1>e, <1>r, <1>5 DEF OnRead, OnWrite, Handles
  <2>1. PICK a \in Requests : a.fd = r.fd /\ Issue(<<a>>)
    <3>1. CASE OnRead
      <4>1. PICK n \in 0 .. 1 : n = cqe.res
        <5>1. cqe.res # Failed
          BY <1>e, <3>1 DEF OnRead, Handles
        <5> QED BY <5>1 DEF Cqes
      <4>2. Issue(<<Reissue(r, "write", n)>>)
        BY <1>e, <1>r, <3>1, <4>1 DEF OnRead, Reissue
      <4> QED BY <4>2, Reissued
    <3>2. CASE OnWrite
      <4>1. PICK cl : cl = Closing(cqe)
        OBVIOUS
      <4>2. PICK nx \in {"read", "write", "close"} : nx = IF cl THEN "close" ELSE "read"
        OBVIOUS
      <4>3. PICK n \in 0 .. 1 : n = 0
        OBVIOUS
      <4>4. Issue(<<Reissue(r, nx, n)>>)
        BY <1>e, <1>r, <3>2, <4>1, <4>2, <4>3 DEF OnWrite, AfterWrite, Reissue
      <4> QED BY <4>4, Reissued
    <3> QED BY <1>5, <3>1, <3>2
  <2>2. <<a>> \in Seq(Requests) /\ Count(<<a>>, OfFd(f)) = IF r.fd = f THEN 1 ELSE 0
    <3>1. a \in OfFd(f) <=> r.fd = f
      BY <2>1 DEF OfFd
    <3> QED BY <3>1, CountOne
  <2>3. /\ Handlers(f)' + (IF Head(cq) \in OpenOn(f) THEN 1 ELSE 0) + Count(operations, SpawnedOn(f))
             = Handlers(f) + Count(<<a>>, OfFd(f)) + Count(operations', SpawnedOn(f))
        /\ Handlers(f) \in Nat /\ Handlers(f)' \in Nat
    BY <1>1, <1>t, <2>0, <2>1, <2>2, HandledHandlers
  <2> QED BY <1>h, <1>o, <2>0, <2>2, <2>3
<1>6. CASE OnClose
  <2>0. r.op = "close" /\ UNCHANGED <<sq, kern, operations>>
    BY <1>e, <1>r, <1>6 DEF OnClose, Handles
  <2>1. Count(cq, OpenOn(f)) = Count(cq', OpenOn(f)) + 0 /\ Count(cq', OpenOn(f)) \in Nat
    <3>1. Head(cq) \notin OpenOn(f) /\ Tail(cq) \in Seq(Cqes)
      BY <1>o, <1>1, <1>t, <2>0
    <3> QED BY <1>1, <1>t, <3>1, CountTail, CountType
  <2>2. Count(cq', OpenOn(f)) = Count(cq, OpenOn(f))
    BY <2>1
  <2> QED BY <2>0, <2>2 DEF Handlers
<1> QED BY <1>3, <1>4, <1>5, <1>6

LEMMA LaunchHandlers ==
  ASSUME IInv, program # "link", Launch, NEW f \in Fds
  PROVE  Handlers(f)' = Handlers(f)
<1> USE DEF IInv
<1>t. /\ cq \in Seq(Cqes) /\ operations \in Seq(Clients \X Fds)
      /\ sq \in Seq(Requests) /\ kern \in Seq(Requests)
  BY DEF TypeOK
<1> DEFINE rs == FlattenSeq([i \in DOMAIN operations |-> Begins(operations[i][1], operations[i][2])])
<1>1. /\ rs \in Seq(Requests) /\ Len(rs) = Len(operations)
      /\ \A i \in DOMAIN operations : rs[i] = FirstRead(operations[i])
  BY <1>t, LaunchedReads
<1>2. kern' = kern \o sq \o rs /\ sq' = << >> /\ operations' = << >> /\ cq' = cq
  BY DEF Launch
<1> HIDE DEF rs
<1>3. Count(rs, OfFd(f)) = Count(operations, SpawnedOn(f))
  <2>1. DOMAIN rs = DOMAIN operations
    BY <1>t, <1>1
  <2>2. \A i \in DOMAIN rs : rs[i] \in OfFd(f) <=> operations[i] \in SpawnedOn(f)
    <3> SUFFICES ASSUME NEW i \in DOMAIN rs PROVE rs[i] \in OfFd(f) <=> operations[i] \in SpawnedOn(f)
      OBVIOUS
    <3>1. rs[i] \in Requests /\ operations[i] \in Clients \X Fds /\ rs[i] = FirstRead(operations[i])
      BY <1>t, <1>1, <2>1
    <3>2. rs[i].fd = operations[i][2]
      BY <3>1 DEF FirstRead, Request
    <3> QED BY <3>1, <3>2 DEF OfFd, SpawnedOn
  <2>3. {i \in DOMAIN rs : rs[i] \in OfFd(f)} = {i \in DOMAIN operations : operations[i] \in SpawnedOn(f)}
    BY <2>1, <2>2
  <2> QED BY <2>3 DEF Count
<1>4. Count(kern', OfFd(f)) = Count(kern, OfFd(f)) + Count(sq, OfFd(f)) + Count(rs, OfFd(f))
  <2>1. Count(kern \o sq, OfFd(f)) = Count(kern, OfFd(f)) + Count(sq, OfFd(f))
    BY <1>t, CountConcat
  <2>2. PICK q \in Seq(Requests) : q = kern \o sq
    BY <1>t, ConcatProperties
  <2>3. Count(q \o rs, OfFd(f)) = Count(q, OfFd(f)) + Count(rs, OfFd(f))
    BY <1>1, CountConcat
  <2> QED BY <1>2, <2>1, <2>2, <2>3
<1>5. Count(sq', OfFd(f)) = 0 /\ Count(operations', SpawnedOn(f)) = 0
  BY <1>2, CountNothing
<1>6. /\ Count(sq, OfFd(f)) \in Nat /\ Count(kern, OfFd(f)) \in Nat
      /\ Count(cq, OpenOn(f)) \in Nat /\ Count(operations, SpawnedOn(f)) \in Nat
  BY CountsOf
<1>7. Handlers(f)' = Count(sq', OfFd(f)) + Count(kern', OfFd(f))
                       + Count(cq, OpenOn(f)) + Count(operations', SpawnedOn(f))
  BY <1>2 DEF Handlers
<1> QED BY <1>3, <1>4, <1>5, <1>6, <1>7 DEF Handlers

LEMMA NextHandlers ==
  ASSUME IInv, [Next]_vars
  PROVE  HandlersOK'
<1> USE DEF IInv
<1>p. program' = program
  BY DEF Next, vars, Connect, Send, HangUp, KernelDoes, KernelFails, Server, OnAccept, OnRead,
         OnWrite, OnClose, Handles, OnFailure, OnBrokenChain, Launch, PassEnd
<1> SUFFICES ASSUME program # "link" PROVE HandlersOK'
  BY <1>p DEF HandlersOK
<1>0. ASSUME socket' = socket, \A f \in Fds : Handlers(f)' = Handlers(f) PROVE HandlersOK'
  BY <1>0 DEF HandlersOK
<1>1. ASSUME UNCHANGED <<socket, ringVars, operations>> PROVE HandlersOK'
  <2>1. \A f \in Fds : Handlers(f)' = Handlers(f)
    BY <1>1 DEF ringVars, Handlers
  <2> QED BY <1>0, <1>1, <2>1
<1>2. ASSUME NEW c \in Clients, Connect(c) \/ Send(c) \/ HangUp(c) PROVE HandlersOK'
  BY <1>1, <1>2 DEF Connect, Send, HangUp, serverVars
<1>3. ASSUME KernelDoes PROVE HandlersOK'
  <2>1. UNCHANGED operations
    BY <1>3 DEF KernelDoes, serverVars
  <2>2. PICK i \in DOMAIN kern :
          KernelAccepts(i) \/ KernelReads(i) \/ KernelWrites(i) \/ KernelCloses(i)
    BY <1>3 DEF KernelDoes
  <2> QED BY <1>p, <2>1, <2>2, KernelDoesHandlers
<1>4. ASSUME NEW i \in DOMAIN kern, KernelFails(i) PROVE HandlersOK'
  <2>r. PICK r \in Requests : r = kern[i]
    BY DEF TypeOK
  <2>1. /\ r.op # "close" /\ kern' = RemoveAt(kern, i) /\ UNCHANGED <<socket, sq, operations>>
        /\ cq' = Append(cq, [request |-> r, res |-> Failed, more |-> FALSE])
    BY <1>4, <2>r DEF KernelFails, clientVars, serverVars
  <2>c. [request |-> r, res |-> Failed, more |-> FALSE] \in Cqes
    BY DEF Cqes
  <2>2. PICK e \in Cqes : e = [request |-> r, res |-> Failed, more |-> FALSE] /\ e.request = r
    BY <2>c
  <2>3. ASSUME NEW f \in Fds PROVE Handlers(f)' = Handlers(f)
    <3>1. Handlers(f)' = Handlers(f) - IF r.fd = f /\ r.op = "close" THEN 1 ELSE 0
      BY <2>r, <2>1, <2>2, AnsweredHandlers
    <3>2. Handlers(f) \in Nat
      BY CountsOf DEF Handlers
    <3> QED BY <2>1, <3>1, <3>2
  <2> QED BY <1>0, <2>1, <2>3
<1>5. ASSUME OnAccept \/ OnRead \/ OnWrite \/ OnClose PROVE HandlersOK'
  <2>1. socket' = socket
    BY <1>5 DEF OnAccept, OnRead, OnWrite, OnClose, Handles, clientVars
  <2> QED BY <1>0, <1>5, <2>1, ServerHandlers
<1>6. ASSUME Launch PROVE HandlersOK'
  <2>1. socket' = socket
    BY <1>6 DEF Launch, clientVars
  <2> QED BY <1>0, <1>6, <2>1, LaunchHandlers
<1>7. ASSUME PassEnd \/ OnFailure \/ OnBrokenChain \/ UNCHANGED vars PROVE HandlersOK'
  BY <1>1, <1>7 DEF PassEnd, OnFailure, OnBrokenChain, vars, clientVars, serverVars
<1> QED BY <1>2, <1>3, <1>4, <1>5, <1>6, <1>7 DEF Next, Server

-----------------------------------------------------------------------------
\* What BuffersOK says of the buffers, and of the cqes that give one back.
OwnersOK ==
  /\ \A c, d \in Clients : held[c] = held[d] /\ held[c] # None => c = d
  /\ \A b \in Bids : Count(bufRing, {b}) = IF \E c \in Clients : held[c] = b THEN 0 ELSE 1
ClosesOK == \A c \in Clients : Count(cq, ClosedBy(c)) <= 1

(* The kernel takes a buffer for the read of client c.                     *)
LEMMA BufferTaken ==
  ASSUME TypeOK, OwnersOK, NEW c \in Clients, held[c] = None, bufRing # << >>,
         held' = [held EXCEPT ![c] = Head(bufRing)], bufRing' = Tail(bufRing)
  PROVE  OwnersOK'
<1>t. held \in [Clients -> Bids \cup {None}] /\ bufRing \in Seq(Bids)
  BY DEF TypeOK
<1>h. PICK h \in Bids : h = Head(bufRing)
  BY <1>t
<1>1. \A b \in Bids : /\ Count(bufRing, {b}) = Count(Tail(bufRing), {b}) + IF h = b THEN 1 ELSE 0
                      /\ Count(Tail(bufRing), {b}) \in Nat
  <2> TAKE b \in Bids
  <2>1. Tail(bufRing) \in Seq(Bids)
    BY <1>t
  <2> QED BY <1>h, <1>t, <2>1, CountTail, CountType
<1>2. \A b \in Bids : Count(bufRing, {b}) = IF \E d \in Clients : held[d] = b THEN 0 ELSE 1
  BY DEF OwnersOK
<1>3. \A d \in Clients : held[d] # h
  <2>1. Count(bufRing, {h}) = Count(Tail(bufRing), {h}) + 1 /\ Count(Tail(bufRing), {h}) \in Nat
    BY <1>1
  <2>2. Count(bufRing, {h}) # 0
    BY <2>1
  <2> QED BY <1>2, <2>2
<1>4. \A d \in Clients : held'[d] = IF d = c THEN h ELSE held[d]
  BY <1>h, <1>t
<1>5. \A d, e \in Clients : held'[d] = held'[e] /\ held'[d] # None => d = e
  BY <1>3, <1>4 DEF OwnersOK
<1>6. ASSUME NEW b \in Bids
      PROVE  Count(bufRing', {b}) = IF \E d \in Clients : held'[d] = b THEN 0 ELSE 1
  <2>1. b # None
    BY EchoAssumption
  <2>2. CASE b = h
    <3>1. Count(bufRing', {b}) = 0
      BY <1>1, <1>2, <1>3, <2>2
    <3> QED BY <1>4, <2>2, <3>1
  <2>3. CASE b # h
    <3>1. Count(bufRing', {b}) = Count(bufRing, {b})
      BY <1>1, <2>3
    <3>2. (\E d \in Clients : held'[d] = b) <=> (\E d \in Clients : held[d] = b)
      BY <1>4, <2>1, <2>3
    <3> QED BY <1>2, <3>1, <3>2
  <2> QED BY <2>2, <2>3
<1> QED BY <1>5, <1>6 DEF OwnersOK

(* The coroutine of client c puts its buffer back.                         *)
LEMMA BufferRejoins ==
  ASSUME TypeOK, OwnersOK, NEW c \in Clients, held[c] # None,
         bufRing' = Append(bufRing, held[c]), held' = [held EXCEPT ![c] = None]
  PROVE  OwnersOK'
<1>t. held \in [Clients -> Bids \cup {None}] /\ bufRing \in Seq(Bids)
  BY DEF TypeOK
<1>h. PICK h \in Bids : h = held[c]
  BY <1>t
<1>1. \A b \in Bids : Count(bufRing', {b}) = Count(bufRing, {b}) + IF h = b THEN 1 ELSE 0
  <2> TAKE b \in Bids
  <2>1. h \in {b} <=> h = b
    OBVIOUS
  <2> QED BY <1>h, <1>t, <2>1, CountAppend
<1>2. \A b \in Bids : Count(bufRing, {b}) = IF \E d \in Clients : held[d] = b THEN 0 ELSE 1
  BY DEF OwnersOK
<1>3. \A d \in Clients : held[d] = h => d = c
  BY <1>h DEF OwnersOK
<1>4. \A d \in Clients : held'[d] = IF d = c THEN None ELSE held[d]
  BY <1>t
<1>5. \A d, e \in Clients : held'[d] = held'[e] /\ held'[d] # None => d = e
  BY <1>4 DEF OwnersOK
<1>6. ASSUME NEW b \in Bids
      PROVE  Count(bufRing', {b}) = IF \E d \in Clients : held'[d] = b THEN 0 ELSE 1
  <2>1. b # None
    BY EchoAssumption
  <2>2. CASE b = h
    <3>1. Count(bufRing, {b}) = 0 /\ ~ \E d \in Clients : held'[d] = b
      BY <1>h, <1>2, <1>3, <1>4, <2>1, <2>2
    <3> QED BY <1>1, <2>2, <3>1
  <2>3. CASE b # h
    <3>1. Count(bufRing', {b}) = Count(bufRing, {b})
      BY <1>1, <1>2, <2>3
    <3>2. (\E d \in Clients : held'[d] = b) <=> (\E d \in Clients : held[d] = b)
      BY <1>h, <1>4, <2>1, <2>3
    <3> QED BY <1>2, <3>1, <3>2
  <2> QED BY <2>2, <2>3
<1> QED BY <1>5, <1>6 DEF OwnersOK

LEMMA AnsweredCloses ==
  ASSUME TypeOK, ClosesOK, NEW e \in Cqes, cq' = Append(cq, e),
         \A c \in Clients : e \in ClosedBy(c) => \A i \in DOMAIN cq : cq[i] \notin ClosedBy(c)
  PROVE  ClosesOK'
<1>t. cq \in Seq(Cqes)
  BY DEF TypeOK
<1>1. ASSUME NEW c \in Clients PROVE Count(cq', ClosedBy(c)) <= 1
  <2>1. Count(cq', ClosedBy(c)) = Count(cq, ClosedBy(c)) + IF e \in ClosedBy(c) THEN 1 ELSE 0
    BY <1>t, CountAppend
  <2>2. Count(cq, ClosedBy(c)) \in Nat /\ Count(cq, ClosedBy(c)) <= 1
    BY <1>t, CountType DEF ClosesOK
  <2>3. e \in ClosedBy(c) => Count(cq, ClosedBy(c)) = 0
    BY <1>t, CountType
  <2> QED BY <2>1, <2>2, <2>3
<1> QED BY <1>1 DEF ClosesOK, ClosedBy

LEMMA HandledCloses ==
  ASSUME TypeOK, ClosesOK, cq # << >>, cq' = Tail(cq)
  PROVE  ClosesOK'
<1>t. cq \in Seq(Cqes) /\ cq' \in Seq(Cqes)
  BY DEF TypeOK
<1>1. ASSUME NEW c \in Clients PROVE Count(cq', ClosedBy(c)) <= 1
  <2>1. Count(cq, ClosedBy(c)) = Count(cq', ClosedBy(c)) + IF Head(cq) \in ClosedBy(c) THEN 1 ELSE 0
    BY <1>t, CountTail
  <2>2. Count(cq, ClosedBy(c)) <= 1 /\ Count(cq', ClosedBy(c)) \in Nat
    BY <1>t, CountType DEF ClosesOK
  <2> QED BY <2>1, <2>2
<1> QED BY <1>1 DEF ClosesOK, ClosedBy

LEMMA NextBuffers ==
  ASSUME IInv, [Next]_vars
  PROVE  BuffersOK'
<1> USE DEF IInv
<1>p. program' = program
  BY DEF Next, vars, Connect, Send, HangUp, KernelDoes, KernelFails, Server, OnAccept, OnRead,
         OnWrite, OnClose, Handles, OnFailure, OnBrokenChain, Launch, PassEnd
<1> SUFFICES ASSUME program = "buffers" PROVE OwnersOK' /\ ClosesOK'
  BY <1>p DEF BuffersOK, OwnersOK, ClosesOK
<1>0. OwnersOK /\ ClosesOK /\ program # "link" /\ program # "echo"
  BY DEF BuffersOK, OwnersOK, ClosesOK
<1>o. UNCHANGED <<held, bufRing>> => OwnersOK'
  BY <1>0 DEF OwnersOK
<1>q. UNCHANGED cq => ClosesOK'
  BY <1>0 DEF ClosesOK
<1>1. ASSUME NEW c \in Clients, Connect(c) \/ Send(c) \/ HangUp(c) PROVE OwnersOK' /\ ClosesOK'
  BY <1>o, <1>q, <1>1 DEF Connect, Send, HangUp, ringVars, bufferVars
<1>2. ASSUME KernelDoes PROVE OwnersOK' /\ ClosesOK'
  <2>i. PICK i \in DOMAIN kern :
          KernelAccepts(i) \/ KernelReads(i) \/ KernelWrites(i) \/ KernelCloses(i)
    BY <1>2 DEF KernelDoes
  <2>r. PICK r \in Requests : r = kern[i]
    BY DEF TypeOK
  <2>1. CASE KernelReads(i)
    <3>0. r.op = "read"
      BY <2>1, <2>r, KernelsKind
    <3>1. PICK c \in Clients : socket[c] = r.fd /\ ReadFrom(c, r, i)
      BY <2>1, <2>r DEF KernelReads
    <3>2. r \in Pending
      BY <1>0, <2>r DEF QueuesOK
    <3>3. r.fd \in Fds /\ Serves(c, r)
      BY <3>0, <3>1, <3>2, PendingSocket
    <3>4. Empty(c) /\ r.task = c
      BY <1>0, <3>0, <3>1, <3>2, <3>3, PendingOf, EchoAssumption DEF Serves
    <3>5. OwnersOK'
      BY <1>0, <3>1, <3>4, BufferTaken DEF ReadFrom, SelectBuffer, Empty
    <3>6. PICK res \in {0, 1} : Answer(i, r, res, FALSE)
      BY <3>1 DEF ReadFrom
    <3>c. [request |-> r, res |-> res, more |-> FALSE] \in Cqes
      BY DEF Cqes
    <3>7. PICK e \in Cqes : e = [request |-> r, res |-> res, more |-> FALSE] /\ e.request = r
      BY <3>c
    <3>8. cq' = Append(cq, e) /\ \A d \in Clients : e \notin ClosedBy(d)
      BY <1>0, <3>0, <3>6, <3>7 DEF Answer, Skipped, ClosedBy
    <3> QED BY <1>0, <3>5, <3>8, AnsweredCloses
  <2>2. CASE KernelAccepts(i) \/ KernelWrites(i)
    <3>0. r.op \in {"accept", "write"}
      BY <2>2, <2>r, KernelsKind
    <3>1. OwnersOK'
      BY <1>o, <2>2 DEF KernelAccepts, KernelWrites, bufferVars
    <3>2. PICK e \in Cqes : cq' = Append(cq, e) /\ e.request.op = r.op
      <4>1. CASE KernelWrites(i)
        <5>1. PICK res \in {0, 1} : Answer(i, r, res, FALSE)
          <6>1. (IF r.arg = 0 THEN 0 ELSE 1) \in {0, 1}
            OBVIOUS
          <6> QED BY <2>r, <4>1, <6>1 DEF KernelWrites
        <5>2. cq' = Append(cq, [request |-> r, res |-> res, more |-> FALSE])
          BY <1>0, <5>1 DEF Answer, Skipped
        <5>3. [request |-> r, res |-> res, more |-> FALSE] \in Cqes
          BY DEF Cqes
        <5> QED BY <5>2, <5>3
      <4>2. CASE KernelAccepts(i)
        <5>1. backlog # << >> /\ backlog \in Seq(Clients)
          BY <4>2 DEF KernelAccepts, TypeOK
        <5>2. PICK c \in Clients : c = Head(backlog)
          BY <5>1
        <5>3. PICK g \in Fds, more \in BOOLEAN : Answer(i, [r EXCEPT !.fd = g, !.task = c], 1, more)
          <6>1. \A x : x \in (IF awaiter THEN BOOLEAN ELSE {FALSE}) => x \in BOOLEAN
            OBVIOUS
          <6> QED BY <2>r, <4>2, <5>2, <6>1 DEF KernelAccepts
        <5> DEFINE a == [r EXCEPT !.fd = g, !.task = c]
        <5>4. a \in Requests /\ a.op = r.op
          BY DEF Requests
        <5>5. cq' = Append(cq, [request |-> a, res |-> 1, more |-> more])
          BY <1>0, <5>3 DEF Answer, Skipped
        <5> HIDE DEF a
        <5>6. [request |-> a, res |-> 1, more |-> more] \in Cqes
          BY <5>4 DEF Cqes
        <5> QED BY <5>4, <5>5, <5>6
      <4> QED BY <2>2, <4>1, <4>2
    <3>3. \A d \in Clients : e \notin ClosedBy(d)
      BY <3>0, <3>2 DEF ClosedBy
    <3> QED BY <1>0, <3>1, <3>2, <3>3, AnsweredCloses
  <2>3. CASE KernelCloses(i)
    <3>0. r.op = "close"
      BY <2>3, <2>r, KernelsKind
    <3>1. OwnersOK'
      BY <1>o, <2>3 DEF KernelCloses, bufferVars
    <3>2. Answer(i, r, 1, FALSE)
      BY <2>3, <2>r DEF KernelCloses
    <3>c. [request |-> r, res |-> 1, more |-> FALSE] \in Cqes
      BY DEF Cqes
    <3>3. PICK e \in Cqes : e = [request |-> r, res |-> 1, more |-> FALSE] /\ e.request = r
      BY <3>c
    <3>4. cq' = Append(cq, e)
      BY <1>0, <3>2, <3>3 DEF Answer, Skipped
    <3>5. r \in Pending
      BY <1>0, <2>r DEF QueuesOK
    <3>6. PICK c \in Clients : socket[c] = r.fd /\ Serves(c, r)
      BY <3>0, <3>5, PendingSocket
    <3>7. socket[c] # None /\ r.task = c
      BY <1>0, <3>6 DEF Serves
    <3>8. ASSUME NEW d \in Clients, e \in ClosedBy(d), NEW j \in DOMAIN cq PROVE cq[j] \notin ClosedBy(d)
      <4>1. d = c
        BY <3>3, <3>7, <3>8 DEF ClosedBy
      <4>2. cq[j] \in Ended
        BY <1>0 DEF QueuesOK
      <4>3. cq[j].request.op = "close" => socket[cq[j].request.task] = None
        BY <4>2 DEF Ended, EndedOK
      <4> QED BY <3>7, <4>1, <4>3 DEF ClosedBy
    <3> QED BY <1>0, <3>1, <3>4, <3>8, AnsweredCloses
  <2> QED BY <2>i, <2>1, <2>2, <2>3
<1>3. ASSUME NEW i \in DOMAIN kern, KernelFails(i) PROVE OwnersOK' /\ ClosesOK'
  <2>r. PICK r \in Requests : r = kern[i]
    BY DEF TypeOK
  <2>1. /\ r.op # "close" /\ cq' = Append(cq, [request |-> r, res |-> Failed, more |-> FALSE])
        /\ UNCHANGED <<held, bufRing>>
    BY <1>3, <2>r DEF KernelFails, bufferVars
  <2>c. [request |-> r, res |-> Failed, more |-> FALSE] \in Cqes
    BY DEF Cqes
  <2>2. PICK e \in Cqes : e = [request |-> r, res |-> Failed, more |-> FALSE] /\ e.request = r
    BY <2>c
  <2>3. \A d \in Clients : e \notin ClosedBy(d)
    BY <2>1, <2>2 DEF ClosedBy
  <2> QED BY <1>0, <1>o, <2>1, <2>2, <2>3, AnsweredCloses
<1>4. ASSUME OnAccept \/ OnRead \/ OnWrite \/ OnClose PROVE OwnersOK' /\ ClosesOK'
  <2>c. PICK op \in {"accept", "read", "write", "close"} : Handles(op)
    BY <1>4 DEF OnAccept, OnRead, OnWrite, OnClose
  <2>h. /\ cq # << >> /\ Head(cq) \in Ended /\ Head(cq) \in Cqes
        /\ cq' = Tail(cq)
    BY <1>0, <2>c, HandledCqe
  <2>e. PICK cqe \in Cqes : cqe = Head(cq)
    BY <2>h
  <2>r. PICK r \in Requests : r = cqe.request
    BY DEF Cqes
  <2>1. ClosesOK'
    BY <1>0, <2>h, HandledCloses
  <2>2. CASE OnAccept \/ OnRead
    BY <1>o, <2>1, <2>2 DEF OnAccept, OnRead, Rejoin, RejoinsAfter
  <2>3. CASE OnWrite
    <3>1. PICK cl : Rejoin("write", cl, r.task)
      BY <2>3, <2>e, <2>r DEF OnWrite
    <3>2. cqe.res # Failed /\ r.op = "write"
      BY <2>3, <2>e, <2>r DEF OnWrite, Handles
    <3>3. r.task \in Clients /\ held[r.task] # None
      BY <1>0, <2>h, <2>e, <2>r, <3>2 DEF Ended, EndedOK, Serves, Holding
    <3>4. UNCHANGED <<held, bufRing>> \/ ( /\ bufRing' = Append(bufRing, held[r.task])
                                            /\ held' = [held EXCEPT ![r.task] = None])
      BY <3>1 DEF Rejoin
    <3>5. OwnersOK'
      BY <1>0, <1>o, <3>3, <3>4, BufferRejoins
    <3> QED BY <2>1, <3>5
  <2>4. CASE OnClose
    <3>1. Rejoin("close", TRUE, r.task)
      BY <2>4, <2>e, <2>r DEF OnClose
    <3>2. r.op = "close"
      BY <2>4, <2>e, <2>r DEF OnClose, Handles
    <3>3. r.task \in Clients /\ held[r.task] # None
      BY <1>0, <2>h, <2>e, <2>r, <3>2 DEF Ended, EndedOK, Requests
    <3>4. bufRing' = Append(bufRing, held[r.task]) /\ held' = [held EXCEPT ![r.task] = None]
      BY <3>1 DEF Rejoin, RejoinsAfter
    <3>5. OwnersOK'
      BY <1>0, <3>3, <3>4, BufferRejoins
    <3> QED BY <2>1, <3>5
  <2> QED BY <1>4, <2>2, <2>3, <2>4
<1>5. ASSUME Launch \/ PassEnd \/ OnFailure \/ OnBrokenChain \/ UNCHANGED vars PROVE OwnersOK' /\ ClosesOK'
  BY <1>o, <1>q, <1>5 DEF Launch, PassEnd, OnFailure, OnBrokenChain, vars, ringVars, bufferVars
<1> QED BY <1>1, <1>2, <1>3, <1>4, <1>5 DEF Next, Server

-----------------------------------------------------------------------------
LEMMA NextEchoes ==
  ASSUME IInv, [Next]_vars
  PROVE  EchoesInOrder'
<1> USE DEF IInv
<1>p. program' = program
  BY DEF Next, vars, Connect, Send, HangUp, KernelDoes, KernelFails, Server, OnAccept, OnRead,
         OnWrite, OnClose, Handles, OnFailure, OnBrokenChain, Launch, PassEnd
<1> SUFFICES ASSUME program # "link", NEW c \in Clients PROVE IsPrefix(delivered'[c], sent'[c])
  BY <1>p DEF EchoesInOrder
<1>t. /\ sent \in [Clients -> Seq(Message)] /\ sent[c] \in Seq(Message)
      /\ delivered \in [Clients -> Seq(Message \cup {Word(1), Word(2)})]
      /\ delivered[c] \in Seq(Message \cup {Word(1), Word(2)})
      /\ taken[c] <= Len(sent[c])
  BY DEF TypeOK
<1>0. IsPrefix(delivered[c], sent[c])
  BY DEF EchoesInOrder
<1>1. CASE UNCHANGED <<sent, delivered>>
  BY <1>0, <1>1
<1>2. ASSUME NEW d \in Clients, Send(d) PROVE IsPrefix(delivered'[c], sent'[c])
  <2>1. PICK zz \in BOOLEAN : sent' = [sent EXCEPT ![d] = Append(@, [from |-> d, nr |-> Len(@) + 1, zz |-> zz])]
    BY <1>2 DEF Send
  <2>2. Len(sent[d]) < MaxMessages /\ Len(sent[d]) \in Nat /\ delivered' = delivered
    BY <1>2, <1>t DEF Send
  <2>3. [from |-> d, nr |-> Len(sent[d]) + 1, zz |-> zz] \in Message
    BY <2>2, EchoAssumption DEF Message
  <2>m. PICK m \in Message : m = [from |-> d, nr |-> Len(sent[d]) + 1, zz |-> zz]
    BY <2>3
  <2>4. sent'[c] = sent[c] \/ sent'[c] = Append(sent[c], m)
    <3>1. sent' = [sent EXCEPT ![d] = Append(sent[d], m)]
      BY <2>1, <2>m
    <3> QED BY <1>t, <3>1
  <2>5. IsPrefix(delivered[c], Append(sent[c], m))
    BY <1>0, <1>t, PrefixOfAppend
  <2>6. delivered'[c] = delivered[c]
    BY <2>2
  <2> QED BY <1>0, <2>4, <2>5, <2>6
<1>3. ASSUME NEW i \in DOMAIN kern, KernelWrites(i) PROVE IsPrefix(delivered'[c], sent'[c])
  <2>r. PICK r \in Requests : r = kern[i]
    BY DEF TypeOK
  <2>1. r \in Pending /\ r.op = "write" /\ sent' = sent
    BY <1>3, <2>r DEF KernelWrites, QueuesOK
  <2> DEFINE said == IF r.arg = 0 THEN << >> ELSE <<memory[Slot(r)]>>
  <2>2. PICK d \in Clients : socket[d] = r.fd /\ delivered' = [delivered EXCEPT ![d] = @ \o said]
    BY <1>3, <2>r DEF KernelWrites
  <2>3. CASE d # c
    BY <1>0, <1>t, <2>1, <2>2, <2>3
  <2>4. CASE d = c
    <3>1. r.fd # None /\ Serves(c, r)
      BY <2>1, <2>2, <2>4, PendingSocket, EchoAssumption
    <3>2. (r.arg = 0) \/ (r.arg = 1 /\ Carrying(c))
      BY <2>1, <2>2, <2>4, <3>1, PendingOf
    <3>3. delivered'[c] = delivered[c] \o said
      BY <1>t, <2>2, <2>4
    <3>4. CASE r.arg = 0
      BY <1>0, <1>t, <2>1, <3>3, <3>4
    <3>5. CASE r.arg = 1
      <4>1. Slot(r) = Room(c)
        BY <3>1 DEF Slot, Room, Serves
      <4>2. memory[Slot(r)] = sent[c][taken[c]] /\ taken[c] = Len(delivered[c]) + 1
        BY <3>2, <3>5, <4>1 DEF Carrying
      <4>3. delivered'[c] = delivered[c] \o <<sent[c][Len(delivered[c]) + 1]>>
        BY <3>3, <3>5, <4>2
      <4>4. Len(delivered[c]) < Len(sent[c])
        BY <1>t, <4>2
      <4> QED BY <1>0, <1>t, <2>1, <4>3, <4>4, PrefixGrows
    <3> QED BY <3>2, <3>4, <3>5
  <2> QED BY <2>3, <2>4
<1>4. ASSUME NEW d \in Clients, Connect(d) \/ HangUp(d) PROVE UNCHANGED <<sent, delivered>>
  BY <1>4 DEF Connect, HangUp
<1>5. ASSUME NEW i \in DOMAIN kern, KernelAccepts(i) \/ KernelReads(i) \/ KernelCloses(i) \/ KernelFails(i)
      PROVE  UNCHANGED <<sent, delivered>>
  BY <1>5 DEF KernelAccepts, KernelReads, KernelCloses, KernelFails, clientVars
<1>6. ASSUME Server \/ UNCHANGED vars PROVE UNCHANGED <<sent, delivered>>
  BY <1>6 DEF Server, OnAccept, OnRead, OnWrite, OnClose, Handles, OnFailure, OnBrokenChain,
               Launch, PassEnd, vars, clientVars
<1> QED BY <1>1, <1>2, <1>3, <1>4, <1>5, <1>6 DEF Next, KernelDoes

-----------------------------------------------------------------------------
(* The chains of feature_io_link.cpp.                                      *)
LEMMA LaunchedChains ==
  ASSUME program = "link", NEW q \in Seq(Clients \X Fds)
  PROVE  FlattenSeq([i \in DOMAIN q |-> Begins(q[i][1], q[i][2])]) \in Seq(LinkPending)
<1> DEFINE s == [i \in DOMAIN q |-> Begins(q[i][1], q[i][2])]
<1>1. ASSUME NEW i \in DOMAIN q PROVE Begins(q[i][1], q[i][2]) \in Seq(LinkPending)
  <2>1. PICK c \in Clients, f \in Fds : c = q[i][1] /\ f = q[i][2]
    BY <1>1
  <2>2. /\ Request("write", f, c, 1) \in LinkPending /\ Request("write", f, c, 2) \in LinkPending
        /\ Request("close", f, c, 0) \in LinkPending
    BY DEF LinkPending, Request, Requests
  <2>3. Chain(c, f) \in Seq(LinkPending)
    <3> DEFINE a == Request("write", f, c, 1)
               b == Request("write", f, c, 2)
               d == Request("close", f, c, 0)
    <3>1. a \in LinkPending /\ b \in LinkPending /\ d \in LinkPending /\ Chain(c, f) = <<a, b, d>>
      BY <2>2 DEF Chain
    <3> HIDE DEF a, b, d
    <3> QED BY <3>1
  <2> QED BY <2>1, <2>3 DEF Begins
<1>2. DOMAIN q = 1 .. Len(q) /\ Len(q) \in Nat
  OBVIOUS
<1>3. s \in [1 .. Len(q) -> Seq(LinkPending)]
  BY <1>1, <1>2
<1> HIDE DEF s
<1>4. s \in Seq(Seq(LinkPending))
  BY <1>2, <1>3
<1> QED BY <1>4, FlattenSeqType DEF s

LEMMA ChainCancelled ==
  ASSUME NEW S, NEW q \in Seq(S), NEW c
  PROVE  WithoutChain(q, c) \in Seq(S)
<1> DEFINE s == [i \in DOMAIN q |-> IF q[i].task = c THEN << >> ELSE <<q[i]>>]
<1>1. \A i \in DOMAIN q : (IF q[i].task = c THEN << >> ELSE <<q[i]>>) \in Seq(S)
  OBVIOUS
<1>2. DOMAIN q = 1 .. Len(q) /\ Len(q) \in Nat
  OBVIOUS
<1>3. s \in [1 .. Len(q) -> Seq(S)]
  BY <1>1, <1>2
<1> HIDE DEF s
<1>4. s \in Seq(Seq(S))
  BY <1>2, <1>3
<1>5. WithoutChain(q, c) = FlattenSeq(s)
  BY DEF WithoutChain, s
<1> QED BY <1>4, <1>5, FlattenSeqType

(* What the kernel answers to an accept request.                           *)
LEMMA Accepted ==
  ASSUME TypeOK, NEW i \in DOMAIN kern, KernelAccepts(i)
  PROVE  \E e \in Cqes : /\ e.request.op = "accept" /\ e.request.task \in Clients /\ e.request.fd \in Fds
                         /\ cq' = Append(cq, e) /\ sq' = sq
                         /\ kern' = kern \/ kern' = RemoveAt(kern, i)
<1>r. PICK r \in Requests : r = kern[i]
  BY DEF TypeOK
<1>1. backlog # << >> /\ backlog \in Seq(Clients) /\ r.op = "accept"
  BY <1>r DEF KernelAccepts, TypeOK
<1>2. PICK c \in Clients : c = Head(backlog)
  BY <1>1
<1>3. PICK g \in Fds, more \in BOOLEAN : Answer(i, [r EXCEPT !.fd = g, !.task = c], 1, more)
  <2>1. \A x : x \in (IF awaiter THEN BOOLEAN ELSE {FALSE}) => x \in BOOLEAN
    OBVIOUS
  <2> QED BY <1>r, <1>2, <2>1 DEF KernelAccepts
<1> DEFINE a == [r EXCEPT !.fd = g, !.task = c]
<1>4. a \in Requests /\ a.op = "accept" /\ a.fd = g /\ a.task = c
  BY <1>1 DEF Requests
<1>5. /\ cq' = Append(cq, [request |-> a, res |-> 1, more |-> more])
      /\ sq' = sq /\ (kern' = kern \/ kern' = RemoveAt(kern, i))
  BY <1>1, <1>3 DEF Answer, Skipped
<1> HIDE DEF a
<1>6. [request |-> a, res |-> 1, more |-> more] \in Cqes
  BY <1>4 DEF Cqes
<1> QED BY <1>4, <1>5, <1>6

LEMMA NextLink ==
  ASSUME IInv, [Next]_vars
  PROVE  LinkOK'
<1> USE DEF IInv
<1>p. program' = program
  BY DEF Next, vars, Connect, Send, HangUp, KernelDoes, KernelFails, Server, OnAccept, OnRead,
         OnWrite, OnClose, Handles, OnFailure, OnBrokenChain, Launch, PassEnd
<1> SUFFICES ASSUME program = "link"
             PROVE  sq' \in Seq({AcceptRequest}) /\ kern' \in Seq(LinkPending) /\ cq' \in Seq(LinkEnded)
  BY <1>p DEF LinkOK, LinkPending, LinkEnded
<1> DEFINE Goal == sq' \in Seq({AcceptRequest}) /\ kern' \in Seq(LinkPending) /\ cq' \in Seq(LinkEnded)
<1>0. sq \in Seq({AcceptRequest}) /\ kern \in Seq(LinkPending) /\ cq \in Seq(LinkEnded)
  BY DEF LinkOK
<1>1. CASE UNCHANGED ringVars
  BY <1>0, <1>1 DEF ringVars
<1>2. ASSUME NEW i \in DOMAIN kern,
             KernelAccepts(i) \/ KernelReads(i) \/ KernelWrites(i) \/ KernelCloses(i)
      PROVE  Goal
  <2>r. PICK r \in Requests : r = kern[i]
    BY DEF TypeOK
  <2>0. r \in LinkPending /\ RemoveAt(kern, i) \in Seq(LinkPending)
    BY <1>0, <2>r, RemoveAtProperties
  <2>1. CASE KernelAccepts(i)
    <3>1. PICK e \in Cqes : /\ e.request.op = "accept" /\ e.request.task \in Clients /\ e.request.fd \in Fds
                            /\ cq' = Append(cq, e) /\ sq' = sq
                            /\ kern' = kern \/ kern' = RemoveAt(kern, i)
      BY <2>1, Accepted
    <3>2. e \in LinkEnded
      BY <3>1 DEF LinkEnded
    <3> QED BY <1>0, <2>0, <3>1, <3>2
  <2>2. ~KernelReads(i)
    BY <2>r, KernelsKind, KernelsRequest
  <2>3. CASE KernelWrites(i)
    <3>1. r.op = "write"
      BY <2>r, <2>3, KernelsKind
    <3>2. Answer(i, r, IF r.arg = 0 THEN 0 ELSE 1, FALSE)
      BY <2>r, <2>3 DEF KernelWrites
    <3>3. cq' = cq /\ sq' = sq /\ kern' = RemoveAt(kern, i)
      BY <3>1, <3>2 DEF Answer, Skipped
    <3> QED BY <1>0, <2>0, <3>3
  <2>4. CASE KernelCloses(i)
    <3>1. r.op = "close"
      BY <2>r, <2>4, KernelsKind
    <3>2. Answer(i, r, 1, FALSE)
      BY <2>r, <2>4 DEF KernelCloses
    <3>c. [request |-> r, res |-> 1, more |-> FALSE] \in Cqes
      BY DEF Cqes
    <3>3. PICK e \in Cqes : e = [request |-> r, res |-> 1, more |-> FALSE] /\ e.request = r
      BY <3>c
    <3>4. cq' = Append(cq, e) /\ sq' = sq /\ kern' = RemoveAt(kern, i)
      BY <3>1, <3>2, <3>3 DEF Answer, Skipped
    <3>5. e \in LinkEnded
      BY <2>0, <3>1, <3>3 DEF LinkEnded, LinkPending, AcceptRequest, Request
    <3> QED BY <1>0, <2>0, <3>4, <3>5
  <2> QED BY <1>2, <2>1, <2>2, <2>3, <2>4
<1>3. ASSUME NEW i \in DOMAIN kern, KernelFails(i) PROVE Goal
  <2>r. PICK r \in Requests : r = kern[i]
    BY DEF TypeOK
  <2>0. r \in LinkPending
    BY <1>0, <2>r
  <2>1. /\ r.op \in {"read", "write"} /\ sq' = sq
        /\ cq' = Append(cq, [request |-> r, res |-> Failed, more |-> FALSE])
        /\ kern' = WithoutChain(kern, r.task)
    BY <1>3, <2>r DEF KernelFails
  <2>c. [request |-> r, res |-> Failed, more |-> FALSE] \in Cqes
    BY DEF Cqes
  <2>2. PICK e \in Cqes : e = [request |-> r, res |-> Failed, more |-> FALSE] /\ e.request = r /\ e.res = Failed
    BY <2>c
  <2>3. e \in LinkEnded
    BY <2>0, <2>1, <2>2 DEF LinkEnded, LinkPending, AcceptRequest, Request
  <2>4. kern' \in Seq(LinkPending)
    BY <1>0, <2>1, ChainCancelled
  <2> QED BY <1>0, <2>1, <2>2, <2>3, <2>4
<1>4. ASSUME OnAccept \/ OnRead \/ OnWrite \/ OnClose PROVE Goal
  <2>1. PICK op \in {"accept", "read", "write", "close"} : Handles(op)
    BY <1>4 DEF OnAccept, OnRead, OnWrite, OnClose
  <2>2. Head(cq) \in LinkEnded /\ Tail(cq) \in Seq(LinkEnded) /\ cq' = Tail(cq)
    BY <1>0, <2>1 DEF Handles
  <2>3. ~OnRead /\ ~OnWrite
    BY <2>2 DEF LinkEnded, OnRead, OnWrite, Handles
  <2>4. CASE OnAccept
    <3> DEFINE rs == IF awaiter' THEN << >> ELSE <<AcceptRequest>>
    <3>1. Issue(rs)
      BY <2>4 DEF OnAccept, ServerAccepts
    <3>2. rs \in Seq({AcceptRequest})
      <4>1. \A a : <<a>> \in Seq({a}) /\ << >> \in Seq({a})
        OBVIOUS
      <4>2. <<AcceptRequest>> \in Seq({AcceptRequest}) /\ << >> \in Seq({AcceptRequest})
        BY <4>1
      <4> QED BY <4>2
    <3> HIDE DEF rs
    <3>3. sq' = sq \o rs /\ kern' = kern
      BY <3>1 DEF Issue
    <3>4. sq \o rs \in Seq({AcceptRequest})
      BY <1>0, <3>2, ConcatProperties
    <3> QED BY <1>0, <2>2, <3>3, <3>4
  <2>5. CASE OnClose
    BY <1>0, <2>2, <2>5 DEF OnClose
  <2> QED BY <1>4, <2>3, <2>4, <2>5
<1>5. ASSUME Launch PROVE Goal
  <2> DEFINE rs == FlattenSeq([i \in DOMAIN operations |-> Begins(operations[i][1], operations[i][2])])
  <2>1. rs \in Seq(LinkPending)
    BY LaunchedChains DEF TypeOK
  <2>2. kern' = kern \o sq \o rs /\ sq' = << >> /\ cq' = cq
    BY <1>5 DEF Launch
  <2> HIDE DEF rs
  <2>3. sq \in Seq(LinkPending)
    BY <1>0, SeqWidens DEF LinkPending
  <2>4. kern \o sq \in Seq(LinkPending)
    BY <1>0, <2>3, ConcatProperties
  <2>5. kern \o sq \o rs \in Seq(LinkPending)
    BY <2>1, <2>4, ConcatProperties
  <2> QED BY <1>0, <2>2, <2>5
<1>6. ASSUME NEW c \in Clients, Connect(c) \/ Send(c) \/ HangUp(c) PROVE UNCHANGED ringVars
  BY <1>6 DEF Connect, Send, HangUp
<1>7. ASSUME PassEnd \/ OnFailure \/ UNCHANGED vars PROVE UNCHANGED ringVars
  BY <1>7 DEF PassEnd, OnFailure, vars
<1>8. ASSUME OnBrokenChain PROVE Goal
  BY <1>0, <1>8 DEF OnBrokenChain
<1> QED BY <1>1, <1>2, <1>3, <1>4, <1>5, <1>6, <1>7, <1>8 DEF Next, Server, KernelDoes

-----------------------------------------------------------------------------
\* TypeOK of the ring and of the coroutines to begin, and of all the rest.
QueuesType ==
  /\ sq \in Seq(Requests) /\ kern \in Seq(Requests) /\ cq \in Seq(Cqes)
  /\ operations \in Seq(Clients \X Fds)
RestType ==
  /\ program \in Programs /\ up \in BOOLEAN
  /\ backlog \in Seq(Clients) /\ accepted \in Seq(Clients)
  /\ socket \in [Clients -> Fds \cup {None}]
  /\ hungUp \subseteq Clients
  /\ sent \in [Clients -> Seq(Message)]
  /\ taken \in [Clients -> 0 .. MaxMessages]
  /\ \A c \in Clients : taken[c] <= Len(sent[c])
  /\ delivered \in [Clients -> Seq(Message \cup {Word(1), Word(2)})]
  /\ phase \in {"launch", "reap"}
  /\ awaiter \in BOOLEAN
  /\ memory \in [Slots -> Message \cup {None}]
  /\ bufMap \subseteq Fds
  /\ bufRing \in Seq(Bids)
  /\ held \in [Clients -> Bids \cup {None}]

LEMMA TypeSplits == (TypeOK <=> QueuesType /\ RestType) /\ (TypeOK' <=> QueuesType' /\ RestType')
BY DEF TypeOK, QueuesType, RestType

\* A buffer changes hands, and nothing happens otherwise.
LEMMA BuffersType ==
  ASSUME RestType, NEW c,
         \/ UNCHANGED <<held, bufRing>>
         \/ /\ bufRing # << >> /\ held' = [held EXCEPT ![c] = Head(bufRing)]
            /\ bufRing' = Tail(bufRing)
         \/ /\ c \in Clients /\ held[c] # None
            /\ bufRing' = Append(bufRing, held[c]) /\ held' = [held EXCEPT ![c] = None]
  PROVE  bufRing' \in Seq(Bids) /\ held' \in [Clients -> Bids \cup {None}]
<1>t. bufRing \in Seq(Bids) /\ held \in [Clients -> Bids \cup {None}]
  BY DEF RestType
<1>1. ASSUME bufRing # << >>, held' = [held EXCEPT ![c] = Head(bufRing)], bufRing' = Tail(bufRing)
      PROVE  bufRing' \in Seq(Bids) /\ held' \in [Clients -> Bids \cup {None}]
  <2>1. Head(bufRing) \in Bids /\ Tail(bufRing) \in Seq(Bids)
    BY <1>t, <1>1
  <2> QED BY <1>t, <1>1, <2>1
<1>2. ASSUME c \in Clients, held[c] # None,
             bufRing' = Append(bufRing, held[c]), held' = [held EXCEPT ![c] = None]
      PROVE  bufRing' \in Seq(Bids) /\ held' \in [Clients -> Bids \cup {None}]
  <2>1. PICK h \in Bids : h = held[c]
    BY <1>t, <1>2
  <2>2. Append(bufRing, h) \in Seq(Bids)
    BY <1>t
  <2> QED BY <1>t, <1>2, <2>1, <2>2
<1> QED BY <1>t, <1>1, <1>2

LEMMA ClientsType ==
  ASSUME IInv, NEW c \in Clients, Connect(c) \/ Send(c) \/ HangUp(c)
  PROVE  RestType'
<1>t. RestType
  BY TypeSplits DEF IInv
<1>1. CASE Connect(c)
  <2>1. backlog' \in Seq(Clients)
    BY <1>t, <1>1 DEF Connect, RestType
  <2> QED BY <1>t, <1>1, <2>1 DEF Connect, RestType, serverVars, bufferVars
<1>2. CASE Send(c)
  <2>1. PICK zz \in BOOLEAN : sent' = [sent EXCEPT ![c] = Append(@, [from |-> c, nr |-> Len(@) + 1, zz |-> zz])]
    BY <1>2 DEF Send
  <2>2. /\ sent \in [Clients -> Seq(Message)] /\ taken \in [Clients -> 0 .. MaxMessages]
        /\ Len(sent[c]) < MaxMessages /\ Len(sent[c]) \in Nat /\ \A d \in Clients : taken[d] <= Len(sent[d])
    BY <1>2, <1>t DEF Send, RestType
  <2>3. [from |-> c, nr |-> Len(sent[c]) + 1, zz |-> zz] \in Message
    BY <2>2, EchoAssumption DEF Message
  <2>4. PICK m \in Message : m = [from |-> c, nr |-> Len(sent[c]) + 1, zz |-> zz]
    BY <2>3
  <2>5. sent' = [sent EXCEPT ![c] = Append(sent[c], m)]
    BY <2>1, <2>4
  <2>6. /\ Append(sent[c], m) \in Seq(Message)
        /\ Len(Append(sent[c], m)) = Len(sent[c]) + 1
    BY <2>2
  <2>7. sent' \in [Clients -> Seq(Message)]
    BY <2>2, <2>5, <2>6
  <2>8. \A d \in Clients : taken[d] <= Len(sent'[d])
    <3> TAKE d \in Clients
    <3>1. taken[d] <= Len(sent[d]) /\ taken[d] \in Nat /\ Len(sent[d]) \in Nat
      BY <2>2, EchoAssumption
    <3>2. sent'[d] = IF d = c THEN Append(sent[c], m) ELSE sent[d]
      BY <2>2, <2>5
    <3> QED BY <2>6, <3>1, <3>2
  <2> QED BY <1>t, <1>2, <2>7, <2>8 DEF Send, RestType, serverVars, bufferVars
<1>3. CASE HangUp(c)
  BY <1>t, <1>3 DEF HangUp, RestType, serverVars, bufferVars
<1> QED BY <1>1, <1>2, <1>3

LEMMA KernelsType ==
  ASSUME IInv, UNCHANGED <<program, up, serverVars>>, NEW i \in DOMAIN kern,
         KernelAccepts(i) \/ KernelReads(i) \/ KernelWrites(i) \/ KernelCloses(i)
  PROVE  RestType'
<1>t. RestType /\ TypeOK
  BY TypeSplits DEF IInv
<1>r. PICK r \in Requests : r = kern[i]
  BY <1>t DEF TypeOK
<1>1. CASE KernelAccepts(i)
  <2>1. backlog # << >> /\ backlog \in Seq(Clients) /\ backlog' = Tail(backlog)
    BY <1>t, <1>1 DEF KernelAccepts, RestType
  <2>2. PICK c \in Clients : c = Head(backlog)
    BY <2>1
  <2>3. PICK f \in Fds : socket' = [socket EXCEPT ![c] = f]
    BY <1>1, <2>2 DEF KernelAccepts
  <2>4. accepted' = Append(accepted, c)
    BY <1>1, <2>2 DEF KernelAccepts
  <2>5. backlog' \in Seq(Clients)
    BY <2>1
  <2>6. accepted' \in Seq(Clients)
    BY <1>t, <2>4 DEF RestType
  <2>7. socket' \in [Clients -> Fds \cup {None}]
    BY <1>t, <2>3 DEF RestType
  <2>8. UNCHANGED <<hungUp, sent, taken, delivered, bufferVars>>
    BY <1>1 DEF KernelAccepts
  <2> QED BY <1>t, <2>5, <2>6, <2>7, <2>8 DEF RestType, serverVars, bufferVars
<1>2. CASE KernelReads(i)
  <2>1. PICK c \in Clients : ReadFrom(c, r, i)
    BY <1>2, <1>r DEF KernelReads
  <2>2. UNCHANGED <<backlog, accepted, socket, hungUp, sent, delivered, bufMap>>
    BY <1>2 DEF KernelReads
  <2>3. bufRing' \in Seq(Bids) /\ held' \in [Clients -> Bids \cup {None}]
    <3>1. SelectBuffer(r)
      BY <2>1 DEF ReadFrom
    <3> QED BY <1>t, <3>1, BuffersType DEF SelectBuffer
  <2>4. /\ memory' \in [Slots -> Message \cup {None}] /\ taken' \in [Clients -> 0 .. MaxMessages]
        /\ \A d \in Clients : taken'[d] <= Len(sent[d])
    <3>t. /\ memory \in [Slots -> Message \cup {None}] /\ taken \in [Clients -> 0 .. MaxMessages]
          /\ \A d \in Clients : taken[d] <= Len(sent[d])
          /\ sent[c] \in Seq(Message) /\ Len(sent[c]) <= MaxMessages
      BY <1>t DEF RestType, IInv, ClientsOK
    <3>1. CASE taken[c] < Len(sent[c])
      <4>1. PICK s : /\ memory' = [memory EXCEPT ![s] = sent[c][taken[c] + 1]]
                     /\ taken' = [taken EXCEPT ![c] = @ + 1]
        BY <2>1, <3>1 DEF ReadFrom
      <4>2. sent[c][taken[c] + 1] \in Message /\ taken[c] + 1 \in 0 .. MaxMessages
        BY <3>t, <3>1, EchoAssumption
      <4>3. memory' \in [Slots -> Message \cup {None}]
        BY <3>t, <4>1, <4>2
      <4>4. taken' \in [Clients -> 0 .. MaxMessages]
        BY <3>t, <4>1, <4>2
      <4>5. \A d \in Clients : taken'[d] <= Len(sent[d])
        <5> TAKE d \in Clients
        <5>1. taken'[d] = IF d = c THEN taken[c] + 1 ELSE taken[d]
          BY <3>t, <4>1
        <5>2. taken[c] + 1 <= Len(sent[c])
          BY <3>t, <3>1, EchoAssumption
        <5> QED BY <3>t, <5>1, <5>2
      <4> QED BY <4>3, <4>4, <4>5
    <3>2. CASE ~(taken[c] < Len(sent[c]))
      <4>1. UNCHANGED <<memory, taken>>
        BY <2>1, <3>2 DEF ReadFrom
      <4> QED BY <3>t, <4>1
    <3> QED BY <3>1, <3>2
  <2> QED BY <1>t, <2>2, <2>3, <2>4 DEF RestType, serverVars
<1>3. CASE KernelWrites(i)
  <2>1. UNCHANGED <<backlog, accepted, socket, hungUp, sent, taken, bufferVars>>
    BY <1>3 DEF KernelWrites
  <2> DEFINE W == Message \cup {Word(1), Word(2)}
             said == IF program = "link" THEN <<Word(r.arg)>>
                     ELSE IF r.arg = 0 THEN << >> ELSE <<memory[Slot(r)]>>
  <2>2. PICK c \in Clients : socket[c] = r.fd /\ delivered' = [delivered EXCEPT ![c] = @ \o said]
    BY <1>3, <1>r DEF KernelWrites
  <2>3. r.op = "write"
    BY <1>3, <1>r, KernelsKind
  <2>4. said \in Seq(W)
    <3>1. CASE program = "link"
      <4>1. r.arg \in {1, 2}
        BY <1>r, <2>3, <3>1, KernelsRequest DEF LinkPending, AcceptRequest, Request
      <4> QED BY <3>1, <4>1
    <3>2. CASE program # "link" /\ r.arg = 0
      BY <3>2
    <3>3. CASE program # "link" /\ r.arg # 0
      <4>1. r \in Pending
        BY <1>r, <2>3, <3>3, KernelsRequest
      <4>2. r.fd # None /\ r.fd \in Fds /\ Serves(c, r)
        BY <1>t, <2>2, <2>3, <4>1, PendingSocket, EchoAssumption DEF IInv
      <4>3. Carrying(c)
        BY <2>2, <2>3, <3>3, <4>1, <4>2, PendingOf DEF IInv
      <4>4. Slot(r) = Room(c)
        BY <3>3, <4>2 DEF Slot, Room, Serves
      <4>5. memory[Slot(r)] = sent[c][taken[c]] /\ taken[c] = Len(delivered[c]) + 1
        BY <4>3, <4>4 DEF Carrying
      <4>6. /\ taken[c] \in 0 .. MaxMessages /\ taken[c] <= Len(sent[c]) /\ sent[c] \in Seq(Message)
            /\ delivered[c] \in Seq(W)
        BY <1>t DEF RestType
      <4>7. taken[c] \in 1 .. Len(sent[c])
        <5>1. Len(delivered[c]) \in Nat /\ Len(sent[c]) \in Nat
          BY <4>6
        <5> QED BY <4>5, <4>6, <5>1
      <4>8. sent[c][taken[c]] \in Message
        BY <4>6, <4>7
      <4>9. memory[Slot(r)] \in W
        BY <4>5, <4>8
      <4>10. said = <<memory[Slot(r)]>>
        BY <3>3
      <4> HIDE DEF said, W
      <4>11. \A m \in W : <<m>> \in Seq(W)
        OBVIOUS
      <4> QED BY <4>9, <4>10, <4>11
    <3> QED BY <3>1, <3>2, <3>3
  <2> HIDE DEF said
  <2>5. delivered' \in [Clients -> Seq(W)]
    <3>1. delivered \in [Clients -> Seq(W)]
      BY <1>t DEF RestType
    <3> HIDE DEF W
    <3>2. delivered[c] \o said \in Seq(W)
      BY <2>4, <3>1, ConcatProperties
    <3> QED BY <2>2, <3>1, <3>2
  <2> QED BY <1>t, <2>1, <2>5 DEF RestType, serverVars, bufferVars
<1>4. CASE KernelCloses(i)
  <2>1. socket' \in [Clients -> Fds \cup {None}]
    BY <1>t, <1>4 DEF KernelCloses, RestType
  <2> QED BY <1>t, <1>4, <2>1 DEF KernelCloses, RestType, serverVars, bufferVars
<1> QED BY <1>1, <1>2, <1>3, <1>4

LEMMA ServersType ==
  ASSUME IInv, OnAccept \/ OnRead \/ OnWrite \/ OnClose
  PROVE  RestType' /\ (program = "link" => operations' \in Seq(Clients \X Fds))
<1>t. RestType /\ TypeOK
  BY TypeSplits DEF IInv
<1>c. PICK op \in {"accept", "read", "write", "close"} : Handles(op)
  BY DEF OnAccept, OnRead, OnWrite, OnClose
<1>u. UNCHANGED <<program, up, clientVars, phase>> /\ cq # << >>
  BY <1>c DEF Handles
<1>e. PICK cqe \in Cqes : cqe = Head(cq)
  <2>1. cq \in Seq(Cqes)
    BY <1>t DEF TypeOK
  <2> QED BY <1>u, <2>1
<1>o. cqe.request.op = op /\ cqe.res # Failed
  BY <1>c, <1>e DEF Handles
<1>r. PICK r \in Requests : r = cqe.request
  BY DEF Cqes
<1>l. program = "link" => cqe \in LinkEnded
  <2> SUFFICES ASSUME program = "link" PROVE cqe \in LinkEnded
    OBVIOUS
  <2>1. cq \in Seq(LinkEnded)
    BY DEF IInv, LinkOK
  <2> QED BY <1>u, <1>e, <2>1
<1>n. program # "link" => cqe \in Ended
  <2> SUFFICES ASSUME program # "link" PROVE cqe \in Ended
    OBVIOUS
  <2>1. cq \in Seq(Ended)
    BY DEF IInv, QueuesOK
  <2> QED BY <1>u, <1>e, <2>1
<1>1. CASE OnAccept
  <2>1. r.op = "accept" /\ UNCHANGED <<memory, bufRing, held>>
    BY <1>1, <1>e, <1>r DEF OnAccept, Handles
  <2>2. r.task \in Clients /\ r.fd \in Fds
    <3>1. program = "link" => r.task \in Clients /\ r.fd \in Fds
      BY <1>l, <1>r DEF LinkEnded
    <3>2. program # "link" => r.task \in Clients /\ r.fd \in Fds
      BY <1>n, <1>r, <2>1 DEF Ended, EndedOK, Requests
    <3> QED BY <3>1, <3>2
  <2>3. bufMap' \subseteq Fds
    BY <1>1, <1>t, <1>e, <1>r, <2>2 DEF OnAccept, HandlerAccepts, ServerAccepts, RestType
  <2>4. awaiter' \in BOOLEAN
    <3>1. awaiter \in BOOLEAN /\ cqe.more \in BOOLEAN
      BY <1>t DEF RestType, Cqes
    <3>2. awaiter' = awaiter \/ awaiter' = (awaiter /\ cqe.more)
      BY <1>1, <1>e DEF OnAccept, HandlerAccepts, ServerAccepts, StaysOn
    <3> QED BY <3>1, <3>2
  <2>5. program = "link" => operations' \in Seq(Clients \X Fds)
    <3> SUFFICES ASSUME program = "link" PROVE operations' \in Seq(Clients \X Fds)
      OBVIOUS
    <3>1. operations' = Append(operations, <<r.task, r.fd>>)
      BY <1>1, <1>e, <1>r DEF OnAccept, ServerAccepts
    <3>2. PICK o \in Clients \X Fds : o = <<r.task, r.fd>>
      BY <2>2
    <3> QED BY <1>t, <3>1, <3>2 DEF TypeOK
  <2> QED BY <1>t, <1>u, <2>1, <2>3, <2>4, <2>5 DEF RestType, clientVars
<1>2. CASE OnRead \/ OnWrite \/ OnClose
  <2>1. UNCHANGED <<operations, awaiter, memory>> /\ bufMap' \subseteq bufMap
    BY <1>2 DEF OnRead, OnWrite, OnClose
  <2>2. bufRing' \in Seq(Bids) /\ held' \in [Clients -> Bids \cup {None}]
    <3>1. PICK cl : \/ op = "read" /\ Rejoin("read", FALSE, r.task)
                    \/ op = "write" /\ Rejoin("write", cl, r.task)
                    \/ op = "close" /\ Rejoin("close", TRUE, r.task)
      <4>1. CASE OnRead
        BY <1>e, <1>o, <1>r, <4>1 DEF OnRead, Handles
      <4>2. CASE OnWrite
        BY <1>e, <1>o, <1>r, <4>2 DEF OnWrite, Handles
      <4>3. CASE OnClose
        BY <1>e, <1>o, <1>r, <4>3 DEF OnClose, Handles
      <4> QED BY <1>2, <4>1, <4>2, <4>3
    <3>2. program = "buffers" /\ op \in {"write", "close"} => r.task \in Clients /\ held[r.task] # None
      <4> SUFFICES ASSUME program = "buffers", op \in {"write", "close"}
                   PROVE  r.task \in Clients /\ held[r.task] # None
        OBVIOUS
      <4>1. EndedOK(cqe) /\ r.op = op /\ cqe.res # Failed
        BY <1>n, <1>o, <1>r DEF Ended
      <4>2. CASE op = "write"
        BY <1>r, <4>1, <4>2 DEF EndedOK, Serves, Holding
      <4>3. CASE op = "close"
        BY <1>r, <4>1, <4>3 DEF EndedOK, Requests
      <4> QED BY <4>2, <4>3
    <3>3. \/ UNCHANGED <<held, bufRing>>
          \/ /\ r.task \in Clients /\ held[r.task] # None
             /\ bufRing' = Append(bufRing, held[r.task]) /\ held' = [held EXCEPT ![r.task] = None]
      BY <3>1, <3>2 DEF Rejoin, RejoinsAfter
    <3> QED BY <1>t, <3>3, BuffersType
  <2> QED BY <1>t, <1>u, <2>1, <2>2 DEF RestType, clientVars, TypeOK
<1> QED BY <1>1, <1>2

LEMMA NextType ==
  ASSUME IInv, [Next]_vars
  PROVE  TypeOK'
<1>t. RestType /\ TypeOK
  BY TypeSplits DEF IInv
<1>p. program' = program
  BY DEF Next, vars, Connect, Send, HangUp, KernelDoes, KernelFails, Server, OnAccept, OnRead,
         OnWrite, OnClose, Handles, OnFailure, OnBrokenChain, Launch, PassEnd
<1> DEFINE Started == program = "link" => operations' \in Seq(Clients \X Fds)
<1>0. program = "link" /\ operations' = operations => operations' \in Seq(Clients \X Fds)
  BY <1>t DEF TypeOK
<1>1. ASSUME NEW c \in Clients, Connect(c) \/ Send(c) \/ HangUp(c) PROVE RestType' /\ Started
  BY <1>0, <1>1, ClientsType DEF Connect, Send, HangUp, serverVars
<1>2. ASSUME KernelDoes PROVE RestType' /\ Started
  <2>1. UNCHANGED <<program, up, serverVars>>
    BY <1>2 DEF KernelDoes
  <2>2. PICK i \in DOMAIN kern :
          KernelAccepts(i) \/ KernelReads(i) \/ KernelWrites(i) \/ KernelCloses(i)
    BY <1>2 DEF KernelDoes
  <2> QED BY <1>0, <2>1, <2>2, KernelsType DEF serverVars
<1>3. ASSUME NEW i \in DOMAIN kern, KernelFails(i) PROVE RestType' /\ Started
  BY <1>0, <1>t, <1>3 DEF KernelFails, clientVars, serverVars, bufferVars, RestType
<1>4. ASSUME OnAccept \/ OnRead \/ OnWrite \/ OnClose PROVE RestType' /\ Started
  BY <1>4, ServersType
<1>5. ASSUME Launch \/ PassEnd \/ OnFailure \/ OnBrokenChain \/ UNCHANGED vars PROVE RestType' /\ Started
  <2>1. RestType'
    BY <1>t, <1>5 DEF Launch, PassEnd, OnFailure, OnBrokenChain, Resumable, vars, clientVars, serverVars, bufferVars, RestType
  <2>2. operations' = operations \/ operations' = << >>
    BY <1>5 DEF Launch, PassEnd, OnFailure, OnBrokenChain, vars, serverVars
  <2>3. << >> \in Seq(Clients \X Fds)
    OBVIOUS
  <2>4. operations' = << >> => operations' \in Seq(Clients \X Fds)
    BY <2>3
  <2> QED BY <1>0, <2>1, <2>2, <2>4
<1>6. RestType' /\ Started
  BY <1>1, <1>2, <1>3, <1>4, <1>5 DEF Next, Server
<1>7. QueuesType'
  <2>1. CASE program = "link"
    <3>1. LinkOK'
      BY NextLink
    <3>2. sq' \in Seq({AcceptRequest}) /\ kern' \in Seq(LinkPending) /\ cq' \in Seq(LinkEnded)
      BY <1>p, <2>1, <3>1 DEF LinkOK, LinkPending, LinkEnded
    <3>3. {AcceptRequest} \subseteq Requests /\ LinkPending \subseteq Requests /\ LinkEnded \subseteq Cqes
      BY DEF LinkPending, LinkEnded, AcceptRequest, Request, Requests
    <3>4. sq' \in Seq(Requests) /\ kern' \in Seq(Requests) /\ cq' \in Seq(Cqes)
      BY <3>2, <3>3, SeqWidens
    <3> QED BY <1>6, <2>1, <3>4 DEF QueuesType
  <2>2. CASE program # "link"
    <3>1. QueuesOK'
      BY NextQueues
    <3>2. /\ sq' \in Seq(Pending') /\ kern' \in Seq(Pending') /\ cq' \in Seq(Ended')
          /\ operations' \in Seq(Spawned')
      BY <1>p, <2>2, <3>1 DEF QueuesOK
    <3>3. Pending' \subseteq Requests /\ Ended' \subseteq Cqes /\ Spawned' \subseteq Clients \X Fds
      BY DEF Pending, Ended, Spawned
    <3>4. /\ sq' \in Seq(Requests) /\ kern' \in Seq(Requests) /\ cq' \in Seq(Cqes)
          /\ operations' \in Seq(Clients \X Fds)
      BY <3>2, <3>3, SeqWidens
    <3> QED BY <3>4 DEF QueuesType
  <2> QED BY <2>1, <2>2
<1> QED BY <1>6, <1>7, TypeSplits

-----------------------------------------------------------------------------
LEMMA InitIInv == Init => IInv
<1> SUFFICES ASSUME Init PROVE IInv
  OBVIOUS
<1>b. /\ bufRing \in Seq(Bids)
      /\ \A i, j \in 1 .. Len(bufRing) : bufRing[i] = bufRing[j] => i = j
      /\ \A x \in Bids : \E i \in 1 .. Len(bufRing) : bufRing[i] = x
  <2>1. IsFiniteSet(Bids)
    BY EchoAssumption
  <2>2. bufRing = SetToSeq(Bids)
    BY DEF Init, ProvidedBuffers
  <2> QED BY <2>1, <2>2, SetToSeqProperties
<1>a. AcceptRequest \in Pending /\ AcceptRequest \in Requests /\ AcceptRequest \in LinkPending
      /\ \A f \in Fds : AcceptRequest \notin OfFd(f)
  BY EchoAssumption DEF Pending, PendingOK, LinkPending, AcceptRequest, Request, Requests, OfFd
<1>q. sq = << >> /\ kern = <<AcceptRequest>> /\ cq = << >> /\ operations = << >>
  BY DEF Init
<1>1. TypeOK
  <2>1. QueuesType
    BY <1>a, <1>q DEF QueuesType
  <2>2. RestType
    <3>1. MaxMessages \in Nat
      BY EchoAssumption
    <3> QED BY <1>b, <3>1 DEF Init, RestType
  <2> QED BY <2>1, <2>2, TypeSplits
<1>2. QueuesOK
  BY <1>a, <1>q DEF QueuesOK
<1>3. PhaseOK
  BY DEF Init, PhaseOK
<1>4. ClientsOK
  <2>1. \A c \in Clients : Len(sent[c]) <= MaxMessages
    BY EchoAssumption DEF Init
  <2> QED BY <2>1 DEF Init, ClientsOK
<1>5. HandlersOK
  <2>1. ASSUME NEW f \in Fds
        PROVE  Handlers(f) = IF \E c \in Clients : socket[c] = f THEN 1 ELSE 0
    <3>1. Handlers(f) = 0
      BY <1>a, <1>q, CountNothing, CountOne DEF Handlers
    <3>2. ~ \E c \in Clients : socket[c] = f
      BY EchoAssumption DEF Init
    <3> QED BY <3>1, <3>2
  <2> QED BY <2>1 DEF HandlersOK
<1>6. BuffersOK
  <2>1. \A c \in Clients : held[c] = None /\ Count(cq, ClosedBy(c)) <= 1
    BY <1>q, CountNothing DEF Init
  <2>2. ASSUME NEW b \in Bids
        PROVE  Count(bufRing, {b}) = IF \E c \in Clients : held[c] = b THEN 0 ELSE 1
    <3>1. PICK k \in 1 .. Len(bufRing) : bufRing[k] = b
      BY <1>b
    <3> DEFINE I == {j \in DOMAIN bufRing : bufRing[j] \in {b}}
    <3>2. ASSUME NEW i PROVE i \in I <=> i = k
      <4>1. i \in I <=> i \in 1 .. Len(bufRing) /\ bufRing[i] = b
        BY <1>b
      <4> QED BY <1>b, <3>1, <4>1
    <3> HIDE DEF I
    <3>c. Cardinality(I) = 1
      <4>1. I = {k}
        BY <3>2
      <4> QED BY <4>1, FS_Singleton
    <3>3. Count(bufRing, {b}) = 1
      BY <3>c DEF Count, I
    <3> QED BY <2>1, <3>3, EchoAssumption
  <2> QED BY <2>1, <2>2 DEF BuffersOK
<1>7. LinkOK
  BY <1>a, <1>q DEF LinkOK
<1>8. EchoesInOrder
  <2>1. \A c \in Clients : delivered[c] = << >> /\ sent[c] = << >>
    BY DEF Init
  <2>2. IsPrefix(<< >>, << >>)
    BY DEF IsPrefix
  <2> QED BY <2>1, <2>2 DEF EchoesInOrder
<1> QED BY <1>1, <1>2, <1>3, <1>4, <1>5, <1>6, <1>7, <1>8 DEF IInv

LEMMA NextIInv == IInv /\ [Next]_vars => IInv'
<1> SUFFICES ASSUME IInv, [Next]_vars PROVE IInv'
  OBVIOUS
<1>1. TypeOK' /\ QueuesOK' /\ PhaseOK' /\ ClientsOK'
  BY NextType, NextQueues, NextPhase, NextClients
<1>2. HandlersOK' /\ BuffersOK' /\ LinkOK' /\ EchoesInOrder'
  BY NextHandlers, NextBuffers, NextLink, NextEchoes
<1> QED BY <1>1, <1>2 DEF IInv

(* All that the argument needs of the servers, whichever of them runs.     *)
THEOREM SpecIInv == Spec => []IInv
<1>1. Init => IInv
  BY InitIInv
<1>2. IInv /\ [Next]_vars => IInv'
  BY NextIInv
<1> QED BY <1>1, <1>2, PTL DEF Spec

(* Requests, cqes, buffers and messages stay what the model says they are. *)
THEOREM SpecTypeOK == Spec => []TypeOK
<1>1. IInv => TypeOK
  BY DEF IInv
<1> QED BY <1>1, SpecIInv, PTL

(* echo.cpp and every coroutine but the linked one write to a client what  *)
(* that client sent, in that order, and nothing else, although descriptors *)
(* and buffers change hands.                                               *)
THEOREM SpecEchoesInOrder == Spec => []EchoesInOrder
<1>1. IInv => EchoesInOrder
  BY DEF IInv
<1> QED BY <1>1, SpecIInv, PTL

(* On every open descriptor there is one request, cqe or coroutine to go   *)
(* on with, and none on a descriptor that is closed.                       *)
THEOREM SpecOneHandlerEach == Spec => []OneHandlerEach
<1>1. IInv => OneHandlerEach
  <2> SUFFICES ASSUME IInv, program # "link", NEW f \in Fds
               PROVE  OnDescriptor(f) = IF \E c \in Clients : socket[c] = f THEN 1 ELSE 0
    BY DEF OneHandlerEach
  <2>t. /\ sq \in Seq(Requests) /\ kern \in Seq(Requests) /\ cq \in Seq(Cqes)
        /\ operations \in Seq(Clients \X Fds)
    BY DEF IInv, TypeOK
  <2>1. {i \in DOMAIN sq : sq[i] \in OfFd(f)} = {i \in DOMAIN sq : sq[i].fd = f}
    BY <2>t DEF OfFd
  <2>2. {i \in DOMAIN kern : kern[i] \in OfFd(f)} = {i \in DOMAIN kern : kern[i].fd = f}
    BY <2>t DEF OfFd
  <2>3. {i \in DOMAIN cq : cq[i] \in OpenOn(f)}
          = {i \in DOMAIN cq : cq[i].request.fd = f /\ cq[i].request.op # "close"}
    BY <2>t DEF OpenOn
  <2>4. {i \in DOMAIN operations : operations[i] \in SpawnedOn(f)}
          = {i \in DOMAIN operations : operations[i][2] = f}
    <3>1. \A i \in DOMAIN operations : operations[i] \in Clients \X Fds
      BY <2>t
    <3> QED BY <3>1 DEF SpawnedOn
  <2>5. OnDescriptor(f) = Handlers(f)
    BY <2>1, <2>2, <2>3, <2>4 DEF OnDescriptor, Handlers, Count
  <2> QED BY <2>5 DEF IInv, HandlersOK
<1> QED BY <1>1, SpecIInv, PTL

(* The element of buf_map that holds the buffer of a read or a write lives *)
(* as long as the request (echo.cpp).                                      *)
THEOREM SpecNoErasedBuffer == Spec => []NoErasedBuffer
<1>1. IInv => NoErasedBuffer
  <2> SUFFICES ASSUME IInv, program = "echo", NEW i \in DOMAIN kern, kern[i].op \in {"read", "write"}
               PROVE  kern[i].fd \in bufMap
    BY DEF NoErasedBuffer
  <2>r. PICK r \in Requests : r = kern[i]
    BY DEF IInv, TypeOK
  <2>1. r \in Pending
    BY <2>r DEF IInv, QueuesOK
  <2>2. PICK c \in Clients : socket[c] = r.fd
    BY <2>1, <2>r, PendingSocket DEF IInv
  <2>3. r.fd # None
    BY <2>1, <2>r, PendingSocket, EchoAssumption DEF IInv
  <2>4. Mapped(c)
    BY <2>1, <2>2, <2>3, <2>r, PendingOf DEF IInv
  <2> QED BY <2>2, <2>4, <2>r DEF Mapped
<1> QED BY <1>1, SpecIInv, PTL

(* buffer_rejoin() returns every provided buffer that was taken, once.     *)
THEOREM SpecBuffersHaveOneOwner == Spec => []BuffersHaveOneOwner
<1>1. IInv => BuffersHaveOneOwner
  <2> SUFFICES ASSUME IInv, program = "buffers", NEW b \in Bids
               PROVE  Cardinality({i \in DOMAIN bufRing : bufRing[i] = b})
                        + Cardinality({c \in Clients : held[c] = b}) = 1
    BY DEF BuffersHaveOneOwner
  <2> DEFINE H == {c \in Clients : held[c] = b}
  <2>0. b # None
    BY EchoAssumption
  <2>1. /\ \A c, d \in Clients : held[c] = held[d] /\ held[c] # None => c = d
        /\ Count(bufRing, {b}) = IF \E c \in Clients : held[c] = b THEN 0 ELSE 1
    BY DEF IInv, BuffersOK
  <2>2. Cardinality({i \in DOMAIN bufRing : bufRing[i] = b}) = Count(bufRing, {b})
    <3>1. {i \in DOMAIN bufRing : bufRing[i] = b} = {i \in DOMAIN bufRing : bufRing[i] \in {b}}
      OBVIOUS
    <3> QED BY <3>1 DEF Count
  <2>3. CASE \E c \in Clients : held[c] = b
    <3>1. PICK c \in Clients : held[c] = b
      BY <2>3
    <3>2. \A d : d \in H <=> d = c
      BY <2>0, <2>1, <3>1
    <3> HIDE DEF H
    <3>3. Cardinality(H) = 1
      BY <3>2, SetOfOne
    <3>4. Count(bufRing, {b}) = 0
      BY <2>1, <2>3
    <3> QED BY <2>2, <3>3, <3>4 DEF H
  <2>4. CASE ~ \E c \in Clients : held[c] = b
    <3>1. \A d : d \notin H
      BY <2>4
    <3> HIDE DEF H
    <3>2. Cardinality(H) = 0
      BY <3>1, SetOfNone
    <3>3. Count(bufRing, {b}) = 1
      BY <2>1, <2>4
    <3> QED BY <2>2, <3>2, <3>3 DEF H
  <2> QED BY <2>3, <2>4
<1> QED BY <1>1, SpecIInv, PTL

-----------------------------------------------------------------------------
(* With linked requests: a place in the chain, and what a client was told  *)
(* when the n-th request of its chain is done.                             *)
Stage(r) == IF r.op = "close" THEN 3 ELSE r.arg
Said(n) == IF n = 0 THEN << >> ELSE IF n = 1 THEN <<Word(1)>> ELSE <<Word(1), Word(2)>>

ChainsInOrder ==
  /\ \A i \in DOMAIN kern : kern[i].op # "accept" => socket[kern[i].task] = kern[i].fd
  /\ \A i, j \in DOMAIN kern : i < j /\ kern[i].op # "accept" /\ kern[i].task = kern[j].task =>
       Stage(kern[i]) < Stage(kern[j])

\* A request is the first of its chain that is left, or there is the one
\* before it.
EachAfterThePrevious ==
  \A i \in DOMAIN kern : kern[i].op # "accept" =>
    \/ delivered[kern[i].task] = Said(Stage(kern[i]) - 1)
    \/ \E j \in 1 .. i - 1 : kern[j].task = kern[i].task /\ Stage(kern[j]) = Stage(kern[i]) - 1

\* Client c was accepted, and is still to have a chain.
NotBegun(c, f) ==
  /\ socket[c] = f /\ delivered[c] = << >>
  /\ \A i \in DOMAIN kern : kern[i].task # c
Accepting(i) == cq[i].request.op = "accept"

BegunOnce ==
  /\ \A i \in DOMAIN operations : NotBegun(operations[i][1], operations[i][2])
  /\ \A i \in DOMAIN cq : Accepting(i) => NotBegun(cq[i].request.task, cq[i].request.fd)
  /\ \A i, j \in DOMAIN operations : operations[i][1] = operations[j][1] => i = j
  /\ \A i, j \in DOMAIN cq : Accepting(i) /\ Accepting(j) /\ cq[i].request.task = cq[j].request.task => i = j
  /\ \A i \in DOMAIN cq, j \in DOMAIN operations : Accepting(i) => cq[i].request.task # operations[j][1]

Linked == program = "link" => ChainsInOrder /\ EachAfterThePrevious /\ BegunOnce

-----------------------------------------------------------------------------
(* A queue without some of its requests: where each was.                   *)
Places(q, r, m) == /\ m \in [DOMAIN r -> DOMAIN q]
                   /\ \A p \in DOMAIN r : r[p] = q[m[p]]
                   /\ \A p, s \in DOMAIN r : p < s => m[p] < m[s]

\* Those of K are kept.
Kept(q, r, m, K) == /\ Places(q, r, m)
                    /\ \A p \in DOMAIN r : m[p] \in K
                    /\ \A j \in K : \E p \in DOMAIN r : m[p] = j

LEMMA RemoveAtPlaces ==
  ASSUME NEW S, NEW q \in Seq(S), NEW i \in DOMAIN q
  PROVE  \E m : Kept(q, RemoveAt(q, i), m, DOMAIN q \ {i})
<1> DEFINE r == RemoveAt(q, i)
           m == [p \in DOMAIN r |-> IF p < i THEN p ELSE p + 1]
<1>1. i \in 1 .. Len(q) /\ Len(q) \in Nat /\ DOMAIN q = 1 .. Len(q)
  OBVIOUS
<1>2. /\ r \in Seq(S) /\ Len(r) = Len(q) - 1
      /\ \A j \in 1 .. Len(q) - 1 : r[j] = IF j < i THEN q[j] ELSE q[j + 1]
  BY <1>1, RemoveAtProperties
<1> HIDE DEF r
<1>3. DOMAIN r = 1 .. Len(q) - 1
  BY <1>2
<1>4. \A p \in DOMAIN r : m[p] = IF p < i THEN p ELSE p + 1
  OBVIOUS
<1>5. m \in [DOMAIN r -> DOMAIN q]
  <2>1. \A p \in DOMAIN r : (IF p < i THEN p ELSE p + 1) \in DOMAIN q
    BY <1>1, <1>3
  <2> QED BY <2>1
<1> HIDE DEF m
<1>6. Places(q, r, m)
  <2>1. \A p \in DOMAIN r : r[p] = q[m[p]]
    BY <1>2, <1>3, <1>4
  <2>2. \A p, s \in DOMAIN r : p < s => m[p] < m[s]
    BY <1>1, <1>3, <1>4
  <2> QED BY <1>5, <2>1, <2>2 DEF Places
<1>7. ASSUME NEW j \in DOMAIN q, j # i PROVE \E p \in DOMAIN r : m[p] = j
  <2>1. CASE j < i
    <3>1. j \in DOMAIN r /\ m[j] = j
      BY <1>1, <1>3, <1>4, <2>1
    <3> QED BY <3>1
  <2>2. CASE j > i
    <3>1. j - 1 \in DOMAIN r /\ m[j - 1] = j
      BY <1>1, <1>3, <1>4, <2>2
    <3> QED BY <3>1
  <2> QED BY <1>1, <1>7, <2>1, <2>2
<1>8. \A p \in DOMAIN r : m[p] # i
  BY <1>1, <1>3, <1>4
<1>9. Kept(q, r, m, DOMAIN q \ {i})
  BY <1>5, <1>6, <1>7, <1>8 DEF Kept
<1> QED BY <1>9 DEF r

LEMMA WithoutChainPlaces ==
  ASSUME NEW S, NEW q \in Seq(S), NEW c
  PROVE  \E m : Kept(q, WithoutChain(q, c), m, {j \in DOMAIN q : q[j].task # c})
<1> DEFINE s == [i \in DOMAIN q |-> IF q[i].task = c THEN << >> ELSE <<q[i]>>]
           w == FlattenSeq(s)
<1>q. DOMAIN q = 1 .. Len(q) /\ Len(q) \in Nat
  OBVIOUS
<1>s. /\ s \in [1 .. Len(q) -> Seq(S)]
      /\ \A i \in DOMAIN q : s[i] = IF q[i].task = c THEN << >> ELSE <<q[i]>>
  <2>1. \A i \in DOMAIN q : (IF q[i].task = c THEN << >> ELSE <<q[i]>>) \in Seq(S)
    OBVIOUS
  <2> QED BY <1>q, <2>1
<1>w. WithoutChain(q, c) = w /\ w \in Seq(S)
  BY ChainCancelled DEF WithoutChain
<1> HIDE DEF s, w
<1>l. s \in Seq(Seq(S)) /\ Len(s) = Len(q)
  BY <1>q, <1>s
<1>k. ASSUME NEW i \in DOMAIN q
      PROVE  /\ q[i].task = c => Len(s[i]) = 0
             /\ q[i].task # c => Len(s[i]) = 1 /\ s[i][1] = q[i]
  <2>1. CASE q[i].task = c
    <3>1. s[i] = << >>
      BY <1>s, <2>1
    <3> QED BY <2>1, <3>1
  <2>2. CASE q[i].task # c
    <3>1. s[i] = <<q[i]>>
      BY <1>s, <2>2
    <3>2. \A x : Len(<<x>>) = 1 /\ <<x>>[1] = x
      OBVIOUS
    <3> QED BY <2>2, <3>1, <3>2
  <2> QED BY <2>1, <2>2
<1> DEFINE K == {j \in DOMAIN q : q[j].task # c}
           Goal == \E m : Kept(q, w, m, K)
<1>1. ASSUME Len(s) = 0 PROVE Goal
  <2>1. w = << >> /\ DOMAIN q = {}
    BY <1>q, <1>l, <1>w, <1>1 DEF w, FlattenSeq
  <2>2. Kept(q, w, << >>, K)
    BY <2>1 DEF Kept, Places
  <2> QED BY <2>2
<1>2. ASSUME Len(s) > 0 PROVE Goal
  <2>1. PICK off \in [1 .. Len(s) -> Nat] :
           /\ \A i \in 1 .. Len(s) : \A k \in 1 .. Len(s[i]) :
                /\ off[i] + k \in 1 .. Len(w)
                /\ w[off[i] + k] = s[i][k]
           /\ \A p \in 1 .. Len(w) :
                \E i \in 1 .. Len(s) : \E k \in 1 .. Len(s[i]) : p = off[i] + k
           /\ \A i, j \in 1 .. Len(s) : i < j => off[i] + Len(s[i]) <= off[j]
    BY <1>l, <1>2, FlattenSeqPlaces DEF w
  <2>2. DOMAIN w = 1 .. Len(w)
    BY <1>w
  <2>3. ASSUME NEW j \in DOMAIN q, q[j].task # c
        PROVE  off[j] + 1 \in DOMAIN w /\ w[off[j] + 1] = q[j]
    <3>1. 1 \in 1 .. Len(s[j]) /\ j \in 1 .. Len(s)
      BY <1>q, <1>l, <1>k, <2>3
    <3> QED BY <1>k, <2>1, <2>2, <2>3, <3>1
  <2>4. ASSUME NEW p \in DOMAIN w
        PROVE  \E j \in DOMAIN q : q[j].task # c /\ p = off[j] + 1
    <3>1. PICK i \in 1 .. Len(s) : \E k \in 1 .. Len(s[i]) : p = off[i] + k
      BY <2>1, <2>2
    <3>2. PICK k \in 1 .. Len(s[i]) : p = off[i] + k
      BY <3>1
    <3>3. i \in DOMAIN q
      BY <1>q, <1>l
    <3>4. q[i].task # c
      BY <1>k, <3>3
    <3>5. k = 1
      <4>1. Len(s[i]) = 1
        BY <1>k, <3>3, <3>4
      <4> QED BY <3>2, <4>1
    <3> QED BY <3>2, <3>3, <3>4, <3>5
  <2> DEFINE m == [p \in DOMAIN w |-> CHOOSE j \in DOMAIN q : q[j].task # c /\ p = off[j] + 1]
  <2>5. \A p \in DOMAIN w : m[p] \in DOMAIN q /\ q[m[p]].task # c /\ p = off[m[p]] + 1
    BY <2>4
  <2>6. m \in [DOMAIN w -> DOMAIN q]
    BY <2>5
  <2> HIDE DEF m
  <2>o. \A j \in DOMAIN q : off[j] \in Nat
    BY <1>q, <1>l
  <2>7. ASSUME NEW j \in DOMAIN q, NEW l \in DOMAIN q, q[l].task # c, off[j] < off[l] PROVE j < l
    <3> SUFFICES ASSUME ~(j < l) PROVE FALSE
      OBVIOUS
    <3>1. l < j
      BY <1>q, <2>o, <2>7
    <3>2. off[l] + 1 <= off[j]
      <4>1. j \in 1 .. Len(s) /\ l \in 1 .. Len(s)
        BY <1>q, <1>l
      <4> QED BY <1>k, <2>1, <2>7, <3>1, <4>1
    <3> QED BY <2>7, <2>o, <3>2
  <2>8. ASSUME NEW j \in DOMAIN q, NEW l \in DOMAIN q, q[j].task # c, q[l].task # c, off[j] = off[l] PROVE j = l
    <3>1. j < l => FALSE
      <4>1. j \in 1 .. Len(s) /\ l \in 1 .. Len(s)
        BY <1>q, <1>l
      <4>2. j < l => off[j] + 1 <= off[l]
        BY <1>k, <2>1, <2>8, <4>1
      <4> QED BY <2>o, <2>8, <4>2
    <3>2. l < j => FALSE
      <4>1. j \in 1 .. Len(s) /\ l \in 1 .. Len(s)
        BY <1>q, <1>l
      <4>2. l < j => off[l] + 1 <= off[j]
        BY <1>k, <2>1, <2>8, <4>1
      <4> QED BY <2>o, <2>8, <4>2
    <3> QED BY <1>q, <3>1, <3>2
  <2>9. Places(q, w, m)
    <3>1. \A p \in DOMAIN w : w[p] = q[m[p]]
      BY <2>3, <2>5
    <3>2. ASSUME NEW p \in DOMAIN w, NEW t \in DOMAIN w, p < t PROVE m[p] < m[t]
      <4>1. off[m[p]] < off[m[t]]
        BY <2>5, <2>o, <3>2
      <4> QED BY <2>5, <2>7, <4>1
    <3> QED BY <2>6, <3>1, <3>2 DEF Places
  <2>10. ASSUME NEW j \in DOMAIN q, q[j].task # c PROVE \E p \in DOMAIN w : m[p] = j
    <3>1. off[j] + 1 \in DOMAIN w
      BY <2>3, <2>10
    <3>2. off[m[off[j] + 1]] = off[j]
      BY <2>5, <2>o, <3>1
    <3>3. m[off[j] + 1] = j
      BY <2>5, <2>8, <2>10, <3>1, <3>2
    <3> QED BY <3>1, <3>3
  <2>11. Kept(q, w, m, K)
    BY <2>5, <2>9, <2>10 DEF Kept
  <2> QED BY <2>11
<1> HIDE DEF Goal
<1>3. Goal
  BY <1>q, <1>l, <1>1, <1>2
<1> QED BY <1>3, <1>w DEF Goal

-----------------------------------------------------------------------------
LEMMA ChainRequest ==
  ASSUME IInv, program = "link", NEW i \in DOMAIN kern
  PROVE  /\ kern[i].op = "accept" => kern[i].task = None
         /\ kern[i].op # "accept" =>
              /\ kern[i].task \in Clients /\ kern[i].fd \in Fds
              /\ Stage(kern[i]) \in {1, 2, 3}
              /\ \/ kern[i].op = "write" /\ kern[i].arg = Stage(kern[i]) /\ kern[i].arg \in {1, 2}
                 \/ kern[i].op = "close" /\ Stage(kern[i]) = 3
<1>1. PICK r \in LinkPending : r = kern[i]
  BY DEF IInv, LinkOK
<1>2. CASE r = AcceptRequest
  BY <1>1, <1>2 DEF AcceptRequest, Request
<1>3. CASE r # AcceptRequest
  <2>1. /\ r.task \in Clients /\ r.fd \in Fds
        /\ (r.op = "write" /\ r.arg \in {1, 2}) \/ r.op = "close"
    BY <1>3 DEF LinkPending
  <2> QED BY <1>1, <2>1 DEF Stage
<1> QED BY <1>2, <1>3

\* A step of the kernel that is about client c: what it leaves the others,
\* and how it leaves the rest of c's chain.
OthersAsBefore(c) == \A d \in Clients \ {c} : socket'[d] = socket[d] /\ delivered'[d] = delivered[d]
ChainsKept(m, c) ==
  \A j \in DOMAIN kern : kern[j].task \in Clients \ {c} => \E p \in DOMAIN kern' : m[p] = j
RestInOrder(c) ==
  \A p \in DOMAIN kern' : kern'[p].op # "accept" /\ kern'[p].task = c =>
    /\ socket'[c] = kern'[p].fd
    /\ \/ delivered'[c] = Said(Stage(kern'[p]) - 1)
       \/ \E s \in 1 .. p - 1 : kern'[s].task = c /\ Stage(kern'[s]) = Stage(kern'[p]) - 1

(* Requests of one client c left the kernel, or an accept did.             *)
LEMMA ChainsShrink ==
  ASSUME IInv, program = "link", ChainsInOrder, EachAfterThePrevious,
         NEW m, Places(kern, kern', m), kern' \in Seq(Requests),
         NEW c, OthersAsBefore(c), ChainsKept(m, c), RestInOrder(c)
  PROVE  ChainsInOrder' /\ EachAfterThePrevious'
<1> USE DEF OthersAsBefore, ChainsKept, RestInOrder
<1>m. /\ \A p \in DOMAIN kern' : m[p] \in DOMAIN kern /\ kern'[p] = kern[m[p]]
      /\ \A p, s \in DOMAIN kern' : p < s => m[p] < m[s]
  BY DEF Places
<1>k. DOMAIN kern \subseteq Int
  BY DEF IInv, TypeOK
<1>1. ASSUME NEW p \in DOMAIN kern', kern'[p].op # "accept"
      PROVE  socket'[kern'[p].task] = kern'[p].fd
  <2>1. CASE kern'[p].task = c
    BY <1>1, <2>1
  <2>2. CASE kern'[p].task # c
    <3>1. m[p] \in DOMAIN kern /\ kern'[p] = kern[m[p]]
      BY <1>m
    <3>2. kern[m[p]].task \in Clients
      BY <1>1, <3>1, ChainRequest
    <3>3. socket[kern[m[p]].task] = kern[m[p]].fd
      BY <1>1, <3>1 DEF ChainsInOrder
    <3> QED BY <2>2, <3>1, <3>2, <3>3
  <2> QED BY <2>1, <2>2
<1>2. ASSUME NEW p \in DOMAIN kern', NEW s \in DOMAIN kern', p < s,
             kern'[p].op # "accept", kern'[p].task = kern'[s].task
      PROVE  Stage(kern'[p]) < Stage(kern'[s])
  <2>1. /\ m[p] \in DOMAIN kern /\ m[s] \in DOMAIN kern /\ m[p] < m[s]
        /\ kern'[p] = kern[m[p]] /\ kern'[s] = kern[m[s]]
    BY <1>m, <1>2
  <2>2. Stage(kern[m[p]]) < Stage(kern[m[s]])
    BY <1>2, <2>1 DEF ChainsInOrder
  <2> QED BY <2>1, <2>2
<1>3. ChainsInOrder'
  BY <1>1, <1>2 DEF ChainsInOrder, Stage
<1>4. ASSUME NEW p \in DOMAIN kern', kern'[p].op # "accept"
      PROVE  \/ delivered'[kern'[p].task] = Said(Stage(kern'[p]) - 1)
             \/ \E s \in 1 .. p - 1 : kern'[s].task = kern'[p].task /\ Stage(kern'[s]) = Stage(kern'[p]) - 1
  <2>1. CASE kern'[p].task = c
    BY <1>4, <2>1
  <2>2. CASE kern'[p].task # c
    <3>1. m[p] \in DOMAIN kern /\ kern'[p] = kern[m[p]]
      BY <1>m
    <3>2. kern[m[p]].task \in Clients \ {c}
      BY <1>4, <2>2, <3>1, ChainRequest
    <3>3. \/ delivered[kern[m[p]].task] = Said(Stage(kern[m[p]]) - 1)
          \/ \E j \in 1 .. m[p] - 1 : kern[j].task = kern[m[p]].task /\ Stage(kern[j]) = Stage(kern[m[p]]) - 1
      BY <1>4, <3>1 DEF EachAfterThePrevious
    <3>4. CASE delivered[kern[m[p]].task] = Said(Stage(kern[m[p]]) - 1)
      BY <3>1, <3>2, <3>4
    <3>5. ASSUME NEW j \in 1 .. m[p] - 1, kern[j].task = kern[m[p]].task, Stage(kern[j]) = Stage(kern[m[p]]) - 1
          PROVE  \E s \in 1 .. p - 1 : kern'[s].task = kern'[p].task /\ Stage(kern'[s]) = Stage(kern'[p]) - 1
      <4>1. j \in DOMAIN kern /\ j < m[p]
        <5>1. kern \in Seq(Requests)
          BY DEF IInv, TypeOK
        <5> QED BY <3>1, <5>1
      <4>2. PICK s \in DOMAIN kern' : m[s] = j
        BY <3>2, <3>5, <4>1
      <4>3. s < p
        <5>1. s \in Int /\ p \in Int /\ j \in Int /\ m[p] \in Int
          BY <1>k, <3>1, <4>1
        <5> QED BY <1>m, <4>1, <4>2, <5>1
      <4>4. s \in 1 .. p - 1
        BY <4>3
      <4>5. kern'[s] = kern[j]
        BY <1>m, <4>2
      <4> QED BY <3>1, <3>5, <4>4, <4>5
    <3> QED BY <3>3, <3>4, <3>5
  <2> QED BY <2>1, <2>2
<1>5. EachAfterThePrevious'
  BY <1>4 DEF EachAfterThePrevious, Stage
<1> QED BY <1>3, <1>5

(* The same of the connections that are to have a chain.                   *)
LEMMA BegunShrinks ==
  ASSUME IInv, program = "link", BegunOnce,
         NEW m, Places(kern, kern', m), NEW i \in DOMAIN kern, kern[i].op # "accept",
         OthersAsBefore(kern[i].task),
         operations' = operations,
         cq' = cq \/ \E e \in Cqes : e.request.op # "accept" /\ cq' = Append(cq, e)
  PROVE  BegunOnce'
<1>t. cq \in Seq(LinkEnded) /\ cq \in Seq(Cqes) /\ operations \in Seq(Clients \X Fds)
  BY DEF IInv, TypeOK, LinkOK
<1>1. ASSUME NEW d \in Clients, NEW f, NotBegun(d, f)
      PROVE  NotBegun(d, f)'
  <2>1. d # kern[i].task
    BY <1>1 DEF NotBegun
  <2>2. \A p \in DOMAIN kern' : \E j \in DOMAIN kern : kern'[p] = kern[j]
    BY DEF Places
  <2> QED BY <1>1, <2>1, <2>2 DEF NotBegun, OthersAsBefore
<1>2. \A j \in DOMAIN cq' : Accepting(j)' => j \in DOMAIN cq /\ cq'[j] = cq[j] /\ Accepting(j)
  <2>1. CASE cq' = cq
    BY <2>1 DEF Accepting
  <2>2. ASSUME NEW e \in Cqes, e.request.op # "accept", cq' = Append(cq, e)
        PROVE  \A j \in DOMAIN cq' : Accepting(j)' => j \in DOMAIN cq /\ cq'[j] = cq[j] /\ Accepting(j)
    <3>1. ASSUME NEW j \in DOMAIN cq' PROVE (j \in DOMAIN cq /\ cq'[j] = cq[j]) \/ cq'[j] = e
      BY <1>t, <2>2
    <3> QED BY <2>2, <3>1 DEF Accepting
  <2> QED BY <2>1, <2>2
<1>3. \A j \in DOMAIN cq : cq[j].request.task \in Clients
  BY <1>t DEF LinkEnded
<1>4. \A j \in DOMAIN operations : operations[j][1] \in Clients
  BY <1>t
<1>5. ASSUME NEW j \in DOMAIN operations', NEW d, NEW f, d = operations'[j][1], f = operations'[j][2]
      PROVE  NotBegun(d, f)'
  <2>1. NotBegun(d, f) /\ d \in Clients
    BY <1>4, <1>5 DEF BegunOnce
  <2> QED BY <1>1, <2>1
<1>6. ASSUME NEW j \in DOMAIN cq', NEW d, NEW f, Accepting(j)', d = cq'[j].request.task, f = cq'[j].request.fd
      PROVE  NotBegun(d, f)'
  <2>1. j \in DOMAIN cq /\ cq'[j] = cq[j] /\ Accepting(j)
    BY <1>2, <1>6
  <2>2. NotBegun(d, f) /\ d \in Clients
    BY <1>3, <1>6, <2>1 DEF BegunOnce
  <2> QED BY <1>1, <2>2
<1>7. ASSUME NEW j \in DOMAIN cq', NEW k \in DOMAIN cq', Accepting(j)', Accepting(k)',
             cq'[j].request.task = cq'[k].request.task
      PROVE  j = k
  <2>1. /\ j \in DOMAIN cq /\ cq'[j] = cq[j] /\ Accepting(j)
        /\ k \in DOMAIN cq /\ cq'[k] = cq[k] /\ Accepting(k)
    BY <1>2, <1>7
  <2> QED BY <1>7, <2>1 DEF BegunOnce
<1>8. ASSUME NEW j \in DOMAIN cq', NEW k \in DOMAIN operations', Accepting(j)'
      PROVE  cq'[j].request.task # operations'[k][1]
  <2>1. j \in DOMAIN cq /\ cq'[j] = cq[j] /\ Accepting(j)
    BY <1>2, <1>8
  <2> QED BY <1>8, <2>1 DEF BegunOnce
<1>9. \A j, k \in DOMAIN operations' : operations'[j][1] = operations'[k][1] => j = k
  BY DEF BegunOnce
<1>10. /\ \A j \in DOMAIN operations' : NotBegun(operations[j][1], operations[j][2])'
       /\ \A j \in DOMAIN cq' : Accepting(j)' => NotBegun(cq[j].request.task, cq[j].request.fd)'
  BY <1>5, <1>6
<1>11. /\ \A j, k \in DOMAIN cq' : Accepting(j)' /\ Accepting(k)' /\ cq'[j].request.task = cq'[k].request.task => j = k
       /\ \A j \in DOMAIN cq', k \in DOMAIN operations' : Accepting(j)' => cq'[j].request.task # operations'[k][1]
  BY <1>7, <1>8
<1> QED BY <1>9, <1>10, <1>11 DEF BegunOnce

(* The request of a chain that may start has nothing of it before.         *)
LEMMA ChainStarts ==
  ASSUME IInv, program = "link", ChainsInOrder, EachAfterThePrevious,
         NEW i \in DOMAIN kern, MayStart(i), kern[i].op # "accept"
  PROVE  /\ delivered[kern[i].task] = Said(Stage(kern[i]) - 1)
         /\ \A j \in DOMAIN kern : kern[j].task = kern[i].task /\ j # i =>
              j > i /\ Stage(kern[j]) > Stage(kern[i])
<1>k. DOMAIN kern = 1 .. Len(kern) /\ Len(kern) \in Nat
  BY DEF IInv, TypeOK
<1>1. \A j \in 1 .. i - 1 : kern[j].task # kern[i].task
  BY DEF MayStart, LinkOrder
<1>2. ASSUME NEW j \in DOMAIN kern, kern[j].task = kern[i].task, j # i
      PROVE  j > i /\ Stage(kern[j]) > Stage(kern[i])
  <2>1. j > i
    BY <1>k, <1>1, <1>2
  <2>2. Stage(kern[i]) < Stage(kern[j])
    BY <1>2, <2>1 DEF ChainsInOrder
  <2>3. kern[i].task \in Clients /\ Stage(kern[i]) \in {1, 2, 3}
    BY ChainRequest
  <2>4. kern[j].op # "accept"
    BY <1>2, <2>3, EchoAssumption, ChainRequest
  <2>5. Stage(kern[j]) \in {1, 2, 3}
    BY <2>4, ChainRequest
  <2> QED BY <2>1, <2>2, <2>3, <2>5
<1>3. delivered[kern[i].task] = Said(Stage(kern[i]) - 1)
  BY <1>1 DEF EachAfterThePrevious
<1> QED BY <1>2, <1>3

LEMMA OneOnDescriptor ==
  ASSUME IInv, program = "link", ChainsInOrder, NEW i \in DOMAIN kern, kern[i].op # "accept",
         NEW d \in Clients, socket[d] = kern[i].fd
  PROVE  d = kern[i].task
<1>1. kern[i].task \in Clients /\ kern[i].fd \in Fds
  BY ChainRequest
<1>2. socket[kern[i].task] = kern[i].fd
  BY DEF ChainsInOrder
<1>3. kern[i].fd # None
  BY <1>1, EchoAssumption
<1> QED BY <1>1, <1>2, <1>3 DEF IInv, ClientsOK

LEMMA SaidGrows ==
  /\ \A n \in {1, 2} : Said(n - 1) \o <<Word(n)>> = Said(n)
  /\ \A n, k \in {1, 2, 3} : n < k => Said(n - 1) # Said(k - 1)
<1>1. Said(1 - 1) \o <<Word(1)>> = Said(1)
  BY DEF Said
<1>2. Said(2 - 1) \o <<Word(2)>> = Said(2)
  <2>1. ASSUME NEW x, NEW y PROVE <<x>> \o <<y>> = <<x, y>>
    <3> DEFINE z == <<x>> \o <<y>>
    <3>1. /\ z \in Seq({x, y}) /\ Len(z) = 2
          /\ \A i \in 1 .. 2 : z[i] = IF i <= 1 THEN <<x>>[i] ELSE <<y>>[i - 1]
      <4>1. <<x>> \in Seq({x, y}) /\ <<y>> \in Seq({x, y}) /\ Len(<<x>>) = 1 /\ Len(<<y>>) = 1
        OBVIOUS
      <4> QED BY <4>1, ConcatProperties
    <3>2. z[1] = x /\ z[2] = y
      BY <3>1
    <3> HIDE DEF z
    <3>3. z = <<x, y>>
      BY <3>1, <3>2
    <3> QED BY <3>3 DEF z
  <2> QED BY <2>1 DEF Said
<1>3. Len(Said(1 - 1)) = 0 /\ Len(Said(2 - 1)) = 1 /\ Len(Said(3 - 1)) = 2
  BY DEF Said
<1>4. Said(1 - 1) # Said(2 - 1) /\ Said(1 - 1) # Said(3 - 1) /\ Said(2 - 1) # Said(3 - 1)
  BY <1>3
<1> QED BY <1>1, <1>2, <1>4

-----------------------------------------------------------------------------
LEMMA WritesLinked ==
  ASSUME IInv, Linked, program = "link", NEW i \in DOMAIN kern, MayStart(i), KernelWrites(i),
         UNCHANGED <<program, up, serverVars>>
  PROVE  Linked'
<1>l. ChainsInOrder /\ EachAfterThePrevious /\ BegunOnce
  BY DEF Linked
<1>t. kern \in Seq(Requests) /\ cq \in Seq(Cqes) /\ delivered \in [Clients -> Seq(Message \cup {Word(1), Word(2)})]
      /\ DOMAIN kern = 1 .. Len(kern) /\ Len(kern) \in Nat
  BY DEF IInv, TypeOK
<1>r. PICK r \in Requests : r = kern[i]
  BY <1>t
<1>w. /\ r.op = "write" /\ r.task \in Clients /\ r.fd \in Fds
      /\ r.arg = Stage(r) /\ r.arg \in {1, 2}
  <2>1. r.op = "write"
    BY <1>r DEF KernelWrites
  <2> QED BY <1>r, <2>1, ChainRequest
<1>s. /\ delivered[r.task] = Said(r.arg - 1)
      /\ \A j \in DOMAIN kern : kern[j].task = r.task /\ j # i => j > i /\ Stage(kern[j]) > Stage(r)
  BY <1>l, <1>r, <1>w, ChainStarts
<1>a. /\ kern' = RemoveAt(kern, i) /\ cq' = cq /\ socket' = socket /\ operations' = operations
  BY <1>r, <1>w DEF KernelWrites, Answer, Skipped, serverVars
<1>d. delivered' = [delivered EXCEPT ![r.task] = @ \o <<Word(r.arg)>>]
  <2>1. PICK d \in Clients : socket[d] = r.fd /\ delivered' = [delivered EXCEPT ![d] = @ \o <<Word(r.arg)>>]
    BY <1>r DEF KernelWrites
  <2>2. d = r.task
    BY <1>l, <1>r, <1>w, <2>1, OneOnDescriptor
  <2> QED BY <2>1, <2>2
<1>e. /\ \A d \in Clients \ {r.task} : socket'[d] = socket[d] /\ delivered'[d] = delivered[d]
      /\ delivered'[r.task] = Said(r.arg)
  <2>1. delivered'[r.task] = Said(r.arg - 1) \o <<Word(r.arg)>>
    BY <1>t, <1>w, <1>s, <1>d
  <2>2. \A d \in Clients \ {r.task} : socket'[d] = socket[d] /\ delivered'[d] = delivered[d]
    BY <1>t, <1>a, <1>d
  <2> QED BY <1>w, <2>1, <2>2, SaidGrows
<1>m. PICK m : Kept(kern, kern', m, DOMAIN kern \ {i}) /\ Places(kern, kern', m)
  BY <1>t, <1>a, RemoveAtPlaces DEF Kept
<1>k. kern' \in Seq(Requests)
  BY <1>t, <1>a, RemoveAtProperties
<1>1. ASSUME NEW p \in DOMAIN kern', kern'[p].op # "accept", kern'[p].task = r.task
      PROVE  /\ socket'[r.task] = kern'[p].fd
             /\ \/ delivered'[r.task] = Said(Stage(kern'[p]) - 1)
                \/ \E s \in 1 .. p - 1 : kern'[s].task = r.task /\ Stage(kern'[s]) = Stage(kern'[p]) - 1
  <2>1. PICK j \in DOMAIN kern : j = m[p] /\ kern'[p] = kern[j]
    BY <1>m DEF Places
  <2>2. socket'[r.task] = kern'[p].fd
    BY <1>l, <1>a, <1>1, <2>1 DEF ChainsInOrder
  <2>3. j # i
    BY <1>m, <2>1 DEF Kept
  <2>4. j > i /\ Stage(kern[j]) > Stage(r) /\ Stage(kern[j]) \in {1, 2, 3}
    BY <1>s, <1>1, <2>1, <2>3, ChainRequest
  <2>5. \/ delivered[r.task] = Said(Stage(kern[j]) - 1)
        \/ \E s \in 1 .. j - 1 : kern[s].task = r.task /\ Stage(kern[s]) = Stage(kern[j]) - 1
    BY <1>l, <1>1, <2>1 DEF EachAfterThePrevious
  <2>6. delivered[r.task] # Said(Stage(kern[j]) - 1)
    BY <1>w, <1>s, <2>4, SaidGrows
  <2>7. PICK s \in 1 .. j - 1 : kern[s].task = r.task /\ Stage(kern[s]) = Stage(kern[j]) - 1
    BY <2>5, <2>6
  <2>8. CASE s = i
    BY <1>r, <1>w, <1>e, <2>1, <2>2, <2>7, <2>8
  <2>9. CASE s # i
    <3>1. s \in DOMAIN kern /\ s < j
      BY <1>t
    <3>2. PICK q \in DOMAIN kern' : m[q] = s
      BY <1>m, <2>9, <3>1 DEF Kept
    <3>3. q < p
      <4>1. /\ p \in Int /\ q \in Int /\ s \in Int /\ j \in Int
            /\ m[q] = s /\ m[p] = j
        BY <1>k, <1>t, <2>1, <3>1, <3>2
      <4>2. p < q => m[p] < m[q]
        BY <1>m, <3>2 DEF Places
      <4>3. p # q
        BY <3>1, <4>1
      <4> QED BY <3>1, <4>1, <4>2, <4>3
    <3>4. q \in 1 .. p - 1 /\ kern'[q] = kern[s]
      BY <1>k, <1>m, <3>2, <3>3 DEF Places
    <3> QED BY <2>1, <2>2, <2>7, <3>4
  <2> QED BY <2>2, <2>8, <2>9
<1>2. ChainsKept(m, r.task)
  BY <1>r, <1>m DEF Kept, ChainsKept
<1>3. RestInOrder(r.task) /\ OthersAsBefore(r.task)
  BY <1>e, <1>1 DEF RestInOrder, OthersAsBefore
<1>4. ChainsInOrder' /\ EachAfterThePrevious'
  BY <1>l, <1>m, <1>k, <1>2, <1>3, ChainsShrink
<1>5. BegunOnce'
  BY <1>l, <1>r, <1>w, <1>a, <1>3, <1>m, BegunShrinks
<1> QED BY <1>4, <1>5 DEF Linked

LEMMA ClosesLinked ==
  ASSUME IInv, Linked, program = "link", NEW i \in DOMAIN kern, MayStart(i), KernelCloses(i),
         UNCHANGED <<program, up, serverVars>>
  PROVE  Linked'
<1>l. ChainsInOrder /\ EachAfterThePrevious /\ BegunOnce
  BY DEF Linked
<1>t. kern \in Seq(Requests) /\ cq \in Seq(Cqes) /\ socket \in [Clients -> Fds \cup {None}]
      /\ DOMAIN kern = 1 .. Len(kern) /\ Len(kern) \in Nat
  BY DEF IInv, TypeOK
<1>r. PICK r \in Requests : r = kern[i]
  BY <1>t
<1>w. r.op = "close" /\ r.task \in Clients /\ r.fd \in Fds /\ Stage(r) = 3
  <2>1. r.op = "close"
    BY <1>r DEF KernelCloses
  <2> QED BY <1>r, <2>1, ChainRequest
<1>s. \A j \in DOMAIN kern : kern[j].task = r.task => j = i
  <2> SUFFICES ASSUME NEW j \in DOMAIN kern, kern[j].task = r.task, j # i PROVE FALSE
    OBVIOUS
  <2>1. Stage(kern[j]) > 3
    BY <1>l, <1>r, <1>w, ChainStarts
  <2>2. Stage(kern[j]) \in {1, 2, 3}
    BY <1>w, EchoAssumption, ChainRequest
  <2> QED BY <2>1, <2>2
<1>a. /\ kern' = RemoveAt(kern, i) /\ delivered' = delivered /\ operations' = operations
      /\ socket' = [c \in Clients |-> IF socket[c] = r.fd THEN None ELSE socket[c]]
      /\ cq' = Append(cq, [request |-> r, res |-> 1, more |-> FALSE])
  BY <1>r, <1>w DEF KernelCloses, Answer, Skipped, serverVars
<1>c. \E e \in Cqes : e.request.op # "accept" /\ cq' = Append(cq, e)
  BY <1>w, <1>a DEF Cqes
<1>e. \A d \in Clients \ {r.task} : socket'[d] = socket[d] /\ delivered'[d] = delivered[d]
  <2> SUFFICES ASSUME NEW d \in Clients, d # r.task PROVE socket'[d] = socket[d]
    BY <1>a
  <2>1. socket[d] # r.fd
    BY <1>l, <1>r, <1>w, OneOnDescriptor
  <2> QED BY <1>a, <2>1
<1>m. PICK m : Kept(kern, kern', m, DOMAIN kern \ {i}) /\ Places(kern, kern', m)
  BY <1>t, <1>a, RemoveAtPlaces DEF Kept
<1>k. kern' \in Seq(Requests)
  BY <1>t, <1>a, RemoveAtProperties
<1>1. ASSUME NEW p \in DOMAIN kern', kern'[p].task = r.task
      PROVE  FALSE
  <2>1. m[p] \in DOMAIN kern /\ kern'[p] = kern[m[p]]
    BY <1>m DEF Places
  <2>2. m[p] # i
    BY <1>m DEF Kept
  <2> QED BY <1>s, <1>1, <2>1, <2>2
<1>2. ChainsKept(m, r.task)
  BY <1>r, <1>m DEF Kept, ChainsKept
<1>3. RestInOrder(r.task) /\ OthersAsBefore(r.task)
  BY <1>e, <1>1 DEF RestInOrder, OthersAsBefore
<1>4. ChainsInOrder' /\ EachAfterThePrevious'
  BY <1>l, <1>m, <1>k, <1>2, <1>3, ChainsShrink
<1>5. BegunOnce'
  BY <1>l, <1>r, <1>w, <1>a, <1>c, <1>3, <1>m, BegunShrinks
<1> QED BY <1>4, <1>5 DEF Linked

\* The rest of the chain goes as well.
LEMMA FailsLinked ==
  ASSUME IInv, Linked, program = "link", NEW i \in DOMAIN kern, KernelFails(i)
  PROVE  Linked'
<1>l. ChainsInOrder /\ EachAfterThePrevious /\ BegunOnce
  BY DEF Linked
<1>t. kern \in Seq(Requests) /\ cq \in Seq(Cqes)
      /\ DOMAIN kern = 1 .. Len(kern) /\ Len(kern) \in Nat
  BY DEF IInv, TypeOK
<1>r. PICK r \in Requests : r = kern[i]
  BY <1>t
<1>w. r.op # "accept" /\ r.task \in Clients
  <2>1. r.op # "accept"
    BY <1>r DEF KernelFails
  <2> QED BY <1>r, <2>1, ChainRequest
<1>a. /\ kern' = WithoutChain(kern, r.task)
      /\ UNCHANGED <<socket, delivered, operations>>
      /\ cq' = Append(cq, [request |-> r, res |-> Failed, more |-> FALSE])
  BY <1>r DEF KernelFails, clientVars, serverVars
<1>c. \E e \in Cqes : e.request.op # "accept" /\ cq' = Append(cq, e)
  BY <1>w, <1>a DEF Cqes
<1> DEFINE K == {j \in DOMAIN kern : kern[j].task # r.task}
<1>m. PICK m : Kept(kern, kern', m, K) /\ Places(kern, kern', m)
  BY <1>t, <1>a, WithoutChainPlaces DEF Kept
<1>k. kern' \in Seq(Requests)
  BY <1>t, <1>a, ChainCancelled
<1>1. ASSUME NEW p \in DOMAIN kern', kern'[p].task = r.task
      PROVE  FALSE
  <2>1. m[p] \in DOMAIN kern /\ kern'[p] = kern[m[p]]
    BY <1>m DEF Places
  <2>2. m[p] \in K
    BY <1>m DEF Kept
  <2> QED BY <1>1, <2>1, <2>2
<1>2. ChainsKept(m, r.task)
  BY <1>m DEF Kept, ChainsKept
<1>3. RestInOrder(r.task) /\ OthersAsBefore(r.task)
  BY <1>a, <1>1 DEF RestInOrder, OthersAsBefore
<1>4. ChainsInOrder' /\ EachAfterThePrevious'
  BY <1>l, <1>m, <1>k, <1>2, <1>3, ChainsShrink
<1>5. BegunOnce'
  BY <1>l, <1>r, <1>w, <1>a, <1>c, <1>3, <1>m, BegunShrinks
<1> QED BY <1>4, <1>5 DEF Linked

(* A client is accepted: nothing in the server is about it yet.            *)
LEMMA AcceptsLinked ==
  ASSUME IInv, Linked, program = "link", NEW i \in DOMAIN kern, KernelAccepts(i),
         UNCHANGED <<program, up, serverVars>>
  PROVE  Linked'
<1>l. ChainsInOrder /\ EachAfterThePrevious /\ BegunOnce
  BY DEF Linked
<1>t. kern \in Seq(Requests) /\ cq \in Seq(Cqes) /\ cq \in Seq(LinkEnded) /\ operations \in Seq(Clients \X Fds)
      /\ backlog \in Seq(Clients) /\ socket \in [Clients -> Fds \cup {None}]
      /\ DOMAIN kern = 1 .. Len(kern) /\ Len(kern) \in Nat
  BY DEF IInv, TypeOK, LinkOK
<1>o. kern[i].op = "accept"
  BY DEF KernelAccepts
<1>a. PICK c \in Clients, f \in Fds, e \in Cqes :
        /\ backlog # << >> /\ c = Head(backlog)
        /\ socket' = [socket EXCEPT ![c] = f]
        /\ e.request.op = "accept" /\ e.request.task = c /\ e.request.fd = f
        /\ cq' = Append(cq, e) /\ (kern' = kern \/ kern' = RemoveAt(kern, i))
        /\ UNCHANGED <<delivered, operations>>
  <2>r. PICK r \in Requests : r = kern[i]
    BY <1>t
  <2>1. PICK f \in Fds, more \in BOOLEAN :
          /\ backlog # << >>
          /\ socket' = [socket EXCEPT ![Head(backlog)] = f]
          /\ Answer(i, [r EXCEPT !.fd = f, !.task = Head(backlog)], 1, more)
          /\ UNCHANGED delivered
    <3>1. \A x : x \in (IF awaiter THEN BOOLEAN ELSE {FALSE}) => x \in BOOLEAN
      OBVIOUS
    <3> QED BY <2>r, <3>1 DEF KernelAccepts
  <2>2. PICK c \in Clients : c = Head(backlog)
    BY <1>t, <2>1
  <2> DEFINE a == [r EXCEPT !.fd = f, !.task = c]
             e == [request |-> a, res |-> 1, more |-> more]
  <2>3. a \in Requests /\ a.op = "accept" /\ a.task = c /\ a.fd = f
    BY <1>o, <2>r, <2>2 DEF Requests
  <2>4. /\ cq' = Append(cq, [request |-> a, res |-> 1, more |-> more])
        /\ (kern' = kern \/ kern' = RemoveAt(kern, i))
    BY <2>1, <2>2, <2>3 DEF Answer, Skipped
  <2> HIDE DEF a
  <2>5. e \in Cqes /\ e.request = a /\ cq' = Append(cq, e)
    BY <2>3, <2>4 DEF Cqes
  <2>6. operations' = operations
    BY DEF serverVars
  <2> HIDE DEF e
  <2> QED BY <2>1, <2>2, <2>3, <2>4, <2>5, <2>6
<1>n. socket[c] = None /\ delivered[c] = << >> /\ f # None
  <2>1. backlog[1] = c /\ 1 \in DOMAIN backlog
    BY <1>t, <1>a
  <2>2. c \notin Range(accepted)
    BY <2>1 DEF IInv, ClientsOK
  <2> QED BY <2>2, EchoAssumption DEF IInv, ClientsOK
<1>x. \A j \in DOMAIN kern : kern[j].task # c
  <2> SUFFICES ASSUME NEW j \in DOMAIN kern, kern[j].task = c PROVE FALSE
    OBVIOUS
  <2>1. kern[j].op # "accept"
    BY EchoAssumption, ChainRequest
  <2>2. socket[c] = kern[j].fd /\ kern[j].fd \in Fds
    BY <1>l, <2>1, ChainRequest DEF ChainsInOrder
  <2> QED BY <1>n, <2>2, EchoAssumption
<1>e. /\ \A d \in Clients \ {c} : socket'[d] = socket[d] /\ delivered'[d] = delivered[d]
      /\ socket'[c] = f /\ delivered'[c] = << >>
  BY <1>t, <1>a, <1>n
<1>m. PICK m : /\ Places(kern, kern', m) /\ kern' \in Seq(Requests)
               /\ \A j \in DOMAIN kern \ {i} : \E p \in DOMAIN kern' : m[p] = j
  <2>1. CASE kern' = kern
    <3> DEFINE m == [p \in DOMAIN kern |-> p]
    <3>1. m \in [DOMAIN kern -> DOMAIN kern] /\ \A p \in DOMAIN kern : m[p] = p
      OBVIOUS
    <3> HIDE DEF m
    <3>2. Places(kern, kern', m) /\ \A j \in DOMAIN kern \ {i} : \E p \in DOMAIN kern' : m[p] = j
      BY <2>1, <3>1 DEF Places
    <3> QED BY <1>t, <2>1, <3>2
  <2>2. CASE kern' = RemoveAt(kern, i)
    <3>1. PICK m : Kept(kern, kern', m, DOMAIN kern \ {i})
      BY <1>t, <2>2, RemoveAtPlaces
    <3>2. kern' \in Seq(Requests)
      BY <1>t, <2>2, RemoveAtProperties
    <3> QED BY <3>1, <3>2 DEF Kept
  <2> QED BY <1>a, <2>1, <2>2
<1>y. \A p \in DOMAIN kern' : \E j \in DOMAIN kern : kern'[p] = kern[j]
  BY <1>m DEF Places
<1>1. \A p \in DOMAIN kern' : kern'[p].task # c
  BY <1>x, <1>y
<1>2. ChainsKept(m, c)
  <2>1. kern[i].task = None
    BY <1>o, ChainRequest
  <2> QED BY <1>m, <2>1, EchoAssumption DEF ChainsKept
<1>3. ChainsInOrder' /\ EachAfterThePrevious'
  <2>1. RestInOrder(c) /\ OthersAsBefore(c)
    BY <1>e, <1>1 DEF RestInOrder, OthersAsBefore
  <2> QED BY <1>l, <1>m, <1>2, <2>1, ChainsShrink
<1>4. ASSUME NEW d \in Clients, NEW g \in Fds, NotBegun(d, g)
      PROVE  NotBegun(d, g)' /\ d # c
  <2>1. d # c
    BY <1>4, <1>n, EchoAssumption DEF NotBegun
  <2> QED BY <1>4, <1>e, <1>y, <2>1 DEF NotBegun
<1>5. NotBegun(c, f)'
  BY <1>e, <1>1 DEF NotBegun
<1>6. /\ DOMAIN cq' = 1 .. Len(cq) + 1 /\ Len(cq) \in Nat /\ cq'[Len(cq) + 1] = e
      /\ \A j \in DOMAIN cq' : j # Len(cq) + 1 => j \in DOMAIN cq /\ cq'[j] = cq[j]
  BY <1>t, <1>a
<1>7. \A j \in DOMAIN cq : cq[j].request.task \in Clients /\ cq[j].request.fd \in Fds
  BY <1>t DEF LinkEnded
<1>8. ASSUME NEW j \in DOMAIN cq', NEW d, NEW g, Accepting(j)', d = cq'[j].request.task, g = cq'[j].request.fd
      PROVE  /\ NotBegun(d, g)'
             /\ \/ j = Len(cq) + 1 /\ d = c
                \/ j \in DOMAIN cq /\ cq'[j] = cq[j] /\ Accepting(j) /\ d # c
  <2>1. CASE j = Len(cq) + 1
    BY <1>a, <1>5, <1>6, <1>8, <2>1
  <2>2. CASE j # Len(cq) + 1
    <3>1. j \in DOMAIN cq /\ cq'[j] = cq[j] /\ Accepting(j)
      BY <1>6, <1>8, <2>2 DEF Accepting
    <3>2. NotBegun(d, g) /\ d \in Clients /\ g \in Fds
      BY <1>l, <1>7, <1>8, <3>1 DEF BegunOnce
    <3> QED BY <1>4, <3>1, <3>2
  <2> QED BY <2>1, <2>2
<1>9. ASSUME NEW j \in DOMAIN operations', NEW d, NEW g, d = operations'[j][1], g = operations'[j][2]
      PROVE  NotBegun(d, g)' /\ d # c
  <2>1. NotBegun(d, g) /\ d \in Clients /\ g \in Fds
    BY <1>l, <1>t, <1>a, <1>9 DEF BegunOnce
  <2> QED BY <1>4, <2>1
<1>10. ASSUME NEW j \in DOMAIN cq', NEW k \in DOMAIN cq', Accepting(j)', Accepting(k)',
              cq'[j].request.task = cq'[k].request.task
       PROVE  j = k
  <2>1. PICK d, g, h : d = cq'[j].request.task /\ g = cq'[j].request.fd /\ h = cq'[k].request.fd
    OBVIOUS
  <2>2. \/ j = Len(cq) + 1 /\ d = c
        \/ j \in DOMAIN cq /\ cq'[j] = cq[j] /\ Accepting(j) /\ d # c
    BY <1>8, <1>10, <2>1
  <2>3. \/ k = Len(cq) + 1 /\ d = c
        \/ k \in DOMAIN cq /\ cq'[k] = cq[k] /\ Accepting(k) /\ d # c
    BY <1>8, <1>10, <2>1
  <2> QED BY <1>l, <1>10, <2>2, <2>3 DEF BegunOnce
<1>11. ASSUME NEW j \in DOMAIN cq', NEW k \in DOMAIN operations', Accepting(j)'
       PROVE  cq'[j].request.task # operations'[k][1]
  <2>1. PICK d, g : d = cq'[j].request.task /\ g = cq'[j].request.fd
    OBVIOUS
  <2>2. \/ j = Len(cq) + 1 /\ d = c
        \/ j \in DOMAIN cq /\ cq'[j] = cq[j] /\ Accepting(j) /\ d # c
    BY <1>8, <1>11, <2>1
  <2>3. operations'[k][1] # c
    BY <1>9
  <2> QED BY <1>l, <1>a, <2>1, <2>2, <2>3 DEF BegunOnce
<1>12. /\ \A j \in DOMAIN operations' : NotBegun(operations[j][1], operations[j][2])'
       /\ \A j \in DOMAIN cq' : Accepting(j)' => NotBegun(cq[j].request.task, cq[j].request.fd)'
  BY <1>8, <1>9
<1>13. /\ \A j, k \in DOMAIN cq' : Accepting(j)' /\ Accepting(k)' /\ cq'[j].request.task = cq'[k].request.task => j = k
       /\ \A j \in DOMAIN cq', k \in DOMAIN operations' : Accepting(j)' => cq'[j].request.task # operations'[k][1]
       /\ \A j, k \in DOMAIN operations' : operations'[j][1] = operations'[k][1] => j = k
  BY <1>l, <1>a, <1>10, <1>11 DEF BegunOnce
<1>14. BegunOnce'
  BY <1>12, <1>13 DEF BegunOnce
<1> QED BY <1>3, <1>14 DEF Linked

-----------------------------------------------------------------------------
(* A cqe is handled: of an accept, whose client is now to have a chain, of *)
(* a close, or of the write at which a chain broke.                        *)
LEMMA HandledLinked ==
  ASSUME IInv, Linked, program = "link", OnAccept \/ OnClose \/ OnBrokenChain
  PROVE  Linked'
<1>l. ChainsInOrder /\ EachAfterThePrevious /\ BegunOnce
  BY DEF Linked
<1>t. cq \in Seq(Cqes) /\ cq \in Seq(LinkEnded) /\ operations \in Seq(Clients \X Fds)
  BY DEF IInv, TypeOK, LinkOK
<1>a. /\ cq # << >> /\ cq' = Tail(cq) /\ UNCHANGED <<kern, socket, delivered>>
      /\ \/ operations' = operations
         \/ Accepting(1) /\ operations' = Append(operations, <<cq[1].request.task, cq[1].request.fd>>)
  <2>1. CASE OnAccept
    <3>1. Handles("accept") /\ ServerAccepts(Head(cq)) /\ Head(cq) = cq[1]
      BY <1>t, <2>1 DEF OnAccept, Handles
    <3> QED BY <3>1 DEF Handles, ServerAccepts, Issue, Accepting, clientVars
  <2>2. CASE OnClose
    BY <2>2 DEF OnClose, Handles, clientVars
  <2>3. CASE OnBrokenChain
    BY <2>3 DEF OnBrokenChain, serverVars, clientVars
  <2> QED BY <2>1, <2>2, <2>3
<1>c. /\ Len(cq) \in Nat /\ DOMAIN cq = 1 .. Len(cq) /\ 1 \in DOMAIN cq
      /\ DOMAIN cq' = 1 .. Len(cq) - 1
      /\ \A j \in DOMAIN cq' : j + 1 \in DOMAIN cq /\ cq'[j] = cq[j + 1]
  BY <1>t, <1>a
<1>1. ChainsInOrder' /\ EachAfterThePrevious'
  BY <1>l, <1>a DEF ChainsInOrder, EachAfterThePrevious, Stage
<1>2. ASSUME NEW d, NEW f, NotBegun(d, f) PROVE NotBegun(d, f)'
  BY <1>a, <1>2 DEF NotBegun
\* Where an operation comes from.
<1>3. ASSUME NEW j \in DOMAIN operations'
      PROVE  \/ j \in DOMAIN operations /\ operations'[j] = operations[j]
             \/ /\ j = Len(operations) + 1 /\ Accepting(1)
                /\ operations'[j][1] = cq[1].request.task /\ operations'[j][2] = cq[1].request.fd
  <2>1. CASE operations' = operations
    BY <2>1
  <2>2. CASE Accepting(1) /\ operations' = Append(operations, <<cq[1].request.task, cq[1].request.fd>>)
    <3> DEFINE o == <<cq[1].request.task, cq[1].request.fd>>
    <3>1. o[1] = cq[1].request.task /\ o[2] = cq[1].request.fd
      OBVIOUS
    <3> HIDE DEF o
    <3>2. operations' = Append(operations, o)
      BY <2>2 DEF o
    <3>3. \/ j \in DOMAIN operations /\ operations'[j] = operations[j]
          \/ j = Len(operations) + 1 /\ operations'[j] = o
      BY <1>t, <3>2
    <3> QED BY <2>2, <3>1, <3>3
  <2> QED BY <1>a, <2>1, <2>2
<1>4. ASSUME NEW j \in DOMAIN cq', Accepting(j)'
      PROVE  j + 1 \in DOMAIN cq /\ cq'[j] = cq[j + 1] /\ Accepting(j + 1) /\ j \in Int /\ j + 1 # 1
  <2>1. j + 1 \in DOMAIN cq /\ cq'[j] = cq[j + 1] /\ j \in Int /\ j + 1 # 1
    BY <1>c
  <2> QED BY <1>4, <2>1 DEF Accepting
<1>5. ASSUME NEW j \in DOMAIN operations', NEW d, NEW f, d = operations'[j][1], f = operations'[j][2]
      PROVE  NotBegun(d, f)'
  <2>1. NotBegun(d, f)
    BY <1>l, <1>c, <1>3, <1>5 DEF BegunOnce
  <2> QED BY <1>2, <2>1
<1>6. ASSUME NEW j \in DOMAIN cq', NEW d, NEW f, Accepting(j)', d = cq'[j].request.task, f = cq'[j].request.fd
      PROVE  NotBegun(d, f)'
  <2>1. NotBegun(d, f)
    BY <1>l, <1>4, <1>6 DEF BegunOnce
  <2> QED BY <1>2, <2>1
<1>7. ASSUME NEW j \in DOMAIN operations', NEW k \in DOMAIN operations', operations'[j][1] = operations'[k][1]
      PROVE  j = k
  <2>1. \/ j \in DOMAIN operations /\ operations'[j] = operations[j]
        \/ j = Len(operations) + 1 /\ Accepting(1) /\ operations'[j][1] = cq[1].request.task
    BY <1>3
  <2>2. \/ k \in DOMAIN operations /\ operations'[k] = operations[k]
        \/ k = Len(operations) + 1 /\ Accepting(1) /\ operations'[k][1] = cq[1].request.task
    BY <1>3
  <2>3. \A x \in DOMAIN operations : Accepting(1) => cq[1].request.task # operations[x][1]
    BY <1>l, <1>c DEF BegunOnce
  <2>4. \A x, y \in DOMAIN operations : operations[x][1] = operations[y][1] => x = y
    BY <1>l DEF BegunOnce
  <2> QED BY <1>7, <2>1, <2>2, <2>3, <2>4
<1>8. ASSUME NEW j \in DOMAIN cq', NEW k \in DOMAIN cq', Accepting(j)', Accepting(k)',
             cq'[j].request.task = cq'[k].request.task
      PROVE  j = k
  <2>1. j + 1 \in DOMAIN cq /\ cq'[j] = cq[j + 1] /\ Accepting(j + 1) /\ j \in Int
    BY <1>4, <1>8
  <2>2. k + 1 \in DOMAIN cq /\ cq'[k] = cq[k + 1] /\ Accepting(k + 1) /\ k \in Int
    BY <1>4, <1>8
  <2>3. j + 1 = k + 1
    BY <1>l, <1>8, <2>1, <2>2 DEF BegunOnce
  <2> QED BY <2>1, <2>2, <2>3
<1>9. ASSUME NEW j \in DOMAIN cq', NEW k \in DOMAIN operations', Accepting(j)'
      PROVE  cq'[j].request.task # operations'[k][1]
  <2>1. j + 1 \in DOMAIN cq /\ cq'[j] = cq[j + 1] /\ Accepting(j + 1) /\ j + 1 # 1
    BY <1>4, <1>9
  <2>2. CASE k \in DOMAIN operations /\ operations'[k] = operations[k]
    BY <1>l, <2>1, <2>2 DEF BegunOnce
  <2>3. CASE Accepting(1) /\ operations'[k][1] = cq[1].request.task
    BY <1>l, <1>c, <2>1, <2>3 DEF BegunOnce
  <2> QED BY <1>3, <2>2, <2>3
<1>10. /\ \A j \in DOMAIN operations' : NotBegun(operations[j][1], operations[j][2])'
       /\ \A j \in DOMAIN cq' : Accepting(j)' => NotBegun(cq[j].request.task, cq[j].request.fd)'
  BY <1>5, <1>6
<1>11. /\ \A j, k \in DOMAIN cq' : Accepting(j)' /\ Accepting(k)' /\ cq'[j].request.task = cq'[k].request.task => j = k
       /\ \A j \in DOMAIN cq', k \in DOMAIN operations' : Accepting(j)' => cq'[j].request.task # operations'[k][1]
       /\ \A j, k \in DOMAIN operations' : operations'[j][1] = operations'[k][1] => j = k
  BY <1>7, <1>8, <1>9
<1>12. BegunOnce'
  BY <1>10, <1>11 DEF BegunOnce
<1> QED BY <1>1, <1>12 DEF Linked

LEMMA QuietLinked ==
  ASSUME Linked, UNCHANGED <<program, kern, cq, operations, socket, delivered>>
  PROVE  Linked'
BY DEF Linked, ChainsInOrder, EachAfterThePrevious, BegunOnce, NotBegun, Accepting, Stage

LEMMA InitLinked == Init => Linked
<1> SUFFICES ASSUME Init PROVE ChainsInOrder /\ EachAfterThePrevious /\ BegunOnce
  BY DEF Linked
<1>1. kern = <<AcceptRequest>> /\ cq = << >> /\ operations = << >>
  BY DEF Init
<1>2. \A i \in DOMAIN kern : kern[i].op = "accept"
  BY <1>1 DEF AcceptRequest, Request
<1>3. ChainsInOrder /\ EachAfterThePrevious
  BY <1>2 DEF ChainsInOrder, EachAfterThePrevious
<1>4. BegunOnce
  BY <1>1 DEF BegunOnce
<1> QED BY <1>3, <1>4

-----------------------------------------------------------------------------
(* What is launched: own is the operation that a request is of.            *)
Launched(q, b, own) ==
  /\ own \in [DOMAIN b -> DOMAIN q]
  /\ \A p \in DOMAIN b : /\ b[p].op # "accept"
                         /\ b[p].task = q[own[p]][1] /\ b[p].fd = q[own[p]][2]
  /\ \A p \in DOMAIN b :
       \/ Stage(b[p]) = 1
       \/ p - 1 \in DOMAIN b /\ b[p - 1].task = b[p].task /\ Stage(b[p - 1]) = Stage(b[p]) - 1
  /\ \A p, s \in DOMAIN b : p < s /\ own[p] = own[s] => Stage(b[p]) < Stage(b[s])

LEMMA ChainStages ==
  ASSUME NEW c, NEW f, NEW k \in 1 .. 3
  PROVE  /\ Len(Chain(c, f)) = 3
         /\ Chain(c, f)[k].op # "accept" /\ Chain(c, f)[k].task = c /\ Chain(c, f)[k].fd = f
         /\ Stage(Chain(c, f)[k]) = k
<1>1. /\ Chain(c, f)[1] = Request("write", f, c, 1)
      /\ Chain(c, f)[2] = Request("write", f, c, 2)
      /\ Chain(c, f)[3] = Request("close", f, c, 0)
      /\ Len(Chain(c, f)) = 3
  BY DEF Chain
<1>2. \A op, arg : LET r == Request(op, f, c, arg) IN r.op = op /\ r.task = c /\ r.fd = f /\ r.arg = arg
  BY DEF Request
<1>3. CASE k = 1
  BY <1>1, <1>2, <1>3 DEF Stage
<1>4. CASE k = 2
  BY <1>1, <1>2, <1>4 DEF Stage
<1>5. CASE k = 3
  BY <1>1, <1>2, <1>5 DEF Stage
<1> QED BY <1>3, <1>4, <1>5

LEMMA LaunchedPlaces ==
  ASSUME program = "link", NEW q \in Seq(Clients \X Fds)
  PROVE  \E own : Launched(q, FlattenSeq([i \in DOMAIN q |-> Begins(q[i][1], q[i][2])]), own)
<1> DEFINE s == [i \in DOMAIN q |-> Begins(q[i][1], q[i][2])]
           b == FlattenSeq(s)
<1>q. DOMAIN q = 1 .. Len(q) /\ Len(q) \in Nat
  OBVIOUS
<1>s. \A i \in DOMAIN q : s[i] = Chain(q[i][1], q[i][2])
  BY DEF Begins
<1>c. \A i \in DOMAIN q : s[i] \in Seq(LinkPending)
  <2> SUFFICES ASSUME NEW i \in DOMAIN q PROVE Chain(q[i][1], q[i][2]) \in Seq(LinkPending)
    BY <1>s
  <2>1. PICK c \in Clients, f \in Fds : c = q[i][1] /\ f = q[i][2]
    OBVIOUS
  <2> DEFINE x == Request("write", f, c, 1)
             y == Request("write", f, c, 2)
             z == Request("close", f, c, 0)
  <2>2. x \in LinkPending /\ y \in LinkPending /\ z \in LinkPending /\ Chain(c, f) = <<x, y, z>>
    BY DEF LinkPending, Request, Requests, Chain
  <2> HIDE DEF x, y, z
  <2> QED BY <2>1, <2>2
<1>d. s \in [1 .. Len(q) -> Seq(LinkPending)]
  BY <1>q, <1>c
<1>b. b \in Seq(LinkPending)
  BY LaunchedChains
<1>g. b = FlattenSeq([i \in DOMAIN q |-> Begins(q[i][1], q[i][2])])
  OBVIOUS
<1> HIDE DEF s, b
<1>l. s \in Seq(Seq(LinkPending)) /\ Len(s) = Len(q)
  BY <1>q, <1>d
<1>k. ASSUME NEW i \in 1 .. Len(s), NEW k \in 1 .. Len(s[i])
      PROVE  /\ i \in DOMAIN q /\ k \in 1 .. 3
             /\ s[i][k].op # "accept" /\ s[i][k].task = q[i][1] /\ s[i][k].fd = q[i][2]
             /\ Stage(s[i][k]) = k
  <2>1. i \in DOMAIN q
    BY <1>q, <1>l
  <2>2. PICK c, f : c = q[i][1] /\ f = q[i][2] /\ s[i] = Chain(c, f)
    BY <1>s, <2>1
  <2>3. Len(Chain(c, f)) = 3
    BY ChainStages
  <2>4. k \in 1 .. 3
    BY <2>2, <2>3
  <2>5. Chain(c, f)[k].op # "accept" /\ Chain(c, f)[k].task = c /\ Chain(c, f)[k].fd = f /\ Stage(Chain(c, f)[k]) = k
    BY <2>4, ChainStages
  <2> QED BY <2>1, <2>2, <2>4, <2>5
<1>e. DOMAIN b = 1 .. Len(b) /\ Len(b) \in Nat
  BY <1>b
<1> DEFINE Goal == \E own : Launched(q, b, own)
<1>1. ASSUME Len(s) = 0 PROVE Goal
  <2>1. b = << >>
    BY <1>b, <1>l, <1>1 DEF b, FlattenSeq
  <2> DEFINE own == [p \in DOMAIN b |-> 1]
  <2>2. DOMAIN b = {}
    BY <2>1
  <2>3. own \in [DOMAIN b -> DOMAIN q]
    BY <2>2
  <2>4. Launched(q, b, own)
    BY <2>2, <2>3 DEF Launched
  <2> QED BY <2>4
<1>2. ASSUME Len(s) > 0 PROVE Goal
  <2>1. PICK off \in [1 .. Len(s) -> Nat] :
           /\ \A i \in 1 .. Len(s) : \A k \in 1 .. Len(s[i]) :
                /\ off[i] + k \in 1 .. Len(b)
                /\ b[off[i] + k] = s[i][k]
           /\ \A p \in 1 .. Len(b) :
                \E i \in 1 .. Len(s) : \E k \in 1 .. Len(s[i]) : p = off[i] + k
           /\ \A i, j \in 1 .. Len(s) : i < j => off[i] + Len(s[i]) <= off[j]
    BY <1>l, <1>2, FlattenSeqPlaces DEF b
  <2> DEFINE In(p, i) == \E k \in 1 .. Len(s[i]) : p = off[i] + k
             own == [p \in DOMAIN b |-> CHOOSE i \in DOMAIN q : In(p, i)]
  <2>2. \A p \in DOMAIN b : \E i \in DOMAIN q : In(p, i)
    <3>1. \A p \in DOMAIN b : \E i \in 1 .. Len(s) : In(p, i)
      BY <1>e, <2>1
    <3> QED BY <1>q, <1>l, <3>1
  <2>3. \A p \in DOMAIN b : own[p] \in DOMAIN q /\ In(p, own[p])
    BY <2>2
  <2>4. own \in [DOMAIN b -> DOMAIN q]
    BY <2>3
  <2> HIDE DEF own
  <2>5. ASSUME NEW p \in DOMAIN b
        PROVE  \E k \in 1 .. 3 :
                 /\ own[p] \in DOMAIN q /\ off[own[p]] \in Nat
                 /\ p = off[own[p]] + k /\ b[p] = s[own[p]][k] /\ Stage(b[p]) = k
                 /\ k > 1 => off[own[p]] + (k - 1) \in DOMAIN b /\ b[off[own[p]] + (k - 1)] = s[own[p]][k - 1]
                             /\ s[own[p]][k - 1].task = q[own[p]][1] /\ Stage(s[own[p]][k - 1]) = k - 1
                 /\ b[p].op # "accept" /\ b[p].task = q[own[p]][1] /\ b[p].fd = q[own[p]][2]
    <3>1. PICK i : i = own[p] /\ i \in DOMAIN q /\ i \in 1 .. Len(s) /\ In(p, i)
      BY <1>q, <1>l, <2>3
    <3>2. PICK k \in 1 .. Len(s[i]) : p = off[i] + k
      BY <3>1
    <3>3. /\ k \in 1 .. 3 /\ Stage(s[i][k]) = k
          /\ s[i][k].op # "accept" /\ s[i][k].task = q[i][1] /\ s[i][k].fd = q[i][2]
      BY <1>k, <3>1
    <3>4. b[p] = s[i][k] /\ off[i] \in Nat
      BY <2>1, <3>1, <3>2
    <3>5. ASSUME k > 1
          PROVE  /\ off[i] + (k - 1) \in DOMAIN b /\ b[off[i] + (k - 1)] = s[i][k - 1]
                 /\ s[i][k - 1].task = q[i][1] /\ Stage(s[i][k - 1]) = k - 1
      <4>1. s[i] \in Seq(LinkPending)
        BY <1>c, <3>1
      <4>2. k - 1 \in 1 .. Len(s[i])
        BY <3>3, <3>5, <4>1
      <4>3. PICK l \in 1 .. Len(s[i]) : l = k - 1
        BY <4>2
      <4>4. s[i][l].task = q[i][1] /\ Stage(s[i][l]) = l
        BY <1>k, <3>1
      <4>5. off[i] + l \in DOMAIN b /\ b[off[i] + l] = s[i][l]
        BY <1>e, <2>1, <3>1
      <4> QED BY <4>3, <4>4, <4>5
    <3> QED BY <3>1, <3>2, <3>3, <3>4, <3>5
  <2>6. \A p \in DOMAIN b : /\ b[p].op # "accept"
                            /\ b[p].task = q[own[p]][1] /\ b[p].fd = q[own[p]][2]
    BY <2>5
  <2>7. ASSUME NEW p \in DOMAIN b, Stage(b[p]) # 1
        PROVE  p - 1 \in DOMAIN b /\ b[p - 1].task = b[p].task /\ Stage(b[p - 1]) = Stage(b[p]) - 1
    <3>1. PICK k \in 1 .. 3 :
                 /\ own[p] \in DOMAIN q /\ off[own[p]] \in Nat
                 /\ p = off[own[p]] + k /\ b[p] = s[own[p]][k] /\ Stage(b[p]) = k
                 /\ k > 1 => off[own[p]] + (k - 1) \in DOMAIN b /\ b[off[own[p]] + (k - 1)] = s[own[p]][k - 1]
                             /\ s[own[p]][k - 1].task = q[own[p]][1] /\ Stage(s[own[p]][k - 1]) = k - 1
                 /\ b[p].op # "accept" /\ b[p].task = q[own[p]][1] /\ b[p].fd = q[own[p]][2]
      BY <2>5
    <3>2. k > 1 /\ off[own[p]] + (k - 1) = p - 1
      BY <2>7, <3>1
    <3> QED BY <3>1, <3>2
  <2>8. ASSUME NEW p \in DOMAIN b, NEW t \in DOMAIN b, p < t, own[p] = own[t]
        PROVE  Stage(b[p]) < Stage(b[t])
    <3>1. PICK k \in 1 .. 3 : off[own[p]] \in Nat /\ p = off[own[p]] + k /\ Stage(b[p]) = k
      BY <2>5
    <3>2. PICK l \in 1 .. 3 : t = off[own[t]] + l /\ Stage(b[t]) = l
      BY <2>5
    <3> QED BY <2>8, <3>1, <3>2
  <2>9. Launched(q, b, own)
    BY <2>4, <2>6, <2>7, <2>8 DEF Launched
  <2> QED BY <2>9
<1> HIDE DEF Goal
<1>3. Goal
  BY <1>q, <1>l, <1>1, <1>2
<1> QED BY <1>3, <1>g DEF Goal

LEMMA LaunchLinked ==
  ASSUME IInv, Linked, program = "link", Launch
  PROVE  Linked'
<1>l. ChainsInOrder /\ EachAfterThePrevious /\ BegunOnce
  BY DEF Linked
<1>t. /\ kern \in Seq(LinkPending) /\ sq \in Seq({AcceptRequest}) /\ cq \in Seq(LinkEnded)
      /\ operations \in Seq(Clients \X Fds)
  BY DEF IInv, TypeOK, LinkOK
<1> DEFINE x == FlattenSeq([i \in DOMAIN operations |-> Begins(operations[i][1], operations[i][2])])
<1>x. x \in Seq(LinkPending) /\ \E own : Launched(operations, x, own)
  BY <1>t, LaunchedChains, LaunchedPlaces
<1>a. kern' = kern \o sq \o x /\ operations' = << >> /\ UNCHANGED <<cq, socket, delivered>>
  BY DEF Launch, clientVars
<1> HIDE DEF x
<1>b. PICK b, own : b \in Seq(LinkPending) /\ b = x /\ Launched(operations, b, own)
  BY <1>x
<1>o. /\ own \in [DOMAIN b -> DOMAIN operations]
      /\ \A p \in DOMAIN b : /\ b[p].op # "accept"
                             /\ b[p].task = operations[own[p]][1] /\ b[p].fd = operations[own[p]][2]
      /\ \A p \in DOMAIN b :
           \/ Stage(b[p]) = 1
           \/ p - 1 \in DOMAIN b /\ b[p - 1].task = b[p].task /\ Stage(b[p - 1]) = Stage(b[p]) - 1
      /\ \A p, s \in DOMAIN b : p < s /\ own[p] = own[s] => Stage(b[p]) < Stage(b[s])
  BY <1>b DEF Launched
\* The queue of the kernel, in three parts.
<1>n. PICK n \in Nat, l \in Nat, z \in Nat : n = Len(kern) /\ l = Len(kern) + Len(sq) /\ z = Len(b)
  BY <1>t, <1>b
<1>d. /\ DOMAIN kern = 1 .. n /\ DOMAIN b = 1 .. z /\ n <= l
      /\ DOMAIN kern' = 1 .. l + z
      /\ \A p \in 1 .. n : kern'[p] = kern[p]
      /\ \A p \in n + 1 .. l : kern'[p] = AcceptRequest
      /\ \A p \in l + 1 .. l + z : kern'[p] = b[p - l]
  <2> DEFINE S == Requests
             y == kern \o sq
  <2>1. kern \in Seq(S) /\ sq \in Seq(S) /\ b \in Seq(S)
    <3>1. kern \in Seq(S) /\ sq \in Seq(S)
      BY DEF IInv, TypeOK
    <3>2. LinkPending \subseteq S
      BY EchoAssumption DEF LinkPending, AcceptRequest, Request, Requests
    <3> HIDE DEF S
    <3>3. b \in Seq(S)
      BY <1>b, <3>2
    <3> QED BY <3>1, <3>3
  <2> HIDE DEF S
  <2>2. /\ y \in Seq(S) /\ Len(y) = l
        /\ \A p \in 1 .. l : y[p] = IF p <= n THEN kern[p] ELSE sq[p - n]
    BY <2>1, <1>n, ConcatProperties
  <2> HIDE DEF y
  <2>3. /\ kern' \in Seq(S) /\ Len(kern') = l + z
        /\ \A p \in 1 .. l + z : kern'[p] = IF p <= l THEN y[p] ELSE b[p - l]
    <3>1. /\ y \o b \in Seq(S) /\ Len(y \o b) = l + z
          /\ \A p \in 1 .. l + z : (y \o b)[p] = IF p <= l THEN y[p] ELSE b[p - l]
      <4>1. /\ y \o b \in Seq(S) /\ Len(y \o b) = Len(y) + Len(b)
            /\ \A p \in 1 .. Len(y) + Len(b) : (y \o b)[p] = IF p <= Len(y) THEN y[p] ELSE b[p - Len(y)]
        BY <2>1, <2>2, ConcatProperties
      <4> QED BY <1>n, <2>2, <4>1
    <3>2. kern' = y \o b
      BY <1>a, <1>b DEF y
    <3> QED BY <3>1, <3>2
  <2>4. n <= l /\ DOMAIN kern = 1 .. n /\ DOMAIN b = 1 .. z /\ DOMAIN kern' = 1 .. l + z
    BY <1>n, <2>1, <2>3
  <2>5. \A p \in 1 .. n : kern'[p] = kern[p]
    BY <2>2, <2>3, <2>4
  <2>6. ASSUME NEW p \in n + 1 .. l PROVE kern'[p] = AcceptRequest
    <3>1. kern'[p] = y[p] /\ y[p] = sq[p - n]
      BY <2>2, <2>3, <2>4
    <3>2. p - n \in 1 .. Len(sq)
      BY <1>n, <2>1
    <3>3. sq[p - n] \in {AcceptRequest}
      BY <1>t, <3>2
    <3> QED BY <3>1, <3>3
  <2>7. \A p \in l + 1 .. l + z : kern'[p] = b[p - l]
    BY <2>3, <2>4
  <2> QED BY <2>4, <2>5, <2>6, <2>7
<1>p. ASSUME NEW p \in DOMAIN kern'
      PROVE  /\ p \in Int
             /\ \/ p \in DOMAIN kern /\ kern'[p] = kern[p]
                \/ p \notin DOMAIN kern /\ kern'[p] = AcceptRequest
                \/ p > l /\ p - l \in DOMAIN b /\ kern'[p] = b[p - l]
  BY <1>d
<1>r. AcceptRequest.op = "accept" /\ AcceptRequest.task = None
  BY DEF AcceptRequest, Request
<1>u. ASSUME NEW p \in DOMAIN b
      PROVE  /\ own[p] \in DOMAIN operations
             /\ b[p].task \in Clients /\ b[p].op # "accept"
             /\ NotBegun(b[p].task, b[p].fd)
  <2>1. own[p] \in DOMAIN operations
    BY <1>o
  <2> QED BY <1>l, <1>t, <1>o, <2>1 DEF BegunOnce
\* The chains that are new are of clients that had none.
<1>v. \A p \in DOMAIN b : \A j \in DOMAIN kern : kern[j].task # b[p].task
  BY <1>u DEF NotBegun
<1>w. \A p, s \in DOMAIN b : b[p].task = b[s].task => own[p] = own[s]
  <2> SUFFICES ASSUME NEW p \in DOMAIN b, NEW s \in DOMAIN b, b[p].task = b[s].task PROVE own[p] = own[s]
    OBVIOUS
  <2>1. operations[own[p]][1] = operations[own[s]][1] /\ own[p] \in DOMAIN operations /\ own[s] \in DOMAIN operations
    BY <1>o, <1>u
  <2> QED BY <1>l, <2>1 DEF BegunOnce
<1>1. ASSUME NEW p \in DOMAIN kern', kern'[p].op # "accept"
      PROVE  socket'[kern'[p].task] = kern'[p].fd
  <2>1. CASE p \in DOMAIN kern /\ kern'[p] = kern[p]
    BY <1>l, <1>a, <1>1, <2>1 DEF ChainsInOrder
  <2>2. CASE p - l \in DOMAIN b /\ kern'[p] = b[p - l]
    BY <1>a, <1>u, <2>2 DEF NotBegun
  <2> QED BY <1>p, <1>r, <1>1, <2>1, <2>2
<1>2. ASSUME NEW p \in DOMAIN kern', NEW s \in DOMAIN kern', p < s,
             kern'[p].op # "accept", kern'[p].task = kern'[s].task
      PROVE  Stage(kern'[p]) < Stage(kern'[s])
  <2>1. CASE p \in DOMAIN kern /\ kern'[p] = kern[p]
    <3>1. kern[p].task \in Clients
      BY <1>2, <2>1, ChainRequest
    <3>2. kern'[s] # AcceptRequest
      BY <1>r, <1>2, <2>1, <3>1, EchoAssumption
    <3>3. CASE s \in DOMAIN kern /\ kern'[s] = kern[s]
      BY <1>l, <1>2, <2>1, <3>3 DEF ChainsInOrder
    <3>4. CASE s - l \in DOMAIN b /\ kern'[s] = b[s - l]
      BY <1>v, <1>2, <2>1, <3>4
    <3> QED BY <1>p, <3>2, <3>3, <3>4
  <2>2. CASE p > l /\ p - l \in DOMAIN b /\ kern'[p] = b[p - l]
    <3>1. /\ p \in Int /\ s \in Int /\ s \notin DOMAIN kern /\ s > l
      BY <1>d, <1>2, <2>2
    <3>2. s - l \in DOMAIN b /\ kern'[s] = b[s - l]
      <4>1. s \in l + 1 .. l + z /\ s - l \in 1 .. z
        BY <1>d, <3>1
      <4> QED BY <1>d, <4>1
    <3>3. p - l < s - l
      BY <1>2, <3>1
    <3>4. own[p - l] = own[s - l]
      BY <1>w, <1>2, <2>2, <3>2
    <3> QED BY <1>o, <2>2, <3>2, <3>3, <3>4
  <2> QED BY <1>p, <1>r, <1>2, <2>1, <2>2
<1>3. ChainsInOrder'
  BY <1>1, <1>2 DEF ChainsInOrder, Stage
<1>4. ASSUME NEW p \in DOMAIN kern', kern'[p].op # "accept"
      PROVE  \/ delivered'[kern'[p].task] = Said(Stage(kern'[p]) - 1)
             \/ \E s \in 1 .. p - 1 : kern'[s].task = kern'[p].task /\ Stage(kern'[s]) = Stage(kern'[p]) - 1
  <2>1. CASE p \in DOMAIN kern /\ kern'[p] = kern[p]
    <3>1. \/ delivered[kern[p].task] = Said(Stage(kern[p]) - 1)
          \/ \E s \in 1 .. p - 1 : kern[s].task = kern[p].task /\ Stage(kern[s]) = Stage(kern[p]) - 1
      BY <1>l, <1>4, <2>1 DEF EachAfterThePrevious
    <3>2. ASSUME NEW s \in 1 .. p - 1 PROVE kern'[s] = kern[s]
      BY <1>d, <2>1
    <3> QED BY <1>a, <2>1, <3>1, <3>2
  <2>2. CASE p > l /\ p - l \in DOMAIN b /\ kern'[p] = b[p - l]
    <3>1. CASE Stage(b[p - l]) = 1
      <4>1. delivered[b[p - l].task] = << >>
        BY <1>u, <2>2 DEF NotBegun
      <4>2. Said(1 - 1) = << >>
        BY DEF Said
      <4> QED BY <1>a, <2>2, <3>1, <4>1, <4>2
    <3>2. CASE Stage(b[p - l]) # 1
      <4>1. /\ (p - l) - 1 \in DOMAIN b /\ b[(p - l) - 1].task = b[p - l].task
            /\ Stage(b[(p - l) - 1]) = Stage(b[p - l]) - 1
        BY <1>o, <2>2, <3>2
      <4>2. p - 1 \in l + 1 .. l + z /\ p - 1 \in 1 .. p - 1 /\ (p - 1) - l = (p - l) - 1
        BY <1>d, <1>p, <2>2, <4>1
      <4>3. kern'[p - 1] = b[(p - l) - 1]
        BY <1>d, <4>2
      <4> QED BY <2>2, <4>1, <4>2, <4>3
    <3> QED BY <3>1, <3>2
  <2> QED BY <1>p, <1>r, <1>4, <2>1, <2>2
<1>5. EachAfterThePrevious'
  BY <1>4 DEF EachAfterThePrevious, Stage
<1>6. ASSUME NEW j \in DOMAIN cq', NEW d, NEW f, Accepting(j)', d = cq'[j].request.task, f = cq'[j].request.fd
      PROVE  NotBegun(d, f)'
  <2>1. j \in DOMAIN cq /\ Accepting(j) /\ d = cq[j].request.task /\ f = cq[j].request.fd
    BY <1>a, <1>6 DEF Accepting
  <2>2. NotBegun(d, f) /\ d \in Clients
    BY <1>l, <1>t, <2>1 DEF BegunOnce, LinkEnded
  <2>3. ASSUME NEW p \in DOMAIN kern' PROVE kern'[p].task # d
    <3>1. CASE p \in DOMAIN kern /\ kern'[p] = kern[p]
      BY <2>2, <3>1 DEF NotBegun
    <3>2. CASE p - l \in DOMAIN b /\ kern'[p] = b[p - l]
      <4>1. b[p - l].task = operations[own[p - l]][1] /\ own[p - l] \in DOMAIN operations
        BY <1>o, <1>u, <3>2
      <4> QED BY <1>l, <2>1, <3>2, <4>1 DEF BegunOnce
    <3> QED BY <1>p, <1>r, <2>2, <3>1, <3>2, EchoAssumption
  <2> QED BY <1>a, <2>2, <2>3 DEF NotBegun
<1>7. /\ \A j \in DOMAIN cq' : Accepting(j)' => NotBegun(cq[j].request.task, cq[j].request.fd)'
      /\ DOMAIN operations' = {}
  BY <1>6, <1>a
<1>8. \A j, k \in DOMAIN cq' : Accepting(j)' /\ Accepting(k)' /\ cq'[j].request.task = cq'[k].request.task => j = k
  BY <1>l, <1>a DEF BegunOnce, Accepting
<1>9. BegunOnce'
  BY <1>7, <1>8 DEF BegunOnce
<1> QED BY <1>3, <1>5, <1>9 DEF Linked

LEMMA NextLinked ==
  ASSUME IInv, Linked, [Next]_vars
  PROVE  Linked'
<1>p. program' = program
  BY DEF Next, vars, Connect, Send, HangUp, KernelDoes, KernelFails, Server, OnAccept, OnRead,
         OnWrite, OnClose, Handles, OnFailure, OnBrokenChain, Launch, PassEnd
<1> SUFFICES ASSUME program = "link" PROVE Linked'
  BY <1>p DEF Linked
<1>1. ASSUME NEW c \in Clients, Connect(c) \/ Send(c) \/ HangUp(c) PROVE Linked'
  BY <1>1, QuietLinked DEF Connect, Send, HangUp, ringVars, serverVars
<1>2. ASSUME KernelDoes PROVE Linked'
  <2>1. PICK i \in DOMAIN kern : /\ MayStart(i)
                                 /\ KernelAccepts(i) \/ KernelReads(i) \/ KernelWrites(i) \/ KernelCloses(i)
                                 /\ UNCHANGED <<program, up, serverVars>>
    BY <1>2 DEF KernelDoes
  <2>2. ~KernelReads(i)
    BY ChainRequest DEF KernelReads
  <2> QED BY <2>1, <2>2, WritesLinked, ClosesLinked, AcceptsLinked
<1>3. ASSUME NEW i \in DOMAIN kern, KernelFails(i) PROVE Linked'
  BY <1>3, FailsLinked
<1>4. ASSUME Server PROVE Linked'
  <2>1. ~OnRead /\ ~OnWrite
    <3>1. cq \in Seq(LinkEnded)
      BY DEF IInv, LinkOK
    <3>2. ASSUME cq # << >> PROVE Head(cq) \in LinkEnded
      BY <3>1, <3>2
    <3> QED BY <3>2 DEF LinkEnded, OnRead, OnWrite, Handles
  <2>2. CASE OnFailure \/ PassEnd
    BY <2>2, QuietLinked DEF OnFailure, PassEnd, clientVars, ringVars, serverVars
  <2> QED BY <1>4, <2>1, <2>2, HandledLinked, LaunchLinked DEF Server
<1>5. ASSUME UNCHANGED vars PROVE Linked'
  BY <1>5, QuietLinked DEF vars, clientVars, ringVars, serverVars
<1> QED BY <1>1, <1>2, <1>3, <1>4, <1>5 DEF Next

(* A connection is closed by the third request of its chain only.          *)
LEMMA NextGoodbye ==
  ASSUME IInv, Linked, [Next]_vars, program = "link",
         NEW c \in Clients, socket[c] # None, socket'[c] = None
  PROVE  delivered[c] = <<Word(1), Word(2)>>
<1>l. ChainsInOrder /\ EachAfterThePrevious
  BY DEF Linked
<1>t. socket \in [Clients -> Fds \cup {None}]
  BY DEF IInv, TypeOK
<1>1. PICK i \in DOMAIN kern : MayStart(i) /\ KernelCloses(i)
  <2>1. ASSUME NEW d \in Clients, Connect(d) \/ Send(d) \/ HangUp(d) PROVE FALSE
    BY <2>1 DEF Connect, Send, HangUp
  <2>2. ASSUME NEW i \in DOMAIN kern, KernelFails(i) PROVE FALSE
    BY <2>2 DEF KernelFails, clientVars
  <2>3. ASSUME Server PROVE FALSE
    BY <2>3 DEF Server, OnAccept, OnRead, OnWrite, OnClose, Handles, OnFailure, OnBrokenChain, Launch, PassEnd, clientVars
  <2>4. ASSUME UNCHANGED vars PROVE FALSE
    BY <2>4 DEF vars, clientVars
  <2>5. ASSUME NEW i \in DOMAIN kern, KernelReads(i) \/ KernelWrites(i) PROVE FALSE
    BY <2>5 DEF KernelReads, KernelWrites
  <2>6. ASSUME NEW i \in DOMAIN kern, KernelAccepts(i) PROVE FALSE
    <3>1. PICK f \in Fds : socket' = [socket EXCEPT ![Head(backlog)] = f]
      BY <2>6 DEF KernelAccepts
    <3>2. socket'[c] = socket[c] \/ socket'[c] = f
      BY <1>t, <3>1
    <3> QED BY <3>2, EchoAssumption
  <2> QED BY <2>1, <2>2, <2>3, <2>4, <2>5, <2>6 DEF Next, KernelDoes
<1>2. kern[i].op = "close" /\ socket[c] = kern[i].fd
  BY <1>1, <1>t DEF KernelCloses
<1>3. c = kern[i].task
  BY <1>l, <1>2, OneOnDescriptor
<1>4. Stage(kern[i]) = 3
  BY <1>2 DEF Stage
<1>5. delivered[c] = Said(3 - 1)
  BY <1>l, <1>1, <1>2, <1>3, <1>4, ChainStarts
<1> QED BY <1>5 DEF Said

(* "Say hello, wave goodbye" (feature_io_link.cpp): however the requests   *)
(* of many chains are interleaved, fail or are cancelled, a connection is  *)
(* closed only when both writes were delivered to it.                      *)
THEOREM SpecHelloThenGoodbye == Spec => HelloThenGoodbye
<1> DEFINE A == program = "link" => \A c \in Clients :
                  socket[c] # None /\ socket'[c] = None => delivered[c] = <<Word(1), Word(2)>>
<1>1. Init => Linked
  BY InitLinked
<1>2. IInv /\ Linked /\ [Next]_vars => Linked'
  BY NextLinked
<1>3. IInv /\ Linked /\ [Next]_vars => A
  BY NextGoodbye
<1>4. Spec => [][A]_vars
  BY <1>1, <1>2, <1>3, SpecIInv, PTL DEF Spec
<1> QED BY <1>4 DEF HelloThenGoodbye

-----------------------------------------------------------------------------
(* With drained accepts: what was prepared, in that order, whether it is   *)
(* submitted or not.                                                       *)
Line == kern \o sq

\* There is one accept, or its cqe.
AcceptAt(q, a) == a \in DOMAIN q /\ \A p \in DOMAIN q : q[p].op = "accept" <=> p = a
NoAccept(q) == \A p \in DOMAIN q : q[p].op # "accept"
EndAt(z, a) == a \in DOMAIN z /\ \A p \in DOMAIN z : z[p].request.op = "accept" <=> p = a
NoEnd(z) == \A p \in DOMAIN z : z[p].request.op # "accept"
OneAccept(q, z) == \/ (\E a \in DOMAIN q : AcceptAt(q, a)) /\ NoEnd(z)
                   \/ (\E a \in DOMAIN z : EndAt(z, a)) /\ NoAccept(q)

\* Client c was accepted m clients before the last one.
Newest(s, m, c) == Len(s) - m \in DOMAIN s /\ s[Len(s) - m] = c

AcceptedOnce == \A i, j \in DOMAIN accepted : accepted[i] = accepted[j] => i = j

\* A coroutine begins, with the next accept, only for the newest client.
NewestBegins ==
  /\ \A p \in DOMAIN cq : cq[p].request.op = "accept" => Newest(accepted, 0, cq[p].request.task)
  /\ \A p \in DOMAIN operations : Newest(accepted, 0, operations[p][1])
  /\ operations # << >> => \E p \in DOMAIN sq : sq[p].op = "accept"

\* The first read of a client has one accept after the client's own before
\* it, and its first write has two, whichever of them have ended.
AcceptBefore(q, p) == \E a \in DOMAIN q : a < p /\ q[a].op = "accept"
AcceptAfter(z, p) == \E a \in DOMAIN z : p < a /\ z[a].request.op = "accept"

LineInTurn(q, s, d) ==
  \A p \in DOMAIN q, c \in Clients : q[p].task = c /\ d[c] = << >> =>
    /\ q[p].op = "read" => Newest(s, IF AcceptBefore(q, p) THEN 0 ELSE 1, c)
    /\ q[p].op = "write" => Newest(s, IF AcceptBefore(q, p) THEN 1 ELSE 2, c)
CqInTurn(z, s, d) ==
  \A p \in DOMAIN z, c \in Clients :
    z[p].request.task = c /\ d[c] = << >> /\ z[p].request.op = "read" =>
      Newest(s, IF AcceptAfter(z, p) THEN 2 ELSE 1, c)

\* So nobody hears anything before two more were accepted.
HeardInTurn ==
  \A c \in Clients : delivered[c] # << >> =>
    \E m \in DOMAIN accepted : accepted[m] = c /\ m + 2 <= Len(accepted)

\* A client that was accepted is waiting for its first response, has got it,
\* or gets none.
Waiting(c) ==
  \/ \E p \in DOMAIN Line : Line[p].op \in {"read", "write"} /\ Line[p].task = c
  \/ \E p \in DOMAIN cq : cq[p].request.op \in {"accept", "read"} /\ cq[p].request.task = c
  \/ \E p \in DOMAIN operations : operations[p][1] = c
NobodyForgotten ==
  \A c \in Range(accepted) : delivered[c] # << >> \/ NothingToSay(c) \/ Reset(c) \/ Waiting(c)

\* There is nothing to write only to a client that has nothing to say.
NothingUnsaid ==
  /\ \A p \in DOMAIN Line, c \in Clients :
       Line[p].op = "write" /\ Line[p].arg = 0 /\ Line[p].task = c => delivered[c] # << >> \/ NothingToSay(c)
  /\ \A p \in DOMAIN cq, c \in Clients :
       cq[p].request.op = "read" /\ cq[p].res = 0 /\ cq[p].request.task = c =>
         delivered[c] # << >> \/ NothingToSay(c)
  /\ \A p \in DOMAIN cq, c \in Clients :
       cq[p].request.op = "write" /\ cq[p].res = 1 /\ cq[p].request.task = c => delivered[c] # << >>

OrderOK == /\ OneAccept(Line, cq)
           /\ LineInTurn(Line, accepted, delivered)
           /\ CqInTurn(cq, accepted, delivered)
InTurn ==
  program = "drain" =>
    /\ ~awaiter /\ OrderOK /\ AcceptedOnce /\ NewestBegins
    /\ HeardInTurn /\ NobodyForgotten /\ NothingUnsaid

-----------------------------------------------------------------------------
(* What leaves the kernel leaves the line.                                 *)
LEMMA RemoveAtConcat ==
  ASSUME NEW S, NEW k \in Seq(S), NEW s \in Seq(S), NEW i \in DOMAIN k
  PROVE  RemoveAt(k, i) \o s = RemoveAt(k \o s, i)
<1>1. i \in 1 .. Len(k) /\ Len(k) \in Nat /\ Len(s) \in Nat
  OBVIOUS
<1>3. PICK r \in Seq(S) :
        /\ r = RemoveAt(k, i) /\ Len(r) = Len(k) - 1
        /\ \A j \in 1 .. Len(k) - 1 : r[j] = IF j < i THEN k[j] ELSE k[j + 1]
  BY <1>1, RemoveAtProperties
<1>4. PICK q \in Seq(S) : q = k \o s
  BY ConcatProperties
<1>5. /\ Len(q) = Len(k) + Len(s)
      /\ \A j \in 1 .. Len(q) : q[j] = IF j <= Len(k) THEN k[j] ELSE s[j - Len(k)]
  BY <1>4, ConcatProperties
<1>6. i \in 1 .. Len(q)
  BY <1>1, <1>5
<1>8. PICK t \in Seq(S) : t = r \o s
  BY ConcatProperties
<1>9. /\ Len(t) = Len(r) + Len(s)
      /\ \A j \in 1 .. Len(t) : t[j] = IF j <= Len(r) THEN r[j] ELSE s[j - Len(r)]
  BY <1>8, ConcatProperties
<1>10. PICK u \in Seq(S) :
         /\ u = RemoveAt(q, i) /\ Len(u) = Len(q) - 1
         /\ \A j \in 1 .. Len(q) - 1 : u[j] = IF j < i THEN q[j] ELSE q[j + 1]
  BY <1>6, RemoveAtProperties
<1>l. Len(t) = Len(k) + Len(s) - 1 /\ Len(u) = Len(t)
  BY <1>1, <1>3, <1>5, <1>9, <1>10
<1>11. ASSUME NEW j \in 1 .. Len(t) PROVE t[j] = u[j]
  <2>0. j \in Nat /\ j >= 1 /\ j <= Len(k) + Len(s) - 1 /\ j \in 1 .. Len(q) - 1 /\ j \in 1 .. Len(q) /\ j + 1 \in 1 .. Len(q)
    BY <1>1, <1>l, <1>5
  <2>1. u[j] = IF j < i THEN q[j] ELSE q[j + 1]
    BY <1>10, <2>0
  <2>2. CASE j < i
    <3>1. j <= Len(k) /\ j <= Len(r) /\ j \in 1 .. Len(k) - 1
      BY <1>1, <1>3, <2>0, <2>2
    <3>2. t[j] = r[j] /\ r[j] = k[j]
      BY <1>3, <1>9, <2>2, <3>1
    <3>3. q[j] = k[j]
      BY <1>5, <2>0, <3>1
    <3> QED BY <2>1, <2>2, <3>2, <3>3
  <2>3. CASE j >= i /\ j <= Len(r)
    <3>1. ~(j < i) /\ j + 1 <= Len(k) /\ j \in 1 .. Len(k) - 1
      BY <1>1, <1>3, <2>0, <2>3
    <3>2. t[j] = r[j] /\ r[j] = k[j + 1]
      BY <1>3, <1>9, <2>3, <3>1
    <3>3. q[j + 1] = k[j + 1]
      BY <1>5, <2>0, <3>1
    <3> QED BY <2>1, <3>1, <3>2, <3>3
  <2>4. CASE j > Len(r)
    <3>1. ~(j < i) /\ ~(j + 1 <= Len(k)) /\ ~(j <= Len(r)) /\ j + 1 - Len(k) = j - Len(r)
      BY <1>1, <1>3, <2>0, <2>4
    <3>2. t[j] = s[j - Len(r)]
      BY <1>9, <3>1
    <3>3. q[j + 1] = s[j + 1 - Len(k)]
      BY <1>5, <2>0, <3>1
    <3> QED BY <2>1, <3>1, <3>2, <3>3
  <2> QED BY <1>1, <1>3, <2>0, <2>2, <2>3, <2>4
<1>12. t = u
  <2>1. DOMAIN t = 1 .. Len(t) /\ DOMAIN u = 1 .. Len(t)
    BY <1>l
  <2>2. t = [j \in 1 .. Len(t) |-> t[j]] /\ u = [j \in 1 .. Len(t) |-> u[j]]
    BY <2>1, <1>l
  <2> QED BY <1>11, <2>2
<1> QED BY <1>3, <1>4, <1>8, <1>10, <1>12

(* A place in a longer or a shorter list.                                  *)
LEMMA NewestOfMore ==
  ASSUME NEW s \in Seq(Clients), NEW x \in Clients, NEW m \in {0, 1}, NEW c, Newest(s, m, c)
  PROVE  Newest(Append(s, x), m + 1, c)
<1>1. Len(s) \in Nat /\ Len(Append(s, x)) = Len(s) + 1
  OBVIOUS
<1>2. Len(s) - m \in 1 .. Len(s) /\ s[Len(s) - m] = c
  BY DEF Newest
<1>3. Append(s, x)[Len(s) - m] = c /\ DOMAIN Append(s, x) = 1 .. Len(s) + 1
  BY <1>2
<1>4. Len(Append(s, x)) - (m + 1) = Len(s) - m
  BY <1>1
<1> QED BY <1>1, <1>2, <1>3, <1>4 DEF Newest

(* A request that is not an accept leaves the line.                        *)
LEMMA LineShrinks ==
  ASSUME NEW q \in Seq(Requests), NEW r \in Seq(Requests), NEW m, NEW i \in DOMAIN q,
         Kept(q, r, m, DOMAIN q \ {i}), q[i].op # "accept"
  PROVE  /\ \A p \in DOMAIN r : m[p] \in DOMAIN q /\ r[p] = q[m[p]] /\ (AcceptBefore(r, p) <=> AcceptBefore(q, m[p]))
         /\ \A a \in DOMAIN q : AcceptAt(q, a) => \E b \in DOMAIN r : AcceptAt(r, b)
         /\ NoAccept(q) => NoAccept(r)
<1>1. /\ \A p \in DOMAIN r : m[p] \in DOMAIN q /\ r[p] = q[m[p]]
      /\ \A p, s \in DOMAIN r : p < s => m[p] < m[s]
      /\ \A j \in DOMAIN q : j # i => \E p \in DOMAIN r : m[p] = j
  BY DEF Kept, Places
<1>2. DOMAIN r \subseteq Nat /\ DOMAIN q \subseteq Nat
  OBVIOUS
<1>3. ASSUME NEW p \in DOMAIN r PROVE AcceptBefore(r, p) <=> AcceptBefore(q, m[p])
  <2>1. ASSUME NEW a \in DOMAIN r, a < p, r[a].op = "accept" PROVE AcceptBefore(q, m[p])
    BY <1>1, <2>1 DEF AcceptBefore
  <2>2. ASSUME NEW a \in DOMAIN q, a < m[p], q[a].op = "accept" PROVE AcceptBefore(r, p)
    <3>1. PICK b \in DOMAIN r : m[b] = a
      BY <1>1, <2>2
    <3>2. b < p
      BY <1>1, <1>2, <2>2, <3>1
    <3> QED BY <1>1, <2>2, <3>1, <3>2 DEF AcceptBefore
  <2> QED BY <2>1, <2>2 DEF AcceptBefore
<1>4. ASSUME NEW a \in DOMAIN q, AcceptAt(q, a) PROVE \E b \in DOMAIN r : AcceptAt(r, b)
  <2>1. a # i
    BY <1>4 DEF AcceptAt
  <2>2. PICK b \in DOMAIN r : m[b] = a
    BY <1>1, <2>1
  <2>3. \A p \in DOMAIN r : m[p] = a <=> p = b
    BY <1>1, <1>2, <2>2
  <2>4. ASSUME NEW p \in DOMAIN r PROVE r[p].op = "accept" <=> p = b
    <3>1. m[p] \in DOMAIN q /\ r[p] = q[m[p]]
      BY <1>1
    <3>2. q[m[p]].op = "accept" <=> m[p] = a
      BY <1>4, <3>1 DEF AcceptAt
    <3>3. m[p] = a <=> p = b
      BY <2>3
    <3> QED BY <3>1, <3>2, <3>3
  <2>5. AcceptAt(r, b)
    BY <2>4 DEF AcceptAt
  <2> QED BY <2>5
<1>5. NoAccept(q) => NoAccept(r)
  BY <1>1 DEF NoAccept
<1> QED BY <1>1, <1>3, <1>4, <1>5

(* Cqes: one more at the end, one less at the head.                        *)
LEMMA CqGrows ==
  ASSUME NEW z \in Seq(Cqes), NEW e \in Cqes
  PROVE  LET w == Append(z, e) IN
         /\ DOMAIN w = 1 .. Len(z) + 1 /\ DOMAIN z = 1 .. Len(z) /\ Len(z) \in Nat
         /\ \A p \in DOMAIN z : w[p] = z[p]
         /\ w[Len(z) + 1] = e
         /\ \A p \in DOMAIN z : AcceptAfter(w, p) <=> AcceptAfter(z, p) \/ e.request.op = "accept"
         /\ ~AcceptAfter(w, Len(z) + 1)
<1> DEFINE w == Append(z, e)
<1>1. /\ DOMAIN w = 1 .. Len(z) + 1 /\ DOMAIN z = 1 .. Len(z) /\ Len(z) \in Nat
      /\ \A p \in DOMAIN z : w[p] = z[p]
      /\ w[Len(z) + 1] = e
  OBVIOUS
<1> HIDE DEF w
<1>2. ASSUME NEW p \in DOMAIN z PROVE AcceptAfter(w, p) <=> AcceptAfter(z, p) \/ e.request.op = "accept"
  <2>1. ASSUME NEW a \in DOMAIN w, p < a, w[a].request.op = "accept"
        PROVE  AcceptAfter(z, p) \/ e.request.op = "accept"
    BY <1>1, <2>1 DEF AcceptAfter
  <2>2. AcceptAfter(z, p) => AcceptAfter(w, p)
    BY <1>1 DEF AcceptAfter
  <2>3. e.request.op = "accept" => AcceptAfter(w, p)
    <3>1. Len(z) + 1 \in DOMAIN w /\ p < Len(z) + 1
      BY <1>1
    <3> QED BY <1>1, <3>1 DEF AcceptAfter
  <2> QED BY <2>1, <2>2, <2>3 DEF AcceptAfter
<1>3. ~AcceptAfter(w, Len(z) + 1)
  BY <1>1 DEF AcceptAfter
<1> QED BY <1>1, <1>2, <1>3 DEF w

LEMMA CqShrinks ==
  ASSUME NEW z \in Seq(Cqes), z # << >>
  PROVE  LET w == Tail(z) IN
         /\ w \in Seq(Cqes) /\ 1 \in DOMAIN z /\ Head(z) = z[1]
         /\ \A p \in DOMAIN w : p + 1 \in DOMAIN z /\ w[p] = z[p + 1] /\ p \in Nat /\ p >= 1
                                /\ (AcceptAfter(w, p) <=> AcceptAfter(z, p + 1))
         /\ \A p \in DOMAIN z : p # 1 => p - 1 \in DOMAIN w /\ w[p - 1] = z[p] /\ p \in Nat
<1> DEFINE w == Tail(z)
<1>1. /\ w \in Seq(Cqes) /\ 1 \in DOMAIN z /\ Head(z) = z[1] /\ Len(z) \in Nat
      /\ DOMAIN z = 1 .. Len(z) /\ DOMAIN w = 1 .. Len(z) - 1
      /\ \A p \in DOMAIN w : w[p] = z[p + 1]
  OBVIOUS
<1> HIDE DEF w
<1>2. ASSUME NEW p \in DOMAIN z, p # 1 PROVE p - 1 \in DOMAIN w /\ w[p - 1] = z[p] /\ p \in Nat
  <2>1. p - 1 \in DOMAIN w /\ p \in Nat /\ (p - 1) + 1 = p
    BY <1>1, <1>2
  <2> QED BY <1>1, <2>1
<1>3. ASSUME NEW p \in DOMAIN w
      PROVE  p + 1 \in DOMAIN z /\ w[p] = z[p + 1] /\ p \in Nat /\ p >= 1
  BY <1>1
<1>4. ASSUME NEW p \in DOMAIN w PROVE AcceptAfter(w, p) <=> AcceptAfter(z, p + 1)
  <2>1. ASSUME NEW a \in DOMAIN w, p < a, w[a].request.op = "accept" PROVE AcceptAfter(z, p + 1)
    <3>1. a + 1 \in DOMAIN z /\ p + 1 < a + 1 /\ z[a + 1].request.op = "accept"
      BY <1>3, <2>1
    <3> QED BY <3>1 DEF AcceptAfter
  <2>2. ASSUME NEW a \in DOMAIN z, p + 1 < a, z[a].request.op = "accept" PROVE AcceptAfter(w, p)
    <3>1. a # 1
      BY <1>3, <2>2
    <3>2. a - 1 \in DOMAIN w /\ w[a - 1] = z[a] /\ a \in Nat
      BY <1>2, <3>1
    <3>3. p < a - 1
      BY <1>3, <2>2, <3>2
    <3> QED BY <2>2, <3>2, <3>3 DEF AcceptAfter
  <2> QED BY <2>1, <2>2 DEF AcceptAfter
<1> QED BY <1>1, <1>2, <1>3, <1>4 DEF w

(* The line, and requests that are prepared: no accept before another.     *)
LEMMA LineGrows ==
  ASSUME NEW q \in Seq(Requests), NEW b \in Seq(Requests),
         \A a, p \in DOMAIN b : a < p => b[a].op # "accept"
  PROVE  LET r == q \o b IN
         /\ r \in Seq(Requests) /\ DOMAIN r = 1 .. Len(q) + Len(b)
         /\ Len(q) \in Nat /\ Len(b) \in Nat /\ DOMAIN q = 1 .. Len(q) /\ DOMAIN b = 1 .. Len(b)
         /\ \A p \in DOMAIN q : p \in DOMAIN r /\ r[p] = q[p] /\ (AcceptBefore(r, p) <=> AcceptBefore(q, p))
         /\ \A p \in DOMAIN b : /\ Len(q) + p \in DOMAIN r /\ r[Len(q) + p] = b[p]
                                /\ AcceptBefore(r, Len(q) + p) <=> ~NoAccept(q)
         /\ \A p \in DOMAIN r : p \in DOMAIN q \/ (p - Len(q) \in DOMAIN b /\ Len(q) + (p - Len(q)) = p)
<1> DEFINE r == q \o b
<1>1. /\ r \in Seq(Requests) /\ DOMAIN r = 1 .. Len(q) + Len(b)
      /\ Len(q) \in Nat /\ Len(b) \in Nat /\ DOMAIN q = 1 .. Len(q) /\ DOMAIN b = 1 .. Len(b)
      /\ \A p \in DOMAIN q : r[p] = q[p]
      /\ \A p \in DOMAIN r : p > Len(q) => r[p] = b[p - Len(q)]
  OBVIOUS
<1> HIDE DEF r
<1>2. \A p \in DOMAIN r : p \in DOMAIN q \/ (p - Len(q) \in DOMAIN b /\ Len(q) + (p - Len(q)) = p)
  BY <1>1
<1>3. \A p \in DOMAIN b : Len(q) + p \in DOMAIN r /\ Len(q) + p > Len(q) /\ (Len(q) + p) - Len(q) = p
  BY <1>1
<1>4. \A p \in DOMAIN b : r[Len(q) + p] = b[p]
  BY <1>1, <1>3
<1>5. ASSUME NEW p \in DOMAIN q
      PROVE  p \in DOMAIN r /\ (AcceptBefore(r, p) <=> AcceptBefore(q, p))
  <2>1. p \in DOMAIN r /\ \A a \in DOMAIN r : a < p => a \in DOMAIN q
    BY <1>1
  <2>2. \A a \in DOMAIN q : a \in DOMAIN r
    BY <1>1
  <2> QED BY <1>1, <2>1, <2>2 DEF AcceptBefore
<1>6. ASSUME NEW p \in DOMAIN b PROVE AcceptBefore(r, Len(q) + p) <=> ~NoAccept(q)
  <2>1. ASSUME NEW a \in DOMAIN r, a < Len(q) + p, r[a].op = "accept" PROVE ~NoAccept(q)
    <3>1. CASE a \in DOMAIN q
      BY <1>1, <2>1, <3>1 DEF NoAccept
    <3>2. CASE a \notin DOMAIN q
      <4>1. a - Len(q) \in DOMAIN b /\ Len(q) + (a - Len(q)) = a
        BY <1>2, <3>2
      <4>2. r[a] = b[a - Len(q)] /\ a - Len(q) < p
        BY <1>1, <1>4, <2>1, <4>1
      <4> QED BY <2>1, <4>1, <4>2
    <3> QED BY <3>1, <3>2
  <2>2. ASSUME NEW a \in DOMAIN q, q[a].op = "accept" PROVE AcceptBefore(r, Len(q) + p)
    <3>1. a \in DOMAIN r /\ a < Len(q) + p /\ r[a] = q[a]
      BY <1>1
    <3> QED BY <2>2, <3>1 DEF AcceptBefore
  <2> QED BY <2>1, <2>2 DEF AcceptBefore, NoAccept
<1> QED BY <1>1, <1>2, <1>3, <1>4, <1>5, <1>6 DEF r

(* Who has a request, or a cqe of one, was accepted.                       *)
LEMMA ServedAccepted ==
  ASSUME IInv, program = "drain", NEW r \in Requests, r.op # "accept", r.fd \in Fds,
         \/ r \in Pending
         \/ r.op # "close" /\ \E e \in Ended : e.request = r
  PROVE  /\ r.task \in Range(accepted) /\ socket[r.task] = r.fd
         /\ \A c \in Clients : socket[c] = r.fd => r.task = c
<1>1. PICK c \in Clients : Serves(c, r)
  <2>1. CASE r \in Pending
    BY <2>1, PendingSocket DEF IInv
  <2>2. CASE r.op # "close" /\ \E e \in Ended : e.request = r
    <3>1. PICK e \in Ended : e.request = r
      BY <2>2
    <3>2. EndedOK(e)
      BY DEF Ended
    <3>3. r.op \in {"read", "write"}
      BY <2>2 DEF Requests
    <3> QED BY <3>1, <3>2, <3>3 DEF EndedOK
  <2> QED BY <2>1, <2>2
<1>2. r.task = c /\ socket[c] = r.fd /\ r.fd # None
  BY <1>1 DEF Serves
<1>3. \A d \in Clients : socket[d] = socket[c] /\ socket[d] # None => d = c
  BY DEF IInv, ClientsOK
<1>4. c \in Range(accepted)
  BY <1>2 DEF IInv, ClientsOK
<1> QED BY <1>2, <1>3, <1>4

(* What the kernel does to a request that is not an accept.                *)
EndsRequest(i, e) ==
  /\ e.request = kern[i] /\ e.request.op # "accept"
  /\ kern' = RemoveAt(kern, i) /\ cq' = Append(cq, e)
  /\ UNCHANGED <<program, sq, operations, accepted, hungUp, sent, awaiter>>
  /\ e.request.task \in Clients
  /\ \A c \in Clients : delivered[c] # << >> => delivered'[c] # << >>
  /\ \A c \in Clients : delivered'[c] # delivered[c] => kern[i].op = "write" /\ kern[i].task = c
  /\ e.request.op = "read" /\ e.res = 0 =>
       delivered[e.request.task] # << >> \/ NothingToSay(e.request.task)
  /\ e.request.op = "write" =>
       \/ e.res = Failed \/ e.request.arg = 0
       \/ e.res = 1 /\ delivered'[e.request.task] # << >>
  /\ e.request.op = "write" /\ e.res = 1 => delivered'[e.request.task] # << >>

LEMMA KernelEndsRequest ==
  ASSUME IInv, program = "drain", NEW i \in DOMAIN kern, UNCHANGED <<program, serverVars>>,
         \/ KernelReads(i) \/ KernelWrites(i) \/ KernelCloses(i)
         \/ KernelFails(i)
  PROVE  \E e \in Cqes : EndsRequest(i, e)
<1>t. kern \in Seq(Requests) /\ delivered \in [Clients -> Seq(Message \cup {Word(1), Word(2)})]
      /\ socket \in [Clients -> Fds \cup {None}] /\ IInv
  BY DEF IInv, TypeOK
<1>q. kern \in Seq(Pending)
  BY DEF IInv, QueuesOK
<1>r. PICK r \in Requests : r = kern[i] /\ r \in Pending
  BY <1>t, <1>q
<1>o. r.op \in {"read", "write", "close"}
  <2>1. CASE KernelFails(i)
    BY <1>r, <2>1 DEF KernelFails
  <2>2. CASE ~KernelFails(i)
    BY <1>r, <2>2, KernelsKind
  <2> QED BY <2>1, <2>2
<1>f. r.fd \in Fds
  BY <1>r, <1>o, PendingSocket DEF IInv
<1>s. /\ r.task \in Range(accepted) /\ socket[r.task] = r.fd
      /\ \A c \in Clients : socket[c] = r.fd => r.task = c
  BY <1>r, <1>o, <1>f, ServedAccepted
<1>n. r.task \in Clients
  <2>1. accepted \in Seq(Clients)
    BY DEF IInv, TypeOK
  <2> QED BY <1>s, <2>1 DEF Range
<1> DEFINE End(n) == [request |-> r, res |-> n, more |-> FALSE]
<1>e. \A n \in {0, 1, Failed} : End(n) \in Cqes /\ End(n).request = r /\ End(n).res = n
  BY <1>r DEF Cqes
<1>u. UNCHANGED <<program, operations, awaiter>>
  BY DEF serverVars
<1>k. program # "link" /\ ~Skipped(r)
  BY DEF Skipped
<1>1. CASE KernelReads(i)
  <2>1. PICK n \in {0, 1} :
          Answer(i, r, n, FALSE) /\ (n = 0 => ~(taken[r.task] < Len(sent[r.task])) /\ r.task \in hungUp)
    <3>1. PICK c \in Clients : socket[c] = r.fd /\ ReadFrom(c, r, i)
      BY <1>1, <1>r DEF KernelReads
    <3>2. c = r.task
      BY <1>s, <3>1
    <3>3. CASE taken[c] < Len(sent[c])
      <4>1. Answer(i, r, 1, FALSE)
        BY <3>1, <3>3 DEF ReadFrom
      <4>2. 1 \in {0, 1} /\ 1 # 0
        OBVIOUS
      <4> QED BY <4>1, <4>2, Zenon
    <3>4. CASE ~(taken[c] < Len(sent[c]))
      <4>1. c \in hungUp /\ Answer(i, r, 0, FALSE)
        BY <3>1, <3>4 DEF ReadFrom
      <4> QED BY <3>2, <3>4, <4>1
    <3> QED BY <3>3, <3>4
  <2>2. kern' = RemoveAt(kern, i) /\ cq' = Append(cq, End(n)) /\ sq' = sq
    BY <1>k, <2>1 DEF Answer
  <2>3. UNCHANGED <<accepted, delivered, hungUp, sent>> /\ r.op = "read"
    BY <1>1, <1>r DEF KernelReads
  <2>4. End(n) \in Cqes /\ End(n).request = r /\ End(n).res = n
    BY <1>e
  <2>6. n = 0 => delivered[r.task] # << >> \/ NothingToSay(r.task)
    <3> SUFFICES ASSUME n = 0, delivered[r.task] = << >> PROVE NothingToSay(r.task)
      OBVIOUS
    <3>1. Idle(r.task)
      <4>1. PICK c \in Clients : Serves(c, r) /\ Idle(c)
        BY <1>r, <2>3 DEF Pending, PendingOK, AcceptRequest, Request
      <4> QED BY <1>s, <4>1 DEF Serves
    <3>2. taken[r.task] = 0 /\ ~(0 < Len(sent[r.task])) /\ r.task \in hungUp
      BY <2>1, <3>1 DEF Idle
    <3>3. PICK x \in Seq(Message) : x = sent[r.task]
      BY <1>n DEF IInv, TypeOK
    <3>4. x = << >>
      BY <3>2, <3>3
    <3> QED BY <3>2, <3>3, <3>4 DEF NothingToSay
  <2> HIDE DEF End
  <2>5. EndsRequest(i, End(n))
    BY <1>r, <1>n, <1>u, <2>2, <2>3, <2>4, <2>6 DEF EndsRequest
  <2> QED BY <2>4, <2>5
<1>2. CASE KernelWrites(i)
  <2> DEFINE m == IF r.arg = 0 THEN 0 ELSE 1
             said == IF r.arg = 0 THEN << >> ELSE <<memory[Slot(r)]>>
  <2>0. m \in {0, 1}
    OBVIOUS
  <2>1. /\ Answer(i, r, m, FALSE) /\ UNCHANGED <<accepted, hungUp, sent>> /\ r.op = "write"
        /\ \E c \in Clients : socket[c] = r.fd /\ delivered' = [delivered EXCEPT ![c] = @ \o said]
    BY <1>2, <1>r, <1>k DEF KernelWrites
  <2>2. delivered' = [delivered EXCEPT ![r.task] = @ \o said]
    BY <1>s, <2>1
  <2>3. delivered'[r.task] = delivered[r.task] \o said /\ \A c \in Clients : c # r.task => delivered'[c] = delivered[c]
    BY <1>t, <1>n, <2>2
  <2>4. /\ delivered[r.task] # << >> => delivered'[r.task] # << >>
        /\ m = 1 => delivered'[r.task] # << >>
    <3>1. PICK d \in Seq(Message \cup {Word(1), Word(2)}) : d = delivered[r.task]
      BY <1>t, <1>n
    <3>2. CASE r.arg = 0
      <4>1. delivered'[r.task] = d \o << >>
        BY <2>3, <3>1, <3>2
      <4> QED BY <3>1, <3>2, <4>1
    <3>3. CASE r.arg # 0
      <4>1. PICK x : x = memory[Slot(r)]
        OBVIOUS
      <4>2. delivered'[r.task] = Append(d, x)
        <5>1. d \o <<x>> = Append(d, x)
          BY <3>1
        <5> QED BY <2>3, <3>1, <3>3, <4>1, <5>1
      <4>3. Append(d, x) # << >>
        BY <3>1
      <4> QED BY <4>2, <4>3
    <3> QED BY <3>2, <3>3
  <2>8. r.arg = 0 \/ m = 1
    OBVIOUS
  <2> HIDE DEF m, said
  <2>5. kern' = RemoveAt(kern, i) /\ cq' = Append(cq, End(m)) /\ sq' = sq
    BY <1>k, <2>1 DEF Answer
  <2>6. End(m) \in Cqes /\ End(m).request = r /\ End(m).res = m
    BY <1>e, <2>0
  <2> HIDE DEF End
  <2>7. EndsRequest(i, End(m))
    BY <1>r, <1>n, <1>u, <2>1, <2>3, <2>4, <2>5, <2>6, <2>8 DEF EndsRequest
  <2> QED BY <2>6, <2>7
<1>3. CASE KernelCloses(i)
  <2>1. /\ Answer(i, r, 1, FALSE) /\ UNCHANGED <<accepted, delivered, hungUp, sent>> /\ r.op = "close"
    BY <1>3, <1>r DEF KernelCloses
  <2>2. kern' = RemoveAt(kern, i) /\ cq' = Append(cq, End(1)) /\ sq' = sq
    BY <1>k, <2>1 DEF Answer
  <2>4. End(1) \in Cqes /\ End(1).request = r
    BY <1>e
  <2> HIDE DEF End
  <2>5. EndsRequest(i, End(1))
    BY <1>r, <1>n, <1>u, <2>1, <2>2, <2>4 DEF EndsRequest
  <2> QED BY <2>4, <2>5
<1>4. CASE KernelFails(i)
  <2>1. /\ kern' = RemoveAt(kern, i) /\ cq' = Append(cq, End(Failed)) /\ sq' = sq
        /\ UNCHANGED <<accepted, delivered, hungUp, sent>> /\ r.op # "close"
    BY <1>4, <1>r, <1>k DEF KernelFails, clientVars
  <2>2. End(Failed) \in Cqes /\ End(Failed).request = r /\ End(Failed).res = Failed /\ Failed # 1 /\ Failed # 0
    BY <1>e DEF Failed
  <2> HIDE DEF End
  <2>3. EndsRequest(i, End(Failed))
    BY <1>r, <1>o, <1>n, <1>u, <2>1, <2>2 DEF EndsRequest
  <2> QED BY <2>2, <2>3
<1> QED BY <1>1, <1>2, <1>3, <1>4

(* And what the server does with the cqe of one.                           *)
HandlesEnd(rs) ==
  /\ cq # << >> /\ cq' = Tail(cq) /\ rs \in Seq(Requests) /\ sq' = sq \o rs
  /\ UNCHANGED <<program, kern, clientVars>> /\ ~awaiter'
  /\ Head(cq).res # Failed
  /\ LET h == Head(cq)
         r == h.request
     IN  \/ /\ r.op = "accept" /\ rs = <<AcceptRequest>>
            /\ operations' = Append(operations, <<r.task, r.fd>>)
         \/ /\ r.op = "close" /\ rs = << >> /\ operations' = operations
         \/ /\ operations' = operations
            /\ \E x \in Requests :
                 /\ rs = <<x>> /\ x.task = r.task /\ r.task \in Clients
                 /\ \/ r.op = "read" /\ x.op = "write" /\ x.arg = h.res
                    \/ r.op = "write" /\ x.op = "close"
                    \/ r.op = "write" /\ h.res = 1 /\ x.op = "read"

LEMMA ServerHandlesEnd ==
  ASSUME IInv, InTurn, program = "drain", OnAccept \/ OnRead \/ OnWrite \/ OnClose
  PROVE  \E rs : HandlesEnd(rs)
<1>a. ~awaiter
  BY DEF InTurn
<1>t. IInv
  OBVIOUS
<1>p. PICK op \in {"accept", "read", "write", "close"} :
        /\ Handles(op)
        /\ op = "accept" => OnAccept
        /\ op = "read" => OnRead
        /\ op = "write" => OnWrite
        /\ op = "close" => OnClose
  BY DEF OnAccept, OnRead, OnWrite, OnClose
<1>h. /\ cq # << >> /\ Head(cq) \in Ended /\ Head(cq) \in Cqes
      /\ Head(cq).request.op = op /\ Head(cq).res # Failed
      /\ cq' = Tail(cq) /\ UNCHANGED <<program, clientVars>>
  BY <1>p, HandledCqe DEF IInv
<1>e. PICK h \in Cqes : h = Head(cq)
  BY <1>h
<1>r. PICK r \in Requests : r = h.request
  BY DEF Cqes
<1>i. \A rs : Issue(rs) => sq' = sq \o rs /\ kern' = kern
  BY DEF Issue
<1>1. CASE op = "accept"
  <2>1. ServerAccepts(h)
    BY <1>p, <1>e, <1>1 DEF OnAccept
  <2>2. /\ operations' = Append(operations, <<r.task, r.fd>>) /\ ~awaiter'
        /\ Issue(<<AcceptRequest>>)
    BY <1>a, <1>r, <2>1 DEF ServerAccepts, StaysOn
  <2>3. <<AcceptRequest>> \in Seq(Requests)
    <3>1. AcceptRequest \in Requests
      BY DEF AcceptRequest, Request, Requests
    <3> QED BY <3>1
  <2>4. HandlesEnd(<<AcceptRequest>>)
    BY <1>h, <1>e, <1>r, <1>i, <1>1, <2>2, <2>3 DEF HandlesEnd
  <2> QED BY <2>4
<1>n. op \in {"read", "write"} => r.task \in Clients
  <2> SUFFICES ASSUME op \in {"read", "write"} PROVE r.task \in Clients
    OBVIOUS
  <2>1. EndedOK(h) /\ r.op = op
    BY <1>h, <1>e, <1>r DEF Ended
  <2>2. PICK c \in Clients : Serves(c, r)
    BY <1>r, <2>1 DEF EndedOK
  <2> QED BY <2>2 DEF Serves
<1>2. CASE op = "read"
  <2> DEFINE x == [r EXCEPT !.op = "write", !.arg = h.res]
  <2>1. Issue(<<x>>) /\ UNCHANGED <<operations, awaiter>>
    BY <1>p, <1>e, <1>r, <1>2 DEF OnRead
  <2>2. x \in Requests /\ x.op = "write" /\ x.task = r.task /\ x.arg = h.res
    <3>1. h.res \in 0 .. 2
      BY <1>h, <1>e DEF Cqes
    <3> QED BY <3>1 DEF Requests
  <2> HIDE DEF x
  <2>3. <<x>> \in Seq(Requests)
    BY <2>2
  <2>4. HandlesEnd(<<x>>)
    BY <1>a, <1>h, <1>e, <1>r, <1>i, <1>n, <1>2, <2>1, <2>2, <2>3 DEF HandlesEnd
  <2> QED BY <2>4
<1>3. CASE op = "write"
  <2>0. PICK o \in {"close", "read"} : o = IF Closing(h) THEN "close" ELSE "read"
    OBVIOUS
  <2> DEFINE x == [r EXCEPT !.op = o, !.arg = 0]
  <2>1. Issue(<<x>>) /\ UNCHANGED <<operations, awaiter>>
    BY <1>p, <1>e, <1>r, <1>3, <2>0 DEF OnWrite, AfterWrite
  <2>2. x \in Requests /\ x.op = o /\ x.task = r.task
    <3>1. 0 \in 0 .. 1 /\ o \in {"read", "write", "close"} /\ x = Reissue(r, o, 0)
      BY DEF Reissue
    <3> QED BY <3>1, Reissued
  <2>3. Closing(h) \/ h.res = 1
    BY <1>h, <1>e DEF Closing, Cqes
  <2> HIDE DEF x
  <2>4. <<x>> \in Seq(Requests)
    BY <2>2
  <2>5. HandlesEnd(<<x>>)
    BY <1>a, <1>h, <1>e, <1>r, <1>i, <1>n, <1>3, <2>0, <2>1, <2>2, <2>3, <2>4 DEF HandlesEnd
  <2> QED BY <2>5
<1>4. CASE op = "close"
  <2>1. UNCHANGED <<sq, kern, operations, awaiter>>
    BY <1>p, <1>4 DEF OnClose
  <2>2. sq \o << >> = sq /\ << >> \in Seq(Requests)
    BY DEF IInv, TypeOK
  <2>3. HandlesEnd(<< >>)
    BY <1>a, <1>h, <1>e, <1>r, <1>4, <2>1, <2>2 DEF HandlesEnd
  <2> QED BY <2>3
<1> QED BY <1>1, <1>2, <1>3, <1>4

(* The line has the kernel's requests first, then the prepared ones.       *)
LEMMA LineOf ==
  ASSUME TypeOK
  PROVE  /\ kern \in Seq(Requests) /\ sq \in Seq(Requests) /\ Line \in Seq(Requests)
         /\ Len(Line) = Len(kern) + Len(sq)
         /\ \A p \in DOMAIN kern : p \in DOMAIN Line /\ Line[p] = kern[p]
         /\ \A p \in DOMAIN sq : Len(kern) + p \in DOMAIN Line /\ Line[Len(kern) + p] = sq[p]
         /\ cq \in Seq(Cqes) /\ accepted \in Seq(Clients)
<1>1. kern \in Seq(Requests) /\ sq \in Seq(Requests) /\ cq \in Seq(Cqes) /\ accepted \in Seq(Clients)
  BY DEF TypeOK
<1>2. PICK q \in Seq(Requests) : q = kern \o sq
  BY <1>1, ConcatProperties
<1>3. /\ Len(q) = Len(kern) + Len(sq)
      /\ \A p \in 1 .. Len(kern) + Len(sq) : q[p] = IF p <= Len(kern) THEN kern[p] ELSE sq[p - Len(kern)]
  BY <1>1, <1>2, ConcatProperties
<1>4. /\ DOMAIN kern = 1 .. Len(kern) /\ DOMAIN sq = 1 .. Len(sq) /\ DOMAIN q = 1 .. Len(q)
      /\ Len(kern) \in Nat /\ Len(sq) \in Nat
  BY <1>1
<1>5. \A p \in DOMAIN kern : p \in DOMAIN q /\ q[p] = kern[p]
  BY <1>3, <1>4
<1>6. \A p \in DOMAIN sq : Len(kern) + p \in DOMAIN q /\ q[Len(kern) + p] = sq[p]
  <2> TAKE p \in DOMAIN sq
  <2>1. Len(kern) + p \in DOMAIN q /\ ~(Len(kern) + p <= Len(kern)) /\ (Len(kern) + p) - Len(kern) = p
    BY <1>3, <1>4
  <2> QED BY <1>3, <1>4, <2>1
<1> QED BY <1>1, <1>2, <1>3, <1>5, <1>6 DEF Line

(* OrderOK of the next state, of its parts.                                *)
LEMMA OrderPrimed ==
  ASSUME OneAccept(Line', cq'), LineInTurn(Line', accepted', delivered'), CqInTurn(cq', accepted', delivered')
  PROVE  OrderOK'
BY DEF OrderOK

(* The order stays when a request that is not an accept ends.              *)
LEMMA LineEnds ==
  ASSUME NEW q \in Seq(Requests), NEW r \in Seq(Requests), NEW m, NEW i \in DOMAIN q,
         Kept(q, r, m, DOMAIN q \ {i}), q[i].op # "accept",
         NEW s, NEW d, NEW d2, \A c \in Clients : d[c] # << >> => d2[c] # << >>,
         LineInTurn(q, s, d)
  PROVE  LineInTurn(r, s, d2)
<1> SUFFICES ASSUME NEW p \in DOMAIN r, NEW c \in Clients, r[p].task = c, d2[c] = << >>
             PROVE  /\ r[p].op = "read" => Newest(s, IF AcceptBefore(r, p) THEN 0 ELSE 1, c)
                    /\ r[p].op = "write" => Newest(s, IF AcceptBefore(r, p) THEN 1 ELSE 2, c)
  BY DEF LineInTurn
<1>1. m[p] \in DOMAIN q /\ r[p] = q[m[p]] /\ (AcceptBefore(r, p) <=> AcceptBefore(q, m[p]))
  BY LineShrinks
<1>2. d[c] = << >>
  OBVIOUS
<1>3. /\ q[m[p]].op = "read" => Newest(s, IF AcceptBefore(q, m[p]) THEN 0 ELSE 1, c)
      /\ q[m[p]].op = "write" => Newest(s, IF AcceptBefore(q, m[p]) THEN 1 ELSE 2, c)
  BY <1>1, <1>2 DEF LineInTurn
<1> QED BY <1>1, <1>3

(* Of the cqes, too: a first read that ends has no accept after it.        *)
LEMMA CqEnds ==
  ASSUME NEW z \in Seq(Cqes), NEW e \in Cqes, e.request.op # "accept",
         NEW s, NEW d, NEW d2, \A c \in Clients : d[c] # << >> => d2[c] # << >>,
         CqInTurn(z, s, d),
         e.request.op = "read" /\ d2[e.request.task] = << >> => Newest(s, 1, e.request.task)
  PROVE  /\ CqInTurn(Append(z, e), s, d2)
         /\ NoEnd(z) => NoEnd(Append(z, e))
         /\ \A a \in DOMAIN z : EndAt(z, a) => \E b \in DOMAIN Append(z, e) : EndAt(Append(z, e), b)
<1> DEFINE w == Append(z, e)
<1>1. /\ DOMAIN w = 1 .. Len(z) + 1 /\ DOMAIN z = 1 .. Len(z) /\ Len(z) \in Nat
      /\ \A p \in DOMAIN z : w[p] = z[p]
      /\ w[Len(z) + 1] = e
      /\ \A p \in DOMAIN z : AcceptAfter(w, p) <=> AcceptAfter(z, p) \/ e.request.op = "accept"
      /\ ~AcceptAfter(w, Len(z) + 1)
  BY CqGrows
<1> HIDE DEF w
<1>2. \A p \in DOMAIN w : p \in DOMAIN z \/ p = Len(z) + 1
  BY <1>1
<1>3. CqInTurn(w, s, d2)
  <2> SUFFICES ASSUME NEW p \in DOMAIN w, NEW c \in Clients,
                      w[p].request.task = c, d2[c] = << >>, w[p].request.op = "read"
               PROVE  Newest(s, IF AcceptAfter(w, p) THEN 2 ELSE 1, c)
    BY DEF CqInTurn
  <2>1. CASE p \in DOMAIN z
    <3>1. d[c] = << >> /\ w[p] = z[p] /\ (AcceptAfter(w, p) <=> AcceptAfter(z, p))
      BY <1>1, <2>1
    <3>2. Newest(s, IF AcceptAfter(z, p) THEN 2 ELSE 1, c)
      BY <2>1, <3>1 DEF CqInTurn
    <3> QED BY <3>1, <3>2
  <2>2. CASE p = Len(z) + 1
    BY <1>1, <2>2
  <2> QED BY <1>2, <2>1, <2>2
<1>4. NoEnd(z) => NoEnd(w)
  BY <1>1, <1>2 DEF NoEnd
<1>5. ASSUME NEW a \in DOMAIN z, EndAt(z, a) PROVE \E b \in DOMAIN w : EndAt(w, b)
  <2>1. a \in DOMAIN w /\ a # Len(z) + 1
    BY <1>1
  <2>2. \A p \in DOMAIN w : w[p].request.op = "accept" <=> p = a
    BY <1>1, <1>2, <1>5, <2>1 DEF EndAt
  <2> QED BY <2>1, <2>2 DEF EndAt
<1> QED BY <1>3, <1>4, <1>5 DEF w

(* A request that is not an accept ends: a first read ends where it stood  *)
(* before, or after, the accepts, and a first write only after two of them. *)
LEMMA EndsInTurn ==
  ASSUME IInv, InTurn, program = "drain", NEW i \in DOMAIN kern, MayStart(i), UNCHANGED <<program, serverVars>>,
         KernelReads(i) \/ KernelWrites(i) \/ KernelCloses(i) \/ KernelFails(i)
  PROVE  InTurn'
<1>1. PICK e \in Cqes : EndsRequest(i, e)
  BY KernelEndsRequest
<1>2. /\ e.request = kern[i] /\ e.request.op # "accept" /\ e.request.task \in Clients
      /\ kern' = RemoveAt(kern, i) /\ cq' = Append(cq, e)
      /\ program' = program /\ sq' = sq /\ operations' = operations /\ accepted' = accepted
      /\ hungUp' = hungUp /\ sent' = sent /\ awaiter' = awaiter
  BY <1>1 DEF EndsRequest
<1>3. /\ \A c \in Clients : delivered[c] # << >> => delivered'[c] # << >>
      /\ \A c \in Clients : delivered'[c] # delivered[c] => kern[i].op = "write" /\ kern[i].task = c
      /\ e.request.op = "read" /\ e.res = 0 =>
           delivered[e.request.task] # << >> \/ NothingToSay(e.request.task)
      /\ e.request.op = "write" =>
           \/ e.res = Failed \/ e.request.arg = 0
           \/ e.res = 1 /\ delivered'[e.request.task] # << >>
      /\ e.request.op = "write" /\ e.res = 1 => delivered'[e.request.task] # << >>
  BY <1>1 DEF EndsRequest
<1>t. TypeOK
  BY DEF IInv
<1>n. /\ ~awaiter /\ OrderOK /\ AcceptedOnce /\ NewestBegins
      /\ HeardInTurn /\ NobodyForgotten /\ NothingUnsaid
  BY DEF InTurn
<1>q. PICK q \in Seq(Requests) : q = Line
  BY <1>t, LineOf
<1>k. i \in DOMAIN q /\ q[i] = kern[i]
  BY <1>t, <1>q, LineOf
<1>r. PICK r \in Seq(Requests) : r = Line' /\ r = RemoveAt(q, i)
  <2>1. RemoveAt(kern, i) \o sq = RemoveAt(kern \o sq, i)
    BY <1>t, LineOf, RemoveAtConcat
  <2>2. Line' = RemoveAt(q, i)
    BY <1>2, <1>q, <2>1 DEF Line
  <2>3. i \in 1 .. Len(q)
    BY <1>k
  <2>4. RemoveAt(q, i) \in Seq(Requests)
    BY <2>3, RemoveAtProperties
  <2> QED BY <2>2, <2>4
<1>m. PICK m : Kept(q, r, m, DOMAIN q \ {i})
  BY <1>k, <1>r, RemoveAtPlaces
<1>l. /\ \A p \in DOMAIN r : m[p] \in DOMAIN q /\ r[p] = q[m[p]]
      /\ \A a \in DOMAIN q : AcceptAt(q, a) => \E b \in DOMAIN r : AcceptAt(r, b)
      /\ NoAccept(q) => NoAccept(r)
  BY <1>2, <1>k, <1>m, LineShrinks
<1>z. PICK z \in Seq(Cqes) : z = cq
  BY <1>t, LineOf
<1>w. PICK w \in Seq(Cqes) : w = cq' /\ w = Append(z, e)
  <2>1. Append(z, e) \in Seq(Cqes)
    OBVIOUS
  <2> QED BY <1>2, <1>z, <2>1
<1>v. /\ DOMAIN w = 1 .. Len(z) + 1 /\ DOMAIN z = 1 .. Len(z) /\ Len(z) \in Nat
      /\ \A p \in DOMAIN z : p \in DOMAIN w /\ w[p] = z[p]
      /\ Len(z) + 1 \in DOMAIN w /\ w[Len(z) + 1] = e
      /\ \A p \in DOMAIN w : p \in DOMAIN z \/ p = Len(z) + 1
  BY <1>w
<1>b. ~AcceptBefore(q, i)
  <2>1. \A j \in 1 .. i - 1 : kern[j].op # "accept"
    BY DEF MayStart, DrainOrder, Drained
  <2>2. ASSUME NEW a \in DOMAIN q, a < i PROVE q[a].op # "accept"
    <3>1. a \in Nat /\ a >= 1 /\ i \in Nat /\ i <= Len(kern)
      BY <1>t, <2>2, LineOf
    <3>2. a \in 1 .. i - 1 /\ a \in DOMAIN kern
      BY <1>t, <2>2, <3>1, LineOf
    <3> QED BY <1>t, <1>q, <2>1, <3>2, LineOf
  <2> QED BY <2>2 DEF AcceptBefore
<1>o. /\ LineInTurn(q, accepted, delivered) /\ CqInTurn(z, accepted, delivered) /\ OneAccept(q, z)
  BY <1>n, <1>q, <1>z DEF OrderOK
<1>i. ASSUME NEW c \in Clients, q[i].task = c, delivered[c] = << >>
      PROVE  /\ q[i].op = "read" => Newest(accepted, 1, c)
             /\ q[i].op = "write" => Newest(accepted, 2, c)
  BY <1>b, <1>i, <1>k, <1>o DEF LineInTurn
<1>4. OrderOK'
  <2>1. LineInTurn(r, accepted', delivered')
    <3>1. LineInTurn(r, accepted, delivered')
      BY <1>2, <1>3, <1>k, <1>m, <1>o, LineEnds
    <3> QED BY <1>2, <3>1
  <2>2. e.request.op = "read" /\ delivered'[e.request.task] = << >> => Newest(accepted, 1, e.request.task)
    BY <1>2, <1>3, <1>i, <1>k
  <2>3. /\ CqInTurn(w, accepted, delivered')
        /\ NoEnd(z) => NoEnd(w)
        /\ \A a \in DOMAIN z : EndAt(z, a) => \E b \in DOMAIN w : EndAt(w, b)
    BY <1>2, <1>3, <1>o, <1>w, <2>2, CqEnds
  <2>4. OneAccept(r, w)
    BY <1>l, <1>o, <2>3 DEF OneAccept
  <2>5. CqInTurn(w, accepted', delivered')
    BY <1>2, <2>3
  <2> QED BY <1>r, <1>w, <2>1, <2>4, <2>5, OrderPrimed
<1>5. NewestBegins'
  <2>1. \A p \in DOMAIN w : w[p].request.op = "accept" => Newest(accepted, 0, w[p].request.task)
    BY <1>2, <1>n, <1>v, <1>z DEF NewestBegins
  <2> QED BY <1>2, <1>n, <1>w, <2>1 DEF NewestBegins
<1>6. HeardInTurn'
  <2> SUFFICES ASSUME NEW c \in Clients, delivered'[c] # << >>
               PROVE  \E p \in DOMAIN accepted : accepted[p] = c /\ p + 2 <= Len(accepted)
    BY <1>2 DEF HeardInTurn
  <2>1. CASE delivered[c] # << >>
    BY <1>n, <2>1 DEF HeardInTurn
  <2>2. CASE delivered[c] = << >>
    <3>1. kern[i].op = "write" /\ kern[i].task = c
      BY <1>3, <2>2
    <3>2. Newest(accepted, 2, c)
      BY <1>i, <1>k, <2>2, <3>1
    <3>3. Len(accepted) \in Nat
      BY <1>t, LineOf
    <3> QED BY <3>2, <3>3 DEF Newest
  <2> QED BY <2>1, <2>2
<1>s. \A c \in Clients : (NothingToSay(c) <=> NothingToSay(c)')
  BY <1>2 DEF NothingToSay
<1>7. NothingUnsaid'
  <2>1. \A p \in DOMAIN r, c \in Clients :
          r[p].op = "write" /\ r[p].arg = 0 /\ r[p].task = c => delivered'[c] # << >> \/ NothingToSay(c)
    <3> SUFFICES ASSUME NEW p \in DOMAIN r, NEW c \in Clients, r[p].op = "write", r[p].arg = 0, r[p].task = c
                 PROVE  delivered'[c] # << >> \/ NothingToSay(c)
      OBVIOUS
    <3>1. m[p] \in DOMAIN q /\ r[p] = q[m[p]]
      BY <1>l
    <3>2. delivered[c] # << >> \/ NothingToSay(c)
      BY <1>n, <1>q, <3>1 DEF NothingUnsaid
    <3> QED BY <1>3, <3>2
  <2>2. \A p \in DOMAIN w, c \in Clients :
          w[p].request.op = "read" /\ w[p].res = 0 /\ w[p].request.task = c =>
            delivered'[c] # << >> \/ NothingToSay(c)
    <3> SUFFICES ASSUME NEW p \in DOMAIN w, NEW c \in Clients,
                        w[p].request.op = "read", w[p].res = 0, w[p].request.task = c
                 PROVE  delivered'[c] # << >> \/ NothingToSay(c)
      OBVIOUS
    <3>1. CASE p \in DOMAIN z
      <4>1. delivered[c] # << >> \/ NothingToSay(c)
        BY <1>n, <1>v, <1>z, <3>1 DEF NothingUnsaid
      <4> QED BY <1>3, <4>1
    <3>2. CASE p = Len(z) + 1
      BY <1>3, <1>v, <3>2
    <3> QED BY <1>v, <3>1, <3>2
  <2>3. \A p \in DOMAIN w, c \in Clients :
          w[p].request.op = "write" /\ w[p].res = 1 /\ w[p].request.task = c => delivered'[c] # << >>
    <3> SUFFICES ASSUME NEW p \in DOMAIN w, NEW c \in Clients,
                        w[p].request.op = "write", w[p].res = 1, w[p].request.task = c
                 PROVE  delivered'[c] # << >>
      OBVIOUS
    <3>1. CASE p \in DOMAIN z
      <4>1. delivered[c] # << >>
        BY <1>n, <1>v, <1>z, <3>1 DEF NothingUnsaid
      <4> QED BY <1>3, <4>1
    <3>2. CASE p = Len(z) + 1
      BY <1>3, <1>v, <3>2
    <3> QED BY <1>v, <3>1, <3>2
  <2> QED BY <1>r, <1>w, <1>s, <2>1, <2>2, <2>3 DEF NothingUnsaid
<1>8. NobodyForgotten'
  <2> SUFFICES ASSUME NEW c \in Range(accepted)
               PROVE  delivered'[c] # << >> \/ NothingToSay(c)' \/ Reset(c)' \/ Waiting(c)'
    BY <1>2 DEF NobodyForgotten
  <2>0. c \in Clients
    BY <1>t, LineOf DEF Range
  <2>1. CASE delivered[c] # << >> \/ NothingToSay(c)
    BY <1>3, <1>s, <2>0, <2>1
  <2>2. CASE Reset(c)
    <3>1. PICK p \in DOMAIN z : z[p].res = Failed /\ z[p].request.op = "write" /\ z[p].request.task = c
      BY <1>z, <2>2 DEF Reset
    <3> QED BY <1>v, <1>w, <3>1 DEF Reset
  <2>3. CASE \E p \in DOMAIN q : q[p].op \in {"read", "write"} /\ q[p].task = c
    <3>1. PICK p \in DOMAIN q : q[p].op \in {"read", "write"} /\ q[p].task = c
      BY <2>3
    <3>2. CASE p # i
      <4>1. PICK s \in DOMAIN r : m[s] = p
        BY <1>m, <3>2 DEF Kept
      <4>2. r[s].op \in {"read", "write"} /\ r[s].task = c
        BY <1>l, <3>1, <4>1
      <4> QED BY <1>r, <4>2 DEF Waiting
    <3>3. CASE p = i /\ q[p].op = "read"
      <4>1. w[Len(z) + 1].request.op = "read" /\ w[Len(z) + 1].request.task = c
        BY <1>2, <1>k, <1>v, <3>1, <3>3
      <4> QED BY <1>v, <1>w, <4>1 DEF Waiting
    <3>4. CASE p = i /\ q[p].op = "write"
      <4>1. e.request.op = "write" /\ e.request.task = c
        BY <1>2, <1>k, <3>1, <3>4
      <4>2. CASE e.res = Failed
        BY <1>v, <1>w, <4>1, <4>2 DEF Reset
      <4>3. CASE e.request.arg = 0
        <5>1. delivered[c] # << >> \/ NothingToSay(c)
          BY <1>2, <1>k, <1>n, <1>q, <2>0, <4>1, <4>3 DEF NothingUnsaid
        <5> QED BY <1>3, <1>s, <2>0, <5>1
      <4> QED BY <1>3, <4>1, <4>2, <4>3
    <3> QED BY <3>1, <3>2, <3>3, <3>4
  <2>4. CASE \E p \in DOMAIN z : z[p].request.op \in {"accept", "read"} /\ z[p].request.task = c
    <3>1. PICK p \in DOMAIN z : z[p].request.op \in {"accept", "read"} /\ z[p].request.task = c
      BY <2>4
    <3>2. p \in DOMAIN w /\ w[p] = z[p]
      BY <1>v
    <3> QED BY <1>w, <3>1, <3>2 DEF Waiting
  <2>5. CASE \E p \in DOMAIN operations : operations[p][1] = c
    BY <1>2, <2>5 DEF Waiting
  <2> QED BY <1>n, <1>q, <1>z, <2>1, <2>2, <2>3, <2>4, <2>5 DEF NobodyForgotten, Waiting
<1> QED BY <1>2, <1>4, <1>5, <1>6, <1>7, <1>8, <1>n DEF InTurn, AcceptedOnce

(* The drained accept ends, which is the first of all: all that was        *)
(* prepared after it has one accept less before it, and one more client    *)
(* was accepted.                                                           *)
LEMMA AcceptsInTurn ==
  ASSUME IInv, InTurn, program = "drain", NEW i \in DOMAIN kern, MayStart(i), UNCHANGED <<program, serverVars>>,
         KernelAccepts(i)
  PROVE  InTurn'
<1>t. TypeOK
  BY DEF IInv
<1>n. /\ ~awaiter /\ OrderOK /\ AcceptedOnce /\ NewestBegins
      /\ HeardInTurn /\ NobodyForgotten /\ NothingUnsaid
  BY DEF InTurn
<1>i. i = 1 /\ kern[1].op = "accept"
  BY DEF KernelAccepts, MayStart, DrainOrder, Drained
<1>a. PICK x \in Clients, e \in Cqes :
        /\ backlog # << >> /\ x = Head(backlog) /\ accepted' = Append(accepted, x)
        /\ e.request.op = "accept" /\ e.request.task = x
        /\ cq' = Append(cq, e) /\ kern' = RemoveAt(kern, 1)
        /\ UNCHANGED <<sq, delivered, hungUp, sent>>
  <2>1. backlog # << >> /\ backlog \in Seq(Clients) /\ kern \in Seq(Requests)
    BY <1>t DEF KernelAccepts, TypeOK
  <2>2. PICK f \in Fds :
          /\ accepted' = Append(accepted, Head(backlog))
          /\ Answer(i, [kern[i] EXCEPT !.fd = f, !.task = Head(backlog)], 1, FALSE)
          /\ UNCHANGED <<delivered, hungUp, sent>>
    BY <1>n DEF KernelAccepts
  <2>3. Head(backlog) \in Clients
    BY <2>1
  <2> DEFINE a == [kern[i] EXCEPT !.fd = f, !.task = Head(backlog)]
             e == [request |-> a, res |-> 1, more |-> FALSE]
  <2>4. a \in Requests /\ a.op = "accept" /\ a.task = Head(backlog)
    <3>1. PICK q \in Requests : q = kern[i]
      BY <2>1
    <3>2. q.op = "accept"
      BY <1>i, <3>1
    <3>3. a = [q EXCEPT !.fd = f, !.task = Head(backlog)]
      BY <3>1
    <3> HIDE DEF a
    <3> QED BY <2>3, <3>2, <3>3 DEF Requests
  <2>5. e \in Cqes /\ e.request = a
    BY <2>4 DEF Cqes
  <2>6. cq' = Append(cq, e) /\ kern' = RemoveAt(kern, 1) /\ sq' = sq
    BY <1>i, <2>2 DEF Answer, Skipped
  <2> HIDE DEF e, a
  <2> QED BY <2>1, <2>2, <2>3, <2>4, <2>5, <2>6
<1>u. program' = program /\ operations' = operations /\ awaiter' = awaiter
  BY DEF serverVars
<1>q. PICK q \in Seq(Requests) : q = Line
  BY <1>t, LineOf
<1>k. 1 \in DOMAIN q /\ q[1].op = "accept" /\ \A p \in DOMAIN q : p \in Nat /\ p >= 1
  BY <1>i, <1>t, <1>q, LineOf
<1>r. PICK r \in Seq(Requests) : r = Line' /\ r = RemoveAt(q, 1)
  <2>1. RemoveAt(kern, 1) \o sq = RemoveAt(kern \o sq, 1)
    <3>1. 1 \in DOMAIN kern /\ kern \in Seq(Requests) /\ sq \in Seq(Requests)
      BY <1>i, <1>t, LineOf
    <3> QED BY <3>1, RemoveAtConcat
  <2>2. Line' = RemoveAt(q, 1)
    BY <1>a, <1>q, <2>1 DEF Line
  <2>3. 1 \in 1 .. Len(q)
    BY <1>k
  <2>4. RemoveAt(q, 1) \in Seq(Requests)
    BY <2>3, RemoveAtProperties
  <2> QED BY <2>2, <2>4
<1>m. PICK m : Kept(q, r, m, DOMAIN q \ {1})
  BY <1>k, <1>r, RemoveAtPlaces
<1>l. /\ \A p \in DOMAIN r : m[p] \in DOMAIN q /\ m[p] # 1 /\ r[p] = q[m[p]]
      /\ \A j \in DOMAIN q : j # 1 => \E p \in DOMAIN r : m[p] = j
  BY <1>m DEF Kept, Places
<1>z. PICK z \in Seq(Cqes) : z = cq
  BY <1>t, LineOf
<1>w. PICK w \in Seq(Cqes) : w = cq' /\ w = Append(z, e)
  <2>1. Append(z, e) \in Seq(Cqes)
    OBVIOUS
  <2> QED BY <1>a, <1>z, <2>1
<1>v. /\ \A p \in DOMAIN z : p \in DOMAIN w /\ w[p] = z[p] /\ AcceptAfter(w, p)
      /\ Len(z) + 1 \in DOMAIN w /\ w[Len(z) + 1] = e
      /\ \A p \in DOMAIN w : p \in DOMAIN z \/ p = Len(z) + 1
  BY <1>a, <1>w, CqGrows
<1>s. PICK s \in Seq(Clients) : s = accepted
  BY <1>t, LineOf
<1>p. PICK g \in Seq(Clients) : g = accepted' /\ g = Append(s, x)
  <2>1. Append(s, x) \in Seq(Clients)
    OBVIOUS
  <2> QED BY <1>a, <1>s, <2>1
<1>g. /\ g = accepted' /\ g = Append(s, x)
      /\ Len(s) \in Nat /\ Len(g) = Len(s) + 1 /\ DOMAIN s = 1 .. Len(s) /\ DOMAIN g = 1 .. Len(s) + 1
      /\ \A p \in DOMAIN s : g[p] = s[p]
      /\ g[Len(s) + 1] = x
  BY <1>p
<1>o. /\ LineInTurn(q, s, delivered) /\ CqInTurn(z, s, delivered)
      /\ AcceptAt(q, 1) /\ NoEnd(z)
  <2>1. LineInTurn(q, s, delivered) /\ CqInTurn(z, s, delivered) /\ OneAccept(q, z)
    BY <1>n, <1>q, <1>z, <1>s DEF OrderOK
  <2>2. ~NoAccept(q)
    BY <1>k DEF NoAccept
  <2>3. PICK a \in DOMAIN q : AcceptAt(q, a) /\ NoEnd(z)
    BY <2>1, <2>2 DEF OneAccept
  <2>4. a = 1
    BY <1>k, <2>3 DEF AcceptAt
  <2> QED BY <2>1, <2>3, <2>4
<1>b. \A p \in DOMAIN r : r[p].op # "accept"
  BY <1>l, <1>o DEF AcceptAt
<1>4. OrderOK'
  <2>1. LineInTurn(r, g, delivered)
    <3> SUFFICES ASSUME NEW p \in DOMAIN r, NEW c \in Clients, r[p].task = c, delivered[c] = << >>
                 PROVE  /\ r[p].op = "read" => Newest(g, IF AcceptBefore(r, p) THEN 0 ELSE 1, c)
                        /\ r[p].op = "write" => Newest(g, IF AcceptBefore(r, p) THEN 1 ELSE 2, c)
      BY DEF LineInTurn
    <3>1. ~AcceptBefore(r, p)
      BY <1>b DEF AcceptBefore
    <3>2. m[p] \in DOMAIN q /\ r[p] = q[m[p]] /\ 1 < m[p]
      BY <1>k, <1>l
    <3>3. AcceptBefore(q, m[p])
      BY <1>k, <3>2 DEF AcceptBefore
    <3>4. /\ q[m[p]].op = "read" => Newest(s, 0, c)
          /\ q[m[p]].op = "write" => Newest(s, 1, c)
      BY <1>o, <3>2, <3>3 DEF LineInTurn
    <3>5. r[p].op = "read" => Newest(g, 0 + 1, c)
      BY <1>g, <3>2, <3>4, NewestOfMore
    <3>6. r[p].op = "write" => Newest(g, 1 + 1, c)
      BY <1>g, <3>2, <3>4, NewestOfMore
    <3> QED BY <3>1, <3>5, <3>6
  <2>2. CqInTurn(w, g, delivered)
    <3> SUFFICES ASSUME NEW p \in DOMAIN w, NEW c \in Clients,
                        w[p].request.task = c, delivered[c] = << >>, w[p].request.op = "read"
                 PROVE  Newest(g, IF AcceptAfter(w, p) THEN 2 ELSE 1, c)
      BY DEF CqInTurn
    <3>1. p \in DOMAIN z /\ w[p] = z[p] /\ AcceptAfter(w, p)
      BY <1>a, <1>v
    <3>2. ~AcceptAfter(z, p)
      BY <1>o DEF NoEnd, AcceptAfter
    <3>3. Newest(s, 1, c)
      BY <1>o, <3>1, <3>2 DEF CqInTurn
    <3>4. Newest(g, 1 + 1, c)
      BY <1>g, <3>3, NewestOfMore
    <3> QED BY <3>1, <3>4
  <2>3. OneAccept(r, w)
    <3>1. NoAccept(r)
      BY <1>b DEF NoAccept
    <3>2. ASSUME NEW p \in DOMAIN w PROVE w[p].request.op = "accept" <=> p = Len(z) + 1
      <4>1. p \in DOMAIN z => w[p].request.op # "accept" /\ p # Len(z) + 1
        BY <1>o, <1>v DEF NoEnd
      <4> QED BY <1>a, <1>v, <4>1
    <3> QED BY <1>v, <3>1, <3>2 DEF OneAccept, EndAt
  <2> QED BY <1>a, <1>r, <1>w, <1>g, <2>1, <2>2, <2>3, OrderPrimed
<1>5. NewestBegins'
  <2>1. operations = << >>
    <3> SUFFICES ASSUME NEW p \in DOMAIN sq, sq[p].op = "accept" PROVE FALSE
      BY <1>n DEF NewestBegins
    <3>1. Len(kern) + p \in DOMAIN q /\ q[Len(kern) + p].op = "accept"
      BY <1>t, <1>q, LineOf
    <3>2. Len(kern) + p = 1
      BY <1>o, <3>1 DEF AcceptAt
    <3>3. Len(kern) \in Nat /\ Len(kern) >= 1 /\ p \in Nat /\ p >= 1
      BY <1>i, <1>t, LineOf
    <3> QED BY <3>2, <3>3
  <2>2. ASSUME NEW p \in DOMAIN w, w[p].request.op = "accept" PROVE Newest(g, 0, w[p].request.task)
    <3>1. p = Len(z) + 1 /\ w[p].request.task = x
      BY <1>a, <1>o, <1>v, <2>2 DEF NoEnd
    <3>2. Newest(g, 0, x)
      BY <1>g DEF Newest
    <3> QED BY <3>1, <3>2
  <2> QED BY <1>u, <1>w, <1>g, <2>1, <2>2 DEF NewestBegins
<1>6. AcceptedOnce'
  <2>1. x \notin Range(accepted)
    <3>1. backlog[1] = x /\ 1 \in DOMAIN backlog
      BY <1>t, <1>a DEF TypeOK
    <3> QED BY <3>1 DEF IInv, ClientsOK
  <2>2. \A p \in DOMAIN s : s[p] # x
    BY <1>s, <2>1 DEF Range
  <2>3. \A p, j \in DOMAIN s : s[p] = s[j] => p = j
    BY <1>n, <1>s DEF AcceptedOnce
  <2>4. \A p \in DOMAIN g : p \in DOMAIN s \/ p = Len(s) + 1
    BY <1>g
  <2>5. \A p, j \in DOMAIN g : g[p] = g[j] => p = j
    BY <1>g, <2>2, <2>3, <2>4
  <2> QED BY <1>g, <2>5 DEF AcceptedOnce
<1>7. HeardInTurn'
  <2> SUFFICES ASSUME NEW c \in Clients, delivered[c] # << >>
               PROVE  \E p \in DOMAIN g : g[p] = c /\ p + 2 <= Len(g)
    BY <1>a, <1>g DEF HeardInTurn
  <2>1. PICK p \in DOMAIN s : s[p] = c /\ p + 2 <= Len(s)
    BY <1>n, <1>s DEF HeardInTurn
  <2>2. p \in DOMAIN g /\ g[p] = c /\ p + 2 <= Len(g)
    BY <1>g, <2>1
  <2> QED BY <2>2
<1>c. \A c \in Clients : (NothingToSay(c) <=> NothingToSay(c)')
  BY <1>a DEF NothingToSay
<1>8. NothingUnsaid'
  <2>1. \A p \in DOMAIN r, c \in Clients :
          r[p].op = "write" /\ r[p].arg = 0 /\ r[p].task = c => delivered[c] # << >> \/ NothingToSay(c)
    <3> TAKE p \in DOMAIN r, c \in Clients
    <3>1. m[p] \in DOMAIN q /\ r[p] = q[m[p]]
      BY <1>l
    <3>2. q[m[p]].op = "write" /\ q[m[p]].arg = 0 /\ q[m[p]].task = c => delivered[c] # << >> \/ NothingToSay(c)
      BY <1>n, <1>q, <3>1 DEF NothingUnsaid
    <3> QED BY <3>1, <3>2
  <2>2. \A p \in DOMAIN w : w[p].request.op \in {"read", "write"} => p \in DOMAIN z /\ w[p] = z[p]
    BY <1>a, <1>v
  <2>3. \A p \in DOMAIN w, c \in Clients :
          w[p].request.op = "read" /\ w[p].res = 0 /\ w[p].request.task = c =>
            delivered[c] # << >> \/ NothingToSay(c)
    BY <1>n, <1>z, <2>2 DEF NothingUnsaid
  <2>4. \A p \in DOMAIN w, c \in Clients :
          w[p].request.op = "write" /\ w[p].res = 1 /\ w[p].request.task = c => delivered[c] # << >>
    BY <1>n, <1>z, <2>2 DEF NothingUnsaid
  <2> QED BY <1>a, <1>r, <1>w, <1>c, <2>1, <2>3, <2>4 DEF NothingUnsaid
<1>9. NobodyForgotten'
  <2> SUFFICES ASSUME NEW c \in Range(g)
               PROVE  delivered[c] # << >> \/ NothingToSay(c)' \/ Reset(c)' \/ Waiting(c)'
    BY <1>a, <1>g DEF NobodyForgotten
  <2>1. CASE c = x
    <3>1. w[Len(z) + 1].request.op = "accept" /\ w[Len(z) + 1].request.task = c
      BY <1>a, <1>v, <2>1
    <3> QED BY <1>v, <1>w, <3>1 DEF Waiting
  <2>2. CASE c # x
    <3>0. c \in Range(accepted) /\ c \in Clients
      <4>1. PICK p \in DOMAIN g : g[p] = c
        BY DEF Range
      <4>2. p \in DOMAIN s /\ s[p] = c
        BY <1>g, <2>2, <4>1
      <4> QED BY <1>s, <4>2 DEF Range
    <3>1. CASE delivered[c] # << >> \/ NothingToSay(c)
      BY <1>c, <3>0, <3>1
    <3>2. CASE Reset(c)
      <4>1. PICK p \in DOMAIN z : z[p].res = Failed /\ z[p].request.op = "write" /\ z[p].request.task = c
        BY <1>z, <3>2 DEF Reset
      <4> QED BY <1>v, <1>w, <4>1 DEF Reset
    <3>3. CASE \E p \in DOMAIN q : q[p].op \in {"read", "write"} /\ q[p].task = c
      <4>1. PICK p \in DOMAIN q : q[p].op \in {"read", "write"} /\ q[p].task = c
        BY <3>3
      <4>2. p # 1
        BY <1>k, <4>1
      <4>3. PICK j \in DOMAIN r : m[j] = p
        BY <1>l, <4>2
      <4>4. r[j].op \in {"read", "write"} /\ r[j].task = c
        BY <1>l, <4>1, <4>3
      <4> QED BY <1>r, <4>4 DEF Waiting
    <3>4. CASE \E p \in DOMAIN z : z[p].request.op \in {"accept", "read"} /\ z[p].request.task = c
      <4>1. PICK p \in DOMAIN z : z[p].request.op \in {"accept", "read"} /\ z[p].request.task = c
        BY <3>4
      <4>2. p \in DOMAIN w /\ w[p] = z[p]
        BY <1>v
      <4> QED BY <1>w, <4>1, <4>2 DEF Waiting
    <3>5. CASE \E p \in DOMAIN operations : operations[p][1] = c
      BY <1>u, <3>5 DEF Waiting
    <3> QED BY <1>n, <1>q, <1>z, <3>0, <3>1, <3>2, <3>3, <3>4, <3>5 DEF NobodyForgotten, Waiting
  <2> QED BY <2>1, <2>2
<1> QED BY <1>u, <1>n, <1>4, <1>5, <1>6, <1>7, <1>8, <1>9 DEF InTurn

(* The cqe at the head is handled: what was prepared next has an accept    *)
(* before it unless the accept is among the cqes.                          *)
LEMMA HandledInTurn ==
  ASSUME IInv, InTurn, program = "drain", NEW rs, HandlesEnd(rs)
  PROVE  InTurn'
<1>t. TypeOK
  BY DEF IInv
<1>n. /\ ~awaiter /\ OrderOK /\ AcceptedOnce /\ NewestBegins
      /\ HeardInTurn /\ NobodyForgotten /\ NothingUnsaid
  BY DEF InTurn
<1>a. /\ cq # << >> /\ cq' = Tail(cq) /\ rs \in Seq(Requests) /\ sq' = sq \o rs
      /\ program' = program /\ kern' = kern /\ ~awaiter'
      /\ accepted' = accepted /\ delivered' = delivered /\ hungUp' = hungUp /\ sent' = sent
  BY DEF HandlesEnd, clientVars
<1>z. PICK z \in Seq(Cqes) : z = cq
  BY <1>t, LineOf
<1>h. PICK h \in Cqes : h = z[1] /\ h = Head(cq) /\ h.res # Failed
  <2>1. z # << >>
    BY <1>a, <1>z
  <2>2. Head(z) = z[1] /\ z[1] \in Cqes
    BY <2>1
  <2> QED BY <1>z, <2>2 DEF HandlesEnd
<1>b. \/ /\ h.request.op = "accept" /\ rs = <<AcceptRequest>>
         /\ operations' = Append(operations, <<h.request.task, h.request.fd>>)
      \/ /\ h.request.op = "close" /\ rs = << >> /\ operations' = operations
      \/ /\ operations' = operations
         /\ \E x \in Requests :
              /\ rs = <<x>> /\ x.task = h.request.task /\ h.request.task \in Clients
              /\ \/ h.request.op = "read" /\ x.op = "write" /\ x.arg = h.res
                 \/ h.request.op = "write" /\ x.op = "close"
                 \/ h.request.op = "write" /\ h.res = 1 /\ x.op = "read"
  BY <1>h DEF HandlesEnd
<1>u. /\ \A p \in DOMAIN z, c \in Clients :
           z[p].request.op = "read" /\ z[p].res = 0 /\ z[p].request.task = c =>
             delivered[c] # << >> \/ NothingToSay(c)
      /\ \A p \in DOMAIN z, c \in Clients :
           z[p].request.op = "write" /\ z[p].res = 1 /\ z[p].request.task = c => delivered[c] # << >>
  BY <1>n, <1>z DEF NothingUnsaid
<1>w. PICK w \in Seq(Cqes) : w = cq' /\ w = Tail(z)
  <2>1. Tail(z) \in Seq(Cqes)
    BY <1>a, <1>z
  <2> QED BY <1>a, <1>z, <2>1
<1>v. /\ 1 \in DOMAIN z
      /\ \A p \in DOMAIN w : p + 1 \in DOMAIN z /\ w[p] = z[p + 1] /\ p \in Nat /\ p >= 1
                             /\ (AcceptAfter(w, p) <=> AcceptAfter(z, p + 1))
      /\ \A p \in DOMAIN z : p # 1 => p - 1 \in DOMAIN w /\ w[p - 1] = z[p] /\ p \in Nat
  BY <1>a, <1>z, <1>w, CqShrinks
<1>q. PICK q \in Seq(Requests) : q = Line
  BY <1>t, LineOf
<1>r. PICK r \in Seq(Requests) : r = Line' /\ r = q \o rs
  <2>1. kern \o (sq \o rs) = (kern \o sq) \o rs
    <3>1. kern \in Seq(Requests) /\ sq \in Seq(Requests)
      BY <1>t, LineOf
    <3>2. rs \in Seq(Requests)
      BY <1>a
    <3> QED BY <3>1, <3>2, ConcatAssociative
  <2>2. Line' = q \o rs
    BY <1>a, <1>q, <2>1 DEF Line
  <2>3. q \o rs \in Seq(Requests)
    BY <1>a, ConcatProperties
  <2> QED BY <2>2, <2>3
<1>e. \/ rs = << >>
      \/ \E x \in Requests : rs = <<x>>
  <2>1. AcceptRequest \in Requests
    BY DEF AcceptRequest, Request, Requests
  <2> QED BY <1>b, <2>1
<1>f. \A p \in DOMAIN rs : p = 1
  BY <1>e
<1>l. /\ Len(q) \in Nat /\ DOMAIN q = 1 .. Len(q)
      /\ \A p \in DOMAIN q : p \in DOMAIN r /\ r[p] = q[p] /\ (AcceptBefore(r, p) <=> AcceptBefore(q, p))
      /\ \A p \in DOMAIN rs : /\ Len(q) + p \in DOMAIN r /\ r[Len(q) + p] = rs[p]
                              /\ AcceptBefore(r, Len(q) + p) <=> ~NoAccept(q)
      /\ \A p \in DOMAIN r : p \in DOMAIN q \/ (p - Len(q) \in DOMAIN rs /\ Len(q) + (p - Len(q)) = p)
  <2>1. ASSUME NEW i \in DOMAIN rs, NEW p \in DOMAIN rs, i < p PROVE rs[i].op # "accept"
    <3>1. i = 1 /\ p = 1
      BY <1>f
    <3> QED BY <2>1, <3>1
  <2> QED BY <1>a, <1>r, <2>1, LineGrows
<1>o. /\ LineInTurn(q, accepted, delivered) /\ CqInTurn(z, accepted, delivered) /\ OneAccept(q, z)
  BY <1>n, <1>q, <1>z DEF OrderOK
<1>x. h.request.op = "accept" =>
        AcceptRequest.op = "accept" /\ 1 \in DOMAIN rs /\ rs[1] = AcceptRequest /\ NoAccept(q) /\ EndAt(z, 1)
  <2> SUFFICES ASSUME h.request.op = "accept"
               PROVE AcceptRequest.op = "accept" /\ 1 \in DOMAIN rs /\ rs[1] = AcceptRequest /\ NoAccept(q) /\ EndAt(z, 1)
    OBVIOUS
  <2>1. rs = <<AcceptRequest>> /\ AcceptRequest.op = "accept"
    BY <1>b DEF AcceptRequest, Request
  <2>2. ~NoEnd(z)
    BY <1>h, <1>v DEF NoEnd
  <2>3. PICK i \in DOMAIN z : EndAt(z, i) /\ NoAccept(q)
    BY <1>o, <2>2 DEF OneAccept
  <2>4. i = 1
    BY <1>h, <1>v, <2>3 DEF EndAt
  <2> QED BY <2>1, <2>3, <2>4
<1>y. \A p \in DOMAIN rs : rs[p].op = "accept" => h.request.op = "accept"
  BY <1>b, <1>f
<1>4. OrderOK'
  <2>1. LineInTurn(r, accepted, delivered)
    <3> SUFFICES ASSUME NEW p \in DOMAIN r, NEW c \in Clients, r[p].task = c, delivered[c] = << >>
                 PROVE  /\ r[p].op = "read" => Newest(accepted, IF AcceptBefore(r, p) THEN 0 ELSE 1, c)
                        /\ r[p].op = "write" => Newest(accepted, IF AcceptBefore(r, p) THEN 1 ELSE 2, c)
      BY DEF LineInTurn
    <3>1. CASE p \in DOMAIN q
      <4>1. r[p] = q[p] /\ (AcceptBefore(r, p) <=> AcceptBefore(q, p))
        BY <1>l, <3>1
      <4>2. /\ q[p].op = "read" => Newest(accepted, IF AcceptBefore(q, p) THEN 0 ELSE 1, c)
            /\ q[p].op = "write" => Newest(accepted, IF AcceptBefore(q, p) THEN 1 ELSE 2, c)
        BY <1>o, <3>1, <4>1 DEF LineInTurn
      <4> QED BY <4>1, <4>2
    <3>2. CASE p \notin DOMAIN q
      <4>1. r[p] = rs[1] /\ 1 \in DOMAIN rs /\ (AcceptBefore(r, p) <=> ~NoAccept(q))
        <5>1. p - Len(q) \in DOMAIN rs /\ Len(q) + (p - Len(q)) = p
          BY <1>l, <3>2
        <5>2. p - Len(q) = 1
          BY <1>f, <5>1
        <5> QED BY <1>l, <5>1, <5>2
      <4>2. CASE h.request.op = "accept"
        BY <1>x, <4>1, <4>2
      <4>3. CASE h.request.op # "accept"
        <5>1. PICK x \in Requests :
                /\ rs = <<x>> /\ x.task = h.request.task
                /\ \/ h.request.op = "read" /\ x.op = "write"
                   \/ h.request.op = "write" /\ x.op = "close"
                   \/ h.request.op = "write" /\ h.res = 1 /\ x.op = "read"
          BY <1>b, <4>1, <4>3
        <5>2. r[p] = x /\ h.request.task = c
          BY <4>1, <5>1
        <5>3. h.request.op = "write" => h.res # 1
          BY <1>h, <1>u, <1>v, <5>2
        <5>4. CASE h.request.op = "read" /\ x.op = "write"
          <6>1. Newest(accepted, IF AcceptAfter(z, 1) THEN 2 ELSE 1, c)
            BY <1>h, <1>o, <1>v, <5>2, <5>4 DEF CqInTurn
          <6>2. AcceptAfter(z, 1) => NoAccept(q)
            <7> SUFFICES ASSUME AcceptAfter(z, 1) PROVE NoAccept(q)
              OBVIOUS
            <7>1. ~NoEnd(z)
              BY DEF AcceptAfter, NoEnd
            <7> QED BY <1>o, <7>1 DEF OneAccept
          <6>3. NoAccept(q) => AcceptAfter(z, 1)
            <7> SUFFICES ASSUME NoAccept(q) PROVE AcceptAfter(z, 1)
              OBVIOUS
            <7>1. PICK i \in DOMAIN z : EndAt(z, i)
              BY <1>o DEF OneAccept, AcceptAt, NoAccept
            <7>2. i # 1 /\ z[i].request.op = "accept"
              BY <1>h, <1>v, <5>4, <7>1 DEF EndAt
            <7>3. 1 < i
              BY <7>1, <7>2
            <7> QED BY <7>2, <7>3 DEF AcceptAfter
          <6> QED BY <4>1, <5>2, <5>4, <6>1, <6>2, <6>3
        <5> QED BY <5>1, <5>2, <5>3, <5>4
      <4> QED BY <4>2, <4>3
    <3> QED BY <3>1, <3>2
  <2>2. CqInTurn(w, accepted, delivered)
    <3> SUFFICES ASSUME NEW p \in DOMAIN w, NEW c \in Clients,
                        w[p].request.task = c, delivered[c] = << >>, w[p].request.op = "read"
                 PROVE  Newest(accepted, IF AcceptAfter(w, p) THEN 2 ELSE 1, c)
      BY DEF CqInTurn
    <3>1. p + 1 \in DOMAIN z /\ w[p] = z[p + 1] /\ (AcceptAfter(w, p) <=> AcceptAfter(z, p + 1))
      BY <1>v
    <3>2. Newest(accepted, IF AcceptAfter(z, p + 1) THEN 2 ELSE 1, c)
      BY <1>o, <3>1 DEF CqInTurn
    <3> QED BY <3>1, <3>2
  <2>3. OneAccept(r, w)
    <3>1. CASE h.request.op = "accept"
      <4>1. NoEnd(w)
        <5> SUFFICES ASSUME NEW p \in DOMAIN w PROVE w[p].request.op # "accept"
          BY DEF NoEnd
        <5>1. p + 1 \in DOMAIN z /\ w[p] = z[p + 1] /\ p + 1 # 1
          BY <1>v
        <5> QED BY <1>x, <3>1, <5>1 DEF EndAt
      <4>2. Len(q) + 1 \in DOMAIN r /\ r[Len(q) + 1].op = "accept"
        BY <1>l, <1>x, <3>1
      <4>3. ASSUME NEW p \in DOMAIN r, r[p].op = "accept" PROVE p = Len(q) + 1
        <5>1. p \notin DOMAIN q
          BY <1>l, <1>x, <3>1, <4>3 DEF NoAccept
        <5>2. p - Len(q) = 1 /\ Len(q) + (p - Len(q)) = p
          BY <1>f, <1>l, <5>1
        <5> QED BY <5>2
      <4>4. AcceptAt(r, Len(q) + 1)
        BY <4>2, <4>3 DEF AcceptAt
      <4> QED BY <4>1, <4>2, <4>4 DEF OneAccept
    <3>2. CASE h.request.op # "accept"
      <4>1. ASSUME NEW i \in DOMAIN q, AcceptAt(q, i) PROVE AcceptAt(r, i)
        <5>1. i \in DOMAIN r /\ r[i].op = "accept"
          BY <1>l, <4>1 DEF AcceptAt
        <5>2. ASSUME NEW p \in DOMAIN r, r[p].op = "accept" PROVE p = i
          <6>1. p \in DOMAIN q
            BY <1>l, <1>y, <3>2, <5>2
          <6> QED BY <1>l, <4>1, <5>2, <6>1 DEF AcceptAt
        <5> QED BY <5>1, <5>2 DEF AcceptAt
      <4>2. NoAccept(q) => NoAccept(r)
        <5> SUFFICES ASSUME NoAccept(q), NEW p \in DOMAIN r PROVE r[p].op # "accept"
          BY DEF NoAccept
        <5>1. p \notin DOMAIN q => r[p].op # "accept"
          BY <1>l, <1>y, <3>2
        <5> QED BY <1>l, <5>1 DEF NoAccept
      <4>3. NoEnd(z) => NoEnd(w)
        BY <1>v DEF NoEnd
      <4>4. ASSUME NEW i \in DOMAIN z, EndAt(z, i) PROVE \E j \in DOMAIN w : EndAt(w, j)
        <5>1. i # 1
          BY <1>h, <1>v, <3>2, <4>4 DEF EndAt
        <5>2. i - 1 \in DOMAIN w /\ w[i - 1] = z[i] /\ i \in Nat
          BY <1>v, <5>1
        <5>3. ASSUME NEW p \in DOMAIN w PROVE w[p].request.op = "accept" <=> p = i - 1
          <6>1. p + 1 \in DOMAIN z /\ w[p] = z[p + 1] /\ p \in Nat
            BY <1>v
          <6>2. z[p + 1].request.op = "accept" <=> p + 1 = i
            BY <4>4, <6>1 DEF EndAt
          <6> QED BY <5>2, <6>1, <6>2
        <5> QED BY <5>2, <5>3 DEF EndAt
      <4> QED BY <1>l, <1>o, <4>1, <4>2, <4>3, <4>4 DEF OneAccept
    <3> QED BY <3>1, <3>2
  <2> QED BY <1>a, <1>r, <1>w, <2>1, <2>2, <2>3, OrderPrimed
<1>5. NewestBegins'
  <2>1. \A p \in DOMAIN w : w[p].request.op = "accept" => Newest(accepted, 0, w[p].request.task)
    <3> SUFFICES ASSUME NEW p \in DOMAIN w, w[p].request.op = "accept"
                 PROVE  Newest(accepted, 0, w[p].request.task)
      OBVIOUS
    <3>1. p + 1 \in DOMAIN z /\ w[p] = z[p + 1]
      BY <1>v
    <3> QED BY <1>n, <1>z, <3>1 DEF NewestBegins
  <2>2. /\ \A p \in DOMAIN sq : p \in DOMAIN sq' /\ sq'[p] = sq[p]
        /\ rs # << >> => Len(sq) + 1 \in DOMAIN sq' /\ sq'[Len(sq) + 1] = rs[1]
    <3>1. PICK s \in Seq(Requests) : s = sq
      BY <1>t, LineOf
    <3>2. PICK u \in Seq(Requests) : u = sq' /\ u = s \o rs
      <4>1. s \o rs \in Seq(Requests)
        BY <1>a, ConcatProperties
      <4> QED BY <1>a, <3>1, <4>1
    <3>3. /\ Len(u) = Len(s) + Len(rs)
          /\ \A p \in 1 .. Len(s) + Len(rs) : u[p] = IF p <= Len(s) THEN s[p] ELSE rs[p - Len(s)]
      BY <1>a, <3>2, ConcatProperties
    <3>4. \A p \in DOMAIN s : p \in DOMAIN u /\ u[p] = s[p]
      BY <1>a, <3>3
    <3>5. ASSUME rs # << >> PROVE Len(s) + 1 \in DOMAIN u /\ u[Len(s) + 1] = rs[1]
      <4>1. Len(rs) >= 1 /\ Len(rs) \in Nat /\ Len(s) \in Nat
        BY <1>a, <3>5
      <4>2. Len(s) + 1 \in 1 .. Len(s) + Len(rs) /\ ~(Len(s) + 1 <= Len(s)) /\ Len(s) + 1 - Len(s) = 1
        BY <4>1
      <4> QED BY <3>3, <4>1, <4>2
    <3> QED BY <3>1, <3>2, <3>4, <3>5
  <2>3. CASE h.request.op = "accept"
    <3>1. operations' = Append(operations, <<h.request.task, h.request.fd>>)
      BY <1>b, <2>3
    <3>0. rs # << >>
      BY <1>x, <2>3
    <3>2. \E p \in DOMAIN sq' : sq'[p].op = "accept"
      BY <1>x, <2>2, <2>3, <3>0
    <3>3. Newest(accepted, 0, h.request.task)
      BY <1>h, <1>n, <1>v, <1>z, <2>3 DEF NewestBegins
    <3>4. ASSUME NEW p \in DOMAIN operations' PROVE Newest(accepted, 0, operations'[p][1])
      <4>1. PICK o \in Seq(Clients \X Fds) : o = operations
        BY <1>t DEF TypeOK
      <4> DEFINE y == <<h.request.task, h.request.fd>>
      <4>2. y[1] = h.request.task
        OBVIOUS
      <4>3. operations' = Append(o, y)
        BY <3>1, <4>1
      <4> HIDE DEF y
      <4>4. (p \in DOMAIN o /\ operations'[p] = o[p]) \/ operations'[p] = y
        BY <3>4, <4>3
      <4>5. CASE p \in DOMAIN o /\ operations'[p] = o[p]
        BY <1>n, <4>1, <4>5 DEF NewestBegins
      <4>6. CASE operations'[p] = y
        BY <3>3, <4>2, <4>6
      <4> QED BY <4>4, <4>5, <4>6
    <3> QED BY <1>a, <1>w, <2>1, <3>2, <3>4 DEF NewestBegins
  <2>4. CASE h.request.op # "accept"
    <3>1. operations' = operations
      BY <1>b, <2>4
    <3>2. operations' # << >> => \E p \in DOMAIN sq' : sq'[p].op = "accept"
      BY <1>n, <2>2, <3>1 DEF NewestBegins
    <3>3. \A p \in DOMAIN operations' : Newest(accepted, 0, operations'[p][1])
      BY <1>n, <3>1 DEF NewestBegins
    <3> QED BY <1>a, <1>w, <2>1, <3>2, <3>3 DEF NewestBegins
  <2> QED BY <2>3, <2>4
<1>c. \A c \in Clients : (NothingToSay(c) <=> NothingToSay(c)')
  BY <1>a DEF NothingToSay
<1>8. NothingUnsaid'
  <2>1. \A p \in DOMAIN r, c \in Clients :
          r[p].op = "write" /\ r[p].arg = 0 /\ r[p].task = c => delivered[c] # << >> \/ NothingToSay(c)
    <3> SUFFICES ASSUME NEW p \in DOMAIN r, NEW c \in Clients, r[p].op = "write", r[p].arg = 0, r[p].task = c
                 PROVE  delivered[c] # << >> \/ NothingToSay(c)
      OBVIOUS
    <3>1. CASE p \in DOMAIN q
      BY <1>l, <1>n, <1>q, <3>1 DEF NothingUnsaid
    <3>2. CASE p \notin DOMAIN q
      <4>1. r[p] = rs[1] /\ 1 \in DOMAIN rs
        <5>1. p - Len(q) \in DOMAIN rs /\ Len(q) + (p - Len(q)) = p
          BY <1>l, <3>2
        <5>2. p - Len(q) = 1
          BY <1>f, <5>1
        <5> QED BY <1>l, <5>1, <5>2
      <4>2. h.request.op # "accept"
        BY <1>x, <4>1
      <4>3. h.request.op = "read" /\ h.request.task = c /\ h.res = 0
        BY <1>b, <4>1, <4>2
      <4> QED BY <1>h, <1>u, <1>v, <4>3
    <3> QED BY <3>1, <3>2
  <2>2. ASSUME NEW p \in DOMAIN w
        PROVE  p + 1 \in DOMAIN cq /\ w[p] = cq[p + 1]
    BY <1>v, <1>z
  <2>3. \A p \in DOMAIN w, c \in Clients :
          w[p].request.op = "read" /\ w[p].res = 0 /\ w[p].request.task = c =>
            delivered[c] # << >> \/ NothingToSay(c)
    BY <1>n, <2>2 DEF NothingUnsaid
  <2>4. \A p \in DOMAIN w, c \in Clients :
          w[p].request.op = "write" /\ w[p].res = 1 /\ w[p].request.task = c => delivered[c] # << >>
    BY <1>n, <2>2 DEF NothingUnsaid
  <2> QED BY <1>a, <1>r, <1>w, <1>c, <2>1, <2>3, <2>4 DEF NothingUnsaid
<1>9. NobodyForgotten'
  <2> SUFFICES ASSUME NEW c \in Range(accepted)
               PROVE  delivered[c] # << >> \/ NothingToSay(c)' \/ Reset(c)' \/ Waiting(c)'
    BY <1>a DEF NobodyForgotten
  <2>0. c \in Clients
    BY <1>t, LineOf DEF Range
  <2>1. CASE delivered[c] # << >> \/ NothingToSay(c)
    BY <1>c, <2>0, <2>1
  <2>2. CASE Reset(c)
    <3>1. PICK p \in DOMAIN z : z[p].res = Failed /\ z[p].request.op = "write" /\ z[p].request.task = c
      BY <1>z, <2>2 DEF Reset
    <3>2. p - 1 \in DOMAIN w /\ w[p - 1] = z[p]
      BY <1>h, <1>v, <3>1
    <3> QED BY <1>w, <3>1, <3>2 DEF Reset
  <2>3. CASE \E p \in DOMAIN q : q[p].op \in {"read", "write"} /\ q[p].task = c
    <3>1. PICK p \in DOMAIN q : q[p].op \in {"read", "write"} /\ q[p].task = c
      BY <2>3
    <3>2. p \in DOMAIN r /\ r[p] = q[p]
      BY <1>l
    <3> QED BY <1>r, <3>1, <3>2 DEF Waiting
  <2>4. CASE \E p \in DOMAIN z : z[p].request.op \in {"accept", "read"} /\ z[p].request.task = c
    <3>1. PICK p \in DOMAIN z : z[p].request.op \in {"accept", "read"} /\ z[p].request.task = c
      BY <2>4
    <3>2. CASE p # 1
      <4>1. p - 1 \in DOMAIN w /\ w[p - 1] = z[p]
        BY <1>v, <3>2
      <4> QED BY <1>w, <3>1, <4>1 DEF Waiting
    <3>3. CASE p = 1 /\ h.request.op = "accept"
      <4>1. operations' = Append(operations, <<h.request.task, h.request.fd>>) /\ h.request.task = c
        BY <1>b, <1>h, <3>1, <3>3
      <4>2. PICK o \in Seq(Clients \X Fds) : o = operations
        BY <1>t DEF TypeOK
      <4> DEFINE y == <<h.request.task, h.request.fd>>
      <4>3. y[1] = h.request.task
        OBVIOUS
      <4>4. operations' = Append(o, y)
        BY <4>1, <4>2
      <4> HIDE DEF y
      <4>5. Len(o) + 1 \in DOMAIN operations' /\ operations'[Len(o) + 1] = y
        BY <4>4
      <4>6. operations'[Len(o) + 1][1] = c
        BY <4>1, <4>3, <4>5
      <4> QED BY <4>5, <4>6 DEF Waiting
    <3>4. CASE p = 1 /\ h.request.op # "accept"
      <4>1. h.request.op = "read" /\ h.request.task = c
        BY <1>h, <3>1, <3>4
      <4>2. 1 \in DOMAIN rs /\ rs[1].op = "write" /\ rs[1].task = c
        BY <1>b, <4>1
      <4>3. Len(q) + 1 \in DOMAIN r /\ r[Len(q) + 1].op = "write" /\ r[Len(q) + 1].task = c
        BY <1>l, <4>2
      <4> QED BY <1>r, <4>3 DEF Waiting
    <3> QED BY <3>2, <3>3, <3>4
  <2>5. CASE \E p \in DOMAIN operations : operations[p][1] = c
    <3>1. PICK p \in DOMAIN operations : operations[p][1] = c
      BY <2>5
    <3>2. p \in DOMAIN operations' /\ operations'[p] = operations[p]
      <4>1. CASE operations' = operations
        BY <4>1
      <4>2. CASE operations' = Append(operations, <<h.request.task, h.request.fd>>)
        <5>1. PICK o \in Seq(Clients \X Fds) : o = operations
          BY <1>t DEF TypeOK
        <5>2. PICK y : y = <<h.request.task, h.request.fd>>
          OBVIOUS
        <5>3. p \in DOMAIN Append(o, y) /\ Append(o, y)[p] = o[p]
          BY <5>1
        <5> QED BY <4>2, <5>1, <5>2, <5>3
      <4> QED BY <1>b, <4>1, <4>2
    <3> QED BY <3>1, <3>2 DEF Waiting
  <2> QED BY <1>n, <1>q, <1>z, <2>1, <2>2, <2>3, <2>4, <2>5 DEF NobodyForgotten, Waiting
<1> QED BY <1>a, <1>n, <1>4, <1>5, <1>8, <1>9 DEF InTurn, AcceptedOnce, HeardInTurn

(* The coroutines begin, with a first read of the newest client, after the *)
(* next accept.                                                            *)
LEMMA LaunchInTurn ==
  ASSUME IInv, InTurn, program = "drain", Launch
  PROVE  InTurn'
<1>t. TypeOK
  BY DEF IInv
<1>n. /\ ~awaiter /\ OrderOK /\ AcceptedOnce /\ NewestBegins
      /\ HeardInTurn /\ NobodyForgotten /\ NothingUnsaid
  BY DEF InTurn
<1>o. PICK o \in Seq(Clients \X Fds) : o = operations
  BY <1>t DEF TypeOK
<1>b. PICK b \in Seq(Requests) :
        /\ b = FlattenSeq([i \in DOMAIN o |-> Begins(o[i][1], o[i][2])])
        /\ Len(b) = Len(o) /\ \A p \in DOMAIN o : b[p] = FirstRead(o[p])
  BY LaunchedReads
<1>d. DOMAIN b = DOMAIN o /\ \A p \in DOMAIN b : b[p].op = "read" /\ b[p].task = o[p][1] /\ b[p].arg = 0
  <2>1. DOMAIN b = 1 .. Len(b) /\ DOMAIN o = 1 .. Len(o)
    OBVIOUS
  <2>2. DOMAIN b = DOMAIN o
    BY <1>b, <2>1
  <2>3. ASSUME NEW p \in DOMAIN b PROVE b[p].op = "read" /\ b[p].task = o[p][1] /\ b[p].arg = 0
    <3>1. b[p] = [op |-> "read", fd |-> o[p][2], task |-> o[p][1], arg |-> 0]
      BY <1>b, <2>2 DEF FirstRead, Request
    <3> QED BY <3>1
  <2> QED BY <2>2, <2>3
<1>q. PICK q \in Seq(Requests) : q = Line
  BY <1>t, LineOf
<1>u. /\ program' = program /\ cq' = cq /\ awaiter' = awaiter /\ operations' = << >>
      /\ accepted' = accepted /\ delivered' = delivered /\ hungUp' = hungUp /\ sent' = sent
  BY DEF Launch, clientVars
<1>r. PICK r \in Seq(Requests) : r = Line' /\ r = q \o b
  <2>1. kern' = (kern \o sq) \o b /\ sq' = << >>
    BY <1>o, <1>b DEF Launch
  <2>2. q \o b \in Seq(Requests) /\ (q \o b) \o << >> = q \o b
    BY ConcatProperties, ConcatEmptySeq
  <2>3. Line' = q \o b
    BY <1>q, <2>1, <2>2 DEF Line
  <2> QED BY <2>2, <2>3
<1>l. /\ \A p \in DOMAIN q : p \in DOMAIN r /\ r[p] = q[p] /\ (AcceptBefore(r, p) <=> AcceptBefore(q, p))
      /\ \A p \in DOMAIN b : /\ Len(q) + p \in DOMAIN r /\ r[Len(q) + p] = b[p]
                             /\ AcceptBefore(r, Len(q) + p) <=> ~NoAccept(q)
      /\ \A p \in DOMAIN r : p \in DOMAIN q \/ (p - Len(q) \in DOMAIN b /\ Len(q) + (p - Len(q)) = p)
  <2>1. \A a, p \in DOMAIN b : a < p => b[a].op # "accept"
    <3>1. \A a \in DOMAIN b : b[a].op # "accept"
      BY <1>d
    <3> QED BY <3>1
  <2>2. \A p \in DOMAIN q : p \in DOMAIN r /\ r[p] = q[p] /\ (AcceptBefore(r, p) <=> AcceptBefore(q, p))
    BY <1>r, <2>1, LineGrows
  <2>3. \A p \in DOMAIN b : /\ Len(q) + p \in DOMAIN r /\ r[Len(q) + p] = b[p]
                            /\ AcceptBefore(r, Len(q) + p) <=> ~NoAccept(q)
    BY <1>r, <2>1, LineGrows
  <2>4. \A p \in DOMAIN r : p \in DOMAIN q \/ (p - Len(q) \in DOMAIN b /\ Len(q) + (p - Len(q)) = p)
    BY <1>r, <2>1, LineGrows
  <2> QED BY <2>2, <2>3, <2>4
<1>e. /\ LineInTurn(q, accepted, delivered) /\ CqInTurn(cq, accepted, delivered) /\ OneAccept(q, cq)
  BY <1>n, <1>q DEF OrderOK
\* What is in the line now, was, or is a first read of the newest client.
<1>f. ASSUME NEW p \in DOMAIN r, p \notin DOMAIN q
      PROVE  r[p].op = "read" /\ Newest(accepted, 0, r[p].task) /\ AcceptBefore(r, p)
  <2>1. p - Len(q) \in DOMAIN b /\ Len(q) + (p - Len(q)) = p
    BY <1>f, <1>l
  <2>2. r[p] = b[p - Len(q)] /\ (AcceptBefore(r, p) <=> ~NoAccept(q))
    BY <1>l, <2>1
  <2>3. r[p].op = "read" /\ r[p].task = o[p - Len(q)][1] /\ p - Len(q) \in DOMAIN o
    BY <1>d, <2>1, <2>2
  <2>4. Newest(accepted, 0, r[p].task)
    BY <1>n, <1>o, <2>3 DEF NewestBegins
  <2>5. ~NoAccept(q)
    <3>1. PICK j \in DOMAIN sq : sq[j].op = "accept"
      BY <1>n, <1>o, <2>3 DEF NewestBegins
    <3>2. Len(kern) + j \in DOMAIN q /\ q[Len(kern) + j] = sq[j]
      BY <1>t, <1>q, LineOf
    <3> QED BY <3>1, <3>2 DEF NoAccept
  <2> QED BY <2>2, <2>3, <2>4, <2>5
<1>4. OrderOK'
  <2>1. LineInTurn(r, accepted, delivered)
    <3> SUFFICES ASSUME NEW p \in DOMAIN r, NEW c \in Clients, r[p].task = c, delivered[c] = << >>
                 PROVE  /\ r[p].op = "read" => Newest(accepted, IF AcceptBefore(r, p) THEN 0 ELSE 1, c)
                        /\ r[p].op = "write" => Newest(accepted, IF AcceptBefore(r, p) THEN 1 ELSE 2, c)
      BY DEF LineInTurn
    <3>1. CASE p \in DOMAIN q
      <4>1. r[p] = q[p] /\ (AcceptBefore(r, p) <=> AcceptBefore(q, p))
        BY <1>l, <3>1
      <4>2. /\ q[p].op = "read" => Newest(accepted, IF AcceptBefore(q, p) THEN 0 ELSE 1, c)
            /\ q[p].op = "write" => Newest(accepted, IF AcceptBefore(q, p) THEN 1 ELSE 2, c)
        BY <1>e, <3>1, <4>1 DEF LineInTurn
      <4> QED BY <4>1, <4>2
    <3>2. CASE p \notin DOMAIN q
      BY <1>f, <3>2
    <3> QED BY <3>1, <3>2
  <2>2. NoAccept(q) => NoAccept(r)
    <3> SUFFICES ASSUME NoAccept(q), NEW p \in DOMAIN r PROVE r[p].op # "accept"
      BY DEF NoAccept
    <3>1. p \notin DOMAIN q => r[p].op # "accept"
      BY <1>f
    <3> QED BY <1>l, <3>1 DEF NoAccept
  <2>3. ASSUME NEW i \in DOMAIN q, AcceptAt(q, i) PROVE AcceptAt(r, i)
    <3>1. i \in DOMAIN r /\ r[i].op = "accept"
      BY <1>l, <2>3 DEF AcceptAt
    <3>2. ASSUME NEW p \in DOMAIN r, r[p].op = "accept" PROVE p = i
      <4>1. p \in DOMAIN q
        BY <1>f, <3>2
      <4> QED BY <1>l, <2>3, <3>2, <4>1 DEF AcceptAt
    <3> QED BY <3>1, <3>2 DEF AcceptAt
  <2>4. OneAccept(r, cq)
    BY <1>e, <1>l, <2>2, <2>3 DEF OneAccept
  <2> QED BY <1>e, <1>u, <1>r, <2>1, <2>4, OrderPrimed
<1>5. NewestBegins'
  BY <1>n, <1>u DEF NewestBegins
<1>c. \A c \in Clients : (NothingToSay(c) <=> NothingToSay(c)') /\ (Reset(c) <=> Reset(c)')
  BY <1>u DEF NothingToSay, Reset
<1>6. NothingUnsaid'
  <2>1. \A p \in DOMAIN r, c \in Clients :
          r[p].op = "write" /\ r[p].arg = 0 /\ r[p].task = c => delivered[c] # << >> \/ NothingToSay(c)
    <3> TAKE p \in DOMAIN r, c \in Clients
    <3>1. CASE p \in DOMAIN q
      <4>1. r[p] = q[p]
        BY <1>l, <3>1
      <4>2. q[p].op = "write" /\ q[p].arg = 0 /\ q[p].task = c => delivered[c] # << >> \/ NothingToSay(c)
        BY <1>n, <1>q, <3>1 DEF NothingUnsaid
      <4> QED BY <4>1, <4>2
    <3>2. CASE p \notin DOMAIN q
      BY <1>f, <3>2
    <3> QED BY <3>1, <3>2
  <2> QED BY <1>u, <1>n, <1>r, <1>c, <2>1 DEF NothingUnsaid
<1>7. NobodyForgotten'
  <2> SUFFICES ASSUME NEW c \in Range(accepted)
               PROVE  delivered[c] # << >> \/ NothingToSay(c)' \/ Reset(c)' \/ Waiting(c)'
    BY <1>u DEF NobodyForgotten
  <2>0. c \in Clients
    BY <1>t, LineOf DEF Range
  <2>1. CASE delivered[c] # << >> \/ NothingToSay(c) \/ Reset(c)
    BY <1>c, <2>0, <2>1
  <2>2. CASE \E p \in DOMAIN q : q[p].op \in {"read", "write"} /\ q[p].task = c
    <3>1. PICK p \in DOMAIN q : q[p].op \in {"read", "write"} /\ q[p].task = c
      BY <2>2
    <3>2. p \in DOMAIN r /\ r[p] = q[p]
      BY <1>l
    <3> QED BY <1>r, <3>1, <3>2 DEF Waiting
  <2>3. CASE \E p \in DOMAIN cq : cq[p].request.op \in {"accept", "read"} /\ cq[p].request.task = c
    BY <1>u, <2>3 DEF Waiting
  <2>4. CASE \E p \in DOMAIN o : o[p][1] = c
    <3>1. PICK p \in DOMAIN o : o[p][1] = c
      BY <2>4
    <3>2. Len(q) + p \in DOMAIN r /\ r[Len(q) + p].op = "read" /\ r[Len(q) + p].task = c
      BY <1>d, <1>l, <3>1
    <3> QED BY <1>r, <3>2 DEF Waiting
  <2> QED BY <1>n, <1>o, <1>q, <2>1, <2>2, <2>3, <2>4 DEF NobodyForgotten, Waiting
<1> QED BY <1>u, <1>n, <1>4, <1>5, <1>6, <1>7 DEF InTurn, AcceptedOnce, HeardInTurn

(* Nothing moves; at most somebody hangs up, or speaks who did not hang up. *)
LEMMA QuietInTurn ==
  ASSUME TypeOK, InTurn, UNCHANGED <<program, ringVars, accepted, delivered, operations, awaiter>>,
         \A c \in Clients : NothingToSay(c) => NothingToSay(c)'
  PROVE  InTurn'
<1> SUFFICES ASSUME program = "drain" PROVE InTurn'
  BY DEF InTurn
<1>n. /\ ~awaiter /\ OrderOK /\ AcceptedOnce /\ NewestBegins
      /\ HeardInTurn /\ NobodyForgotten /\ NothingUnsaid
  BY DEF InTurn
<1>u. /\ sq' = sq /\ kern' = kern /\ cq' = cq /\ accepted' = accepted /\ delivered' = delivered
      /\ operations' = operations /\ awaiter' = awaiter
  BY DEF ringVars
<1>l. Line' = Line
  BY <1>u DEF Line
<1>1. OrderOK'
  BY <1>n, <1>l, <1>u, OrderPrimed DEF OrderOK
<1>2. AcceptedOnce' /\ NewestBegins' /\ HeardInTurn'
  BY <1>n, <1>u DEF AcceptedOnce, NewestBegins, HeardInTurn
<1>3. \A c \in Clients : (Reset(c) => Reset(c)') /\ (Waiting(c) => Waiting(c)')
  BY <1>l, <1>u DEF Reset, Waiting
<1>4. NobodyForgotten'
  <2>1. \A c \in Range(accepted) : c \in Clients
    BY LineOf DEF Range
  <2> QED BY <1>n, <1>u, <1>3, <2>1 DEF NobodyForgotten
<1>5. NothingUnsaid'
  BY <1>n, <1>l, <1>u DEF NothingUnsaid
<1> QED BY <1>n, <1>u, <1>1, <1>2, <1>4, <1>5 DEF InTurn

(* Every step of the drained server and of its kernel keeps the order.     *)
LEMMA NextInTurn ==
  ASSUME IInv, InTurn, [Next]_vars
  PROVE  InTurn'
<1>p. program' = program
  BY DEF Next, vars, Connect, Send, HangUp, KernelDoes, KernelFails, Server, OnAccept, OnRead,
         OnWrite, OnClose, Handles, OnFailure, OnBrokenChain, Launch, PassEnd
<1> SUFFICES ASSUME program = "drain" PROVE InTurn'
  BY <1>p DEF InTurn
<1>t. TypeOK
  BY DEF IInv
<1>1. ASSUME KernelDoes PROVE InTurn'
  <2>1. UNCHANGED <<program, up, serverVars>>
    BY <1>1 DEF KernelDoes
  <2>2. PICK i \in DOMAIN kern : MayStart(i) /\
          (KernelAccepts(i) \/ KernelReads(i) \/ KernelWrites(i) \/ KernelCloses(i))
    BY <1>1 DEF KernelDoes
  <2> QED BY <2>1, <2>2, AcceptsInTurn, EndsInTurn
<1>2. ASSUME NEW i \in DOMAIN kern, KernelFails(i) PROVE InTurn'
  <2>1. UNCHANGED <<program, serverVars>> /\ MayStart(i)
    BY <1>2 DEF KernelFails
  <2> QED BY <1>2, <2>1, EndsInTurn
<1>3. ASSUME OnAccept \/ OnRead \/ OnWrite \/ OnClose PROVE InTurn'
  <2>1. PICK rs : HandlesEnd(rs)
    BY <1>3, ServerHandlesEnd
  <2> QED BY <2>1, HandledInTurn
<1>4. ASSUME Launch PROVE InTurn'
  BY <1>4, LaunchInTurn
<1>5. ASSUME NEW c \in Clients, Send(c) \/ HangUp(c) PROVE InTurn'
  <2>1. UNCHANGED <<program, ringVars, accepted, delivered, operations, awaiter>>
    BY <1>5 DEF Send, HangUp, serverVars
  <2>2. hungUp \subseteq hungUp' /\ \A d \in Clients : d \in hungUp => sent'[d] = sent[d]
    BY <1>t, <1>5 DEF Send, HangUp, TypeOK
  <2>3. \A d \in Clients : NothingToSay(d) => NothingToSay(d)'
    BY <2>2 DEF NothingToSay
  <2> QED BY <1>t, <2>1, <2>3, QuietInTurn
<1>6. ASSUME (\E c \in Clients : Connect(c)) \/ PassEnd \/ OnFailure \/ UNCHANGED vars
      PROVE  InTurn'
  <2>1. UNCHANGED <<program, ringVars, accepted, delivered, operations, awaiter, hungUp, sent>>
    BY <1>6 DEF Connect, PassEnd, OnFailure, vars, clientVars, serverVars
  <2>2. \A d \in Clients : NothingToSay(d) => NothingToSay(d)'
    BY <2>1 DEF NothingToSay
  <2> QED BY <1>t, <2>1, <2>2, QuietInTurn
<1>7. ~OnBrokenChain
  BY DEF OnBrokenChain
<1> QED BY <1>1, <1>2, <1>3, <1>4, <1>5, <1>6, <1>7 DEF Next, Server

(* At first there is the accept, and nobody was accepted.                  *)
LEMMA InitInTurn == Init => InTurn
<1> SUFFICES ASSUME Init, program = "drain" PROVE InTurn
  BY DEF InTurn
<1>1. /\ kern = <<AcceptRequest>> /\ sq = << >> /\ cq = << >> /\ operations = << >> /\ accepted = << >>
      /\ delivered = [c \in Clients |-> << >>] /\ ~awaiter
  BY DEF Init
<1>2. AcceptRequest.op = "accept" /\ AcceptRequest \in Requests
  BY DEF AcceptRequest, Request, Requests
<1>3. Line = <<AcceptRequest>>
  <2>1. <<AcceptRequest>> \in Seq(Requests)
    BY <1>2
  <2> QED BY <1>1, <2>1, ConcatEmptySeq DEF Line
<1>4. \A p \in DOMAIN Line : p = 1 /\ Line[p].op = "accept"
  BY <1>2, <1>3
<1>5. OrderOK
  <2>1. 1 \in DOMAIN Line
    BY <1>3
  <2>2. AcceptAt(Line, 1) /\ NoEnd(cq)
    BY <1>1, <1>4, <2>1 DEF AcceptAt, NoEnd
  <2> QED BY <1>1, <1>4, <2>1, <2>2 DEF OrderOK, OneAccept, LineInTurn, CqInTurn
<1>6. AcceptedOnce /\ NewestBegins /\ HeardInTurn
  BY <1>1 DEF AcceptedOnce, NewestBegins, HeardInTurn
<1>7. NobodyForgotten /\ NothingUnsaid
  BY <1>1, <1>4 DEF NobodyForgotten, NothingUnsaid, Range
<1> QED BY <1>1, <1>5, <1>6, <1>7 DEF InTurn

(* Who waits for a first response was accepted among the last three, and   *)
(* who got one before them.                                                *)
LEMMA InTurnResponds ==
  ASSUME TypeOK, InTurn
  PROVE  RespondsInTurn
<1> SUFFICES ASSUME program = "drain", NEW i \in DOMAIN accepted, NEW j \in 1 .. i - 1,
                    delivered[accepted[i]] # << >>, delivered[accepted[j]] = << >>,
                    ~NothingToSay(accepted[j]), ~Reset(accepted[j])
             PROVE  FALSE
  BY DEF RespondsInTurn
<1>n. OrderOK /\ AcceptedOnce /\ NewestBegins /\ HeardInTurn /\ NobodyForgotten
  BY DEF InTurn
<1>s. PICK s \in Seq(Clients) : s = accepted
  BY LineOf
<1>1. /\ j \in DOMAIN s /\ Len(s) \in Nat /\ i \in Nat /\ j \in Nat /\ j < i
      /\ s[i] \in Clients /\ s[j] \in Clients /\ s[j] \in Range(accepted)
  BY <1>s DEF Range
<1>2. i + 2 <= Len(s)
  <2>1. PICK p \in DOMAIN s : s[p] = s[i] /\ p + 2 <= Len(s)
    BY <1>n, <1>s, <1>1 DEF HeardInTurn
  <2> QED BY <1>n, <1>s, <2>1 DEF AcceptedOnce
<1>3. ASSUME NEW m \in {0, 1, 2}, Newest(s, m, s[j]) PROVE FALSE
  <2>1. Len(s) - m \in DOMAIN s /\ s[Len(s) - m] = s[j]
    BY <1>3 DEF Newest
  <2>2. Len(s) - m = j
    BY <1>n, <1>s, <1>1, <2>1 DEF AcceptedOnce
  <2> QED BY <1>1, <1>2, <2>2
<1>4. Waiting(s[j])
  BY <1>n, <1>s, <1>1 DEF NobodyForgotten
<1>5. LineInTurn(Line, s, delivered) /\ CqInTurn(cq, s, delivered)
  BY <1>n, <1>s DEF OrderOK
<1>6. ASSUME NEW p \in DOMAIN Line, Line[p].op \in {"read", "write"}, Line[p].task = s[j] PROVE FALSE
  <2>1. /\ Line[p].op = "read" => Newest(s, IF AcceptBefore(Line, p) THEN 0 ELSE 1, s[j])
        /\ Line[p].op = "write" => Newest(s, IF AcceptBefore(Line, p) THEN 1 ELSE 2, s[j])
    BY <1>s, <1>1, <1>5, <1>6 DEF LineInTurn
  <2> QED BY <1>3, <1>6, <2>1
<1>7. ASSUME NEW p \in DOMAIN cq, cq[p].request.op \in {"accept", "read"}, cq[p].request.task = s[j] PROVE FALSE
  <2>1. CASE cq[p].request.op = "accept"
    BY <1>n, <1>s, <1>3, <1>7, <2>1 DEF NewestBegins
  <2>2. CASE cq[p].request.op = "read"
    <3>1. Newest(s, IF AcceptAfter(cq, p) THEN 2 ELSE 1, s[j])
      BY <1>s, <1>1, <1>5, <1>7, <2>2 DEF CqInTurn
    <3> QED BY <1>3, <3>1
  <2> QED BY <1>7, <2>1, <2>2
<1>8. ASSUME NEW p \in DOMAIN operations, operations[p][1] = s[j] PROVE FALSE
  BY <1>n, <1>s, <1>3, <1>8 DEF NewestBegins
<1> QED BY <1>4, <1>6, <1>7, <1>8 DEF Waiting

(* With drained accepts a server writes nothing to a client before all the *)
(* clients that were accepted earlier have got something from it, hung up  *)
(* without a word, or reset their connection.                              *)
THEOREM SpecRespondsInTurn == Spec => []RespondsInTurn
<1>1. Init => InTurn
  BY InitInTurn
<1>2. IInv /\ InTurn /\ [Next]_vars => InTurn'
  BY NextInTurn
<1>3. IInv /\ InTurn => RespondsInTurn
  BY InTurnResponds DEF IInv
<1> QED BY <1>1, <1>2, <1>3, SpecIInv, PTL DEF Spec
=============================================================================
