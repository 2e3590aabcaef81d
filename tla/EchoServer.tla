----------------------------- MODULE EchoServer -----------------------------
(***************************************************************************)
(* The servers of src/examples, one of which runs: echo.cpp, with its      *)
(* table of handlers, and those that serve each connection by a coroutine, *)
(* plain or with a feature of src/include: feature_multishot.h,            *)
(* feature_io_drain.h, feature_provided_buffers.h, feature_io_link.h.      *)
(* They share the kernel's view of them: descriptors, which are used       *)
(* again, buffers, and requests that complete in an order of their own.    *)
(*                                                                         *)
(* A message is read and written as a whole.  Io_context, which IoContext  *)
(* models, is reduced to the two halves of run_once(): tasks that were     *)
(* spawned begin and everything prepared is submitted, then the cqes are   *)
(* reaped.                                                                 *)
(***************************************************************************)
EXTENDS Naturals, FiniteSets, SequencesExt

CONSTANTS Programs,       \* the examples to choose from
          Clients, Fds,
          Bids,           \* of the buffers of a buffer ring
          MaxMessages,    \* that a client sends
          \* of each program: the clients that connect, in this order, and
          \* how many messages each of them sends
          Arrivals, Says,
          None

Examples == {"echo", "coroutine", "multishot", "drain", "buffers", "link"}

ASSUME EchoAssumption ==
  /\ Programs \subseteq Examples
  /\ MaxMessages \in Nat
  /\ Arrivals \in [Programs -> Seq(Clients)]
  /\ Says \in [Programs -> [Clients -> Nat]]
  /\ Fds \subseteq Nat
  /\ None \notin Clients \cup Fds \cup Bids
  /\ IsFiniteSet(Bids)

VARIABLES
  program,
  up,             \* FALSE: std::terminate()
  \* the clients and their connections
  backlog,        \* clients that connected and were not accepted yet
  accepted,       \* those that were, in this order
  socket,         \* the server's descriptor of a client's connection
  hungUp,
  sent, taken,    \* messages from a client, and how many of them were read
  delivered,      \* what was written to a client
  \* the ring
  sq, kern, cq,
  \* the server
  phase,          \* of run_once(): "launch" or "reap"
  operations,     \* _operations: coroutines that were spawned
  awaiter,        \* `operator bool` of the multishot operation
  memory,         \* what was read into a buffer
  bufMap,         \* the keys of buf_map
  bufRing, held   \* buffers of the kernel, and of a coroutine

clientVars == <<backlog, accepted, socket, hungUp, sent, taken, delivered>>
ringVars == <<sq, kern, cq>>
bufferVars == <<memory, bufMap, bufRing, held>>
serverVars == <<phase, operations, awaiter>>
vars == <<program, up, clientVars, ringVars, serverVars, bufferVars>>

\* echo.cpp names a buffer by the descriptor; a coroutine has one in its
\* frame; a provided one has a number.
Slots == Fds \cup Clients \cup Bids
Message == [from : Clients, nr : 1 .. MaxMessages, zz : BOOLEAN]
\* "hello " and "world!\n".
Word(n) == [from |-> None, nr |-> n, zz |-> FALSE]

Request(op, fd, task, arg) == [op |-> op, fd |-> fd, task |-> task, arg |-> arg]
Requests == [op : {"accept", "read", "write", "close"}, fd : Fds \cup {None},
             task : Clients \cup {None}, arg : 0 .. 2]

Failed == 3
Cqes == [request : Requests, res : {0, 1, Failed}, more : BOOLEAN]

TypeOK ==
  /\ program \in Programs /\ up \in BOOLEAN
  /\ backlog \in Seq(Clients) /\ accepted \in Seq(Clients)
  /\ socket \in [Clients -> Fds \cup {None}]
  /\ hungUp \subseteq Clients
  /\ sent \in [Clients -> Seq(Message)]
  /\ taken \in [Clients -> 0 .. MaxMessages]
  /\ \A c \in Clients : taken[c] <= Len(sent[c])
  /\ delivered \in [Clients -> Seq(Message \cup {Word(1), Word(2)})]
  /\ sq \in Seq(Requests) /\ kern \in Seq(Requests) /\ cq \in Seq(Cqes)
  /\ phase \in {"launch", "reap"}
  /\ operations \in Seq(Clients \X Fds)
  /\ awaiter \in BOOLEAN
  /\ memory \in [Slots -> Message \cup {None}]
  /\ bufMap \subseteq Fds
  /\ bufRing \in Seq(Bids)
  /\ held \in [Clients -> Bids \cup {None}]

\* co_spawn() of server(): its first co_await prepares the first accept.
AcceptRequest == Request("accept", None, None, 0)

\* make_provided_buffers()
ProvidedBuffers == SetToSeq(Bids)

Init ==
  /\ program \in Programs
  /\ up = TRUE
  /\ backlog = << >> /\ accepted = << >>
  /\ socket = [c \in Clients |-> None]
  /\ hungUp = {}
  /\ sent = [c \in Clients |-> << >>]
  /\ taken = [c \in Clients |-> 0]
  /\ delivered = [c \in Clients |-> << >>]
  /\ sq = << >> /\ kern = <<AcceptRequest>> /\ cq = << >>
  /\ phase = "reap"
  /\ operations = << >>
  /\ awaiter = (program = "multishot")
  /\ memory = [s \in Slots |-> None]
  /\ bufMap = {}
  /\ bufRing = ProvidedBuffers
  /\ held = [c \in Clients |-> None]

-----------------------------------------------------------------------------
(* The clients.                                                            *)

\* The bounds of an instance.
Arrives(c) == \E n \in DOMAIN Arrivals[program] :
  n = Len(backlog) + Len(accepted) + 1 /\ Arrivals[program][n] = c
MaySay(c) == Len(sent[c]) < Says[program][c]

Connect(c) ==
  /\ up /\ c \notin Range(backlog) \cup Range(accepted)
  /\ Arrives(c)
  /\ backlog' = Append(backlog, c)
  /\ UNCHANGED <<program, up, accepted, socket, hungUp, sent, taken, delivered,
                 ringVars, serverVars, bufferVars>>

\* "Zz" asks to be disconnected.
Send(c) ==
  /\ up /\ socket[c] # None /\ c \notin hungUp
  /\ Len(sent[c]) < MaxMessages /\ MaySay(c)
  /\ \E zz \in BOOLEAN :
       sent' = [sent EXCEPT ![c] =
                  Append(@, [from |-> c, nr |-> Len(@) + 1, zz |-> zz])]
  /\ UNCHANGED <<program, up, backlog, accepted, socket, hungUp, taken, delivered,
                 ringVars, serverVars, bufferVars>>

HangUp(c) ==
  /\ up /\ socket[c] # None /\ c \notin hungUp
  /\ hungUp' = hungUp \cup {c}
  /\ UNCHANGED <<program, up, backlog, accepted, socket, sent, taken, delivered,
                 ringVars, serverVars, bufferVars>>

-----------------------------------------------------------------------------
(* The kernel.  It may do any request that may start, when it can.         *)

\* IOSQE_IO_DRAIN, which the variant forgets to set: a drained request does
\* not start before the earlier ones are complete, nor a later one before it
\* is.
Drained_Not(r) == FALSE
Drained(r) == program = "drain" /\ r.op = "accept"
DrainOrder(i) == /\ Drained(kern[i]) => i = 1
                 /\ \A j \in 1 .. i - 1 : ~Drained(kern[j])

\* IOSQE_IO_LINK: not before the previous request of the chain.  The variant
\* forgets to set the flag.
LinkOrder_Unset(i) == TRUE
LinkOrder(i) ==
  program = "link" => \A j \in 1 .. i - 1 : kern[j].task # kern[i].task

MayStart(i) == DrainOrder(i) /\ LinkOrder(i)

\* IOSQE_CQE_SKIP_SUCCESS, on all of a chain but the last.
Skipped(r) == program = "link" /\ r.op = "write"

Answer(i, r, res, more) ==
  /\ cq' = IF Skipped(r) THEN cq
           ELSE Append(cq, [request |-> r, res |-> res, more |-> more])
  /\ kern' = IF more THEN kern ELSE RemoveAt(kern, i)
  /\ UNCHANGED sq

\* The request's buffer.
Slot(r) == IF program = "echo" THEN r.fd
           ELSE IF program = "buffers" THEN held[r.task] ELSE r.task

\* The descriptor of a new connection is the lowest that is not in use.
Lowest(f) == \A g \in Fds : g < f => \E d \in Clients : socket[d] = g

\* A multishot accept stays (IORING_CQE_F_MORE), or not.
KernelAccepts(i) ==
  /\ kern[i].op = "accept"
  /\ backlog # << >>
  /\ LET c == Head(backlog) IN
     \E f \in Fds, more \in IF awaiter THEN BOOLEAN ELSE {FALSE} :
       /\ Lowest(f) /\ \A d \in Clients : socket[d] # f
       /\ socket' = [socket EXCEPT ![c] = f]
       /\ accepted' = Append(accepted, c)
       /\ Answer(i, [kern[i] EXCEPT !.fd = f, !.task = c], 1, more)
  /\ backlog' = Tail(backlog)
  /\ UNCHANGED <<hungUp, sent, taken, delivered, bufferVars>>

\* A provided buffer is chosen only now, and the cqe says which.
SelectBuffer(r) ==
  IF program = "buffers"
  THEN /\ bufRing # << >>
       /\ held' = [held EXCEPT ![r.task] = Head(bufRing)]
       /\ bufRing' = Tail(bufRing)
  ELSE UNCHANGED <<held, bufRing>>

\* Of client c, whose connection the descriptor of r is now.
ReadFrom(c, r, i) ==
  /\ SelectBuffer(r)
  /\ IF taken[c] < Len(sent[c])
     THEN LET s == IF program = "buffers" THEN Head(bufRing) ELSE Slot(r) IN
          /\ memory' = [memory EXCEPT ![s] = sent[c][taken[c] + 1]]
          /\ taken' = [taken EXCEPT ![c] = @ + 1]
          /\ Answer(i, r, 1, FALSE)
     ELSE /\ c \in hungUp
          /\ UNCHANGED <<memory, taken>>
          /\ Answer(i, r, 0, FALSE)

KernelReads(i) ==
  /\ kern[i].op = "read"
  /\ \E c \in Clients : socket[c] = kern[i].fd /\ ReadFrom(c, kern[i], i)
  /\ UNCHANGED <<backlog, accepted, socket, hungUp, sent, delivered, bufMap>>

KernelWrites(i) ==
  /\ kern[i].op = "write"
  /\ LET r == kern[i]
         said == IF program = "link" THEN <<Word(r.arg)>>
                 ELSE IF r.arg = 0 THEN << >> ELSE <<memory[Slot(r)]>>
     IN  /\ \E c \in Clients :
              /\ socket[c] = r.fd
              /\ delivered' = [delivered EXCEPT ![c] = @ \o said]
         /\ Answer(i, r, IF r.arg = 0 THEN 0 ELSE 1, FALSE)
  /\ UNCHANGED <<backlog, accepted, socket, hungUp, sent, taken, bufferVars>>

KernelCloses(i) ==
  /\ kern[i].op = "close"
  /\ socket' = [c \in Clients |-> IF socket[c] = kern[i].fd THEN None ELSE socket[c]]
  /\ Answer(i, kern[i], 1, FALSE)
  /\ UNCHANGED <<backlog, accepted, hungUp, sent, taken, delivered, bufferVars>>

KernelDoes == up /\ UNCHANGED <<program, up, serverVars>> /\ \E i \in DOMAIN kern :
  /\ MayStart(i)
  /\ KernelAccepts(i) \/ KernelReads(i) \/ KernelWrites(i) \/ KernelCloses(i)

\* The rest of the requests, without those of a chain.
WithoutChain(q, c) ==
  FlattenSeq([i \in DOMAIN q |-> IF q[i].task = c THEN << >> ELSE <<q[i]>>])

\* A request fails: a connection is reset, or no buffer is left.  The rest of
\* its chain is cancelled, with cqes that run_once() skips.
KernelFails(i) ==
  /\ up /\ MayStart(i)
  /\ LET r == kern[i] IN
       /\ \/ r.op \in {"read", "write"} /\ \E c \in hungUp : socket[c] = r.fd
          \/ r.op = "read" /\ program = "buffers" /\ bufRing = << >>
       /\ cq' = Append(cq, [request |-> r, res |-> Failed, more |-> FALSE])
       /\ kern' = IF program = "link" THEN WithoutChain(kern, r.task)
                  ELSE RemoveAt(kern, i)
  /\ UNCHANGED <<program, up, clientVars, sq, serverVars, bufferVars>>

-----------------------------------------------------------------------------
(* The server.  echo.cpp submits a request at once; a coroutine's waits    *)
(* for the next run_once().                                                *)

Issue(requests) ==
  IF program = "echo" THEN kern' = kern \o requests /\ UNCHANGED sq
  ELSE sq' = sq \o requests /\ UNCHANGED kern

\* The cqe that is handled, of one kind of request.
Handles(op) == /\ up /\ phase = "reap"
               /\ cq # << >> /\ Head(cq).request.op = op
               /\ Head(cq).res # Failed
               /\ cq' = Tail(cq)
               /\ UNCHANGED <<program, up, clientVars, phase>>

\* await_resume() of the multishot operation; the variant trusts that it is
\* for ever.
StaysOn_Always(cqe) == awaiter
StaysOn(cqe) == awaiter /\ cqe.more

\* Another client: a buffer and a first read.
HandlerAccepts(r) ==
  /\ bufMap' = bufMap \cup {r.fd}
  /\ Issue(<<Request("read", r.fd, None, 0), AcceptRequest>>)
  /\ UNCHANGED <<operations, awaiter>>

\* Or another coroutine; and the next accept, unless the one before stays on.
ServerAccepts(cqe) ==
  /\ operations' = Append(operations, <<cqe.request.task, cqe.request.fd>>)
  /\ awaiter' = StaysOn(cqe)
  /\ Issue(IF awaiter' THEN << >> ELSE <<AcceptRequest>>)
  /\ UNCHANGED bufMap

OnAccept ==
  /\ Handles("accept")
  /\ IF program = "echo" THEN HandlerAccepts(Head(cq).request)
     ELSE ServerAccepts(Head(cq))
  /\ UNCHANGED <<memory, bufRing, held>>

\* buffer_rejoin(), by the defer() of one turn of the loop.  One variant puts
\* back the buffer as soon as it knows it, one after every write as well.
RejoinsAfter_Read(op, closing) == op = "read"
RejoinsAfter_Twice(op, closing) == op \in {"write", "close"}
RejoinsAfter(op, closing) == (op = "write" /\ ~closing) \/ op = "close"

Rejoin(op, closing, c) ==
  IF program = "buffers" /\ RejoinsAfter(op, closing)
  THEN /\ bufRing' = Append(bufRing, held[c])
       /\ held' = [held EXCEPT ![c] = IF op = "read" THEN @ ELSE None]
  ELSE UNCHANGED <<bufRing, held>>

\* n bytes were read: write as many.
OnRead ==
  /\ Handles("read")
  /\ LET r == Head(cq).request IN
       /\ Issue(<<[r EXCEPT !.op = "write", !.arg = Head(cq).res]>>)
       /\ Rejoin("read", FALSE, r.task)
  /\ UNCHANGED <<operations, awaiter, memory, bufMap>>

\* close_reactive || close_proactive
Closing(cqe) == cqe.res = 0 \/ memory[Slot(cqe.request)].zz

\* The handler of echo.cpp returns when it has closed; the variant goes on.
AfterWrite_FallsThrough(r, closing) ==
  (IF closing THEN <<[r EXCEPT !.op = "close", !.arg = 0]>> ELSE << >>)
    \o <<[r EXCEPT !.op = "read", !.arg = 0]>>
AfterWrite(r, closing) ==
  <<[r EXCEPT !.op = IF closing THEN "close" ELSE "read", !.arg = 0]>>

\* buf_map.erase(), of a connection that is closed; the variant of any.
Erases_Always(closing) == TRUE
Erases(closing) == closing

OnWrite ==
  /\ Handles("write")
  /\ LET r == Head(cq).request
         closing == Closing(Head(cq))
     IN  /\ Issue(AfterWrite(r, closing))
         /\ bufMap' = IF Erases(closing) THEN bufMap \ {r.fd} ELSE bufMap
         /\ Rejoin("write", closing, r.task)
  /\ UNCHANGED <<operations, awaiter, memory>>

\* echo.cpp has no handler for this; a coroutine ends.
OnClose ==
  /\ Handles("close")
  /\ Rejoin("close", TRUE, Head(cq).request.task)
  /\ UNCHANGED <<sq, kern, operations, awaiter, memory, bufMap>>

\* nofail() terminates the program.
OnFailure ==
  /\ up /\ phase = "reap" /\ program # "link"
  /\ cq # << >> /\ Head(cq).res = Failed
  /\ up' = FALSE
  /\ UNCHANGED <<program, clientVars, ringVars, serverVars, bufferVars>>

\* Async_user_data::h is std::noop_coroutine() until somebody waits.  The
\* variant has a null handle there.
Resumable_Null(r) == ~Skipped(r)
Resumable(r) == TRUE

\* Of a chain only the last request is waited for: the cqe of a write that
\* failed resumes nothing, and the coroutine stays where it is.
OnBrokenChain ==
  /\ up /\ phase = "reap" /\ program = "link"
  /\ cq # << >> /\ Head(cq).res = Failed
  /\ up' = Resumable(Head(cq).request)
  /\ cq' = Tail(cq)
  /\ UNCHANGED <<program, clientVars, sq, kern, serverVars, bufferVars>>

\* write & write & close
Chain(c, f) ==
  <<Request("write", f, c, 1), Request("write", f, c, 2), Request("close", f, c, 0)>>

\* What a coroutine prepares before it is suspended for the first time.
Begins(c, f) ==
  IF program = "link" THEN Chain(c, f) ELSE <<Request("read", f, c, 0)>>

\* The tasks that were spawned, then io_uring_submit().
Launch ==
  /\ up /\ phase = "launch"
  /\ kern' = kern \o sq \o FlattenSeq([i \in DOMAIN operations |->
                              Begins(operations[i][1], operations[i][2])])
  /\ sq' = << >>
  /\ operations' = << >>
  /\ phase' = "reap"
  /\ UNCHANGED <<program, up, clientVars, cq, awaiter, bufferVars>>

PassEnd ==
  /\ up /\ phase = "reap" /\ program # "echo"
  /\ cq = << >> /\ sq \o operations # << >>
  /\ phase' = "launch"
  /\ UNCHANGED <<program, up, clientVars, ringVars, operations, awaiter, bufferVars>>

Server == \/ OnAccept \/ OnRead \/ OnWrite \/ OnClose
          \/ OnFailure \/ OnBrokenChain \/ Launch \/ PassEnd

Next == \/ \E c \in Clients : Connect(c) \/ Send(c) \/ HangUp(c)
        \/ KernelDoes \/ (\E i \in DOMAIN kern : KernelFails(i))
        \/ Server

Spec == Init /\ [][Next]_vars

(* The server's thread runs, and the kernel does what it can do, sooner or *)
(* later.  Clients may be silent for ever.                                 *)
FairSpec == Spec /\ WF_vars(Server) /\ WF_vars(KernelDoes)

-----------------------------------------------------------------------------
\* The requests on descriptor f of which no handler has seen the end, and the
\* connection on f that is about to have a handler.
OnDescriptor(f) ==
  Cardinality({i \in DOMAIN sq : sq[i].fd = f})
    + Cardinality({i \in DOMAIN kern : kern[i].fd = f})
    + Cardinality({i \in DOMAIN cq : cq[i].request.fd = f /\ cq[i].request.op # "close"})
    + Cardinality({i \in DOMAIN operations : operations[i][2] = f})

(* Nothing a client sent is lost, doubled, or sent to another one, although *)
(* descriptors, the buffers that echo.cpp finds by them and those of the   *)
(* buffer ring change hands: it gets back what it sent, in that order.     *)
EchoesInOrder ==
  program # "link" => \A c \in Clients : IsPrefix(delivered[c], sent[c])

(* A connection is not forgotten, nor served twice, and a descriptor that  *)
(* is closed, and perhaps used again, is in nobody's hands.                *)
OneHandlerEach ==
  up /\ program # "link" =>
    \A f \in Fds : OnDescriptor(f) = IF \E c \in Clients : socket[c] = f THEN 1 ELSE 0

(* The kernel never reads into or writes from the buffer of an element     *)
(* that was erased from buf_map.                                           *)
NoErasedBuffer ==
  program = "echo" => \A i \in DOMAIN kern :
    kern[i].op \in {"read", "write"} => kern[i].fd \in bufMap

(* A buffer of the ring is the kernel's or one coroutine's, and comes back *)
(* once.                                                                   *)
BuffersHaveOneOwner ==
  program = "buffers" => \A b \in Bids :
    Cardinality({i \in DOMAIN bufRing : bufRing[i] = b})
      + Cardinality({c \in Clients : held[c] = b}) = 1

\* Client c hung up without a word, or its connection was reset when the
\* server wrote to it.
NothingToSay(c) == c \in hungUp /\ sent[c] = << >>
Reset(c) == \E i \in DOMAIN cq :
  cq[i].res = Failed /\ cq[i].request.op = "write" /\ cq[i].request.task = c

(* "... will first respond to each previous client at least once before    *)
(* responding to new ones" (feature_io_drain.cpp): nothing is written to a *)
(* client before all that were accepted earlier have got a response.       *)
RespondsInTurn ==
  program = "drain" => \A i \in DOMAIN accepted : \A j \in 1 .. i - 1 :
    delivered[accepted[i]] # << >> =>
      \/ delivered[accepted[j]] # << >>
      \/ NothingToSay(accepted[j]) \/ Reset(accepted[j])

(* "Say hello, wave goodbye" (feature_io_link.cpp): the connection is      *)
(* closed only after both writes.                                          *)
HelloThenGoodbye ==
  [][program = "link" => \A c \in Clients :
       socket[c] # None /\ socket'[c] = None => delivered[c] = <<Word(1), Word(2)>>]_vars

(* A client that connects is accepted, whatever the others do: there is    *)
(* always an accept request, also when a multishot one has ended.  Not so  *)
(* with drained requests, where it waits for the earlier clients to speak; *)
(* and an error on another connection may end the program, except when it  *)
(* only breaks a chain.                                                    *)
NewcomersAreAccepted ==
  \A c \in Clients :
    Contains(backlog, c) ~> \/ ~Contains(backlog, c)
                            \/ ~up /\ program # "link"
                            \/ program = "drain"

(* The server says goodbye to every client that stays, also when the chain *)
(* of another one breaks, of which run_once() resumes a request that nobody *)
(* waits for.                                                              *)
GoodbyeIsSaid ==
  \A c \in Clients :
    program = "link" /\ socket[c] # None ~> socket[c] = None \/ c \in hungUp
=============================================================================
