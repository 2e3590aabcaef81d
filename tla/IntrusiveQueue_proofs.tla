----------------------- MODULE IntrusiveQueue_proofs -----------------------
(***************************************************************************)
(* Proofs about IntrusiveQueue, for any number of threads of each role and *)
(* any finite set of elements: who owns an element, and that every         *)
(* operation of the list acts at one instant (SharedList).                 *)
(*                                                                         *)
(* The links are explained by sequences that they spell out: the list, and *)
(* up to two chains that a thread has in its hands.                        *)
(***************************************************************************)
EXTENDS IntrusiveQueue, DataLemmas

\* Where elements are: the list is the first place of NULL; a thread has the
\* chain it goes through, or is about to publish, and one aside.
Places == (Threads \cup {NULL}) \X {1, 2}
Layouts == [Places -> Seq(Nodes)]
List(Q) == Q[<<NULL, 1>>]
Main(Q, t) == Q[<<t, 1>>]
Aside(Q, t) == Q[<<t, 2>>]

\* `links` lead from f through q to e.
Entry(q, e, i) == IF i <= Len(q) THEN q[i] ELSE e
Linked(links, q, f, e) ==
  /\ f = Entry(q, e, 1)
  /\ \A i \in 1 .. Len(q) : links[q[i]] = Entry(q, e, i + 1)

\* No element is in two places, or in one twice.
Member(q, n) == \E i \in 1 .. Len(q) : q[i] = n
Once(q) == \A i, j \in 1 .. Len(q) : q[i] = q[j] => i = j
Apart(Q) == /\ \A p \in DOMAIN Q : Once(Q[p])
            /\ \A p, r \in DOMAIN Q : \A n :
                 Member(Q[p], n) /\ Member(Q[r], n) => p = r
Has(Q, n) == \E p \in DOMAIN Q : Member(Q[p], n)

\* What a thread of each role is doing, and with which element.
ProducerOK(t) ==
  /\ pc[t] \in {"idle", "link", "cas"}
  /\ IF pc[t] = "idle" THEN op[t] = NULL
     ELSE job[t] = "push" /\ op[t] \in Nodes /\ life[op[t]] = "pushed"

LauncherOK(t) ==
  /\ pc[t] \in {"idle", "grab", "reverse", "walk", "complete"}
  /\ pc[t] = "reverse" => ~Locality

StopperOK(t) ==
  /\ pc[t] \in {"idle", "grab", "scan", "prefix", "suffix", "link", "cas"}
  /\ pc[t] \in {"idle", "scan"} => op[t] = NULL
  /\ pc[t] \in {"prefix", "suffix"} => op[t] # NULL
  /\ pc[t] \in {"link", "cas"} =>
       job[t] = "putback" \/ (job[t] \in {"prefix", "suffix"} /\ op[t] # NULL)
  /\ op[t] # NULL => life[op[t]] = "closed"

RolesOK == /\ \A t \in Producers : ProducerOK(t)
           /\ \A t \in Launchers : LauncherOK(t)
           /\ \A t \in Stoppers : StopperOK(t)

\* The chains of a thread, from its local variables.
Publishing(t) == pc[t] \in {"link", "cas"}
HasRest(t) == pc[t] = "suffix" \/ (Publishing(t) /\ job[t] = "prefix")

\* q is the chain that thread t goes through, or publishes.
MainOK(t, q) ==
  /\ pc[t] \in {"idle", "grab", "suffix"} => q = << >>
  /\ Publishing(t) => /\ q # << >> /\ last[t] = q[Len(q)]
                      /\ Linked(next, q, first[t], next[last[t]])
                      /\ pc[t] = "cas" => next[last[t]] = expected[t]
                      /\ job[t] = "push" => q = <<op[t]>>
  /\ pc[t] \in {"reverse", "walk", "complete", "scan", "prefix"} =>
       Linked(next, q, rest[t], NULL)

\* And q is what it has aside: the element that it works on, with what comes
\* after it on the list, or the part that make_fifo() has turned round.
AsideOK(t, q) ==
  /\ pc[t] \in {"idle", "grab", "walk", "scan", "prefix"} => q = << >>
  /\ Publishing(t) /\ job[t] \in {"push", "putback"} => q = << >>
  /\ pc[t] = "complete" \/ (Publishing(t) /\ job[t] = "suffix") => q = <<op[t]>>
  /\ HasRest(t) => q # << >> /\ Linked(next, q, op[t], NULL)
  /\ pc[t] = "reverse" =>
       /\ Linked(next, q, prev[t], SENTINEL)
       /\ last[t] = IF q = << >> THEN rest[t] ELSE q[Len(q)]

ListOK(Q) == /\ Linked(next, List(Q), head, NULL)
             /\ Q[<<NULL, 2>>] = << >>

\* An element that is nowhere has no link; one that is somewhere is alive.
ElementsOK(Q) == \A n \in Nodes : IF Has(Q, n) THEN life[n] # "ready" ELSE next[n] = NULL

\* An operation that is being withdrawn is not on the list any more.
WithdrawnOK(Q) == \A t \in Stoppers : pc[t] = "prefix" => ~Member(List(Q), op[t])

Explains(Q) == /\ Apart(Q)
               /\ \A t \in Threads : MainOK(t, Main(Q, t)) /\ AsideOK(t, Aside(Q, t))
               /\ ListOK(Q) /\ ElementsOK(Q) /\ WithdrawnOK(Q)

IInv == TypeOK /\ RolesOK /\ \E Q \in Layouts : Explains(Q)

-----------------------------------------------------------------------------
(* What is in a sequence, and what the links make of it.                   *)

\* The pieces of a sequence and their members.
LEMMA Members ==
  ASSUME NEW S
  PROVE  /\ \A n : ~Member(<< >>, n)
         /\ \A n \in S : \A m : Member(<<n>>, m) <=> m = n
         /\ \A p, q \in Seq(S) : \A n : Member(p \o q, n) <=> Member(p, n) \/ Member(q, n)
<1>1. ASSUME NEW p \in Seq(S), NEW q \in Seq(S), NEW n
      PROVE  Member(p \o q, n) <=> Member(p, n) \/ Member(q, n)
  <2>1. /\ Len(p \o q) = Len(p) + Len(q)
        /\ \A i \in 1 .. Len(p) : (p \o q)[i] = p[i]
        /\ \A i \in 1 .. Len(q) : (p \o q)[Len(p) + i] = q[i]
        /\ Len(p) \in Nat /\ Len(q) \in Nat
    OBVIOUS
  <2>2. ASSUME Member(p \o q, n) PROVE Member(p, n) \/ Member(q, n)
    <3>1. PICK i \in 1 .. Len(p) + Len(q) : (p \o q)[i] = n
      BY <2>1, <2>2 DEF Member
    <3>2. CASE i <= Len(p)
      BY <2>1, <3>1, <3>2 DEF Member
    <3>3. CASE i > Len(p)
      <4>1. i - Len(p) \in 1 .. Len(q) /\ Len(p) + (i - Len(p)) = i
        BY <2>1, <3>3
      <4>2. q[i - Len(p)] = n
        BY <2>1, <3>1, <4>1
      <4> QED BY <4>1, <4>2 DEF Member
    <3> QED BY <2>1, <3>2, <3>3
  <2>3. ASSUME Member(p, n) PROVE Member(p \o q, n)
    <3>1. PICK i \in 1 .. Len(p) : p[i] = n
      BY <2>3 DEF Member
    <3>2. i \in 1 .. Len(p \o q) /\ (p \o q)[i] = n
      BY <2>1, <3>1
    <3> QED BY <3>2 DEF Member
  <2>4. ASSUME Member(q, n) PROVE Member(p \o q, n)
    <3>1. PICK i \in 1 .. Len(q) : q[i] = n
      BY <2>4 DEF Member
    <3>2. Len(p) + i \in 1 .. Len(p \o q) /\ (p \o q)[Len(p) + i] = n
      BY <2>1, <3>1
    <3> QED BY <3>2 DEF Member
  <2> QED BY <2>2, <2>3, <2>4
<1>2. ASSUME NEW n \in S, NEW m PROVE Member(<<n>>, m) <=> m = n
  BY DEF Member
<1>3. ASSUME NEW n PROVE ~Member(<< >>, n)
  BY DEF Member
<1> QED BY <1>1, <1>2, <1>3

\* Joining sequences without repetition, and taking them apart.
LEMMA Onces ==
  ASSUME NEW S
  PROVE  /\ Once(<< >>)
         /\ \A n \in S : Once(<<n>>)
         /\ \A p, q \in Seq(S) :
              Once(p \o q) <=> Once(p) /\ Once(q) /\ \A n : ~(Member(p, n) /\ Member(q, n))
<1>1. ASSUME NEW p \in Seq(S), NEW q \in Seq(S)
      PROVE  Once(p \o q) <=> Once(p) /\ Once(q) /\ \A n : ~(Member(p, n) /\ Member(q, n))
  <2>1. /\ Len(p \o q) = Len(p) + Len(q)
        /\ \A i \in 1 .. Len(p) : i \in 1 .. Len(p \o q) /\ (p \o q)[i] = p[i]
        /\ \A i \in 1 .. Len(q) : /\ Len(p) + i \in 1 .. Len(p \o q)
                                  /\ (p \o q)[Len(p) + i] = q[i]
        /\ Len(p) \in Nat /\ Len(q) \in Nat
    OBVIOUS
  <2> DEFINE r == p \o q
  <2> HIDE DEF r
  <2>2. ASSUME Once(r)
        PROVE  Once(p) /\ Once(q) /\ \A n : ~(Member(p, n) /\ Member(q, n))
    <3>0. \A i, j \in 1 .. Len(r) : r[i] = r[j] => i = j
      BY <2>2 DEF Once
    <3>1. Once(p)
      BY <2>1, <3>0 DEF Once, r
    <3>2. ASSUME NEW i \in 1 .. Len(q), NEW j \in 1 .. Len(q), q[i] = q[j] PROVE i = j
      <4>1. r[Len(p) + i] = r[Len(p) + j]
        BY <2>1, <3>2 DEF r
      <4>2. Len(p) + i = Len(p) + j
        BY <2>1, <3>0, <4>1 DEF r
      <4> QED BY <2>1, <4>2
    <3>3. ASSUME NEW n, Member(p, n), Member(q, n) PROVE FALSE
      <4>1. PICK i \in 1 .. Len(p) : p[i] = n
        BY <3>3 DEF Member
      <4>2. PICK j \in 1 .. Len(q) : q[j] = n
        BY <3>3 DEF Member
      <4>3. r[i] = r[Len(p) + j]
        BY <2>1, <4>1, <4>2 DEF r
      <4>4. i = Len(p) + j
        BY <2>1, <3>0, <4>3 DEF r
      <4> QED BY <2>1, <4>4
    <3>4. Once(q)
      BY <3>2 DEF Once
    <3> QED BY <3>1, <3>3, <3>4
  <2>3. ASSUME Once(p), Once(q), \A n : ~(Member(p, n) /\ Member(q, n)),
               NEW i \in 1 .. Len(r), NEW j \in 1 .. Len(r), r[i] = r[j]
        PROVE  i = j
    <3>1. \A k \in 1 .. Len(r) : \/ k <= Len(p) /\ k \in 1 .. Len(p) /\ r[k] = p[k]
                                 \/ k > Len(p) /\ k - Len(p) \in 1 .. Len(q)
                                    /\ r[k] = q[k - Len(p)]
      <4> SUFFICES ASSUME NEW k \in 1 .. Len(r), k > Len(p)
                   PROVE  k - Len(p) \in 1 .. Len(q) /\ r[k] = q[k - Len(p)]
        BY <2>1 DEF r
      <4>1. k - Len(p) \in 1 .. Len(q) /\ Len(p) + (k - Len(p)) = k
        BY <2>1 DEF r
      <4> QED BY <2>1, <4>1 DEF r
    <3>2. CASE i <= Len(p) /\ j <= Len(p)
      <4>1. i \in 1 .. Len(p) /\ j \in 1 .. Len(p) /\ p[i] = p[j]
        BY <2>1, <2>3, <3>1, <3>2
      <4> QED BY <2>3, <4>1 DEF Once
    <3>3. CASE i > Len(p) /\ j > Len(p)
      <4>1. i - Len(p) \in 1 .. Len(q) /\ j - Len(p) \in 1 .. Len(q) /\ q[i - Len(p)] = q[j - Len(p)]
        BY <2>1, <2>3, <3>1, <3>3
      <4>2. i - Len(p) = j - Len(p)
        BY <2>3, <4>1 DEF Once
      <4> QED BY <2>1, <4>2
    <3>4. CASE i <= Len(p) /\ j > Len(p)
      <4>1. i \in 1 .. Len(p) /\ j - Len(p) \in 1 .. Len(q) /\ p[i] = q[j - Len(p)]
        BY <2>1, <2>3, <3>1, <3>4
      <4>2. Member(p, p[i]) /\ Member(q, p[i])
        BY <4>1 DEF Member
      <4> QED BY <2>3, <4>2
    <3>5. CASE i > Len(p) /\ j <= Len(p)
      <4>1. j \in 1 .. Len(p) /\ i - Len(p) \in 1 .. Len(q) /\ p[j] = q[i - Len(p)]
        BY <2>1, <2>3, <3>1, <3>5
      <4>2. Member(p, p[j]) /\ Member(q, p[j])
        BY <4>1 DEF Member
      <4> QED BY <2>3, <4>2
    <3> QED BY <2>1, <3>2, <3>3, <3>4, <3>5
  <2>4. ASSUME Once(p), Once(q), \A n : ~(Member(p, n) /\ Member(q, n)) PROVE Once(r)
    BY <2>3, <2>4 DEF Once
  <2> QED BY <2>2, <2>4 DEF r
<1>2. ASSUME NEW n \in S PROVE Once(<<n>>)
  BY DEF Once
<1>3. Once(<< >>)
  BY DEF Once
<1> QED BY <1>1, <1>2, <1>3

\* Where links lead from, and that they are the same for the same elements.
LEMMA LinkedBasics ==
  ASSUME NEW S, NEW q \in Seq(S), NEW l, NEW f, NEW e, Linked(l, q, f, e)
  PROVE  /\ q = << >> => f = e
         /\ q # << >> => f = q[1] /\ Member(q, f)
         /\ \A m : (\A n : Member(q, n) => m[n] = l[n]) => Linked(m, q, f, e)
<1>1. q # << >> => f = q[1] /\ Member(q, f)
  BY DEF Linked, Entry, Member
<1>2. q = << >> => f = e
  BY DEF Linked, Entry
<1>3. ASSUME NEW m, \A n : Member(q, n) => m[n] = l[n] PROVE Linked(m, q, f, e)
  <2>1. \A i \in 1 .. Len(q) : m[q[i]] = l[q[i]]
    BY <1>3 DEF Member
  <2> QED BY <2>1 DEF Linked
<1> QED BY <1>1, <1>2, <1>3

\* A chain is taken apart where its second part begins.
LEMMA LinkedParts ==
  ASSUME NEW S, NEW p \in Seq(S), NEW q \in Seq(S), NEW l, NEW f, NEW e
  PROVE  /\ Linked(l, p \o q, f, e) <=> /\ Linked(l, p, f, Entry(q, e, 1))
                                        /\ Linked(l, q, Entry(q, e, 1), e)
<1> DEFINE r == p \o q
<1>1. /\ Len(r) = Len(p) + Len(q)
      /\ \A i \in 1 .. Len(p) : i \in 1 .. Len(r) /\ r[i] = p[i]
      /\ \A i \in 1 .. Len(q) : Len(p) + i \in 1 .. Len(r) /\ r[Len(p) + i] = q[i]
      /\ Len(p) \in Nat /\ Len(q) \in Nat
  OBVIOUS
<1>2. \A k \in 1 .. Len(r) : \/ k <= Len(p) /\ k \in 1 .. Len(p)
                             \/ k > Len(p) /\ k - Len(p) \in 1 .. Len(q)
                                /\ Len(p) + (k - Len(p)) = k
  BY <1>1
<1> HIDE DEF r
<1>3. \A i \in 1 .. Len(p) + 1 : Entry(r, e, i) = Entry(p, Entry(q, e, 1), i)
  <2> SUFFICES ASSUME NEW i \in 1 .. Len(p) + 1
               PROVE  Entry(r, e, i) = Entry(p, Entry(q, e, 1), i)
    OBVIOUS
  <2>1. CASE i <= Len(p)
    BY <1>1, <2>1 DEF Entry
  <2>2. CASE i = Len(p) + 1
    <3>1. CASE Len(q) = 0
      BY <1>1, <2>2, <3>1 DEF Entry
    <3>2. CASE Len(q) # 0
      <4>1. r[Len(p) + 1] = q[1]
        BY <1>1, <3>2
      <4> QED BY <1>1, <2>2, <3>2, <4>1 DEF Entry
    <3> QED BY <3>1, <3>2
  <2> QED BY <1>1, <2>1, <2>2
<1>4. \A i \in 1 .. Len(q) + 1 : Entry(r, e, Len(p) + i) = Entry(q, e, i)
  BY <1>1 DEF Entry
<1>5. ASSUME Linked(l, r, f, e)
      PROVE  Linked(l, p, f, Entry(q, e, 1)) /\ Linked(l, q, Entry(q, e, 1), e)
  <2>1. f = Entry(p, Entry(q, e, 1), 1)
    BY <1>1, <1>3, <1>5 DEF Linked
  <2>2. ASSUME NEW i \in 1 .. Len(p) PROVE l[p[i]] = Entry(p, Entry(q, e, 1), i + 1)
    <3>1. l[r[i]] = Entry(r, e, i + 1)
      BY <1>1, <1>5 DEF Linked
    <3>2. i + 1 \in 1 .. Len(p) + 1
      BY <1>1
    <3> QED BY <1>1, <1>3, <3>1, <3>2
  <2>3. ASSUME NEW i \in 1 .. Len(q) PROVE l[q[i]] = Entry(q, e, i + 1)
    <3>1. l[r[Len(p) + i]] = Entry(r, e, Len(p) + i + 1)
      BY <1>1, <1>5 DEF Linked
    <3>2. i + 1 \in 1 .. Len(q) + 1 /\ Len(p) + i + 1 = Len(p) + (i + 1)
      BY <1>1
    <3>3. Entry(r, e, Len(p) + (i + 1)) = Entry(q, e, i + 1)
      BY <1>4, <3>2
    <3> QED BY <1>1, <3>1, <3>2, <3>3
  <2> QED BY <2>1, <2>2, <2>3 DEF Linked
<1>6. ASSUME Linked(l, p, f, Entry(q, e, 1)), Linked(l, q, Entry(q, e, 1), e)
      PROVE  Linked(l, r, f, e)
  <2>1. f = Entry(r, e, 1)
    BY <1>1, <1>3, <1>6 DEF Linked
  <2>2. ASSUME NEW k \in 1 .. Len(r) PROVE l[r[k]] = Entry(r, e, k + 1)
    <3>1. CASE k \in 1 .. Len(p)
      <4>1. l[p[k]] = Entry(p, Entry(q, e, 1), k + 1) /\ k + 1 \in 1 .. Len(p) + 1
        BY <1>1, <1>6, <3>1 DEF Linked
      <4> QED BY <1>1, <1>3, <3>1, <4>1
    <3>2. CASE k > Len(p)
      <4> DEFINE i == k - Len(p)
      <4>1. i \in 1 .. Len(q) /\ Len(p) + i = k /\ i + 1 \in 1 .. Len(q) + 1
            /\ Len(p) + (i + 1) = k + 1
        BY <1>1, <1>2, <3>2
      <4> HIDE DEF i
      <4>2. l[q[i]] = Entry(q, e, i + 1)
        BY <1>6, <4>1 DEF Linked
      <4>3. r[k] = q[i]
        BY <1>1, <4>1
      <4>4. Entry(r, e, k + 1) = Entry(q, e, i + 1)
        BY <1>4, <4>1
      <4> QED BY <4>2, <4>3, <4>4
    <3> QED BY <1>2, <3>1, <3>2
  <2> QED BY <2>1, <2>2 DEF Linked
<1> QED BY <1>5, <1>6 DEF r

\* A chain that ends with an element, where another link is stored.
LEMMA LinkedLast ==
  ASSUME NEW S, NEW q \in Seq(S), q # << >>, Once(q), NEW l, NEW m, NEW f, NEW d, NEW e,
         Linked(l, q, f, d), m[q[Len(q)]] = e,
         \A n : Member(q, n) /\ n # q[Len(q)] => m[n] = l[n]
  PROVE  Linked(m, q, f, e)
<1>1. f = Entry(q, e, 1)
  BY DEF Linked, Entry
<1>2. ASSUME NEW i \in 1 .. Len(q) PROVE m[q[i]] = Entry(q, e, i + 1)
  <2>1. CASE i = Len(q)
    BY <2>1 DEF Entry
  <2>2. CASE i # Len(q)
    <3>1. Len(q) \in 1 .. Len(q) /\ i + 1 <= Len(q)
      BY <2>2
    <3>2. q[i] # q[Len(q)] /\ Member(q, q[i])
      BY <2>2, <3>1 DEF Once, Member
    <3>3. l[q[i]] = q[i + 1]
      BY <3>1 DEF Linked, Entry
    <3> QED BY <3>1, <3>2, <3>3 DEF Entry
  <2> QED BY <2>1, <2>2
<1> QED BY <1>1, <1>2 DEF Linked

\* The first element of a chain, and the rest of it.
LEMMA LinkedHead ==
  ASSUME NEW S, NEW q \in Seq(S), q # << >>, NEW l, NEW f, NEW e, Linked(l, q, f, e)
  PROVE  /\ q = <<f>> \o Tail(q) /\ f \in S /\ Tail(q) \in Seq(S)
         /\ Linked(l, Tail(q), l[f], e)
<1>1. q = <<q[1]>> \o Tail(q) /\ q[1] \in S /\ Tail(q) \in Seq(S) /\ <<q[1]>> \in Seq(S)
  OBVIOUS
<1>2. f = q[1]
  BY LinkedBasics
<1>3. /\ Linked(l, <<f>>, f, Entry(Tail(q), e, 1))
      /\ Linked(l, Tail(q), Entry(Tail(q), e, 1), e)
  <2>1. Linked(l, <<q[1]>> \o Tail(q), f, e)
    BY <1>1
  <2>2. /\ Linked(l, <<q[1]>>, f, Entry(Tail(q), e, 1))
        /\ Linked(l, Tail(q), Entry(Tail(q), e, 1), e)
    BY <1>1, <2>1, LinkedParts
  <2> QED BY <1>2, <2>2
<1>4. l[f] = Entry(Tail(q), e, 1)
  BY <1>3 DEF Linked, Entry
<1> QED BY <1>1, <1>2, <1>3, <1>4

LEMMA LinkedOne ==
  ASSUME NEW l, NEW f, NEW e
  PROVE  /\ Linked(l, <<f>>, f, e) <=> l[f] = e
         /\ Linked(l, << >>, f, e) <=> f = e
BY DEF Linked, Entry

\* A sequence is its first part up to k and the rest.
LEMMA Parts ==
  ASSUME NEW S, NEW q \in Seq(S), NEW k \in 0 .. Len(q)
  PROVE  /\ q = SubSeq(q, 1, k) \o SubSeq(q, k + 1, Len(q))
         /\ SubSeq(q, 1, k) \in Seq(S) /\ SubSeq(q, k + 1, Len(q)) \in Seq(S)
         /\ Len(SubSeq(q, 1, k)) = k /\ Len(SubSeq(q, k + 1, Len(q))) = Len(q) - k
<1> DEFINE a == SubSeq(q, 1, k)
           b == SubSeq(q, k + 1, Len(q))
<1>1. /\ a \in Seq(S) /\ Len(a) = k /\ \A i \in 1 .. k : a[i] = q[i]
      /\ b \in Seq(S) /\ Len(b) = Len(q) - k /\ \A i \in 1 .. Len(q) - k : b[i] = q[k + i]
  OBVIOUS
<1> HIDE DEF a, b
<1>2. q = a \o b
  <2> DEFINE c == a \o b
  <2>1. /\ c \in Seq(S) /\ Len(c) = Len(q)
        /\ \A i \in 1 .. k : c[i] = a[i]
        /\ \A j \in 1 .. Len(q) - k : c[k + j] = b[j]
    BY <1>1
  <2> HIDE DEF c
  <2>2. ASSUME NEW i \in 1 .. Len(q) PROVE q[i] = c[i]
    <3>1. i \in 1 .. k \/ \E j \in 1 .. Len(q) - k : i = k + j
      <4>1. CASE i <= k
        BY <4>1
      <4>2. CASE i > k
        <5>1. i - k \in 1 .. Len(q) - k /\ i = k + (i - k)
          BY <4>2
        <5> QED BY <5>1
      <4> QED BY <4>1, <4>2
    <3>2. CASE i \in 1 .. k
      BY <1>1, <2>1, <3>2
    <3>3. ASSUME NEW j \in 1 .. Len(q) - k, i = k + j PROVE q[i] = c[i]
      BY <1>1, <2>1, <3>3
    <3> QED BY <3>1, <3>2, <3>3
  <2> QED BY <2>1, <2>2, SeqEqual DEF c
<1> QED BY <1>1, <1>2 DEF a, b

\* Elements change hands: those of the places T, and perhaps new ones, are
\* laid out anew in these places, or leave.
LEMMA Moved ==
  ASSUME NEW Q \in Layouts, Apart(Q), NEW R \in Layouts, NEW T \in SUBSET Places,
         \A o \in Places \ T : R[o] = Q[o],
         \A p \in T : Once(R[p]),
         \A p, r \in T : \A n : Member(R[p], n) /\ Member(R[r], n) => p = r,
         \A p \in T : \A n : Member(R[p], n) =>
                               (\E o \in T : Member(Q[o], n)) \/ ~Has(Q, n)
  PROVE  /\ Apart(R)
         /\ \A n : Has(R, n) <=> \/ \E p \in T : Member(R[p], n)
                                 \/ Has(Q, n) /\ \A p \in T : ~Member(Q[p], n)
<1>1. DOMAIN R = Places /\ DOMAIN Q = Places
  BY DEF Layouts
<1>2. ASSUME NEW o \in Places \ T, NEW n, Member(R[o], n)
      PROVE  Has(Q, n) /\ \A p \in T : ~Member(Q[p], n) /\ ~Member(R[p], n)
  <2>1. Member(Q[o], n)
    BY <1>2
  <2>2. Has(Q, n) /\ \A p \in T : ~Member(Q[p], n)
    BY <1>1, <2>1 DEF Has, Apart
  <2> QED BY <2>2
<1>3. \A o \in Places : Once(R[o])
  BY <1>1 DEF Apart
<1>4. ASSUME NEW a \in Places, NEW b \in Places, NEW n, Member(R[a], n), Member(R[b], n)
      PROVE  a = b
  <2>1. CASE a \in T /\ b \in T
    BY <1>4, <2>1
  <2>2. CASE a \in T /\ b \notin T
    BY <1>2, <1>4, <2>2
  <2>3. CASE a \notin T /\ b \in T
    BY <1>2, <1>4, <2>3
  <2>4. CASE a \notin T /\ b \notin T
    <3>1. Member(Q[a], n) /\ Member(Q[b], n)
      BY <1>4, <2>4
    <3> QED BY <1>1, <3>1 DEF Apart
  <2> QED BY <2>1, <2>2, <2>3, <2>4
<1>5. Apart(R)
  BY <1>1, <1>3, <1>4 DEF Apart
<1>6. ASSUME NEW n
      PROVE  Has(R, n) <=> \/ \E p \in T : Member(R[p], n)
                           \/ Has(Q, n) /\ \A p \in T : ~Member(Q[p], n)
  <2>1. ASSUME Has(R, n), ~ \E p \in T : Member(R[p], n)
        PROVE  Has(Q, n) /\ \A p \in T : ~Member(Q[p], n)
    <3>1. PICK o \in Places : Member(R[o], n)
      BY <1>1, <2>1 DEF Has
    <3> QED BY <1>2, <2>1, <3>1
  <2>2. ASSUME NEW p \in T, Member(R[p], n) PROVE Has(R, n)
    BY <1>1, <2>2 DEF Has
  <2>3. ASSUME Has(Q, n), \A p \in T : ~Member(Q[p], n) PROVE Has(R, n)
    <3>1. PICK o \in Places : Member(Q[o], n)
      BY <1>1, <2>3 DEF Has
    <3>2. o \notin T /\ Member(R[o], n)
      BY <2>3, <3>1
    <3> QED BY <1>1, <3>2 DEF Has
  <2> QED BY <2>1, <2>2, <2>3
<1> QED BY <1>5, <1>6

-----------------------------------------------------------------------------
(* Chain() finds the sequence that the links spell out.                    *)

LEMMA LongestType == Longest \in Nat /\ Longest = Cardinality(Nodes) + 1 /\ Cardinality(Nodes) \in Nat
BY ClientAssumption, FS_CardinalityType DEF Longest

\* What c[k] of ChainIn() is, when c[k - 1] is d.
Unfold(links, d, k) ==
  [m \in Link |-> IF m \notin Nodes \/ k = 0 THEN << >> ELSE <<m>> \o d[links[m]]]

LEMMA UnfoldType ==
  ASSUME NEW links \in [Nodes -> Link], NEW k, NEW d, k = 0 \/ d \in [Link -> Seq(Nodes)]
  PROVE  Unfold(links, d, k) \in [Link -> Seq(Nodes)]
<1> SUFFICES ASSUME NEW m \in Link
             PROVE  (IF m \notin Nodes \/ k = 0 THEN << >> ELSE <<m>> \o d[links[m]]) \in Seq(Nodes)
  BY DEF Unfold
<1>1. CASE m \notin Nodes \/ k = 0
  BY <1>1
<1>2. CASE m \in Nodes /\ k # 0
  <2>1. d[links[m]] \in Seq(Nodes) /\ <<m>> \in Seq(Nodes)
    BY <1>2
  <2> QED BY <1>2, <2>1
<1> QED BY <1>1, <1>2

\* The recursive function in ChainIn() exists.
LEMMA ChainUnfolds ==
  ASSUME NEW links \in [Nodes -> Link]
  PROVE  \E c \in [0 .. Longest -> [Link -> Seq(Nodes)]] :
           /\ \A n : ChainIn(links, n) = c[Longest][n]
           /\ \A k \in 0 .. Longest : c[k] = Unfold(links, c[k - 1], k)
<1> DEFINE N == Longest
           F == [Link -> Seq(Nodes)]
           D == {k \in Nat : k <= N => \E g \in [0 .. k -> F] :
                                         \A i \in 0 .. k : g[i] = Unfold(links, g[i - 1], i)}
<1>n. N \in Nat
  BY LongestType
<1> HIDE DEF N, F
<1>u. \A k, d : k = 0 \/ d \in F => Unfold(links, d, k) \in F
  BY UnfoldType DEF F
<1>0. \A d, e : Unfold(links, d, 0) = Unfold(links, e, 0)
  BY DEF Unfold
<1>1. 0 \in D
  <2> DEFINE g == [i \in 0 .. 0 |-> Unfold(links, << >>, 0)]
  <2>1. g \in [0 .. 0 -> F]
    BY <1>u
  <2>2. \A i \in 0 .. 0 : g[i] = Unfold(links, g[i - 1], i)
    <3>1. g[0] = Unfold(links, << >>, 0)
      OBVIOUS
    <3> HIDE DEF g
    <3>2. g[0] = Unfold(links, g[0 - 1], 0)
      BY <1>0, <3>1
    <3>3. \A i \in 0 .. 0 : i = 0
      OBVIOUS
    <3> QED BY <3>2, <3>3
  <2> HIDE DEF g
  <2> QED BY <2>1, <2>2
<1>2. ASSUME NEW k \in Nat, k \in D PROVE k + 1 \in D
  <2> SUFFICES ASSUME k + 1 <= N
               PROVE  \E g \in [0 .. k + 1 -> F] :
                        \A i \in 0 .. k + 1 : g[i] = Unfold(links, g[i - 1], i)
    OBVIOUS
  <2>1. PICK g \in [0 .. k -> F] : \A i \in 0 .. k : g[i] = Unfold(links, g[i - 1], i)
    BY <1>2, <1>n
  <2> DEFINE new == Unfold(links, g[k], k + 1)
             h == [i \in 0 .. k + 1 |-> IF i <= k THEN g[i] ELSE new]
  <2>2. new \in F
    <3>1. g[k] \in F
      OBVIOUS
    <3> QED BY <1>u, <3>1
  <2> HIDE DEF new
  <2>3. h \in [0 .. k + 1 -> F] /\ h[k + 1] = new /\ \A i \in 0 .. k : h[i] = g[i]
    BY <2>2
  <2> HIDE DEF h
  <2>4. ASSUME NEW i \in 0 .. k + 1 PROVE h[i] = Unfold(links, h[i - 1], i)
    <3>1. CASE i = 0
      <4>1. h[0] = g[0] /\ g[0] = Unfold(links, g[0 - 1], 0)
        BY <2>1, <2>3
      <4> QED BY <1>0, <3>1, <4>1
    <3>2. CASE i # 0 /\ i <= k
      <4>1. i \in 0 .. k /\ i - 1 \in 0 .. k
        BY <3>2
      <4>2. h[i] = g[i] /\ h[i - 1] = g[i - 1] /\ g[i] = Unfold(links, g[i - 1], i)
        BY <2>1, <2>3, <4>1
      <4> QED BY <4>2
    <3>3. CASE i = k + 1
      <4>1. h[i - 1] = g[k]
        BY <2>3, <3>3
      <4> QED BY <2>3, <3>3, <4>1 DEF new
    <3> QED BY <3>1, <3>2, <3>3
  <2> QED BY <2>3, <2>4
<1>3. N \in D
  <2> HIDE DEF D
  <2> QED BY <1>1, <1>2, <1>n, SetInduction
<1>4. PICK g \in [0 .. N -> F] : \A i \in 0 .. N : g[i] = Unfold(links, g[i - 1], i)
  <2>1. N <= N
    BY <1>n
  <2> QED BY <1>3, <2>1, Zenon
<1> DEFINE Body(c) == [k \in 0 .. N |-> [m \in Link |->
                         IF m \notin Nodes \/ k = 0 THEN << >> ELSE <<m>> \o c[k - 1][links[m]]]]
           f == CHOOSE c : c = Body(c)
<1>5. g = Body(g)
  <2>1. \A k \in 0 .. N : g[k] = [m \in Link |->
                   IF m \notin Nodes \/ k = 0 THEN << >> ELSE <<m>> \o g[k - 1][links[m]]]
    BY <1>4 DEF Unfold
  <2>2. g = [k \in 0 .. N |-> g[k]]
    OBVIOUS
  <2> QED BY <2>1, <2>2, Zenon
<1>6. f = Body(f)
  <2> HIDE DEF Body
  <2> QED BY <1>5, Zenon
<1>7. \A n : ChainIn(links, n) = f[N][n]
  BY Zenon DEF ChainIn, N
<1> HIDE DEF f
<1>8. \A k \in 0 .. N : f[k] = Unfold(links, f[k - 1], k)
  BY <1>6, Zenon DEF Unfold
<1> DEFINE E == {k \in Nat : k <= N => f[k] \in F}
<1>9. 0 \in E
  BY <1>8, <1>n, <1>u
<1>10. ASSUME NEW k \in Nat, k \in E PROVE k + 1 \in E
  <2>1. ASSUME k + 1 <= N PROVE f[k + 1] \in F
    <3>1. f[k] \in F /\ k + 1 - 1 = k /\ k + 1 \in 0 .. N
      BY <1>10, <1>n, <2>1
    <3> HIDE DEF E
    <3>2. f[k + 1] = Unfold(links, f[k], k + 1)
      BY <1>8, <3>1
    <3> QED BY <1>u, <3>1, <3>2
  <2> QED BY <2>1
<1>11. \A k \in 0 .. N : f[k] \in F
  <2> HIDE DEF E
  <2>1. Nat \subseteq E
    BY <1>9, <1>10, SetInduction
  <2>2. \A k \in 0 .. N : k \in E /\ k <= N
    BY <2>1, <1>n
  <2> QED BY <2>2 DEF E
<1>12. f \in [0 .. N -> F]
  <2>1. f = [k \in 0 .. N |-> f[k]]
    BY <1>6, Zenon
  <2> QED BY <1>11, <2>1
<1> QED BY <1>7, <1>8, <1>12 DEF N, F

\* It begins with a sequence that the links spell out, and is that sequence
\* if the links lead nowhere from there.
LEMMA ChainFollows ==
  ASSUME NEW links \in [Nodes -> Link], NEW q \in Seq(Nodes), NEW f \in Link, NEW e \in Link,
         Linked(links, q, f, e), Len(q) <= Longest
  PROVE  /\ ChainIn(links, f) \in Seq(Nodes)
         /\ Len(q) <= Len(ChainIn(links, f))
         /\ \A i \in 1 .. Len(q) : ChainIn(links, f)[i] = q[i]
         /\ e \notin Nodes => ChainIn(links, f) = q
<1>1. PICK c \in [0 .. Longest -> [Link -> Seq(Nodes)]] :
           /\ \A n : ChainIn(links, n) = c[Longest][n]
           /\ \A k \in 0 .. Longest : c[k] = Unfold(links, c[k - 1], k)
  BY ChainUnfolds
<1> DEFINE Starts(s, p, g) == /\ Len(p) <= Len(s)
                              /\ \A i \in 1 .. Len(p) : s[i] = p[i]
                              /\ g \notin Nodes => s = p
           D == {k \in Nat : k <= Longest =>
                   \A p \in Seq(Nodes), m \in Link, g \in Link :
                     Linked(links, p, m, g) /\ Len(p) <= k => Starts(c[k][m], p, g)}
<1>2. 0 \in D
  <2> SUFFICES ASSUME NEW p \in Seq(Nodes), NEW m \in Link, NEW g \in Link,
                      Len(p) <= 0
               PROVE  Starts(c[0][m], p, g)
    BY Zenon
  <2>1. p = << >>
    OBVIOUS
  <2>2. c[0][m] = << >>
    <3>1. 0 \in 0 .. Longest
      BY LongestType
    <3>2. c[0] = Unfold(links, c[0 - 1], 0)
      BY <1>1, <3>1
    <3> QED BY <3>2 DEF Unfold
  <2> QED BY <2>1, <2>2
<1>3. ASSUME NEW k \in Nat, k \in D PROVE k + 1 \in D
  <2>n. k + 1 \in Nat
    OBVIOUS
  <2> SUFFICES ASSUME k + 1 <= Longest,
                      NEW p \in Seq(Nodes), NEW m \in Link, NEW g \in Link,
                      Linked(links, p, m, g), Len(p) <= k + 1
               PROVE  Starts(c[k + 1][m], p, g)
    BY <2>n, Zenon
  <2>0. k \in 0 .. Longest /\ k + 1 \in 0 .. Longest /\ k + 1 - 1 = k /\ k + 1 # 0 /\ k <= Longest
    BY LongestType
  <2>1. c[k + 1] = Unfold(links, c[k], k + 1)
    BY <1>1, <2>0
  <2>2. c[k + 1][m] = IF m \notin Nodes THEN << >> ELSE <<m>> \o c[k][links[m]]
    BY <2>0, <2>1 DEF Unfold
  <2>3. CASE p = << >>
    <3>1. m = g
      BY <2>3, LinkedBasics
    <3>2. c[k + 1][m] \in Seq(Nodes)
      BY <2>0
    <3> QED BY <2>2, <2>3, <3>1, <3>2
  <2>4. CASE p # << >>
    <3> DEFINE t == Tail(p)
               s == c[k][links[m]]
    <3>1. p = <<m>> \o t /\ m \in Nodes /\ t \in Seq(Nodes) /\ Linked(links, t, links[m], g)
      BY <2>4, LinkedHead
    <3>2. Len(t) <= k /\ links[m] \in Link
      BY <2>4, <3>1
    <3>3. Starts(s, t, g)
      BY <1>3, <2>0, <3>1, <3>2
    <3>4. s \in Seq(Nodes) /\ c[k + 1][m] = <<m>> \o s
      BY <2>0, <2>2, <3>1, <3>2
    <3> HIDE DEF t, s
    <3>5. Len(p) <= Len(<<m>> \o s)
      BY <3>1, <3>3, <3>4
    <3>6. ASSUME NEW i \in 1 .. Len(p) PROVE (<<m>> \o s)[i] = p[i]
      <4>1. CASE i = 1
        BY <3>1, <3>4, <4>1
      <4>2. CASE i # 1
        <5>1. i - 1 \in 1 .. Len(t) /\ i - 1 \in 1 .. Len(s)
          BY <3>1, <3>3, <4>2
        <5>2. (<<m>> \o s)[i] = s[i - 1] /\ (<<m>> \o t)[i] = t[i - 1]
          BY <3>1, <3>4, <4>2, <5>1
        <5> QED BY <3>1, <3>3, <5>1, <5>2
      <4> QED BY <4>1, <4>2
    <3>7. g \notin Nodes => <<m>> \o s = p
      BY <3>1, <3>3
    <3> QED BY <3>4, <3>5, <3>6, <3>7
  <2> QED BY <2>3, <2>4
<1>4. Longest \in D
  <2> HIDE DEF D
  <2> QED BY <1>2, <1>3, LongestType, SetInduction
<1>5. Starts(c[Longest][f], q, e)
  BY <1>4, LongestType
<1>6. c[Longest][f] \in Seq(Nodes)
  BY LongestType
<1> QED BY <1>1, <1>5, <1>6

\* A sequence without repetition is short enough for Chain().
LEMMA OnceIsShort ==
  ASSUME NEW q \in Seq(Nodes), Once(q)
  PROVE  Len(q) <= Longest
<1>1. q \in Injection(1 .. Len(q), Nodes)
  BY DEF Injection, IsInjective, Once
<1>2. Cardinality(1 .. Len(q)) <= Cardinality(Nodes)
  BY <1>1, FS_Injection, ClientAssumption
<1>3. Cardinality(1 .. Len(q)) = Len(q)
  <2>1. Len(q) \in Int /\ Len(q) >= 0 /\ 1 \in Int
    OBVIOUS
  <2>2. Cardinality(1 .. Len(q)) = IF 1 > Len(q) THEN 0 ELSE Len(q) - 1 + 1
    BY <2>1, FS_Interval
  <2> QED BY <2>1, <2>2
<1> QED BY <1>2, <1>3, LongestType

LEMMA ChainIs ==
  ASSUME NEW links \in [Nodes -> Link], NEW q \in Seq(Nodes), Once(q),
         NEW f \in Link, NEW e \in Link \ Nodes, Linked(links, q, f, e)
  PROVE  ChainIn(links, f) = q
BY ChainFollows, OnceIsShort

\* Where an element comes that is in a sequence once, and one that is not.
LEMMA BeforeIs ==
  ASSUME NEW S, NEW q \in Seq(S), NEW x
  PROVE  /\ Before(q, x) \in 0 .. Len(q)
         /\ \A i \in 1 .. Before(q, x) : q[i] # x
         /\ Before(q, x) # Len(q) => q[Before(q, x) + 1] = x
<1> DEFINE T == {i \in Nat : \A j \in 1 .. i : j <= Len(q) => q[j] # x}
           P(k) == /\ \A i \in 1 .. k : q[i] # x
                   /\ k # Len(q) => q[k + 1] = x
<1>1. \E k \in 0 .. Len(q) : P(k)
  <2> SUFFICES ASSUME ~ \E k \in 0 .. Len(q) : P(k) PROVE FALSE
    OBVIOUS
  <2>1. 0 \in T
    OBVIOUS
  <2>2. ASSUME NEW i \in Nat, i \in T PROVE i + 1 \in T
    <3>1. CASE i >= Len(q)
      BY <2>2, <3>1
    <3>2. CASE i < Len(q)
      <4>1. i \in 0 .. Len(q) /\ \A j \in 1 .. i : q[j] # x
        BY <2>2, <3>2
      <4>2. q[i + 1] # x
        BY <3>2, <4>1
      <4> QED BY <2>2, <3>2, <4>1, <4>2
    <3> QED BY <3>1, <3>2
  <2>3. Len(q) \in T
    <3> HIDE DEF T
    <3> QED BY <2>1, <2>2, SetInduction
  <2>4. P(Len(q)) /\ Len(q) \in 0 .. Len(q)
    BY <2>3
  <2> QED BY <2>4
<1>2. Before(q, x) \in 0 .. Len(q) /\ P(Before(q, x))
  BY <1>1, Zenon DEF Before
<1> QED BY <1>2

LEMMA SegmentIs ==
  ASSUME next \in [Nodes -> Link], NEW q \in Seq(Nodes), Once(q), q # << >>,
         NEW f \in Link, NEW e \in Link, Linked(next, q, f, e)
  PROVE  Segment(f, q[Len(q)]) = q
<1> DEFINE s == ChainIn(next, f)
           l == q[Len(q)]
           k == Before(s, l)
<1>1. s \in Seq(Nodes) /\ Len(q) <= Len(s) /\ \A i \in 1 .. Len(q) : s[i] = q[i]
  BY ChainFollows, OnceIsShort
<1>2. k \in 0 .. Len(s) /\ (\A i \in 1 .. k : s[i] # l) /\ (k # Len(s) => s[k + 1] = l)
  BY <1>1, BeforeIs
<1>3. Segment(f, l) = IF k = Len(s) THEN s ELSE SubSeq(s, 1, k + 1)
  BY DEF Segment, Chain
<1> HIDE DEF s, k
<1>4. k = Len(q) - 1
  <2>1. ~ (k >= Len(q))
    BY <1>1, <1>2
  <2>2. k + 1 \in 1 .. Len(q) /\ k # Len(s)
    BY <1>1, <1>2, <2>1
  <2>3. q[k + 1] = q[Len(q)]
    BY <1>1, <1>2, <2>2
  <2>4. Len(q) \in 1 .. Len(q)
    OBVIOUS
  <2>5. k + 1 = Len(q)
    BY <2>2, <2>3, <2>4 DEF Once
  <2> QED BY <1>2, <2>5
<1>5. Segment(f, l) = SubSeq(s, 1, Len(q))
  BY <1>1, <1>3, <1>4
<1>6. SubSeq(s, 1, Len(q)) = q
  <2>1. SubSeq(s, 1, Len(q)) \in Seq(Nodes) /\ Len(SubSeq(s, 1, Len(q))) = Len(q)
        /\ \A i \in 1 .. Len(q) : SubSeq(s, 1, Len(q))[i] = s[i]
    BY <1>1
  <2> QED BY <1>1, <2>1, SeqEqual
<1> QED BY <1>5, <1>6

-----------------------------------------------------------------------------
(* What a step of one thread leaves alone.                                 *)

OwnStep(t) == \A w \in Threads \ {t} :
  /\ pc'[w] = pc[w] /\ job'[w] = job[w] /\ expected'[w] = expected[w]
  /\ first'[w] = first[w] /\ last'[w] = last[w] /\ rest'[w] = rest[w]
  /\ prev'[w] = prev[w] /\ op'[w] = op[w]

\* Thread t's chains are now u and v, and the list is l.
Laid(Q, t, u, v, l) == [Q EXCEPT ![<<t, 1>>] = u, ![<<t, 2>>] = v, ![<<NULL, 1>>] = l]

LEMMA PlacesAre ==
  ASSUME NEW Q \in Layouts
  PROVE  /\ DOMAIN Q = Places
         /\ List(Q) \in Seq(Nodes) /\ <<NULL, 1>> \in Places /\ <<NULL, 2>> \in Places
         /\ \A t \in Threads : /\ Main(Q, t) \in Seq(Nodes) /\ Aside(Q, t) \in Seq(Nodes)
                               /\ <<t, 1>> \in Places /\ <<t, 2>> \in Places
                               /\ t # NULL
BY ClientAssumption DEF Layouts, Places, List, Main, Aside, Threads, Consumers

\* The chains of other threads do not change, when the links of their
\* elements do not.
LEMMA Frame ==
  ASSUME NEW w \in Threads, NEW q \in Seq(Nodes), NEW r \in Seq(Nodes),
         MainOK(w, q), AsideOK(w, r),
         pc'[w] = pc[w], job'[w] = job[w], expected'[w] = expected[w],
         first'[w] = first[w], last'[w] = last[w], rest'[w] = rest[w],
         prev'[w] = prev[w], op'[w] = op[w],
         \A n : Member(q, n) \/ Member(r, n) => next'[n] = next[n]
  PROVE  MainOK(w, q)' /\ AsideOK(w, r)'
<1>1. \A f, e : Linked(next, q, f, e) => Linked(next', q, f, e)
  BY LinkedBasics
<1>2. \A f, e : Linked(next, r, f, e) => Linked(next', r, f, e)
  BY LinkedBasics
<1>3. MainOK(w, q)'
  <2>1. ASSUME Publishing(w)
        PROVE  /\ q # << >> /\ last[w] = q[Len(q)]
               /\ Linked(next', q, first[w], next'[last[w]])
               /\ pc[w] = "cas" => next'[last[w]] = expected[w]
               /\ job[w] = "push" => q = <<op[w]>>
    <3>1. q # << >> /\ last[w] = q[Len(q)] /\ Linked(next, q, first[w], next[last[w]])
      BY <2>1 DEF MainOK
    <3>2. Member(q, last[w])
      BY <3>1 DEF Member
    <3>3. next'[last[w]] = next[last[w]]
      BY <3>2
    <3>4. Linked(next', q, first[w], next'[last[w]])
      BY <1>1, <3>1, <3>3
    <3> QED BY <2>1, <3>1, <3>3, <3>4 DEF MainOK
  <2>2. ASSUME pc[w] \in {"reverse", "walk", "complete", "scan", "prefix"}
        PROVE  Linked(next', q, rest[w], NULL)
    BY <1>1, <2>2 DEF MainOK
  <2>3. pc[w] \in {"idle", "grab", "suffix"} => q = << >>
    BY DEF MainOK
  <2> QED BY <2>1, <2>2, <2>3 DEF MainOK, Publishing
<1>4. AsideOK(w, r)'
  <2>1. HasRest(w) => r # << >> /\ Linked(next', r, op[w], NULL)
    BY <1>2 DEF AsideOK
  <2>2. pc[w] = "reverse" => Linked(next', r, prev[w], SENTINEL)
    BY <1>2 DEF AsideOK
  <2> QED BY <2>1, <2>2 DEF AsideOK, Publishing, HasRest
<1> QED BY <1>3, <1>4

\* A step of thread t that lays out its chains and the list anew, and leaves
\* the elements of other threads alone.
LEMMA Step ==
  ASSUME NEW Q \in Layouts, Explains(Q), NEW t \in Threads, OwnStep(t),
         NEW u \in Seq(Nodes), NEW v \in Seq(Nodes), NEW l \in Seq(Nodes),
         Once(u), Once(v), Once(l),
         \A n : /\ ~(Member(u, n) /\ Member(v, n)) /\ ~(Member(u, n) /\ Member(l, n))
                /\ ~(Member(v, n) /\ Member(l, n)),
         NEW New, New = {n \in Nodes : Member(u, n) \/ Member(v, n) \/ Member(l, n)},
         NEW Old, Old = {n \in Nodes : \/ Member(Main(Q, t), n) \/ Member(Aside(Q, t), n)
                                       \/ Member(List(Q), n)},
         \A n \in New \ Old : ~Has(Q, n),
         \A n \in New : life'[n] # "ready",
         \A n \in Old \ New : next'[n] = NULL,
         \A n \in Nodes \ (Old \cup New) : /\ next'[n] = next[n]
                                           /\ Has(Q, n) => life'[n] # "ready",
         MainOK(t, u)', AsideOK(t, v)', Linked(next', l, head', NULL),
         \A w \in Stoppers : pc'[w] = "prefix" => ~Member(l, op'[w])
  PROVE  Laid(Q, t, u, v, l) \in Layouts /\ Explains(Laid(Q, t, u, v, l))'
<1> DEFINE R == Laid(Q, t, u, v, l)
           p == <<t, 1>>
           r == <<t, 2>>
           h == <<NULL, 1>>
           T == {p, r, h}
<1>1. T \in SUBSET Places /\ p # r /\ p # h /\ r # h /\ DOMAIN Q = Places
  <2>1. t # NULL /\ p \in Places /\ r \in Places /\ h \in Places /\ DOMAIN Q = Places
    BY PlacesAre
  <2>2. p # r /\ p # h /\ r # h
    BY <2>1
  <2> QED BY <2>1, <2>2
<1>2. /\ R \in Layouts /\ R[p] = u /\ R[r] = v /\ R[h] = l
      /\ \A o \in Places \ T : R[o] = Q[o]
  <2>1. Q \in [Places -> Seq(Nodes)]
    BY DEF Layouts
  <2> QED BY <1>1, <2>1 DEF Laid, Layouts
<1>3. Q[p] = Main(Q, t) /\ Q[r] = Aside(Q, t) /\ Q[h] = List(Q)
  BY DEF Main, Aside, List
<1>4. /\ Main(R, t) = u /\ Aside(R, t) = v /\ List(R) = l
      /\ R[<<NULL, 2>>] = << >>
      /\ \A w \in Threads \ {t} : Main(R, w) = Main(Q, w) /\ Aside(R, w) = Aside(Q, w)
  <2>1. <<NULL, 2>> \in Places \ T /\ Q[<<NULL, 2>>] = << >>
    <3>1. t # NULL /\ <<NULL, 2>> \in Places
      BY PlacesAre
    <3> QED BY <3>1 DEF Explains, ListOK
  <2>2. \A w \in Threads \ {t} : <<w, 1>> \in Places \ T /\ <<w, 2>> \in Places \ T
    BY PlacesAre
  <2> HIDE DEF R, T
  <2> QED BY <1>2, <2>1, <2>2 DEF Main, Aside, List
<1>5. \A q \in Seq(Nodes) : \A n : Member(q, n) => n \in Nodes
  BY DEF Member
<1>6. /\ \A n : n \in New <=> Member(u, n) \/ Member(v, n) \/ Member(l, n)
      /\ \A n : n \in Old <=> Member(Q[p], n) \/ Member(Q[r], n) \/ Member(Q[h], n)
  BY <1>3, <1>5, PlacesAre
<1> HIDE DEF R
<1>7. /\ Apart(R)
      /\ \A n : Has(R, n) <=> n \in New \/ (Has(Q, n) /\ n \notin Old)
  <2>1. Apart(Q)
    BY DEF Explains
  <2>2. \A o \in T : Once(R[o])
    BY <1>2
  <2>3. ASSUME NEW a \in T, NEW b \in T, NEW n, Member(R[a], n), Member(R[b], n) PROVE a = b
    <3> HIDE DEF p, r, h
    <3>1. a \in {p, r, h} /\ b \in {p, r, h}
      OBVIOUS
    <3>2. /\ a = p => Member(u, n)
          /\ a = r => Member(v, n)
          /\ a = h => Member(l, n)
      BY <1>2, <2>3
    <3>3. /\ b = p => Member(u, n)
          /\ b = r => Member(v, n)
          /\ b = h => Member(l, n)
      BY <1>2, <2>3
    <3> QED BY <3>1, <3>2, <3>3
  <2>4. /\ \A n : n \in New <=> \E o \in T : Member(R[o], n)
        /\ \A n : n \in Old <=> \E o \in T : Member(Q[o], n)
    BY <1>2, <1>6
  <2> HIDE DEF T
  <2>5. \A o \in T : \A n : Member(R[o], n) => (\E b \in T : Member(Q[b], n)) \/ ~Has(Q, n)
    BY <2>4
  <2>6. /\ Apart(R)
        /\ \A n : Has(R, n) <=> \/ \E o \in T : Member(R[o], n)
                                \/ Has(Q, n) /\ \A o \in T : ~Member(Q[o], n)
    BY <1>1, <1>2, <2>1, <2>2, <2>3, <2>5, Moved
  <2> QED BY <2>4, <2>6
<1>8. ASSUME NEW o \in Places \ T, NEW n, Member(Q[o], n)
      PROVE  n \in Nodes \ (Old \cup New)
  <2>1. Has(Q, n) /\ n \notin Old
    BY <1>1, <1>6, <1>8 DEF Explains, Apart, Has
  <2>2. n \in Nodes
    <3>1. Q[o] \in Seq(Nodes)
      BY DEF Layouts
    <3> QED BY <1>5, <1>8, <3>1
  <2> QED BY <2>1, <2>2
<1>9. ASSUME NEW w \in Threads \ {t} PROVE MainOK(w, Main(R, w))' /\ AsideOK(w, Aside(R, w))'
  <2> DEFINE a == Main(Q, w)
             b == Aside(Q, w)
  <2>1. \A n : Member(a, n) \/ Member(b, n) => next'[n] = next[n]
    <3>1. <<w, 1>> \in Places \ T /\ <<w, 2>> \in Places \ T
      BY PlacesAre
    <3> HIDE DEF T
    <3>2. \A n : Member(a, n) \/ Member(b, n) => n \in Nodes \ (Old \cup New)
      BY <1>8, <3>1 DEF Main, Aside
    <3> QED BY <3>2
  <2>2. MainOK(w, a) /\ AsideOK(w, b)
    BY DEF Explains
  <2>3. a \in Seq(Nodes) /\ b \in Seq(Nodes) /\ a = Main(R, w) /\ b = Aside(R, w)
    BY <1>4, PlacesAre
  <2> HIDE DEF a, b
  <2>4. /\ pc'[w] = pc[w] /\ job'[w] = job[w] /\ expected'[w] = expected[w]
        /\ first'[w] = first[w] /\ last'[w] = last[w] /\ rest'[w] = rest[w]
        /\ prev'[w] = prev[w] /\ op'[w] = op[w]
    BY DEF OwnStep
  <2>5. MainOK(w, a)' /\ AsideOK(w, b)'
    BY <2>1, <2>2, <2>3, <2>4, Frame
  <2> QED BY <2>3, <2>5
<1>10. \A w \in Threads : MainOK(w, Main(R, w))' /\ AsideOK(w, Aside(R, w))'
  BY <1>4, <1>9
<1>11. ListOK(R)'
  BY <1>4 DEF ListOK
<1>12. ElementsOK(R)'
  <2> SUFFICES ASSUME NEW n \in Nodes
               PROVE  IF Has(R, n) THEN life'[n] # "ready" ELSE next'[n] = NULL
    BY DEF ElementsOK
  <2>1. IF Has(Q, n) THEN life[n] # "ready" ELSE next[n] = NULL
    BY DEF Explains, ElementsOK
  <2>2. CASE n \in New
    BY <1>7, <2>2
  <2>3. CASE n \in Old \ New
    BY <1>7, <2>3
  <2>4. CASE n \notin Old \cup New
    BY <1>7, <2>1, <2>4
  <2> QED BY <2>2, <2>3, <2>4
<1>13. WithdrawnOK(R)'
  BY <1>4 DEF WithdrawnOK
<1> QED BY <1>2, <1>7, <1>10, <1>11, <1>12, <1>13 DEF R, Explains

\* What is known of a thread's chains.
LEMMA ChainsAre ==
  ASSUME NEW Q \in Layouts, Explains(Q), NEW t \in Threads,
         NEW a, a = Main(Q, t), NEW b, b = Aside(Q, t)
  PROVE  /\ a \in Seq(Nodes) /\ Once(a) /\ MainOK(t, a)
         /\ b \in Seq(Nodes) /\ Once(b) /\ AsideOK(t, b)
         /\ \A n : ~(Member(a, n) /\ Member(b, n))
         /\ \A n : Member(a, n) \/ Member(b, n) =>
              n \in Nodes /\ Has(Q, n) /\ life[n] # "ready" /\ ~Member(List(Q), n)
<1>1. /\ a \in Seq(Nodes) /\ b \in Seq(Nodes) /\ DOMAIN Q = Places
      /\ <<t, 1>> \in Places /\ <<t, 2>> \in Places /\ <<NULL, 1>> \in Places
      /\ <<t, 1>> # <<t, 2>> /\ <<t, 1>> # <<NULL, 1>> /\ <<t, 2>> # <<NULL, 1>>
      /\ a = Q[<<t, 1>>] /\ b = Q[<<t, 2>>] /\ List(Q) = Q[<<NULL, 1>>]
  <2>1. /\ Main(Q, t) \in Seq(Nodes) /\ Aside(Q, t) \in Seq(Nodes) /\ DOMAIN Q = Places
        /\ <<t, 1>> \in Places /\ <<t, 2>> \in Places /\ <<NULL, 1>> \in Places /\ t # NULL
    BY PlacesAre
  <2>2. <<t, 1>> # <<t, 2>> /\ <<t, 1>> # <<NULL, 1>> /\ <<t, 2>> # <<NULL, 1>>
    BY <2>1
  <2>3. a = Q[<<t, 1>>] /\ b = Q[<<t, 2>>] /\ List(Q) = Q[<<NULL, 1>>]
    BY DEF Main, Aside, List
  <2> QED BY <2>1, <2>2, <2>3
<1>2. MainOK(t, a) /\ AsideOK(t, b) /\ Apart(Q) /\ ElementsOK(Q)
  BY DEF Explains
<1>3. Once(a) /\ Once(b) /\ \A n : /\ ~(Member(a, n) /\ Member(b, n))
                                   /\ ~(Member(a, n) /\ Member(List(Q), n))
                                   /\ ~(Member(b, n) /\ Member(List(Q), n))
  BY <1>1, <1>2 DEF Apart
<1>4. ASSUME NEW n, Member(a, n) \/ Member(b, n)
      PROVE  n \in Nodes /\ Has(Q, n) /\ life[n] # "ready"
  <2>1. Has(Q, n)
    BY <1>1, <1>4 DEF Has
  <2>2. \A q \in Seq(Nodes) : Member(q, n) => n \in Nodes
    BY DEF Member
  <2> QED BY <1>1, <1>2, <1>4, <2>1, <2>2 DEF ElementsOK
<1> QED BY <1>1, <1>2, <1>3, <1>4

LEMMA ListIs ==
  ASSUME NEW Q \in Layouts, Explains(Q)
  PROVE  /\ List(Q) \in Seq(Nodes) /\ Once(List(Q)) /\ Linked(next, List(Q), head, NULL)
         /\ \A n : Member(List(Q), n) => n \in Nodes /\ Has(Q, n) /\ life[n] # "ready"
<1>1. /\ List(Q) \in Seq(Nodes) /\ DOMAIN Q = Places /\ <<NULL, 1>> \in Places
      /\ List(Q) = Q[<<NULL, 1>>]
  BY PlacesAre DEF List
<1>2. Once(List(Q)) /\ Linked(next, List(Q), head, NULL) /\ ElementsOK(Q)
  BY <1>1 DEF Explains, Apart, ListOK
<1>3. ASSUME NEW n, Member(List(Q), n) PROVE n \in Nodes /\ Has(Q, n) /\ life[n] # "ready"
  <2>1. Has(Q, n)
    BY <1>1, <1>3 DEF Has
  <2>2. n \in Nodes
    BY <1>1, <1>3 DEF Member
  <2> QED BY <1>2, <2>1, <2>2 DEF ElementsOK
<1> QED BY <1>1, <1>2, <1>3

\* A step of thread t that does not change the list.
LEMMA LocalStep ==
  ASSUME NEW Q \in Layouts, Explains(Q), NEW t \in Threads, OwnStep(t), head' = head,
         NEW u \in Seq(Nodes), NEW v \in Seq(Nodes), Once(u), Once(v),
         \A n : ~(Member(u, n) /\ Member(v, n)),
         NEW New, New = {n \in Nodes : Member(u, n) \/ Member(v, n)},
         NEW Old, Old = {n \in Nodes : Member(Main(Q, t), n) \/ Member(Aside(Q, t), n)},
         \A n \in New \ Old : ~Has(Q, n),
         \A n \in New : life'[n] # "ready",
         \A n \in Old \ New : next'[n] = NULL,
         \A n \in Nodes \ (Old \cup New) : /\ next'[n] = next[n]
                                           /\ Has(Q, n) => life'[n] # "ready",
         MainOK(t, u)', AsideOK(t, v)', pc'[t] # "prefix"
  PROVE  Laid(Q, t, u, v, List(Q)) \in Layouts /\ Explains(Laid(Q, t, u, v, List(Q)))'
<1> DEFINE l == List(Q)
           here == {n \in Nodes : Member(l, n)}
           new == New \cup here
           old == Old \cup here
<1>1. /\ l \in Seq(Nodes) /\ Once(l) /\ Linked(next, l, head, NULL)
      /\ \A n : Member(l, n) => n \in here /\ n \in Nodes /\ Has(Q, n) /\ life[n] # "ready"
  BY ListIs
<1>2. \A n \in Old : n \notin here
  BY ChainsAre
<1>3. \A n \in New : n \notin here
  BY <1>1, <1>2
<1>4. \A n : Member(u, n) \/ Member(v, n) => n \in New
  BY DEF Member
<1>5. \A n \in here : next'[n] = next[n] /\ life'[n] # "ready"
  BY <1>1, <1>2, <1>3
<1>6. new = {n \in Nodes : Member(u, n) \/ Member(v, n) \/ Member(l, n)}
  BY Zenon
<1>7. old = {n \in Nodes : \/ Member(Main(Q, t), n) \/ Member(Aside(Q, t), n)
                           \/ Member(List(Q), n)}
  BY Zenon
<1>8. \A n : /\ ~(Member(u, n) /\ Member(v, n)) /\ ~(Member(u, n) /\ Member(l, n))
             /\ ~(Member(v, n) /\ Member(l, n))
  BY <1>1, <1>3, <1>4
<1>9. Linked(next', l, head', NULL)
  BY <1>1, <1>5, LinkedBasics
<1>10. \A w \in Stoppers : pc'[w] = "prefix" => ~Member(l, op'[w])
  <2> SUFFICES ASSUME NEW w \in Stoppers, pc'[w] = "prefix" PROVE ~Member(l, op'[w])
    OBVIOUS
  <2>1. w \in Threads \ {t}
    BY DEF Threads, Consumers
  <2>2. pc[w] = "prefix" /\ op'[w] = op[w]
    BY <2>1 DEF OwnStep
  <2> QED BY <2>2 DEF Explains, WithdrawnOK
<1> HIDE DEF l, here
<1>11. /\ \A n \in new \ old : ~Has(Q, n)
       /\ \A n \in new : life'[n] # "ready"
       /\ \A n \in old \ new : next'[n] = NULL
       /\ \A n \in Nodes \ (old \cup new) : /\ next'[n] = next[n]
                                            /\ Has(Q, n) => life'[n] # "ready"
  BY <1>5
<1> HIDE DEF new, old
<1> QED BY <1>1, <1>6, <1>7, <1>8, <1>9, <1>10, <1>11, Step DEF l

\* A step of thread t that changes neither links nor chains.
LEMMA QuietStep ==
  ASSUME NEW Q \in Layouts, Explains(Q), NEW t \in Threads, OwnStep(t), head' = head,
         next' = next, \A n \in Nodes : Has(Q, n) => life'[n] # "ready",
         MainOK(t, Main(Q, t))', AsideOK(t, Aside(Q, t))', pc'[t] # "prefix"
  PROVE  Explains(Q)'
<1> DEFINE a == Main(Q, t)
           b == Aside(Q, t)
           Old == {n \in Nodes : Member(Main(Q, t), n) \/ Member(Aside(Q, t), n)}
           New == {n \in Nodes : Member(a, n) \/ Member(b, n)}
<1>1. /\ a \in Seq(Nodes) /\ Once(a) /\ b \in Seq(Nodes) /\ Once(b)
      /\ \A n : ~(Member(a, n) /\ Member(b, n))
      /\ \A n : Member(a, n) \/ Member(b, n) => Has(Q, n)
  BY ChainsAre, Zenon
<1>2. MainOK(t, a)' /\ AsideOK(t, b)'
  OBVIOUS
<1>3. Old = New
  OBVIOUS
<1>4. Laid(Q, t, a, b, List(Q)) = Q
  BY DEF Laid, Main, Aside, List, Layouts
<1>5. \A n \in New : life'[n] # "ready"
  BY <1>1
<1> HIDE DEF a, b, Old, New
<1>6. Laid(Q, t, a, b, List(Q)) \in Layouts /\ Explains(Laid(Q, t, a, b, List(Q)))'
  BY <1>1, <1>2, <1>3, <1>5, LocalStep DEF Old, New
<1> QED BY <1>4, <1>6

-----------------------------------------------------------------------------
(* Each action lays out its thread's chains, or the list, anew.            *)

\* A step changes the locals of one thread.
LEMMA OwnSteps ==
  ASSUME TypeOK, NEW t \in Threads, Produce(t) \/ Launch(t) \/ Stop(t)
  PROVE  OwnStep(t)
<1> USE DEF OwnStep, TypeOK
<1>1. ASSUME NEW n \in Nodes, Push(t, n) PROVE OwnStep(t)
  BY <1>1 DEF Push, StartPublish
<1>2. CASE Publish(t)
  <2>1. CASE LinkLast(t)
    BY <2>1 DEF LinkLast
  <2>2. CASE PublishFails(t)
    BY <2>2 DEF PublishFails
  <2>3. CASE PublishSucceeds(t)
    BY <2>3 DEF PublishSucceeds
  <2> QED BY <1>2, <2>1, <2>2, <2>3 DEF Publish
<1>3. CASE MoveAll(t)
  <2>1. CASE MoveAllLoad(t)
    BY <2>1 DEF MoveAllLoad
  <2>2. CASE MoveAllFails(t)
    BY <2>2 DEF MoveAllFails
  <2>3. CASE MoveAllSucceeds(t)
    BY <2>3 DEF MoveAllSucceeds
  <2> QED BY <1>3, <2>1, <2>2, <2>3 DEF MoveAll
<1>4. CASE ReverseStep(t)
  BY <1>4 DEF ReverseStep
<1>5. CASE ReverseEnd(t)
  BY <1>5 DEF ReverseEnd
<1>6. CASE WalkNext(t)
  BY <1>6 DEF WalkNext
<1>7. CASE Complete(t)
  BY <1>7 DEF Complete
<1>8. CASE WalkEnd(t)
  BY <1>8 DEF WalkEnd
<1>9. CASE ScanNext(t)
  BY <1>9 DEF ScanNext
<1>10. CASE ScanFull(t)
  BY <1>10 DEF ScanFull, StartPublish
<1>11. CASE ScanEnd(t)
  BY <1>11 DEF ScanEnd
<1>12. ASSUME NEW x \in Nodes, Uninstall(t, x) PROVE OwnStep(t)
  BY <1>12 DEF Uninstall
<1>13. CASE UninstallEmpty(t)
  BY <1>13 DEF UninstallEmpty
<1>14. CASE PushPrefix(t)
  BY <1>14 DEF PushPrefix, StartPublish
<1>15. CASE PushSuffix(t)
  BY <1>15 DEF PushSuffix, StartPublish
<1>16. CASE UninstallEnd(t)
  BY <1>16 DEF UninstallEnd
<1> HIDE DEF OwnStep, TypeOK
<1>17. CASE Produce(t)
  BY <1>1, <1>2, <1>17 DEF Produce
<1>18. CASE Launch(t)
  BY <1>3, <1>4, <1>5, <1>6, <1>7, <1>8, <1>18 DEF Launch
<1>19. CASE Stop(t)
  BY <1>2, <1>3, <1>9, <1>10, <1>11, <1>12, <1>13, <1>14, <1>15, <1>16, <1>19 DEF Stop
<1> QED BY <1>17, <1>18, <1>19

\* What its role says of thread t.
Role(t) == /\ t \in Producers => ProducerOK(t)
           /\ t \in Launchers => LauncherOK(t)
           /\ t \in Stoppers => StopperOK(t)

\* A step of thread t leaves other threads in their roles when it does not
\* touch what they work on.
LEMMA RoleStep ==
  ASSUME TypeOK, RolesOK, NEW t \in Threads, OwnStep(t), Role(t)',
         \A w \in (Producers \cup Stoppers) \ {t} :
           op[w] \in Nodes => life'[op[w]] = life[op[w]]
  PROVE  RolesOK'
<1>1. ASSUME NEW w \in Producers PROVE ProducerOK(w)'
  <2>1. CASE w = t
    BY <2>1 DEF Role
  <2>2. CASE w # t
    <3>1. w \in Threads \ {t} /\ ProducerOK(w)
      BY <2>2 DEF Threads, RolesOK
    <3>2. pc'[w] = pc[w] /\ job'[w] = job[w] /\ op'[w] = op[w]
      BY <3>1 DEF OwnStep
    <3> QED BY <2>2, <3>1, <3>2 DEF ProducerOK
  <2> QED BY <2>1, <2>2
<1>2. ASSUME NEW w \in Launchers PROVE LauncherOK(w)'
  <2>1. CASE w = t
    BY <2>1 DEF Role
  <2>2. CASE w # t
    <3>1. w \in Threads \ {t} /\ LauncherOK(w)
      BY <2>2 DEF Threads, Consumers, RolesOK
    <3>2. pc'[w] = pc[w]
      BY <3>1 DEF OwnStep
    <3> QED BY <3>1, <3>2 DEF LauncherOK
  <2> QED BY <2>1, <2>2
<1>3. ASSUME NEW w \in Stoppers PROVE StopperOK(w)'
  <2>1. CASE w = t
    BY <2>1 DEF Role
  <2>2. CASE w # t
    <3>1. w \in Threads \ {t} /\ StopperOK(w) /\ op[w] \in Nodes \cup {NULL}
      BY <2>2 DEF Threads, Consumers, RolesOK, TypeOK
    <3>2. pc'[w] = pc[w] /\ job'[w] = job[w] /\ op'[w] = op[w]
      BY <3>1 DEF OwnStep
    <3> QED BY <2>2, <3>1, <3>2 DEF StopperOK
  <2> QED BY <2>1, <2>2
<1> QED BY <1>1, <1>2, <1>3 DEF RolesOK

\* A thread has one role.
LEMMA OneRole ==
  /\ Threads = Producers \cup Launchers \cup Stoppers
  /\ \A t \in Producers : t \notin Launchers /\ t \notin Stoppers
  /\ \A t \in Launchers, w \in Stoppers : FALSE
  /\ \A s, t \in Stoppers : s = t
  /\ NULL \notin Nodes /\ SENTINEL \notin Nodes /\ NULL # SENTINEL /\ NULL \notin Threads
BY ClientAssumption DEF Threads, Consumers

\* The step leaves thread t with the chains u and v and the list l.
Leads(Q, t, u, v, l) == /\ TypeOK' /\ RolesOK'
                        /\ Laid(Q, t, u, v, l) \in Layouts
                        /\ Explains(Laid(Q, t, u, v, l))'

\* push() begins: the element is in the hands of the thread.
LEMMA PushStep ==
  ASSUME TypeOK, RolesOK, NEW Q \in Layouts, Explains(Q), NEW t \in Producers, NEW n \in Nodes,
         Push(t, n)
  PROVE  Leads(Q, t, <<n>>, << >>, List(Q))
<1>t. t \in Threads /\ OwnStep(t)
  BY OwnSteps, OneRole DEF Produce
<1>e. /\ pc[t] = "idle" /\ life[n] = "ready" /\ head' = head /\ next' = next
      /\ life' = [life EXCEPT ![n] = "pushed"]
      /\ pc'[t] = "link" /\ job'[t] = "push" /\ op'[t] = n
      /\ first'[t] = n /\ last'[t] = n /\ expected'[t] = head
  BY <1>t DEF Push, StartPublish, TypeOK
<1>1. TypeOK'
  BY <1>t DEF TypeOK, Push, StartPublish
<1>2. RolesOK'
  <2>1. Role(t)'
    BY <1>e, OneRole DEF Role, ProducerOK, TypeOK
  <2>2. ASSUME NEW w \in (Producers \cup Stoppers) \ {t}, op[w] \in Nodes
        PROVE  life'[op[w]] = life[op[w]]
    <3>1. life[op[w]] # "ready"
      BY <2>2, OneRole DEF RolesOK, ProducerOK, StopperOK
    <3> QED BY <1>e, <2>2, <3>1 DEF TypeOK
  <2> QED BY <1>t, <2>1, <2>2, RoleStep
<1>3. ~Has(Q, n)
  BY <1>e DEF Explains, ElementsOK
<1> DEFINE a == Main(Q, t)
           b == Aside(Q, t)
<1>4. a = << >> /\ b = << >>
  BY <1>e, <1>t, ChainsAre DEF MainOK, AsideOK
<1> DEFINE u == <<n>>
           New == {m \in Nodes : Member(u, m) \/ Member(<< >>, m)}
           Old == {m \in Nodes : Member(Main(Q, t), m) \/ Member(Aside(Q, t), m)}
<1>5. u \in Seq(Nodes) /\ Once(u) /\ Once(<< >>) /\ << >> \in Seq(Nodes)
      /\ New = {n} /\ Old = {}
      /\ \A m : ~(Member(u, m) /\ Member(<< >>, m))
  BY <1>4, Members, Onces
<1>6. MainOK(t, u)' /\ AsideOK(t, << >>)'
  <2>1. Linked(next', u, n, next'[n])
    BY LinkedOne
  <2> QED BY <1>e, <2>1 DEF MainOK, AsideOK, Publishing, HasRest
<1>7. Laid(Q, t, u, << >>, List(Q)) \in Layouts /\ Explains(Laid(Q, t, u, << >>, List(Q)))'
  <2>1. life'[n] # "ready" /\ \A m \in Nodes : Has(Q, m) => life'[m] # "ready"
    BY <1>e DEF TypeOK, Explains, ElementsOK
  <2>2. pc'[t] # "prefix"
    BY <1>e
  <2> HIDE DEF u
  <2> QED BY <1>t, <1>e, <1>3, <1>5, <1>6, <2>1, <2>2, LocalStep
<1> QED BY <1>1, <1>2, <1>7 DEF Leads

\* What a quiet step needs, with the layout as it was.
LEMMA Same ==
  ASSUME NEW Q \in Layouts, NEW t \in Threads, TypeOK', RolesOK', Explains(Q)'
  PROVE  Leads(Q, t, Main(Q, t), Aside(Q, t), List(Q))
<1>1. Laid(Q, t, Main(Q, t), Aside(Q, t), List(Q)) = Q
  BY DEF Laid, Main, Aside, List, Layouts
<1> QED BY <1>1 DEF Leads

\* last->*Next = node: the chain leads to what was seen at the head.
LEMMA LinkLastStep ==
  ASSUME TypeOK, RolesOK, NEW Q \in Layouts, Explains(Q), NEW t \in Producers \cup Stoppers,
         LinkLast(t)
  PROVE  Leads(Q, t, Main(Q, t), Aside(Q, t), List(Q))
<1>t. t \in Threads /\ OwnStep(t)
  BY OwnSteps, OneRole DEF Produce, Stop, Publish
<1>1. TypeOK'
  BY <1>t DEF TypeOK, LinkLast, Link
<1>2. RolesOK'
  <2>1. Role(t)'
    BY <1>t, OneRole DEF Role, RolesOK, ProducerOK, StopperOK, TypeOK, LinkLast
  <2> QED BY <1>t, <2>1, RoleStep DEF LinkLast
<1> DEFINE a == Main(Q, t)
           b == Aside(Q, t)
<1>3. /\ a \in Seq(Nodes) /\ Once(a) /\ MainOK(t, a)
      /\ b \in Seq(Nodes) /\ Once(b) /\ AsideOK(t, b)
      /\ \A n : ~(Member(a, n) /\ Member(b, n))
      /\ \A n : Member(a, n) \/ Member(b, n) =>
           n \in Nodes /\ Has(Q, n) /\ life[n] # "ready" /\ ~Member(List(Q), n)
  BY <1>t, ChainsAre
<1> DEFINE z == a[Len(a)]
<1>4. /\ pc[t] = "link" /\ pc'[t] = "cas" /\ head' = head /\ life' = life
      /\ job' = job /\ expected' = expected /\ first' = first /\ last' = last
      /\ rest' = rest /\ prev' = prev /\ op' = op
      /\ next' = [next EXCEPT ![last[t]] = expected[t]]
  BY <1>t DEF LinkLast, TypeOK
<1>5. /\ a # << >> /\ last[t] = z /\ Linked(next, a, first[t], next[last[t]])
      /\ job[t] = "push" => a = <<op[t]>>
  BY <1>3, <1>4 DEF MainOK, Publishing
<1>6. Member(a, z) /\ z \in Nodes
  <2>1. Len(a) \in 1 .. Len(a)
    BY <1>3, <1>5
  <2>2. Member(a, z)
    BY <2>1 DEF Member
  <2> QED BY <1>3, <2>2
<1>7. next'[z] = expected[t] /\ \A n \in Nodes : n # z => next'[n] = next[n]
  BY <1>4, <1>5, <1>6 DEF TypeOK
<1> HIDE DEF a, b, z
<1>8. MainOK(t, a)'
  <2>1. \A n : Member(a, n) /\ n # z => next'[n] = next[n]
    BY <1>3, <1>7
  <2>2. Linked(next', a, first[t], expected[t])
    BY <1>3, <1>5, <1>7, <2>1, LinkedLast DEF z
  <2> QED BY <1>4, <1>5, <1>7, <2>2 DEF MainOK, Publishing, z
<1>9. AsideOK(t, b)'
  <2>1. \A n : Member(b, n) => next'[n] = next[n]
    BY <1>3, <1>6, <1>7
  <2>2. \A f, e : Linked(next, b, f, e) => Linked(next', b, f, e)
    BY <1>3, <2>1, LinkedBasics
  <2> QED BY <1>3, <1>4, <2>2 DEF AsideOK, Publishing, HasRest
<1> DEFINE New == {n \in Nodes : Member(a, n) \/ Member(b, n)}
           Old == {n \in Nodes : Member(Main(Q, t), n) \/ Member(Aside(Q, t), n)}
<1>10. New = Old
  BY DEF a, b
<1>11. /\ \A n \in New : life'[n] # "ready"
       /\ \A n \in Nodes \ (Old \cup New) : /\ next'[n] = next[n]
                                            /\ Has(Q, n) => life'[n] # "ready"
  BY <1>3, <1>4, <1>6, <1>7 DEF Explains, ElementsOK
<1>12. pc'[t] # "prefix"
  BY <1>4
<1>13. Laid(Q, t, a, b, List(Q)) \in Layouts /\ Explains(Laid(Q, t, a, b, List(Q)))'
  <2> HIDE DEF New, Old
  <2> QED BY <1>t, <1>3, <1>4, <1>8, <1>9, <1>10, <1>11, <1>12, LocalStep DEF New, Old
<1> QED BY <1>1, <1>2, <1>13 DEF Leads, a, b

\* Steps that change no chain: compare_exchange fails, or a walk ends.
LEMMA QuietSteps ==
  ASSUME TypeOK, RolesOK, NEW Q \in Layouts, Explains(Q), NEW t \in Threads,
         Produce(t) \/ Launch(t) \/ Stop(t),
         \/ PublishFails(t) \/ MoveAllFails(t) \/ WalkEnd(t) \/ ScanEnd(t)
         \/ t \in Consumers /\ MoveAllLoad(t)
  PROVE  Leads(Q, t, Main(Q, t), Aside(Q, t), List(Q))
<1>t. OwnStep(t)
  BY OwnSteps
<1> DEFINE a == Main(Q, t)
           b == Aside(Q, t)
<1>3. a \in Seq(Nodes) /\ MainOK(t, a) /\ b \in Seq(Nodes) /\ AsideOK(t, b)
  BY ChainsAre
<1>4. head' = head /\ next' = next /\ life' = life /\ pc'[t] # "prefix"
  BY DEF PublishFails, AfterFailure, MoveAllLoad, MoveAllFails, WalkEnd, ScanEnd, TypeOK
<1> HIDE DEF a, b
<1>5. TypeOK' /\ Role(t)' /\ MainOK(t, a)' /\ AsideOK(t, b)'
  <2>1. CASE PublishFails(t)
    <3>1. /\ pc[t] = "cas" /\ pc'[t] = "link" /\ job' = job /\ first' = first /\ last' = last
          /\ op' = op /\ rest' = rest /\ prev' = prev
      BY <2>1 DEF PublishFails, AfterFailure, TypeOK
    <3>2. TypeOK'
      BY <2>1 DEF TypeOK, PublishFails, AfterFailure
    <3>3. Role(t)'
      BY <1>4, <3>1, OneRole DEF Role, RolesOK, ProducerOK, LauncherOK, StopperOK
    <3>4. MainOK(t, a)'
      BY <1>3, <1>4, <3>1 DEF MainOK, Publishing
    <3>5. AsideOK(t, b)'
      BY <1>3, <1>4, <3>1 DEF AsideOK, Publishing, HasRest
    <3> QED BY <3>2, <3>3, <3>4, <3>5
  <2>2. CASE t \in Consumers /\ MoveAllLoad(t)
    <3>1. pc[t] = "idle" /\ pc'[t] = "grab" /\ op' = op
      BY <2>2 DEF MoveAllLoad, TypeOK
    <3>2. TypeOK'
      BY <2>2 DEF TypeOK, MoveAllLoad
    <3>3. Role(t)'
      <4>1. t \notin Producers
        BY <2>2, OneRole DEF Consumers
      <4> QED BY <1>4, <3>1, <4>1, OneRole DEF Role, RolesOK, LauncherOK, StopperOK
    <3>4. MainOK(t, a)' /\ AsideOK(t, b)'
      BY <1>3, <3>1 DEF MainOK, AsideOK, Publishing, HasRest
    <3> QED BY <3>2, <3>3, <3>4
  <2>3. CASE MoveAllFails(t)
    <3>1. pc[t] = "grab" /\ pc' = pc /\ op' = op
      BY <2>3 DEF MoveAllFails, TypeOK
    <3>2. TypeOK'
      BY <2>3 DEF TypeOK, MoveAllFails
    <3>3. Role(t)'
      BY <1>4, <3>1, OneRole DEF Role, RolesOK, ProducerOK, LauncherOK, StopperOK
    <3>4. MainOK(t, a)' /\ AsideOK(t, b)'
      BY <1>3, <3>1 DEF MainOK, AsideOK, Publishing, HasRest
    <3> QED BY <3>2, <3>3, <3>4
  <2>4. CASE WalkEnd(t) \/ ScanEnd(t)
    <3>1. /\ pc[t] \in {"walk", "scan"} /\ rest[t] = NULL /\ pc'[t] = "idle" /\ op' = op
      BY <2>4 DEF WalkEnd, ScanEnd, TypeOK
    <3>2. TypeOK'
      BY <2>4 DEF TypeOK, WalkEnd, ScanEnd
    <3>3. Role(t)'
      BY <1>4, <3>1, OneRole DEF Role, RolesOK, ProducerOK, LauncherOK, StopperOK
    <3>4. b = << >>
      BY <1>3, <3>1 DEF AsideOK
    <3>5. a = << >>
      <4> SUFFICES ASSUME a # << >> PROVE FALSE
        OBVIOUS
      <4>1. Linked(next, a, NULL, NULL)
        BY <1>3, <3>1 DEF MainOK
      <4>2. Member(a, NULL)
        BY <1>3, <4>1, LinkedBasics
      <4> QED BY <1>3, <4>2, OneRole DEF Member
    <3> QED BY <3>1, <3>2, <3>3, <3>4, <3>5 DEF MainOK, AsideOK, Publishing, HasRest
  <2> QED BY <2>1, <2>2, <2>3, <2>4
<1>6. RolesOK'
  BY <1>t, <1>4, <1>5, RoleStep
<1>7. Explains(Q)'
  <2>1. \A n \in Nodes : Has(Q, n) => life'[n] # "ready"
    BY <1>4 DEF Explains, ElementsOK
  <2> QED BY <1>t, <1>4, <1>5, <2>1, QuietStep DEF a, b
<1> QED BY <1>5, <1>6, <1>7, Same

\* compare_exchange succeeds: the chain is now the first part of the list.
LEMMA PublishStep ==
  ASSUME TypeOK, RolesOK, NEW Q \in Layouts, Explains(Q), NEW t \in Producers \cup Stoppers,
         PublishSucceeds(t),
         NEW v, v = IF job[t] = "prefix" THEN Aside(Q, t) ELSE << >>
  PROVE  Leads(Q, t, << >>, v, Main(Q, t) \o List(Q))
<1>t. t \in Threads /\ OwnStep(t)
  BY OwnSteps, OneRole DEF Produce, Stop, Publish
<1>1. TypeOK'
  BY <1>t DEF TypeOK, PublishSucceeds, AfterPublish, Rebuilt, Link
<1> DEFINE a == Main(Q, t)
           b == Aside(Q, t)
           l == List(Q)
           c == a \o l
<1>3. /\ a \in Seq(Nodes) /\ Once(a) /\ MainOK(t, a)
      /\ b \in Seq(Nodes) /\ Once(b) /\ AsideOK(t, b)
      /\ \A n : ~(Member(a, n) /\ Member(b, n))
      /\ \A n : Member(a, n) \/ Member(b, n) =>
           n \in Nodes /\ Has(Q, n) /\ life[n] # "ready" /\ ~Member(List(Q), n)
  BY <1>t, ChainsAre
<1>4. /\ l \in Seq(Nodes) /\ Once(l) /\ Linked(next, l, head, NULL)
      /\ \A n : Member(l, n) => n \in Nodes /\ Has(Q, n) /\ life[n] # "ready"
  BY ListIs
<1>5. /\ c \in Seq(Nodes) /\ Once(c)
      /\ \A n : Member(c, n) <=> Member(a, n) \/ Member(l, n)
  BY <1>3, <1>4, Onces, Members
<1>6. /\ pc[t] = "cas" /\ head = expected[t] /\ head' = first[t]
      /\ pc'[t] = IF job[t] = "prefix" THEN "suffix" ELSE "idle"
      /\ op'[t] = IF job[t] = "prefix" THEN op[t] ELSE NULL
      /\ job[t] = "suffix" => next' = Rebuilt(op[t], next) /\ life' = [life EXCEPT ![op[t]] = "ready"]
      /\ job[t] # "suffix" => next' = next /\ life' = life
  BY <1>t DEF PublishSucceeds, AfterPublish, TypeOK
<1>7. /\ a # << >> /\ Linked(next, a, first[t], head)
      /\ job[t] = "push" => a = <<op[t]>>
  BY <1>3, <1>6 DEF MainOK, Publishing
<1>8. /\ job[t] \in {"push", "putback"} => b = << >>
      /\ job[t] = "suffix" => b = <<op[t]>> /\ Member(b, op[t]) /\ op[t] \in Nodes
      /\ job[t] = "prefix" => b # << >> /\ Linked(next, b, op[t], NULL)
  <2>1. /\ job[t] \in {"push", "putback"} => b = << >>
        /\ job[t] = "suffix" => b = <<op[t]>>
        /\ job[t] = "prefix" => b # << >> /\ Linked(next, b, op[t], NULL)
    BY <1>3, <1>6 DEF AsideOK, Publishing, HasRest
  <2>2. b = <<op[t]>> => Member(b, op[t])
    BY DEF Member
  <2> QED BY <1>3, <2>1, <2>2
<1>9. job[t] \in {"push", "putback", "suffix", "prefix"}
  BY <1>6 DEF RolesOK, ProducerOK, StopperOK
<1>10. /\ \A n \in Nodes : ~Member(b, n) => next'[n] = next[n] /\ life'[n] = life[n]
       /\ \A n \in Nodes : Member(b, n) /\ job[t] # "prefix" => next'[n] = NULL
       /\ job[t] = "prefix" => next' = next /\ life' = life
  <2>1. ASSUME job[t] = "suffix"
        PROVE  /\ next'[op[t]] = NULL
               /\ \A n \in Nodes : n # op[t] => next'[n] = next[n] /\ life'[n] = life[n]
    BY <1>6, <1>8, <2>1 DEF TypeOK, Rebuilt
  <2>2. job[t] = "suffix" => \A n \in Nodes : Member(b, n) <=> n = op[t]
    BY <1>8, Members
  <2>3. job[t] \in {"push", "putback"} => \A n \in Nodes : ~Member(b, n)
    BY <1>8, Members
  <2> QED BY <1>6, <1>9, <2>1, <2>2, <2>3
<1> HIDE DEF a, b, l
<1>11. Linked(next', c, head', NULL)
  <2>1. head = Entry(l, NULL, 1)
    BY <1>4 DEF Linked
  <2>2. Linked(next, c, first[t], NULL)
    BY <1>3, <1>4, <1>7, <2>1, LinkedParts
  <2> HIDE DEF c
  <2>3. \A n : Member(c, n) => next'[n] = next[n]
    BY <1>3, <1>4, <1>5, <1>10 DEF l
  <2> QED BY <1>5, <1>6, <2>2, <2>3, LinkedBasics
<1> HIDE DEF c
<1>12. RolesOK'
  <2>1. ASSUME t \in Producers PROVE Role(t)'
    <3>1. job[t] = "push"
      BY <1>6, <2>1 DEF RolesOK, ProducerOK
    <3> QED BY <1>6, <2>1, <3>1, OneRole DEF Role, ProducerOK
  <2>2. ASSUME t \in Stoppers PROVE Role(t)'
    BY <1>6, <1>10, <2>2, OneRole DEF Role, RolesOK, StopperOK
  <2>3. ASSUME NEW w \in (Producers \cup Stoppers) \ {t}, op[w] \in Nodes
        PROVE  life'[op[w]] = life[op[w]]
    <3>1. CASE job[t] # "suffix"
      BY <1>6, <3>1
    <3>2. CASE job[t] = "suffix"
      <4>1. t \in Stoppers /\ w \in Producers
        BY <1>6, <3>2, OneRole DEF RolesOK, ProducerOK
      <4>2. life[op[w]] = "pushed" /\ life[op[t]] = "closed"
        BY <1>8, <2>3, <3>2, <4>1, OneRole DEF RolesOK, ProducerOK, StopperOK
      <4> QED BY <1>6, <2>3, <3>2, <4>2 DEF TypeOK
    <3> QED BY <3>1, <3>2
  <2> QED BY <1>t, <2>1, <2>2, <2>3, RoleStep
<1>13. MainOK(t, << >>)' /\ AsideOK(t, v)'
  <2>1. CASE job[t] = "prefix"
    <3>1. /\ pc'[t] = "suffix" /\ op'[t] = op[t] /\ next' = next
          /\ v = b /\ b # << >> /\ Linked(next, b, op[t], NULL)
      BY <1>6, <1>8, <2>1 DEF b
    <3> QED BY <3>1 DEF MainOK, AsideOK, Publishing, HasRest
  <2>2. CASE job[t] # "prefix"
    <3>1. pc'[t] = "idle" /\ v = << >>
      BY <1>6, <2>2
    <3> QED BY <3>1 DEF MainOK, AsideOK, Publishing, HasRest
  <2> QED BY <2>1, <2>2
<1>14. \A w \in Stoppers : pc'[w] = "prefix" => ~Member(c, op'[w])
  <2> SUFFICES ASSUME NEW w \in Stoppers, pc'[w] = "prefix" PROVE ~Member(c, op'[w])
    OBVIOUS
  <2>1. w # t /\ t \in Producers /\ w \in Threads
    BY <1>6, OneRole
  <2>2. pc[w] = "prefix" /\ op'[w] = op[w]
    BY <1>t, <2>1 DEF OwnStep
  <2>3. ~Member(l, op[w]) /\ life[op[w]] = "closed"
    BY <2>2 DEF l, Explains, WithdrawnOK, RolesOK, StopperOK
  <2>4. a = <<op[t]>> /\ life[op[t]] = "pushed" /\ op[t] \in Nodes
    BY <1>6, <1>7, <2>1 DEF RolesOK, ProducerOK
  <2>5. ~Member(a, op[w])
    BY <2>3, <2>4, Members
  <2> QED BY <1>5, <2>2, <2>3, <2>5
<1> DEFINE New == {n \in Nodes : Member(<< >>, n) \/ Member(v, n) \/ Member(c, n)}
           Old == {n \in Nodes : \/ Member(Main(Q, t), n) \/ Member(Aside(Q, t), n)
                                 \/ Member(List(Q), n)}
<1>15. \A n : ~Member(<< >>, n)
  BY Members
<1>16. /\ v \in Seq(Nodes) /\ Once(v) /\ << >> \in Seq(Nodes) /\ Once(<< >>)
       /\ \A n : Member(v, n) <=> Member(b, n) /\ job[t] = "prefix"
  BY <1>3, <1>15, Onces DEF b
<1>17. /\ \A n : n \in New <=> n \in Nodes /\ (Member(v, n) \/ Member(c, n))
       /\ \A n : n \in Old <=> n \in Nodes /\ (Member(a, n) \/ Member(b, n) \/ Member(l, n))
  BY <1>15 DEF a, b, l
<1>18. \A n : /\ ~(Member(<< >>, n) /\ Member(v, n)) /\ ~(Member(<< >>, n) /\ Member(c, n))
              /\ ~(Member(v, n) /\ Member(c, n))
  BY <1>3, <1>5, <1>15, <1>16 DEF l
<1> HIDE DEF New, Old
<1>19. /\ \A n \in New \ Old : ~Has(Q, n)
       /\ \A n \in New : life'[n] # "ready"
       /\ \A n \in Old \ New : next'[n] = NULL
       /\ \A n \in Nodes \ (Old \cup New) : /\ next'[n] = next[n]
                                            /\ Has(Q, n) => life'[n] # "ready"
  <2>1. \A n \in Nodes : Has(Q, n) => life[n] # "ready"
    BY DEF Explains, ElementsOK
  <2>2. \A n \in Nodes : Member(c, n) => ~Member(b, n) /\ life[n] # "ready"
    BY <1>3, <1>4, <1>5 DEF l
  <2>3. \A n \in New : life'[n] # "ready"
    <3>1. \A n \in New : n \in Nodes /\ (Member(c, n) \/ (Member(b, n) /\ job[t] = "prefix"))
      BY <1>16, <1>17
    <3> QED BY <1>3, <1>10, <2>2, <3>1
  <2>4. \A n \in Old \ New : next'[n] = NULL
    <3>1. \A n \in Old \ New : n \in Nodes /\ Member(b, n) /\ job[t] # "prefix"
      BY <1>5, <1>16, <1>17
    <3> QED BY <1>10, <3>1
  <2>5. \A n \in New : n \in Old
    BY <1>5, <1>16, <1>17
  <2>6. \A n \in Nodes \ (Old \cup New) : /\ next'[n] = next[n]
                                          /\ Has(Q, n) => life'[n] # "ready"
    BY <1>10, <1>17, <2>1
  <2> QED BY <2>3, <2>4, <2>5, <2>6
<1>20. Laid(Q, t, << >>, v, c) \in Layouts /\ Explains(Laid(Q, t, << >>, v, c))'
  <2>1. New = {n \in Nodes : Member(<< >>, n) \/ Member(v, n) \/ Member(c, n)}
    BY DEF New
  <2>2. Old = {n \in Nodes : \/ Member(Main(Q, t), n) \/ Member(Aside(Q, t), n)
                             \/ Member(List(Q), n)}
    BY DEF Old
  <2> QED BY <1>t, <1>5, <1>11, <1>13, <1>14, <1>16, <1>18, <1>19, <2>1, <2>2, Step
<1> QED BY <1>1, <1>12, <1>20 DEF Leads, a, l, c

\* compare_exchange succeeds: the thread has what was the list.
LEMMA MoveAllStep ==
  ASSUME TypeOK, RolesOK, NEW Q \in Layouts, Explains(Q), NEW t \in Consumers,
         MoveAllSucceeds(t)
  PROVE  Leads(Q, t, List(Q), << >>, << >>) /\ Main(Q, t) = << >> /\ Aside(Q, t) = << >>
<1>t. t \in Threads /\ OwnStep(t)
  BY OwnSteps DEF Launch, Stop, MoveAll, Threads
<1>1. TypeOK'
  BY <1>t DEF TypeOK, MoveAllSucceeds, AfterMoveAll, Link
<1> DEFINE l == List(Q)
<1>2. /\ l \in Seq(Nodes) /\ Once(l) /\ Linked(next, l, head, NULL)
      /\ \A n : Member(l, n) => n \in Nodes /\ Has(Q, n) /\ life[n] # "ready"
  BY ListIs
<1>3. /\ pc[t] = "grab" /\ pc'[t] = AfterMoveAll(t) /\ rest'[t] = head /\ head' = NULL
      /\ AfterMoveAll(t) = "reverse" => prev'[t] = SENTINEL /\ last'[t] = head
      /\ next' = next /\ life' = life /\ op' = op
  BY <1>t DEF MoveAllSucceeds, TypeOK
<1>4. Main(Q, t) = << >> /\ Aside(Q, t) = << >>
  BY <1>t, <1>3, ChainsAre DEF MainOK, AsideOK
<1>5. AfterMoveAll(t) \in {"reverse", "walk", "scan", "prefix"}
  BY DEF AfterMoveAll
<1> HIDE DEF l
<1>6. MainOK(t, l)' /\ AsideOK(t, << >>)'
  <2>1. Linked(next', << >>, SENTINEL, SENTINEL)
    BY LinkedOne
  <2>2. MainOK(t, l)'
    BY <1>2, <1>3, <1>5 DEF MainOK, Publishing
  <2>3. AsideOK(t, << >>)'
    BY <1>3, <1>5, <2>1 DEF AsideOK, Publishing, HasRest
  <2> QED BY <2>2, <2>3
<1>7. RolesOK'
  <2>1. Role(t)'
    <3>1. t \notin Producers
      BY OneRole DEF Consumers
    <3>2. ASSUME t \in Launchers PROVE LauncherOK(t)'
      BY <1>3, <3>2 DEF LauncherOK, AfterMoveAll
    <3>3. ASSUME t \in Stoppers PROVE StopperOK(t)'
      BY <1>3, <3>3, OneRole DEF StopperOK, AfterMoveAll, RolesOK
    <3> QED BY <3>1, <3>2, <3>3 DEF Role
  <2> QED BY <1>t, <1>3, <2>1, RoleStep
<1> DEFINE New == {n \in Nodes : Member(l, n) \/ Member(<< >>, n) \/ Member(<< >>, n)}
           Old == {n \in Nodes : \/ Member(Main(Q, t), n) \/ Member(Aside(Q, t), n)
                                 \/ Member(List(Q), n)}
<1>8. \A n : ~Member(<< >>, n)
  BY Members
<1>9. New = Old /\ \A n \in New : Member(l, n)
  BY <1>4, <1>8 DEF l
<1>10. /\ \A n \in New : life'[n] # "ready"
       /\ \A n \in Nodes \ (Old \cup New) : /\ next'[n] = next[n]
                                            /\ Has(Q, n) => life'[n] # "ready"
  BY <1>2, <1>3, <1>9 DEF Explains, ElementsOK
<1>11. << >> \in Seq(Nodes) /\ Once(<< >>) /\ Linked(next', << >>, head', NULL)
  <2>1. Linked(next', << >>, NULL, NULL)
    BY LinkedOne
  <2> QED BY <1>3, <2>1, Onces
<1> HIDE DEF New, Old
<1>12. Laid(Q, t, l, << >>, << >>) \in Layouts /\ Explains(Laid(Q, t, l, << >>, << >>))'
  BY <1>t, <1>2, <1>6, <1>8, <1>9, <1>10, <1>11, Step DEF New, Old
<1> QED BY <1>1, <1>4, <1>7, <1>12 DEF Leads, l

\* The same as LocalStep, element by element.
LEMMA LocalMove ==
  ASSUME NEW Q \in Layouts, Explains(Q), NEW t \in Threads, OwnStep(t), head' = head,
         NEW u \in Seq(Nodes), NEW v \in Seq(Nodes), Once(u), Once(v),
         \A n : ~(Member(u, n) /\ Member(v, n)),
         \A n \in Nodes :
           LET old == Member(Main(Q, t), n) \/ Member(Aside(Q, t), n)
               new == Member(u, n) \/ Member(v, n)
           IN  /\ new => (old \/ ~Has(Q, n)) /\ life'[n] # "ready"
               /\ old /\ ~new => next'[n] = NULL
               /\ ~old /\ ~new => next'[n] = next[n] /\ (Has(Q, n) => life'[n] # "ready"),
         MainOK(t, u)', AsideOK(t, v)', pc'[t] # "prefix", TypeOK', RolesOK'
  PROVE  Leads(Q, t, u, v, List(Q))
<1> DEFINE New == {n \in Nodes : Member(u, n) \/ Member(v, n)}
           Old == {n \in Nodes : Member(Main(Q, t), n) \/ Member(Aside(Q, t), n)}
<1>1. /\ \A n \in New \ Old : ~Has(Q, n)
      /\ \A n \in New : life'[n] # "ready"
      /\ \A n \in Old \ New : next'[n] = NULL
      /\ \A n \in Nodes \ (Old \cup New) : /\ next'[n] = next[n]
                                           /\ Has(Q, n) => life'[n] # "ready"
  OBVIOUS
<1>2. New = {n \in Nodes : Member(u, n) \/ Member(v, n)}
  OBVIOUS
<1>3. Old = {n \in Nodes : Member(Main(Q, t), n) \/ Member(Aside(Q, t), n)}
  OBVIOUS
<1> HIDE DEF New, Old
<1>4. Laid(Q, t, u, v, List(Q)) \in Layouts /\ Explains(Laid(Q, t, u, v, List(Q)))'
  BY <1>1, <1>2, <1>3, LocalStep
<1> QED BY <1>4 DEF Leads

\* When there is nothing to go through, and the first element if there is.
LEMMA None ==
  ASSUME TypeOK, NEW Q \in Layouts, Explains(Q), NEW t \in Threads,
         pc[t] \in {"reverse", "walk", "complete", "scan", "prefix"}
  PROVE  Main(Q, t) = << >> <=> rest[t] = NULL
<1> DEFINE a == Main(Q, t)
<1>1. a \in Seq(Nodes) /\ Linked(next, a, rest[t], NULL) /\ \A n : Member(a, n) => n \in Nodes
  BY ChainsAre DEF MainOK
<1> HIDE DEF a
<1>2. a = << >> <=> rest[t] = NULL
  BY <1>1, LinkedBasics, OneRole
<1> QED BY <1>2 DEF a

LEMMA FirstOf ==
  ASSUME NEW a \in Seq(Nodes), Once(a), a # << >>, NEW f, Linked(next, a, f, NULL)
  PROVE  LET r == Tail(a)
         IN  /\ a = <<f>> \o r /\ r \in Seq(Nodes) /\ Once(r)
             /\ f \in Nodes /\ a[1] = f /\ <<f>> \in Seq(Nodes)
             /\ Linked(next, r, next[f], NULL)
             /\ next[f] \in Nodes \cup {NULL}
             /\ r = << >> <=> next[f] = NULL
             /\ \A n : Member(a, n) <=> n = f \/ Member(r, n)
             /\ ~Member(r, f)
<1> DEFINE r == Tail(a)
           s == <<f>>
<1>1. /\ a = s \o r /\ r \in Seq(Nodes) /\ f \in Nodes /\ s \in Seq(Nodes)
      /\ Linked(next, r, next[f], NULL)
  BY LinkedHead
<1> HIDE DEF r
<1>2. a[1] = f
  BY LinkedBasics
<1>3. \A n : Member(s, n) <=> n = f
  BY <1>1, Members
<1> HIDE DEF s
<1>4. /\ Once(r) /\ \A n : ~(Member(s, n) /\ Member(r, n))
      /\ \A n : Member(a, n) <=> Member(s, n) \/ Member(r, n)
  <2>1. \A p, q \in Seq(Nodes) :
          /\ Once(p \o q) <=> Once(p) /\ Once(q) /\ \A n : ~(Member(p, n) /\ Member(q, n))
          /\ \A n : Member(p \o q, n) <=> Member(p, n) \/ Member(q, n)
    BY Onces, Members
  <2>2. /\ Once(s \o r) <=> Once(s) /\ Once(r) /\ \A n : ~(Member(s, n) /\ Member(r, n))
        /\ \A n : Member(s \o r, n) <=> Member(s, n) \/ Member(r, n)
    BY <1>1, <2>1, Zenon
  <2> QED BY <1>1, <2>2, Zenon
<1>5. next[f] \in Nodes \cup {NULL} /\ (r = << >> <=> next[f] = NULL)
  <2>1. r # << >> => Member(r, next[f])
    BY <1>1, LinkedBasics
  <2>2. r = << >> => next[f] = NULL
    BY <1>1, LinkedBasics
  <2>3. \A n : Member(r, n) => n \in Nodes
    BY <1>1 DEF Member
  <2> QED BY <2>1, <2>2, <2>3, OneRole
<1> QED BY <1>1, <1>2, <1>3, <1>4, <1>5 DEF r, s

LEMMA First ==
  ASSUME TypeOK, NEW Q \in Layouts, Explains(Q), NEW t \in Threads,
         pc[t] \in {"reverse", "walk", "complete", "scan", "prefix"}, rest[t] # NULL
  PROVE  LET a == Main(Q, t)
             r == Tail(a)
         IN  /\ a # << >> /\ a = <<rest[t]>> \o r /\ r \in Seq(Nodes) /\ Once(r)
             /\ rest[t] \in Nodes /\ a[1] = rest[t] /\ <<rest[t]>> \in Seq(Nodes)
             /\ Linked(next, r, next[rest[t]], NULL)
             /\ next[rest[t]] \in Nodes \cup {NULL}
             /\ \A n : Member(a, n) <=> n = rest[t] \/ Member(r, n)
             /\ ~Member(r, rest[t])
<1> DEFINE a == Main(Q, t)
<1>1. a \in Seq(Nodes) /\ Once(a) /\ Linked(next, a, rest[t], NULL)
  BY ChainsAre DEF MainOK
<1>2. a # << >>
  BY None
<1> HIDE DEF a
<1> QED BY <1>1, <1>2, FirstOf DEF a

\* The last element of a chain.
LEMMA LinkedEnd ==
  ASSUME NEW S, NEW q \in Seq(S), q # << >>, NEW l, NEW f, NEW e, Linked(l, q, f, e)
  PROVE  l[q[Len(q)]] = e /\ Last(q) = q[Len(q)]
<1>1. Len(q) \in 1 .. Len(q)
  OBVIOUS
<1> QED BY <1>1 DEF Linked, Entry, Last

\* make_fifo() turns one link round.
LEMMA ReverseStepStep ==
  ASSUME TypeOK, RolesOK, NEW Q \in Layouts, Explains(Q), NEW t \in Launchers, ReverseStep(t)
  PROVE  /\ Leads(Q, t, Tail(Main(Q, t)), <<Main(Q, t)[1]>> \o Aside(Q, t), List(Q))
         /\ Main(Q, t) # << >>
<1>t. t \in Threads /\ OwnStep(t)
  BY OwnSteps, OneRole DEF Launch
<1> DEFINE a == Main(Q, t)
           b == Aside(Q, t)
           u == Tail(a)
           x == a[1]
           v == <<x>> \o b
<1>1. /\ pc[t] = "reverse" /\ pc'[t] = "reverse" /\ rest[t] # NULL
      /\ next' = [next EXCEPT ![rest[t]] = prev[t]]
      /\ prev'[t] = rest[t] /\ rest'[t] = next[rest[t]]
      /\ head' = head /\ life' = life /\ pc' = pc /\ last' = last /\ op' = op
  BY <1>t DEF ReverseStep, TypeOK
<1>2. /\ a \in Seq(Nodes) /\ b \in Seq(Nodes) /\ Once(b) /\ AsideOK(t, b)
      /\ \A n : ~(Member(a, n) /\ Member(b, n))
      /\ \A n : Member(a, n) \/ Member(b, n) =>
           n \in Nodes /\ Has(Q, n) /\ life[n] # "ready" /\ ~Member(List(Q), n)
  BY <1>t, ChainsAre
<1>3. /\ a # << >> /\ a = <<x>> \o u /\ u \in Seq(Nodes) /\ Once(u)
      /\ x \in Nodes /\ x = rest[t] /\ <<x>> \in Seq(Nodes)
      /\ Linked(next, u, next[x], NULL) /\ next[x] \in Nodes \cup {NULL}
      /\ \A n : Member(a, n) <=> n = x \/ Member(u, n)
      /\ ~Member(u, x)
  BY <1>t, <1>1, First
<1>4. Linked(next, b, prev[t], SENTINEL) /\ last[t] = IF b = << >> THEN x ELSE b[Len(b)]
  BY <1>1, <1>2, <1>3 DEF AsideOK
<1>5. TypeOK'
  BY <1>t, <1>3 DEF TypeOK, ReverseStep, Link
<1>6. RolesOK'
  <2>1. Role(t)'
    BY <1>1, OneRole DEF Role, RolesOK, LauncherOK
  <2> QED BY <1>t, <1>1, <2>1, RoleStep
<1>7. next'[x] = prev[t] /\ \A n \in Nodes : n # x => next'[n] = next[n]
  BY <1>1, <1>3 DEF TypeOK
<1> HIDE DEF a, b, u, x
<1>8. /\ v \in Seq(Nodes) /\ Once(v) /\ \A n : Member(v, n) <=> n = x \/ Member(b, n)
  <2>1. Once(<<x>>) /\ \A n : Member(<<x>>, n) <=> n = x
    BY <1>3, Onces, Members
  <2>2. \A n : Member(v, n) <=> Member(<<x>>, n) \/ Member(b, n)
    <3>1. <<x>> \in Seq(Nodes)
      BY <1>3
    <3>2. \A n : Member(<<x>> \o b, n) <=> Member(<<x>>, n) \/ Member(b, n)
      BY <1>2, <3>1, Members
    <3> QED BY <3>2 DEF v
  <2>3. \A n : ~(Member(<<x>>, n) /\ Member(b, n))
    BY <1>2, <1>3, <2>1
  <2>4. Once(v)
    BY <1>2, <1>3, <2>1, <2>3, Onces
  <2> QED BY <1>2, <1>3, <2>1, <2>2, <2>4
<1>9. Linked(next', u, next[x], NULL) /\ Linked(next', b, prev[t], SENTINEL)
  <2>1. \A n : Member(u, n) \/ Member(b, n) => next'[n] = next[n]
    BY <1>2, <1>3, <1>7
  <2> QED BY <1>2, <1>3, <1>4, <2>1, LinkedBasics
<1>10. Linked(next', v, x, SENTINEL)
  <2>1. Entry(b, SENTINEL, 1) = prev[t]
    BY <1>9 DEF Linked
  <2>2. Linked(next', <<x>>, x, prev[t])
    BY <1>7, LinkedOne
  <2> DEFINE s == <<x>>
  <2>3. /\ Linked(next', s, x, Entry(b, SENTINEL, 1))
        /\ Linked(next', b, Entry(b, SENTINEL, 1), SENTINEL) /\ s \in Seq(Nodes)
    BY <1>3, <1>9, <2>1, <2>2
  <2> HIDE DEF s
  <2>4. Linked(next', s \o b, x, SENTINEL)
    BY <1>2, <2>3, LinkedParts
  <2> QED BY <2>4 DEF s
<1>11. v # << >> /\ v[Len(v)] = last[t]
  <2>1. Len(v) = Len(b) + 1 /\ v # << >>
    BY <1>2, <1>3
  <2>2. CASE b = << >>
    <3>1. v = <<x>>
      BY <1>3, <2>2
    <3> QED BY <1>4, <2>2, <3>1
  <2>3. CASE b # << >>
    <3>1. Len(b) \in 1 .. Len(b) /\ Len(<<x>>) = 1
      BY <1>2, <2>3
    <3>2. v[1 + Len(b)] = b[Len(b)]
      BY <1>2, <1>3, <3>1
    <3> QED BY <1>2, <1>4, <2>1, <2>3, <3>2
  <2> QED BY <2>1, <2>2, <2>3
<1> HIDE DEF v
<1>12. MainOK(t, u)' /\ AsideOK(t, v)'
  <2>1. MainOK(t, u)'
    BY <1>1, <1>3, <1>9 DEF MainOK, Publishing
  <2>2. AsideOK(t, v)'
    BY <1>1, <1>3, <1>10, <1>11 DEF AsideOK, Publishing, HasRest
  <2> QED BY <2>1, <2>2
<1>13. \A n : ~(Member(u, n) /\ Member(v, n))
  BY <1>2, <1>3, <1>8
<1>14. ASSUME NEW n \in Nodes
       PROVE  LET old == Member(Main(Q, t), n) \/ Member(Aside(Q, t), n)
                  new == Member(u, n) \/ Member(v, n)
              IN  /\ new => (old \/ ~Has(Q, n)) /\ life'[n] # "ready"
                  /\ old /\ ~new => next'[n] = NULL
                  /\ ~old /\ ~new => next'[n] = next[n] /\ (Has(Q, n) => life'[n] # "ready")
  <2>1. Member(u, n) \/ Member(v, n) <=> Member(a, n) \/ Member(b, n)
    BY <1>3, <1>8
  <2>2. n # x \/ Member(a, n)
    BY <1>3
  <2>3. Has(Q, n) => life[n] # "ready"
    BY DEF Explains, ElementsOK
  <2> QED BY <1>1, <1>2, <1>7, <2>1, <2>2, <2>3 DEF a, b
<1>15. Leads(Q, t, u, v, List(Q))
  BY <1>t, <1>1, <1>3, <1>5, <1>6, <1>8, <1>12, <1>13, <1>14, LocalMove
<1> QED BY <1>3, <1>15 DEF a, b, u, x, v

\* make_fifo() ends: what is turned round is what there is to go through.
LEMMA ReverseEndStep ==
  ASSUME TypeOK, RolesOK, NEW Q \in Layouts, Explains(Q), NEW t \in Launchers, ReverseEnd(t)
  PROVE  Leads(Q, t, Aside(Q, t), << >>, List(Q)) /\ Main(Q, t) = << >>
<1>t. t \in Threads /\ OwnStep(t)
  BY OwnSteps, OneRole DEF Launch
<1> DEFINE a == Main(Q, t)
           b == Aside(Q, t)
           z == b[Len(b)]
<1>1. /\ pc[t] = "reverse" /\ pc'[t] = "walk" /\ rest[t] = NULL
      /\ last[t] = NULL => next' = next /\ rest' = rest
      /\ last[t] # NULL => next' = [next EXCEPT ![last[t]] = NULL] /\ rest'[t] = prev[t]
      /\ head' = head /\ life' = life /\ op' = op
  BY <1>t DEF ReverseEnd, CutTail, TypeOK
<1>2. /\ b \in Seq(Nodes) /\ Once(b) /\ AsideOK(t, b)
      /\ \A n : Member(a, n) \/ Member(b, n) =>
           n \in Nodes /\ Has(Q, n) /\ life[n] # "ready" /\ ~Member(List(Q), n)
  BY <1>t, ChainsAre
<1>3. a = << >>
  BY <1>t, <1>1, None
<1>4. Linked(next, b, prev[t], SENTINEL) /\ last[t] = IF b = << >> THEN NULL ELSE z
  BY <1>1, <1>2 DEF AsideOK
<1>5. b # << >> => Member(b, z) /\ z \in Nodes /\ z # NULL /\ prev[t] \in Nodes
  <2> SUFFICES ASSUME b # << >> PROVE Member(b, z) /\ z \in Nodes /\ z # NULL /\ prev[t] \in Nodes
    OBVIOUS
  <2>1. Len(b) \in 1 .. Len(b)
    BY <1>2
  <2>2. Member(b, z)
    BY <2>1 DEF Member
  <2>3. Member(b, prev[t])
    BY <1>2, <1>4, LinkedBasics
  <2> QED BY <1>2, <2>2, <2>3, OneRole
<1>6. TypeOK'
  BY <1>t, <1>4, <1>5 DEF TypeOK, ReverseEnd, CutTail, Link
<1>7. RolesOK'
  <2>1. Role(t)'
    BY <1>1, OneRole DEF Role, LauncherOK
  <2> QED BY <1>t, <1>1, <2>1, RoleStep
<1>8. /\ b = << >> => next' = next /\ rest'[t] = NULL
      /\ b # << >> => /\ rest'[t] = prev[t] /\ next'[z] = NULL
                      /\ \A n \in Nodes : n # z => next'[n] = next[n]
  BY <1>1, <1>4, <1>5 DEF TypeOK
<1> HIDE DEF a, b, z
<1>9. Linked(next', b, rest'[t], NULL)
  <2>1. CASE b = << >>
    BY <1>8, <2>1, LinkedOne
  <2>2. CASE b # << >>
    <3>1. \A n : Member(b, n) /\ n # z => next'[n] = next[n]
      BY <1>2, <1>8, <2>2
    <3>2. Linked(next', b, prev[t], NULL)
      BY <1>2, <1>4, <1>8, <2>2, <3>1, LinkedLast DEF z
    <3> QED BY <1>8, <2>2, <3>2
  <2> QED BY <2>1, <2>2
<1>10. MainOK(t, b)' /\ AsideOK(t, << >>)'
  BY <1>1, <1>9 DEF MainOK, AsideOK, Publishing, HasRest
<1>11. << >> \in Seq(Nodes) /\ Once(<< >>) /\ \A n : ~Member(<< >>, n)
  BY Onces, Members
<1>12. ASSUME NEW n \in Nodes
       PROVE  LET old == Member(Main(Q, t), n) \/ Member(Aside(Q, t), n)
                  new == Member(b, n) \/ Member(<< >>, n)
              IN  /\ new => (old \/ ~Has(Q, n)) /\ life'[n] # "ready"
                  /\ old /\ ~new => next'[n] = NULL
                  /\ ~old /\ ~new => next'[n] = next[n] /\ (Has(Q, n) => life'[n] # "ready")
  <2>1. Member(b, n) => Member(Aside(Q, t), n) /\ life'[n] # "ready"
    BY <1>1, <1>2 DEF b
  <2>2. Member(Main(Q, t), n) \/ Member(Aside(Q, t), n) => Member(b, n)
    BY <1>3, <1>11 DEF a, b
  <2>3. ~Member(b, n) => next'[n] = next[n] /\ (Has(Q, n) => life'[n] # "ready")
    BY <1>1, <1>5, <1>8 DEF Explains, ElementsOK
  <2> QED BY <1>11, <2>1, <2>2, <2>3
<1>13. Leads(Q, t, b, << >>, List(Q))
  BY <1>t, <1>1, <1>2, <1>6, <1>7, <1>10, <1>11, <1>12, LocalMove
<1> QED BY <1>3, <1>13 DEF a, b

\* The walk takes the next element.
LEMMA WalkNextStep ==
  ASSUME TypeOK, RolesOK, NEW Q \in Layouts, Explains(Q), NEW t \in Launchers, WalkNext(t)
  PROVE  /\ Leads(Q, t, Tail(Main(Q, t)), <<Main(Q, t)[1]>>, List(Q))
         /\ Main(Q, t) # << >>
<1>t. t \in Threads /\ OwnStep(t)
  BY OwnSteps, OneRole DEF Launch
<1> DEFINE a == Main(Q, t)
           b == Aside(Q, t)
           u == Tail(a)
           x == a[1]
           v == <<x>>
<1>1. /\ pc[t] = "walk" /\ pc'[t] = "complete" /\ rest[t] # NULL
      /\ rest'[t] = next[rest[t]] /\ op'[t] = rest[t]
      /\ head' = head /\ life' = life /\ next' = next
  BY <1>t DEF WalkNext, TypeOK
<1>2. /\ AsideOK(t, b)
      /\ \A n : Member(a, n) \/ Member(b, n) =>
           n \in Nodes /\ Has(Q, n) /\ life[n] # "ready" /\ ~Member(List(Q), n)
  BY <1>t, ChainsAre
<1>3. /\ a # << >> /\ u \in Seq(Nodes) /\ Once(u)
      /\ x \in Nodes /\ x = rest[t] /\ v \in Seq(Nodes)
      /\ Linked(next, u, next[x], NULL) /\ next[x] \in Nodes \cup {NULL}
      /\ \A n : Member(a, n) <=> n = x \/ Member(u, n)
      /\ ~Member(u, x)
  BY <1>t, <1>1, First
<1>4. b = << >>
  BY <1>1, <1>2 DEF AsideOK
<1>5. TypeOK'
  BY <1>t, <1>3 DEF TypeOK, WalkNext
<1>6. RolesOK'
  <2>1. Role(t)'
    BY <1>1, OneRole DEF Role, LauncherOK
  <2> QED BY <1>t, <1>1, <2>1, RoleStep
<1> HIDE DEF a, u, x
<1>7. Once(v) /\ \A n : Member(v, n) <=> n = x
  BY <1>3, Onces, Members
<1>8. MainOK(t, u)' /\ AsideOK(t, v)'
  BY <1>1, <1>3 DEF MainOK, AsideOK, Publishing, HasRest
<1> HIDE DEF b, v
<1>9. \A n : ~(Member(u, n) /\ Member(v, n))
  BY <1>3, <1>7
<1>10. ASSUME NEW n \in Nodes
       PROVE  LET old == Member(Main(Q, t), n) \/ Member(Aside(Q, t), n)
                  new == Member(u, n) \/ Member(v, n)
              IN  /\ new => (old \/ ~Has(Q, n)) /\ life'[n] # "ready"
                  /\ old /\ ~new => next'[n] = NULL
                  /\ ~old /\ ~new => next'[n] = next[n] /\ (Has(Q, n) => life'[n] # "ready")
  <2>1. Member(u, n) \/ Member(v, n) <=> Member(a, n)
    BY <1>3, <1>7
  <2>2. ~Member(b, n)
    BY <1>4, Members
  <2>3. Has(Q, n) => life[n] # "ready"
    BY DEF Explains, ElementsOK
  <2> QED BY <1>1, <1>2, <2>1, <2>2, <2>3 DEF a, b
<1>11. Leads(Q, t, u, v, List(Q))
  BY <1>t, <1>1, <1>3, <1>5, <1>6, <1>7, <1>8, <1>9, <1>10, LocalMove
<1> QED BY <1>3, <1>11 DEF a, u, x, v

\* What other threads have in their hands.
LEMMA Others ==
  ASSUME NEW Q \in Layouts, Explains(Q), NEW t \in Threads, NEW w \in Threads, w # t,
         NEW n, Member(Main(Q, w), n) \/ Member(Aside(Q, w), n)
  PROVE  ~Member(Main(Q, t), n) /\ ~Member(Aside(Q, t), n)
<1>1. /\ <<t, 1>> \in DOMAIN Q /\ <<t, 2>> \in DOMAIN Q
      /\ <<w, 1>> \in DOMAIN Q /\ <<w, 2>> \in DOMAIN Q
  BY PlacesAre
<1>2. /\ <<t, 1>> # <<w, 1>> /\ <<t, 1>> # <<w, 2>>
      /\ <<t, 2>> # <<w, 1>> /\ <<t, 2>> # <<w, 2>>
  OBVIOUS
<1> QED BY <1>1, <1>2 DEF Explains, Apart, Main, Aside

\* What a producer works on is what it has.
LEMMA ProducerHas ==
  ASSUME RolesOK, NEW Q \in Layouts, Explains(Q), NEW w \in Producers, op[w] # NULL
  PROVE  Main(Q, w) = <<op[w]>> /\ Member(Main(Q, w), op[w]) /\ life[op[w]] = "pushed"
<1>1. w \in Threads
  BY OneRole
<1>2. pc[w] \in {"link", "cas"} /\ job[w] = "push" /\ life[op[w]] = "pushed"
  BY DEF RolesOK, ProducerOK
<1>3. Main(Q, w) = <<op[w]>>
  BY <1>1, <1>2 DEF Explains, MainOK, Publishing
<1>4. Member(<<op[w]>>, op[w])
  BY DEF Member
<1> QED BY <1>2, <1>3, <1>4

\* The task completes; its element is free.
LEMMA CompleteStep ==
  ASSUME TypeOK, RolesOK, NEW Q \in Layouts, Explains(Q), NEW t \in Launchers, Complete(t)
  PROVE  Leads(Q, t, Main(Q, t), << >>, List(Q)) /\ Aside(Q, t) = <<op[t]>> /\ op[t] \in Nodes
<1>t. t \in Threads /\ OwnStep(t)
  BY OwnSteps, OneRole DEF Launch
<1> DEFINE a == Main(Q, t)
           b == Aside(Q, t)
<1>1. /\ pc[t] = "complete" /\ pc'[t] = "walk" /\ rest' = rest
      /\ life' = [life EXCEPT ![op[t]] = "ready"] /\ next' = [next EXCEPT ![op[t]] = NULL]
      /\ head' = head
  BY <1>t DEF Complete, TypeOK, Rebuilt
<1>2. /\ a \in Seq(Nodes) /\ Once(a) /\ MainOK(t, a) /\ AsideOK(t, b)
      /\ \A n : ~(Member(a, n) /\ Member(b, n))
      /\ \A n : Member(a, n) \/ Member(b, n) =>
           n \in Nodes /\ Has(Q, n) /\ life[n] # "ready" /\ ~Member(List(Q), n)
  BY <1>t, ChainsAre
<1>3. b = <<op[t]>> /\ Member(b, op[t])
  <2>1. b = <<op[t]>>
    BY <1>1, <1>2 DEF AsideOK
  <2> QED BY <2>1 DEF Member
<1>4. op[t] \in Nodes /\ \A n : Member(b, n) <=> n = op[t]
  BY <1>2, <1>3, Members
<1> HIDE DEF a, b
<1>5. /\ next'[op[t]] = NULL
      /\ \A n \in Nodes : n # op[t] => next'[n] = next[n] /\ life'[n] = life[n]
  BY <1>1, <1>4 DEF TypeOK
<1>6. TypeOK'
  BY <1>t DEF TypeOK, Complete, Rebuilt, Link
<1>7. RolesOK'
  <2>1. Role(t)'
    BY <1>1, OneRole DEF Role, LauncherOK
  <2>2. ASSUME NEW w \in (Producers \cup Stoppers) \ {t}, op[w] \in Nodes
        PROVE  life'[op[w]] = life[op[w]]
    <3>1. w \in Producers /\ w \in Threads /\ op[w] # NULL
      BY <2>2, OneRole
    <3>2. Member(Main(Q, w), op[w])
      BY <3>1, ProducerHas
    <3>3. ~Member(b, op[w])
      BY <1>t, <2>2, <3>1, <3>2, Others DEF b
    <3> QED BY <1>4, <1>5, <2>2, <3>3
  <2> QED BY <1>t, <2>1, <2>2, RoleStep
<1>8. MainOK(t, a)' /\ AsideOK(t, << >>)'
  <2>1. \A n : Member(a, n) => next'[n] = next[n]
    BY <1>2, <1>4, <1>5
  <2>2. Linked(next, a, rest[t], NULL)
    BY <1>1, <1>2 DEF MainOK
  <2>3. Linked(next', a, rest[t], NULL)
    BY <1>2, <2>1, <2>2, LinkedBasics
  <2> QED BY <1>1, <2>3 DEF MainOK, AsideOK, Publishing, HasRest
<1>9. << >> \in Seq(Nodes) /\ Once(<< >>) /\ \A n : ~Member(<< >>, n)
  BY Onces, Members
<1>10. ASSUME NEW n \in Nodes
       PROVE  LET old == Member(Main(Q, t), n) \/ Member(Aside(Q, t), n)
                  new == Member(a, n) \/ Member(<< >>, n)
              IN  /\ new => (old \/ ~Has(Q, n)) /\ life'[n] # "ready"
                  /\ old /\ ~new => next'[n] = NULL
                  /\ ~old /\ ~new => next'[n] = next[n] /\ (Has(Q, n) => life'[n] # "ready")
  <2>1. Has(Q, n) => life[n] # "ready"
    BY DEF Explains, ElementsOK
  <2>2. Member(a, n) => n # op[t]
    BY <1>2, <1>4
  <2>3. Member(b, n) <=> n = op[t]
    BY <1>4
  <2> QED BY <1>2, <1>5, <1>9, <2>1, <2>2, <2>3 DEF a, b
<1>11. Leads(Q, t, a, << >>, List(Q))
  <2>1. pc'[t] # "prefix"
    BY <1>1
  <2>2. \A n : ~(Member(a, n) /\ Member(<< >>, n))
    BY <1>9
  <2> QED BY <1>t, <1>1, <1>2, <1>6, <1>7, <1>8, <1>9, <1>10, <2>1, <2>2, LocalMove
<1> QED BY <1>3, <1>4, <1>11 DEF a, b

\* A cancel request is prepared: the element leaves, with no link.
LEMMA ScanNextStep ==
  ASSUME TypeOK, RolesOK, NEW Q \in Layouts, Explains(Q), NEW t \in Stoppers, ScanNext(t)
  PROVE  Leads(Q, t, Tail(Main(Q, t)), << >>, List(Q)) /\ Main(Q, t) # << >>
<1>t. t \in Threads /\ OwnStep(t)
  BY OwnSteps, OneRole DEF Stop
<1> DEFINE a == Main(Q, t)
           b == Aside(Q, t)
           u == Tail(a)
           x == a[1]
<1>1. /\ pc[t] = "scan" /\ pc' = pc /\ rest[t] # NULL
      /\ rest'[t] = next[rest[t]] /\ next' = [next EXCEPT ![rest[t]] = NULL]
      /\ head' = head /\ life' = life /\ op' = op /\ job' = job
  BY <1>t DEF ScanNext, ClearLink, TypeOK
<1>2. /\ AsideOK(t, b)
      /\ \A n : Member(a, n) \/ Member(b, n) =>
           n \in Nodes /\ Has(Q, n) /\ life[n] # "ready" /\ ~Member(List(Q), n)
  BY <1>t, ChainsAre
<1>3. /\ a # << >> /\ u \in Seq(Nodes) /\ Once(u)
      /\ x \in Nodes /\ x = rest[t]
      /\ Linked(next, u, next[x], NULL) /\ next[x] \in Nodes \cup {NULL}
      /\ \A n : Member(a, n) <=> n = x \/ Member(u, n)
      /\ ~Member(u, x)
  BY <1>t, <1>1, First
<1>4. b = << >>
  BY <1>1, <1>2 DEF AsideOK
<1>5. TypeOK'
  BY <1>t, <1>3 DEF TypeOK, ScanNext, ClearLink, Link
<1>6. RolesOK'
  <2>1. Role(t)'
    BY <1>1, OneRole DEF Role, StopperOK, RolesOK
  <2> QED BY <1>t, <1>1, <2>1, RoleStep
<1> HIDE DEF a, u, x
<1>7. next'[x] = NULL /\ \A n \in Nodes : n # x => next'[n] = next[n]
  BY <1>1, <1>3 DEF TypeOK
<1>8. MainOK(t, u)' /\ AsideOK(t, << >>)'
  <2>1. \A n : Member(u, n) => n # x /\ next'[n] = next[n]
    BY <1>2, <1>3, <1>7
  <2>2. Linked(next', u, next[x], NULL)
    BY <1>3, <2>1, LinkedBasics
  <2> QED BY <1>1, <1>3, <2>2 DEF MainOK, AsideOK, Publishing, HasRest
<1> HIDE DEF b
<1>9. << >> \in Seq(Nodes) /\ Once(<< >>) /\ \A n : ~Member(<< >>, n)
  BY Onces, Members
<1>10. ASSUME NEW n \in Nodes
       PROVE  LET old == Member(Main(Q, t), n) \/ Member(Aside(Q, t), n)
                  new == Member(u, n) \/ Member(<< >>, n)
              IN  /\ new => (old \/ ~Has(Q, n)) /\ life'[n] # "ready"
                  /\ old /\ ~new => next'[n] = NULL
                  /\ ~old /\ ~new => next'[n] = next[n] /\ (Has(Q, n) => life'[n] # "ready")
  <2>1. ~Member(b, n) /\ ~Member(<< >>, n)
    BY <1>4, <1>9
  <2>2. Has(Q, n) => life[n] # "ready"
    BY DEF Explains, ElementsOK
  <2> QED BY <1>1, <1>2, <1>3, <1>7, <2>1, <2>2 DEF a, b
<1>11. Leads(Q, t, u, << >>, List(Q))
  <2>1. \A n : ~(Member(u, n) /\ Member(<< >>, n))
    BY <1>9
  <2>2. pc'[t] # "prefix"
    BY <1>1
  <2> QED BY <1>t, <1>1, <1>3, <1>5, <1>6, <1>8, <1>9, <1>10, <2>1, <2>2, LocalMove
<1> QED BY <1>3, <1>11 DEF a, u

\* There is no sqe for the next one: what is left will be published.
LEMMA ScanFullStep ==
  ASSUME TypeOK, RolesOK, NEW Q \in Layouts, Explains(Q), NEW t \in Stoppers, ScanFull(t)
  PROVE  Leads(Q, t, Main(Q, t), Aside(Q, t), List(Q)) /\ Aside(Q, t) = << >>
<1>t. t \in Threads /\ OwnStep(t)
  BY OwnSteps, OneRole DEF Stop
<1> DEFINE a == Main(Q, t)
           b == Aside(Q, t)
<1>2. /\ a \in Seq(Nodes) /\ Once(a) /\ MainOK(t, a) /\ AsideOK(t, b)
      /\ \A n : Member(a, n) => n \in Nodes
  BY <1>t, ChainsAre
<1>3. pc[t] = "scan" /\ rest[t] # NULL /\ rest[t] \in Nodes
  BY <1>t DEF ScanFull, TypeOK
<1>4. a # << >> /\ Linked(next, a, rest[t], NULL) /\ b = << >>
  BY <1>t, <1>2, <1>3, None DEF MainOK, AsideOK
<1>5. Chain(rest[t]) = a
  BY <1>2, <1>3, <1>4, ChainIs, OneRole DEF Chain, TypeOK, Link
<1> HIDE DEF a, b
<1>6. next[a[Len(a)]] = NULL /\ Last(a) = a[Len(a)] /\ a[Len(a)] \in Nodes
  <2>1. Len(a) \in 1 .. Len(a)
    BY <1>2, <1>4
  <2> QED BY <1>2, <1>4, <2>1, LinkedEnd DEF Member
<1>7. /\ pc'[t] = "link" /\ job'[t] = "putback" /\ first'[t] = rest[t]
      /\ last'[t] = a[Len(a)] /\ op' = op /\ next' = next /\ life' = life /\ head' = head
  BY <1>t, <1>5, <1>6 DEF ScanFull, StartPublish, TypeOK
<1>8. TypeOK'
  BY <1>t, <1>5, <1>6 DEF ScanFull, StartPublish, TypeOK
<1>9. RolesOK'
  <2>1. Role(t)'
    BY <1>3, <1>7, OneRole DEF Role, StopperOK, RolesOK
  <2> QED BY <1>t, <1>7, <2>1, RoleStep
<1>10. MainOK(t, a)' /\ AsideOK(t, b)'
  BY <1>4, <1>6, <1>7 DEF MainOK, AsideOK, Publishing, HasRest
<1>11. Explains(Q)'
  <2>1. \A n \in Nodes : Has(Q, n) => life'[n] # "ready"
    BY <1>7 DEF Explains, ElementsOK
  <2>2. pc'[t] # "prefix"
    BY <1>7
  <2> QED BY <1>t, <1>7, <1>10, <2>1, <2>2, QuietStep DEF a, b
<1> QED BY <1>t, <1>4, <1>8, <1>9, <1>11, Same DEF b

\* The operation's callback is over: it will be withdrawn.
LEMMA UninstallStep ==
  ASSUME TypeOK, RolesOK, NEW Q \in Layouts, Explains(Q), NEW t \in Stoppers,
         NEW x \in Nodes, Uninstall(t, x)
  PROVE  Leads(Q, t, Main(Q, t), Aside(Q, t), List(Q))
<1>t. t \in Threads /\ OwnStep(t)
  BY OwnSteps, OneRole DEF Stop
<1>1. /\ pc[t] = "idle" /\ pc'[t] = "grab" /\ op'[t] = x /\ next' = next /\ head' = head
      /\ life' = [life EXCEPT ![x] = "closed"] /\ ~CallbackRunning(x)
  BY <1>t DEF Uninstall, TypeOK
<1>2. TypeOK'
  BY <1>t DEF Uninstall, TypeOK
<1>3. RolesOK'
  <2>1. Role(t)'
    BY <1>1, OneRole DEF Role, StopperOK, TypeOK
  <2>2. ASSUME NEW w \in (Producers \cup Stoppers) \ {t}, op[w] \in Nodes
        PROVE  life'[op[w]] = life[op[w]]
    <3>1. w \in Producers
      BY OneRole
    <3>2. op[w] # x
      BY <1>1, <3>1 DEF CallbackRunning
    <3> QED BY <1>1, <2>2, <3>2 DEF TypeOK
  <2> QED BY <1>t, <2>1, <2>2, RoleStep
<1> DEFINE a == Main(Q, t)
           b == Aside(Q, t)
<1>4. MainOK(t, a) /\ AsideOK(t, b)
  BY <1>t, ChainsAre
<1>5. a = << >> /\ b = << >>
  BY <1>1, <1>4 DEF MainOK, AsideOK
<1> HIDE DEF a, b
<1>6. MainOK(t, a)' /\ AsideOK(t, b)'
  BY <1>1, <1>5 DEF MainOK, AsideOK, Publishing, HasRest
<1>7. Explains(Q)'
  <2>1. \A n \in Nodes : Has(Q, n) => life'[n] # "ready"
    BY <1>1 DEF Explains, ElementsOK, TypeOK
  <2>2. pc'[t] # "prefix"
    BY <1>1
  <2> QED BY <1>t, <1>1, <1>6, <2>1, <2>2, QuietStep DEF a, b
<1> QED BY <1>t, <1>2, <1>3, <1>7, Same

\* An operation that is being withdrawn is nowhere but with its thread, or
\* on the list.
LEMMA Withdrawing ==
  ASSUME TypeOK, RolesOK, NEW Q \in Layouts, Explains(Q), NEW t \in Stoppers,
         op[t] # NULL, Has(Q, op[t])
  PROVE  Member(Main(Q, t), op[t]) \/ Member(Aside(Q, t), op[t]) \/ Member(List(Q), op[t])
<1>1. life[op[t]] = "closed" /\ t \in Threads
  BY OneRole DEF RolesOK, StopperOK
<1>2. PICK p \in Places : Member(Q[p], op[t])
  BY PlacesAre DEF Has
<1>3. PICK w \in Threads \cup {NULL}, i \in {1, 2} : p = <<w, i>>
  BY DEF Places
<1>4. CASE w = NULL
  <2>1. Q[<<NULL, 2>>] = << >> /\ ~Member(<< >>, op[t])
    BY Members DEF Explains, ListOK
  <2> QED BY <1>2, <1>3, <1>4, <2>1 DEF List
<1>5. CASE w \in Stoppers
  <2>1. w = t
    BY <1>5, OneRole
  <2> QED BY <1>2, <1>3, <2>1 DEF Main, Aside
<1>6. CASE w \in Producers
  <2>1. Member(Main(Q, w), op[t]) \/ Member(Aside(Q, w), op[t])
    BY <1>2, <1>3 DEF Main, Aside
  <2>2. ProducerOK(w) /\ MainOK(w, Main(Q, w)) /\ AsideOK(w, Aside(Q, w))
    BY <1>6, OneRole DEF RolesOK, Explains
  <2>3. /\ \/ Main(Q, w) = << >>
           \/ Main(Q, w) = <<op[w]>> /\ op[w] \in Nodes /\ life[op[w]] = "pushed"
        /\ Aside(Q, w) = << >>
    <3>1. CASE pc[w] = "idle"
      <4>1. Main(Q, w) = << >>
        BY <2>2, <3>1 DEF MainOK
      <4>2. Aside(Q, w) = << >>
        BY <2>2, <3>1 DEF AsideOK
      <4> QED BY <4>1, <4>2
    <3>2. CASE pc[w] # "idle"
      <4>1. pc[w] \in {"link", "cas"} /\ job[w] = "push" /\ op[w] \in Nodes /\ life[op[w]] = "pushed"
        BY <2>2, <3>2 DEF ProducerOK
      <4> QED BY <2>2, <4>1 DEF MainOK, AsideOK, Publishing
    <3> QED BY <3>1, <3>2
  <2>4. Main(Q, w) = <<op[w]>> /\ op[w] \in Nodes /\ life[op[w]] = "pushed" /\ op[t] = op[w]
    <3>1. ~Member(<< >>, op[t])
      BY Members
    <3>2. Main(Q, w) = <<op[w]>> /\ op[w] \in Nodes /\ life[op[w]] = "pushed"
      BY <2>1, <2>3, <3>1
    <3>3. Member(<<op[w]>>, op[t]) => op[t] = op[w]
      BY <3>2, Members
    <3> QED BY <2>1, <2>3, <3>1, <3>2, <3>3
  <2> QED BY <1>1, <2>4
<1>7. w \in Producers \cup Stoppers \cup {NULL}
  BY OneRole
<1> QED BY <1>4, <1>5, <1>6, <1>7

\* The bucket was empty: nothing leads to the operation.
LEMMA UninstallEmptyStep ==
  ASSUME TypeOK, RolesOK, NEW Q \in Layouts, Explains(Q), NEW t \in Stoppers, UninstallEmpty(t)
  PROVE  Leads(Q, t, << >>, << >>, List(Q)) /\ Main(Q, t) = << >> /\ Aside(Q, t) = << >>
<1>t. t \in Threads /\ OwnStep(t)
  BY OwnSteps, OneRole DEF Stop
<1>1. /\ pc[t] = "prefix" /\ rest[t] = NULL /\ pc'[t] = "idle" /\ op'[t] = NULL /\ head' = head
      /\ life' = [life EXCEPT ![op[t]] = "ready"] /\ next' = [next EXCEPT ![op[t]] = NULL]
  BY <1>t DEF UninstallEmpty, Rebuilt, TypeOK
<1>2. op[t] \in Nodes /\ op[t] # NULL /\ life[op[t]] = "closed"
  BY <1>t, <1>1, OneRole DEF RolesOK, StopperOK, TypeOK
<1>3. Main(Q, t) = << >> /\ Aside(Q, t) = << >>
  BY <1>t, <1>1, None, ChainsAre DEF AsideOK
<1>4. << >> \in Seq(Nodes) /\ Once(<< >>) /\ \A n : ~Member(<< >>, n)
  BY Onces, Members
<1>5. ~Has(Q, op[t])
  BY <1>1, <1>2, <1>3, <1>4, Withdrawing DEF Explains, WithdrawnOK
<1>6. /\ next'[op[t]] = NULL /\ next[op[t]] = NULL
      /\ \A n \in Nodes : n # op[t] => next'[n] = next[n] /\ life'[n] = life[n]
  BY <1>1, <1>2, <1>5 DEF TypeOK, Explains, ElementsOK
<1>7. TypeOK'
  <2>1. /\ rest' = rest /\ prev' = prev /\ job' = job /\ expected' = expected
        /\ first' = first /\ last' = last
        /\ op' = [op EXCEPT ![t] = NULL] /\ pc' = [pc EXCEPT ![t] = "idle"]
    BY DEF UninstallEmpty
  <2>2. /\ next' \in [Nodes -> Link] /\ life' \in [Nodes -> {"ready", "pushed", "closed"}]
        /\ head' \in Nodes \cup {NULL}
    BY <1>1 DEF TypeOK, Link
  <2>3. /\ op' \in [Threads -> Nodes \cup {NULL}]
        /\ pc' \in [Threads -> {"idle", "link", "cas", "grab", "reverse", "walk",
                                "complete", "scan", "prefix", "suffix"}]
    BY <2>1 DEF TypeOK
  <2> QED BY <2>1, <2>2, <2>3 DEF TypeOK
<1>8. RolesOK'
  <2>1. Role(t)'
    BY <1>1, OneRole DEF Role, StopperOK
  <2>2. ASSUME NEW w \in (Producers \cup Stoppers) \ {t}, op[w] \in Nodes
        PROVE  life'[op[w]] = life[op[w]]
    <3>1. w \in Producers /\ op[w] # NULL
      BY <2>2, OneRole
    <3>2. life[op[w]] = "pushed"
      BY <3>1 DEF RolesOK, ProducerOK
    <3> QED BY <1>2, <1>6, <2>2, <3>2
  <2> QED BY <1>t, <2>1, <2>2, RoleStep
<1>9. MainOK(t, << >>)' /\ AsideOK(t, << >>)'
  BY <1>1 DEF MainOK, AsideOK, Publishing, HasRest
<1>10. ASSUME NEW n \in Nodes
       PROVE  LET old == Member(Main(Q, t), n) \/ Member(Aside(Q, t), n)
                  new == Member(<< >>, n) \/ Member(<< >>, n)
              IN  /\ new => (old \/ ~Has(Q, n)) /\ life'[n] # "ready"
                  /\ old /\ ~new => next'[n] = NULL
                  /\ ~old /\ ~new => next'[n] = next[n] /\ (Has(Q, n) => life'[n] # "ready")
  <2>1. Has(Q, n) => life[n] # "ready"
    BY DEF Explains, ElementsOK
  <2> QED BY <1>3, <1>4, <1>5, <1>6, <2>1
<1> QED BY <1>t, <1>1, <1>3, <1>4, <1>7, <1>8, <1>9, <1>10, LocalMove

\* The chain up to an element, and from there on.
LEMMA PrefixIs ==
  ASSUME NEW a \in Seq(Nodes), Once(a), NEW x
  PROVE  \E w \in Seq(Nodes) :
           LET u == Prefix(a, x)
           IN  /\ a = u \o w /\ u \in Seq(Nodes) /\ Once(u) /\ Once(w)
               /\ Len(u) = Before(a, x) /\ Len(w) = Len(a) - Len(u)
               /\ ~Member(u, x)
               /\ \A n : ~(Member(u, n) /\ Member(w, n))
               /\ \A n : Member(a, n) <=> Member(u, n) \/ Member(w, n)
               /\ w = << >> => ~Member(a, x) /\ u = a
               /\ w # << >> => w[1] = x /\ Member(w, x)
<1> DEFINE k == Before(a, x)
           u == Prefix(a, x)
           w == SubSeq(a, k + 1, Len(a))
<1>1. /\ k \in 0 .. Len(a) /\ \A i \in 1 .. k : a[i] # x
      /\ k # Len(a) => a[k + 1] = x
  BY BeforeIs
<1>2. u = SubSeq(a, 1, k)
  BY DEF Prefix
<1> HIDE DEF k, u
<1>3. /\ a = u \o w /\ u \in Seq(Nodes) /\ w \in Seq(Nodes)
      /\ Len(u) = k /\ Len(w) = Len(a) - k
  BY <1>1, <1>2, Parts
<1>4. \A i \in 1 .. k : u[i] = a[i]
  BY <1>1, <1>2
<1>5. k # Len(a) => w[1] = a[k + 1]
  BY <1>1
<1> HIDE DEF w
<1>6. ~Member(u, x)
  BY <1>1, <1>3, <1>4 DEF Member
<1>7. w # << >> => w[1] = x /\ Member(w, x)
  <2> SUFFICES ASSUME w # << >> PROVE w[1] = x /\ Member(w, x)
    OBVIOUS
  <2>1. Len(w) >= 1
    BY <1>3
  <2>2. k # Len(a)
    BY <1>1, <1>3, <2>1
  <2>3. 1 \in 1 .. Len(w) /\ w[1] = x
    BY <1>1, <1>3, <1>5, <2>1, <2>2
  <2> QED BY <2>3 DEF Member
<1>8. w = << >> => u = a
  BY <1>3
<1>9. /\ Once(u) /\ Once(w) /\ \A n : ~(Member(u, n) /\ Member(w, n))
      /\ \A n : Member(a, n) <=> Member(u, n) \/ Member(w, n)
  <2>1. \A p, q \in Seq(Nodes) :
          /\ Once(p \o q) <=> Once(p) /\ Once(q) /\ \A n : ~(Member(p, n) /\ Member(q, n))
          /\ \A n : Member(p \o q, n) <=> Member(p, n) \/ Member(q, n)
    BY Onces, Members
  <2>2. /\ Once(u \o w) <=> Once(u) /\ Once(w) /\ \A n : ~(Member(u, n) /\ Member(w, n))
        /\ \A n : Member(u \o w, n) <=> Member(u, n) \/ Member(w, n)
    BY <1>3, <2>1, Zenon
  <2> QED BY <1>3, <2>2, Zenon
<1> QED BY <1>3, <1>6, <1>7, <1>8, <1>9 DEF k, u

\* What comes before the operation will be published; the operation, with
\* what comes after it, is aside.
LEMMA PushPrefixStep ==
  ASSUME TypeOK, RolesOK, NEW Q \in Layouts, Explains(Q), NEW t \in Stoppers, PushPrefix(t)
  PROVE  \E u, v \in Seq(Nodes) :
           /\ Leads(Q, t, u, v, List(Q))
           /\ u = Prefix(Main(Q, t), op[t])
           /\ \/ Member(Main(Q, t), op[t]) /\ Main(Q, t) = u \o v
              \/ ~Member(Main(Q, t), op[t]) /\ Main(Q, t) = u /\ v = <<op[t]>>
           /\ v # << >> /\ v[1] = op[t]
           /\ pc'[t] = IF u = << >> THEN "suffix" ELSE "link"
           /\ u # << >> => job'[t] = "prefix"
<1>t. t \in Threads /\ OwnStep(t)
  BY OwnSteps, OneRole DEF Stop
<1> DEFINE a == Main(Q, t)
<1>1. pc[t] = "prefix" /\ rest[t] # NULL /\ rest[t] \in Nodes
  BY <1>t DEF PushPrefix, TypeOK
<1>2. op[t] \in Nodes /\ life[op[t]] = "closed" /\ op[t] # NULL
  BY <1>t, <1>1, OneRole DEF RolesOK, StopperOK, TypeOK
<1>3. /\ a \in Seq(Nodes) /\ Once(a) /\ a # << >> /\ Linked(next, a, rest[t], NULL)
      /\ \A n : Member(a, n) =>
           n \in Nodes /\ Has(Q, n) /\ life[n] # "ready" /\ ~Member(List(Q), n)
      /\ Aside(Q, t) = << >>
  <2>1. MainOK(t, a) /\ AsideOK(t, Aside(Q, t))
    BY <1>t, ChainsAre
  <2> QED BY <1>t, <1>1, <2>1, None, ChainsAre DEF MainOK, AsideOK
<1>4. Chain(rest[t]) = a
  BY <1>1, <1>3, ChainIs, OneRole DEF Chain, TypeOK, Link
<1> HIDE DEF a
<1>p. PICK x \in Nodes : x = op[t]
  BY <1>2
<1> DEFINE u == Prefix(a, x)
<1>w. PICK w \in Seq(Nodes) :
               /\ a = u \o w /\ u \in Seq(Nodes) /\ Once(u) /\ Once(w)
               /\ ~Member(u, x)
               /\ \A n : ~(Member(u, n) /\ Member(w, n))
               /\ \A n : Member(a, n) <=> Member(u, n) \/ Member(w, n)
               /\ w = << >> => ~Member(a, x) /\ u = a
               /\ w # << >> => w[1] = x /\ Member(w, x)
  BY <1>3, PrefixIs
<1> HIDE DEF u
<1>v. PICK v : v = IF w = << >> THEN <<x>> ELSE w
  OBVIOUS
<1>9. Linked(next, u, rest[t], Entry(w, NULL, 1)) /\ Linked(next, w, Entry(w, NULL, 1), NULL)
  <2>1. Linked(next, u \o w, rest[t], NULL)
    BY <1>3, <1>w
  <2> QED BY <1>w, <2>1, LinkedParts
<1>10. w = << >> => ~Has(Q, x) /\ next[x] = NULL
  <2> SUFFICES ASSUME w = << >> PROVE ~Has(Q, x) /\ next[x] = NULL
    OBVIOUS
  <2>1. ~Member(a, x)
    BY <1>w
  <2>2. ~Member(Aside(Q, t), x) /\ ~Member(List(Q), x)
    BY <1>1, <1>3, <1>p, Members DEF Explains, WithdrawnOK
  <2>3. ~Has(Q, x)
    BY <1>2, <1>p, <2>1, <2>2, Withdrawing DEF a
  <2> QED BY <2>3 DEF Explains, ElementsOK
<1>11. /\ v \in Seq(Nodes) /\ v # << >> /\ v[1] = x /\ Once(v) /\ Linked(next, v, x, NULL)
       /\ \A n : Member(v, n) <=> Member(w, n) \/ n = x
       /\ w = << >> => v = <<x>>
       /\ w # << >> => v = w
  <2>1. CASE w = << >>
    <3>1. v = <<x>>
      BY <1>v, <2>1
    <3>2. Once(<<x>>) /\ (\A n : Member(<<x>>, n) <=> n = x) /\ <<x>> \in Seq(Nodes)
      BY Members, Onces
    <3>3. Linked(next, <<x>>, x, NULL)
      BY <1>10, <2>1, LinkedOne
    <3>4. \A n : ~Member(w, n)
      BY <2>1, Members
    <3> QED BY <2>1, <3>1, <3>2, <3>3, <3>4
  <2>2. CASE w # << >>
    <3>1. v = w /\ w[1] = x
      BY <1>v, <1>w, <2>2
    <3>2. Entry(w, NULL, 1) = x
      BY <1>w, <2>2 DEF Entry
    <3> QED BY <1>w, <1>9, <2>2, <3>1, <3>2
  <2> QED BY <2>1, <2>2
<1>12. u # << >> => /\ Last(u) = u[Len(u)] /\ next[Last(u)] = Entry(w, NULL, 1)
                    /\ Last(u) \in Nodes
  <2> SUFFICES ASSUME u # << >>
               PROVE  /\ Last(u) = u[Len(u)] /\ next[Last(u)] = Entry(w, NULL, 1)
                      /\ Last(u) \in Nodes
    OBVIOUS
  <2>0. u \in Seq(Nodes)
    BY <1>w
  <2>1. Len(u) \in 1 .. Len(u)
    BY <2>0
  <2>2. u[Len(u)] \in Nodes
    BY <2>0, <2>1
  <2>3. next[u[Len(u)]] = Entry(w, NULL, 1) /\ Last(u) = u[Len(u)]
    BY <1>9, <2>0, LinkedEnd
  <2> QED BY <2>2, <2>3
<1>13. /\ next' = next /\ life' = life /\ head' = head /\ op' = op /\ prev' = prev
       /\ expected' \in [Threads -> Nodes \cup {NULL}]
       /\ rest' = [rest EXCEPT ![t] = NULL]
       /\ \/ u = << >> /\ pc' = [pc EXCEPT ![t] = "suffix"]
                       /\ job' = job /\ first' = first /\ last' = last
          \/ u # << >> /\ pc' = [pc EXCEPT ![t] = "link"] /\ job' = [job EXCEPT ![t] = "prefix"]
                       /\ first' = [first EXCEPT ![t] = rest[t]]
                       /\ last' = [last EXCEPT ![t] = Last(u)]
  <2>1. Prefix(Chain(rest[t]), op[t]) = u
    BY <1>4, <1>p DEF u
  <2>2. CASE u = << >>
    BY <2>1, <2>2 DEF PushPrefix, TypeOK
  <2>3. CASE u # << >>
    BY <2>1, <2>3 DEF PushPrefix, StartPublish, TypeOK
  <2> QED BY <2>2, <2>3
<1>13a. /\ pc'[t] = IF u = << >> THEN "suffix" ELSE "link"
        /\ u # << >> => job'[t] = "prefix" /\ first'[t] = rest[t] /\ last'[t] = Last(u)
  BY <1>t, <1>13 DEF TypeOK
<1>14. TypeOK'
  <2>1. /\ pc' \in [Threads -> {"idle", "link", "cas", "grab", "reverse", "walk",
                                 "complete", "scan", "prefix", "suffix"}]
        /\ job' \in [Threads -> {"none", "push", "prefix", "suffix", "putback"}]
    BY <1>13 DEF TypeOK
  <2>2. first' \in [Threads -> Nodes \cup {NULL}] /\ last' \in [Threads -> Nodes \cup {NULL}]
    BY <1>1, <1>12, <1>13 DEF TypeOK
  <2>3. rest' \in [Threads -> Nodes \cup {NULL}] /\ expected' \in [Threads -> Nodes \cup {NULL}]
    BY <1>13 DEF TypeOK
  <2> QED BY <1>13, <2>1, <2>2, <2>3 DEF TypeOK
<1>15. RolesOK'
  <2>1. Role(t)'
    BY <1>1, <1>13, <1>13a, OneRole DEF Role, StopperOK, RolesOK
  <2> QED BY <1>t, <1>13, <2>1, RoleStep
<1>16. MainOK(t, u)' /\ AsideOK(t, v)'
  <2>1. CASE u = << >>
    BY <1>11, <1>13, <1>13a, <1>p, <2>1 DEF MainOK, AsideOK, Publishing, HasRest
  <2>2. CASE u # << >>
    <3>1. Linked(next, u, rest[t], next[Last(u)])
      BY <1>9, <1>12, <2>2
    <3> QED BY <1>11, <1>12, <1>13, <1>13a, <1>p, <2>2, <3>1 DEF MainOK, AsideOK, Publishing, HasRest
  <2> QED BY <2>1, <2>2
<1>17. ASSUME NEW n \in Nodes
       PROVE  LET old == Member(Main(Q, t), n) \/ Member(Aside(Q, t), n)
                  new == Member(u, n) \/ Member(v, n)
              IN  /\ new => (old \/ ~Has(Q, n)) /\ life'[n] # "ready"
                  /\ old /\ ~new => next'[n] = NULL
                  /\ ~old /\ ~new => next'[n] = next[n] /\ (Has(Q, n) => life'[n] # "ready")
  <2>1. Has(Q, n) => life[n] # "ready"
    BY DEF Explains, ElementsOK
  <2>2. ~Member(Aside(Q, t), n)
    BY <1>3, Members
  <2>3. n = x => Member(w, n) \/ ~Has(Q, n)
    BY <1>10, <1>w
  <2>4. Member(v, n) => Member(w, n) \/ n = x
    BY <1>11
  <2>5. Member(w, n) => Member(v, n)
    BY <1>11
  <2>6. (Member(u, n) \/ Member(w, n) <=> Member(a, n)) /\ life[x] = "closed"
    BY <1>2, <1>p, <1>w
  <2>7. life'[n] = life[n] /\ next'[n] = next[n]
    BY <1>13
  <2> QED BY <1>3, <2>1, <2>2, <2>3, <2>4, <2>5, <2>6, <2>7 DEF a
<1>18. \A n : ~(Member(u, n) /\ Member(v, n))
  BY <1>w, <1>11
<1>19. Leads(Q, t, u, v, List(Q))
  <2>1. pc'[t] # "prefix"
    BY <1>13a
  <2>2. u \in Seq(Nodes) /\ Once(u) /\ v \in Seq(Nodes) /\ Once(v) /\ head' = head
    BY <1>w, <1>11, <1>13
  <2> QED BY <1>t, <1>14, <1>15, <1>16, <1>17, <1>18, <2>1, <2>2, LocalMove
<1>20. \/ Member(a, op[t]) /\ a = u \o v
       \/ ~Member(a, op[t]) /\ a = u /\ v = <<op[t]>>
  BY <1>p, <1>w, <1>11
<1>21. u \in Seq(Nodes) /\ v \in Seq(Nodes) /\ u = Prefix(a, op[t]) /\ v # << >> /\ v[1] = op[t]
  BY <1>p, <1>w, <1>11 DEF u
<1> QED BY <1>13a, <1>19, <1>20, <1>21, Zenon DEF a

\* What comes after the operation will be published.
LEMMA PushSuffixStep ==
  ASSUME TypeOK, RolesOK, NEW Q \in Layouts, Explains(Q), NEW t \in Stoppers, PushSuffix(t)
  PROVE  /\ Leads(Q, t, Tail(Aside(Q, t)), <<Aside(Q, t)[1]>>, List(Q))
         /\ Aside(Q, t) # << >> /\ Main(Q, t) = << >>
<1>t. t \in Threads /\ OwnStep(t)
  BY OwnSteps, OneRole DEF Stop
<1> DEFINE a == Main(Q, t)
           b == Aside(Q, t)
           u == Tail(b)
           x == b[1]
           v == <<x>>
<1>1. pc[t] = "suffix" /\ next[op[t]] # NULL
  BY DEF PushSuffix
<1>2. /\ b \in Seq(Nodes) /\ Once(b) /\ b # << >> /\ Linked(next, b, op[t], NULL) /\ a = << >>
      /\ \A n : Member(b, n) => n \in Nodes /\ Has(Q, n) /\ life[n] # "ready"
  <2>1. MainOK(t, a) /\ AsideOK(t, b)
    BY <1>t, ChainsAre
  <2>2. b # << >> /\ Linked(next, b, op[t], NULL) /\ a = << >>
    BY <1>1, <2>1 DEF MainOK, AsideOK, HasRest
  <2> QED BY <1>t, <2>2, ChainsAre
<1>3. /\ u \in Seq(Nodes) /\ Once(u) /\ x \in Nodes /\ x = op[t] /\ v \in Seq(Nodes)
      /\ Linked(next, u, next[x], NULL) /\ next[x] \in Nodes \cup {NULL}
      /\ u = << >> <=> next[x] = NULL
      /\ \A n : Member(b, n) <=> n = x \/ Member(u, n)
      /\ ~Member(u, x)
  <2> HIDE DEF b
  <2> QED BY <1>2, FirstOf
<1> HIDE DEF a, b, u, x
<1>4. u # << >> /\ next[x] \in Nodes
  BY <1>1, <1>3
<1>5. Chain(next[op[t]]) = u
  <2>1. next \in [Nodes -> Link] /\ next[x] \in Link /\ NULL \in Link \ Nodes
    BY <1>3, OneRole DEF TypeOK, Link
  <2>2. Chain(next[x]) = u
    BY <1>3, <2>1, ChainIs DEF Chain
  <2> QED BY <1>3, <2>2
<1>6. next[u[Len(u)]] = NULL /\ Last(u) = u[Len(u)] /\ u[Len(u)] \in Nodes
  <2>1. Len(u) \in 1 .. Len(u)
    BY <1>3, <1>4
  <2>2. u[Len(u)] \in Nodes
    BY <1>3, <2>1
  <2> QED BY <1>3, <1>4, <2>2, LinkedEnd
<1>7. /\ pc'[t] = "link" /\ job'[t] = "suffix" /\ first'[t] = next[x]
      /\ last'[t] = u[Len(u)] /\ op' = op /\ next' = next /\ life' = life /\ head' = head
  BY <1>t, <1>3, <1>5, <1>6 DEF PushSuffix, StartPublish, TypeOK
<1>8. TypeOK'
  <2>1. next[op[t]] \in Nodes /\ Last(Chain(next[op[t]])) \in Nodes
    BY <1>3, <1>4, <1>5, <1>6
  <2> QED BY <1>t, <2>1 DEF PushSuffix, StartPublish, TypeOK
<1>9. RolesOK'
  <2>1. Role(t)'
    BY <1>1, <1>7, OneRole DEF Role, StopperOK, RolesOK
  <2> QED BY <1>t, <1>7, <2>1, RoleStep
<1>10. MainOK(t, u)' /\ AsideOK(t, v)'
  BY <1>3, <1>4, <1>6, <1>7 DEF MainOK, AsideOK, Publishing, HasRest
<1>11. Once(v) /\ \A n : Member(v, n) <=> n = x
  BY <1>3, Onces, Members
<1> HIDE DEF v
<1>12. ASSUME NEW n \in Nodes
       PROVE  LET old == Member(Main(Q, t), n) \/ Member(Aside(Q, t), n)
                  new == Member(u, n) \/ Member(v, n)
              IN  /\ new => (old \/ ~Has(Q, n)) /\ life'[n] # "ready"
                  /\ old /\ ~new => next'[n] = NULL
                  /\ ~old /\ ~new => next'[n] = next[n] /\ (Has(Q, n) => life'[n] # "ready")
  <2>1. Has(Q, n) => life[n] # "ready"
    BY DEF Explains, ElementsOK
  <2>2. ~Member(a, n)
    BY <1>2, Members
  <2>3. Member(b, n) <=> Member(u, n) \/ Member(v, n)
    BY <1>3, <1>11
  <2> QED BY <1>2, <1>7, <2>1, <2>2, <2>3 DEF a, b
<1>13. Leads(Q, t, u, v, List(Q))
  <2>1. pc'[t] # "prefix"
    BY <1>7
  <2>2. \A n : ~(Member(u, n) /\ Member(v, n))
    BY <1>3, <1>11
  <2> QED BY <1>t, <1>3, <1>7, <1>8, <1>9, <1>10, <1>11, <1>12, <2>1, <2>2, LocalMove
<1> QED BY <1>2, <1>13 DEF a, b, u, v, x

\* Nothing comes after the operation: it is free.
LEMMA UninstallEndStep ==
  ASSUME TypeOK, RolesOK, NEW Q \in Layouts, Explains(Q), NEW t \in Stoppers, UninstallEnd(t)
  PROVE  Leads(Q, t, << >>, << >>, List(Q)) /\ Aside(Q, t) = <<op[t]>> /\ Main(Q, t) = << >>
<1>t. t \in Threads /\ OwnStep(t)
  BY OwnSteps, OneRole DEF Stop
<1> DEFINE a == Main(Q, t)
           b == Aside(Q, t)
           u == Tail(b)
<1>1. /\ pc[t] = "suffix" /\ next[op[t]] = NULL /\ pc'[t] = "idle" /\ op'[t] = NULL
      /\ head' = head /\ next' = next /\ life' = [life EXCEPT ![op[t]] = "ready"]
  BY <1>t DEF UninstallEnd, TypeOK
<1>2. /\ b \in Seq(Nodes) /\ Once(b) /\ b # << >> /\ Linked(next, b, op[t], NULL) /\ a = << >>
  <2>1. MainOK(t, a) /\ AsideOK(t, b)
    BY <1>t, ChainsAre
  <2>2. b # << >> /\ Linked(next, b, op[t], NULL) /\ a = << >>
    BY <1>1, <2>1 DEF MainOK, AsideOK, HasRest
  <2> QED BY <1>t, <2>2, ChainsAre
<1>3. /\ op[t] \in Nodes /\ u = << >> /\ b = <<op[t]>> \o u
      /\ \A n : Member(b, n) <=> n = op[t] \/ Member(u, n)
  <2> HIDE DEF b
  <2> QED BY <1>1, <1>2, FirstOf
<1>4. << >> \in Seq(Nodes) /\ Once(<< >>) /\ \A n : ~Member(<< >>, n)
  BY Onces, Members
<1> HIDE DEF a, b, u
<1>5. b = <<op[t]>> /\ \A n : Member(b, n) <=> n = op[t]
  BY <1>3, <1>4
<1>6. \A n \in Nodes : n # op[t] => life'[n] = life[n]
  BY <1>1, <1>3 DEF TypeOK
<1>7. TypeOK'
  <2>1. /\ rest' = rest /\ prev' = prev /\ job' = job /\ expected' = expected
        /\ first' = first /\ last' = last
        /\ op' = [op EXCEPT ![t] = NULL] /\ pc' = [pc EXCEPT ![t] = "idle"]
    BY DEF UninstallEnd
  <2>2. /\ next' \in [Nodes -> Link] /\ life' \in [Nodes -> {"ready", "pushed", "closed"}]
        /\ head' \in Nodes \cup {NULL}
    BY <1>1 DEF TypeOK, Link
  <2>3. /\ op' \in [Threads -> Nodes \cup {NULL}]
        /\ pc' \in [Threads -> {"idle", "link", "cas", "grab", "reverse", "walk",
                                "complete", "scan", "prefix", "suffix"}]
    BY <2>1 DEF TypeOK
  <2> QED BY <2>1, <2>2, <2>3 DEF TypeOK
<1>8. RolesOK'
  <2>1. Role(t)'
    BY <1>1, OneRole DEF Role, StopperOK
  <2>2. ASSUME NEW w \in (Producers \cup Stoppers) \ {t}, op[w] \in Nodes
        PROVE  life'[op[w]] = life[op[w]]
    <3>1. w \in Producers /\ op[w] # NULL
      BY <2>2, OneRole
    <3>2. life[op[w]] = "pushed"
      BY <3>1 DEF RolesOK, ProducerOK
    <3>3. life[op[t]] = "closed"
      BY <1>1, <1>3, OneRole DEF RolesOK, StopperOK
    <3> QED BY <1>6, <2>2, <3>2, <3>3
  <2> QED BY <1>t, <2>1, <2>2, RoleStep
<1>9. MainOK(t, << >>)' /\ AsideOK(t, << >>)'
  BY <1>1 DEF MainOK, AsideOK, Publishing, HasRest
<1>10. ASSUME NEW n \in Nodes
       PROVE  LET old == Member(Main(Q, t), n) \/ Member(Aside(Q, t), n)
                  new == Member(<< >>, n) \/ Member(<< >>, n)
              IN  /\ new => (old \/ ~Has(Q, n)) /\ life'[n] # "ready"
                  /\ old /\ ~new => next'[n] = NULL
                  /\ ~old /\ ~new => next'[n] = next[n] /\ (Has(Q, n) => life'[n] # "ready")
  <2>1. Has(Q, n) => life[n] # "ready"
    BY DEF Explains, ElementsOK
  <2>2. (Member(a, n) \/ Member(b, n)) <=> n = op[t]
    BY <1>2, <1>4, <1>5
  <2> QED BY <1>1, <1>4, <1>6, <2>1, <2>2 DEF a, b
<1>11. Leads(Q, t, << >>, << >>, List(Q))
  <2>1. pc'[t] # "prefix"
    BY <1>1
  <2>2. \A n : ~(Member(<< >>, n) /\ Member(<< >>, n))
    BY <1>4
  <2> QED BY <1>t, <1>1, <1>4, <1>7, <1>8, <1>9, <1>10, <2>1, <2>2, LocalMove
<1> QED BY <1>2, <1>5, <1>11 DEF a, b

-----------------------------------------------------------------------------
(* The invariant, and what it says of the model's operators.               *)

LEMMA InitIInv == Init => IInv
<1> SUFFICES ASSUME Init PROVE IInv
  OBVIOUS
<1>1. TypeOK /\ RolesOK
  BY OneRole DEF Init, TypeOK, RolesOK, ProducerOK, LauncherOK, StopperOK, Link
<1> DEFINE Q == [p \in Places |-> << >>]
<1>2. Q \in Layouts /\ DOMAIN Q = Places /\ \A p \in Places : Q[p] = << >>
  BY DEF Layouts
<1> HIDE DEF Q
<1>3. /\ List(Q) = << >> /\ Q[<<NULL, 2>>] = << >>
      /\ \A t \in Threads : Main(Q, t) = << >> /\ Aside(Q, t) = << >>
  BY <1>2, PlacesAre DEF List, Main, Aside
<1>4. (\A n : ~Member(<< >>, n)) /\ Once(<< >>)
  BY Members, Onces
<1>5. Apart(Q) /\ \A n : ~Has(Q, n)
  BY <1>2, <1>4 DEF Apart, Has
<1>6. ASSUME NEW t \in Threads PROVE MainOK(t, << >>) /\ AsideOK(t, << >>)
  <2>1. pc[t] = "idle"
    BY DEF Init
  <2> QED BY <2>1 DEF MainOK, AsideOK, Publishing, HasRest
<1>7. ListOK(Q)
  <2>1. Linked(next, << >>, NULL, NULL)
    BY LinkedOne
  <2> QED BY <1>3, <2>1 DEF ListOK, Init
<1>8. ElementsOK(Q) /\ WithdrawnOK(Q)
  BY <1>3, <1>4, <1>5 DEF ElementsOK, WithdrawnOK, Init
<1> QED BY <1>1, <1>2, <1>3, <1>5, <1>6, <1>7, <1>8 DEF IInv, Explains

LEMMA NextIInv == IInv /\ [Next]_vars => IInv'
<1> SUFFICES ASSUME IInv, [Next]_vars PROVE IInv'
  OBVIOUS
<1>1. TypeOK /\ RolesOK
  BY DEF IInv
<1>2. PICK Q \in Layouts : Explains(Q)
  BY DEF IInv
<1> DEFINE Led == \E t \in Threads, u, v, l \in Seq(Nodes) : Leads(Q, t, u, v, l)
<1>3. Led => IInv'
  BY DEF Leads, IInv
<1>4. \A t \in Threads : /\ Main(Q, t) \in Seq(Nodes) /\ Aside(Q, t) \in Seq(Nodes)
                         /\ List(Q) \in Seq(Nodes)
  BY PlacesAre
<1>5. << >> \in Seq(Nodes) /\ \A q \in Seq(Nodes) : q # << >> => /\ Tail(q) \in Seq(Nodes)
                                                                  /\ <<q[1]>> \in Seq(Nodes)
  OBVIOUS
<1>6. \A p, q \in Seq(Nodes) : p \o q \in Seq(Nodes)
  OBVIOUS
<1>7. UNCHANGED vars => IInv'
  BY <1>1, <1>2 DEF vars, locals, IInv, TypeOK, RolesOK, ProducerOK, LauncherOK, StopperOK,
     Explains, MainOK, AsideOK, Publishing, HasRest, ListOK, ElementsOK, WithdrawnOK
<1>8. ASSUME NEW t \in Producers \cup Stoppers, Publish(t) PROVE Led
  <2>t. t \in Threads /\ (Produce(t) \/ Launch(t) \/ Stop(t))
    BY <1>8, OneRole DEF Produce, Stop
  <2>1. CASE LinkLast(t)
    BY <1>1, <1>2, <1>4, <2>t, <2>1, LinkLastStep
  <2>2. CASE PublishFails(t)
    BY <1>1, <1>2, <1>4, <2>t, <2>2, QuietSteps
  <2>3. CASE PublishSucceeds(t)
    <3>1. PICK v : v = IF job[t] = "prefix" THEN Aside(Q, t) ELSE << >>
      OBVIOUS
    <3>2. Leads(Q, t, << >>, v, Main(Q, t) \o List(Q))
      BY <1>1, <1>2, <2>3, <3>1, PublishStep
    <3>3. v \in Seq(Nodes) /\ Main(Q, t) \o List(Q) \in Seq(Nodes)
      BY <1>4, <1>5, <1>6, <2>t, <3>1
    <3> QED BY <1>5, <2>t, <3>2, <3>3
  <2> QED BY <1>8, <2>1, <2>2, <2>3 DEF Publish
<1>9. ASSUME NEW t \in Consumers, MoveAll(t) PROVE Led
  <2>t. t \in Threads /\ (Produce(t) \/ Launch(t) \/ Stop(t))
    BY <1>9 DEF Threads, Launch
  <2>1. CASE MoveAllLoad(t) \/ MoveAllFails(t)
    BY <1>1, <1>2, <1>4, <2>t, <2>1, QuietSteps
  <2>2. CASE MoveAllSucceeds(t)
    BY <1>1, <1>2, <1>4, <1>5, <2>t, <2>2, MoveAllStep
  <2> QED BY <1>9, <2>1, <2>2 DEF MoveAll
<1>10. ASSUME NEW t \in Producers, Produce(t) PROVE Led
  <2>t. t \in Threads
    BY OneRole
  <2>1. ASSUME NEW n \in Nodes, Push(t, n) PROVE Led
    <3>1. <<n>> \in Seq(Nodes)
      OBVIOUS
    <3> QED BY <1>1, <1>2, <1>4, <1>5, <2>t, <2>1, <3>1, PushStep
  <2> QED BY <1>8, <1>10, <2>1 DEF Produce
<1>11. ASSUME NEW t \in Launchers, Launch(t) PROVE Led
  <2>t. t \in Threads /\ t \in Consumers
    BY OneRole DEF Consumers
  <2>1. CASE ReverseStep(t)
    <3>1. /\ Leads(Q, t, Tail(Main(Q, t)), <<Main(Q, t)[1]>> \o Aside(Q, t), List(Q))
          /\ Main(Q, t) # << >>
      BY <1>1, <1>2, <2>1, ReverseStepStep
    <3>2. <<Main(Q, t)[1]>> \o Aside(Q, t) \in Seq(Nodes) /\ Tail(Main(Q, t)) \in Seq(Nodes)
      BY <1>4, <1>5, <1>6, <2>t, <3>1
    <3> QED BY <1>4, <2>t, <3>1, <3>2
  <2>2. CASE ReverseEnd(t)
    BY <1>1, <1>2, <1>4, <1>5, <2>t, <2>2, ReverseEndStep
  <2>3. CASE WalkNext(t)
    <3>1. /\ Leads(Q, t, Tail(Main(Q, t)), <<Main(Q, t)[1]>>, List(Q))
          /\ Main(Q, t) # << >>
      BY <1>1, <1>2, <2>3, WalkNextStep
    <3> QED BY <1>4, <1>5, <2>t, <3>1
  <2>4. CASE Complete(t)
    BY <1>1, <1>2, <1>4, <1>5, <2>t, <2>4, CompleteStep
  <2>5. CASE WalkEnd(t)
    BY <1>1, <1>2, <1>4, <1>11, <2>t, <2>5, QuietSteps
  <2> QED BY <1>9, <1>11, <2>t, <2>1, <2>2, <2>3, <2>4, <2>5 DEF Launch
<1>12. ASSUME NEW t \in Stoppers, Stop(t) PROVE Led
  <2>t. t \in Threads /\ t \in Consumers
    BY OneRole DEF Consumers
  <2>1. CASE ScanNext(t)
    <3>1. Leads(Q, t, Tail(Main(Q, t)), << >>, List(Q)) /\ Main(Q, t) # << >>
      BY <1>1, <1>2, <2>1, ScanNextStep
    <3> QED BY <1>4, <1>5, <2>t, <3>1
  <2>2. CASE ScanFull(t)
    BY <1>1, <1>2, <1>4, <2>t, <2>2, ScanFullStep
  <2>3. CASE ScanEnd(t)
    BY <1>1, <1>2, <1>4, <1>12, <2>t, <2>3, QuietSteps
  <2>4. ASSUME NEW x \in Nodes, Uninstall(t, x) PROVE Led
    BY <1>1, <1>2, <1>4, <2>t, <2>4, UninstallStep
  <2>5. CASE UninstallEmpty(t)
    BY <1>1, <1>2, <1>4, <1>5, <2>t, <2>5, UninstallEmptyStep
  <2>6. CASE PushPrefix(t)
    <3>1. \E u, v \in Seq(Nodes) : Leads(Q, t, u, v, List(Q))
      BY <1>1, <1>2, <2>6, PushPrefixStep
    <3> QED BY <1>4, <2>t, <3>1
  <2>7. CASE PushSuffix(t)
    <3>1. /\ Leads(Q, t, Tail(Aside(Q, t)), <<Aside(Q, t)[1]>>, List(Q))
          /\ Aside(Q, t) # << >>
      BY <1>1, <1>2, <2>7, PushSuffixStep
    <3> QED BY <1>4, <1>5, <2>t, <3>1
  <2>8. CASE UninstallEnd(t)
    BY <1>1, <1>2, <1>4, <1>5, <2>t, <2>8, UninstallEndStep
  <2> QED BY <1>8, <1>9, <1>12, <2>t, <2>1, <2>2, <2>3, <2>4, <2>5, <2>6, <2>7, <2>8 DEF Stop
<1> HIDE DEF Led
<1> QED BY <1>3, <1>7, <1>10, <1>11, <1>12 DEF Next

\* At every moment some layout of the elements explains all links.
THEOREM SpecIInv == Spec => []IInv
BY InitIInv, NextIInv, PTL DEF Spec

\* A link never leads to make_fifo()'s sentinel where the list, or a walk,
\* would follow it: type correctness rests on the whole invariant.
THEOREM SpecTypeOK == Spec => []TypeOK
<1>1. IInv => TypeOK
  BY DEF IInv
<1> QED BY <1>1, SpecIInv, PTL

\* What thread t has and still has to do, for its chains a and b.
HeldIs(t, a, b) ==
  CASE pc[t] = "reverse" -> Reverse(a) \o b
    [] pc[t] \in {"walk", "complete", "scan", "prefix"} -> a
    [] pc[t] = "suffix" -> Tail(b)
    [] Publishing(t) -> a \o (IF job[t] = "prefix" THEN Tail(b) ELSE << >>)
    [] OTHER -> << >>

\* The model's operators find the chains of a layout that explains the links.
Found(Q) == /\ Chain(head) = List(Q)
            /\ \A t \in Threads : Held(t) = HeldIs(t, Main(Q, t), Aside(Q, t))

LEMMA FindsChains ==
  ASSUME TypeOK, RolesOK, NEW Q \in Layouts, Explains(Q)
  PROVE  Found(Q)
<1>0. next \in [Nodes -> Link] /\ NULL \in Link /\ SENTINEL \in Link
      /\ NULL \notin Nodes /\ SENTINEL \notin Nodes
  BY OneRole DEF TypeOK, Link
<1>1. Chain(head) = List(Q)
  <2>1. /\ List(Q) \in Seq(Nodes) /\ Once(List(Q)) /\ Linked(next, List(Q), head, NULL)
        /\ head \in Link
    BY ListIs DEF TypeOK, Link
  <2> DEFINE l == List(Q)
  <2> HIDE DEF l
  <2>2. ChainIn(next, head) = l
    BY <1>0, <2>1, ChainIs DEF l
  <2> QED BY <2>2 DEF Chain, l
<1>2. ASSUME NEW t \in Threads PROVE Held(t) = HeldIs(t, Main(Q, t), Aside(Q, t))
  <2> DEFINE a == Main(Q, t)
             b == Aside(Q, t)
  <2>1. /\ a \in Seq(Nodes) /\ Once(a) /\ MainOK(t, a)
        /\ b \in Seq(Nodes) /\ Once(b) /\ AsideOK(t, b)
        /\ \A n : Member(a, n) => n \in Nodes
    BY ChainsAre
  <2>2. rest[t] \in Link /\ prev[t] \in Link /\ first[t] \in Link
    BY DEF TypeOK, Link
  <2> HIDE DEF a, b
  <2>3. ASSUME pc[t] \in {"reverse", "walk", "complete", "scan", "prefix"}
        PROVE  Chain(rest[t]) = a
    <3>1. Linked(next, a, rest[t], NULL)
      BY <2>1, <2>3 DEF MainOK
    <3> QED BY <1>0, <2>1, <2>2, <3>1, ChainIs DEF Chain
  <2>4. ASSUME pc[t] = "reverse" PROVE Chain(prev[t]) = b
    <3>1. Linked(next, b, prev[t], SENTINEL)
      BY <2>1, <2>4 DEF AsideOK
    <3> QED BY <1>0, <2>1, <2>2, <3>1, ChainIs DEF Chain
  <2>5. ASSUME HasRest(t) PROVE Chain(next[op[t]]) = Tail(b)
    <3>1. b # << >> /\ Linked(next, b, op[t], NULL)
      BY <2>1, <2>5 DEF AsideOK
    <3> DEFINE r == Tail(b)
    <3>2. /\ r \in Seq(Nodes) /\ Once(r) /\ Linked(next, r, next[op[t]], NULL)
          /\ next[op[t]] \in Nodes \cup {NULL}
      BY <2>1, <3>1, FirstOf
    <3> HIDE DEF r
    <3>3. next[op[t]] \in Link
      BY <1>0, <3>2 DEF Link
    <3>4. Chain(next[op[t]]) = r
      BY <1>0, <3>2, <3>3, ChainIs DEF Chain
    <3> QED BY <3>4 DEF r
  <2>6. ASSUME Publishing(t) PROVE Segment(first[t], last[t]) = a
    <3>1. a # << >> /\ last[t] = a[Len(a)] /\ Linked(next, a, first[t], next[last[t]])
      BY <2>1, <2>6 DEF MainOK
    <3>2. last[t] \in Nodes
      <4>1. Len(a) \in 1 .. Len(a)
        BY <2>1, <3>1
      <4> QED BY <2>1, <3>1, <4>1 DEF Member
    <3>3. next[last[t]] \in Link
      BY <1>0, <3>2
    <3> QED BY <1>0, <2>1, <2>2, <3>1, <3>3, SegmentIs
  <2>7. Held(t) = HeldIs(t, a, b)
    <3>1. CASE pc[t] = "reverse"
      BY <2>3, <2>4, <3>1 DEF Held, HeldIs, Publishing
    <3>2. CASE pc[t] \in {"walk", "complete", "scan", "prefix"}
      BY <2>3, <3>2 DEF Held, HeldIs, Publishing
    <3>3. CASE pc[t] = "suffix"
      BY <2>5, <3>3 DEF Held, HeldIs, HasRest, Publishing
    <3>4. CASE Publishing(t)
      BY <2>5, <2>6, <3>4 DEF Held, HeldIs, HasRest, Publishing
    <3>5. CASE pc[t] \notin {"reverse", "walk", "complete", "scan", "prefix", "suffix",
                             "link", "cas"}
      BY <3>5 DEF Held, HeldIs, Publishing
    <3> QED BY <3>1, <3>2, <3>3, <3>4, <3>5 DEF Publishing
  <2> QED BY <2>7 DEF a, b
<1> QED BY <1>1, <1>2 DEF Found

\* An element of a chain is in the range of the sequence, and the other way.
LEMMA RangeIs ==
  ASSUME NEW q \in Seq(Nodes)
  PROVE  /\ \A n : n \in Range(q) <=> Member(q, n)
         /\ Once(q) => IsInjective(q)
<1>1. DOMAIN q = 1 .. Len(q)
  OBVIOUS
<1> QED BY <1>1 DEF Range, Member, Once, IsInjective

\* What consumers hold, and the list, are places of the layout.
LEMMA HeldIn ==
  ASSUME TypeOK, RolesOK, NEW Q \in Layouts, Explains(Q), NEW t \in Consumers
  PROVE  /\ Held(t) \in Seq(Nodes) /\ Once(Held(t))
         /\ \A n : Member(Held(t), n) => Member(Main(Q, t), n) \/ Member(Aside(Q, t), n)
<1> DEFINE a == Main(Q, t)
           b == Aside(Q, t)
           r == Tail(b)
           h == HeldIs(t, a, b)
<1>1. /\ a \in Seq(Nodes) /\ Once(a) /\ b \in Seq(Nodes) /\ Once(b) /\ AsideOK(t, b)
      /\ \A n : ~(Member(a, n) /\ Member(b, n))
      /\ t \in Threads
  BY ChainsAre DEF Threads
<1>2. Held(t) = h
  BY <1>1, FindsChains DEF Found
<1>3. Reverse(a) \in Seq(Nodes) /\ Once(Reverse(a)) /\ \A n : Member(Reverse(a), n) <=> Member(a, n)
  <2> HIDE DEF a
  <2> DEFINE c == Reverse(a)
  <2>1. c \in Seq(Nodes) /\ Len(c) = Len(a) /\ \A i \in 1 .. Len(a) : c[i] = a[Len(a) - i + 1]
    BY <1>1 DEF Reverse
  <2> HIDE DEF c
  <2>2. \A i \in 1 .. Len(a) : Len(a) - i + 1 \in 1 .. Len(a) /\ a[i] = c[Len(a) - i + 1]
    <3> SUFFICES ASSUME NEW i \in 1 .. Len(a)
                 PROVE  Len(a) - i + 1 \in 1 .. Len(a) /\ a[i] = c[Len(a) - i + 1]
      OBVIOUS
    <3>1. Len(a) - i + 1 \in 1 .. Len(a) /\ Len(a) - (Len(a) - i + 1) + 1 = i
      BY <1>1
    <3> QED BY <2>1, <3>1
  <2>3. \A n : Member(c, n) <=> Member(a, n)
    <3>1. ASSUME NEW n, Member(c, n) PROVE Member(a, n)
      <4>1. PICK i \in 1 .. Len(a) : c[i] = n
        BY <2>1, <3>1 DEF Member
      <4>2. Len(a) - i + 1 \in 1 .. Len(a) /\ a[Len(a) - i + 1] = n
        BY <2>1, <2>2, <4>1
      <4> QED BY <4>2 DEF Member
    <3>2. ASSUME NEW n, Member(a, n) PROVE Member(c, n)
      <4>1. PICK i \in 1 .. Len(a) : a[i] = n
        BY <3>2 DEF Member
      <4>2. Len(a) - i + 1 \in 1 .. Len(c) /\ c[Len(a) - i + 1] = n
        BY <2>1, <2>2, <4>1
      <4> QED BY <4>2 DEF Member
    <3> QED BY <3>1, <3>2
  <2>4. Once(c)
    <3> SUFFICES ASSUME NEW i \in 1 .. Len(a), NEW j \in 1 .. Len(a), c[i] = c[j] PROVE i = j
      BY <2>1 DEF Once
    <3>1. Len(a) - i + 1 = Len(a) - j + 1
      <4>1. Len(a) - i + 1 \in 1 .. Len(a) /\ Len(a) - j + 1 \in 1 .. Len(a)
            /\ a[Len(a) - i + 1] = a[Len(a) - j + 1]
        BY <2>1, <2>2
      <4> QED BY <1>1, <4>1 DEF Once
    <3> QED BY <1>1, <3>1
  <2> QED BY <2>1, <2>3, <2>4 DEF c
<1>4. HasRest(t) => r \in Seq(Nodes) /\ Once(r) /\ \A n : Member(r, n) => Member(b, n)
  <2> SUFFICES ASSUME HasRest(t)
               PROVE  r \in Seq(Nodes) /\ Once(r) /\ \A n : Member(r, n) => Member(b, n)
    OBVIOUS
  <2>1. b # << >> /\ Linked(next, b, op[t], NULL)
    BY <1>1 DEF AsideOK
  <2> HIDE DEF b
  <2> QED BY <1>1, <2>1, FirstOf
<1>5. << >> \in Seq(Nodes) /\ Once(<< >>) /\ \A n : ~Member(<< >>, n)
  BY Onces, Members
<1>6. \A p, q \in Seq(Nodes) :
        /\ p \o q \in Seq(Nodes)
        /\ Once(p) /\ Once(q) /\ (\A n : ~(Member(p, n) /\ Member(q, n))) => Once(p \o q)
        /\ \A n : Member(p \o q, n) => Member(p, n) \/ Member(q, n)
  BY Onces, Members
<1>7. \A p \in Seq(Nodes) : p \o << >> = p
  OBVIOUS
<1> HIDE DEF a, b, r, h
<1>8. h \in Seq(Nodes) /\ Once(h) /\ \A n : Member(h, n) => Member(a, n) \/ Member(b, n)
  <2>1. CASE pc[t] = "reverse"
    <3>1. h = Reverse(a) \o b
      BY <2>1 DEF h, HeldIs, Publishing
    <3> DEFINE c == Reverse(a)
    <3>2. c \in Seq(Nodes) /\ Once(c) /\ \A n : Member(c, n) <=> Member(a, n)
      BY <1>3
    <3> HIDE DEF c
    <3>3. h = c \o b
      BY <3>1 DEF c
    <3> QED BY <1>1, <1>6, <3>2, <3>3
  <2>2. CASE pc[t] \in {"walk", "complete", "scan", "prefix"}
    <3>1. h = a
      BY <2>2 DEF h, HeldIs, Publishing
    <3> QED BY <1>1, <3>1
  <2>3. CASE pc[t] = "suffix"
    <3>1. h = r
      BY <2>3 DEF h, HeldIs, Publishing, r
    <3> QED BY <1>4, <2>3, <3>1 DEF HasRest
  <2>4. CASE Publishing(t) /\ job[t] = "prefix"
    <3>1. h = a \o r
      BY <2>4 DEF h, HeldIs, Publishing, r
    <3> QED BY <1>1, <1>4, <1>6, <2>4, <3>1 DEF HasRest
  <2>5. CASE Publishing(t) /\ job[t] # "prefix"
    <3>1. h = a \o << >>
      BY <2>5 DEF h, HeldIs, Publishing
    <3> QED BY <1>1, <1>7, <3>1
  <2>6. CASE pc[t] \notin {"reverse", "walk", "complete", "scan", "prefix", "suffix",
                           "link", "cas"}
    <3>1. h = << >>
      BY <2>6 DEF h, HeldIs, Publishing
    <3> QED BY <1>5, <3>1
  <2> QED BY <2>1, <2>2, <2>3, <2>4, <2>5, <2>6 DEF Publishing
<1> QED BY <1>2, <1>8 DEF a, b

\* An element is in one place at a time, and alive there.
LEMMA OwnedOnce == IInv => ExclusiveOwnership
<1> SUFFICES ASSUME IInv PROVE ExclusiveOwnership
  OBVIOUS
<1>1. TypeOK /\ RolesOK
  BY DEF IInv
<1>2. PICK Q \in Layouts : Explains(Q)
  BY DEF IInv
<1> DEFINE C == Consumers \cup {NULL}
           chains == [t \in C |-> IF t = NULL THEN Chain(head) ELSE Held(t)]
<1>3. Chain(head) = List(Q)
  BY <1>1, <1>2, FindsChains DEF Found
<1>4. ASSUME NEW t \in C
      PROVE  /\ chains[t] \in Seq(Nodes) /\ Once(chains[t])
             /\ \A n : Member(chains[t], n) =>
                  /\ n \in Nodes /\ Has(Q, n) /\ life[n] # "ready"
                  /\ IF t = NULL THEN Member(List(Q), n)
                     ELSE Member(Main(Q, t), n) \/ Member(Aside(Q, t), n)
  <2>1. CASE t = NULL
    BY <1>2, <1>3, <2>1, ListIs
  <2>2. CASE t # NULL
    <3>1. t \in Consumers /\ t \in Threads
      BY <2>2 DEF Threads
    <3>2. chains[t] = Held(t)
      BY <2>2
    <3>3. \A n : Member(Main(Q, t), n) \/ Member(Aside(Q, t), n) =>
            n \in Nodes /\ Has(Q, n) /\ life[n] # "ready"
      BY <1>2, <3>1, ChainsAre
    <3> QED BY <1>1, <1>2, <2>2, <3>1, <3>2, <3>3, HeldIn
  <2> QED BY <2>1, <2>2
<1> HIDE DEF chains, C
<1>5. ASSUME NEW t \in C, NEW n, Member(chains[t], n), NEW p \in Producers, op[p] = n
      PROVE  FALSE
  <2>1. n \in Nodes /\ p \in Threads /\ op[p] # NULL
    BY <1>4, <1>5, OneRole
  <2>2. Member(Main(Q, p), n)
    BY <1>1, <1>2, <1>5, <2>1, ProducerHas
  <2>3. CASE t = NULL
    <3>1. Member(List(Q), n)
      BY <1>4, <1>5, <2>3
    <3> QED BY <1>2, <2>1, <2>2, <3>1, ChainsAre
  <2>4. CASE t # NULL
    <3>1. t \in Threads /\ t # p
      BY <2>4, OneRole DEF C, Consumers
    <3>2. Member(Main(Q, t), n) \/ Member(Aside(Q, t), n)
      BY <1>4, <1>5, <2>4
    <3> QED BY <1>2, <2>1, <2>2, <3>1, <3>2, Others
  <2> QED BY <2>3, <2>4
<1>6. ASSUME NEW t \in C, NEW u \in C, t # u, NEW n, Member(chains[t], n), Member(chains[u], n)
      PROVE  FALSE
  <2>1. \A w \in C : w # NULL => w \in Threads
    BY DEF C, Threads
  <2>2. \A w \in C : Member(chains[w], n) =>
          IF w = NULL THEN Member(List(Q), n)
          ELSE Member(Main(Q, w), n) \/ Member(Aside(Q, w), n)
    BY <1>4
  <2>3. CASE t = NULL
    <3>1. u \in Threads /\ Member(List(Q), n) /\ (Member(Main(Q, u), n) \/ Member(Aside(Q, u), n))
      BY <1>6, <2>1, <2>2, <2>3
    <3> QED BY <1>2, <3>1, ChainsAre
  <2>4. CASE u = NULL
    <3>1. t \in Threads /\ Member(List(Q), n) /\ (Member(Main(Q, t), n) \/ Member(Aside(Q, t), n))
      BY <1>6, <2>1, <2>2, <2>4
    <3> QED BY <1>2, <3>1, ChainsAre
  <2>5. CASE t # NULL /\ u # NULL
    <3>1. /\ t \in Threads /\ (Member(Main(Q, t), n) \/ Member(Aside(Q, t), n))
          /\ u \in Threads /\ (Member(Main(Q, u), n) \/ Member(Aside(Q, u), n))
      BY <1>6, <2>1, <2>2, <2>5
    <3> QED BY <1>2, <1>6, <3>1, Others
  <2> QED BY <2>3, <2>4, <2>5
<1>7. \A t \in C : /\ IsInjective(chains[t])
                   /\ \A n : n \in Range(chains[t]) <=> Member(chains[t], n)
  BY <1>4, RangeIs
<1>8. /\ \A t \in C : /\ IsInjective(chains[t])
                      /\ \A n \in Range(chains[t]) :
                           /\ life[n] # "ready"
                           /\ \A p \in Producers : op[p] # n
      /\ \A t, u \in C : t # u => Range(chains[t]) \cap Range(chains[u]) = {}
  BY <1>4, <1>5, <1>6, <1>7
<1> QED BY <1>8 DEF ExclusiveOwnership, chains, C

\* Retries, giving back, withdrawing and reuse of an address never put an
\* element in two places, nor leave a destroyed one in any.
THEOREM SpecExclusiveOwnership == Spec => []ExclusiveOwnership
BY OwnedOnce, SpecIInv, PTL

\* An operation whose request was withdrawn is not on the list, although
\* everybody else's requests are put back in two pieces.
LEMMA WithdrawnLeft == IInv => WithdrawnIsGone
<1> SUFFICES ASSUME IInv, NEW t \in Stoppers, pc[t] = "suffix"
             PROVE  op[t] \notin Range(Chain(head))
  BY DEF WithdrawnIsGone
<1>1. TypeOK /\ RolesOK /\ t \in Threads
  BY OneRole DEF IInv
<1>2. PICK Q \in Layouts : Explains(Q)
  BY DEF IInv
<1>3. Chain(head) = List(Q) /\ List(Q) \in Seq(Nodes)
  BY <1>1, <1>2, FindsChains, ListIs DEF Found
<1> DEFINE b == Aside(Q, t)
<1>4. b \in Seq(Nodes) /\ AsideOK(t, b)
      /\ \A n : Member(b, n) => n \in Nodes /\ ~Member(List(Q), n)
  BY <1>1, <1>2, ChainsAre
<1> HIDE DEF b
<1>5. b # << >> /\ Linked(next, b, op[t], NULL)
  BY <1>4 DEF AsideOK, HasRest
<1>6. Member(b, op[t])
  BY <1>4, <1>5, LinkedBasics
<1>7. ~Member(List(Q), op[t])
  BY <1>4, <1>6
<1> QED BY <1>3, <1>7, RangeIs

\* uninstall_stoppable_callback() is sure that no cancellation will be
\* issued for its operation.
THEOREM SpecWithdrawnIsGone == Spec => []WithdrawnIsGone
BY WithdrawnLeft, SpecIInv, PTL

-----------------------------------------------------------------------------
(* Every operation acts at one instant.                                    *)

\* Taking sequences apart, turning them round, and removing an element.
LEMMA Pieces ==
  ASSUME NEW p \in Seq(Nodes), NEW q \in Seq(Nodes)
  PROVE  /\ SubSeq(p \o q, 1, Len(p)) = p
         /\ SubSeq(p \o q, Len(p) + 1, Len(p \o q)) = q
         /\ p \o << >> = p /\ << >> \o p = p
         /\ Len(p \o q) = Len(p) + Len(q) /\ p \o q \in Seq(Nodes)
<1> DEFINE c == p \o q
<1>1. /\ c \in Seq(Nodes) /\ Len(c) = Len(p) + Len(q)
      /\ \A i \in 1 .. Len(p) : c[i] = p[i]
      /\ \A i \in 1 .. Len(q) : c[Len(p) + i] = q[i]
      /\ Len(p) \in Nat /\ Len(q) \in Nat
  OBVIOUS
<1> HIDE DEF c
<1>2. SubSeq(c, 1, Len(p)) = p
  <2>1. /\ SubSeq(c, 1, Len(p)) \in Seq(Nodes) /\ Len(SubSeq(c, 1, Len(p))) = Len(p)
        /\ \A i \in 1 .. Len(p) : SubSeq(c, 1, Len(p))[i] = c[i]
    BY <1>1
  <2> QED BY <1>1, <2>1, SeqEqual
<1>3. SubSeq(c, Len(p) + 1, Len(c)) = q
  <2> DEFINE s == SubSeq(c, Len(p) + 1, Len(c))
  <2>1. /\ s \in Seq(Nodes) /\ Len(s) = Len(q)
        /\ \A i \in 1 .. Len(q) : s[i] = c[Len(p) + i]
    BY <1>1
  <2> HIDE DEF s
  <2>2. s = q
    BY <1>1, <2>1, SeqEqual
  <2> QED BY <2>2 DEF s
<1>4. p \o << >> = p /\ << >> \o p = p
  OBVIOUS
<1> QED BY <1>1, <1>2, <1>3, <1>4 DEF c

LEMMA Reversed ==
  ASSUME NEW x \in Nodes, NEW r \in Seq(Nodes), NEW b \in Seq(Nodes)
  PROVE  /\ Reverse(<<x>> \o r) \o b = Reverse(r) \o (<<x>> \o b)
         /\ Reverse(r) \in Seq(Nodes) /\ Reverse(<< >>) = << >>
<1> DEFINE a == <<x>> \o r
           s == Reverse(r)
           z == Reverse(a)
           y == <<x>> \o b
<1>1. /\ a \in Seq(Nodes) /\ Len(a) = Len(r) + 1 /\ a[1] = x
      /\ \A i \in 1 .. Len(r) : a[i + 1] = r[i]
      /\ Len(r) \in Nat
  OBVIOUS
<1>2. /\ y \in Seq(Nodes) /\ Len(y) = Len(b) + 1 /\ y[1] = x
      /\ \A i \in 1 .. Len(b) : y[i + 1] = b[i]
      /\ Len(b) \in Nat
  OBVIOUS
<1>3. /\ s \in Seq(Nodes) /\ Len(s) = Len(r)
      /\ \A i \in 1 .. Len(r) : s[i] = r[Len(r) - i + 1]
  BY DEF Reverse
<1> HIDE DEF a, y
<1>4. /\ z \in Seq(Nodes) /\ Len(z) = Len(r) + 1
      /\ \A i \in 1 .. Len(r) + 1 : z[i] = a[Len(a) - i + 1]
  BY <1>1 DEF Reverse
<1> HIDE DEF s, z
<1>5. /\ \A i \in 1 .. Len(r) : z[i] = s[i]
      /\ z[Len(r) + 1] = x
  <2>1. ASSUME NEW i \in 1 .. Len(r) PROVE z[i] = s[i]
    <3>1. Len(r) - i + 1 \in 1 .. Len(r) /\ Len(a) - i + 1 = (Len(r) - i + 1) + 1
          /\ i \in 1 .. Len(r) + 1
      BY <1>1
    <3>2. z[i] = a[(Len(r) - i + 1) + 1]
      BY <1>4, <3>1
    <3> QED BY <1>1, <1>3, <3>1, <3>2
  <2>2. z[Len(r) + 1] = a[1]
    <3>1. Len(r) + 1 \in 1 .. Len(r) + 1 /\ Len(a) - (Len(r) + 1) + 1 = 1
      BY <1>1
    <3> QED BY <1>4, <3>1
  <2> QED BY <1>1, <2>1, <2>2
<1> DEFINE c == z \o b
           d == s \o y
<1>6. /\ c \in Seq(Nodes) /\ Len(c) = Len(r) + 1 + Len(b)
      /\ \A i \in 1 .. Len(r) + 1 : c[i] = z[i]
      /\ \A i \in 1 .. Len(b) : c[Len(r) + 1 + i] = b[i]
  <2>1. z \in Seq(Nodes)
    BY <1>4
  <2>2. /\ c \in Seq(Nodes) /\ Len(c) = Len(z) + Len(b)
        /\ \A i \in 1 .. Len(z) : c[i] = z[i]
        /\ \A i \in 1 .. Len(b) : c[Len(z) + i] = b[i]
    BY <2>1
  <2> HIDE DEF c
  <2> QED BY <1>1, <1>2, <1>4, <2>2
<1>7. /\ d \in Seq(Nodes) /\ Len(d) = Len(r) + 1 + Len(b)
      /\ \A i \in 1 .. Len(r) : d[i] = s[i]
      /\ \A i \in 1 .. Len(b) + 1 : d[Len(r) + i] = y[i]
  <2>1. s \in Seq(Nodes) /\ y \in Seq(Nodes)
    BY <1>2, <1>3
  <2>2. /\ d \in Seq(Nodes) /\ Len(d) = Len(s) + Len(y)
        /\ \A i \in 1 .. Len(s) : d[i] = s[i]
        /\ \A i \in 1 .. Len(y) : d[Len(s) + i] = y[i]
    BY <2>1
  <2> HIDE DEF d
  <2> QED BY <1>1, <1>2, <1>3, <2>2
<1> HIDE DEF c, d
<1>8. ASSUME NEW i \in 1 .. Len(c) PROVE c[i] = d[i]
  <2>1. \/ i \in 1 .. Len(r) /\ i \in 1 .. Len(r) + 1
        \/ i = Len(r) + 1
        \/ \E j \in 1 .. Len(b) : i = Len(r) + 1 + j /\ i = Len(r) + (j + 1)
                                  /\ j + 1 \in 1 .. Len(b) + 1
    <3>1. i <= Len(r) => i \in 1 .. Len(r) /\ i \in 1 .. Len(r) + 1
      BY <1>1, <1>6
    <3>2. i > Len(r) + 1 =>
            \E j \in 1 .. Len(b) : i = Len(r) + 1 + j /\ i = Len(r) + (j + 1)
                                   /\ j + 1 \in 1 .. Len(b) + 1
      <4> SUFFICES ASSUME i > Len(r) + 1
                   PROVE  \E j \in 1 .. Len(b) : i = Len(r) + 1 + j /\ i = Len(r) + (j + 1)
                                                 /\ j + 1 \in 1 .. Len(b) + 1
        OBVIOUS
      <4>1. i - Len(r) - 1 \in 1 .. Len(b) /\ i = Len(r) + 1 + (i - Len(r) - 1)
            /\ i = Len(r) + ((i - Len(r) - 1) + 1)
            /\ (i - Len(r) - 1) + 1 \in 1 .. Len(b) + 1
        BY <1>1, <1>2, <1>6
      <4> QED BY <4>1
    <3> QED BY <1>1, <1>6, <3>1, <3>2
  <2>2. CASE i \in 1 .. Len(r) /\ i \in 1 .. Len(r) + 1
    BY <1>5, <1>6, <1>7, <2>2
  <2>3. CASE i = Len(r) + 1
    <3>1. Len(r) + 1 \in 1 .. Len(r) + 1 /\ 1 \in 1 .. Len(b) + 1
      BY <1>1, <1>2
    <3>2. c[Len(r) + 1] = z[Len(r) + 1] /\ d[Len(r) + 1] = y[1]
      BY <1>6, <1>7, <3>1
    <3> QED BY <1>2, <1>5, <2>3, <3>2
  <2>4. ASSUME NEW j \in 1 .. Len(b), i = Len(r) + 1 + j, i = Len(r) + (j + 1),
               j + 1 \in 1 .. Len(b) + 1
        PROVE  c[i] = d[i]
    <3>1. c[i] = b[j]
      BY <1>6, <2>4
    <3>2. d[i] = y[j + 1]
      BY <1>7, <2>4
    <3> QED BY <1>2, <3>1, <3>2
  <2> QED BY <2>1, <2>2, <2>3, <2>4
<1>9. c = d
  BY <1>6, <1>7, <1>8, SeqEqual
<1>10. Reverse(<< >>) = << >>
  BY DEF Reverse
<1>11. Reverse(r) \in Seq(Nodes)
  BY <1>3 DEF s
<1> QED BY <1>9, <1>10, <1>11 DEF a, s, z, y, c, d

LEMMA Removed ==
  ASSUME NEW u \in Seq(Nodes), NEW v \in Seq(Nodes), v # << >>
  PROVE  /\ RemoveAt(u \o v, Len(u) + 1) = u \o Tail(v)
         /\ Len(u) + 1 \in 1 .. Len(u \o v)
<1> DEFINE a == u \o v
           k == Len(u) + 1
           w == SubSeq(a, k + 1, Len(a))
<1>1. /\ a \in Seq(Nodes) /\ Len(a) = Len(u) + Len(v) /\ Len(v) >= 1
      /\ \A i \in 1 .. Len(v) : a[Len(u) + i] = v[i]
      /\ Len(u) \in Nat /\ Len(v) \in Nat
  OBVIOUS
<1>2. SubSeq(a, 1, k - 1) = u
  BY Pieces
<1> HIDE DEF a
<1>3. k \in 1 .. Len(a)
  BY <1>1
<1>4. /\ Tail(v) \in Seq(Nodes) /\ Len(Tail(v)) = Len(v) - 1
      /\ \A i \in 1 .. Len(v) - 1 : Tail(v)[i] = v[i + 1]
  OBVIOUS
<1>5. /\ w \in Seq(Nodes) /\ Len(w) = Len(v) - 1
      /\ \A i \in 1 .. Len(v) - 1 : w[i] = a[Len(u) + (i + 1)]
  <2>1. w \in Seq(Nodes) /\ Len(w) = Len(v) - 1
    <3>1. Len(a) \in Nat /\ k + 1 \in 1 .. Len(a) + 1 /\ Len(a) - (k + 1) + 1 = Len(v) - 1
      BY <1>1
    <3> HIDE DEF k
    <3>2. w \in Seq(Nodes)
      BY <1>1, <3>1
    <3>3. Len(w) = Len(a) - (k + 1) + 1
      BY <1>1, <3>1
    <3> QED BY <3>1, <3>2, <3>3
  <2>2. ASSUME NEW i \in 1 .. Len(v) - 1 PROVE w[i] = a[Len(u) + (i + 1)]
    <3>1. w[i] = a[k + 1 + i - 1] /\ k + 1 + i - 1 = Len(u) + (i + 1)
      BY <1>1
    <3> QED BY <3>1
  <2> QED BY <2>1, <2>2
<1>6. w = Tail(v)
  <2> DEFINE t == Tail(v)
  <2> HIDE DEF t, w, k
  <2>1. ASSUME NEW i \in 1 .. Len(v) - 1 PROVE w[i] = t[i]
    <3>1. i + 1 \in 1 .. Len(v)
      BY <1>1
    <3> QED BY <1>1, <1>4, <1>5, <3>1 DEF t
  <2>2. w = t
    BY <1>4, <1>5, <2>1, SeqEqual DEF t
  <2> QED BY <2>2 DEF t
<1>7. RemoveAt(a, k) = u \o Tail(v)
  BY <1>2, <1>6 DEF RemoveAt
<1> QED BY <1>3, <1>7 DEF a

\* In every state, whatever layout explains it.
Finds == \A Q \in Layouts : Explains(Q) => Found(Q)

LEMMA FindsNow == TypeOK /\ RolesOK => Finds
BY FindsChains DEF Finds

LEMMA FindsNext == (TypeOK /\ RolesOK)' => Finds'
BY FindsNow, PTL

\* What a step of thread t does to the list and to what is held.
LEMMA Maps ==
  ASSUME TypeOK, RolesOK, NEW Q \in Layouts, Explains(Q), NEW t \in Threads, OwnStep(t),
         NEW u \in Seq(Nodes), NEW v \in Seq(Nodes), NEW l \in Seq(Nodes),
         Leads(Q, t, u, v, l)
  PROVE  /\ Chain(head) = List(Q) /\ Chain(head)' = l
         /\ Held(t) = HeldIs(t, Main(Q, t), Aside(Q, t))
         /\ Held(t)' = HeldIs(t, u, v)'
         /\ \A w \in Threads \ {t} : Held(w)' = Held(w)
<1> DEFINE R == Laid(Q, t, u, v, l)
<1>1. Found(Q)
  BY FindsChains
<1>2. Found(R)'
  <2>1. TypeOK' /\ RolesOK' /\ R \in Layouts /\ Explains(R)'
    BY DEF Leads
  <2>2. Finds'
    BY <2>1, FindsNext
  <2> HIDE DEF R
  <2> QED BY <2>1, <2>2 DEF Finds
<1>3. /\ Main(R, t) = u /\ Aside(R, t) = v /\ List(R) = l
      /\ \A w \in Threads \ {t} : Main(R, w) = Main(Q, w) /\ Aside(R, w) = Aside(Q, w)
  <2>1. /\ Q \in [Places -> Seq(Nodes)] /\ t # NULL
        /\ <<t, 1>> \in Places /\ <<t, 2>> \in Places /\ <<NULL, 1>> \in Places
    BY PlacesAre DEF Layouts
  <2>2. R[<<t, 1>>] = u /\ R[<<t, 2>>] = v /\ R[<<NULL, 1>>] = l
    BY <2>1 DEF Laid
  <2>3. ASSUME NEW w \in Threads \ {t}
        PROVE  R[<<w, 1>>] = Q[<<w, 1>>] /\ R[<<w, 2>>] = Q[<<w, 2>>]
    <3>1. <<w, 1>> \in Places /\ <<w, 2>> \in Places /\ w # NULL
      BY PlacesAre
    <3> QED BY <2>1, <3>1 DEF Laid
  <2> QED BY <2>2, <2>3 DEF Main, Aside, List
<1> HIDE DEF R
<1>4. ASSUME NEW w \in Threads \ {t} PROVE Held(w)' = Held(w)
  <2> DEFINE a == Main(Q, w)
             b == Aside(Q, w)
  <2>1. Held(w) = HeldIs(w, a, b) /\ Held(w)' = HeldIs(w, a, b)'
    BY <1>1, <1>2, <1>3 DEF Found
  <2>2. pc'[w] = pc[w] /\ job'[w] = job[w]
    BY DEF OwnStep
  <2> HIDE DEF a, b
  <2>3. HeldIs(w, a, b)' = HeldIs(w, a, b)
    BY <2>2 DEF HeldIs, Publishing
  <2> QED BY <2>1, <2>3
<1> QED BY <1>1, <1>2, <1>3, <1>4 DEF Found

LEMMA HeldMap ==
  ASSUME NEW t \in Consumers, \A w \in Threads \ {t} : Held(w)' = Held(w)
  PROVE  /\ [c \in Consumers |-> Held(c)][t] = Held(t)
         /\ [c \in Consumers |-> Held(c)]'
              = [[c \in Consumers |-> Held(c)] EXCEPT ![t] = Held(t)']
<1>1. \A w \in Consumers \ {t} : Held(w)' = Held(w)
  BY DEF Threads
<1> QED BY <1>1

\* Only a stopper gives back; the list of stop requests has no order.
LEMMA StoppersOrder == (\A t \in Stoppers : ~(Launchers # {} /\ ~Locality))
BY OneRole

\* The instance has the operators on sequences of this module.
LEMMA SameOperators ==
  /\ \A f : Abstract!Range(f) = Range(f)
  /\ \A s : Abstract!Reverse(s) = Reverse(s)
  /\ \A s, k : Abstract!RemoveAt(s, k) = RemoveAt(s, k)
<1>1. \A f : Abstract!Range(f) = Range(f)
  BY DEF Abstract!Range, Range
<1>2. \A s : Abstract!Reverse(s) = Reverse(s)
  BY DEF Abstract!Reverse, Reverse
<1>3. \A s, k : Abstract!RemoveAt(s, k) = RemoveAt(s, k)
  BY DEF Abstract!RemoveAt, RemoveAt
<1> QED BY <1>1, <1>2, <1>3

\* push(), or push_all(): the chain is on the list, all of it at once.
LEMMA PublishRefines ==
  ASSUME TypeOK, RolesOK, NEW Q \in Layouts, Explains(Q), NEW t \in Producers \cup Stoppers,
         PublishSucceeds(t)
  PROVE  Abstract!Next
<1>t. t \in Threads /\ OwnStep(t)
  BY OwnSteps, OneRole DEF Produce, Stop, Publish
<1> DEFINE a == Main(Q, t)
           b == Aside(Q, t)
           l == List(Q)
<1>1. PICK v : v = IF job[t] = "prefix" THEN b ELSE << >>
  OBVIOUS
<1>2. /\ a \in Seq(Nodes) /\ b \in Seq(Nodes) /\ l \in Seq(Nodes) /\ << >> \in Seq(Nodes)
      /\ MainOK(t, a) /\ AsideOK(t, b) /\ v \in Seq(Nodes)
  BY <1>t, <1>1, ChainsAre, ListIs
<1>3. Leads(Q, t, << >>, v, a \o l) /\ a \o l \in Seq(Nodes)
  <2>1. Leads(Q, t, << >>, v, a \o l)
    BY <1>1, PublishStep
  <2>2. \A p, q \in Seq(Nodes) : p \o q \in Seq(Nodes)
    OBVIOUS
  <2> QED BY <1>2, <2>1, <2>2
<1> DEFINE c == a \o l
<1>4. /\ Chain(head) = l /\ Chain(head)' = c
      /\ Held(t) = HeldIs(t, a, b) /\ Held(t)' = HeldIs(t, << >>, v)'
      /\ \A w \in Threads \ {t} : Held(w)' = Held(w)
  <2> HIDE DEF c
  <2>1. c \in Seq(Nodes) /\ Leads(Q, t, << >>, v, c)
    BY <1>3 DEF c
  <2> QED BY <1>t, <1>2, <2>1, Maps
<1>5. /\ pc[t] = "cas" /\ pc'[t] = IF job[t] = "prefix" THEN "suffix" ELSE "idle"
  BY <1>t DEF PublishSucceeds, AfterPublish, TypeOK
<1> HIDE DEF a, b, l
<1>6. CASE t \in Producers
  <2> DEFINE n == op[t]
  <2>1. n \in Nodes /\ a = <<n>> /\ Member(a, n)
    <3>1. n \in Nodes /\ job[t] = "push"
      BY <1>5, <1>6 DEF RolesOK, ProducerOK
    <3>2. a = <<n>>
      BY <1>2, <1>5, <3>1 DEF MainOK, Publishing
    <3> QED BY <3>1, <3>2 DEF Member
  <2>2. PICK m \in Nodes : m = n
    BY <2>1
  <2>3. ~Member(l, m)
    BY <1>t, <2>1, <2>2, ChainsAre DEF a, l
  <2>4. ASSUME NEW w \in Consumers PROVE Held(w) \in Seq(Nodes) /\ ~Member(Held(w), m)
    <3>1. w \in Threads /\ w # t
      BY <1>6, OneRole DEF Threads, Consumers
    <3>2. ~Member(Main(Q, w), m) /\ ~Member(Aside(Q, w), m)
      BY <1>t, <2>1, <2>2, <3>1, Others DEF a
    <3> QED BY <3>2, HeldIn
  <2>5. m \notin Abstract!InUse
    <3>1. m \notin Range(Chain(head))
      BY <1>2, <1>4, <2>3, RangeIs
    <3>2. \A w \in Consumers : m \notin Range([c_1 \in Consumers |-> Held(c_1)][w])
      BY <2>4, RangeIs
    <3> DEFINE hold == [c_1 \in Consumers |-> Held(c_1)]
    <3>3. m \notin UNION {Range(hold[w]) : w \in Consumers}
      <4> HIDE DEF hold
      <4> SUFFICES ASSUME NEW w \in Consumers, m \in Range(hold[w]) PROVE FALSE
        OBVIOUS
      <4> QED BY <3>2 DEF hold
    <3>4. Abstract!InUse = Range(Chain(head)) \cup UNION {Range(hold[w]) : w \in Consumers}
      BY SameOperators DEF Abstract!InUse
    <3> QED BY <3>1, <3>3, <3>4
  <2>6. Chain(head)' = <<m>> \o Chain(head)
    BY <1>4, <2>1, <2>2
  <2>7. [w \in Consumers |-> Held(w)]' = [w \in Consumers |-> Held(w)]
    <3>1. \A w \in Consumers : Held(w)' = Held(w)
      BY <1>4, <1>6, OneRole DEF Threads, Consumers
    <3> QED BY <3>1
  <2> QED BY <2>5, <2>6, <2>7 DEF Abstract!Next, Abstract!Push
<1>7. CASE t \in Stoppers
  <2> DEFINE r == IF job[t] = "prefix" THEN Tail(b) ELSE << >>
  <2>1. t \in Consumers /\ ~(Launchers # {} /\ ~Locality)
    BY <1>7, StoppersOrder DEF Consumers
  <2>2. a # << >>
    BY <1>2, <1>5 DEF MainOK, Publishing
  <2>3. Held(t) = a \o r
    BY <1>4, <1>5 DEF HeldIs, Publishing
  <2>4. Held(t)' = r
    <3>1. CASE job[t] = "prefix"
      <4>1. pc'[t] = "suffix" /\ v = b
        BY <1>1, <1>5, <3>1
      <4> QED BY <1>4, <3>1, <4>1 DEF HeldIs, Publishing
    <3>2. CASE job[t] # "prefix"
      <4>1. pc'[t] = "idle"
        BY <1>5, <3>2
      <4> QED BY <1>4, <3>2, <4>1 DEF HeldIs, Publishing
    <3> QED BY <3>1, <3>2
  <2>5. r \in Seq(Nodes)
    <3>1. job[t] = "prefix" => b # << >>
      BY <1>2, <1>5 DEF AsideOK, HasRest, Publishing
    <3>2. \A q \in Seq(Nodes) : q # << >> => Tail(q) \in Seq(Nodes)
      OBVIOUS
    <3> QED BY <1>2, <3>1, <3>2
  <2> HIDE DEF r
  <2>6. /\ Len(a) \in 1 .. Len(Held(t))
        /\ SubSeq(Held(t), 1, Len(a)) = a
        /\ SubSeq(Held(t), Len(a) + 1, Len(Held(t))) = r
    <3>1. /\ SubSeq(a \o r, 1, Len(a)) = a /\ SubSeq(a \o r, Len(a) + 1, Len(a \o r)) = r
          /\ Len(a \o r) = Len(a) + Len(r)
      BY <1>2, <2>5, Pieces
    <3>2. Len(a) \in Nat /\ Len(a) >= 1 /\ Len(r) \in Nat
      BY <1>2, <2>2, <2>5
    <3>3. Len(a) \in 1 .. Len(a) + Len(r)
      BY <3>2
    <3> QED BY <2>3, <3>1, <3>3
  <2> DEFINE hold == [w \in Consumers |-> Held(w)]
  <2>7. hold[t] = Held(t) /\ hold' = [hold EXCEPT ![t] = Held(t)']
    BY <1>4, <2>1, HeldMap
  <2> HIDE DEF hold
  <2>8. /\ Chain(head)' = SubSeq(hold[t], 1, Len(a)) \o Chain(head)
        /\ hold' = [hold EXCEPT ![t] = SubSeq(hold[t], Len(a) + 1, Len(hold[t]))]
        /\ Len(a) \in 1 .. Len(hold[t])
    BY <1>4, <2>4, <2>6, <2>7
  <2> QED BY <2>1, <2>8, Zenon DEF Abstract!Next, Abstract!PushAll, hold
<1> QED BY <1>6, <1>7

\* move_all(): the consumer has what was the list.
LEMMA MoveAllRefines ==
  ASSUME TypeOK, RolesOK, NEW Q \in Layouts, Explains(Q), NEW t \in Consumers,
         MoveAllSucceeds(t)
  PROVE  Abstract!Next
<1>t. t \in Threads /\ OwnStep(t)
  BY OwnSteps DEF Launch, Stop, MoveAll, Threads
<1> DEFINE l == List(Q)
<1>1. l \in Seq(Nodes) /\ << >> \in Seq(Nodes)
  BY ListIs
<1>2. Leads(Q, t, l, << >>, << >>)
  BY MoveAllStep
<1>3. /\ Chain(head) = l /\ Chain(head)' = << >>
      /\ Held(t) = HeldIs(t, Main(Q, t), Aside(Q, t)) /\ Held(t)' = HeldIs(t, l, << >>)'
      /\ \A w \in Threads \ {t} : Held(w)' = Held(w)
  BY <1>t, <1>1, <1>2, Maps
<1> HIDE DEF l
<1>4. pc[t] = "grab" /\ pc'[t] = AfterMoveAll(t)
  BY <1>t DEF MoveAllSucceeds, TypeOK
<1>5. Held(t) = << >>
  BY <1>3, <1>4 DEF HeldIs, Publishing
<1>6. Held(t)' = IF Launchers # {} /\ ~Locality THEN Reverse(l) ELSE l
  <2>1. CASE AfterMoveAll(t) = "reverse"
    <3>1. Launchers # {} /\ ~Locality
      BY <2>1 DEF AfterMoveAll
    <3>2. Held(t)' = Reverse(l) \o << >>
      BY <1>3, <1>4, <2>1 DEF HeldIs, Publishing
    <3>3. Reverse(l) \in Seq(Nodes)
      BY <1>1 DEF Reverse
    <3>4. \A q \in Seq(Nodes) : q \o << >> = q
      OBVIOUS
    <3> QED BY <3>1, <3>2, <3>3, <3>4
  <2>2. CASE AfterMoveAll(t) # "reverse"
    <3>1. AfterMoveAll(t) \in {"walk", "scan", "prefix"} /\ ~(Launchers # {} /\ ~Locality)
      BY <2>2, StoppersOrder DEF AfterMoveAll, Consumers
    <3>2. Held(t)' = l
      BY <1>3, <1>4, <3>1 DEF HeldIs, Publishing
    <3> QED BY <3>1, <3>2
  <2> QED BY <2>1, <2>2
<1> DEFINE hold == [w \in Consumers |-> Held(w)]
<1>7. hold[t] = Held(t) /\ hold' = [hold EXCEPT ![t] = Held(t)']
  BY <1>3, HeldMap
<1> HIDE DEF hold
<1>8. /\ hold[t] = << >> /\ Chain(head)' = << >>
      /\ hold' = [hold EXCEPT ![t] = IF Launchers # {} /\ ~Locality THEN Reverse(Chain(head))
                                     ELSE Chain(head)]
  BY <1>3, <1>5, <1>6, <1>7
<1>9. Abstract!MoveAll(t)
  BY <1>8, SameOperators, Zenon DEF Abstract!MoveAll, hold
<1> QED BY <1>9 DEF Abstract!Next

\* The walk takes the first element that the consumer holds.
LEMMA TakeRefines ==
  ASSUME TypeOK, RolesOK, NEW Q \in Layouts, Explains(Q), NEW t \in Consumers, OwnStep(t),
         NEW v \in Seq(Nodes), Leads(Q, t, Tail(Main(Q, t)), v, List(Q)), Main(Q, t) # << >>,
         pc[t] \in {"walk", "scan"}, pc'[t] \in {"complete", "scan"}
  PROVE  Abstract!Next
<1> DEFINE a == Main(Q, t)
           u == Tail(a)
           l == List(Q)
<1>1. t \in Threads /\ a \in Seq(Nodes) /\ l \in Seq(Nodes) /\ u \in Seq(Nodes)
  <2>1. t \in Threads
    BY DEF Threads
  <2>2. a \in Seq(Nodes) /\ l \in Seq(Nodes)
    BY <2>1, PlacesAre
  <2>3. \A q \in Seq(Nodes) : q # << >> => Tail(q) \in Seq(Nodes)
    OBVIOUS
  <2> QED BY <2>1, <2>2, <2>3
<1>2. /\ Chain(head) = l /\ Chain(head)' = l
      /\ Held(t) = HeldIs(t, a, Aside(Q, t)) /\ Held(t)' = HeldIs(t, u, v)'
      /\ \A w \in Threads \ {t} : Held(w)' = Held(w)
  BY <1>1, Maps
<1>3. a # << >>
  OBVIOUS
<1> HIDE DEF a, u, l
<1>4. Held(t) = a /\ Held(t)' = u
  BY <1>2 DEF HeldIs, Publishing
<1> DEFINE hold == [w \in Consumers |-> Held(w)]
<1>5. hold[t] = Held(t) /\ hold' = [hold EXCEPT ![t] = Held(t)']
  BY <1>2, HeldMap
<1> HIDE DEF hold
<1>6. /\ hold[t] # << >> /\ Chain(head)' = Chain(head)
      /\ hold' = [hold EXCEPT ![t] = Tail(hold[t])]
  BY <1>2, <1>3, <1>4, <1>5 DEF u
<1> QED BY <1>6, Zenon DEF Abstract!Next, Abstract!Take, hold

\* A step that changes neither the list nor what its consumer has to do.
LEMMA StepStutters ==
  ASSUME TypeOK, RolesOK, NEW Q \in Layouts, Explains(Q), NEW t \in Threads, OwnStep(t),
         NEW u \in Seq(Nodes), NEW v \in Seq(Nodes), Leads(Q, t, u, v, List(Q)),
         t \in Consumers => HeldIs(t, u, v)' = HeldIs(t, Main(Q, t), Aside(Q, t))
  PROVE  UNCHANGED Abstract!vars
<1> DEFINE l == List(Q)
<1>1. l \in Seq(Nodes)
  BY ListIs
<1> HIDE DEF l
<1>2. /\ Chain(head) = l /\ Chain(head)' = l
      /\ Held(t) = HeldIs(t, Main(Q, t), Aside(Q, t)) /\ Held(t)' = HeldIs(t, u, v)'
      /\ \A w \in Threads \ {t} : Held(w)' = Held(w)
  BY <1>1, Maps DEF l
<1>3. \A w \in Consumers : Held(w)' = Held(w)
  BY <1>2 DEF Threads
<1>4. [w \in Consumers |-> Held(w)]' = [w \in Consumers |-> Held(w)]
  BY <1>3
<1> QED BY <1>2, <1>4 DEF Abstract!vars

\* Producers, and what all threads do.
LEMMA PushStutters ==
  ASSUME TypeOK, RolesOK, NEW Q \in Layouts, Explains(Q), NEW t \in Producers,
         NEW n \in Nodes, Push(t, n)
  PROVE  UNCHANGED Abstract!vars
<1>1. t \in Threads /\ OwnStep(t) /\ t \notin Consumers
  BY OwnSteps, OneRole DEF Produce, Consumers
<1>2. Leads(Q, t, <<n>>, << >>, List(Q)) /\ <<n>> \in Seq(Nodes) /\ << >> \in Seq(Nodes)
  BY PushStep
<1> QED BY <1>1, <1>2, StepStutters

LEMMA QuietStutters ==
  ASSUME TypeOK, RolesOK, NEW Q \in Layouts, Explains(Q), NEW t \in Threads,
         Produce(t) \/ Launch(t) \/ Stop(t),
         \/ LinkLast(t) /\ t \in Producers \cup Stoppers
         \/ PublishFails(t) \/ MoveAllFails(t) \/ WalkEnd(t) \/ ScanEnd(t)
         \/ t \in Consumers /\ MoveAllLoad(t)
  PROVE  UNCHANGED Abstract!vars
<1> DEFINE a == Main(Q, t)
           b == Aside(Q, t)
<1>1. OwnStep(t) /\ a \in Seq(Nodes) /\ b \in Seq(Nodes)
  BY OwnSteps, PlacesAre
<1>2. Leads(Q, t, a, b, List(Q))
  BY LinkLastStep, QuietSteps
<1>3. pc[t] \in {"walk", "scan"} /\ rest[t] = NULL => a = << >>
  BY None
<1> HIDE DEF a, b
<1>4. job'[t] = job[t]
  BY DEF LinkLast, PublishFails, MoveAllFails, WalkEnd, ScanEnd, MoveAllLoad, TypeOK
<1>5. \/ Publishing(t) /\ Publishing(t)'
      \/ pc[t] \in {"idle", "grab"} /\ pc'[t] = "grab"
      \/ pc[t] \in {"walk", "scan"} /\ rest[t] = NULL /\ pc'[t] = "idle"
  BY DEF LinkLast, PublishFails, MoveAllFails, WalkEnd, ScanEnd, MoveAllLoad, TypeOK,
         Publishing, AfterFailure
<1>6. HeldIs(t, a, b)' = HeldIs(t, a, b)
  BY <1>3, <1>4, <1>5 DEF HeldIs, Publishing
<1> QED BY <1>1, <1>2, <1>6, StepStutters DEF a, b

\* Launchers: turning a chain round changes nothing of what it stands for.
LEMMA ReverseStutters ==
  ASSUME TypeOK, RolesOK, NEW Q \in Layouts, Explains(Q), NEW t \in Launchers,
         ReverseStep(t) \/ ReverseEnd(t)
  PROVE  UNCHANGED Abstract!vars
<1> DEFINE a == Main(Q, t)
           b == Aside(Q, t)
<1>t. t \in Threads /\ OwnStep(t)
  BY OwnSteps, OneRole DEF Launch
<1>1. /\ t \in Threads /\ OwnStep(t) /\ a \in Seq(Nodes) /\ b \in Seq(Nodes)
      /\ << >> \in Seq(Nodes)
  <2>1. a \in Seq(Nodes) /\ b \in Seq(Nodes)
    BY <1>t, PlacesAre
  <2> QED BY <1>t, <2>1
<1>2. CASE ReverseStep(t)
  <2>1. Leads(Q, t, Tail(a), <<a[1]>> \o b, List(Q)) /\ a # << >>
    BY <1>2, ReverseStepStep
  <2>2. pc[t] = "reverse" /\ pc'[t] = "reverse"
    BY <1>1, <1>2 DEF ReverseStep
  <2> HIDE DEF a, b
  <2>3. /\ a[1] \in Nodes /\ Tail(a) \in Seq(Nodes) /\ a = <<a[1]>> \o Tail(a)
        /\ <<a[1]>> \o b \in Seq(Nodes)
    BY <1>1, <2>1
  <2>4. Reverse(a) \o b = Reverse(Tail(a)) \o (<<a[1]>> \o b)
    <3>1. PICK x \in Nodes, r \in Seq(Nodes) : x = a[1] /\ r = Tail(a)
      BY <2>3
    <3>2. Reverse(<<x>> \o r) \o b = Reverse(r) \o (<<x>> \o b)
      BY <1>1, Reversed
    <3> QED BY <2>3, <3>1, <3>2, Zenon
  <2>5. PICK u, v \in Seq(Nodes) : u = Tail(a) /\ v = <<a[1]>> \o b
    BY <2>3
  <2>6. HeldIs(t, u, v)' = HeldIs(t, a, b)
    BY <2>2, <2>4, <2>5 DEF HeldIs
  <2>7. Leads(Q, t, u, v, List(Q))
    BY <2>1, <2>5
  <2> QED BY <1>1, <2>6, <2>7, StepStutters DEF a, b
<1>3. CASE ReverseEnd(t)
  <2>1. Leads(Q, t, b, << >>, List(Q)) /\ a = << >>
    BY <1>3, ReverseEndStep
  <2>2. pc[t] = "reverse" /\ pc'[t] = "walk"
    BY <1>1, <1>3 DEF ReverseEnd, TypeOK
  <2> HIDE DEF a, b
  <2>3. Reverse(a) \o b = b
    <3>1. Reverse(a) = << >>
      BY <2>1 DEF Reverse
    <3> QED BY <1>1, <3>1, Pieces
  <2>4. HeldIs(t, b, << >>)' = HeldIs(t, a, b)
    BY <2>2, <2>3 DEF HeldIs, Publishing
  <2> QED BY <1>1, <2>1, <2>4, StepStutters DEF a, b
<1> QED BY <1>2, <1>3

LEMMA CompleteStutters ==
  ASSUME TypeOK, RolesOK, NEW Q \in Layouts, Explains(Q), NEW t \in Launchers, Complete(t)
  PROVE  UNCHANGED Abstract!vars
<1> DEFINE a == Main(Q, t)
           b == Aside(Q, t)
<1>t. t \in Threads /\ OwnStep(t)
  BY OwnSteps, OneRole DEF Launch
<1>1. /\ t \in Threads /\ OwnStep(t) /\ a \in Seq(Nodes) /\ b \in Seq(Nodes)
      /\ << >> \in Seq(Nodes)
  <2>1. a \in Seq(Nodes) /\ b \in Seq(Nodes)
    BY <1>t, PlacesAre
  <2> QED BY <1>t, <2>1
<1>2. Leads(Q, t, a, << >>, List(Q))
  BY CompleteStep
<1>3. pc[t] = "complete" /\ pc'[t] = "walk"
  BY <1>1 DEF Complete, TypeOK
<1> HIDE DEF a, b
<1>4. HeldIs(t, a, << >>)' = HeldIs(t, a, b)
  BY <1>3 DEF HeldIs, Publishing
<1> QED BY <1>1, <1>2, <1>4, StepStutters DEF a, b

\* Stoppers: what they do between taking a list and giving it back.
LEMMA StopStutters ==
  ASSUME TypeOK, RolesOK, NEW Q \in Layouts, Explains(Q), NEW t \in Stoppers,
         \/ ScanFull(t) \/ (\E x \in Nodes : Uninstall(t, x)) \/ UninstallEmpty(t)
         \/ PushSuffix(t) \/ UninstallEnd(t)
  PROVE  UNCHANGED Abstract!vars
<1> DEFINE a == Main(Q, t)
           b == Aside(Q, t)
<1>t. t \in Threads /\ OwnStep(t)
  BY OwnSteps, OneRole DEF Stop
<1>1. /\ t \in Threads /\ OwnStep(t) /\ a \in Seq(Nodes) /\ b \in Seq(Nodes)
      /\ << >> \in Seq(Nodes)
  <2>1. a \in Seq(Nodes) /\ b \in Seq(Nodes)
    BY <1>t, PlacesAre
  <2> QED BY <1>t, <2>1
<1>2. \A q \in Seq(Nodes) : q \o << >> = q
  OBVIOUS
<1>3. CASE ScanFull(t)
  <2>1. Leads(Q, t, a, b, List(Q))
    BY <1>3, ScanFullStep
  <2>2. pc[t] = "scan" /\ pc'[t] = "link" /\ job'[t] = "putback"
    BY <1>1, <1>3 DEF ScanFull, StartPublish, TypeOK
  <2> HIDE DEF a, b
  <2>3. HeldIs(t, a, b)' = HeldIs(t, a, b)
    BY <1>1, <1>2, <2>2 DEF HeldIs, Publishing
  <2> QED BY <1>1, <2>1, <2>3, StepStutters DEF a, b
<1>4. ASSUME NEW x \in Nodes, Uninstall(t, x) PROVE UNCHANGED Abstract!vars
  <2>1. Leads(Q, t, a, b, List(Q))
    BY <1>4, UninstallStep
  <2>2. pc[t] = "idle" /\ pc'[t] = "grab"
    BY <1>1, <1>4 DEF Uninstall, TypeOK
  <2> HIDE DEF a, b
  <2>3. HeldIs(t, a, b)' = HeldIs(t, a, b)
    BY <2>2 DEF HeldIs, Publishing
  <2> QED BY <1>1, <2>1, <2>3, StepStutters DEF a, b
<1>5. CASE UninstallEmpty(t)
  <2>1. Leads(Q, t, << >>, << >>, List(Q)) /\ a = << >>
    BY <1>5, UninstallEmptyStep
  <2>2. pc[t] = "prefix" /\ pc'[t] = "idle"
    BY <1>1, <1>5 DEF UninstallEmpty, TypeOK
  <2> HIDE DEF a, b
  <2>3. HeldIs(t, << >>, << >>)' = HeldIs(t, a, b)
    BY <2>1, <2>2 DEF HeldIs, Publishing
  <2> QED BY <1>1, <2>1, <2>3, StepStutters DEF a, b
<1>6. CASE PushSuffix(t)
  <2>1. Leads(Q, t, Tail(b), <<b[1]>>, List(Q)) /\ b # << >>
    BY <1>6, PushSuffixStep
  <2>2. pc[t] = "suffix" /\ pc'[t] = "link" /\ job'[t] = "suffix"
    BY <1>1, <1>6 DEF PushSuffix, StartPublish, TypeOK
  <2> HIDE DEF a, b
  <2>3. PICK u, v \in Seq(Nodes) : u = Tail(b) /\ v = <<b[1]>>
    <3>1. \A q \in Seq(Nodes) : q # << >> => Tail(q) \in Seq(Nodes) /\ <<q[1]>> \in Seq(Nodes)
      OBVIOUS
    <3> QED BY <1>1, <2>1, <3>1
  <2>4. HeldIs(t, u, v)' = HeldIs(t, a, b)
    BY <1>2, <2>2, <2>3 DEF HeldIs, Publishing
  <2>5. Leads(Q, t, u, v, List(Q))
    BY <2>1, <2>3
  <2> QED BY <1>1, <2>4, <2>5, StepStutters DEF a, b
<1>7. CASE UninstallEnd(t)
  <2>1. Leads(Q, t, << >>, << >>, List(Q)) /\ b = <<op[t]>>
    BY <1>7, UninstallEndStep
  <2>2. pc[t] = "suffix" /\ pc'[t] = "idle"
    BY <1>1, <1>7 DEF UninstallEnd, TypeOK
  <2> HIDE DEF a, b
  <2>3. Tail(b) = << >>
    BY <2>1
  <2>4. HeldIs(t, << >>, << >>)' = HeldIs(t, a, b)
    BY <2>2, <2>3 DEF HeldIs, Publishing
  <2> QED BY <1>1, <2>1, <2>4, StepStutters DEF a, b
<1> QED BY <1>3, <1>4, <1>5, <1>6, <1>7

\* Of the chain without the withdrawn operation, the part before it first.
LEMMA WithdrawRefines ==
  ASSUME TypeOK, RolesOK, NEW Q \in Layouts, Explains(Q), NEW t \in Stoppers, PushPrefix(t)
  PROVE  Abstract!Next \/ UNCHANGED Abstract!vars
<1> DEFINE a == Main(Q, t)
           b == Aside(Q, t)
           l == List(Q)
<1>t. t \in Threads /\ OwnStep(t)
  BY OwnSteps, OneRole DEF Stop
<1>1. t \in Consumers /\ ~(Launchers # {} /\ ~Locality)
  BY StoppersOrder DEF Consumers
<1>2. PICK u, v \in Seq(Nodes) :
        /\ Leads(Q, t, u, v, List(Q))
        /\ \/ a = u \o v
           \/ a = u /\ v = <<op[t]>>
        /\ v # << >>
        /\ pc'[t] = IF u = << >> THEN "suffix" ELSE "link"
        /\ u # << >> => job'[t] = "prefix"
  BY PushPrefixStep, Zenon
<1>3. l \in Seq(Nodes)
  BY ListIs
<1>4. /\ Chain(head) = l /\ Chain(head)' = l
      /\ Held(t) = HeldIs(t, a, b) /\ Held(t)' = HeldIs(t, u, v)'
      /\ \A w \in Threads \ {t} : Held(w)' = Held(w)
  BY <1>t, <1>2, <1>3, Maps
<1>5. pc[t] = "prefix"
  BY DEF PushPrefix
<1>6. /\ HeldIs(t, a, b) = a
      /\ HeldIs(t, u, v)' = u \o Tail(v)
  <2>1. HeldIs(t, a, b) = a
    BY <1>5 DEF HeldIs, Publishing
  <2>2. Tail(v) \in Seq(Nodes)
    <3>1. \A q \in Seq(Nodes) : q # << >> => Tail(q) \in Seq(Nodes)
      OBVIOUS
    <3> QED BY <1>2, <3>1
  <2>3. CASE u = << >>
    <3>1. u \o Tail(v) = Tail(v)
      BY <2>2, <2>3
    <3>2. HeldIs(t, u, v)' = Tail(v)
      BY <1>2, <2>3 DEF HeldIs, Publishing
    <3> QED BY <2>1, <3>1, <3>2
  <2>4. CASE u # << >>
    <3>1. pc'[t] = "link" /\ job'[t] = "prefix"
      BY <1>2, <2>4
    <3>2. HeldIs(t, u, v)' = u \o Tail(v)
      BY <3>1 DEF HeldIs, Publishing
    <3> QED BY <2>1, <3>2
  <2> QED BY <2>3, <2>4
<1>7. CASE a = u \o v
  <2>1. /\ RemoveAt(a, Len(u) + 1) = u \o Tail(v)
        /\ Len(u) + 1 \in 1 .. Len(a)
    BY <1>2, <1>7, Removed
  <2> DEFINE hold == [w \in Consumers |-> Held(w)]
  <2>2. hold[t] = Held(t) /\ hold' = [hold EXCEPT ![t] = Held(t)']
    BY <1>1, <1>4, HeldMap
  <2> HIDE DEF hold, a, b, l
  <2>3. /\ Chain(head)' = Chain(head)
        /\ hold' = [hold EXCEPT ![t] = RemoveAt(hold[t], Len(u) + 1)]
        /\ Len(u) + 1 \in 1 .. Len(hold[t])
    BY <1>4, <1>6, <2>1, <2>2
  <2>4. Abstract!Withdraw(t)
    BY <1>1, <2>3, SameOperators, Zenon DEF Abstract!Withdraw, hold
  <2> QED BY <1>1, <2>4 DEF Abstract!Next
<1>8. CASE a = u /\ v = <<op[t]>>
  <2>1. u \o Tail(v) = u
    <3>1. Tail(v) = << >>
      BY <1>8
    <3>2. u \o << >> = u
      BY <1>2
    <3> QED BY <3>1, <3>2, Zenon
  <2>2. HeldIs(t, u, v)' = HeldIs(t, a, b)
    BY <1>6, <1>8, <2>1
  <2> HIDE DEF a, b, l
  <2> QED BY <1>t, <1>2, <2>2, StepStutters DEF a, b
<1> QED BY <1>2, <1>7, <1>8

LEMMA InitRefines == Init => Abstract!Init
<1> SUFFICES ASSUME Init PROVE Abstract!Init
  OBVIOUS
<1>1. TypeOK /\ RolesOK
  BY InitIInv DEF IInv
<1>2. next \in [Nodes -> Link] /\ head = NULL /\ NULL \in Link
  BY DEF Init, Link
<1>3. Chain(head) = << >>
  <2>1. Linked(next, << >>, NULL, NULL)
    BY LinkedOne
  <2>2. Once(<< >>) /\ << >> \in Seq(Nodes)
    BY Onces
  <2> QED BY <1>2, <2>1, <2>2, ChainIs, OneRole DEF Chain
<1>4. \A t \in Consumers : Held(t) = << >>
  BY DEF Init, Held, Threads
<1> QED BY <1>3, <1>4 DEF Abstract!Init

LEMMA NextRefines == IInv /\ [Next]_vars => [Abstract!Next]_(Abstract!vars)
<1> SUFFICES ASSUME IInv, [Next]_vars PROVE Abstract!Next \/ UNCHANGED Abstract!vars
  BY DEF Abstract!vars
<1>1. TypeOK /\ RolesOK
  BY DEF IInv
<1>2. PICK Q \in Layouts : Explains(Q)
  BY DEF IInv
<1> DEFINE Mapped == Abstract!Next \/ UNCHANGED Abstract!vars
<1> HIDE DEF Mapped
<1> SUFFICES Mapped
  BY DEF Mapped
<1>3. CASE UNCHANGED vars
  <2>1. Chain(head)' = Chain(head) /\ \A t \in Consumers : Held(t)' = Held(t)
    BY <1>3 DEF vars, locals, Chain, ChainIn, Held, Segment, Before, Longest
  <2>2. UNCHANGED Abstract!vars
    BY <2>1 DEF Abstract!vars
  <2> QED BY <2>2 DEF Mapped
<1>4. ASSUME NEW t \in Producers \cup Stoppers, Publish(t), Produce(t) \/ Stop(t) PROVE Mapped
  <2>1. t \in Threads
    BY OneRole
  <2>2. CASE LinkLast(t) \/ PublishFails(t)
    <3>1. UNCHANGED Abstract!vars
      BY <1>1, <1>2, <1>4, <2>1, <2>2, QuietStutters
    <3> QED BY <3>1 DEF Mapped
  <2>3. CASE PublishSucceeds(t)
    <3>1. Abstract!Next
      BY <1>1, <1>2, <2>3, PublishRefines
    <3> QED BY <3>1 DEF Mapped
  <2> QED BY <1>4, <2>2, <2>3 DEF Publish
<1>5. ASSUME NEW t \in Consumers, MoveAll(t), Launch(t) \/ Stop(t) PROVE Mapped
  <2>1. t \in Threads
    BY DEF Threads
  <2>2. CASE MoveAllLoad(t) \/ MoveAllFails(t)
    <3>1. UNCHANGED Abstract!vars
      BY <1>1, <1>2, <1>5, <2>1, <2>2, QuietStutters
    <3> QED BY <3>1 DEF Mapped
  <2>3. CASE MoveAllSucceeds(t)
    <3>1. Abstract!Next
      BY <1>1, <1>2, <2>3, MoveAllRefines
    <3> QED BY <3>1 DEF Mapped
  <2> QED BY <1>5, <2>2, <2>3 DEF MoveAll
<1>6. ASSUME NEW t \in Producers, Produce(t) PROVE Mapped
  <2>1. ASSUME NEW n \in Nodes, Push(t, n) PROVE Mapped
    <3>1. UNCHANGED Abstract!vars
      BY <1>1, <1>2, <2>1, PushStutters
    <3> QED BY <3>1 DEF Mapped
  <2> QED BY <1>4, <1>6, <2>1 DEF Produce
<1>7. ASSUME NEW t \in Launchers, Launch(t) PROVE Mapped
  <2>t. t \in Threads /\ t \in Consumers
    BY OneRole DEF Consumers
  <2>1. CASE ReverseStep(t) \/ ReverseEnd(t) \/ Complete(t) \/ WalkEnd(t)
    <3>1. UNCHANGED Abstract!vars
      BY <1>1, <1>2, <1>7, <2>t, <2>1, ReverseStutters, CompleteStutters, QuietStutters
    <3> QED BY <3>1 DEF Mapped
  <2>2. CASE WalkNext(t)
    <3>1. /\ Leads(Q, t, Tail(Main(Q, t)), <<Main(Q, t)[1]>>, List(Q))
          /\ Main(Q, t) # << >>
      BY <1>1, <1>2, <2>2, WalkNextStep
    <3>2. PICK v \in Seq(Nodes) : v = <<Main(Q, t)[1]>>
      <4>1. Main(Q, t) \in Seq(Nodes)
        BY <2>t, PlacesAre
      <4>2. \A q \in Seq(Nodes) : q # << >> => <<q[1]>> \in Seq(Nodes)
        OBVIOUS
      <4> QED BY <3>1, <4>1, <4>2
    <3>3. pc[t] = "walk" /\ pc'[t] = "complete"
      BY <1>1, <2>t, <2>2 DEF WalkNext, TypeOK
    <3>4. Leads(Q, t, Tail(Main(Q, t)), v, List(Q))
      BY <3>1, <3>2
    <3>5. OwnStep(t)
      BY <1>1, <1>7, <2>t, OwnSteps
    <3>6. Abstract!Next
      BY <1>1, <1>2, <2>t, <3>1, <3>3, <3>4, <3>5, TakeRefines
    <3> QED BY <3>6 DEF Mapped
  <2> QED BY <1>5, <1>7, <2>t, <2>1, <2>2 DEF Launch
<1>8. ASSUME NEW t \in Stoppers, Stop(t) PROVE Mapped
  <2>t. t \in Threads /\ t \in Consumers
    BY OneRole DEF Consumers
  <2>1. CASE ScanEnd(t)
    <3>1. UNCHANGED Abstract!vars
      BY <1>1, <1>2, <1>8, <2>t, <2>1, QuietStutters
    <3> QED BY <3>1 DEF Mapped
  <2>2. CASE \/ ScanFull(t) \/ (\E x \in Nodes : Uninstall(t, x)) \/ UninstallEmpty(t)
             \/ PushSuffix(t) \/ UninstallEnd(t)
    <3>1. UNCHANGED Abstract!vars
      BY <1>1, <1>2, <2>2, StopStutters
    <3> QED BY <3>1 DEF Mapped
  <2>3. CASE ScanNext(t)
    <3>1. Leads(Q, t, Tail(Main(Q, t)), << >>, List(Q)) /\ Main(Q, t) # << >>
      BY <1>1, <1>2, <2>3, ScanNextStep
    <3>2. pc[t] = "scan" /\ pc'[t] = "scan"
      BY <2>3 DEF ScanNext
    <3>3. OwnStep(t) /\ << >> \in Seq(Nodes)
      BY <1>1, <1>8, <2>t, OwnSteps
    <3>4. Abstract!Next
      BY <1>1, <1>2, <2>t, <3>1, <3>2, <3>3, TakeRefines
    <3> QED BY <3>4 DEF Mapped
  <2>4. CASE PushPrefix(t)
    <3>1. Abstract!Next \/ UNCHANGED Abstract!vars
      BY <1>1, <1>2, <2>4, WithdrawRefines
    <3> QED BY <3>1 DEF Mapped
  <2> QED BY <1>4, <1>5, <1>8, <2>t, <2>1, <2>2, <2>3, <2>4 DEF Stop
<1>9. CASE Next
  BY <1>6, <1>7, <1>8, <1>9, Zenon DEF Next
<1> QED BY <1>3, <1>9

\* push(), push_all(), move_all(), make_fifo() and the withdrawal of a stop
\* request each act at one instant on an ordinary list: no lost CAS, no
\* reused address and no give-back in two pieces shows through.
THEOREM SpecImplementsSharedList == Spec => ImplementsSharedList
BY InitRefines, NextRefines, SpecIInv, PTL DEF Spec, ImplementsSharedList, Abstract!Spec
=============================================================================
