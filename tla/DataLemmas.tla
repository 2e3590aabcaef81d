----------------------------- MODULE DataLemmas -----------------------------
(***************************************************************************)
(* Lemmas about sequences and finite sets that the proofs about several    *)
(* modules need.                                                           *)
(***************************************************************************)
EXTENDS Integers, SequencesExt, SequenceTheorems, FiniteSetTheorems,
        WellFoundedInduction, TLAPS

(* Append() adds one place, at the end, and leaves the others alone.       *)
LEMMA PlacesOfAppend ==
  ASSUME NEW S, NEW q \in Seq(S), NEW e \in S, NEW c, NEW i
  PROVE  i \in DOMAIN Append(q, e) /\ Append(q, e)[i] = c
           <=> (i \in DOMAIN q /\ q[i] = c) \/ (i = Len(q) + 1 /\ c = e)
<1>1. DOMAIN q = 1 .. Len(q) /\ Len(q) \in Nat
  OBVIOUS
<1>2. /\ DOMAIN Append(q, e) = 1 .. Len(q) + 1
      /\ \A j \in 1 .. Len(q) : Append(q, e)[j] = q[j]
      /\ Append(q, e)[Len(q) + 1] = e
  OBVIOUS
<1>3. i \in 1 .. Len(q) + 1 <=> i \in 1 .. Len(q) \/ i = Len(q) + 1
  BY <1>1
<1>4. Len(q) + 1 \notin 1 .. Len(q)
  BY <1>1
<1> QED BY <1>1, <1>2, <1>3, <1>4, Zenon

(* RemoveAt() takes the n-th element out and leaves the order alone.       *)
LEMMA RemoveAtProperties ==
  ASSUME NEW S, NEW q \in Seq(S), NEW n \in 1 .. Len(q)
  PROVE  /\ RemoveAt(q, n) \in Seq(S)
         /\ Len(RemoveAt(q, n)) = Len(q) - 1
         /\ \A j \in 1 .. Len(q) - 1 :
              RemoveAt(q, n)[j] = IF j < n THEN q[j] ELSE q[j + 1]
<1> DEFINE a == SubSeq(q, 1, n - 1)
           b == SubSeq(q, n + 1, Len(q))
           r == a \o b
<1>1. a \in Seq(S) /\ Len(a) = n - 1 /\ \A j \in 1 .. n - 1 : a[j] = q[j]
  OBVIOUS
<1>2. b \in Seq(S) /\ Len(b) = Len(q) - n /\ \A j \in 1 .. Len(q) - n : b[j] = q[j + n]
  OBVIOUS
<1> HIDE DEF a, b
<1>3. /\ r \in Seq(S)
      /\ Len(r) = Len(q) - 1
      /\ \A i \in 1 .. Len(a) + Len(b) : r[i] = IF i <= Len(a) THEN a[i] ELSE b[i - Len(a)]
  <2>1. /\ r \in Seq(S)
        /\ Len(r) = Len(a) + Len(b)
        /\ \A i \in 1 .. Len(a) + Len(b) : r[i] = IF i <= Len(a) THEN a[i] ELSE b[i - Len(a)]
    BY <1>1, <1>2, ConcatProperties, Zenon
  <2>2. Len(a) + Len(b) = Len(q) - 1
    BY <1>1, <1>2
  <2> QED BY <2>1, <2>2
<1> HIDE DEF r
<1>4. ASSUME NEW j \in 1 .. Len(q) - 1
      PROVE  r[j] = IF j < n THEN q[j] ELSE q[j + 1]
  <2>1. j \in 1 .. Len(a) + Len(b)
    BY <1>1, <1>2
  <2>2. CASE j < n
    <3>1. j <= Len(a) /\ j \in 1 .. n - 1
      BY <1>1, <2>2
    <3>2. r[j] = a[j]
      BY <1>3, <2>1, <3>1
    <3> QED BY <1>1, <2>2, <3>1, <3>2
  <2>3. CASE j >= n
    <3>1. ~(j <= Len(a)) /\ j - Len(a) \in 1 .. Len(q) - n /\ j - Len(a) + n = j + 1 /\ ~(j < n)
      BY <1>1, <2>3
    <3>2. r[j] = b[j - Len(a)]
      BY <1>3, <2>1, <3>1
    <3>3. b[j - Len(a)] = q[j + 1]
      BY <1>2, <3>1
    <3> QED BY <3>1, <3>2, <3>3
  <2> QED BY <2>2, <2>3
<1>5. RemoveAt(q, n) = r
  BY DEF RemoveAt, a, b, r
<1> QED BY <1>3, <1>4, <1>5

(* SetToSeq() lists every element of a finite set, each of them once.      *)
LEMMA SetToSeqProperties ==
  ASSUME NEW S, IsFiniteSet(S)
  PROVE  /\ SetToSeq(S) \in Seq(S)
         /\ \A i, j \in 1 .. Len(SetToSeq(S)) :
              SetToSeq(S)[i] = SetToSeq(S)[j] => i = j
         /\ \A x \in S : \E i \in 1 .. Len(SetToSeq(S)) : SetToSeq(S)[i] = x
<1> DEFINE n == Cardinality(S)
           q == SetToSeq(S)
           T == {q[i] : i \in 1 .. n}
<1>1. n \in Nat /\ ExistsBijection(1 .. n, S)
  BY FS_CardinalityType
<1>2. \E f \in [1 .. n -> S] : IsInjective(f)
  BY <1>1 DEF ExistsBijection, Bijection, Injection, IsInjective
<1>3. q \in [1 .. n -> S] /\ IsInjective(q)
  BY <1>2 DEF SetToSeq
<1> HIDE DEF q
<1>4. q \in Seq(S) /\ Len(q) = n
  BY <1>1, <1>3
<1>5. q \in Bijection(1 .. n, T)
  BY <1>3 DEF Bijection, Injection, Surjection, IsInjective
<1>6. Cardinality(T) = n
  BY <1>1, <1>5, FS_CountingElements DEF ExistsBijection
<1>7. T = S
  BY <1>3, <1>6, FS_Subset
<1>8. /\ \A i, j \in 1 .. n : q[i] = q[j] => i = j
      /\ \A x \in S : \E i \in 1 .. n : q[i] = x
  BY <1>3, <1>7 DEF IsInjective
<1> QED BY <1>4, <1>8 DEF q

(* A set that is known by its one member, or by having none.               *)
LEMMA SetOfOne ==
  ASSUME NEW S, NEW k, \A i : i \in S <=> i = k
  PROVE  Cardinality(S) = 1
<1>1. S = {k}
  OBVIOUS
<1> QED BY <1>1, FS_Singleton

(* A set without elements.                                                 *)
LEMMA SetOfNone ==
  ASSUME NEW S, \A i : i \notin S
  PROVE  Cardinality(S) = 0
<1>1. S = {}
  OBVIOUS
<1> QED BY <1>1, FS_EmptySet
-----------------------------------------------------------------------------
(* Induction on natural numbers, over a set in the place of a predicate:   *)
(* a least number that is not in the set does not exist.                   *)
LEMMA SetInduction ==
  ASSUME NEW S, 0 \in S, \A n \in Nat : n \in S => n + 1 \in S
  PROVE  Nat \subseteq S
<1> SUFFICES ASSUME NEW x \in Nat \ S PROVE FALSE
  OBVIOUS
<1> DEFINE R == OpToRel(<, Nat)
           T == Nat \ S
<1>r. \A i, j \in Nat : <<i, j>> \in R <=> i < j
  BY DEF OpToRel
<1>w. IsWellFoundedOn(R, Nat)
  BY NatLessThanWellFounded
<1>t. T \subseteq Nat /\ T # {}
  OBVIOUS
<1> HIDE DEF R, T
<1>1. PICK n \in T : \A m \in T : ~(<<m, n>> \in R)
  BY <1>w, <1>t, WFMin, Zenon
<1> USE DEF T
<1>2. n # 0
  BY <1>1
<1>3. n - 1 \in Nat /\ n - 1 < n
  BY <1>1, <1>2
<1>5. n - 1 \in S
  BY <1>1, <1>3, <1>r
<1>4. n - 1 + 1 \in S
  BY <1>3, <1>5
<1> QED BY <1>1, <1>2, <1>4, <1>3

(* FlattenSeq() is a fold: the one function that its recursive definition  *)
(* chooses exists, and agrees with every other that obeys the equations.   *)
LEMMA FlattenSeqProperties ==
  ASSUME NEW S, NEW s \in Seq(Seq(S)), Len(s) > 0
  PROVE  \E g \in [1 .. Len(s) -> Seq(S)] :
           /\ g[1] = s[1]
           /\ \A i \in 2 .. Len(s) : g[i] = g[i - 1] \o s[i]
           /\ FlattenSeq(s) = g[Len(s)]
<1> DEFINE n == Len(s)
           Step(g, i) == IF i = 1 THEN s[i] ELSE g[i - 1] \o s[i]
           D == {k \in Nat : k <= n => \E g \in [1 .. k -> Seq(S)] :
                                          \A i \in 1 .. k : g[i] = Step(g, i)}
<1>n. n \in Nat \ {0} /\ \A i \in 1 .. n : s[i] \in Seq(S)
  OBVIOUS
<1> HIDE DEF n
<1>1. 0 \in D
  <2>1. \E g \in [1 .. 0 -> Seq(S)] : \A i \in 1 .. 0 : g[i] = Step(g, i)
    <3>1. [i \in 1 .. 0 |-> << >>] \in [1 .. 0 -> Seq(S)]
      OBVIOUS
    <3>2. \A i \in 1 .. 0 : FALSE
      OBVIOUS
    <3> QED BY <3>1, <3>2, Zenon
  <2> QED BY <2>1
<1>2. ASSUME NEW k \in Nat, k \in D PROVE k + 1 \in D
  <2> SUFFICES ASSUME k + 1 <= n
               PROVE  \E g \in [1 .. k + 1 -> Seq(S)] : \A i \in 1 .. k + 1 : g[i] = Step(g, i)
    OBVIOUS
  <2>1. PICK g \in [1 .. k -> Seq(S)] : \A i \in 1 .. k : g[i] = Step(g, i)
    BY <1>2, <1>n
  <2> DEFINE h == [i \in 1 .. k + 1 |-> IF i <= k THEN g[i] ELSE Step(g, k + 1)]
  <2>2. Step(g, k + 1) \in Seq(S)
    <3>1. s[k + 1] \in Seq(S)
      BY <1>n
    <3>2. k # 0 => g[k] \in Seq(S)
      OBVIOUS
    <3> QED BY <3>1, <3>2
  <2>3. h \in [1 .. k + 1 -> Seq(S)]
    BY <2>2
  <2>4. ASSUME NEW i \in 1 .. k + 1 PROVE h[i] = Step(h, i)
    <3>1. i # 1 => h[i - 1] = g[i - 1]
      OBVIOUS
    <3>2. CASE i <= k
      <4>1. i \in 1 .. k /\ h[i] = g[i]
        BY <3>2
      <4>2. g[i] = Step(g, i)
        BY <2>1, <4>1
      <4> HIDE DEF h
      <4> QED BY <3>1, <4>1, <4>2
    <3>3. CASE i = k + 1
      BY <3>1, <3>3
    <3> QED BY <3>2, <3>3
  <2> QED BY <2>3, <2>4
<1>3. n \in D
  <2> HIDE DEF D
  <2> QED BY <1>1, <1>2, <1>n, SetInduction
<1>4. PICK g \in [1 .. n -> Seq(S)] : \A i \in 1 .. n : g[i] = Step(g, i)
  <2>1. n <= n
    BY <1>n
  <2> QED BY <1>3, <2>1, Zenon
<1>5. g = [i \in 1 .. n |-> IF i = 1 THEN s[i] ELSE g[i - 1] \o s[i]]
  BY <1>4
<1> DEFINE f == CHOOSE f : f = [i \in 1 .. n |-> IF i = 1 THEN s[i] ELSE f[i - 1] \o s[i]]
<1>6. f = [i \in 1 .. n |-> IF i = 1 THEN s[i] ELSE f[i - 1] \o s[i]]
  BY <1>5, Zenon
<1>7. FlattenSeq(s) = f[n]
  BY <1>n, Zenon DEF FlattenSeq, n
<1> HIDE DEF f
<1> DEFINE E == {k \in Nat : k \in 1 .. n => f[k] = g[k]}
<1>8. 0 \in E
  OBVIOUS
<1>9. ASSUME NEW k \in Nat, k \in E PROVE k + 1 \in E
  <2> SUFFICES ASSUME NEW j \in 1 .. n, j = k + 1 PROVE f[j] = g[j]
    OBVIOUS
  <2>1. /\ f[j] = IF j = 1 THEN s[j] ELSE f[j - 1] \o s[j]
        /\ g[j] = IF j = 1 THEN s[j] ELSE g[j - 1] \o s[j]
    BY <1>4, <1>6
  <2>2. j # 1 => j - 1 = k /\ k \in 1 .. n
    BY <1>n
  <2>3. j # 1 => f[k] = g[k]
    BY <1>9, <2>2
  <2> HIDE DEF E
  <2> QED BY <2>1, <2>2, <2>3
<1>10. f[n] = g[n]
  <2>1. n \in E
    <3> HIDE DEF E
    <3> QED BY <1>8, <1>9, <1>n, SetInduction
  <2> QED BY <2>1, <1>n
<1>11. g[1] = s[1] /\ \A i \in 2 .. n : g[i] = g[i - 1] \o s[i]
  <2>1. g[1] = s[1]
    <3>1. 1 \in 1 .. n
      BY <1>n
    <3>2. g[1] = IF 1 = 1 THEN s[1] ELSE g[1 - 1] \o s[1]
      BY <1>4, <3>1, Zenon
    <3> QED BY <3>2
  <2>2. ASSUME NEW i \in 2 .. n PROVE g[i] = g[i - 1] \o s[i]
    <3>1. i \in 1 .. n /\ i # 1
      BY <1>n
    <3>2. g[i] = Step(g, i)
      BY <1>4, <3>1
    <3> QED BY <3>1, <3>2
  <2> QED BY <2>1, <2>2
<1> QED BY <1>7, <1>10, <1>11 DEF n

(* FlattenSeq() of sequences over S is a sequence over S.                  *)
LEMMA FlattenSeqType ==
  ASSUME NEW S, NEW s \in Seq(Seq(S))
  PROVE  FlattenSeq(s) \in Seq(S)
<1>1. CASE Len(s) = 0
  BY <1>1 DEF FlattenSeq
<1>2. CASE Len(s) > 0
  <2>1. PICK g \in [1 .. Len(s) -> Seq(S)] : FlattenSeq(s) = g[Len(s)]
    BY <1>2, FlattenSeqProperties
  <2>2. Len(s) \in 1 .. Len(s)
    BY <1>2
  <2> QED BY <2>1, <2>2
<1> QED BY <1>1, <1>2

(* FlattenSeq() of sequences with one element each.                        *)
LEMMA FlattenOfSingles ==
  ASSUME NEW S, NEW s \in Seq(Seq(S)), \A i \in DOMAIN s : Len(s[i]) = 1
  PROVE  /\ FlattenSeq(s) \in Seq(S) /\ Len(FlattenSeq(s)) = Len(s)
         /\ \A i \in DOMAIN s : FlattenSeq(s)[i] = s[i][1]
<1>1. CASE Len(s) = 0
  BY <1>1 DEF FlattenSeq
<1>2. CASE Len(s) > 0
  <2> DEFINE n == Len(s)
  <2>n. n \in Nat \ {0} /\ \A i \in 1 .. n : s[i] \in Seq(S) /\ Len(s[i]) = 1
    BY <1>2
  <2>1. PICK g \in [1 .. n -> Seq(S)] :
          /\ g[1] = s[1]
          /\ \A i \in 2 .. n : g[i] = g[i - 1] \o s[i]
          /\ FlattenSeq(s) = g[n]
    BY <1>2, FlattenSeqProperties
  <2> HIDE DEF n
  <2> DEFINE D == {k \in Nat : k \in 1 .. n =>
                     Len(g[k]) = k /\ \A i \in 1 .. k : g[k][i] = s[i][1]}
  <2>2. 0 \in D
    OBVIOUS
  <2>3. ASSUME NEW k \in Nat, k \in D PROVE k + 1 \in D
    <3> SUFFICES ASSUME NEW j \in 1 .. n, j = k + 1
                 PROVE  Len(g[j]) = j /\ \A i \in 1 .. j : g[j][i] = s[i][1]
      OBVIOUS
    <3>1. CASE j = 1
      <4>1. g[j] = s[j] /\ Len(s[j]) = 1
        BY <2>1, <2>n, <3>1
      <4>2. \A i \in 1 .. j : i = j /\ i = 1
        BY <3>1
      <4> QED BY <3>1, <4>1, <4>2
    <3>2. CASE j # 1
      <4> DEFINE a == g[k]
                 b == s[j]
      <4>1. k \in 1 .. n /\ j \in 2 .. n /\ j - 1 = k
        BY <2>n, <3>2
      <4>2. Len(a) = k /\ \A i \in 1 .. k : a[i] = s[i][1]
        BY <2>3, <4>1
      <4>3. g[j] = a \o b
        BY <2>1, <4>1
      <4>4. a \in Seq(S) /\ b \in Seq(S) /\ Len(b) = 1
        BY <2>n, <4>1
      <4> HIDE DEF D, a, b
      <4>c. /\ Len(a \o b) = Len(a) + Len(b)
            /\ \A i \in 1 .. Len(a) + Len(b) :
                 (a \o b)[i] = IF i <= Len(a) THEN a[i] ELSE b[i - Len(a)]
        BY <4>4, ConcatProperties, Zenon
      <4> DEFINE ab == a \o b
      <4> HIDE DEF ab
      <4>d. /\ Len(ab) = Len(a) + Len(b)
            /\ \A i \in 1 .. Len(a) + Len(b) :
                 ab[i] = IF i <= Len(a) THEN a[i] ELSE b[i - Len(a)]
        BY <4>c, Zenon DEF ab
      <4>5. Len(ab) = k + 1 /\ \A i \in 1 .. k : ab[i] = a[i]
        BY <4>2, <4>4, <4>d
      <4>6. ab[k + 1] = b[1]
        BY <4>2, <4>4, <4>d
      <4>7. \A i \in 1 .. j : i \in 1 .. k \/ i = k + 1
        OBVIOUS
      <4>8. \A i \in 1 .. k : ab[i] = s[i][1]
        BY <4>2, <4>5
      <4>9. ab[k + 1] = s[k + 1][1]
        BY <4>6 DEF b
      <4> QED BY <4>3, <4>5, <4>7, <4>8, <4>9 DEF ab
    <3> QED BY <3>1, <3>2
  <2>4. n \in D
    <3> HIDE DEF D
    <3> QED BY <2>2, <2>3, <2>n, SetInduction
  <2>5. Len(g[n]) = n /\ \A i \in 1 .. n : g[n][i] = s[i][1]
    <3>1. n \in 1 .. n
      BY <2>n
    <3> QED BY <2>4, <3>1, Zenon
  <2>6. g[n] \in Seq(S)
    BY <2>n
  <2> QED BY <2>1, <2>5, <2>6 DEF n
<1> QED BY <1>1, <1>2

(* Where the elements of the sequences of a sequence are in FlattenSeq():  *)
(* each after an offset, that of a later sequence behind the earlier ones. *)
LEMMA FlattenSeqPlaces ==
  ASSUME NEW S, NEW s \in Seq(Seq(S)), Len(s) > 0
  PROVE  \E off \in [1 .. Len(s) -> Nat] :
           /\ \A i \in 1 .. Len(s) : \A k \in 1 .. Len(s[i]) :
                /\ off[i] + k \in 1 .. Len(FlattenSeq(s))
                /\ FlattenSeq(s)[off[i] + k] = s[i][k]
           /\ \A p \in 1 .. Len(FlattenSeq(s)) :
                \E i \in 1 .. Len(s) : \E k \in 1 .. Len(s[i]) : p = off[i] + k
           /\ \A i, j \in 1 .. Len(s) : i < j => off[i] + Len(s[i]) <= off[j]
<1> DEFINE n == Len(s)
<1>n. n \in Nat \ {0} /\ \A i \in 1 .. n : s[i] \in Seq(S) /\ Len(s[i]) \in Nat
  OBVIOUS
<1>g. PICK g \in [1 .. n -> Seq(S)] :
        /\ g[1] = s[1]
        /\ \A i \in 2 .. n : g[i] = g[i - 1] \o s[i]
        /\ FlattenSeq(s) = g[n]
  BY FlattenSeqProperties
<1> HIDE DEF n
<1> DEFINE off == [i \in 1 .. n |-> IF i = 1 THEN 0 ELSE Len(g[i - 1])]
<1>o. off \in [1 .. n -> Nat]
  <2>1. \A i \in 1 .. n : i # 1 => Len(g[i - 1]) \in Nat
    <3>1. \A i \in 1 .. n : i # 1 => i - 1 \in 1 .. n
      BY <1>n
    <3> QED BY <1>g, <3>1
  <2> QED BY <2>1
<1>p. off[1] = 0 /\ \A i \in 2 .. n : off[i] = Len(g[i - 1])
  BY <1>n
<1> HIDE DEF off
<1> DEFINE Placed(m) ==
             /\ \A i \in 1 .. m : \A k \in 1 .. Len(s[i]) :
                  off[i] + k \in 1 .. Len(g[m]) /\ g[m][off[i] + k] = s[i][k]
             /\ \A p \in 1 .. Len(g[m]) : \E i \in 1 .. m : \E k \in 1 .. Len(s[i]) : p = off[i] + k
             /\ \A i \in 1 .. m : off[i] + Len(s[i]) <= Len(g[m])
           D == {m \in Nat : m \in 1 .. n => Placed(m)}
<1>2. 0 \in D
  OBVIOUS
<1>3. ASSUME NEW m \in Nat, m \in D PROVE m + 1 \in D
  <2> HIDE DEF Placed
  <2> SUFFICES ASSUME NEW l \in 1 .. n, l = m + 1 PROVE Placed(l)
    OBVIOUS
  <2>1. CASE l = 1
    <3>1. g[l] = s[1] /\ off[1] = 0 /\ s[1] \in Seq(S) /\ Len(s[1]) \in Nat
      BY <1>g, <1>p, <1>n, <2>1
    <3>2. \A i \in 1 .. l : i = 1
      BY <2>1
    <3>3. 1 \in 1 .. l
      BY <2>1
    <3>4. \A k \in 1 .. Len(s[1]) : 0 + k = k
      BY <3>1
    <3> QED BY <2>1, <3>1, <3>2, <3>3, <3>4 DEF Placed
  <2>2. CASE l # 1
    <3>1. m \in 1 .. n /\ l \in 2 .. n /\ l - 1 = m
      BY <1>n, <2>2
    <3>2. Placed(m)
      BY <1>3, <3>1
    <3> DEFINE a == g[m]
               b == s[l]
               ab == a \o b
    <3>3. g[l] = ab /\ off[l] = Len(a)
      BY <1>g, <1>p, <3>1
    <3>4. a \in Seq(S) /\ b \in Seq(S) /\ Len(a) \in Nat /\ Len(b) \in Nat
      BY <1>g, <1>n, <3>1
    <3>p. /\ \A i \in 1 .. m : \A k \in 1 .. Len(s[i]) :
               off[i] + k \in 1 .. Len(a) /\ a[off[i] + k] = s[i][k]
          /\ \A p \in 1 .. Len(a) : \E i \in 1 .. m : \E k \in 1 .. Len(s[i]) : p = off[i] + k
          /\ \A i \in 1 .. m : off[i] + Len(s[i]) <= Len(a)
      BY <3>2 DEF Placed
    <3>b. b = s[l]
      OBVIOUS
    <3> HIDE DEF D, a, b
    <3>5. /\ Len(ab) = Len(a) + Len(b)
          /\ \A i \in 1 .. Len(a) + Len(b) :
               ab[i] = IF i <= Len(a) THEN a[i] ELSE b[i - Len(a)]
      BY <3>4, ConcatProperties, Zenon
    <3> HIDE DEF ab
    <3>6. \A i \in 1 .. Len(a) : ab[i] = a[i]
      BY <3>4, <3>5
    <3>7. ASSUME NEW k \in 1 .. Len(b)
          PROVE  ab[Len(a) + k] = b[k] /\ Len(a) + k \in 1 .. Len(ab)
      <4>1. /\ Len(a) + k \in 1 .. Len(a) + Len(b) /\ ~(Len(a) + k <= Len(a))
            /\ (Len(a) + k) - Len(a) = k
        BY <3>4
      <4>2. ab[Len(a) + k] = b[(Len(a) + k) - Len(a)]
        BY <3>5, <4>1
      <4> QED BY <3>5, <4>1, <4>2
    <3>8. \A i \in 1 .. l : i \in 1 .. m \/ i = l
      OBVIOUS
    <3>9. \A i \in 1 .. m : i \in 1 .. l
      OBVIOUS
    <3>10. l \in 1 .. l
      BY <3>1
    <3>11. \A i \in 1 .. l : \A k \in 1 .. Len(s[i]) :
             off[i] + k \in 1 .. Len(ab) /\ ab[off[i] + k] = s[i][k]
      <4>1. ASSUME NEW i \in 1 .. m, NEW k \in 1 .. Len(s[i])
            PROVE  off[i] + k \in 1 .. Len(ab) /\ ab[off[i] + k] = s[i][k]
        <5>1. off[i] + k \in 1 .. Len(a) /\ a[off[i] + k] = s[i][k]
          BY <3>p
        <5>2. off[i] + k \in 1 .. Len(ab)
          BY <3>4, <3>5, <5>1
        <5> QED BY <3>6, <5>1, <5>2
      <4>2. ASSUME NEW k \in 1 .. Len(s[l])
            PROVE  off[l] + k \in 1 .. Len(ab) /\ ab[off[l] + k] = s[l][k]
        BY <3>3, <3>7, <3>b
      <4> QED BY <3>8, <4>1, <4>2
    <3>12. \A p \in 1 .. Len(ab) : \E i \in 1 .. l : \E k \in 1 .. Len(s[i]) : p = off[i] + k
      <4> SUFFICES ASSUME NEW p \in 1 .. Len(ab)
                   PROVE  \E i \in 1 .. l : \E k \in 1 .. Len(s[i]) : p = off[i] + k
        OBVIOUS
      <4>1. CASE p <= Len(a)
        <5>1. p \in 1 .. Len(a)
          BY <3>4, <4>1
        <5> QED BY <3>p, <3>9, <5>1
      <4>2. CASE ~(p <= Len(a))
        <5>1. p - Len(a) \in 1 .. Len(s[l]) /\ p = off[l] + (p - Len(a))
          BY <3>3, <3>4, <3>5, <3>b, <4>2
        <5> QED BY <3>10, <5>1
      <4> QED BY <4>1, <4>2
    <3>13. \A i \in 1 .. l : off[i] + Len(s[i]) <= Len(ab)
      <4>1. ASSUME NEW i \in 1 .. m PROVE off[i] + Len(s[i]) <= Len(ab)
        <5>1. off[i] \in Nat /\ Len(s[i]) \in Nat /\ off[i] + Len(s[i]) <= Len(a)
          BY <1>o, <1>n, <3>1, <3>p
        <5> QED BY <3>4, <3>5, <5>1
      <4>2. off[l] + Len(s[l]) <= Len(ab)
        BY <3>3, <3>4, <3>5, <3>b
      <4> QED BY <3>8, <4>1, <4>2
    <3> QED BY <3>3, <3>11, <3>12, <3>13 DEF Placed
  <2> QED BY <2>1, <2>2
<1>4. \A m \in 1 .. n : Placed(m)
  <2> HIDE DEF Placed
  <2>1. Nat \subseteq D
    <3> HIDE DEF D
    <3> QED BY <1>2, <1>3, SetInduction
  <2> QED BY <1>n, <2>1
<1>5. Placed(n)
  <2>1. n \in 1 .. n
    BY <1>n
  <2> HIDE DEF Placed
  <2> QED BY <1>4, <2>1
<1>6. ASSUME NEW i \in 1 .. n, NEW j \in 1 .. n, i < j PROVE off[i] + Len(s[i]) <= off[j]
  <2>1. j - 1 \in 1 .. n /\ j \in 2 .. n /\ i \in 1 .. j - 1
    BY <1>n, <1>6
  <2>2. Placed(j - 1)
    <3> HIDE DEF Placed
    <3> QED BY <1>4, <2>1
  <2>3. off[i] + Len(s[i]) <= Len(g[j - 1])
    BY <2>1, <2>2
  <2> QED BY <1>p, <2>1, <2>3
<1>7. /\ \A i \in 1 .. n : \A k \in 1 .. Len(s[i]) :
           off[i] + k \in 1 .. Len(g[n]) /\ g[n][off[i] + k] = s[i][k]
      /\ \A p \in 1 .. Len(g[n]) : \E i \in 1 .. n : \E k \in 1 .. Len(s[i]) : p = off[i] + k
  BY <1>5
<1> HIDE DEF Placed, D
<1>8. FlattenSeq(s) = g[n]
  BY <1>g
<1>9. /\ off \in [1 .. Len(s) -> Nat]
      /\ \A i \in 1 .. Len(s) : \A k \in 1 .. Len(s[i]) :
           off[i] + k \in 1 .. Len(FlattenSeq(s)) /\ FlattenSeq(s)[off[i] + k] = s[i][k]
      /\ \A p \in 1 .. Len(FlattenSeq(s)) :
           \E i \in 1 .. Len(s) : \E k \in 1 .. Len(s[i]) : p = off[i] + k
      /\ \A i, j \in 1 .. Len(s) : i < j => off[i] + Len(s[i]) <= off[j]
  <2>1. n = Len(s)
    BY DEF n
  <2>2. \A i, j \in 1 .. n : i < j => off[i] + Len(s[i]) <= off[j]
    BY <1>6
  <2> QED BY <1>o, <1>7, <1>8, <2>1, <2>2, Zenon
<1> QED BY <1>9, Zenon
-----------------------------------------------------------------------------
(* How many places of a sequence hold an element of X.                     *)

Count(q, X) == Cardinality({i \in DOMAIN q : q[i] \in X})

(* It is a number, and 0 if there is no such place.                        *)
LEMMA CountType ==
  ASSUME NEW S, NEW q \in Seq(S), NEW X
  PROVE  /\ IsFiniteSet({i \in DOMAIN q : q[i] \in X})
         /\ Count(q, X) \in Nat
         /\ Count(q, X) = 0 <=> \A i \in DOMAIN q : q[i] \notin X
<1> DEFINE I == {i \in DOMAIN q : q[i] \in X}
<1>1. DOMAIN q = 1 .. Len(q) /\ Len(q) \in Nat
  OBVIOUS
<1>2. IsFiniteSet(1 .. Len(q))
  BY <1>1, FS_Interval
<1>3. IsFiniteSet(I)
  BY <1>1, <1>2, FS_Subset
<1>4. Cardinality(I) \in Nat /\ (Cardinality(I) = 0 <=> I = {})
  BY <1>3, FS_CardinalityType, FS_EmptySet
<1> QED BY <1>3, <1>4 DEF Count

(* One after the other, two sequences have what each of them has.          *)
LEMMA CountConcat ==
  ASSUME NEW S, NEW p \in Seq(S), NEW q \in Seq(S), NEW X
  PROVE  Count(p \o q, X) = Count(p, X) + Count(q, X)
<1> DEFINE r == p \o q
           n == Len(p)
           m == Len(q)
           I == {i \in 1 .. n : p[i] \in X}
           J == {i \in 1 .. m : q[i] \in X}
           K == {i \in 1 .. m + n : i > n /\ r[i] \in X}
           f == [i \in J |-> i + n]
<1>1. n \in Nat /\ m \in Nat /\ DOMAIN p = 1 .. n /\ DOMAIN q = 1 .. m
  OBVIOUS
<1>2. /\ r \in Seq(S) /\ Len(r) = n + m
      /\ \A i \in 1 .. n + m : r[i] = IF i <= n THEN p[i] ELSE q[i - n]
  BY ConcatProperties, Zenon
<1>d. DOMAIN r = 1 .. n + m
  BY <1>2
<1> HIDE DEF r, n, m
<1>3. IsFiniteSet(I) /\ IsFiniteSet(J) /\ Cardinality(I) = Count(p, X) /\ Cardinality(J) = Count(q, X)
  BY <1>1, CountType DEF Count
<1>4. f \in Bijection(J, K)
  <2>1. \A i \in J : f[i] \in K
    BY <1>1, <1>2
  <2>2. \A i, j \in J : f[i] = f[j] => i = j
    BY <1>1
  <2>3. ASSUME NEW k \in K PROVE \E i \in J : f[i] = k
    <3>1. k - n \in J /\ f[k - n] = k
      BY <1>1, <1>2
    <3> QED BY <3>1
  <2>4. f \in [J -> K]
    BY <2>1
  <2> HIDE DEF f, J, K
  <2> QED BY <2>2, <2>3, <2>4 DEF Bijection, Injection, Surjection, IsInjective
<1>5. IsFiniteSet(K) /\ Cardinality(K) = Cardinality(J)
  <2> HIDE DEF f, J, K
  <2>1. ExistsBijection(J, K)
    BY <1>4 DEF ExistsBijection
  <2> QED BY <1>3, <2>1, FS_Bijection
<1>6. {i \in DOMAIN r : r[i] \in X} = I \cup K
  <2>1. \A i \in 1 .. n + m : i \in 1 .. n \/ i > n
    BY <1>1
  <2>2. \A i \in 1 .. n : i \in 1 .. n + m /\ r[i] = p[i]
    BY <1>1, <1>2
  <2> QED BY <1>1, <1>2, <1>d, <2>1, <2>2
<1>7. I \cap K = {}
  BY <1>1
<1>8. Cardinality(I \cup K) = Cardinality(I) + Cardinality(K)
  <2> HIDE DEF I, K
  <2>1. Cardinality(I) \in Nat /\ Cardinality(K) \in Nat
    BY <1>3, <1>5, FS_CardinalityType
  <2>2. Cardinality(I \cup K) = Cardinality(I) + Cardinality(K) - Cardinality(I \cap K)
    BY <1>3, <1>5, FS_Union
  <2>3. Cardinality(I \cap K) = 0
    BY <1>7, FS_EmptySet
  <2> QED BY <2>1, <2>2, <2>3
<1> QED BY <1>3, <1>5, <1>6, <1>8 DEF Count, r

(* A sequence of one.                                                      *)
LEMMA CountOne ==
  ASSUME NEW e, NEW X
  PROVE  Count(<<e>>, X) = IF e \in X THEN 1 ELSE 0
<1> DEFINE I == {i \in DOMAIN <<e>> : <<e>>[i] \in X}
<1>1. \A i : i \in I <=> i = 1 /\ e \in X
  OBVIOUS
<1> HIDE DEF I
<1>2. e \in X => Cardinality(I) = 1
  <2> SUFFICES ASSUME e \in X PROVE Cardinality(I) = 1
    OBVIOUS
  <2>1. \A i : i \in I <=> i = 1
    BY <1>1
  <2> QED BY <2>1, SetOfOne
<1>3. e \notin X => Cardinality(I) = 0
  BY <1>1, SetOfNone, Zenon
<1> QED BY <1>2, <1>3 DEF Count, I

(* Append() adds the element, Tail() takes the head off, RemoveAt() the    *)
(* element at n.                                                           *)
LEMMA CountAppend ==
  ASSUME NEW S, NEW q \in Seq(S), NEW e \in S, NEW X
  PROVE  Count(Append(q, e), X) = Count(q, X) + (IF e \in X THEN 1 ELSE 0)
<1>1. Append(q, e) = q \o <<e>> /\ <<e>> \in Seq(S)
  BY AppendIsConcat
<1>2. Count(q \o <<e>>, X) = Count(q, X) + Count(<<e>>, X)
  BY <1>1, CountConcat
<1> QED BY <1>1, <1>2, CountOne

LEMMA CountTail ==
  ASSUME NEW S, NEW q \in Seq(S), q # << >>, NEW X
  PROVE  Count(q, X) = Count(Tail(q), X) + (IF Head(q) \in X THEN 1 ELSE 0)
<1>1. q = <<Head(q)>> \o Tail(q) /\ Head(q) \in S /\ Tail(q) \in Seq(S) /\ <<Head(q)>> \in Seq(S)
  OBVIOUS
<1>2. Count(<<Head(q)>> \o Tail(q), X) = Count(<<Head(q)>>, X) + Count(Tail(q), X)
  BY <1>1, CountConcat
<1>3. Count(<<Head(q)>>, X) = IF Head(q) \in X THEN 1 ELSE 0
  BY CountOne
<1>4. Count(Tail(q), X) \in Nat
  BY <1>1, CountType
<1>5. Count(q, X) = Count(<<Head(q)>> \o Tail(q), X)
  BY <1>1
<1> QED BY <1>2, <1>3, <1>4, <1>5

LEMMA CountRemoveAt ==
  ASSUME NEW S, NEW q \in Seq(S), NEW n \in 1 .. Len(q), NEW X
  PROVE  Count(q, X) = Count(RemoveAt(q, n), X) + (IF q[n] \in X THEN 1 ELSE 0)
<1> DEFINE a == SubSeq(q, 1, n - 1)
           b == SubSeq(q, n + 1, Len(q))
<1>1. a \in Seq(S) /\ b \in Seq(S) /\ q[n] \in S /\ Append(a, q[n]) \in Seq(S)
  OBVIOUS
<1>2. q = Append(a, q[n]) \o b
  <2>1. SubSeq(q, 1, n) = Append(a, q[n])
    OBVIOUS
  <2>2. SubSeq(q, 1, n) \o b = SubSeq(q, 1, Len(q)) /\ SubSeq(q, 1, Len(q)) = q
    BY ConcatAdjacentSubSeq
  <2> QED BY <2>1, <2>2
<1> HIDE DEF a, b
<1>3. Count(Append(a, q[n]) \o b, X) = Count(Append(a, q[n]), X) + Count(b, X)
  BY <1>1, CountConcat, Zenon
<1>e. PICK e \in S : e = q[n]
  BY <1>1
<1>4. Count(Append(a, q[n]), X) = Count(a, X) + (IF q[n] \in X THEN 1 ELSE 0)
  <2>1. Count(Append(a, e), X) = Count(a, X) + (IF e \in X THEN 1 ELSE 0)
    BY <1>1, CountAppend
  <2> QED BY <1>e, <2>1
<1>5. Count(a \o b, X) = Count(a, X) + Count(b, X)
  BY <1>1, CountConcat, Zenon
<1>6. Count(a, X) \in Nat /\ Count(b, X) \in Nat
  BY <1>1, CountType
<1>7. RemoveAt(q, n) = a \o b
  BY DEF RemoveAt, a, b
<1>8. Count(q, X) = Count(Append(a, q[n]) \o b, X)
  BY <1>2
<1>9. Count(RemoveAt(q, n), X) = Count(a \o b, X)
  BY <1>7
<1> QED BY <1>3, <1>4, <1>5, <1>6, <1>8, <1>9

-----------------------------------------------------------------------------
(* Sequences of elements that are known to be in a smaller or larger set.  *)
LEMMA SeqWidens ==
  ASSUME NEW S, NEW T, S \subseteq T, NEW q \in Seq(S)
  PROVE  q \in Seq(T)
OBVIOUS

LEMMA CountZero ==
  ASSUME NEW S, NEW q \in Seq(S), NEW X, Count(q, X) = 0
  PROVE  q \in Seq(S \ X)
<1>1. \A i \in DOMAIN q : q[i] \notin X
  BY CountType
<1> QED BY <1>1

(* A prefix, place by place.                                               *)
LEMMA PrefixOf ==
  ASSUME NEW S, NEW T, NEW s \in Seq(S), NEW t \in Seq(T)
  PROVE  IsPrefix(s, t) <=> Len(s) <= Len(t) /\ \A i \in 1 .. Len(s) : s[i] = t[i]
<1> SUFFICES ASSUME Len(s) <= Len(t)
             PROVE  SubSeq(s, 1, Len(s)) = SubSeq(t, 1, Len(s)) <=> \A i \in 1 .. Len(s) : s[i] = t[i]
  BY DEF IsPrefix
<1> DEFINE a == SubSeq(s, 1, Len(s))
           b == SubSeq(t, 1, Len(s))
<1>1. /\ a \in Seq(S) /\ Len(a) = Len(s)
      /\ \A i \in 1 .. Len(s) : a[i] = s[i]
  OBVIOUS
<1>2. /\ b \in Seq(T) /\ Len(b) = Len(s)
      /\ \A i \in 1 .. Len(s) : b[i] = t[i]
  OBVIOUS
<1> HIDE DEF a, b
<1>3. a = b <=> \A i \in 1 .. Len(s) : a[i] = b[i]
  BY <1>1, <1>2
<1> QED BY <1>1, <1>2, <1>3 DEF a, b

LEMMA PrefixOfAppend ==
  ASSUME NEW S, NEW T, NEW s \in Seq(S), NEW t \in Seq(T), IsPrefix(s, t), NEW e \in T
  PROVE  IsPrefix(s, Append(t, e))
<1>1. Len(s) <= Len(t) /\ \A i \in 1 .. Len(s) : s[i] = t[i]
  BY PrefixOf
<1>2. /\ Append(t, e) \in Seq(T) /\ Len(Append(t, e)) = Len(t) + 1 /\ Len(t) \in Nat /\ Len(s) \in Nat
      /\ \A i \in 1 .. Len(t) : Append(t, e)[i] = t[i]
  OBVIOUS
<1>3. Len(s) <= Len(Append(t, e)) /\ \A i \in 1 .. Len(s) : s[i] = Append(t, e)[i]
  BY <1>1, <1>2
<1> QED BY <1>2, <1>3, PrefixOf

(* The next one of what is followed.                                       *)
LEMMA PrefixGrows ==
  ASSUME NEW S, NEW T, NEW s \in Seq(S), NEW t \in Seq(T), IsPrefix(s, t), Len(s) < Len(t)
  PROVE  IsPrefix(s \o <<t[Len(s) + 1]>>, t)
<1>1. Len(s) <= Len(t) /\ \A i \in 1 .. Len(s) : s[i] = t[i]
  BY PrefixOf
<1>2. PICK e \in T : e = t[Len(s) + 1]
  OBVIOUS
<1>3. s \in Seq(S \cup T) /\ <<e>> \in Seq(S \cup T) /\ Len(<<e>>) = 1 /\ <<e>>[1] = e
  OBVIOUS
<1> DEFINE r == s \o <<e>>
<1>4. /\ r \in Seq(S \cup T) /\ Len(r) = Len(s) + 1 /\ Len(s) \in Nat
      /\ \A i \in 1 .. Len(s) : r[i] = s[i]
      /\ r[Len(s) + 1] = e
  BY <1>3, ConcatProperties
<1> HIDE DEF r
<1>5. Len(r) <= Len(t) /\ \A i \in 1 .. Len(r) : r[i] = t[i]
  BY <1>1, <1>2, <1>4
<1>6. IsPrefix(r, t)
  BY <1>4, <1>5, PrefixOf
<1> QED BY <1>2, <1>6 DEF r
=============================================================================
