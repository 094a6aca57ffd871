--------------------------- MODULE PicQueueProofs ---------------------------
(***************************************************************************)
(* Proofs about the event queue for every number of entries, length of a   *)
(* millisecond, delay and overrun of a slice: no entry is lost or freed    *)
(* twice, an event fires late by no more than the cores overrun a slice,   *)
(* the clock steps back only at the end of a millisecond or where code     *)
(* gives itself cycles, by a bounded amount, and the queue implements      *)
(* EventSchedule.                                                          *)
(***************************************************************************)
EXTENDS PicQueueTime, FiniteSetTheorems, WellFoundedInduction, TLAPS

-----------------------------------------------------------------------------
(* Arithmetic *)

LEMMA Order ==
  ASSUME NEW x \in Int, NEW y \in Int, x <= y
  PROVE  x * Sub <= y * Sub
BY CycleAssumption

\* The conversion drops less than a cycle.
LEMMA Truncated ==
  ASSUME NEW p \in Int
  PROVE  WholeCycles(p) \in Int /\ p > (WholeCycles(p) - 1) * Sub
<1>1. CASE p >= 0
  <2>1. p \div Sub \in Int /\ p >= (p \div Sub) * Sub
    BY CycleAssumption
  <2> QED
    BY <1>1, <2>1, CycleAssumption DEF WholeCycles
<1>2. CASE p < 0
  <2> DEFINE w == (-p) \div Sub
  <2>1. w \in Int /\ -p < (w + 1) * Sub
    BY CycleAssumption
  <2>2. WholeCycles(p) = -w
    BY <1>2 DEF WholeCycles
  <2>3. (w + 1) * Sub = -((-w - 1) * Sub)
    BY <2>1, CycleAssumption
  <2> QED
    BY <2>1, <2>2, <2>3, CycleAssumption
<1> QED
  BY <1>1, <1>2

\* A set of numbers that is not empty has a least one.
LEMMA Least ==
  ASSUME NEW S \in SUBSET Nat, S # {}
  PROVE  \E n \in S : \A m \in S : n <= m
<1>1. PICK n \in S : \A m \in S : ~(<<m, n>> \in OpToRel(<, Nat))
  BY WFMin, NatLessThanWellFounded
<1>2. \A m \in S : m \in Nat /\ n \in Nat /\ ~(m < n)
  BY <1>1 DEF OpToRel
<1>3. \A m \in S : n <= m
  BY <1>2
<1> QED
  BY <1>3

\* A set that holds 0 and with every number the next one holds all of them.
LEMMA Induction ==
  ASSUME NEW S \in SUBSET Nat, 0 \in S, \A n \in S : n + 1 \in S
  PROVE  S = Nat
<1> SUFFICES ASSUME Nat \ S # {}
             PROVE  FALSE
  OBVIOUS
<1>1. PICK n \in Nat \ S : \A m \in Nat \ S : n <= m
  BY Least
<1>2. n \in Nat /\ n # 0 /\ n - 1 \in Nat /\ ~(n <= n - 1) /\ (n - 1) + 1 = n
  BY <1>1
<1>3. n - 1 \in S
  BY <1>1, <1>2
<1> QED
  BY <1>1, <1>2, <1>3

-----------------------------------------------------------------------------
(* The list operations *)

Sorted(q) == \A j, k \in 1..Len(q) : j <= k => q[j].at <= q[k].at

LEMMA EntriesOf ==
  ASSUME NEW q \in Seq(Entry)
  PROVE  Len(q) \in Nat /\ \A k \in 1..Len(q) : q[k] \in Entry /\ q[k].at \in Int
<1>1. Len(q) \in Nat /\ \A k \in 1..Len(q) : q[k] \in Entry
  OBVIOUS
<1>2. \A e \in Entry : e.at \in Int
  BY DEF Entry
<1> QED
  BY <1>1, <1>2

\* In a sorted list the entries due no later than some time are the first ones,
\* as many as there are.
LEMMA NoLater ==
  ASSUME NEW q \in Seq(Entry), Sorted(q), NEW t \in Int
  PROVE  LET n == Cardinality({k \in 1..Len(q) : q[k].at <= t})
         IN /\ n \in 0..Len(q)
            /\ \A k \in 1..Len(q) : k <= n <=> q[k].at <= t
<1> DEFINE K == {k \in 1..Len(q) : q[k].at <= t}
           later == {k \in 1..Len(q) + 1 : k \notin K}
<1>1. Len(q) \in Nat /\ \A k \in 1..Len(q) : q[k] \in Entry /\ q[k].at \in Int
  BY EntriesOf
<1>2. later \in SUBSET Nat /\ Len(q) + 1 \in later
  BY <1>1
<1>3. PICK n \in later : \A m \in later : n <= m
  BY <1>2, Least
<1>4. n - 1 \in 0..Len(q) /\ n \in 1..Len(q) + 1
  BY <1>1, <1>3
<1>5. \A k \in 1..Len(q) : k < n => k \in K
  BY <1>1, <1>3, <1>4
<1>6. \A k \in K : k < n
  <2> SUFFICES ASSUME NEW k \in K, ~(k < n)
               PROVE  FALSE
    OBVIOUS
  <2>1. n \in 1..Len(q) /\ n <= k
    BY <1>1, <1>4
  <2>2. q[n].at <= q[k].at /\ q[n].at > t
    BY <1>1, <1>3, <2>1 DEF Sorted
  <2> QED
    BY <1>1, <2>1, <2>2
<1>7. K = 1..n - 1
  BY <1>1, <1>4, <1>5, <1>6
<1> HIDE DEF K
<1>8. Cardinality(K) = n - 1
  <2>1. Cardinality(1..n - 1) = n - 1
    BY <1>4, FS_Interval
  <2> QED
    BY <1>7, <2>1
<1>9. \A k \in 1..Len(q) : k <= n - 1 <=> k \in K
  BY <1>4, <1>7
<1> QED
  BY <1>4, <1>8, <1>9 DEF K

LEMMA InsertSorted ==
  ASSUME NEW q \in Seq(Entry), Sorted(q), NEW e \in Entry
  PROVE  LET r == Insert(q, e)
         IN /\ r \in Seq(Entry) /\ Len(r) = Len(q) + 1
            /\ Sorted(r)
            /\ Elems(r) = Elems(q) \cup {e}
<1> DEFINE n == Cardinality({k \in 1..Len(q) : q[k].at <= e.at})
           r == Insert(q, e)
<1>1. e.at \in Int
  BY DEF Entry
<1>2. n \in 0..Len(q) /\ \A k \in 1..Len(q) : k <= n <=> q[k].at <= e.at
  BY <1>1, NoLater
<1> HIDE DEF n
<1>3. r = SubSeq(q, 1, n) \o <<e>> \o SubSeq(q, n + 1, Len(q))
  BY DEF r, Insert, n
<1> HIDE DEF r
<1>4. /\ r \in Seq(Entry) /\ Len(r) = Len(q) + 1
      /\ \A k \in 1..n : r[k] = q[k]
      /\ r[n + 1] = e
      /\ \A k \in n + 2..Len(q) + 1 : r[k] = q[k - 1]
  <2> DEFINE a == SubSeq(q, 1, n)
             b == SubSeq(q, n + 1, Len(q))
  <2>1. a \in Seq(Entry) /\ Len(a) = n /\ \A k \in 1..n : a[k] = q[k]
    BY <1>2
  <2>2. b \in Seq(Entry) /\ Len(b) = Len(q) - n /\ \A k \in 1..Len(q) - n : b[k] = q[n + k]
    BY <1>2
  <2> HIDE DEF a, b
  <2>3. /\ r \in Seq(Entry) /\ Len(r) = Len(a) + 1 + Len(b)
        /\ \A k \in 1..Len(a) : r[k] = a[k]
        /\ r[Len(a) + 1] = e
        /\ \A k \in Len(a) + 2..Len(a) + 1 + Len(b) : r[k] = b[k - Len(a) - 1]
    <3>1. r = a \o <<e>> \o b
      BY <1>3 DEF a, b
    <3>2. a \in Seq(Entry) /\ b \in Seq(Entry) /\ e \in Entry
      BY <2>1, <2>2
    <3> QED
      BY <3>1, <3>2
  <2>4. ASSUME NEW k \in n + 2..Len(q) + 1
        PROVE  r[k] = q[k - 1]
    <3>1. k - n - 1 \in 1..Len(q) - n /\ n + (k - n - 1) = k - 1
      BY <1>2, EntriesOf
    <3>2. r[k] = b[k - n - 1]
      BY <1>2, <2>1, <2>2, <2>3, EntriesOf
    <3> QED
      BY <2>2, <3>1, <3>2
  <2>5. n \in Nat /\ Len(q) \in Nat
    BY <1>2, EntriesOf
  <2>6. Len(r) = Len(q) + 1
    BY <2>1, <2>2, <2>3, <2>5
  <2>7. \A k \in 1..n : r[k] = q[k]
    BY <2>1, <2>3
  <2>8. r \in Seq(Entry) /\ r[n + 1] = e
    BY <2>1, <2>3
  <2> QED
    BY <2>4, <2>6, <2>7, <2>8
<1>5. Len(q) \in Nat /\ \A k \in 1..Len(q) : q[k].at \in Int
  BY EntriesOf
<1>6. Sorted(r)
  <2> SUFFICES ASSUME NEW j \in 1..Len(r), NEW k \in 1..Len(r), j <= k
               PROVE  r[j].at <= r[k].at
    BY DEF Sorted
  <2>1. CASE k <= n
    BY <1>2, <1>4, <1>5, <2>1 DEF Sorted
  <2>2. CASE k = n + 1
    BY <1>1, <1>2, <1>4, <1>5, <2>2
  <2>3. CASE k > n + 1
    <3>1. k - 1 \in 1..Len(q) /\ r[k] = q[k - 1] /\ q[k - 1].at > e.at
      BY <1>1, <1>2, <1>4, <1>5, <2>3
    <3>2. CASE j <= n
      <4>1. j \in 1..Len(q) /\ r[j] = q[j] /\ q[j].at <= e.at
        BY <1>2, <1>4, <1>5, <3>2
      <4> QED
        BY <1>1, <1>5, <3>1, <4>1
    <3>3. CASE j = n + 1
      BY <1>1, <1>4, <1>5, <3>1, <3>3
    <3>4. CASE j > n + 1
      <4>1. j - 1 \in 1..Len(q) /\ r[j] = q[j - 1] /\ j - 1 <= k - 1
        BY <1>2, <1>4, <1>5, <3>4
      <4> QED
        BY <3>1, <4>1 DEF Sorted
    <3> QED
      BY <1>2, <3>2, <3>3, <3>4
  <2> QED
    BY <1>2, <1>5, <2>1, <2>2, <2>3
<1>7. Elems(r) = Elems(q) \cup {e}
  <2>1. \A k \in 1..Len(r) : r[k] \in Elems(q) \cup {e}
    <3> SUFFICES ASSUME NEW k \in 1..Len(r)
                 PROVE  r[k] \in Elems(q) \cup {e}
      OBVIOUS
    <3>1. CASE k <= n
      <4>1. k \in 1..Len(q) /\ r[k] = q[k]
        BY <1>2, <1>4, <1>5, <3>1
      <4> QED
        BY <4>1 DEF Elems
    <3>2. CASE k = n + 1
      BY <1>4, <3>2
    <3>3. CASE k > n + 1
      <4>1. k - 1 \in 1..Len(q) /\ r[k] = q[k - 1]
        BY <1>2, <1>4, <1>5, <3>3
      <4> QED
        BY <4>1 DEF Elems
    <3> QED
      BY <1>2, <3>1, <3>2, <3>3
  <2>2. e \in Elems(r)
    <3>1. n + 1 \in 1..Len(r) /\ r[n + 1] = e
      BY <1>2, <1>4, <1>5
    <3> QED
      BY <3>1 DEF Elems
  <2>3. \A k \in 1..Len(q) : q[k] \in Elems(r)
    <3> SUFFICES ASSUME NEW k \in 1..Len(q)
                 PROVE  \E j \in 1..Len(r) : r[j] = q[k]
      BY DEF Elems
    <3>1. CASE k <= n
      BY <1>2, <1>4, <1>5, <3>1
    <3>2. CASE k > n
      <4>1. k + 1 \in n + 2..Len(q) + 1 /\ k + 1 \in 1..Len(r) /\ (k + 1) - 1 = k
        BY <1>2, <1>4, <1>5, <3>2
      <4> QED
        BY <1>4, <4>1
    <3> QED
      BY <1>2, <3>1, <3>2
  <2> QED
    BY <2>1, <2>2, <2>3 DEF Elems
<1> QED
  BY <1>4, <1>6, <1>7 DEF r

-----------------------------------------------------------------------------
(* Cancelling *)

\* The function that Of defines exists.
LEMMA OfFunction ==
  ASSUME NEW q \in Seq(Entry), NEW evs
  PROVE  \E f : /\ f = [k \in 0..Len(q) |->
                          IF k = 0 THEN <<>>
                          ELSE IF q[k].ev \in evs THEN Append(f[k - 1], q[k]) ELSE f[k - 1]]
               /\ Of(q, evs) = f[Len(q)]
<1> DEFINE Grow(r, k) == IF q[k].ev \in evs THEN Append(r, q[k]) ELSE r
           Step(f, k) == IF k = 0 THEN <<>> ELSE Grow(f[k - 1], k)
           UpTo(n) == \E f : f = [k \in 0..n |-> Step(f, k)]
           good == {n \in Nat : UpTo(n)}
<1> HIDE DEF Grow
<1>1. UpTo(0)
  <2>1. [k \in 0..0 |-> <<>>] = [k \in 0..0 |-> Step([i \in 0..0 |-> <<>>], k)]
    OBVIOUS
  <2> QED
    BY <2>1
<1>2. ASSUME NEW n \in Nat, UpTo(n)
      PROVE  UpTo(n + 1)
  <2>1. PICK f : f = [k \in 0..n |-> Step(f, k)]
    BY <1>2
  <2> DEFINE g == [k \in 0..n + 1 |-> IF k = n + 1 THEN Step(f, n + 1) ELSE f[k]]
  <2>2. \A k \in 0..n : g[k] = f[k]
    OBVIOUS
  <2>3. \A k \in 0..n + 1 : Step(g, k) = Step(f, k)
    <3> HIDE DEF g
    <3>1. \A k \in 0..n + 1 : k = 0 \/ g[k - 1] = f[k - 1]
      BY <2>2
    <3> QED
      BY <3>1
  <2>4. \A k \in 0..n : f[k] = Step(f, k)
    <3> HIDE DEF Step
    <3> QED
      BY <2>1
  <2>5. \A k \in 0..n + 1 : g[k] = Step(g, k)
    <3> HIDE DEF Step
    <3> QED
      BY <2>3, <2>4
  <2>6. g = [k \in 0..n + 1 |-> Step(g, k)]
    <3> HIDE DEF Step
    <3> QED
      BY <2>5
  <2> QED
    BY <2>6
<1>3. good = Nat
  <2> HIDE DEF UpTo
  <2>1. good \in SUBSET Nat /\ 0 \in good /\ \A n \in good : n + 1 \in good
    BY <1>1, <1>2
  <2> HIDE DEF good
  <2> QED
    BY <2>1, Induction
<1>4. UpTo(Len(q))
  <2> HIDE DEF UpTo
  <2>1. Len(q) \in Nat
    OBVIOUS
  <2> QED
    BY <1>3, <2>1
<1> DEFINE h == CHOOSE f : f = [k \in 0..Len(q) |-> Step(f, k)]
<1>5. h = [k \in 0..Len(q) |-> Step(h, k)]
  <2> HIDE DEF Step
  <2> QED
    BY <1>4
<1>6. Of(q, evs) = h[Len(q)]
  BY DEF Of, Grow
<1>7. h = [k \in 0..Len(q) |->
             IF k = 0 THEN <<>>
             ELSE IF q[k].ev \in evs THEN Append(h[k - 1], q[k]) ELSE h[k - 1]]
  BY <1>5 DEF Grow
<1> HIDE DEF h
<1> QED
  BY <1>6, <1>7

\* What is collected of a sorted list is sorted, and is what it should be.
LEMMA OfSorted ==
  ASSUME NEW q \in Seq(Entry), Sorted(q), NEW evs
  PROVE  LET r == Of(q, evs)
         IN /\ r \in Seq(Entry)
            /\ Sorted(r)
            /\ Elems(r) = {e \in Elems(q) : e.ev \in evs}
<1>1. PICK f : /\ f = [k \in 0..Len(q) |->
                       IF k = 0 THEN <<>>
                       ELSE IF q[k].ev \in evs THEN Append(f[k - 1], q[k]) ELSE f[k - 1]]
               /\ Of(q, evs) = f[Len(q)]
  BY OfFunction
<1>2. /\ Len(q) \in Nat
      /\ \A k \in 1..Len(q) : q[k] \in Entry /\ q[k].at \in Int
  BY EntriesOf
<1>3. f[0] = <<>> /\ \A k \in 0..Len(q) - 1 :
        f[k + 1] = IF q[k + 1].ev \in evs THEN Append(f[k], q[k + 1]) ELSE f[k]
  <2>1. f[0] = <<>>
    BY <1>1, <1>2
  <2>2. ASSUME NEW k \in 0..Len(q) - 1
        PROVE  f[k + 1] = IF q[k + 1].ev \in evs THEN Append(f[k], q[k + 1]) ELSE f[k]
    <3>1. k + 1 \in 0..Len(q) /\ k + 1 # 0 /\ (k + 1) - 1 = k
      BY <1>2
    <3> QED
      BY <1>1, <3>1
  <2> QED
    BY <2>1, <2>2
<1> DEFINE From(n) == {q[k] : k \in {j \in 1..n : q[j].ev \in evs}}
           Collects(n) == f[n] \in Seq(Entry) /\ Sorted(f[n]) /\ Elems(f[n]) = From(n)
           good == {n \in Nat : n <= Len(q) => Collects(n)}
<1>4. Collects(0)
  <2>1. Sorted(<<>>) /\ Elems(<<>>) = {} /\ <<>> \in Seq(Entry) /\ From(0) = {}
    BY DEF Sorted, Elems
  <2> QED
    BY <1>3, <2>1
<1>5. ASSUME NEW n \in Nat, n + 1 <= Len(q), Collects(n)
      PROVE  Collects(n + 1)
  <2>1. n \in 0..Len(q) - 1 /\ n + 1 \in 1..Len(q) /\ n <= Len(q)
    BY <1>2, <1>5
  <2> DEFINE e == q[n + 1]
  <2>2. e \in Entry /\ e.at \in Int
    BY <1>2, <2>1
  <2>3. CASE e.ev \notin evs
    <3>1. f[n + 1] = f[n]
      BY <1>3, <2>1, <2>3
    <3>2. {j \in 1..n + 1 : q[j].ev \in evs} = {j \in 1..n : q[j].ev \in evs}
      BY <2>1, <2>3
    <3> QED
      BY <1>5, <3>1, <3>2
  <2>4. CASE e.ev \in evs
    <3> DEFINE r == f[n]
               s == f[n + 1]
    <3>1. s = Append(r, e) /\ r \in Seq(Entry)
      BY <1>3, <1>5, <2>1, <2>4
    <3>2. {j \in 1..n + 1 : q[j].ev \in evs} = {j \in 1..n : q[j].ev \in evs} \cup {n + 1}
      BY <2>1, <2>4
    <3>3. From(n + 1) = From(n) \cup {e}
      BY <3>2
    <3>4. \A x \in Elems(r) : x.at <= e.at
      <4>1. \A k \in 1..n : q[k].at <= e.at
        BY <1>2, <2>1 DEF Sorted
      <4> QED
        BY <1>5, <4>1
    <3>5. Sorted(r) /\ Elems(r) = From(n)
      BY <1>5
    <3> HIDE DEF r, s, e, From
    <3>6. /\ s \in Seq(Entry) /\ Len(s) = Len(r) + 1 /\ Len(r) \in Nat
          /\ \A k \in 1..Len(r) : s[k] = r[k]
          /\ s[Len(r) + 1] = e
      BY <2>2, <3>1
    <3>7. Elems(s) = Elems(r) \cup {e}
      <4>1. 1..Len(s) = 1..Len(r) \cup {Len(r) + 1}
        BY <3>6
      <4> QED
        BY <3>6, <4>1 DEF Elems
    <3>8. Sorted(s)
      <4> SUFFICES ASSUME NEW j \in 1..Len(s), NEW k \in 1..Len(s), j <= k
                   PROVE  s[j].at <= s[k].at
        BY DEF Sorted
      <4>1. CASE k <= Len(r)
        BY <3>5, <3>6, <4>1 DEF Sorted
      <4>2. CASE j <= Len(r) /\ k = Len(r) + 1
        <5>1. s[j] \in Elems(r) /\ s[k] = e
          BY <3>6, <4>2 DEF Elems
        <5> QED
          BY <3>4, <5>1
      <4>3. CASE j = Len(r) + 1 /\ k = Len(r) + 1
        BY <2>2, <3>6, <4>3
      <4> QED
        BY <3>6, <4>1, <4>2, <4>3
    <3> QED
      BY <3>3, <3>5, <3>6, <3>7, <3>8 DEF s
  <2> QED
    BY <2>3, <2>4
<1>6. good = Nat
  <2> HIDE DEF Collects
  <2>1. good \in SUBSET Nat /\ 0 \in good
    BY <1>4
  <2>2. \A n \in good : n + 1 \in good
    BY <1>2, <1>5
  <2> HIDE DEF good
  <2> QED
    BY <2>1, <2>2, Induction
<1>7. Collects(Len(q))
  <2> HIDE DEF Collects
  <2> QED
    BY <1>2, <1>6
<1>8. From(Len(q)) = {e \in Elems(q) : e.ev \in evs}
  BY <1>2 DEF Elems
<1> QED
  BY <1>1, <1>7, <1>8

LEMMA OneMore ==
  ASSUME NEW r \in Seq(Entry), NEW e \in Entry
  PROVE  Append(r, e) \in Seq(Entry) /\ Len(Append(r, e)) = Len(r) + 1
OBVIOUS

\* What is cancelled and what is kept are the whole list.
LEMMA OfAll ==
  ASSUME NEW q \in Seq(Entry), NEW evs
  PROVE  Len(Of(q, evs)) + Len(Of(q, Events \ evs)) = Len(q)
<1>1. PICK f : /\ f = [k \in 0..Len(q) |->
                       IF k = 0 THEN <<>>
                       ELSE IF q[k].ev \in evs THEN Append(f[k - 1], q[k]) ELSE f[k - 1]]
               /\ Of(q, evs) = f[Len(q)]
  BY OfFunction
<1>2. PICK g : /\ g = [k \in 0..Len(q) |->
                       IF k = 0 THEN <<>>
                       ELSE IF q[k].ev \in Events \ evs THEN Append(g[k - 1], q[k]) ELSE g[k - 1]]
               /\ Of(q, Events \ evs) = g[Len(q)]
  BY OfFunction
<1>3. Len(q) \in Nat /\ \A k \in 1..Len(q) : q[k] \in Entry /\ q[k].ev \in Events
  <2>1. \A e \in Entry : e.ev \in Events
    BY DEF Entry
  <2> QED
    BY <2>1, EntriesOf
<1> DEFINE Split(n) == f[n] \in Seq(Entry) /\ g[n] \in Seq(Entry) /\ Len(f[n]) + Len(g[n]) = n
           good == {n \in Nat : n <= Len(q) => Split(n)}
<1>4. Split(0)
  <2>1. f[0] = <<>> /\ g[0] = <<>>
    BY <1>1, <1>2, <1>3
  <2> QED
    BY <2>1
<1>5. ASSUME NEW n \in Nat, n + 1 <= Len(q), Split(n)
      PROVE  Split(n + 1)
  <2>1. n + 1 \in 0..Len(q) /\ n + 1 # 0 /\ (n + 1) - 1 = n /\ n + 1 \in 1..Len(q)
    BY <1>3, <1>5
  <2>2. f[n + 1] = IF q[n + 1].ev \in evs THEN Append(f[n], q[n + 1]) ELSE f[n]
    BY <1>1, <2>1
  <2>3. g[n + 1] = IF q[n + 1].ev \in Events \ evs THEN Append(g[n], q[n + 1]) ELSE g[n]
    BY <1>2, <2>1
  <2>4. q[n + 1] \in Entry /\ q[n + 1].ev \in Events
    BY <1>3, <2>1
  <2> DEFINE a == Len(f[n])
             b == Len(g[n])
             c == Len(f[n + 1])
             d == Len(g[n + 1])
  <2>5. a \in Nat /\ b \in Nat /\ a + b = n
    BY <1>5, EntriesOf
  <2>6. /\ f[n + 1] \in Seq(Entry) /\ g[n + 1] \in Seq(Entry)
        /\ (c = a + 1 /\ d = b) \/ (c = a /\ d = b + 1)
    <3>1. CASE q[n + 1].ev \in evs
      BY <1>5, <2>2, <2>3, <2>4, <3>1, OneMore
    <3>2. CASE q[n + 1].ev \notin evs
      BY <1>5, <2>2, <2>3, <2>4, <3>2, OneMore
    <3> QED
      BY <3>1, <3>2
  <2>7. c + d = n + 1
    <3> HIDE DEF a, b, c, d
    <3> QED
      BY <2>5, <2>6
  <2> QED
    BY <2>6, <2>7
<1>6. good = Nat
  <2> HIDE DEF Split
  <2>1. good \in SUBSET Nat /\ 0 \in good
    BY <1>4
  <2>2. \A n \in good : n + 1 \in good
    BY <1>3, <1>5
  <2> HIDE DEF good
  <2> QED
    BY <2>1, <2>2, Induction
<1>7. Split(Len(q))
  <2> HIDE DEF Split
  <2> QED
    BY <1>3, <1>6
<1> QED
  BY <1>1, <1>2, <1>7

-----------------------------------------------------------------------------
(* The inductive invariant *)

After(q, t) == \A e \in Elems(q) : e.at > t * Sub

HandlerRuns == phase = "handler" <=> current # None

Within(t) == IF t < CycleMax THEN t ELSE CycleMax
Later(t, u) == IF t > u THEN t ELSE u

\* No event is due before this cycle is over.  A slice ends in the cycle of the next
\* event; then come the overrun of the last block, the instruction that the block
\* left to the interpreter, and its overrun.
FloorOf(ph, ends, now) ==
  IF ph \in {"dynrec", "block"} THEN Within(ends) - 1
  ELSE IF ph = "cpu" THEN Later(Within(ends) - 1 - Burst, Within(now) - 2 * Burst)
  ELSE IF ph = "native" THEN Later(Within(ends), Within(now)) - 1 - Burst
  ELSE Within(now) - 1 - 2 * Burst

Floor == FloorOf(phase, SliceEnds, TickIndexND)

\* How far each phase takes the clock past the end of a slice and of the millisecond.
BoundsOf(ph, ends, now) ==
  /\ ends >= -MaxBack /\ now >= -MaxBack
  /\ ends - now >= -Burst - 1 /\ ends - now <= CycleMax + MaxBack + Boost
  /\ ph \in {"dynrec", "block"} => ends <= CycleMax + Hack /\ ends - now >= -Burst
  /\ ph = "block" => ends >= now
  /\ ph = "cpu" => /\ ends <= CycleMax + Hack + Burst /\ ends - now >= -Burst
                   /\ now < CycleMax + Hack + 2 * Burst
  /\ ph = "native" => /\ ends <= CycleMax + Hack + Burst /\ ends - now >= -Burst
                      /\ now <= CycleMax + Hack + Burst
  /\ ph = "loop" => /\ ends <= CycleMax + Hack + 2 * Burst
                    /\ now <= CycleMax + Hack + 2 * Burst
  /\ ph \in {"service", "handler"} => ends = now /\ now < CycleMax
  /\ ph = "idle" => ends = now /\ now >= CycleMax /\ now <= CycleMax + Hack + 2 * Burst
  /\ ph = "tick" => ends = now /\ now = 0

Bounds == BoundsOf(phase, SliceEnds, TickIndexND)

Timely ==
  /\ After(queue, Floor)
  /\ phase = "handler" => current.at > Floor * Sub

Lists ==
  queue \in Seq(Entry) /\ free \in Seq(Slots) /\ Sorted(queue) /\ SlotsConserved

Clock ==
  /\ current = None \/ current \in Entry
  /\ CPU_Cycles \in Int
  /\ CPU_CycleLeft \in Int
  /\ phase \in Phases
  /\ fired \in BOOLEAN
  /\ ops \in 0..MaxOps

IInv == Lists /\ Clock /\ HandlerRuns /\ Bounds /\ Timely

LEMMA AfterEarlier ==
  ASSUME NEW q \in Seq(Entry), NEW s \in Int, NEW t \in Int, s <= t, After(q, t)
  PROVE  After(q, s)
<1> SUFFICES ASSUME NEW e \in Elems(q)
             PROVE  e.at > s * Sub
  BY DEF After
<1>1. e.at \in Int /\ e.at > t * Sub
  BY EntriesOf DEF After, Elems
<1>2. s * Sub <= t * Sub /\ s * Sub \in Int /\ t * Sub \in Int
  BY Order, CycleAssumption
<1> QED
  BY <1>1, <1>2

LEMMA AfterHead ==
  ASSUME NEW q \in Seq(Entry), Sorted(q), NEW t \in Int, q # <<>> => Head(q).at > t * Sub
  PROVE  After(q, t)
<1> SUFFICES ASSUME NEW k \in 1..Len(q)
             PROVE  q[k].at > t * Sub
  BY DEF After, Elems
<1>1. q # <<>> /\ Head(q) = q[1] /\ 1 \in 1..Len(q) /\ 1 <= k
  OBVIOUS
<1>2. q[1].at <= q[k].at /\ q[1].at \in Int /\ q[k].at \in Int /\ t * Sub \in Int
  BY <1>1, EntriesOf, CycleAssumption DEF Sorted
<1> QED
  BY <1>1, <1>2

\* A new event takes the head of the free list, and is due after now.
LEMMA AddKeeps ==
  ASSUME Lists, NEW ev \in Events, NEW delay \in Delays, NEW now \in Int,
         PIC_AddEvent(ev, delay, now), UNCHANGED current
  PROVE  /\ Lists'
         /\ \A e \in Elems(queue') : e \in Elems(queue) \/ e.at > now
         /\ free # <<>> => queue' # <<>>
<1>1. CASE free = <<>>
  <2>1. queue' = queue /\ free' = free
    BY <1>1 DEF PIC_AddEvent, AddTo
  <2> QED
    BY <1>1, <2>1 DEF Lists, SlotsConserved, Queued, InFlight, Elems
<1>2. CASE free # <<>>
  <2> DEFINE e == [slot |-> Head(free), at |-> now + delay, ev |-> ev]
  <2>1. queue' = Insert(queue, e) /\ free' = Tail(free)
    BY <1>2 DEF PIC_AddEvent, AddTo
  <2>2. /\ free \in Seq(Slots) /\ Len(free) \in Nat
        /\ Head(free) \in Slots /\ Tail(free) \in Seq(Slots)
        /\ Len(Tail(free)) = Len(free) - 1
        /\ Elems(free) = Elems(Tail(free)) \cup {Head(free)}
    <3>1. /\ free \in Seq(Slots) /\ Len(free) \in Nat /\ Len(free) > 0
          /\ Head(free) = free[1] /\ Head(free) \in Slots /\ Tail(free) \in Seq(Slots)
          /\ Len(Tail(free)) = Len(free) - 1
          /\ \A k \in 1..Len(free) - 1 : Tail(free)[k] = free[k + 1]
      BY <1>2 DEF Lists
    <3>2. \A k \in 2..Len(free) : free[k] = Tail(free)[k - 1] /\ k - 1 \in 1..Len(free) - 1
      BY <3>1
    <3>3. 1..Len(free) = {1} \cup 2..Len(free)
      BY <3>1
    <3>4. \A k \in 1..Len(free) : free[k] \in Elems(Tail(free)) \cup {Head(free)}
      BY <3>1, <3>2, <3>3 DEF Elems
    <3>5. \A k \in 1..Len(Tail(free)) : Tail(free)[k] \in Elems(free)
      <4>1. \A k \in 1..Len(free) - 1 : k + 1 \in 1..Len(free)
        BY <3>1
      <4> QED
        BY <3>1, <4>1 DEF Elems
    <3>6. Head(free) \in Elems(free)
      BY <3>1 DEF Elems
    <3> QED
      BY <3>1, <3>4, <3>5, <3>6 DEF Elems
  <2>3. e \in Entry /\ e.at > now /\ e.slot = Head(free)
    <3>1. now + delay \in Int /\ now + delay > now
      BY DelayAssumption
    <3> QED
      BY <2>2, <3>1 DEF Entry
  <2> HIDE DEF e
  <2>4. /\ queue' \in Seq(Entry) /\ Len(queue') = Len(queue) + 1 /\ Len(queue) \in Nat
        /\ Sorted(queue') /\ Elems(queue') = Elems(queue) \cup {e}
    BY <2>1, <2>3, InsertSorted, EntriesOf DEF Lists
  <2>5. Queued' = Queued \cup {Head(free)}
    <3>1. Queued = {x.slot : x \in Elems(queue)} /\ Queued' = {x.slot : x \in Elems(queue')}
      BY DEF Queued, Elems
    <3> QED
      BY <2>3, <2>4, <3>1
  <2>6. SlotsConserved'
    <3>1. InFlight' = InFlight
      BY DEF InFlight
    <3>2. Queued' \cup Elems(free') \cup InFlight' = Slots
      BY <2>1, <2>2, <2>5, <3>1 DEF Lists, SlotsConserved
    <3> DEFINE c == Cardinality(InFlight)
               n == Cardinality(Slots)
    <3>3. Len(queue) + Len(free) + c = n
      BY DEF Lists, SlotsConserved
    <3>4. Len(queue') + Len(free') = Len(queue) + Len(free)
      BY <2>1, <2>2, <2>4
    <3>5. Len(queue') + Len(free') + c = n
      BY <3>3, <3>4
    <3> QED
      BY <3>1, <3>2, <3>5 DEF SlotsConserved
  <2>7. queue' # <<>>
    BY <2>4
  <2> QED
    BY <2>1, <2>2, <2>3, <2>4, <2>6, <2>7 DEF Lists
<1> QED
  BY <1>1, <1>2

LEMMA Joined ==
  ASSUME NEW a \in Seq(Slots), NEW b \in Seq(Slots)
  PROVE  LET r == a \o b
         IN /\ r \in Seq(Slots) /\ Len(r) = Len(a) + Len(b)
            /\ Len(a) \in Nat /\ Len(b) \in Nat
            /\ \A k \in 1..Len(a) : r[k] = a[k]
            /\ \A k \in Len(a) + 1..Len(a) + Len(b) : r[k] = b[k - Len(a)]
OBVIOUS

\* The removals free the slots of the entries they take out.
LEMMA RemoveKeeps ==
  ASSUME Lists, NEW evs, Remove(evs), UNCHANGED current
  PROVE  Lists' /\ Elems(queue') \subseteq Elems(queue)
<1> DEFINE gone == Of(queue, evs)
           freed == [k \in 1..Len(gone) |-> gone[Len(gone) + 1 - k].slot]
<1>1. queue' = Of(queue, Events \ evs) /\ free' = freed \o free
  BY DEF Remove, Without, FreeAfter
<1>2. /\ gone \in Seq(Entry) /\ Elems(gone) = {e \in Elems(queue) : e.ev \in evs}
      /\ queue' \in Seq(Entry) /\ Sorted(queue')
      /\ Elems(queue') = {e \in Elems(queue) : e.ev \in Events \ evs}
  BY <1>1, OfSorted DEF Lists
<1>3. Len(gone) + Len(queue') = Len(queue) /\ Len(queue) \in Nat
  BY <1>1, OfAll, EntriesOf DEF Lists
<1> HIDE DEF gone
<1>4. Len(gone) \in Nat /\ Len(queue') \in Nat /\ \A k \in 1..Len(gone) : gone[k].slot \in Slots
  <2>1. \A e \in Entry : e.slot \in Slots
    BY DEF Entry
  <2> QED
    BY <1>2, <2>1, EntriesOf
<1>5. freed \in Seq(Slots) /\ Len(freed) = Len(gone)
  <2>1. \A k \in 1..Len(gone) : Len(gone) + 1 - k \in 1..Len(gone)
    BY <1>4
  <2>2. \A k \in 1..Len(gone) : freed[k] \in Slots
    BY <1>4, <2>1
  <2> QED
    BY <1>4, <2>2
<1>6. Elems(freed) = {e.slot : e \in Elems(gone)}
  <2>1. \A k \in 1..Len(gone) :
          Len(gone) + 1 - k \in 1..Len(gone) /\ Len(gone) + 1 - (Len(gone) + 1 - k) = k
    BY <1>4
  <2>2. \A k \in 1..Len(gone) : freed[k] = gone[Len(gone) + 1 - k].slot
    OBVIOUS
  <2>3. \A k \in 1..Len(gone) : freed[Len(gone) + 1 - k] = gone[k].slot
    BY <2>1
  <2> HIDE DEF freed
  <2>4. \A k \in 1..Len(gone) : freed[k] \in {e.slot : e \in Elems(gone)}
    BY <2>1, <2>2 DEF Elems
  <2>5. \A k \in 1..Len(gone) : gone[k].slot \in Elems(freed)
    <3>1. \A k \in 1..Len(gone) : freed[Len(gone) + 1 - k] \in Elems(freed)
      BY <1>5, <2>1 DEF Elems
    <3> QED
      BY <2>3, <3>1
  <2> QED
    BY <1>5, <2>4, <2>5 DEF Elems
<1> HIDE DEF freed
<1>7. /\ free' \in Seq(Slots) /\ Len(free') = Len(gone) + Len(free) /\ Len(free) \in Nat
      /\ Elems(free') = Elems(freed) \cup Elems(free)
  <2>1. free \in Seq(Slots)
    BY DEF Lists
  <2>2. /\ free' \in Seq(Slots) /\ Len(free') = Len(freed) + Len(free)
        /\ Len(free) \in Nat /\ Len(freed) \in Nat
        /\ \A k \in 1..Len(freed) : free'[k] = freed[k]
        /\ \A k \in Len(freed) + 1..Len(freed) + Len(free) : free'[k] = free[k - Len(freed)]
    BY <1>1, <1>5, <2>1, Joined
  <2>3. \A k \in 1..Len(free') : free'[k] \in Elems(freed) \cup Elems(free)
    <3> SUFFICES ASSUME NEW k \in 1..Len(free')
                 PROVE  free'[k] \in Elems(freed) \cup Elems(free)
      OBVIOUS
    <3>1. CASE k <= Len(freed)
      BY <2>2, <3>1 DEF Elems
    <3>2. CASE k > Len(freed)
      <4>1. k - Len(freed) \in 1..Len(free) /\ free'[k] = free[k - Len(freed)]
        BY <2>2, <3>2
      <4> QED
        BY <4>1 DEF Elems
    <3> QED
      BY <2>2, <3>1, <3>2
  <2>4. \A k \in 1..Len(freed) : freed[k] \in Elems(free')
    <3>1. \A k \in 1..Len(freed) : k \in 1..Len(free') /\ free'[k] = freed[k]
      BY <2>2
    <3> QED
      BY <3>1 DEF Elems
  <2>5. \A k \in 1..Len(free) : free[k] \in Elems(free')
    <3>1. \A k \in 1..Len(free) :
            /\ k + Len(freed) \in Len(freed) + 1..Len(freed) + Len(free)
            /\ k + Len(freed) \in 1..Len(free')
            /\ (k + Len(freed)) - Len(freed) = k
      BY <2>2
    <3>2. \A k \in 1..Len(free) : free'[k + Len(freed)] = free[k]
      BY <2>2, <3>1
    <3>3. \A k \in 1..Len(free) : free'[k + Len(freed)] \in Elems(free')
      BY <3>1 DEF Elems
    <3> QED
      BY <3>2, <3>3
  <2> QED
    BY <1>5, <2>2, <2>3, <2>4, <2>5 DEF Elems
<1>8. Queued = Queued' \cup Elems(freed)
  <2>1. Queued = {x.slot : x \in Elems(queue)} /\ Queued' = {x.slot : x \in Elems(queue')}
    BY DEF Queued, Elems
  <2>2. Elems(queue) = Elems(queue') \cup Elems(gone)
    <3>1. \A e \in Elems(queue) : e.ev \in Events
      <4>1. \A e \in Entry : e.ev \in Events
        BY DEF Entry
      <4> QED
        BY <4>1, EntriesOf DEF Lists, Elems
    <3> QED
      BY <1>2, <3>1
  <2> QED
    BY <1>6, <2>1, <2>2
<1>9. SlotsConserved'
  <2>1. InFlight' = InFlight
    BY DEF InFlight
  <2>2. Queued' \cup Elems(free') \cup InFlight' = Slots
    BY <1>7, <1>8, <2>1 DEF Lists, SlotsConserved
  <2> DEFINE c == Cardinality(InFlight)
             n == Cardinality(Slots)
  <2>3. Len(queue) + Len(free) + c = n
    BY DEF Lists, SlotsConserved
  <2>4. Len(queue') + Len(free') = Len(queue) + Len(free)
    BY <1>3, <1>4, <1>7
  <2>5. Len(queue') + Len(free') + c = n
    BY <2>3, <2>4
  <2> QED
    BY <2>1, <2>2, <2>5 DEF SlotsConserved
<1> QED
  BY <1>2, <1>7, <1>9 DEF Lists

LEMMA CallKeeps ==
  ASSUME Lists, NEW now \in Int, QueueCall(now), UNCHANGED current
  PROVE  Lists' /\ \A e \in Elems(queue') : e \in Elems(queue) \/ e.at > now
<1>1. CASE \E ev \in Events, d \in Delays : PIC_AddEvent(ev, d, now)
  BY <1>1, AddKeeps
<1>2. CASE \E h \in Handlers : PIC_RemoveEvents(h)
  BY <1>2, RemoveKeeps DEF PIC_RemoveEvents
<1>3. CASE \E ev \in Events : PIC_RemoveSpecificEvents(ev[1], ev[2])
  BY <1>3, RemoveKeeps DEF PIC_RemoveSpecificEvents
<1> QED
  BY <1>1, <1>2, <1>3 DEF QueueCall

LEMMA ListsStay ==
  ASSUME Lists, UNCHANGED <<queue, free, current>>
  PROVE  Lists'
BY DEF Lists, SlotsConserved, Queued, InFlight, Elems, Sorted

\* Events that are added after some time leave the others where they are.
LEMMA AfterAdded ==
  ASSUME NEW q, NEW r, NEW t \in Int, NEW u \in Int, After(q, t), t <= u,
         \A e \in Elems(r) : e.at \in Int,
         \A e \in Elems(r) : e \in Elems(q) \/ e.at > u * Sub
  PROVE  After(r, t)
<1>1. t * Sub <= u * Sub /\ t * Sub \in Int /\ u * Sub \in Int
  BY Order, CycleAssumption
<1> QED
  BY <1>1 DEF After

LEMMA DueTimes ==
  ASSUME NEW q \in Seq(Entry)
  PROVE  \A e \in Elems(q) : e \in Entry /\ e.at \in Int
BY EntriesOf DEF Elems

-----------------------------------------------------------------------------
(* What a step must show *)

LEMMA Constants ==
  /\ CycleMax \in Int /\ CycleMax >= 1 /\ Hack \in Int /\ Hack >= 0 /\ Burst \in Int /\ Burst >= 1
  /\ Boost \in Int /\ Boost >= 0 /\ MaxBack \in Int /\ MaxBack >= 0 /\ 0 \in 0..MaxOps
BY CycleAssumption, BoundAssumption

LEMMA FloorIs ==
  ASSUME NEW ph, NEW ends \in Int, NEW now \in Int
  PROVE  FloorOf(ph, ends, now) \in Int
BY Constants DEF FloorOf, Within, Later

LEMMA ClockIs ==
  ASSUME CPU_Cycles \in Int, CPU_CycleLeft \in Int
  PROVE  /\ TickIndexND \in Int /\ SliceEnds \in Int /\ Floor \in Int
         /\ TickIndexND = SliceEnds - CPU_Cycles /\ CPU_CycleLeft = CycleMax - SliceEnds
<1>1. /\ TickIndexND \in Int /\ SliceEnds \in Int
      /\ TickIndexND = SliceEnds - CPU_Cycles /\ CPU_CycleLeft = CycleMax - SliceEnds
  BY Constants DEF TickIndexND, SliceEnds
<1> QED
  BY <1>1, FloorIs DEF Floor

\* What is new in the queue is due after a cycle.
AddedAfter(t) == \A e \in Elems(queue') : e \in Elems(queue) \/ e.at > t * Sub

\* A step that moves the clock and the slice's end to ends and now.
Moves(ends, now) == SliceEnds' = ends /\ TickIndexND' = now

\* The queue stays late enough when the floor does not rise, and what is added is
\* due above it.
LEMMA FloorKeeps ==
  ASSUME IInv, Lists', Clock', HandlerRuns', phase' # "handler",
         NEW ends \in Int, NEW now \in Int, Moves(ends, now), BoundsOf(phase', ends, now),
         NEW u \in Int, AddedAfter(u),
         FloorOf(phase', ends, now) <= Floor, FloorOf(phase', ends, now) <= u
  PROVE  IInv'
<1> DEFINE floor == FloorOf(phase', ends, now)
<1>1. Floor \in Int /\ After(queue, Floor) /\ floor \in Int
  BY ClockIs, FloorIs DEF IInv, Clock, Timely
<1>2. \A e \in Elems(queue') : e.at \in Int
  BY DueTimes DEF Lists
<1>3. After(queue', floor)
  <2> HIDE DEF floor
  <2>1. /\ floor * Sub <= Floor * Sub /\ floor * Sub <= u * Sub
        /\ floor * Sub \in Int /\ Floor * Sub \in Int /\ u * Sub \in Int
    <3>1. floor <= Floor /\ floor <= u
      BY DEF floor
    <3> QED
      BY <1>1, <3>1, Order, CycleAssumption
  <2> QED
    BY <1>1, <1>2, <2>1 DEF After, AddedAfter
<1>4. Timely'
  BY <1>3 DEF Timely, Floor, Moves
<1>5. Bounds'
  BY DEF Bounds, Moves
<1> QED
  BY <1>4, <1>5 DEF IInv

\* A step that leaves the lists alone.
LEMMA StayKeeps ==
  ASSUME IInv, UNCHANGED <<queue, free, current>>, phase # "handler", phase' # "handler",
         phase' \in Phases, fired' \in BOOLEAN, ops' \in 0..MaxOps,
         CPU_Cycles' \in Int, CPU_CycleLeft' \in Int,
         NEW ends \in Int, NEW now \in Int, Moves(ends, now), BoundsOf(phase', ends, now),
         FloorOf(phase', ends, now) <= Floor
  PROVE  IInv'
<1>1. Lists' /\ Clock' /\ HandlerRuns'
  BY ListsStay DEF IInv, Clock, HandlerRuns
<1>2. Floor \in Int /\ AddedAfter(Floor)
  BY ClockIs DEF IInv, Clock, AddedAfter
<1> QED
  BY <1>1, <1>2, FloorKeeps

\* The state in terms of the clock and the slice's end.
LEMMA Reads ==
  ASSUME IInv
  PROVE  /\ CPU_Cycles \in Int /\ CPU_CycleLeft \in Int
         /\ TickIndexND \in Int /\ SliceEnds \in Int
         /\ CPU_Cycles = SliceEnds - TickIndexND /\ CPU_CycleLeft = CycleMax - SliceEnds
         /\ BoundsOf(phase, SliceEnds, TickIndexND)
         /\ phase \in Phases /\ fired \in BOOLEAN /\ ops \in 0..MaxOps
BY ClockIs, Constants DEF IInv, Clock, Bounds

\* What a step does to the cycles, and what that does to the clock.
LEMMA MovesTo ==
  ASSUME NEW ends \in Int, NEW now \in Int,
         CPU_CycleLeft' = CycleMax - ends, CPU_Cycles' = ends - now
  PROVE  Moves(ends, now) /\ CPU_Cycles' \in Int /\ CPU_CycleLeft' \in Int
BY Constants DEF Moves, SliceEnds, TickIndexND

LEMMA Initial == Init => IInv
<1> SUFFICES ASSUME Init
             PROVE  IInv
  OBVIOUS
<1> DEFINE n == Cardinality(Slots)
<1>1. n \in Nat
  BY SlotAssumption, FS_CardinalityType
<1>2. free \in [1..n -> Slots] /\ Elems(free) = Slots /\ queue = <<>> /\ current = None
  BY DEF Init
<1> HIDE DEF n
<1>3. free \in Seq(Slots) /\ Len(free) = n
  BY <1>1, <1>2
<1>4. Lists
  <2>1. queue \in Seq(Entry) /\ Sorted(queue) /\ Queued = {} /\ Len(queue) = 0
    BY <1>2 DEF Sorted, Queued
  <2>2. InFlight = {} /\ Cardinality(InFlight) = 0
    BY <1>2, FS_EmptySet DEF InFlight
  <2>3. Len(queue) + Len(free) + Cardinality(InFlight) = n
    BY <1>1, <1>3, <2>1, <2>2
  <2> QED
    BY <1>2, <1>3, <2>1, <2>2, <2>3 DEF Lists, SlotsConserved, n
<1>5. /\ current = None /\ CPU_Cycles = 0 /\ CPU_CycleLeft = CycleMax
      /\ phase = "loop" /\ fired = FALSE /\ ops = 0
  BY DEF Init
<1>6. Clock /\ HandlerRuns
  <2>1. CPU_CycleLeft \in Int /\ ops \in 0..MaxOps
    BY <1>5, Constants
  <2>2. CPU_Cycles \in Int
    BY <1>5
  <2>3. phase \in Phases /\ phase # "handler"
    BY <1>5 DEF Phases
  <2>4. fired \in BOOLEAN
    BY <1>5
  <2> QED
    BY <1>5, <2>1, <2>2, <2>3, <2>4 DEF Clock, HandlerRuns
<1>7. Bounds
  <2>1. SliceEnds = 0 /\ TickIndexND = 0
    BY <1>5, Constants DEF SliceEnds, TickIndexND
  <2> QED
    BY <1>5, <2>1, Constants DEF Bounds, BoundsOf
<1>8. Timely
  BY <1>2, <1>5 DEF Timely, After, Elems
<1> QED
  BY <1>4, <1>6, <1>7, <1>8 DEF IInv

-----------------------------------------------------------------------------
(* The cores *)

LEMMA SpendKeeps == IInv /\ Spend => IInv'
<1> SUFFICES ASSUME IInv, Spend
             PROVE  IInv'
  OBVIOUS
<1> DEFINE s == SliceEnds
           t == TickIndexND
<1>1. PICK n \in 1..Burst : CPU_Cycles' = CPU_Cycles - n
  BY DEF Spend
<1>2. /\ phase \in {"cpu", "block", "native"} /\ CPU_Cycles > 0 /\ n \in Int /\ n >= 1 /\ n <= Burst
      /\ phase # "cpu" => CPU_Cycles' >= 0
      /\ UNCHANGED <<queue, free, current, CPU_CycleLeft, phase, fired, ops>>
  BY DEF Spend
<1>3. s \in Int /\ t \in Int /\ CPU_Cycles = s - t /\ CPU_CycleLeft = CycleMax - s /\ BoundsOf(phase, s, t)
  BY Reads
<1>4. Moves(s, t + n) /\ CPU_Cycles' \in Int /\ CPU_CycleLeft' \in Int
  <2> HIDE DEF s, t
  <2> QED
    BY <1>1, <1>2, <1>3, MovesTo
<1>5. BoundsOf(phase, s, t + n) /\ FloorOf(phase, s, t + n) <= FloorOf(phase, s, t)
  <2> HIDE DEF s, t
  <2> QED
    BY <1>1, <1>2, <1>3, Constants DEF BoundsOf, FloorOf, Within, Later
<1> QED
  BY <1>2, <1>3, <1>4, <1>5, StayKeeps, Reads DEF Floor

LEMMA PicWriteKeeps == IInv /\ WritePic => IInv'
<1> SUFFICES ASSUME IInv, WritePic
             PROVE  IInv'
  OBVIOUS
<1> DEFINE s == SliceEnds
           t == TickIndexND
<1>1. s \in Int /\ t \in Int /\ CPU_Cycles = s - t /\ CPU_CycleLeft = CycleMax - s /\ BoundsOf(phase, s, t)
  BY Reads
<1>2. /\ (phase \in {"block", "native"} \/ (phase = "cpu" /\ CPU_Cycles >= 0))
      /\ CPU_CycleLeft' = CPU_CycleLeft + CPU_Cycles /\ CPU_Cycles' = 0 /\ phase' = phase
      /\ UNCHANGED <<queue, free, current, fired, ops>>
  BY DEF WritePic, Calls
<1>3. Moves(t, t) /\ CPU_Cycles' \in Int /\ CPU_CycleLeft' \in Int
  <2> HIDE DEF s, t
  <2> QED
    BY <1>1, <1>2, Constants, MovesTo
<1>4. BoundsOf(phase', t, t) /\ FloorOf(phase', t, t) <= FloorOf(phase, s, t)
  <2> HIDE DEF s, t
  <2> QED
    BY <1>1, <1>2, Constants DEF BoundsOf, FloorOf, Within, Later
<1> QED
  BY <1>1, <1>2, <1>3, <1>4, StayKeeps, Reads DEF Floor

\* Code that gives itself cycles: the clock goes back, and with a slice that is
\* shortened its end too.
LEMMA SetCyclesKeeps == IInv /\ SetCycles => IInv'
<1> SUFFICES ASSUME IInv, SetCycles
             PROVE  IInv'
  OBVIOUS
<1> DEFINE s == SliceEnds
           t == TickIndexND
<1>1. s \in Int /\ t \in Int /\ CPU_Cycles = s - t /\ CPU_CycleLeft = CycleMax - s /\ BoundsOf(phase, s, t)
  BY Reads
<1>2. PICK b \in 1..Boost :
        /\ CPU_Cycles' = b
        /\ \/ CPU_Cycles < b /\ UNCHANGED CPU_CycleLeft
           \/ CPU_Cycles > b /\ CPU_CycleLeft' = CPU_CycleLeft + CPU_Cycles
  BY DEF SetCycles
<1>3. /\ (phase \in {"block", "native"} \/ (phase = "cpu" /\ CPU_Cycles >= 0))
      /\ UNCHANGED <<queue, free, current, phase, fired, ops>>
      /\ TickIndexND' >= -MaxBack
  BY DEF SetCycles, Calls
<1>4. PICK ends \in {s, t} : ((ends = s /\ s - t < b) \/ (ends = t /\ s - t > b)) /\ CPU_CycleLeft' = CycleMax - ends
  <2> HIDE DEF s, t
  <2> QED
    BY <1>1, <1>2, Constants
<1>5. ends \in Int /\ Moves(ends, ends - b) /\ CPU_Cycles' \in Int /\ CPU_CycleLeft' \in Int
  <2> HIDE DEF s, t
  <2> QED
    BY <1>1, <1>2, <1>4, Constants, MovesTo
<1>6. ends - b >= -MaxBack
  BY <1>3, <1>5 DEF Moves
<1>7. BoundsOf(phase, ends, ends - b) /\ FloorOf(phase, ends, ends - b) <= FloorOf(phase, s, t)
  <2> HIDE DEF s, t
  <2> QED
    BY <1>1, <1>3, <1>4, <1>6, Constants DEF BoundsOf, FloorOf, Within, Later
<1> QED
  BY <1>3, <1>5, <1>7, StayKeeps, Reads DEF Floor

LEMMA ReturnKeeps == IInv /\ Return => IInv'
<1> SUFFICES ASSUME IInv, Return
             PROVE  IInv'
  OBVIOUS
<1> DEFINE s == SliceEnds
           t == TickIndexND
<1>1. s \in Int /\ t \in Int /\ CPU_Cycles = s - t /\ CPU_CycleLeft = CycleMax - s /\ BoundsOf(phase, s, t)
  BY Reads
<1>2. phase = "native" /\ phase' = "loop" /\ UNCHANGED <<queue, free, current, CPU_Cycles, CPU_CycleLeft, fired, ops>>
  BY DEF Return
<1>3. Moves(s, t) /\ CPU_Cycles' \in Int /\ CPU_CycleLeft' \in Int
  <2> HIDE DEF s, t
  <2> QED
    BY <1>1, <1>2, Constants, MovesTo
<1>4. BoundsOf(phase', s, t) /\ FloorOf(phase', s, t) <= FloorOf(phase, s, t)
  <2> HIDE DEF s, t
  <2> QED
    BY <1>1, <1>2, Constants DEF BoundsOf, FloorOf, Within, Later
<1> QED
  BY <1>1, <1>2, <1>3, <1>4, StayKeeps, Reads DEF Floor, Phases

LEMMA LeaveKeeps == IInv /\ Leave => IInv'
<1> SUFFICES ASSUME IInv, Leave
             PROVE  IInv'
  OBVIOUS
<1> DEFINE s == SliceEnds
           t == TickIndexND
<1>1. s \in Int /\ t \in Int /\ CPU_Cycles = s - t /\ CPU_CycleLeft = CycleMax - s /\ BoundsOf(phase, s, t)
  BY Reads
<1>2. /\ phase = "cpu" /\ CPU_Cycles > 0
      /\ UNCHANGED <<queue, free, current, CPU_CycleLeft, fired, ops>>
  BY DEF Leave
<1>3. PICK now \in {t + 1, s} : CPU_Cycles' = s - now /\ phase' \in {"loop", "native"} /\ (phase' = "native" => now = t + 1)
  <2>1. \/ CPU_Cycles' = s - (t + 1) /\ phase' \in {"loop", "native"}
        \/ CPU_Cycles' = s - s /\ phase' = "loop"
    <3> HIDE DEF s, t
    <3> QED
      BY <1>1 DEF Leave
  <2> QED
    BY <2>1
<1>4. now \in Int /\ Moves(s, now) /\ CPU_Cycles' \in Int /\ CPU_CycleLeft' \in Int
  <2> HIDE DEF s, t
  <2> QED
    BY <1>1, <1>2, <1>3, MovesTo
<1>5. BoundsOf(phase', s, now) /\ FloorOf(phase', s, now) <= FloorOf(phase, s, t)
  <2> HIDE DEF s, t
  <2> QED
    BY <1>1, <1>2, <1>3, Constants DEF BoundsOf, FloorOf, Within, Later
<1> QED
  BY <1>1, <1>2, <1>3, <1>4, <1>5, StayKeeps, Reads DEF Floor, Phases

LEMMA SliceEndKeeps == IInv /\ SliceEnd => IInv'
<1> SUFFICES ASSUME IInv, SliceEnd
             PROVE  IInv'
  OBVIOUS
<1> DEFINE s == SliceEnds
           t == TickIndexND
<1>1. s \in Int /\ t \in Int /\ CPU_Cycles = s - t /\ CPU_CycleLeft = CycleMax - s /\ BoundsOf(phase, s, t)
  BY Reads
<1>2. CPU_Cycles <= 0 /\ phase' = "loop" /\ UNCHANGED <<queue, free, current, CPU_CycleLeft, fired, ops>>
  BY DEF SliceEnd
<1>3. PICK now \in {t, t + 1} : CPU_Cycles' = s - now /\ ((phase = "cpu" /\ now = t + 1) \/ (phase = "dynrec" /\ now = t))
  <2>1. \/ CPU_Cycles' = s - (t + 1) /\ phase = "cpu"
        \/ CPU_Cycles' = s - t /\ phase = "dynrec"
    <3> HIDE DEF s, t
    <3> QED
      BY <1>1 DEF SliceEnd
  <2> QED
    BY <2>1
<1>4. now \in Int /\ Moves(s, now) /\ CPU_Cycles' \in Int /\ CPU_CycleLeft' \in Int
  <2> HIDE DEF s, t
  <2> QED
    BY <1>1, <1>2, <1>3, MovesTo
<1>5. BoundsOf("loop", s, now) /\ FloorOf("loop", s, now) <= FloorOf(phase, s, t)
  <2> HIDE DEF s, t
  <2> QED
    BY <1>1, <1>2, <1>3, Constants DEF BoundsOf, FloorOf, Within, Later
<1> QED
  BY <1>1, <1>2, <1>3, <1>4, <1>5, StayKeeps, Reads DEF Floor, Phases

LEMMA FallBackKeeps == IInv /\ FallBack => IInv'
<1> SUFFICES ASSUME IInv, FallBack
             PROVE  IInv'
  OBVIOUS
<1> DEFINE s == SliceEnds
           t == TickIndexND
<1>1. s \in Int /\ t \in Int /\ CPU_Cycles = s - t /\ CPU_CycleLeft = CycleMax - s /\ BoundsOf(phase, s, t)
  BY Reads
<1>2. phase = "dynrec" /\ phase' = "cpu" /\ UNCHANGED <<queue, free, current, CPU_Cycles, CPU_CycleLeft, fired, ops>>
  BY DEF FallBack
<1>3. Moves(s, t) /\ CPU_Cycles' \in Int /\ CPU_CycleLeft' \in Int
  <2> HIDE DEF s, t
  <2> QED
    BY <1>1, <1>2, Constants, MovesTo
<1>4. BoundsOf(phase', s, t) /\ FloorOf(phase', s, t) <= FloorOf(phase, s, t)
  <2> HIDE DEF s, t
  <2> QED
    BY <1>1, <1>2, Constants DEF BoundsOf, FloorOf, Within, Later
<1> QED
  BY <1>1, <1>2, <1>3, <1>4, StayKeeps, Reads DEF Floor, Phases

LEMMA EnterBlockKeeps == IInv /\ EnterBlock => IInv'
<1> SUFFICES ASSUME IInv, EnterBlock
             PROVE  IInv'
  OBVIOUS
<1> DEFINE s == SliceEnds
           t == TickIndexND
<1>1. s \in Int /\ t \in Int /\ CPU_Cycles = s - t /\ CPU_CycleLeft = CycleMax - s /\ BoundsOf(phase, s, t)
  BY Reads
<1>2. phase = "dynrec" /\ CPU_Cycles > 0 /\ phase' = "block" /\ UNCHANGED <<queue, free, current, CPU_Cycles, CPU_CycleLeft, fired, ops>>
  BY DEF EnterBlock
<1>3. Moves(s, t) /\ CPU_Cycles' \in Int /\ CPU_CycleLeft' \in Int
  <2> HIDE DEF s, t
  <2> QED
    BY <1>1, <1>2, Constants, MovesTo
<1>4. BoundsOf(phase', s, t) /\ FloorOf(phase', s, t) <= FloorOf(phase, s, t)
  <2> HIDE DEF s, t
  <2> QED
    BY <1>1, <1>2, Constants DEF BoundsOf, FloorOf, Within, Later
<1> QED
  BY <1>1, <1>2, <1>3, <1>4, StayKeeps, Reads DEF Floor, Phases

LEMMA BlockEndKeeps == IInv /\ BlockEnd => IInv'
<1> SUFFICES ASSUME IInv, BlockEnd
             PROVE  IInv'
  OBVIOUS
<1> DEFINE s == SliceEnds
           t == TickIndexND
<1>1. s \in Int /\ t \in Int /\ CPU_Cycles = s - t /\ CPU_CycleLeft = CycleMax - s /\ BoundsOf(phase, s, t)
  BY Reads
<1>0. PICK n \in 1..Burst : CPU_Cycles' = CPU_Cycles - n
  BY DEF BlockEnd
<1>2. /\ phase = "block" /\ phase' \in {"dynrec", "native", "loop"} /\ n \in Int /\ n >= 1 /\ n <= Burst
      /\ CPU_Cycles' = CPU_Cycles - n /\ UNCHANGED <<queue, free, current, CPU_CycleLeft, fired, ops>>
  BY <1>0, Constants DEF BlockEnd
<1>3. Moves(s, (t + n)) /\ CPU_Cycles' \in Int /\ CPU_CycleLeft' \in Int
  <2> HIDE DEF s, t
  <2> QED
    BY <1>1, <1>2, Constants, MovesTo
<1>4. BoundsOf(phase', s, (t + n)) /\ FloorOf(phase', s, (t + n)) <= FloorOf(phase, s, t)
  <2> HIDE DEF s, t
  <2> QED
    BY <1>1, <1>2, Constants DEF BoundsOf, FloorOf, Within, Later
<1> QED
  BY <1>1, <1>2, <1>3, <1>4, StayKeeps, Reads DEF Floor, Phases

LEMMA HandoverKeeps == IInv /\ Handover => IInv'
<1> SUFFICES ASSUME IInv, Handover
             PROVE  IInv'
  OBVIOUS
<1> DEFINE s == SliceEnds
           t == TickIndexND
<1>1. s \in Int /\ t \in Int /\ CPU_Cycles = s - t /\ CPU_CycleLeft = CycleMax - s /\ BoundsOf(phase, s, t)
  BY Reads
<1>0. PICK n \in 1..Burst : CPU_CycleLeft' = CPU_CycleLeft + CPU_Cycles - n
  BY DEF Handover
<1>2. /\ phase = "block" /\ phase' = "cpu" /\ n \in Int /\ n >= 1 /\ n <= Burst
      /\ CPU_Cycles' = 1 /\ CPU_CycleLeft' = CPU_CycleLeft + CPU_Cycles - n
      /\ UNCHANGED <<queue, free, current, fired, ops>>
  BY <1>0, Constants DEF Handover
<1>3. Moves((t + n), (t + n - 1)) /\ CPU_Cycles' \in Int /\ CPU_CycleLeft' \in Int
  <2> HIDE DEF s, t
  <2> QED
    BY <1>1, <1>2, Constants, MovesTo
<1>4. BoundsOf(phase', (t + n), (t + n - 1)) /\ FloorOf(phase', (t + n), (t + n - 1)) <= FloorOf(phase, s, t)
  <2> HIDE DEF s, t
  <2> QED
    BY <1>1, <1>2, Constants DEF BoundsOf, FloorOf, Within, Later
<1> QED
  BY <1>1, <1>2, <1>3, <1>4, StayKeeps, Reads DEF Floor, Phases

LEMMA CancelKeeps == IInv /\ CancelEvents => IInv'
<1> SUFFICES ASSUME IInv, CancelEvents
             PROVE  IInv'
  OBVIOUS
<1>1. /\ Lists /\ phase \in {"cpu", "block", "native"}
      /\ UNCHANGED <<current, CPU_Cycles, CPU_CycleLeft, phase, fired, ops>>
  BY DEF IInv, CancelEvents, Calls
<1>2. Lists' /\ Elems(queue') \subseteq Elems(queue)
  <2>1. CASE \E h \in Handlers : PIC_RemoveEvents(h)
    BY <1>1, <2>1, RemoveKeeps DEF PIC_RemoveEvents
  <2>2. CASE \E ev \in Events : PIC_RemoveSpecificEvents(ev[1], ev[2])
    BY <1>1, <2>2, RemoveKeeps DEF PIC_RemoveSpecificEvents
  <2> QED
    BY <2>1, <2>2 DEF CancelEvents
<1>3. Clock' /\ HandlerRuns'
  BY <1>1 DEF IInv, Clock, HandlerRuns
<1>4. SliceEnds \in Int /\ TickIndexND \in Int /\ Moves(SliceEnds, TickIndexND) /\ BoundsOf(phase', SliceEnds, TickIndexND)
  BY <1>1, Reads DEF Moves, SliceEnds, TickIndexND
<1>5. Floor \in Int /\ AddedAfter(Floor) /\ FloorOf(phase', SliceEnds, TickIndexND) = Floor
  BY <1>1, <1>2, ClockIs DEF IInv, Clock, AddedAfter, Floor
<1>6. Floor <= Floor /\ phase' # "handler"
  BY <1>1, <1>5
<1> QED
  BY <1>2, <1>3, <1>4, <1>5, <1>6, FloorKeeps

\* A head that is not due within the slice is due after its last cycle.
LEMMA NotCut ==
  ASSUME NEW at \in Int, NEW now \in Int, NEW cycles \in Int,
         ~(WholeCycles(at - now * Sub) < cycles)
  PROVE  at > (now + cycles - 1) * Sub
<1> DEFINE p == at - now * Sub
           w == WholeCycles(p)
<1>1. now * Sub \in Int /\ p \in Int
  BY CycleAssumption
<1>2. w \in Int /\ p > (w - 1) * Sub
  BY <1>1, Truncated
<1> HIDE DEF w
<1>3. cycles - 1 <= w - 1
  BY <1>2 DEF w
<1>4. (cycles - 1) * Sub <= (w - 1) * Sub
  BY <1>2, <1>3, Order
<1>5. (now + (cycles - 1)) * Sub = now * Sub + (cycles - 1) * Sub
  BY CycleAssumption
<1>6. (w - 1) * Sub \in Int /\ (cycles - 1) * Sub \in Int /\ now + (cycles - 1) = now + cycles - 1
  BY <1>2, CycleAssumption
<1> QED
  BY <1>1, <1>2, <1>4, <1>5, <1>6

\* A new event is due after the floor: the slice is cut at the cycle in which it is
\* due, or ends before.
LEMMA ScheduleKeeps == IInv /\ ScheduleEvent => IInv'
<1> SUFFICES ASSUME IInv, ScheduleEvent
             PROVE  IInv'
  OBVIOUS
<1> DEFINE s == SliceEnds
           t == TickIndexND
<1>1. s \in Int /\ t \in Int /\ CPU_Cycles = s - t /\ CPU_CycleLeft = CycleMax - s /\ BoundsOf(phase, s, t)
  BY Reads
<1>2. PICK ev \in Events, d \in Delays : PIC_AddEvent(ev, d, t * Sub)
  BY DEF ScheduleEvent
<1>3. /\ phase \in {"block", "native"} \/ (phase = "cpu" /\ CPU_Cycles >= 0)
      /\ UNCHANGED <<current, phase, fired, ops>>
      /\ IF free = <<>> THEN UNCHANGED <<CPU_Cycles, CPU_CycleLeft>> ELSE CutSlice(queue')
  BY DEF ScheduleEvent, Calls
<1>4. /\ Lists' /\ AddedAfter(t)
      /\ free # <<>> => queue' # <<>>
      /\ free = <<>> => queue' = queue
  <2>1. t * Sub \in Int
    BY <1>1, CycleAssumption
  <2>2. free = <<>> => queue' = queue
    BY <1>2 DEF PIC_AddEvent, AddTo
  <2> HIDE DEF t
  <2> QED
    BY <1>2, <1>3, <2>1, <2>2, AddKeeps DEF IInv, AddedAfter
<1>5. CPU_Cycles' \in Int => HandlerRuns' /\ phase' # "handler"
  BY <1>3 DEF IInv, HandlerRuns
<1>6. CASE free # <<>> /\ CPU_Cycles' = 0 /\ CPU_CycleLeft' = CPU_CycleLeft + CPU_Cycles
  <2>1. Moves(t, t) /\ CPU_Cycles' \in Int /\ CPU_CycleLeft' \in Int
    <3> HIDE DEF s, t
    <3> QED
      BY <1>1, <1>6, Constants, MovesTo
  <2>2. /\ BoundsOf(phase, t, t)
        /\ FloorOf(phase, t, t) <= FloorOf(phase, s, t) /\ FloorOf(phase, t, t) <= t
    <3> HIDE DEF s, t
    <3> QED
      BY <1>1, <1>3, Constants DEF BoundsOf, FloorOf, Within, Later
  <2>3. Clock'
    BY <1>3, <2>1 DEF IInv, Clock
  <2> QED
    BY <1>1, <1>3, <1>4, <1>5, <2>1, <2>2, <2>3, FloorKeeps DEF Floor
<1>7. CASE UNCHANGED <<CPU_Cycles, CPU_CycleLeft>>
           /\ (free # <<>> => ~(WholeCycles(Head(queue').at - t * Sub) < CPU_Cycles))
  <2>1. Moves(s, t) /\ Clock'
    BY <1>1, <1>3, <1>7 DEF Moves, SliceEnds, TickIndexND, IInv, Clock
  <2>2. CASE free = <<>>
    <3>1. Floor \in Int /\ AddedAfter(Floor) /\ Floor <= Floor
      BY <1>4, <2>2, ClockIs DEF IInv, Clock, AddedAfter
    <3> QED
      BY <1>1, <1>3, <1>4, <1>5, <1>7, <2>1, <3>1, FloorKeeps DEF Floor
  <2>3. CASE free # <<>> /\ s < t
    <3>1. FloorOf(phase, s, t) <= t /\ FloorOf(phase, s, t) <= FloorOf(phase, s, t)
      <4> HIDE DEF s, t
      <4> QED
        BY <1>1, <1>3, <2>3, FloorIs, Constants DEF FloorOf, Within, Later
    <3> QED
      BY <1>1, <1>3, <1>4, <1>5, <1>7, <2>1, <3>1, FloorKeeps DEF Floor
  <2>4. CASE free # <<>> /\ s >= t
    <3>1. FloorOf(phase, s, t) <= s - 1 /\ FloorOf(phase, s, t) <= FloorOf(phase, s, t)
      <4> HIDE DEF s, t
      <4> QED
        BY <1>1, <1>3, <2>4, FloorIs, Constants DEF FloorOf, Within, Later
    <3>2. queue' \in Seq(Entry) /\ Sorted(queue') /\ queue' # <<>>
      BY <1>4, <2>4 DEF Lists
    <3>3. Head(queue').at > (s - 1) * Sub
      <4>1. Head(queue').at \in Int
        <5>1. Head(queue') = queue'[1] /\ 1 \in 1..Len(queue')
          BY <3>2
        <5> QED
          BY <3>2, <5>1, EntriesOf
      <4>2. ~(WholeCycles(Head(queue').at - t * Sub) < CPU_Cycles) /\ CPU_Cycles \in Int
        BY <1>1, <1>7, <2>4, Reads
      <4>3. Head(queue').at > (t + CPU_Cycles - 1) * Sub
        <5> HIDE DEF t
        <5> QED
          BY <1>1, <4>1, <4>2, NotCut
      <4>4. t + CPU_Cycles - 1 = s - 1
        <5> HIDE DEF s, t
        <5> QED
          BY <1>1
      <4> QED
        BY <4>3, <4>4
    <3>4. s - 1 \in Int
      BY <1>1
    <3>5. AddedAfter(s - 1)
      <4>1. After(queue', s - 1)
        <5> HIDE DEF s
        <5> QED
          BY <3>2, <3>3, <3>4, AfterHead
      <4> QED
        BY <4>1 DEF After, AddedAfter
    <3> QED
      BY <1>1, <1>3, <1>4, <1>5, <1>7, <2>1, <3>1, <3>4, <3>5, FloorKeeps DEF Floor
  <2> QED
    BY <1>1, <2>2, <2>3, <2>4
<1> QED
  BY <1>3, <1>6, <1>7 DEF CutSlice

\* What an instruction under a slice of its own adds is due after the slice's end.
LEMMA OwnSlice ==
  ASSUME IInv, UnderOwnSlice, UNCHANGED current
  PROVE  Lists' /\ AddedAfter(SliceEnds)
<1>1. SliceEnds * Sub \in Int /\ Lists
  BY Reads, CycleAssumption DEF IInv
<1>2. CASE \E ev \in Events, d \in Delays : PIC_AddEvent(ev, d, SliceEnds * Sub)
  BY <1>1, <1>2, AddKeeps DEF AddedAfter
<1>3. CASE UNCHANGED <<queue, free>>
  BY <1>1, <1>3, ListsStay DEF AddedAfter
<1> QED
  BY <1>2, <1>3 DEF UnderOwnSlice

LEMMA TrapKeeps == IInv /\ Trap => IInv'
<1> SUFFICES ASSUME IInv, Trap
             PROVE  IInv'
  OBVIOUS
<1> DEFINE s == SliceEnds
           t == TickIndexND
<1>1. s \in Int /\ t \in Int /\ CPU_Cycles = s - t /\ CPU_CycleLeft = CycleMax - s /\ BoundsOf(phase, s, t)
  BY Reads
<1>2. /\ phase = "cpu" /\ CPU_Cycles > 0 /\ CPU_Cycles' = CPU_Cycles - 1 /\ phase' \in {"loop", "native"}
      /\ UNCHANGED <<current, CPU_CycleLeft, fired, ops>>
  BY DEF Trap
<1>3. Lists' /\ AddedAfter(s)
  BY <1>2, OwnSlice DEF Trap
<1>4. Moves(s, t + 1) /\ CPU_Cycles' \in Int /\ CPU_CycleLeft' \in Int
  <2> HIDE DEF s, t
  <2> QED
    BY <1>1, <1>2, MovesTo
<1>5. /\ BoundsOf(phase', s, t + 1)
      /\ FloorOf(phase', s, t + 1) <= FloorOf(phase, s, t) /\ FloorOf(phase', s, t + 1) <= s
  <2> HIDE DEF s, t
  <2> QED
    BY <1>1, <1>2, Constants DEF BoundsOf, FloorOf, Within, Later
<1>6. Clock' /\ HandlerRuns' /\ phase' # "handler"
  BY <1>2, <1>4 DEF IInv, Clock, HandlerRuns, Phases
<1> QED
  BY <1>1, <1>3, <1>4, <1>5, <1>6, FloorKeeps DEF Floor

LEMMA DetourKeeps == IInv /\ Detour => IInv'
<1> SUFFICES ASSUME IInv, Detour
             PROVE  IInv'
  OBVIOUS
<1> DEFINE s == SliceEnds
           t == TickIndexND
<1>1. s \in Int /\ t \in Int /\ CPU_Cycles = s - t /\ CPU_CycleLeft = CycleMax - s /\ BoundsOf(phase, s, t)
  BY Reads
<1>2. /\ phase = "dynrec" /\ CPU_Cycles > -Burst /\ UNCHANGED <<current, fired, ops>>
      /\ \/ CPU_Cycles' = CPU_Cycles - 1 /\ UNCHANGED <<CPU_CycleLeft, phase>>
         \/ CPU_Cycles' = 0 /\ CPU_CycleLeft' = CPU_CycleLeft + CPU_Cycles /\ phase' = "native"
  BY DEF Detour
<1>3. Lists' /\ AddedAfter(s)
  BY <1>2, OwnSlice DEF Detour
<1>4. ASSUME NEW ends \in Int, NEW now \in Int,
             CPU_CycleLeft' = CycleMax - ends, CPU_Cycles' = ends - now,
             BoundsOf(phase', ends, now), FloorOf(phase', ends, now) <= FloorOf(phase, s, t),
             FloorOf(phase', ends, now) <= s, phase' \in {"dynrec", "native"}
      PROVE  IInv'
  <2>1. Moves(ends, now) /\ CPU_Cycles' \in Int /\ CPU_CycleLeft' \in Int
    BY <1>4, MovesTo
  <2>2. Clock' /\ HandlerRuns' /\ phase' # "handler"
    BY <1>2, <1>4, <2>1 DEF IInv, Clock, HandlerRuns, Phases
  <2> QED
    BY <1>1, <1>3, <1>4, <2>1, <2>2, FloorKeeps DEF Floor
<1>5. CASE CPU_Cycles' = CPU_Cycles - 1 /\ UNCHANGED <<CPU_CycleLeft, phase>>
  <2>1. /\ t + 1 \in Int /\ CPU_CycleLeft' = CycleMax - s /\ CPU_Cycles' = s - (t + 1)
        /\ BoundsOf(phase', s, t + 1)
        /\ FloorOf(phase', s, t + 1) <= FloorOf(phase, s, t) /\ FloorOf(phase', s, t + 1) <= s
    <3> HIDE DEF s, t
    <3> QED
      BY <1>1, <1>2, <1>5, Constants DEF BoundsOf, FloorOf, Within, Later
  <2> QED
    BY <1>1, <1>2, <1>4, <1>5, <2>1
<1>6. CASE CPU_Cycles' = 0 /\ CPU_CycleLeft' = CPU_CycleLeft + CPU_Cycles /\ phase' = "native"
  <2>1. /\ CPU_CycleLeft' = CycleMax - t /\ CPU_Cycles' = t - t
        /\ BoundsOf(phase', t, t)
        /\ FloorOf(phase', t, t) <= FloorOf(phase, s, t) /\ FloorOf(phase', t, t) <= s
    <3> HIDE DEF s, t
    <3> QED
      BY <1>1, <1>2, <1>6, Constants DEF BoundsOf, FloorOf, Within, Later
  <2> QED
    BY <1>1, <1>4, <1>6, <2>1
<1> QED
  BY <1>2, <1>5, <1>6

-----------------------------------------------------------------------------
(* PIC_RunQueue *)

LEMMA RunQueueKeeps == IInv /\ RunQueue => IInv'
<1> SUFFICES ASSUME IInv, RunQueue
             PROVE  IInv'
  OBVIOUS
<1> DEFINE s == SliceEnds
           t == TickIndexND
<1>1. s \in Int /\ t \in Int /\ CPU_Cycles = s - t /\ CPU_CycleLeft = CycleMax - s /\ BoundsOf(phase, s, t)
  BY Reads
<1>2. /\ phase = "loop" /\ CPU_CycleLeft' = CPU_CycleLeft + CPU_Cycles /\ CPU_Cycles' = 0
      /\ phase' = IF CPU_CycleLeft' <= 0 THEN "idle" ELSE "service"
      /\ fired' = FALSE /\ UNCHANGED <<queue, free, current, ops>>
  BY DEF RunQueue
<1>3. CPU_CycleLeft' = CycleMax - t /\ phase' = IF t >= CycleMax THEN "idle" ELSE "service"
  <2> HIDE DEF s, t
  <2> QED
    BY <1>1, <1>2, Constants
<1>4. Moves(t, t) /\ CPU_Cycles' \in Int /\ CPU_CycleLeft' \in Int
  <2> HIDE DEF s, t
  <2> QED
    BY <1>1, <1>2, <1>3, MovesTo
<1>5. BoundsOf(phase', t, t) /\ FloorOf(phase', t, t) <= FloorOf(phase, s, t)
  <2> HIDE DEF s, t
  <2> QED
    BY <1>1, <1>2, <1>3, Constants DEF BoundsOf, FloorOf, Within, Later
<1>6. phase' \in Phases /\ phase' # "handler"
  BY <1>3 DEF Phases
<1> QED
  BY <1>1, <1>2, <1>4, <1>5, <1>6, StayKeeps, Reads DEF Floor

LEMMA HeadAndTail ==
  ASSUME NEW q \in Seq(Entry), q # <<>>, Sorted(q)
  PROVE  /\ Head(q) \in Entry /\ Head(q) \in Elems(q)
         /\ Tail(q) \in Seq(Entry) /\ Sorted(Tail(q)) /\ Len(Tail(q)) = Len(q) - 1
         /\ Elems(q) = Elems(Tail(q)) \cup {Head(q)}
<1>1. /\ Len(q) \in Nat /\ Len(q) > 0 /\ Head(q) = q[1] /\ Head(q) \in Entry
      /\ Tail(q) \in Seq(Entry) /\ Len(Tail(q)) = Len(q) - 1
      /\ \A k \in 1..Len(q) - 1 : Tail(q)[k] = q[k + 1]
  OBVIOUS
<1>2. \A k \in 1..Len(q) - 1 : k + 1 \in 1..Len(q)
  BY <1>1
<1>3. Sorted(Tail(q))
  <2> SUFFICES ASSUME NEW j \in 1..Len(q) - 1, NEW k \in 1..Len(q) - 1, j <= k
               PROVE  q[j + 1].at <= q[k + 1].at
    BY <1>1 DEF Sorted
  <2>1. j + 1 \in 1..Len(q) /\ k + 1 \in 1..Len(q) /\ j + 1 <= k + 1
    BY <1>1
  <2> QED
    BY <2>1 DEF Sorted
<1>4. \A k \in 1..Len(q) : q[k] \in Elems(Tail(q)) \cup {Head(q)}
  <2> SUFFICES ASSUME NEW k \in 1..Len(q), k # 1
               PROVE  q[k] \in Elems(Tail(q))
    BY <1>1
  <2>1. k - 1 \in 1..Len(q) - 1 /\ (k - 1) + 1 = k
    BY <1>1
  <2>2. Tail(q)[k - 1] = q[k]
    BY <1>1, <2>1
  <2>3. Tail(q)[k - 1] \in Elems(Tail(q))
    BY <1>1, <2>1 DEF Elems
  <2> QED
    BY <2>2, <2>3
<1>5. \A k \in 1..Len(q) - 1 : Tail(q)[k] \in Elems(q)
  BY <1>1, <1>2 DEF Elems
<1>6. Head(q) \in Elems(q)
  BY <1>1 DEF Elems
<1>7. Elems(q) = Elems(Tail(q)) \cup {Head(q)}
  BY <1>1, <1>4, <1>5, <1>6 DEF Elems
<1> QED
  BY <1>1, <1>3, <1>6, <1>7

LEMMA NoneIsNoEntry == None \notin Entry
<1> SUFFICES ASSUME None \in Entry
             PROVE  FALSE
  OBVIOUS
<1>1. \A e \in Entry : DOMAIN e = {"slot", "at", "ev"}
  BY DEF Entry
<1>2. DOMAIN None = {"slot", "at"}
  BY DEF None
<1> QED
  BY <1>1, <1>2

LEMMA DispatchKeeps == IInv /\ Dispatch => IInv'
<1> SUFFICES ASSUME IInv, Dispatch
             PROVE  IInv'
  OBVIOUS
<1>1. /\ phase = "service" /\ queue # <<>> /\ current' = Head(queue) /\ queue' = Tail(queue)
      /\ phase' = "handler" /\ fired' = TRUE /\ ops' = 0
      /\ UNCHANGED <<free, CPU_Cycles, CPU_CycleLeft>>
  BY DEF Dispatch, Due
<1>2. /\ queue \in Seq(Entry) /\ free \in Seq(Slots) /\ Sorted(queue)
      /\ Queued \cup Elems(free) \cup InFlight = Slots
      /\ Len(queue) + Len(free) + Cardinality(InFlight) = Cardinality(Slots)
  BY DEF IInv, Lists, SlotsConserved
<1>3. current = None
  BY <1>1 DEF IInv, HandlerRuns
<1>4. /\ Head(queue) \in Entry /\ Head(queue) \in Elems(queue)
      /\ queue' \in Seq(Entry) /\ Sorted(queue') /\ Len(queue') = Len(queue) - 1
      /\ Elems(queue) = Elems(queue') \cup {Head(queue)}
  BY <1>1, <1>2, HeadAndTail
<1>5. current' \in Entry /\ current' # None /\ current'.slot = Head(queue).slot
  BY <1>1, <1>4, NoneIsNoEntry
<1>6. InFlight' = {Head(queue).slot} /\ InFlight = {}
  BY <1>3, <1>5 DEF InFlight
<1>7. Cardinality(InFlight') = 1 /\ Cardinality(InFlight) = 0
  BY <1>6, FS_EmptySet, FS_Singleton
<1>8. Queued = Queued' \cup {Head(queue).slot}
  <2>1. Queued = {x.slot : x \in Elems(queue)} /\ Queued' = {x.slot : x \in Elems(queue')}
    BY DEF Queued, Elems
  <2> QED
    BY <1>4, <2>1
<1>9. SlotsConserved'
  <2>1. Queued' \cup Elems(free') \cup InFlight' = Slots
    BY <1>1, <1>2, <1>6, <1>8
  <2> DEFINE n == Cardinality(Slots)
  <2>2. Len(queue) \in Nat /\ Len(free) \in Nat /\ Len(queue) + Len(free) + 0 = n
    BY <1>2, <1>7
  <2>3. Len(queue') + Len(free') + 1 = n
    BY <1>1, <1>4, <2>2
  <2> QED
    BY <1>7, <2>1, <2>3 DEF SlotsConserved
<1>10. Lists'
  BY <1>1, <1>2, <1>4, <1>9 DEF Lists
<1>11. Clock' /\ HandlerRuns'
  BY <1>1, <1>5, Constants DEF IInv, Clock, Phases, HandlerRuns
<1>12. SliceEnds' = SliceEnds /\ TickIndexND' = TickIndexND
  BY <1>1 DEF SliceEnds, TickIndexND
<1>13. Bounds'
  BY <1>1, <1>12 DEF IInv, Bounds, BoundsOf
<1>14. Timely'
  <2>1. Floor' = Floor
    BY <1>1, <1>12 DEF Floor, FloorOf
  <2>2. After(queue', Floor) /\ Head(queue).at > Floor * Sub
    BY <1>4 DEF After, IInv, Timely
  <2> QED
    BY <1>1, <2>1, <2>2 DEF Timely
<1> QED
  BY <1>10, <1>11, <1>13, <1>14 DEF IInv

LEMMA HandlerCallKeeps == IInv /\ HandlerCall => IInv'
<1> SUFFICES ASSUME IInv, HandlerCall
             PROVE  IInv'
  OBVIOUS
<1>1. /\ phase = "handler" /\ ops < MaxOps /\ QueueCall(current.at) /\ ops' = ops + 1
      /\ UNCHANGED <<current, CPU_Cycles, CPU_CycleLeft, phase, fired>>
  BY DEF HandlerCall
<1>2. current \in Entry /\ current.at \in Int
  <2>1. \A e \in Entry : e.at \in Int
    BY DEF Entry
  <2> QED
    BY <1>1, <2>1 DEF IInv, Clock, HandlerRuns
<1>3. Lists' /\ \A e \in Elems(queue') : e \in Elems(queue) \/ e.at > current.at
  BY <1>1, <1>2, CallKeeps DEF IInv
<1>4. Clock' /\ HandlerRuns'
  <2>1. ops' \in 0..MaxOps
    BY <1>1, BoundAssumption DEF IInv, Clock
  <2> QED
    BY <1>1, <2>1 DEF IInv, Clock, HandlerRuns
<1>5. SliceEnds' = SliceEnds /\ TickIndexND' = TickIndexND
  BY <1>1 DEF SliceEnds, TickIndexND
<1>6. Bounds' /\ Floor' = Floor
  BY <1>1, <1>5 DEF IInv, Bounds, Floor
<1>7. Timely'
  <2> DEFINE floor == Floor * Sub
  <2>1. current.at > floor /\ \A e \in Elems(queue) : e.at > floor
    BY <1>1 DEF IInv, Timely, After
  <2>2. floor \in Int /\ \A e \in Elems(queue') : e.at \in Int
    BY <1>3, ClockIs, CycleAssumption, DueTimes DEF Lists, IInv, Clock
  <2>3. \A e \in Elems(queue') : e.at > floor
    <3> HIDE DEF floor
    <3> QED
      BY <1>2, <1>3, <2>1, <2>2
  <2> QED
    BY <1>1, <1>6, <2>1, <2>3 DEF Timely, After
<1> QED
  BY <1>3, <1>4, <1>6, <1>7 DEF IInv

LEMMA HandlerReturnKeeps == IInv /\ HandlerReturn => IInv'
<1> SUFFICES ASSUME IInv, HandlerReturn
             PROVE  IInv'
  OBVIOUS
<1>1. /\ phase = "handler" /\ free' = <<current.slot>> \o free /\ current' = None
      /\ phase' = "service" /\ ops' = 0
      /\ UNCHANGED <<queue, CPU_Cycles, CPU_CycleLeft, fired>>
  BY DEF HandlerReturn
<1>2. current \in Entry /\ current # None /\ current.slot \in Slots
  <2>1. \A e \in Entry : e.slot \in Slots
    BY DEF Entry
  <2> QED
    BY <1>1, <2>1 DEF IInv, Clock, HandlerRuns
<1>3. /\ queue \in Seq(Entry) /\ free \in Seq(Slots) /\ Sorted(queue)
      /\ Queued \cup Elems(free) \cup InFlight = Slots
      /\ Len(queue) + Len(free) + Cardinality(InFlight) = Cardinality(Slots)
  BY DEF IInv, Lists, SlotsConserved
<1>4. InFlight = {current.slot} /\ InFlight' = {}
  BY <1>1, <1>2 DEF InFlight
<1>5. Cardinality(InFlight) = 1 /\ Cardinality(InFlight') = 0
  BY <1>4, FS_EmptySet, FS_Singleton
<1>6. /\ free' \in Seq(Slots) /\ Len(free') = Len(free) + 1
      /\ Elems(free') = Elems(free) \cup {current.slot}
  <2> DEFINE one == <<current.slot>>
  <2>1. one \in Seq(Slots) /\ Len(one) = 1 /\ one[1] = current.slot
    BY <1>2
  <2>2. free' = one \o free
    BY <1>1
  <2> HIDE DEF one
  <2>3. /\ free' \in Seq(Slots) /\ Len(free') = 1 + Len(free) /\ Len(free) \in Nat
        /\ free'[1] = current.slot
        /\ \A k \in 2..1 + Len(free) : free'[k] = free[k - 1]
    <3>1. /\ free' \in Seq(Slots) /\ Len(free') = Len(one) + Len(free) /\ Len(free) \in Nat
          /\ \A k \in 1..Len(one) : free'[k] = one[k]
          /\ \A k \in Len(one) + 1..Len(one) + Len(free) : free'[k] = free[k - Len(one)]
      BY <1>3, <2>1, <2>2, Joined
    <3>2. \A k \in 2..1 + Len(free) : k \in 1 + 1..1 + Len(free)
      BY <3>1
    <3> QED
      BY <2>1, <3>1, <3>2
  <2>4. \A k \in 1..Len(free') : free'[k] \in Elems(free) \cup {current.slot}
    <3> SUFFICES ASSUME NEW k \in 1..Len(free'), k # 1
                 PROVE  free'[k] \in Elems(free)
      BY <2>3
    <3>1. k - 1 \in 1..Len(free) /\ free'[k] = free[k - 1]
      BY <2>3
    <3> QED
      BY <3>1 DEF Elems
  <2>5. \A k \in 1..Len(free) : free[k] \in Elems(free')
    <3> SUFFICES ASSUME NEW k \in 1..Len(free)
                 PROVE  free[k] \in Elems(free')
      OBVIOUS
    <3>1. k + 1 \in 2..1 + Len(free) /\ k + 1 \in 1..Len(free') /\ (k + 1) - 1 = k
      BY <2>3
    <3>2. free'[k + 1] = free[k] /\ free'[k + 1] \in Elems(free')
      BY <2>3, <3>1 DEF Elems
    <3> QED
      BY <3>2
  <2>6. current.slot \in Elems(free')
    BY <2>3 DEF Elems
  <2> QED
    BY <2>3, <2>4, <2>5, <2>6 DEF Elems
<1>7. Queued' = Queued
  BY <1>1 DEF Queued
<1>8. SlotsConserved'
  <2>1. Queued' \cup Elems(free') \cup InFlight' = Slots
    BY <1>3, <1>4, <1>6, <1>7
  <2> DEFINE n == Cardinality(Slots)
  <2>2. Len(queue) \in Nat /\ Len(free) \in Nat /\ Len(queue) + Len(free) + 1 = n
    BY <1>3, <1>5
  <2>3. Len(queue') + Len(free') + 0 = n
    BY <1>1, <1>6, <2>2
  <2> QED
    BY <1>5, <2>1, <2>3 DEF SlotsConserved
<1>9. Lists'
  BY <1>1, <1>3, <1>6, <1>8 DEF Lists
<1>10. Clock' /\ HandlerRuns'
  BY <1>1, Constants DEF IInv, Clock, Phases, HandlerRuns
<1>11. SliceEnds' = SliceEnds /\ TickIndexND' = TickIndexND
  BY <1>1 DEF SliceEnds, TickIndexND
<1>12. Bounds' /\ Floor' = Floor
  BY <1>1, <1>11 DEF IInv, Bounds, BoundsOf, Floor, FloorOf
<1>13. Timely'
  BY <1>1, <1>12 DEF IInv, Timely, After
<1> QED
  BY <1>9, <1>10, <1>12, <1>13 DEF IInv

\* What the next slice is, and why nothing is due before its last cycle.
LEMMA SliceIsShort ==
  ASSUME NEW q \in Seq(Entry), Sorted(q), ~Due(q), NEW t \in Int, t = TickIndexND,
         CPU_CycleLeft = CycleMax - t, t < CycleMax, t >= -MaxBack,
         NEW n, n = SliceFor(q, CPU_CycleLeft)
  PROVE  /\ n \in Int /\ n >= 0 /\ n <= CycleMax + MaxBack /\ t + n <= CycleMax + Hack
         /\ After(q, Within(t + n) - 1)
<1> DEFINE left == CycleMax - t
<1>1. left \in Int /\ left >= 1 /\ left <= CycleMax + MaxBack /\ t * Sub \in Int /\ t + left = CycleMax
  BY Constants, CycleAssumption
<1>2. CASE q = <<>>
  <2>1. n = left
    BY <1>2 DEF SliceFor
  <2>2. After(q, Within(t + n) - 1)
    BY <1>2 DEF After, Elems
  <2> QED
    BY <1>1, <2>1, <2>2, Constants
<1>3. CASE q # <<>>
  <2> DEFINE at == Head(q).at
             whole == WholeCycles(at - t * Sub)
             cycles == IF whole = 0 THEN 1 ELSE whole
             hacked == IF left + Hack > CycleMax THEN CycleMax ELSE left + Hack
  <2>1. at \in Int /\ at > t * Sub
    <3>1. Head(q) = q[1] /\ 1 \in 1..Len(q)
      BY <1>3
    <3>2. at \in Int
      BY <3>1, EntriesOf
    <3> QED
      BY <1>1, <1>3, <3>2 DEF Due
  <2>2. n = IF cycles < left THEN cycles
            ELSE IF Hack > 0 /\ fired THEN hacked
            ELSE left
    BY <1>1, <1>3 DEF SliceFor
  <2>3. whole \in Nat
    <3> DEFINE p == at - t * Sub
    <3>1. p \in Int /\ p > 0
      BY <1>1, <2>1
    <3> HIDE DEF p
    <3>2. p \div Sub \in Nat
      BY <3>1, CycleAssumption
    <3>3. WholeCycles(p) = p \div Sub
      BY <3>1 DEF WholeCycles
    <3> QED
      BY <3>2, <3>3 DEF p
  <2>4. at > (t + cycles - 1) * Sub
    <3>1. CASE whole = 0
      BY <1>1, <2>1, <3>1
    <3>2. CASE whole # 0
      <4>1. ~(whole < cycles) /\ cycles \in Int
        BY <2>3, <3>2
      <4> HIDE DEF cycles, at
      <4> QED
        BY <1>1, <2>1, <4>1, NotCut
    <3> QED
      BY <3>1, <3>2
  <2> HIDE DEF whole, at
  <2>5. cycles \in Nat /\ cycles >= 1
    BY <2>3
  <2> HIDE DEF cycles
  <2>6. After(q, t + cycles - 1) /\ t + cycles - 1 \in Int
    <3>1. t + cycles - 1 \in Int
      BY <1>1, <2>5
    <3> QED
      BY <2>4, <3>1, AfterHead DEF at
  <2>7. /\ n \in Int /\ n >= 0 /\ n <= CycleMax + MaxBack /\ t + n <= CycleMax + Hack
        /\ Within(t + n) - 1 \in Int /\ Within(t + n) - 1 <= t + cycles - 1
    BY <1>1, <2>2, <2>5, Constants DEF Within
  <2> QED
    BY <2>6, <2>7, AfterEarlier
<1> QED
  BY <1>2, <1>3

LEMMA EndServiceKeeps == IInv /\ EndService => IInv'
<1> SUFFICES ASSUME IInv, EndService
             PROVE  IInv'
  OBVIOUS
<1> DEFINE s == SliceEnds
           t == TickIndexND
<1>1. s \in Int /\ t \in Int /\ CPU_Cycles = s - t /\ CPU_CycleLeft = CycleMax - s /\ BoundsOf(phase, s, t)
  BY Reads
<1> DEFINE n == SliceFor(queue, CPU_CycleLeft)
<1>2. /\ phase = "service" /\ ~Due(queue) /\ CPU_Cycles' = n
      /\ CPU_CycleLeft' = CPU_CycleLeft - n /\ phase' \in {"cpu", "dynrec"} /\ fired' = FALSE
      /\ UNCHANGED <<queue, free, current, ops>>
  BY CoreAssumption DEF EndService
<1> HIDE DEF n
<1>3. queue \in Seq(Entry) /\ Sorted(queue) /\ n = SliceFor(queue, CPU_CycleLeft) /\ fired \in BOOLEAN
  BY DEF IInv, Clock, Lists, n
<1>4. s = t /\ t < CycleMax /\ t >= -MaxBack
  BY <1>1, <1>2 DEF BoundsOf
<1>5. /\ n \in Int /\ n >= 0 /\ n <= CycleMax + MaxBack /\ t + n <= CycleMax + Hack
      /\ After(queue, Within(t + n) - 1)
  BY <1>1, <1>2, <1>3, <1>4, SliceIsShort
<1>6. Moves(t + n, t) /\ CPU_Cycles' \in Int /\ CPU_CycleLeft' \in Int
  <2> HIDE DEF s, t
  <2>1. CPU_CycleLeft' = CycleMax - (t + n) /\ CPU_Cycles' = (t + n) - t
    BY <1>1, <1>2, <1>4, <1>5, Constants
  <2> QED
    BY <1>1, <1>5, <2>1, MovesTo
<1>7. /\ BoundsOf(phase', t + n, t)
      /\ FloorOf(phase', t + n, t) <= Within(t + n) - 1
      /\ FloorOf(phase', t + n, t) \in Int /\ Within(t + n) - 1 \in Int
  <2> HIDE DEF s, t
  <2> QED
    BY <1>1, <1>2, <1>4, <1>5, Constants DEF BoundsOf, FloorOf, Within, Later
<1>8. Lists' /\ Clock' /\ HandlerRuns'
  BY <1>2, <1>6, ListsStay DEF IInv, Clock, Phases, HandlerRuns
<1>9. After(queue', Floor')
  <2>1. After(queue, FloorOf(phase', t + n, t))
    <3> HIDE DEF t
    <3> QED
      BY <1>3, <1>5, <1>7, AfterEarlier
  <2> QED
    BY <1>2, <1>6, <2>1 DEF Floor, Moves
<1>10. Timely'
  BY <1>2, <1>9 DEF Timely
<1>11. Bounds'
  BY <1>6, <1>7 DEF Bounds, Moves
<1> QED
  BY <1>8, <1>10, <1>11 DEF IInv

-----------------------------------------------------------------------------
(* Between milliseconds *)

LEMMA OutsideCallKeeps == IInv /\ OutsideCall => IInv'
<1> SUFFICES ASSUME IInv, OutsideCall
             PROVE  IInv'
  OBVIOUS
<1> DEFINE s == SliceEnds
           t == TickIndexND
<1>1. s \in Int /\ t \in Int /\ CPU_Cycles = s - t /\ CPU_CycleLeft = CycleMax - s /\ BoundsOf(phase, s, t)
  BY Reads
<1>2. /\ phase \in {"idle", "tick"} /\ ops < MaxOps /\ QueueCall(t * Sub) /\ ops' = ops + 1
      /\ UNCHANGED <<current, CPU_Cycles, CPU_CycleLeft, phase, fired>>
  BY DEF OutsideCall
<1>3. Lists' /\ AddedAfter(t)
  <2>1. t * Sub \in Int
    BY <1>1, CycleAssumption
  <2> HIDE DEF t
  <2> QED
    BY <1>2, <2>1, CallKeeps DEF IInv, AddedAfter
<1>4. Clock' /\ HandlerRuns' /\ phase' # "handler"
  <2>1. ops' \in 0..MaxOps
    BY <1>2, BoundAssumption DEF IInv, Clock
  <2> QED
    BY <1>2, <2>1 DEF IInv, Clock, HandlerRuns
<1>5. Moves(s, t)
  BY <1>2 DEF Moves, SliceEnds, TickIndexND
<1>6. /\ BoundsOf(phase', s, t)
      /\ FloorOf(phase', s, t) <= FloorOf(phase, s, t) /\ FloorOf(phase', s, t) <= t
  <2> HIDE DEF s, t
  <2> QED
    BY <1>1, <1>2, Constants DEF BoundsOf, FloorOf, Within
<1> QED
  BY <1>1, <1>3, <1>4, <1>5, <1>6, FloorKeeps DEF Floor

LEMMA TickEndKeeps == IInv /\ TickEnd => IInv'
<1> SUFFICES ASSUME IInv, TickEnd
             PROVE  IInv'
  OBVIOUS
<1> DEFINE s == SliceEnds
           t == TickIndexND
<1>1. s \in Int /\ t \in Int /\ CPU_Cycles = s - t /\ CPU_CycleLeft = CycleMax - s /\ BoundsOf(phase, s, t)
  BY Reads
<1>2. /\ phase = "tick" /\ phase' = "loop" /\ ops' = 0
      /\ UNCHANGED <<queue, free, current, CPU_Cycles, CPU_CycleLeft, fired>>
  BY DEF TickEnd
<1>3. Moves(s, t) /\ CPU_Cycles' \in Int /\ CPU_CycleLeft' \in Int
  BY <1>2, Reads DEF Moves, SliceEnds, TickIndexND
<1>4. BoundsOf(phase', s, t) /\ FloorOf(phase', s, t) <= FloorOf(phase, s, t)
  <2> HIDE DEF s, t
  <2> QED
    BY <1>1, <1>2, Constants DEF BoundsOf, FloorOf, Within
<1>5. ops' \in 0..MaxOps /\ phase' \in Phases /\ phase' # "handler"
  BY <1>2, Constants DEF Phases
<1> QED
  BY <1>1, <1>2, <1>3, <1>4, <1>5, StayKeeps, Reads DEF Floor

LEMMA AddTickKeeps == IInv /\ TIMER_AddTick => IInv'
<1> SUFFICES ASSUME IInv, TIMER_AddTick
             PROVE  IInv'
  OBVIOUS
<1>1. /\ phase = "idle" /\ CPU_CycleLeft' = CycleMax /\ CPU_Cycles' = 0
      /\ queue' = [k \in 1..Len(queue) |-> [queue[k] EXCEPT !.at = @ - Millisecond]]
      /\ phase' = "tick" /\ ops' = 0 /\ UNCHANGED <<free, current, fired>>
  BY DEF TIMER_AddTick
<1> DEFINE late == -1 - 2 * Burst
<1>2. Lists /\ queue \in Seq(Entry) /\ After(queue, CycleMax + late) /\ late \in Int
  <2>1. /\ TickIndexND \in Int /\ TickIndexND >= CycleMax
        /\ Floor = IF TickIndexND < CycleMax THEN TickIndexND - 1 - 2 * Burst ELSE CycleMax - 1 - 2 * Burst
    BY <1>1, Reads DEF BoundsOf, Floor, FloorOf, Within
  <2>2. Floor = CycleMax + late /\ late \in Int
    BY <2>1, Constants
  <2> QED
    BY <2>2 DEF IInv, Timely, Lists
<1> HIDE DEF late
<1>3. Millisecond \in Int
  BY CycleAssumption DEF Millisecond
<1>4. Len(queue) \in Nat /\ \A k \in 1..Len(queue) :
        /\ queue'[k] \in Entry /\ queue'[k].at = queue[k].at - Millisecond
        /\ queue'[k].slot = queue[k].slot /\ queue[k].at \in Int
  <2>1. ASSUME NEW e \in Entry
        PROVE  LET r == [e EXCEPT !.at = @ - Millisecond]
               IN r \in Entry /\ r.at = e.at - Millisecond /\ r.slot = e.slot /\ e.at \in Int
    BY <1>3 DEF Entry
  <2>2. Len(queue) \in Nat /\ \A k \in 1..Len(queue) :
          queue[k] \in Entry /\ queue'[k] = [queue[k] EXCEPT !.at = @ - Millisecond]
    BY <1>1, <1>2
  <2>3. ASSUME NEW k \in 1..Len(queue)
        PROVE  /\ queue'[k] \in Entry /\ queue'[k].at = queue[k].at - Millisecond
               /\ queue'[k].slot = queue[k].slot /\ queue[k].at \in Int
    BY <2>1, <2>2
  <2> QED
    BY <2>2, <2>3
<1>5. queue' \in Seq(Entry) /\ Len(queue') = Len(queue)
  BY <1>1, <1>4
<1>6. Sorted(queue')
  <2> SUFFICES ASSUME NEW j \in 1..Len(queue), NEW k \in 1..Len(queue), j <= k
               PROVE  queue'[j].at <= queue'[k].at
    BY <1>5 DEF Sorted
  <2>1. queue[j].at <= queue[k].at
    BY <1>2 DEF Lists, Sorted
  <2> QED
    BY <1>3, <1>4, <2>1
<1>7. Queued' = Queued
  BY <1>4, <1>5 DEF Queued
<1>8. Lists'
  <2>1. InFlight' = InFlight /\ free' = free
    BY <1>1 DEF InFlight
  <2>2. SlotsConserved'
    BY <1>2, <1>5, <1>7, <2>1 DEF Lists, SlotsConserved
  <2> QED
    BY <1>2, <1>5, <1>6, <2>1, <2>2 DEF Lists
<1>9. Clock' /\ HandlerRuns'
  BY <1>1, Constants DEF IInv, Clock, Phases, HandlerRuns
<1>10. After(queue', late)
  <2> SUFFICES ASSUME NEW k \in 1..Len(queue)
               PROVE  queue'[k].at > late * Sub
    BY <1>5 DEF After, Elems
  <2>1. queue[k].at > (CycleMax + late) * Sub
    BY <1>2 DEF After, Elems
  <2>2. (CycleMax + late) * Sub = CycleMax * Sub + late * Sub /\ late * Sub \in Int
    BY <1>2, CycleAssumption
  <2> QED
    BY <1>3, <1>4, <2>1, <2>2 DEF Millisecond
<1>11. SliceEnds' = 0 /\ TickIndexND' = 0
  BY <1>1, Constants DEF SliceEnds, TickIndexND
<1>12. Timely'
  <2>1. Floor' = late
    BY <1>1, <1>11, Constants DEF Floor, FloorOf, Within, late
  <2> QED
    BY <1>1, <1>10, <2>1 DEF Timely
<1>13. Bounds'
  BY <1>1, <1>11, Constants DEF Bounds, BoundsOf
<1> QED
  BY <1>8, <1>9, <1>12, <1>13 DEF IInv

-----------------------------------------------------------------------------
(* The theorems *)

LEMMA NextKeeps == IInv /\ [Next]_vars => IInv'
<1> SUFFICES ASSUME IInv, [Next]_vars
             PROVE  IInv'
  OBVIOUS
<1>1. CASE Code \/ SetCycles
  BY <1>1, ScheduleKeeps, CancelKeeps, PicWriteKeeps, SetCyclesKeeps DEF Code
<1>2. CASE Spend \/ Interpreter \/ Return \/ SliceEnd
  BY <1>2, SpendKeeps, TrapKeeps, LeaveKeeps, ReturnKeeps, SliceEndKeeps DEF Interpreter
<1>3. CASE Recompiler
  BY <1>3, DetourKeeps, FallBackKeeps, EnterBlockKeeps, BlockEndKeeps, HandoverKeeps DEF Recompiler
<1>4. CASE Service
  BY <1>4, RunQueueKeeps, DispatchKeeps, HandlerCallKeeps, HandlerReturnKeeps,
     EndServiceKeeps DEF Service
<1>5. CASE Outside
  BY <1>5, OutsideCallKeeps, AddTickKeeps, TickEndKeeps DEF Outside
<1>6. CASE UNCHANGED vars
  <2>1. Lists'
    BY <1>6, ListsStay DEF IInv, vars
  <2>2. SliceEnds' = SliceEnds /\ TickIndexND' = TickIndexND
    BY <1>6 DEF vars, SliceEnds, TickIndexND
  <2>3. Bounds' /\ Floor' = Floor
    BY <1>6, <2>2 DEF vars, IInv, Bounds, Floor
  <2>4. Clock' /\ HandlerRuns' /\ Timely'
    BY <1>6, <2>3 DEF vars, IInv, Clock, HandlerRuns, Timely, After, Elems
  <2> QED
    BY <2>1, <2>3, <2>4 DEF IInv
<1> QED
  BY <1>1, <1>2, <1>3, <1>4, <1>5, <1>6 DEF Next, Cpu

\* The inductive invariant: the lists are whole, the queue is sorted, the clock stays
\* within what the cores overrun, and no event in the queue was due before the cycle
\* in which the slice that runs ends, less what has overrun it.
THEOREM Invariance == Spec => []IInv
<1> QED
  BY Initial, NextKeeps, PTL DEF Spec

\* The variables keep their types: the overrun of a slice does not add up, and the
\* clock goes no further past the millisecond, or back before it, than one slice can.
THEOREM TypeCorrect == Spec => []TypeOK
<1>1. IInv => TypeOK
  <2> SUFFICES ASSUME IInv
               PROVE  TypeOK
    OBVIOUS
  <2> DEFINE s == SliceEnds
             t == TickIndexND
  <2>1. /\ s \in Int /\ t \in Int /\ CPU_Cycles = s - t /\ CPU_CycleLeft = CycleMax - s
        /\ BoundsOf(phase, s, t) /\ phase \in Phases
    BY Reads
  <2>2. s >= -MaxBack /\ s <= CycleMax + Hack + 2 * Burst
        /\ s - t >= -Burst - 1 /\ s - t <= CycleMax + MaxBack + Boost
    <3> HIDE DEF s, t
    <3> QED
      BY <2>1, Constants DEF BoundsOf, Phases
  <2>3. /\ CPU_Cycles \in (-Burst - 1)..(CycleMax + MaxBack + Boost)
        /\ CPU_CycleLeft \in (-Hack - 2 * Burst)..(CycleMax + MaxBack)
    <3> HIDE DEF s, t
    <3> QED
      BY <2>1, <2>2, Constants
  <2> QED
    BY <2>3 DEF IInv, Lists, Clock, TypeOK
<1> QED
  BY <1>1, Invariance, PTL

\* No path of adding, cancelling and firing leaks an entry or frees one twice.
THEOREM EntriesConserved == Spec => []SlotsConserved
<1>1. IInv => SlotsConserved
  BY DEF IInv, Lists
<1> QED
  BY <1>1, Invariance, PTL

\* An event fires late by no more than what the cores take, past its time, without
\* a test of the slice's end.
THEOREM NeverLate == Spec => []FiresOnTime
<1>1. IInv => FiresOnTime
  <2> SUFFICES ASSUME IInv
               PROVE  FiresOnTime
    OBVIOUS
  <2> DEFINE late == 2 * Burst + 1
  <2>1. \A e \in Elems(queue) : e.at \in Int /\ e.at > Floor * Sub
    BY DueTimes DEF IInv, Lists, Timely, After
  <2>2. TickIndexND \in Int /\ late \in Int /\ BoundsOf(phase, SliceEnds, TickIndexND)
    BY Reads, Constants
  <2>3. ASSUME phase = "service", NEW e \in Elems(queue)
        PROVE  TickIndexND * Sub - e.at < late * Sub
    <3> DEFINE now == TickIndexND
    <3>1. now \in Int /\ now < CycleMax
      BY <2>2, <2>3 DEF BoundsOf
    <3>2. Floor = now - late
      <4>1. Floor = Within(now) - 1 - 2 * Burst
        BY <2>3 DEF Floor, FloorOf
      <4> HIDE DEF now
      <4> QED
        BY <3>1, <4>1, Constants DEF Within
    <3> HIDE DEF now, late
    <3>3. (now - late) * Sub = now * Sub - late * Sub /\ now * Sub \in Int /\ late * Sub \in Int
      BY <2>2, <3>1, CycleAssumption
    <3>4. now * Sub - e.at < late * Sub
      BY <2>1, <2>3, <3>2, <3>3
    <3> QED
      BY <3>4 DEF now
  <2>4. ASSUME phase = "idle", NEW e \in Elems(queue)
        PROVE  e.at > Millisecond - late * Sub
    <3>1. Floor = CycleMax - late
      <4> DEFINE now == TickIndexND
      <4>1. now \in Int /\ now >= CycleMax /\ Floor = Within(now) - 1 - 2 * Burst
        BY <2>2, <2>4 DEF Floor, FloorOf, BoundsOf
      <4> HIDE DEF now
      <4> QED
        BY <4>1, Constants DEF Within
    <3> HIDE DEF late
    <3>2. (CycleMax - late) * Sub = Millisecond - late * Sub
      BY <2>2, CycleAssumption DEF Millisecond
    <3> QED
      BY <2>1, <2>4, <3>1, <3>2
  <2> QED
    BY <2>3, <2>4 DEF FiresOnTime
<1> QED
  BY <1>1, Invariance, PTL

-----------------------------------------------------------------------------
(* The clock *)

LEMMA TimeStep == [TimeNext]_timeVars => [Next]_vars
BY DEF TimeNext, timeVars, vars, Next, Cpu, Service, Outside, Ticking

TimeInv == IInv /\ PIC_Ticks \in Int

LEMMA TimeInvariance == TimeSpec => []TimeInv
<1>1. TimeInit => TimeInv
  BY Initial DEF TimeInit, TimeInv
<1>2. TimeInv /\ [TimeNext]_timeVars => TimeInv'
  <2> SUFFICES ASSUME TimeInv, [TimeNext]_timeVars
               PROVE  TimeInv'
    OBVIOUS
  <2>1. IInv'
    BY TimeStep, NextKeeps DEF TimeInv
  <2>2. PIC_Ticks' = PIC_Ticks \/ PIC_Ticks' = PIC_Ticks + 1
    BY DEF TimeNext, timeVars
  <2> QED
    BY <2>1, <2>2 DEF TimeInv
<1> QED
  BY <1>1, <1>2, PTL DEF TimeSpec

\* Every action of the cores is taken within a slice.
LEMMA CpuPhase == Cpu => phase \in {"cpu", "dynrec", "block", "native"}
BY DEF Cpu, Spend, Code, ScheduleEvent, CancelEvents, WritePic, Calls, Interpreter, Trap, Leave,
   Recompiler, Detour, FallBack, EnterBlock, BlockEnd, Handover, Return, SliceEnd

\* What the cores do to the cycles: what leaves the slice without being burnt goes to
\* the rest of the millisecond.
LEMMA CpuBurns ==
  ASSUME IInv, Cpu
  PROVE  CPU_CycleLeft' + CPU_Cycles' <= CPU_CycleLeft + CPU_Cycles
<1>1. CPU_Cycles \in Int /\ CPU_CycleLeft \in Int
  BY Reads
<1>2. CASE Spend
  <2>1. PICK n \in 1..Burst : CPU_Cycles' = CPU_Cycles - n
    BY <1>2 DEF Spend
  <2>2. n \in Int /\ n >= 1 /\ CPU_CycleLeft' = CPU_CycleLeft
    BY <1>2, Constants DEF Spend
  <2> QED
    BY <1>1, <2>1, <2>2
<1>3. CASE ScheduleEvent
  <2>1. \/ CPU_Cycles' = 0 /\ CPU_CycleLeft' = CPU_CycleLeft + CPU_Cycles
        \/ UNCHANGED <<CPU_Cycles, CPU_CycleLeft>>
    BY <1>3 DEF ScheduleEvent, CutSlice
  <2> QED
    BY <1>1, <2>1
<1>4. CASE CancelEvents \/ Return \/ FallBack \/ EnterBlock
  BY <1>1, <1>4 DEF CancelEvents, Return, FallBack, EnterBlock
<1>5. CASE WritePic
  BY <1>1, <1>5 DEF WritePic
<1>6. CASE Trap \/ Leave
  <2>1. /\ CPU_Cycles > 0 /\ CPU_CycleLeft' = CPU_CycleLeft
        /\ CPU_Cycles' = CPU_Cycles - 1 \/ CPU_Cycles' = 0
    BY <1>6 DEF Trap, Leave
  <2> QED
    BY <1>1, <2>1
<1>7. CASE SliceEnd
  <2>1. CPU_CycleLeft' = CPU_CycleLeft /\ (CPU_Cycles' = CPU_Cycles - 1 \/ CPU_Cycles' = CPU_Cycles)
    BY <1>7 DEF SliceEnd
  <2> QED
    BY <1>1, <2>1
<1>8. CASE Detour
  <2>1. \/ CPU_Cycles' = CPU_Cycles - 1 /\ CPU_CycleLeft' = CPU_CycleLeft
        \/ CPU_Cycles' = 0 /\ CPU_CycleLeft' = CPU_CycleLeft + CPU_Cycles
    BY <1>8 DEF Detour
  <2> QED
    BY <1>1, <2>1
<1>9. CASE BlockEnd
  <2>1. PICK n \in 1..Burst : CPU_Cycles' = CPU_Cycles - n
    BY <1>9 DEF BlockEnd
  <2>2. n \in Int /\ n >= 1 /\ CPU_CycleLeft' = CPU_CycleLeft
    BY <1>9, Constants DEF BlockEnd
  <2> QED
    BY <1>1, <2>1, <2>2
<1>10. CASE Handover
  <2>1. PICK n \in 1..Burst : CPU_CycleLeft' = CPU_CycleLeft + CPU_Cycles - n
    BY <1>10 DEF Handover
  <2>2. n \in Int /\ n >= 1 /\ CPU_Cycles' = 1
    BY <1>10, Constants DEF Handover
  <2> QED
    BY <1>1, <2>1, <2>2
<1> QED
  BY <1>2, <1>3, <1>4, <1>5, <1>6, <1>7, <1>8, <1>9, <1>10 DEF Cpu, Code, Interpreter, Recompiler

LEMMA CyclesBurn ==
  ASSUME IInv, IInv', [TimeNext]_timeVars, ~Ticking, ~SetCycles
  PROVE  CPU_CycleLeft' + CPU_Cycles' <= CPU_CycleLeft + CPU_Cycles
<1>1. CPU_Cycles \in Int /\ CPU_CycleLeft \in Int
  BY Reads
<1>2. CASE Cpu
  BY <1>2, CpuBurns
<1>3. CASE RunQueue
  BY <1>1, <1>3 DEF RunQueue
<1>4. CASE EndService
  <2> DEFINE n == SliceFor(queue, CPU_CycleLeft)
  <2>1. phase = "service" /\ CPU_Cycles' = n /\ CPU_CycleLeft' = CPU_CycleLeft - n
    BY <1>4 DEF EndService
  <2> HIDE DEF n
  <2>2. CPU_Cycles = 0
    <3> DEFINE s == SliceEnds
               t == TickIndexND
    <3>1. s \in Int /\ t \in Int /\ CPU_Cycles = s - t /\ s = t
      BY <2>1, Reads DEF BoundsOf
    <3> HIDE DEF s, t
    <3> QED
      BY <3>1
  <2>3. n \in Int
    BY <2>1 DEF IInv, Clock
  <2> QED
    BY <1>1, <2>1, <2>2, <2>3
<1>5. CASE UNCHANGED <<CPU_Cycles, CPU_CycleLeft>>
  BY <1>1, <1>5
<1> QED
  BY <1>2, <1>3, <1>4, <1>5
     DEF TimeNext, timeVars, vars, Dispatch, HandlerCall, HandlerReturn, OutsideCall, TickEnd

\* A step that begins a millisecond counts it.
LEMMA TickCounts ==
  ASSUME [TimeNext]_timeVars, Ticking
  PROVE  PIC_Ticks' = PIC_Ticks + 1 /\ phase = "idle" /\ phase' = "tick"
<1>1. phase = "idle" /\ phase' = "tick"
  BY DEF Ticking, TIMER_AddTick
<1> QED
  BY <1>1, CpuPhase DEF TimeNext, timeVars, vars, Dispatch, SetCycles, Calls, RunQueue, HandlerCall,
     HandlerReturn, EndService, OutsideCall, TickEnd

\* Code that gives itself cycles sets the clock back by what it takes, and by what a
\* block has overrun the slice in which it runs.
LEMMA SetBack ==
  ASSUME IInv, SetCycles
  PROVE  CPU_CycleLeft' + CPU_Cycles' <= CPU_CycleLeft + CPU_Cycles + (Boost + Burst)
<1>1. /\ CPU_Cycles \in Int /\ CPU_CycleLeft \in Int /\ CPU_Cycles >= -Burst
  <2>1. phase \in {"cpu", "block", "native"}
    BY DEF SetCycles, Calls
  <2>2. CPU_Cycles = SliceEnds - TickIndexND /\ SliceEnds - TickIndexND >= -Burst
    BY <2>1, Reads, Constants DEF BoundsOf
  <2> QED
    BY <2>2, Reads
<1>2. PICK b \in 1..Boost :
        /\ CPU_Cycles' = b
        /\ \/ CPU_Cycles < b /\ UNCHANGED CPU_CycleLeft
           \/ CPU_Cycles > b /\ CPU_CycleLeft' = CPU_CycleLeft + CPU_Cycles
  BY DEF SetCycles
<1> QED
  BY <1>1, <1>2, Constants

LEMMA Scaled ==
  ASSUME NEW x \in Int, NEW y \in Int, NEW d \in Int
  PROVE  /\ x >= y - d => x * Sub >= y * Sub - d * Sub
         /\ x * Sub < y * Sub => x < y
<1>1. x * Sub \in Int /\ y * Sub \in Int /\ d * Sub \in Int /\ (y - d) * Sub = y * Sub - d * Sub
  BY CycleAssumption
<1>2. x >= y - d => (y - d) * Sub <= x * Sub
  BY Order
<1>3. y <= x => y * Sub <= x * Sub
  BY Order
<1> QED
  BY <1>1, <1>2, <1>3

\* The clock that devices read steps back only when a millisecond ends, by no more
\* than was run past it, and where code gives itself cycles.
THEOREM ClockStepsBack == TimeSpec => ClockBackstep
<1> DEFINE Bounded ==
      PIC_FullIndex' < PIC_FullIndex =>
        \/ PIC_Ticks' = PIC_Ticks + 1 /\ PIC_FullIndex' >= PIC_FullIndex - (Hack + 2 * Burst) * Sub
        \/ SetCycles /\ PIC_FullIndex' >= PIC_FullIndex - (Boost + Burst) * Sub
<1>1. TimeInv /\ TimeInv' /\ [TimeNext]_timeVars => [Bounded]_timeVars
  <2> SUFFICES ASSUME TimeInv, TimeInv', [TimeNext]_timeVars
               PROVE  Bounded
    OBVIOUS
  <2> DEFINE now   == PIC_Ticks * CycleMax + TickIndexND
             after == PIC_Ticks' * CycleMax + TickIndexND'
             left  == CPU_CycleLeft + CPU_Cycles
             rest  == CPU_CycleLeft' + CPU_Cycles'
             start == PIC_Ticks * CycleMax
  <2>1. /\ PIC_Ticks \in Int /\ PIC_Ticks' \in Int
        /\ CPU_CycleLeft \in Int /\ CPU_Cycles \in Int
        /\ CPU_CycleLeft' \in Int /\ CPU_Cycles' \in Int
    BY DEF TimeInv, IInv, Clock
  <2>2. /\ TickIndexND \in Int /\ TickIndexND' \in Int /\ start \in Int
        /\ now \in Int /\ after \in Int /\ left \in Int /\ rest \in Int
        /\ TickIndexND = CycleMax - left /\ TickIndexND' = CycleMax - rest
    BY <2>1, Constants DEF TickIndexND
  <2>3. PIC_FullIndex = now * Sub
    BY <2>1, <2>2, CycleAssumption DEF PIC_FullIndex, FullTime, Millisecond
  <2>4. PIC_FullIndex' = after * Sub
    BY <2>1, <2>2, CycleAssumption DEF PIC_FullIndex, FullTime, Millisecond
  <2>5. after < now =>
          \/ PIC_Ticks' = PIC_Ticks + 1 /\ after >= now - (Hack + 2 * Burst)
          \/ SetCycles /\ after >= now - (Boost + Burst)
    <3>1. CASE Ticking
      <4>1. PIC_Ticks' = PIC_Ticks + 1 /\ phase = "idle" /\ phase' = "tick"
        BY <3>1, TickCounts
      <4>2. TickIndexND <= CycleMax + Hack + 2 * Burst
        BY <4>1, Reads DEF BoundsOf, TimeInv
      <4>3. TickIndexND' = 0
        BY <4>1 DEF TimeInv, IInv, Bounds, BoundsOf
      <4>4. PIC_Ticks' * CycleMax = start + CycleMax
        BY <2>1, <4>1, Constants
      <4>5. now = start + TickIndexND /\ after = start + CycleMax
        <5>1. after = (start + CycleMax) + 0 /\ now = start + TickIndexND
          BY <4>3, <4>4
        <5> HIDE DEF now, after, start
        <5> QED
          BY <2>2, <5>1, Constants
      <4> HIDE DEF now, after, start, left, rest
      <4> QED
        BY <2>2, <4>1, <4>2, <4>5, Constants
    <3>2. CASE ~Ticking
      <4>1. PIC_Ticks' = PIC_Ticks
        BY <3>2 DEF TimeNext, timeVars
      <4>2. now = start + (CycleMax - left) /\ after = start + (CycleMax - rest)
        BY <2>2, <4>1
      <4>3. CASE ~SetCycles
        <5>1. rest <= left
          BY <3>2, <4>3, CyclesBurn DEF TimeInv
        <5> HIDE DEF now, after, start, left, rest
        <5> QED
          BY <2>2, <4>2, <5>1, Constants
      <4>4. CASE SetCycles
        <5>1. rest <= left + (Boost + Burst)
          BY <4>4, SetBack DEF TimeInv
        <5> HIDE DEF now, after, start, left, rest
        <5> QED
          BY <2>2, <4>2, <4>4, <5>1, Constants
      <4> QED
        BY <4>3, <4>4
    <3> QED
      BY <3>1, <3>2
  <2> HIDE DEF now, after, left, rest, start
  <2>6. /\ after * Sub < now * Sub => after < now
        /\ after >= now - (Hack + 2 * Burst) => after * Sub >= now * Sub - (Hack + 2 * Burst) * Sub
        /\ after >= now - (Boost + Burst) => after * Sub >= now * Sub - (Boost + Burst) * Sub
    <3>1. Hack + 2 * Burst \in Int /\ Boost + Burst \in Int
      BY Constants
    <3> QED
      BY <2>2, <3>1, Scaled
  <2> QED
    BY <2>3, <2>4, <2>5, <2>6
<1> QED
  BY <1>1, TimeInvariance, PTL DEF TimeSpec, ClockBackstep

-----------------------------------------------------------------------------
(* The schedule that the queue implements: the clock *)

\* A call is served at a time that the clock can show in a run.
Past == (Hack + 2 * Burst) * Sub

Showable(t) == t \in (-MaxBack * Sub)..((MaxTicks + 1) * Millisecond + Past)

LEMMA Spans ==
  /\ Millisecond \in Nat /\ Past \in Int /\ Past >= 0 /\ MaxBack * Sub \in Nat /\ MaxTicks \in Nat
  /\ -MaxBack * Sub = -(MaxBack * Sub) /\ -MaxBack * Sub \in Int
  /\ (MaxTicks + 1) * Millisecond = MaxTicks * Millisecond + Millisecond
  /\ MaxTicks * Millisecond \in Int /\ (MaxTicks + 1) * Millisecond + Past \in Int
<1>1. Millisecond \in Nat /\ MaxBack * Sub \in Nat /\ MaxTicks \in Nat
  BY CycleAssumption, BoundAssumption, TickAssumption DEF Millisecond
<1>2. Past \in Int /\ Past >= 0
  <2>1. Hack + 2 * Burst \in Nat /\ Sub \in Nat
    BY BoundAssumption, CycleAssumption
  <2> QED
    BY <2>1 DEF Past
<1>3. -MaxBack * Sub = -(MaxBack * Sub)
  BY CycleAssumption, BoundAssumption
<1> QED
  BY <1>1, <1>2, <1>3

LEMMA ClockReads ==
  ASSUME NEW at \in Int, PIC_Ticks \in Int
  PROVE  FullTime(at) \in Int /\ FullTime(at) = PIC_Ticks * Millisecond + at
         /\ PIC_Ticks * Millisecond \in Int
BY CycleAssumption DEF FullTime, Millisecond

LEMMA ClockOrder ==
  ASSUME NEW x \in Int, NEW y \in Int, PIC_Ticks \in Int, x <= y
  PROVE  FullTime(x) \in Int /\ FullTime(y) \in Int /\ FullTime(x) <= FullTime(y)
<1>1. FullTime(x) = PIC_Ticks * Millisecond + x /\ PIC_Ticks * Millisecond \in Int
  BY ClockReads
<1>2. FullTime(y) = PIC_Ticks * Millisecond + y
  BY ClockReads
<1> QED
  BY <1>1, <1>2

\* A time between the furthest that code sets the clock back and what the cores run
\* past a millisecond is one that the clock can show.
LEMMA CycleShows ==
  ASSUME NEW n \in Int, PIC_Ticks \in 0..MaxTicks, n >= -MaxBack, n <= CycleMax + Hack + 2 * Burst
  PROVE  n * Sub \in Int /\ Showable(FullTime(n * Sub))
<1> DEFINE a == PIC_Ticks * Millisecond
           b == n * Sub
           c == MaxTicks * Millisecond
<1>1. /\ PIC_Ticks \in Nat /\ PIC_Ticks <= MaxTicks /\ a \in Int /\ a >= 0 /\ c \in Int /\ a <= c
  BY Spans
<1>2. b \in Int /\ -MaxBack * Sub <= b
  <2>1. (-MaxBack) * Sub <= n * Sub
    BY Order, Constants
  <2>2. (-MaxBack) * Sub = -(MaxBack * Sub)
    BY Constants, CycleAssumption
  <2>3. n * Sub \in Int
    BY CycleAssumption
  <2> QED
    BY <2>1, <2>2, <2>3, Spans
<1>3. b <= Millisecond + Past
  <2>1. n * Sub <= (CycleMax + Hack + 2 * Burst) * Sub
    BY Order, Constants
  <2>2. (CycleMax + (Hack + 2 * Burst)) * Sub = Millisecond + Past
    BY Constants, CycleAssumption DEF Millisecond, Past
  <2>3. CycleMax + Hack + 2 * Burst = CycleMax + (Hack + 2 * Burst)
    BY Constants
  <2> QED
    BY <2>1, <2>2, <2>3
<1>4. FullTime(n * Sub) = a + b
  BY DEF FullTime
<1> HIDE DEF a, b, c
<1>5. a + b >= -MaxBack * Sub /\ a + b <= (c + Millisecond) + Past /\ a + b \in Int
  BY <1>1, <1>2, <1>3, Spans
<1> QED
  BY <1>2, <1>4, <1>5, Spans DEF Showable, b, c

-----------------------------------------------------------------------------
(* Sequences *)

Splice(q, n, e) == SubSeq(q, 1, n) \o <<e>> \o SubSeq(q, n + 1, Len(q))

\* Its elements.
Splices(r, q, n, e) ==
  /\ Len(r) = Len(q) + 1
  /\ \A k \in 1..Len(q) + 1 :
       r[k] = IF k <= n THEN q[k] ELSE IF k = n + 1 THEN e ELSE q[k - 1]

LEMMA Spliced ==
  ASSUME NEW S, NEW q \in Seq(S), NEW n \in 0..Len(q), NEW e \in S,
         NEW r, r = Splice(q, n, e)
  PROVE  r \in Seq(S) /\ Splices(r, q, n, e)
<1> DEFINE a == SubSeq(q, 1, n)
           b == SubSeq(q, n + 1, Len(q))
<1>1. n \in Nat /\ Len(q) \in Nat
  OBVIOUS
<1>2. a \in Seq(S) /\ Len(a) = n /\ \A k \in 1..n : a[k] = q[k]
  OBVIOUS
<1>3. b \in Seq(S) /\ Len(b) = Len(q) - n /\ \A k \in 1..Len(q) - n : b[k] = q[n + k]
  OBVIOUS
<1>4. r = a \o <<e>> \o b
  BY DEF Splice
<1> HIDE DEF a, b
<1>5. /\ r \in Seq(S) /\ Len(r) = Len(a) + 1 + Len(b)
      /\ \A k \in 1..Len(a) : r[k] = a[k]
      /\ r[Len(a) + 1] = e
      /\ \A k \in Len(a) + 2..Len(a) + 1 + Len(b) : r[k] = b[k - Len(a) - 1]
  <2>1. a \in Seq(S) /\ b \in Seq(S) /\ e \in S
    BY <1>2, <1>3
  <2> QED
    BY <1>4, <2>1
<1>6. ASSUME NEW k \in n + 2..Len(q) + 1
      PROVE  r[k] = q[k - 1]
  <2>1. k - n - 1 \in 1..Len(q) - n /\ n + (k - n - 1) = k - 1
    BY <1>1
  <2>2. k \in Len(a) + 2..Len(a) + 1 + Len(b) /\ k - Len(a) - 1 = k - n - 1
    BY <1>1, <1>2, <1>3
  <2> QED
    BY <1>3, <1>5, <2>1, <2>2
<1>7. Len(r) = Len(q) + 1
  BY <1>1, <1>2, <1>3, <1>5
<1>8. ASSUME NEW k \in 1..Len(q) + 1
      PROVE  r[k] = IF k <= n THEN q[k] ELSE IF k = n + 1 THEN e ELSE q[k - 1]
  <2>1. CASE k <= n
    BY <1>2, <1>5, <2>1
  <2>2. CASE k = n + 1
    BY <1>1, <1>2, <1>5, <2>2
  <2>3. CASE k > n + 1
    BY <1>1, <1>6, <2>3
  <2> QED
    BY <1>1, <2>1, <2>2, <2>3
<1> QED
  BY <1>5, <1>7, <1>8 DEF Splices

-----------------------------------------------------------------------------
(* What the queue shows of itself *)

Shown(e) == [due |-> FullTime(e.at), ev |-> e.ev]
Requests == [due : Int, ev : Events]

LEMMA Shows ==
  ASSUME NEW q \in Seq(Entry), PIC_Ticks \in Int
  PROVE  /\ [k \in 1..Len(q) |-> Shown(q[k])] \in Seq(Requests)
         /\ Len([k \in 1..Len(q) |-> Shown(q[k])]) = Len(q)
<1>1. ASSUME NEW e \in Entry
      PROVE  Shown(e) \in Requests
  <2>1. e.at \in Int /\ e.ev \in Events
    BY DEF Entry
  <2>2. FullTime(e.at) \in Int
    BY <2>1, ClockReads
  <2> QED
    BY <2>1, <2>2 DEF Shown, Requests
<1> HIDE DEF Shown
<1>2. Len(q) \in Nat /\ \A k \in 1..Len(q) : Shown(q[k]) \in Requests
  BY <1>1
<1> QED
  BY <1>2

LEMMA PendingIs == Pending = [k \in 1..Len(queue) |-> Shown(queue[k])]
BY DEF Pending, Shown

\* An insertion into the queue is one into what it shows.
LEMMA AddSchedules ==
  ASSUME Lists, NEW ev \in Events, NEW delay \in Delays, NEW now \in Int,
         PIC_AddEvent(ev, delay, now), free # <<>>,
         PIC_Ticks \in Int, PIC_Ticks' = PIC_Ticks
  PROVE  \E n \in 0..Len(Pending) :
           /\ \A k \in 1..Len(Pending) : k <= n <=> Pending[k].due <= FullTime(now + delay)
           /\ Pending' = Splice(Pending, n, [due |-> FullTime(now + delay), ev |-> ev])
<1> DEFINE e == [slot |-> Head(free), at |-> now + delay, ev |-> ev]
           n == Cardinality({k \in 1..Len(queue) : queue[k].at <= e.at})
<1>1. queue' = Splice(queue, n, e)
  BY DEF PIC_AddEvent, AddTo, Insert, Splice
<1>2. e \in Entry /\ e.at = now + delay /\ e.ev = ev
  <2>1. now + delay \in Int
    BY DelayAssumption
  <2>2. Head(free) \in Slots
    BY DEF Lists
  <2> QED
    BY <2>1, <2>2 DEF Entry
<1>3. queue \in Seq(Entry) /\ Sorted(queue) /\ e.at \in Int
  BY <1>2 DEF Lists, Entry
<1>4. n \in 0..Len(queue) /\ \A k \in 1..Len(queue) : k <= n <=> queue[k].at <= e.at
  BY <1>3, NoLater
<1> HIDE DEF n, e
<1>5. /\ Len(queue') = Len(queue) + 1
      /\ \A k \in 1..Len(queue) + 1 :
           queue'[k] = IF k <= n THEN queue[k] ELSE IF k = n + 1 THEN e ELSE queue[k - 1]
  <2>1. Splices(queue', queue, n, e)
    BY <1>1, <1>2, <1>3, <1>4, Spliced
  <2> QED
    BY <2>1 DEF Splices
<1>6. Len(queue) \in Nat /\ \A k \in 1..Len(queue) : queue[k] \in Entry /\ queue[k].at \in Int
  BY <1>3, EntriesOf
<1>7. Pending \in Seq(Requests) /\ Len(Pending) = Len(queue)
      /\ \A k \in 1..Len(queue) : Pending[k] = Shown(queue[k])
  BY <1>3, Shows, PendingIs
<1>8. Pending' = [k \in 1..Len(queue) + 1 |-> Shown(queue'[k])]
  BY <1>5 DEF Pending, Shown, FullTime
<1>9. Shown(e) = [due |-> FullTime(now + delay), ev |-> ev]
  BY <1>2 DEF Shown
<1>10. \A k \in 1..Len(Pending) : k <= n <=> Pending[k].due <= FullTime(now + delay)
  <2> SUFFICES ASSUME NEW k \in 1..Len(queue)
               PROVE  k <= n <=> Pending[k].due <= FullTime(now + delay)
    BY <1>7
  <2>1. Pending[k] = [due |-> FullTime(queue[k].at), ev |-> queue[k].ev]
    BY <1>7 DEF Shown
  <2>2. queue[k].at \in Int /\ (k <= n <=> queue[k].at <= e.at)
    BY <1>4, <1>6
  <2>3. FullTime(queue[k].at) <= FullTime(e.at) <=> queue[k].at <= e.at
    <3> DEFINE x == queue[k].at
               y == e.at
    <3>1. x \in Int /\ y \in Int
      BY <1>3, <2>2
    <3> HIDE DEF x, y
    <3>2. FullTime(x) = PIC_Ticks * Millisecond + x /\ FullTime(y) = PIC_Ticks * Millisecond + y
          /\ PIC_Ticks * Millisecond \in Int
      BY <3>1, ClockReads
    <3>3. FullTime(x) <= FullTime(y) <=> x <= y
      BY <3>1, <3>2
    <3> QED
      BY <3>3 DEF x, y
  <2> QED
    BY <1>2, <2>1, <2>2, <2>3
<1>11. Pending' = Splice(Pending, n, Shown(e))
  <2>1. Shown(e) \in Requests
    <3>1. e.at \in Int /\ e.ev \in Events
      BY <1>2, <1>3
    <3> QED
      BY <3>1, ClockReads DEF Shown, Requests
  <2> DEFINE r == Splice(Pending, n, Shown(e))
  <2>2. /\ r \in Seq(Requests) /\ Len(r) = Len(queue) + 1
        /\ \A k \in 1..Len(queue) + 1 :
             r[k] = IF k <= n THEN Pending[k] ELSE IF k = n + 1 THEN Shown(e) ELSE Pending[k - 1]
    <3>1. n \in 0..Len(Pending)
      BY <1>4, <1>7
    <3>2. r \in Seq(Requests) /\ Splices(r, Pending, n, Shown(e))
      BY <1>7, <2>1, <3>1, Spliced
    <3> QED
      BY <1>7, <3>2 DEF Splices
  <2> HIDE DEF r
  <2>3. ASSUME NEW k \in 1..Len(queue) + 1
        PROVE  r[k] = Shown(queue'[k])
    <3>1. CASE k <= n
      <4>1. k \in 1..Len(queue)
        BY <1>4, <1>6, <3>1
      <4> QED
        BY <1>5, <1>7, <2>2, <3>1, <4>1
    <3>2. CASE k = n + 1
      BY <1>4, <1>5, <2>2, <3>2
    <3>3. CASE k > n + 1
      <4>1. k - 1 \in 1..Len(queue) /\ ~(k <= n) /\ k # n + 1
        BY <1>4, <1>6, <3>3
      <4> QED
        BY <1>5, <1>7, <2>2, <3>3, <4>1
    <3> QED
      BY <1>4, <3>1, <3>2, <3>3
  <2>4. r = [k \in 1..Len(queue) + 1 |-> r[k]]
    BY <1>6, <2>2
  <2> QED
    BY <1>8, <2>3, <2>4 DEF r
<1> QED
  BY <1>4, <1>7, <1>9, <1>10, <1>11

\* A removal from the queue is one from what it shows.
LEMMA RemoveSchedules ==
  ASSUME Lists, NEW kind \in SUBSET Events, Remove(kind), PIC_Ticks \in Int, PIC_Ticks' = PIC_Ticks
  PROVE  Pending' = Schedule!Without(kind)
<1> DEFINE evs == Events \ kind
<1>1. queue' = Of(queue, evs) /\ queue \in Seq(Entry)
  BY DEF Remove, Without, Lists
<1>2. PICK f : /\ f = [k \in 0..Len(queue) |->
                       IF k = 0 THEN <<>>
                       ELSE IF queue[k].ev \in evs THEN Append(f[k - 1], queue[k]) ELSE f[k - 1]]
               /\ Of(queue, evs) = f[Len(queue)]
  BY <1>1, OfFunction
<1> DEFINE show(r) == [k \in 1..Len(r) |-> Shown(r[k])]
           Grow(r, k) == IF Pending[k].ev \in kind THEN r ELSE Append(r, Pending[k])
           Kept(h, k) == IF k = 0 THEN <<>> ELSE Grow(h[k - 1], k)
           g == [k \in 0..Len(queue) |-> show(f[k])]
<1>3. Len(queue) \in Nat /\ \A k \in 1..Len(queue) : queue[k] \in Entry /\ queue[k].ev \in Events
  <2>1. \A e \in Entry : e.ev \in Events
    BY DEF Entry
  <2> QED
    BY <1>1, <2>1, EntriesOf
<1>4. Len(Pending) = Len(queue)
      /\ \A k \in 1..Len(queue) : Pending[k] = Shown(queue[k]) /\ Pending[k].ev = queue[k].ev
  <2>1. Len(Pending) = Len(queue) /\ \A k \in 1..Len(queue) : Pending[k] = Shown(queue[k])
    BY <1>1, Shows, PendingIs
  <2>2. \A k \in 1..Len(queue) : Shown(queue[k]).ev = queue[k].ev
    BY DEF Shown
  <2> QED
    BY <2>1, <2>2
<1>5. f[0] = <<>> /\ \A k \in 1..Len(queue) :
        f[k] = IF queue[k].ev \in evs THEN Append(f[k - 1], queue[k]) ELSE f[k - 1]
  <2>1. f[0] = <<>>
    BY <1>2, <1>3
  <2>2. ASSUME NEW k \in 1..Len(queue)
        PROVE  f[k] = IF queue[k].ev \in evs THEN Append(f[k - 1], queue[k]) ELSE f[k - 1]
    <3>1. k \in 0..Len(queue) /\ k # 0
      BY <1>3
    <3> QED
      BY <1>2, <3>1
  <2> QED
    BY <2>1, <2>2
<1>6. ASSUME NEW r \in Seq(Entry), NEW e \in Entry
      PROVE  show(Append(r, e)) = Append(show(r), Shown(e))
  <2>1. Len(r) \in Nat /\ Append(r, e) \in Seq(Entry) /\ Len(Append(r, e)) = Len(r) + 1
        /\ \A k \in 1..Len(r) : Append(r, e)[k] = r[k]
        /\ Append(r, e)[Len(r) + 1] = e
    OBVIOUS
  <2>2. show(r) \in Seq(Requests) /\ Len(show(r)) = Len(r)
    BY Shows
  <2> HIDE DEF Shown
  <2> DEFINE s == Append(r, e)
             t == Append(show(r), Shown(e))
  <2>3. t = [k \in 1..Len(r) + 1 |-> IF k = Len(r) + 1 THEN Shown(e) ELSE show(r)[k]]
    BY <2>1, <2>2
  <2>4. show(s) = [k \in 1..Len(r) + 1 |-> Shown(s[k])]
    BY <2>1
  <2>5. \A k \in 1..Len(r) + 1 :
          Shown(s[k]) = IF k = Len(r) + 1 THEN Shown(e) ELSE show(r)[k]
    <3>1. \A k \in 1..Len(r) + 1 : k = Len(r) + 1 \/ k \in 1..Len(r)
      BY <2>1
    <3> QED
      BY <2>1, <3>1
  <2> HIDE DEF s, t, show
  <2> QED
    BY <2>3, <2>4, <2>5 DEF s, t
<1> DEFINE good == {n \in Nat : n <= Len(queue) => f[n] \in Seq(Entry)}
<1>7. \A n \in 0..Len(queue) : f[n] \in Seq(Entry)
  <2>1. good \in SUBSET Nat /\ 0 \in good
    <3>1. <<>> \in Seq(Entry) /\ f[0] = <<>>
      BY <1>5
    <3> QED
      BY <3>1
  <2>2. ASSUME NEW n \in good
        PROVE  n + 1 \in good
    <3> SUFFICES ASSUME n + 1 <= Len(queue)
                 PROVE  f[n + 1] \in Seq(Entry)
      OBVIOUS
    <3>1. n + 1 \in 1..Len(queue) /\ (n + 1) - 1 = n /\ f[n] \in Seq(Entry)
      BY <1>3
    <3>2. queue[n + 1] \in Entry
      BY <1>3, <3>1
    <3>3. f[n + 1] = IF queue[n + 1].ev \in evs THEN Append(f[n], queue[n + 1]) ELSE f[n]
      BY <1>5, <3>1
    <3> QED
      BY <3>1, <3>2, <3>3
  <2> HIDE DEF good
  <2>3. good = Nat
    BY <2>1, <2>2, Induction
  <2> QED
    BY <1>3, <2>3 DEF good
<1> HIDE DEF show
<1>8. g[0] = <<>> /\ \A k \in 1..Len(queue) : g[k] = Grow(g[k - 1], k)
  <2>1. show(<<>>) = <<>>
    BY DEF show
  <2>2. ASSUME NEW k \in 1..Len(queue)
        PROVE  g[k] = Grow(g[k - 1], k)
    <3>1. k - 1 \in 0..Len(queue) /\ k \in 0..Len(queue) /\ queue[k] \in Entry
          /\ f[k - 1] \in Seq(Entry) /\ g[k] = show(f[k]) /\ g[k - 1] = show(f[k - 1])
      BY <1>3, <1>7
    <3> HIDE DEF g
    <3>2. CASE queue[k].ev \in kind
      <4>1. f[k] = f[k - 1]
        BY <1>5, <3>2
      <4> QED
        BY <1>4, <3>1, <3>2, <4>1
    <3>3. CASE queue[k].ev \notin kind
      <4>1. f[k] = Append(f[k - 1], queue[k])
        BY <1>3, <1>5, <3>3
      <4>2. show(f[k]) = Append(show(f[k - 1]), Pending[k])
        BY <1>4, <1>6, <3>1, <4>1
      <4> QED
        BY <1>4, <3>1, <3>3, <4>2
    <3> QED
      BY <3>2, <3>3
  <2>3. 0 \in 0..Len(queue)
    BY <1>3
  <2> QED
    BY <1>5, <2>1, <2>2, <2>3
<1> HIDE DEF Grow
<1>9. g = [k \in 0..Len(Pending) |-> Kept(g, k)]
  <2>1. \A k \in 0..Len(queue) : g[k] = Kept(g, k)
    <3>1. \A k \in 0..Len(queue) : k = 0 \/ k \in 1..Len(queue)
      BY <1>3
    <3> HIDE DEF g
    <3> QED
      BY <1>8, <3>1
  <2>2. g = [k \in 0..Len(queue) |-> g[k]]
    OBVIOUS
  <2> HIDE DEF g, Kept
  <2> QED
    BY <1>4, <2>1, <2>2
<1> DEFINE h == CHOOSE x : x = [k \in 0..Len(Pending) |-> Kept(x, k)]
<1>10. h = [k \in 0..Len(Pending) |-> Kept(h, k)]
  <2> HIDE DEF g, Kept
  <2> QED
    BY <1>9
<1>11. Schedule!Without(kind) = h[Len(Pending)]
  BY DEF Schedule!Without, Grow
<1> HIDE DEF h
<1> DEFINE same == {n \in Nat : n <= Len(queue) => h[n] = g[n]}
<1>12. same = Nat
  <2>1. same \in SUBSET Nat /\ 0 \in same
    <3>1. 0 \in 0..Len(Pending)
      BY <1>3, <1>4
    <3>2. h[0] = Kept(h, 0)
      <4> HIDE DEF Kept
      <4> QED
        BY <1>10, <3>1
    <3> QED
      BY <1>8, <3>2
  <2>2. ASSUME NEW n \in same
        PROVE  n + 1 \in same
    <3> SUFFICES ASSUME n + 1 <= Len(queue)
                 PROVE  h[n + 1] = g[n + 1]
      OBVIOUS
    <3>1. n + 1 \in 0..Len(Pending) /\ n + 1 # 0 /\ (n + 1) - 1 = n /\ n + 1 \in 1..Len(queue)
          /\ h[n] = g[n]
      BY <1>3, <1>4
    <3>2. h[n + 1] = Kept(h, n + 1)
      <4> HIDE DEF Kept
      <4> QED
        BY <1>10, <3>1
    <3> HIDE DEF g, same
    <3> QED
      BY <1>8, <3>1, <3>2
  <2> HIDE DEF same
  <2> QED
    BY <2>1, <2>2, Induction
<1>13. h[Len(queue)] = g[Len(queue)]
  <2>1. Len(queue) \in same
    <3> HIDE DEF same
    <3> QED
      BY <1>3, <1>12
  <2> QED
    BY <1>3, <2>1
<1>14. Pending' = show(queue')
  BY DEF Pending, show, Shown, FullTime
<1>15. g[Len(queue)] = show(queue')
  <2>1. Len(queue) \in 0..Len(queue) /\ queue' = f[Len(queue)]
    BY <1>1, <1>2, <1>3
  <2> QED
    BY <2>1
<1> HIDE DEF g
<1> QED
  BY <1>4, <1>11, <1>13, <1>14, <1>15

-----------------------------------------------------------------------------
(* The inductive invariant *)

\* Nothing that is queued is due before what has fired, and that was due before
\* now, within its millisecond, and before the slice's end that an instruction with a
\* slice of its own reads: so no rebase, and no step of the clock back at the end of a
\* millisecond, can bring a request before it.
Reach ==
  /\ PIC_Ticks \in 0..MaxTicks
  /\ horizon \in Int /\ horizon >= -MaxBack * Sub
  /\ horizon <= FullTime(TickIndexND * Sub)
  /\ horizon <= FullTime(Millisecond)
  /\ phase = "dynrec" => horizon <= FullTime(SliceEnds * Sub)
  /\ \A e \in Elems(queue) : horizon <= FullTime(e.at)
  /\ phase = "handler" => horizon = FullTime(current.at)

ScheduleInv == IInv /\ Reach

\* What a step does to the queue when it neither fires an event nor ends a handler or
\* a millisecond: calls at one time, if any.
CallsAt(now) ==
  /\ UNCHANGED <<PIC_Ticks, horizon, current>>
  /\ now \in Int /\ horizon <= FullTime(now)
  /\ Showable(FullTime(now))
  /\ QueueCall(now) \/ UNCHANGED <<queue, free>>

LEMMA ReachIs ==
  ASSUME Reach
  PROVE  PIC_Ticks \in Int /\ PIC_Ticks >= 0 /\ PIC_Ticks \in 0..MaxTicks /\ horizon \in Int
BY TickAssumption DEF Reach

\* The calls of a step within what the clock shows, at a time past the horizon.
LEMMA CallsInTime ==
  ASSUME Reach, NEW m \in Int, NEW n \in Int, m <= n, horizon <= FullTime(m * Sub),
         n >= -MaxBack, n <= CycleMax + Hack + 2 * Burst,
         UNCHANGED <<PIC_Ticks, horizon, current>>,
         QueueCall(n * Sub) \/ UNCHANGED <<queue, free>>
  PROVE  \E now \in Int : CallsAt(now)
<1>1. n * Sub \in Int /\ Showable(FullTime(n * Sub))
  BY CycleShows, ReachIs
<1>2. m * Sub \in Int /\ m * Sub <= n * Sub
  BY Order, CycleAssumption
<1>3. FullTime(m * Sub) <= FullTime(n * Sub) /\ FullTime(m * Sub) \in Int /\ FullTime(n * Sub) \in Int
  BY <1>1, <1>2, ReachIs, ClockOrder
<1>4. horizon <= FullTime(n * Sub)
  BY <1>3, ReachIs
<1>5. CallsAt(n * Sub)
  BY <1>1, <1>4 DEF CallsAt
<1> QED
  BY <1>1, <1>5

\* Every step is calls at one time, a rebase, the firing of an event, the end of its
\* handler or a step of the clock back.
LEMMA StepKinds ==
  ASSUME ScheduleInv, TimeNext
  PROVE  \/ \E now \in Int : CallsAt(now)
         \/ TIMER_AddTick /\ PIC_Ticks < MaxTicks /\ PIC_Ticks' = PIC_Ticks + 1 /\ UNCHANGED horizon
         \/ Dispatch /\ horizon' = FullTime(Head(queue).at) /\ UNCHANGED PIC_Ticks
         \/ HandlerReturn /\ UNCHANGED <<PIC_Ticks, horizon>>
         \/ SetCycles /\ UNCHANGED PIC_Ticks /\ horizon' = Earlier(horizon, PIC_FullIndex')
<1> DEFINE steady == UNCHANGED <<PIC_Ticks, horizon>>
           s == SliceEnds
           t == TickIndexND
<1>1. /\ s \in Int /\ t \in Int /\ CPU_Cycles = s - t /\ BoundsOf(phase, s, t)
      /\ Reach /\ horizon <= FullTime(t * Sub) /\ Lists
  BY Reads DEF ScheduleInv, Reach, IInv
<1>2. ASSUME ScheduleEvent, steady
      PROVE  \E now \in Int : CallsAt(now)
  <2>1. /\ phase \in {"cpu", "block", "native"} /\ UNCHANGED current
        /\ \E ev \in Events, d \in Delays : PIC_AddEvent(ev, d, t * Sub)
    BY <1>2 DEF ScheduleEvent, Calls
  <2>2. QueueCall(t * Sub)
    BY <2>1 DEF QueueCall
  <2>3. t <= t /\ t >= -MaxBack /\ t <= CycleMax + Hack + 2 * Burst
    <3> HIDE DEF s, t
    <3> QED
      BY <1>1, <2>1, Constants DEF BoundsOf
  <2> HIDE DEF t
  <2> QED
    BY <1>1, <1>2, <2>1, <2>2, <2>3, CallsInTime
<1>3. ASSUME OutsideCall, steady
      PROVE  \E now \in Int : CallsAt(now)
  <2>1. phase \in {"idle", "tick"} /\ UNCHANGED current /\ QueueCall(t * Sub)
    BY <1>3 DEF OutsideCall
  <2>2. t <= t /\ t >= -MaxBack /\ t <= CycleMax + Hack + 2 * Burst
    <3> HIDE DEF s, t
    <3> QED
      BY <1>1, <2>1, Constants DEF BoundsOf
  <2> HIDE DEF t
  <2> QED
    BY <1>1, <1>3, <2>1, <2>2, CallsInTime
\* The slice's end is past the clock under the trap flag, and in the recompiling core
\* past what has fired.
<1>4. ASSUME Trap \/ Detour, steady
      PROVE  \E now \in Int : CallsAt(now)
  <2>1. /\ UnderOwnSlice /\ UNCHANGED current
        /\ (phase = "cpu" /\ CPU_Cycles > 0) \/ phase = "dynrec"
    BY <1>4 DEF Trap, Detour
  <2>2. QueueCall(s * Sub) \/ UNCHANGED <<queue, free>>
    BY <2>1 DEF UnderOwnSlice, QueueCall
  <2>3. s >= -MaxBack /\ s <= CycleMax + Hack + 2 * Burst
    <3> HIDE DEF s, t
    <3> QED
      BY <1>1, <2>1, Constants DEF BoundsOf
  <2>4. \E m \in {s, t} : m <= s /\ horizon <= FullTime(m * Sub)
    <3>1. CASE phase = "cpu" /\ CPU_Cycles > 0
      <4>1. t <= s
        <5> HIDE DEF s, t
        <5> QED
          BY <1>1, <3>1
      <4> QED
        BY <1>1, <4>1
    <3>2. CASE phase = "dynrec"
      <4>1. s <= s /\ horizon <= FullTime(s * Sub)
        BY <1>1, <3>2 DEF Reach
      <4> QED
        BY <4>1
    <3> QED
      BY <2>1, <3>1, <3>2
  <2> HIDE DEF s, t
  <2> QED
    BY <1>1, <1>4, <2>1, <2>2, <2>3, <2>4, CallsInTime
\* Any time will do for a removal, and for a step that leaves the queue alone: the
\* horizon is one the clock has shown.
<1> DEFINE past == horizon - PIC_Ticks * Millisecond
<1>5. past \in Int /\ FullTime(past) = horizon /\ Showable(FullTime(past))
  <2> DEFINE x == PIC_Ticks * Millisecond
             y == MaxTicks * Millisecond
  <2>1. x \in Int /\ y \in Int /\ Past \in Int /\ Past >= 0 /\ Millisecond \in Nat /\ x <= y
    BY ReachIs, Spans, <1>1
  <2>2. past = horizon - x /\ FullTime(past) = x + past /\ horizon <= x + Millisecond
    BY <1>1 DEF FullTime, Reach
  <2>3. horizon \in Int /\ horizon >= -MaxBack * Sub
    BY <1>1 DEF Reach
  <2> HIDE DEF x, y, past
  <2>4. past \in Int /\ FullTime(past) = horizon /\ horizon <= y + Millisecond + Past
    BY <2>1, <2>2, <2>3
  <2>5. Showable(horizon)
    BY <2>3, <2>4, Spans DEF Showable, y
  <2> QED
    BY <2>4, <2>5
<1> HIDE DEF past
<1>6. horizon <= horizon
  BY <1>1, ReachIs
<1>7. ASSUME CancelEvents, steady
      PROVE  \E now \in Int : CallsAt(now)
  <2>1. QueueCall(past) /\ UNCHANGED current
    BY <1>7 DEF CancelEvents, QueueCall
  <2> QED
    BY <1>5, <1>6, <1>7, <2>1 DEF CallsAt
<1>8. ASSUME UNCHANGED <<queue, free, current>>, steady
      PROVE  \E now \in Int : CallsAt(now)
  BY <1>5, <1>6, <1>8 DEF CallsAt
<1>9. ASSUME HandlerCall, steady
      PROVE  \E now \in Int : CallsAt(now)
  <2>1. phase = "handler" /\ QueueCall(current.at) /\ UNCHANGED current
    BY <1>9 DEF HandlerCall
  <2>2. current.at \in Int /\ FullTime(current.at) = horizon
    <3>1. current \in Entry
      BY <2>1 DEF ScheduleInv, IInv, Clock, HandlerRuns
    <3> QED
      BY <1>1, <2>1, <3>1 DEF Reach, Entry
  <2> QED
    BY <1>5, <1>6, <1>9, <2>1, <2>2 DEF CallsAt
<1>10. CASE Ticking /\ PIC_Ticks' = PIC_Ticks + 1 /\ UNCHANGED horizon
  BY <1>10 DEF Ticking
<1>11. CASE Dispatch /\ horizon' = FullTime(Head(queue).at) /\ UNCHANGED PIC_Ticks
  BY <1>11
<1>12. CASE SetCycles /\ UNCHANGED PIC_Ticks /\ horizon' = Earlier(horizon, PIC_FullIndex')
  BY <1>12
<1>13. CASE /\ Cpu \/ RunQueue \/ HandlerCall \/ HandlerReturn \/ EndService \/ OutsideCall \/ TickEnd
            /\ UNCHANGED <<PIC_Ticks, horizon>>
  <2>1. CASE Spend \/ WritePic \/ Leave \/ SliceEnd \/ Return \/ RunQueue \/ EndService \/ TickEnd
    <3>1. UNCHANGED <<queue, free, current>>
      BY <2>1 DEF Spend, WritePic, Leave, SliceEnd, Return, RunQueue, EndService, TickEnd
    <3> QED
      BY <1>8, <1>13, <3>1
  <2>2. CASE FallBack \/ EnterBlock \/ BlockEnd \/ Handover
    <3>1. UNCHANGED <<queue, free, current>>
      BY <2>2 DEF FallBack, EnterBlock, BlockEnd, Handover
    <3> QED
      BY <1>8, <1>13, <3>1
  <2>3. CASE ScheduleEvent \/ OutsideCall \/ Trap \/ Detour \/ CancelEvents \/ HandlerCall
    BY <1>2, <1>3, <1>4, <1>7, <1>9, <1>13, <2>3
  <2>4. CASE HandlerReturn
    BY <1>13, <2>4
  <2> QED
    BY <1>13, <2>1, <2>2, <2>3, <2>4 DEF Cpu, Code, Interpreter, Recompiler
<1> QED
  BY <1>10, <1>11, <1>12, <1>13 DEF TimeNext

\* The code that sets the clock back is no step of a core.
LEMMA OnlySetBack ==
  ASSUME IInv, SetCycles, TimeNext
  PROVE  UNCHANGED PIC_Ticks /\ horizon' = Earlier(horizon, PIC_FullIndex')
<1>1. phase \in {"cpu", "block", "native"} /\ UNCHANGED phase
  BY DEF SetCycles, Calls
<1>2. ~Cpu
  <2> SUFFICES ASSUME Cpu
               PROVE  FALSE
    OBVIOUS
  <2>1. CPU_CycleLeft' + CPU_Cycles' <= CPU_CycleLeft + CPU_Cycles
    BY CpuBurns
  <2>2. PICK b \in 1..Boost :
          /\ CPU_Cycles' = b
          /\ \/ CPU_Cycles < b /\ UNCHANGED CPU_CycleLeft
             \/ CPU_Cycles > b /\ CPU_CycleLeft' = CPU_CycleLeft + CPU_Cycles
    BY DEF SetCycles
  <2>3. CPU_Cycles \in Int /\ CPU_CycleLeft \in Int
    BY Reads
  <2> QED
    BY <2>1, <2>2, <2>3, Constants
<1> QED
  BY <1>1, <1>2 DEF TimeNext, Ticking, TIMER_AddTick, Dispatch, RunQueue, HandlerCall, HandlerReturn,
     EndService, OutsideCall, TickEnd

\* But for such code the clock does not go back within a millisecond, so what has
\* fired stays before it.
LEMMA ReachNow ==
  ASSUME ScheduleInv, IInv', TimeNext, ~Ticking, UNCHANGED <<PIC_Ticks, horizon>>
  PROVE  horizon <= FullTime(TickIndexND' * Sub)
<1>1. /\ PIC_Ticks \in Int /\ horizon \in Int /\ IInv /\ Reach
      /\ TickIndexND \in Int /\ CPU_CycleLeft \in Int /\ CPU_Cycles \in Int
      /\ CPU_CycleLeft' \in Int /\ CPU_Cycles' \in Int
  BY ReachIs, Reads DEF ScheduleInv, IInv, Clock
<1>2. TickIndexND' \in Int /\ TickIndexND' = CycleMax - (CPU_CycleLeft' + CPU_Cycles')
      /\ TickIndexND = CycleMax - (CPU_CycleLeft + CPU_Cycles)
  BY <1>1, Constants DEF TickIndexND
<1> DEFINE m == TickIndexND
           n == TickIndexND'
<1>3. n * Sub \in Int /\ m * Sub \in Int /\ FullTime(n * Sub) \in Int
  BY <1>1, <1>2, ClockReads, CycleAssumption
<1>4. CASE SetCycles
  <2>1. PIC_FullIndex' = FullTime(n * Sub)
    BY DEF PIC_FullIndex, FullTime, Millisecond
  <2> DEFINE f == FullTime(n * Sub)
  <2>2. horizon' = Earlier(horizon, PIC_FullIndex') /\ horizon' = horizon
    BY <1>1, <1>4, OnlySetBack
  <2>3. horizon = Earlier(horizon, f) /\ f \in Int /\ horizon \in Int
    BY <1>1, <1>3, <2>1, <2>2
  <2> HIDE DEF f
  <2>4. horizon <= f
    BY <2>3 DEF Earlier
  <2> QED
    BY <2>4 DEF f
<1>5. CASE ~SetCycles
  <2>1. m <= n
    <3> DEFINE left == CPU_CycleLeft + CPU_Cycles
               rest == CPU_CycleLeft' + CPU_Cycles'
    <3>1. left \in Int /\ rest \in Int /\ rest <= left
      <4>1. rest <= left
        BY <1>1, <1>5, CyclesBurn
      <4>2. left \in Int /\ rest \in Int
        BY <1>1
      <4> QED
        BY <4>1, <4>2
    <3>2. m = CycleMax - left /\ n = CycleMax - rest
      BY <1>2
    <3> HIDE DEF left, rest, m, n
    <3> QED
      BY <3>1, <3>2, Constants
  <2>2. horizon <= FullTime(m * Sub)
    BY <1>1 DEF Reach
  <2> HIDE DEF m, n
  <2>3. m * Sub <= n * Sub
    BY <1>1, <1>2, <2>1, Order DEF m, n
  <2>4. FullTime(m * Sub) <= FullTime(n * Sub) /\ FullTime(m * Sub) \in Int
    BY <1>1, <1>3, <2>3, ClockOrder
  <2> QED
    BY <1>1, <1>3, <2>2, <2>4 DEF n
<1> QED
  BY <1>4, <1>5

\* The recompiling core begins a slice, and keeps its end from one block to the next.
LEMMA ReachEnds ==
  ASSUME ScheduleInv, IInv', TimeNext, ~Ticking, UNCHANGED <<PIC_Ticks, horizon>>, phase' = "dynrec"
  PROVE  horizon <= FullTime(SliceEnds' * Sub)
<1>1. /\ PIC_Ticks \in Int /\ horizon \in Int /\ IInv /\ Reach /\ TickIndexND \in Int /\ SliceEnds \in Int
  BY ReachIs, Reads DEF ScheduleInv
<1>2. /\ CPU_CycleLeft' \in Int /\ CPU_Cycles' \in Int
      /\ TickIndexND' \in Int /\ SliceEnds' \in Int /\ CPU_Cycles' = SliceEnds' - TickIndexND'
  <2>1. CPU_CycleLeft' \in Int /\ CPU_Cycles' \in Int
    BY DEF IInv, Clock
  <2> DEFINE left == CPU_CycleLeft'
             cycles == CPU_Cycles'
  <2>2. SliceEnds' = CycleMax - left /\ TickIndexND' = CycleMax - left - cycles
    BY DEF SliceEnds, TickIndexND
  <2>3. left \in Int /\ cycles \in Int
    BY <2>1
  <2> HIDE DEF left, cycles
  <2>4. TickIndexND' \in Int /\ SliceEnds' \in Int /\ cycles = SliceEnds' - TickIndexND'
    BY <2>2, <2>3, Constants
  <2> QED
    BY <2>1, <2>4 DEF cycles
<1>3. \/ phase = "dynrec" /\ SliceEnds' = SliceEnds
      \/ phase = "block" /\ SliceEnds' = SliceEnds
      \/ phase = "service" /\ EndService
  <2>1. CPU_CycleLeft' = CPU_CycleLeft => SliceEnds' = SliceEnds
    BY DEF SliceEnds
  <2>2. CASE Cpu
    <3>1. CASE Detour \/ BlockEnd
      BY <2>1, <3>1 DEF Detour, BlockEnd
    <3>2. CASE ~Detour /\ ~BlockEnd
      BY <2>2, <3>2 DEF Cpu, Spend, Code, ScheduleEvent, CancelEvents, WritePic, Calls, Interpreter,
         Trap, Leave, Recompiler, FallBack, EnterBlock, Handover, Return, SliceEnd
    <3> QED
      BY <3>1, <3>2
  <2>3. CASE EndService
    BY <2>3 DEF EndService
  <2>4. ~Dispatch /\ ~SetCycles /\ ~RunQueue /\ ~HandlerCall /\ ~HandlerReturn /\ ~OutsideCall /\ ~TickEnd
    BY DEF Dispatch, SetCycles, Calls, RunQueue, HandlerCall, HandlerReturn, OutsideCall, TickEnd
  <2> QED
    BY <2>2, <2>3, <2>4 DEF TimeNext
<1>4. CASE phase = "dynrec" /\ SliceEnds' = SliceEnds
  BY <1>1, <1>4 DEF Reach
<1>5. CASE phase = "block" /\ SliceEnds' = SliceEnds
  <2> DEFINE m == TickIndexND
             n == SliceEnds
  <2>1. m \in Int /\ n \in Int /\ m <= n /\ horizon <= FullTime(m * Sub)
    BY <1>1, <1>5, Reads DEF BoundsOf, Reach
  <2> HIDE DEF m, n
  <2>2. m * Sub <= n * Sub /\ m * Sub \in Int /\ n * Sub \in Int
    BY <2>1, Order, CycleAssumption
  <2>3. FullTime(m * Sub) <= FullTime(n * Sub) /\ FullTime(m * Sub) \in Int /\ FullTime(n * Sub) \in Int
    BY <1>1, <2>2, ClockOrder
  <2>4. horizon <= FullTime(n * Sub)
    BY <1>1, <2>1, <2>3
  <2> QED
    BY <1>5, <2>4 DEF n
<1>6. CASE phase = "service" /\ EndService
  <2> DEFINE m == TickIndexND'
             n == SliceEnds'
             slice == SliceFor(queue, CPU_CycleLeft)
  <2>1. slice \in Int /\ slice >= 0
    <3> DEFINE t == TickIndexND
    <3>1. /\ queue \in Seq(Entry) /\ Sorted(queue) /\ fired \in BOOLEAN /\ ~Due(queue)
          /\ t \in Int /\ t = TickIndexND /\ t < CycleMax /\ t >= -MaxBack
          /\ CPU_CycleLeft = CycleMax - t
      <4>1. /\ queue \in Seq(Entry) /\ Sorted(queue) /\ fired \in BOOLEAN /\ ~Due(queue)
        BY <1>6 DEF EndService, ScheduleInv, IInv, Lists, Clock
      <4> QED
        BY <1>1, <1>6, <4>1, Reads DEF BoundsOf
    <3> HIDE DEF t
    <3> QED
      BY <3>1, SliceIsShort
  <2>2. CPU_Cycles' = slice
    BY <1>6 DEF EndService
  <2>3. m \in Int /\ n \in Int /\ slice = n - m /\ horizon <= FullTime(m * Sub)
    BY <1>2, <2>2, ReachNow
  <2> HIDE DEF m, n, slice
  <2>4. m * Sub <= n * Sub /\ m * Sub \in Int /\ n * Sub \in Int
    BY <2>1, <2>3, Order, CycleAssumption
  <2>5. FullTime(m * Sub) <= FullTime(n * Sub) /\ FullTime(m * Sub) \in Int /\ FullTime(n * Sub) \in Int
    BY <1>1, <2>4, ClockOrder
  <2>6. horizon <= FullTime(n * Sub)
    BY <1>1, <2>3, <2>5
  <2> QED
    BY <2>6 DEF n
<1> QED
  BY <1>3, <1>4, <1>5, <1>6

\* Entries that were queued, or are due after a time past the last event fired.
LEMMA ReachQueue ==
  ASSUME Reach, NEW now \in Int, horizon <= FullTime(now), NEW q \in Seq(Entry),
         \A e \in Elems(q) : e \in Elems(queue) \/ e.at > now
  PROVE  \A e \in Elems(q) : horizon <= FullTime(e.at)
<1> SUFFICES ASSUME NEW e \in Elems(q), e.at > now
             PROVE  horizon <= FullTime(e.at)
  BY DEF Reach
<1>1. e.at \in Int /\ PIC_Ticks \in Int /\ horizon \in Int
  BY DueTimes, ReachIs
<1>2. FullTime(now) = PIC_Ticks * Millisecond + now /\ PIC_Ticks * Millisecond \in Int
  BY <1>1, ClockReads
<1>3. FullTime(e.at) = PIC_Ticks * Millisecond + e.at
  BY <1>1, ClockReads
<1> QED
  BY <1>1, <1>2, <1>3

-----------------------------------------------------------------------------
(* The steps *)

\* A step of the schedule, or none.
Scheduled == [Schedule!Next]_<<Pending, current # None, horizon>>

LEMMA CallSchedules ==
  ASSUME Lists, Reach, NEW now \in Int, CallsAt(now)
  PROVE  Scheduled
<1>1. PIC_Ticks \in Int /\ PIC_Ticks' = PIC_Ticks /\ horizon' = horizon
      /\ current' = current /\ horizon <= FullTime(now) /\ horizon \in Int
  BY TickAssumption DEF CallsAt, Reach
<1>2. CASE UNCHANGED <<queue, free>>
  <2>1. Pending' = Pending
    BY <1>1, <1>2 DEF Pending, FullTime
  <2> QED
    BY <1>1, <2>1 DEF Scheduled
<1>3. CASE \E ev \in Events, d \in Delays : PIC_AddEvent(ev, d, now)
  <2>1. PICK ev \in Events, d \in Delays : PIC_AddEvent(ev, d, now)
    BY <1>3
  <2>2. CASE free = <<>>
    <3>1. queue' = queue
      BY <2>1, <2>2 DEF PIC_AddEvent, AddTo
    <3>2. Pending' = Pending
      BY <1>1, <3>1 DEF Pending, FullTime
    <3> QED
      BY <1>1, <3>2 DEF Scheduled
  <2>3. CASE free # <<>>
    <3> DEFINE due == FullTime(now + d)
    <3>1. PICK n \in 0..Len(Pending) :
            /\ \A k \in 1..Len(Pending) : k <= n <=> Pending[k].due <= due
            /\ Pending' = Splice(Pending, n, [due |-> due, ev |-> ev])
      BY <1>1, <2>1, <2>3, AddSchedules
    <3>2. due \in Times /\ due >= horizon
      <4>1. d \in Int /\ d > 0 /\ now + d \in Int
        BY DelayAssumption
      <4>2. due = PIC_Ticks * Millisecond + (now + d) /\ FullTime(now) = PIC_Ticks * Millisecond + now
            /\ PIC_Ticks * Millisecond \in Int
        BY <1>1, <4>1, ClockReads
      <4>3. due = FullTime(now) + d /\ FullTime(now) \in Int
        BY <4>1, <4>2
      <4> HIDE DEF due
      <4>4. FullTime(now) \in (-MaxBack * Sub)..((MaxTicks + 1) * Millisecond + (Hack + 2 * Burst) * Sub)
        BY DEF CallsAt, Showable, Past
      <4>5. due \in Times
        BY <4>3, <4>4 DEF Times
      <4> QED
        BY <1>1, <4>1, <4>3, <4>5
    <3>3. Schedule!Outstanding < Cardinality(Slots)
      <4>1. Len(queue) + Len(free) + Cardinality(InFlight) = Cardinality(Slots)
            /\ Len(Pending) = Len(queue) /\ Len(queue) \in Nat
            /\ Len(free) \in Nat /\ Len(free) > 0
        <5>1. Len(Pending) = Len(queue)
          BY <1>1, Shows, PendingIs DEF Lists
        <5>2. Len(free) \in Nat /\ Len(free) > 0 /\ Len(queue) \in Nat
          BY <2>3 DEF Lists
        <5> QED
          BY <5>1, <5>2 DEF Lists, SlotsConserved
      <4>2. Cardinality(InFlight) = IF current # None THEN 1 ELSE 0
        <5>1. current = None => InFlight = {}
          BY DEF InFlight
        <5>2. current # None => InFlight = {current.slot}
          BY DEF InFlight
        <5> QED
          BY <5>1, <5>2, FS_EmptySet, FS_Singleton
      <4>3. Schedule!Outstanding = Len(queue) + Cardinality(InFlight)
        BY <4>1, <4>2 DEF Schedule!Outstanding
      <4> DEFINE c == Cardinality(InFlight)
                 m == Cardinality(Slots)
      <4>4. c \in Nat /\ Len(queue) + Len(free) + c = m
        BY <4>1, <4>2
      <4> HIDE DEF c, m
      <4>5. Len(queue) + c < m
        BY <4>1, <4>4
      <4> QED
        BY <4>3, <4>5 DEF c, m
    <3> HIDE DEF due
    <3>4. Schedule!Add(ev, due)
      BY <1>1, <3>1, <3>2, <3>3 DEF Schedule!Add, Splice
    <3>5. Schedule!Next
      BY <3>2, <3>4 DEF Schedule!Next
    <3> QED
      BY <3>5 DEF Scheduled
  <2> QED
    BY <2>2, <2>3
<1>4. ASSUME NEW kind \in Schedule!Kinds, Remove(kind)
      PROVE  Scheduled
  <2>1. kind \in SUBSET Events
    BY <1>4 DEF Schedule!Kinds
  <2>2. Pending' = Schedule!Without(kind)
    BY <1>1, <1>4, <2>1, RemoveSchedules
  <2>3. Schedule!Cancel(kind)
    BY <1>1, <2>2 DEF Schedule!Cancel
  <2>4. Schedule!Next
    BY <1>4, <2>3 DEF Schedule!Next
  <2> QED
    BY <2>4 DEF Scheduled
<1>5. CASE \E h \in Handlers : PIC_RemoveEvents(h)
  BY <1>4, <1>5 DEF PIC_RemoveEvents, Schedule!Kinds
<1>6. CASE \E ev \in Events : PIC_RemoveSpecificEvents(ev[1], ev[2])
  <2>1. PICK ev \in Events : Remove({<<ev[1], ev[2]>>})
    BY <1>6 DEF PIC_RemoveSpecificEvents
  <2>2. <<ev[1], ev[2]>> = ev
    BY EventAssumption
  <2>3. {ev} \in Schedule!Kinds
    BY DEF Schedule!Kinds
  <2> QED
    BY <1>4, <2>1, <2>2, <2>3
<1> QED
  BY <1>2, <1>3, <1>5, <1>6 DEF CallsAt, QueueCall

LEMMA CallsStep ==
  ASSUME ScheduleInv, TimeNext, NEW now \in Int, CallsAt(now)
  PROVE  ScheduleInv' /\ Scheduled
<1>1. Scheduled
  BY CallSchedules DEF ScheduleInv, IInv
<1>2. IInv'
  BY TimeStep, NextKeeps DEF ScheduleInv
<1>3. /\ UNCHANGED <<PIC_Ticks, horizon, current>> /\ horizon <= FullTime(now)
      /\ Lists /\ Reach /\ IInv
      /\ QueueCall(now) \/ UNCHANGED <<queue, free>>
  BY DEF CallsAt, ScheduleInv, IInv
<1>4. \A e \in Elems(queue') : e \in Elems(queue) \/ e.at > now
  <2>1. CASE QueueCall(now)
    BY <1>3, <2>1, CallKeeps
  <2>2. CASE UNCHANGED <<queue, free>>
    BY <2>2
  <2> QED
    BY <1>3, <2>1, <2>2
<1>5. \A e \in Elems(queue') : horizon <= FullTime(e.at)
  <2>1. queue' \in Seq(Entry)
    BY <1>2 DEF IInv, Lists
  <2> QED
    BY <1>3, <1>4, <2>1, ReachQueue
<1>6. ~Ticking
  <2> SUFFICES ASSUME Ticking
               PROVE  FALSE
    OBVIOUS
  <2>1. PIC_Ticks' = PIC_Ticks + 1 /\ PIC_Ticks \in Int
    BY <1>3, TickCounts, ReachIs
  <2> QED
    BY <1>3, <2>1
<1>7. horizon <= FullTime(TickIndexND' * Sub)
  BY <1>2, <1>3, <1>6, ReachNow
<1>8. phase' = "dynrec" => horizon <= FullTime(SliceEnds' * Sub)
  BY <1>2, <1>3, <1>6, ReachEnds
<1>9. phase' = "handler" => phase = "handler"
  BY <1>2, <1>3 DEF IInv, HandlerRuns
<1>10. (horizon <= FullTime(TickIndexND * Sub))' /\ (phase = "dynrec" => horizon <= FullTime(SliceEnds * Sub))'
  BY <1>3, <1>7, <1>8 DEF FullTime, Millisecond
<1>11. Reach'
  BY <1>3, <1>5, <1>9, <1>10 DEF Reach, FullTime, Elems, Millisecond
<1> QED
  BY <1>1, <1>2, <1>11 DEF ScheduleInv

LEMMA TickStep ==
  ASSUME ScheduleInv, IInv', TIMER_AddTick, PIC_Ticks < MaxTicks, PIC_Ticks' = PIC_Ticks + 1,
         UNCHANGED horizon
  PROVE  Reach' /\ Scheduled
<1>1. /\ phase = "idle" /\ phase' = "tick" /\ CPU_CycleLeft' = CycleMax /\ CPU_Cycles' = 0
      /\ queue' = [k \in 1..Len(queue) |-> [queue[k] EXCEPT !.at = @ - Millisecond]]
      /\ UNCHANGED <<free, current>>
  BY DEF TIMER_AddTick
<1> DEFINE start == PIC_Ticks * Millisecond
<1>2. /\ PIC_Ticks \in Int /\ PIC_Ticks' \in 0..MaxTicks /\ Millisecond \in Nat /\ start \in Int
      /\ horizon \in Int /\ horizon >= -MaxBack * Sub /\ horizon <= start + Millisecond
  BY TickAssumption, CycleAssumption DEF ScheduleInv, Reach, Millisecond, FullTime
<1>3. PIC_Ticks' * Millisecond = start + Millisecond
  BY <1>2
<1> HIDE DEF start
<1>4. queue \in Seq(Entry) /\ Len(queue) \in Nat
      /\ \A k \in 1..Len(queue) : queue[k] \in Entry /\ queue[k].at \in Int
  BY EntriesOf DEF ScheduleInv, IInv, Lists
<1>5. Len(queue') = Len(queue) /\ \A k \in 1..Len(queue) :
        /\ queue'[k].at = queue[k].at - Millisecond
        /\ queue'[k].ev = queue[k].ev
  <2>1. ASSUME NEW e \in Entry
        PROVE  LET r == [e EXCEPT !.at = @ - Millisecond]
               IN r.at = e.at - Millisecond /\ r.ev = e.ev
    BY DEF Entry
  <2>2. Len(queue') = Len(queue) /\ \A k \in 1..Len(queue) :
          queue[k] \in Entry /\ queue'[k] = [queue[k] EXCEPT !.at = @ - Millisecond]
    BY <1>1, <1>4
  <2>3. ASSUME NEW k \in 1..Len(queue)
        PROVE  queue'[k].at = queue[k].at - Millisecond /\ queue'[k].ev = queue[k].ev
    BY <2>1, <2>2
  <2> QED
    BY <2>2, <2>3
<1>6. ASSUME NEW k \in 1..Len(queue)
      PROVE  PIC_Ticks' * Millisecond + queue'[k].at = start + queue[k].at
  <2> DEFINE x == queue[k].at
             y == queue'[k].at
  <2>1. x \in Int /\ y = x - Millisecond
    BY <1>4, <1>5
  <2> HIDE DEF x, y
  <2>2. (start + Millisecond) + y = start + x
    BY <1>2, <2>1
  <2> QED
    BY <1>3, <2>2 DEF x, y
<1>7. Pending' = Pending
  <2>1. Pending = [k \in 1..Len(queue) |-> [due |-> start + queue[k].at, ev |-> queue[k].ev]]
    BY DEF Pending, FullTime, start
  <2>2. Pending' = [k \in 1..Len(queue') |->
                      [due |-> PIC_Ticks' * Millisecond + queue'[k].at, ev |-> queue'[k].ev]]
    BY DEF Pending, FullTime, Millisecond
  <2> QED
    BY <1>5, <1>6, <2>1, <2>2
<1>8. horizon' <= FullTime(TickIndexND * Sub)'
  <2>1. TickIndexND' = 0
    BY <1>1, CycleAssumption DEF TickIndexND
  <2>2. FullTime(TickIndexND * Sub)' = start + Millisecond
    <3>1. FullTime(TickIndexND * Sub)' = PIC_Ticks' * Millisecond + TickIndexND' * Sub
      BY DEF FullTime, Millisecond
    <3> QED
      BY <1>2, <1>3, <2>1, <3>1, CycleAssumption
  <2> QED
    BY <1>2, <2>2
<1>9. horizon' <= FullTime(Millisecond)'
  <2>1. FullTime(Millisecond)' = (start + Millisecond) + Millisecond
    BY <1>3 DEF FullTime, Millisecond
  <2> QED
    BY <1>2, <2>1
<1>10. ASSUME NEW k \in 1..Len(queue)
       PROVE  horizon <= PIC_Ticks' * Millisecond + queue'[k].at
  <2>1. horizon <= start + queue[k].at
    BY DEF ScheduleInv, Reach, Elems, FullTime, start
  <2> QED
    BY <1>6, <2>1
<1>11. (\A e \in Elems(queue) : horizon <= FullTime(e.at))'
  BY <1>5, <1>10 DEF Elems, FullTime, Millisecond
<1>12. Reach'
  BY <1>1, <1>2, <1>8, <1>9, <1>11 DEF Reach
<1> QED
  BY <1>1, <1>7, <1>12 DEF Scheduled

LEMMA FireStep ==
  ASSUME ScheduleInv, IInv', Dispatch, horizon' = FullTime(Head(queue).at), UNCHANGED PIC_Ticks
  PROVE  Reach' /\ Scheduled
<1>1. /\ phase = "service" /\ Due(queue) /\ current' = Head(queue) /\ queue' = Tail(queue)
      /\ phase' = "handler" /\ UNCHANGED <<free, CPU_Cycles, CPU_CycleLeft>>
  BY DEF Dispatch
<1>2. /\ queue \in Seq(Entry) /\ queue # <<>> /\ Head(queue).at <= TickIndexND * Sub
      /\ Sorted(queue) /\ Len(queue) \in Nat /\ Len(queue) > 0
  BY <1>1 DEF ScheduleInv, IInv, Lists, Due
<1>3. /\ Head(queue) = queue[1] /\ queue[1] \in Entry /\ queue[1].at \in Int
      /\ queue' \in Seq(Entry) /\ Len(queue') = Len(queue) - 1
      /\ \A k \in 1..Len(queue) - 1 : queue'[k] = queue[k + 1]
  <2>1. 1 \in 1..Len(queue)
    BY <1>2
  <2>2. Head(queue) = queue[1] /\ queue[1] \in Entry /\ queue[1].at \in Int
    BY <1>2, <2>1, EntriesOf
  <2> QED
    BY <1>1, <1>2, <2>2
<1> DEFINE at == queue[1].at
<1>4. /\ PIC_Ticks \in Int /\ PIC_Ticks' = PIC_Ticks /\ horizon' = FullTime(at)
      /\ PIC_Ticks' \in 0..MaxTicks
      /\ horizon \in Int /\ horizon >= -MaxBack * Sub /\ horizon <= FullTime(at)
  <2>1. queue[1] \in Elems(queue)
    BY <1>2 DEF Elems
  <2> QED
    BY <1>3, <2>1, TickAssumption DEF ScheduleInv, Reach
<1>5. TickIndexND \in Int /\ TickIndexND < CycleMax
  BY <1>1, Reads DEF ScheduleInv, BoundsOf
<1>6. TickIndexND * Sub \in Int /\ Millisecond \in Int /\ TickIndexND * Sub <= Millisecond
  <2>1. TickIndexND * Sub <= CycleMax * Sub
    BY <1>5, Order, Constants
  <2> QED
    BY <1>5, <2>1, CycleAssumption DEF Millisecond
<1>7. horizon' \in Int /\ horizon' >= -MaxBack * Sub /\ horizon' <= FullTime(TickIndexND * Sub) /\ horizon' <= FullTime(Millisecond)
  <2> DEFINE x == TickIndexND * Sub
             start == PIC_Ticks * Millisecond
  <2>1. x \in Int /\ at \in Int /\ at <= x /\ x <= Millisecond /\ Millisecond \in Int
    BY <1>2, <1>3, <1>6
  <2>2. start \in Int /\ FullTime(at) = start + at /\ FullTime(x) = start + x
        /\ FullTime(Millisecond) = start + Millisecond
    BY <1>4, <2>1, ClockReads
  <2> HIDE DEF x, start, at
  <2>3. FullTime(at) <= FullTime(x) /\ FullTime(at) <= FullTime(Millisecond) /\ FullTime(at) \in Int
    BY <2>1, <2>2
  <2>4. -MaxBack * Sub \in Int
    BY Spans
  <2> QED
    BY <1>4, <2>3, <2>4 DEF x
<1>8. ASSUME NEW k \in 1..Len(queue')
      PROVE  horizon' <= FullTime(queue'[k].at)
  <2>1. k + 1 \in 1..Len(queue) /\ queue'[k] = queue[k + 1] /\ 1 \in 1..Len(queue) /\ 1 <= k + 1
    BY <1>2, <1>3
  <2> DEFINE x == queue[k + 1].at
             start == PIC_Ticks * Millisecond
  <2>2. x \in Int /\ at <= x /\ at \in Int
    BY <1>2, <1>3, <2>1, EntriesOf DEF Sorted
  <2>3. start \in Int /\ FullTime(at) = start + at /\ FullTime(x) = start + x
    BY <1>4, <2>2, ClockReads
  <2> HIDE DEF x, at, start
  <2>4. FullTime(at) <= FullTime(x)
    BY <2>2, <2>3
  <2> QED
    BY <1>4, <2>1, <2>4 DEF x
<1>9. Reach'
  <2>1. (\A e \in Elems(queue) : horizon <= FullTime(e.at))'
    BY <1>4, <1>8 DEF Elems, FullTime, Millisecond
  <2>2. (horizon <= FullTime(TickIndexND * Sub))' /\ (horizon <= FullTime(Millisecond))'
    BY <1>1, <1>4, <1>7 DEF FullTime, Millisecond, TickIndexND
  <2>3. (horizon = FullTime(current.at))'
    BY <1>1, <1>3, <1>4 DEF FullTime, Millisecond
  <2> QED
    BY <1>1, <1>4, <1>7, <2>1, <2>2, <2>3 DEF Reach
<1>10. Scheduled
  <2>1. current = None /\ current' # None
    BY <1>1 DEF ScheduleInv, IInv, HandlerRuns
  <2>2. /\ Pending \in Seq(Requests) /\ Len(Pending) = Len(queue)
        /\ \A k \in 1..Len(queue) : Pending[k] = Shown(queue[k])
    BY <1>2, <1>4, Shows, PendingIs
  <2>3. Pending # <<>> /\ Head(Pending) = Pending[1] /\ Pending[1] = Shown(queue[1])
    BY <1>2, <2>2
  <2>4. Head(Pending).due = FullTime(at)
    BY <2>3 DEF Shown
  <2>5. Pending' = Tail(Pending)
    <3>1. Pending' = [k \in 1..Len(queue) - 1 |-> Shown(queue[k + 1])]
      BY <1>3, <1>4 DEF Pending, Shown, FullTime, Millisecond
    <3>2. Tail(Pending) = [k \in 1..Len(queue) - 1 |-> Pending[k + 1]]
      <4>1. Len(Pending) \in Nat /\ Len(Pending) > 0
        BY <1>2, <2>2
      <4> DEFINE r == Tail(Pending)
      <4>2. /\ r \in Seq(Requests) /\ Len(r) = Len(Pending) - 1
            /\ \A k \in 1..Len(Pending) - 1 : r[k] = Pending[k + 1]
        BY <2>2, <4>1
      <4> HIDE DEF r
      <4>3. r = [k \in 1..Len(r) |-> r[k]]
        BY <4>2
      <4>4. r = [k \in 1..Len(queue) - 1 |-> Pending[k + 1]]
        BY <2>2, <4>2, <4>3
      <4> QED
        BY <4>4 DEF r
    <3>3. \A k \in 1..Len(queue) - 1 : Pending[k + 1] = Shown(queue[k + 1])
      BY <1>2, <2>2
    <3> QED
      BY <3>1, <3>2, <3>3
  <2>6. Schedule!Fire
    BY <1>4, <2>1, <2>3, <2>4, <2>5 DEF Schedule!Fire
  <2> QED
    BY <2>6 DEF Scheduled, Schedule!Next
<1> QED
  BY <1>9, <1>10

LEMMA DoneStep ==
  ASSUME ScheduleInv, IInv', HandlerReturn, UNCHANGED <<PIC_Ticks, horizon>>
  PROVE  Reach' /\ Scheduled
<1>1. /\ phase = "handler" /\ phase' = "service" /\ current' = None
      /\ UNCHANGED <<queue, CPU_Cycles, CPU_CycleLeft>>
  BY DEF HandlerReturn
<1>2. current # None
  BY <1>1 DEF ScheduleInv, IInv, HandlerRuns
<1>3. Pending' = Pending
  BY <1>1 DEF Pending, FullTime
<1>4. Schedule!Done
  BY <1>1, <1>2, <1>3 DEF Schedule!Done
<1>5. Reach'
  BY <1>1 DEF ScheduleInv, Reach, FullTime, TickIndexND, Elems
<1> QED
  BY <1>4, <1>5 DEF Scheduled, Schedule!Next

\* Where the clock is set back, what is queued is no earlier than the time to come.
LEMMA SetBackStep ==
  ASSUME ScheduleInv, IInv', SetCycles, UNCHANGED PIC_Ticks, horizon' = Earlier(horizon, PIC_FullIndex')
  PROVE  Reach' /\ Scheduled
<1> DEFINE now == TickIndexND' * Sub
<1>1. phase' \in {"cpu", "block", "native"} /\ phase \in {"cpu", "block", "native"}
      /\ UNCHANGED <<queue, free, current>>
  BY DEF SetCycles, Calls
<1>2. current = None
  BY <1>1 DEF ScheduleInv, IInv, HandlerRuns
<1>3. PIC_Ticks \in Int /\ PIC_Ticks \in 0..MaxTicks /\ horizon \in Int /\ Reach
  BY ReachIs DEF ScheduleInv
<1>4. TickIndexND' \in Int /\ TickIndexND' >= -MaxBack /\ TickIndexND' <= CycleMax + Hack + 2 * Burst
  <2> DEFINE left == CPU_CycleLeft'
             cycles == CPU_Cycles'
             s == CycleMax - left
             t == CycleMax - left - cycles
  <2>1. left \in Int /\ cycles \in Int
    BY DEF IInv, Clock
  <2>2. BoundsOf(phase', s, t)
    BY DEF IInv, Bounds, SliceEnds, TickIndexND
  <2>3. TickIndexND' = t /\ s \in Int /\ t \in Int
    BY <2>1, Constants DEF TickIndexND
  <2> HIDE DEF left, cycles, s, t
  <2>4. t >= -MaxBack /\ t <= CycleMax + Hack + 2 * Burst
    BY <1>1, <2>2, <2>3, Constants DEF BoundsOf
  <2> QED
    BY <2>3, <2>4
<1>5. now \in Int /\ Showable(FullTime(now))
  <2> DEFINE n == TickIndexND'
  <2> HIDE DEF n
  <2>1. n * Sub \in Int /\ Showable(FullTime(n * Sub))
    BY <1>3, <1>4, CycleShows DEF n
  <2> QED
    BY <2>1 DEF n
<1>6. PIC_FullIndex' = FullTime(now)
  BY DEF PIC_FullIndex, FullTime, Millisecond
<1> HIDE DEF now
<1>7. /\ horizon' \in Int /\ horizon' >= -MaxBack * Sub
      /\ horizon' <= horizon /\ horizon' <= FullTime(now)
  <2>1. FullTime(now) \in Int /\ FullTime(now) >= -MaxBack * Sub
    BY <1>5, Spans DEF Showable
  <2>2. horizon >= -MaxBack * Sub
    BY <1>3 DEF Reach
  <2> QED
    BY <1>3, <1>6, <2>1, <2>2 DEF Earlier
<1>8. Reach'
  <2>1. (horizon <= FullTime(TickIndexND * Sub))'
    BY <1>7 DEF now, FullTime, Millisecond
  <2>2. horizon' <= FullTime(Millisecond)
    <3>1. FullTime(Millisecond) \in Int /\ horizon <= FullTime(Millisecond)
      BY <1>3, ClockReads, Spans DEF Reach
    <3> QED
      BY <1>3, <1>7, <3>1
  <2>3. \A e \in Elems(queue) : horizon' <= FullTime(e.at)
    <3> SUFFICES ASSUME NEW e \in Elems(queue)
                 PROVE  horizon' <= FullTime(e.at)
      OBVIOUS
    <3>1. e.at \in Int
      BY DueTimes DEF ScheduleInv, IInv, Lists
    <3>2. FullTime(e.at) \in Int /\ horizon <= FullTime(e.at)
      BY <1>3, <3>1, ClockReads DEF Reach
    <3> QED
      BY <1>3, <1>7, <3>2
  <2>4. (horizon <= FullTime(Millisecond))' /\ (\A e \in Elems(queue) : horizon <= FullTime(e.at))'
    BY <1>1, <2>2, <2>3 DEF FullTime, Millisecond, Elems
  <2> QED
    BY <1>1, <1>3, <1>7, <2>1, <2>4 DEF Reach
<1>9. Scheduled
  <2>1. Pending' = Pending
    BY <1>1 DEF Pending, FullTime
  <2>2. CASE horizon' = horizon
    BY <1>1, <2>1, <2>2 DEF Scheduled
  <2>3. CASE horizon' # horizon
    <3>1. horizon' < horizon
      BY <1>3, <1>7, <2>3
    <3>2. Schedule!Rewind
      BY <1>1, <1>2, <1>7, <2>1, <3>1 DEF Schedule!Rewind
    <3> QED
      BY <3>2 DEF Scheduled, Schedule!Next
  <2> QED
    BY <2>2, <2>3
<1> QED
  BY <1>8, <1>9

-----------------------------------------------------------------------------
(* The theorem *)

LEMMA ScheduleStep == ScheduleInv /\ [TimeNext]_timeVars => ScheduleInv' /\ Scheduled
<1> SUFFICES ASSUME ScheduleInv, [TimeNext]_timeVars
             PROVE  ScheduleInv' /\ Scheduled
  OBVIOUS
<1>1. IInv'
  BY TimeStep, NextKeeps DEF ScheduleInv
<1>2. CASE TimeNext
  <2>1. CASE \E now \in Int : CallsAt(now)
    BY <1>2, <2>1, CallsStep
  <2>2. CASE TIMER_AddTick /\ PIC_Ticks < MaxTicks /\ PIC_Ticks' = PIC_Ticks + 1 /\ UNCHANGED horizon
    BY <1>1, <2>2, TickStep DEF ScheduleInv
  <2>3. CASE Dispatch /\ horizon' = FullTime(Head(queue).at) /\ UNCHANGED PIC_Ticks
    BY <1>1, <2>3, FireStep DEF ScheduleInv
  <2>4. CASE HandlerReturn /\ UNCHANGED <<PIC_Ticks, horizon>>
    BY <1>1, <2>4, DoneStep DEF ScheduleInv
  <2>5. CASE SetCycles /\ UNCHANGED PIC_Ticks /\ horizon' = Earlier(horizon, PIC_FullIndex')
    BY <1>1, <2>5, SetBackStep DEF ScheduleInv
  <2> QED
    BY <1>2, <2>1, <2>2, <2>3, <2>4, <2>5, StepKinds
<1>3. CASE UNCHANGED timeVars
  <2>1. Pending' = Pending /\ horizon' = horizon /\ current' = current
    BY <1>3 DEF timeVars, vars, Pending, FullTime
  <2>2. Reach'
    BY <1>3 DEF timeVars, vars, ScheduleInv, Reach, FullTime, TickIndexND, SliceEnds, Elems
  <2> QED
    BY <1>1, <2>1, <2>2 DEF ScheduleInv, Scheduled
<1> QED
  BY <1>2, <1>3

LEMMA ScheduleStart == TimeInit => ScheduleInv /\ Schedule!Init
<1> SUFFICES ASSUME TimeInit
             PROVE  ScheduleInv /\ Schedule!Init
  OBVIOUS
<1>1. /\ queue = <<>> /\ current = None /\ CPU_Cycles = 0 /\ CPU_CycleLeft = CycleMax
      /\ phase = "loop" /\ PIC_Ticks = 0 /\ horizon = 0
  BY DEF TimeInit, Init
<1>2. IInv
  BY Initial DEF TimeInit
<1>3. Pending = <<>>
  BY <1>1 DEF Pending
<1>4. TickIndexND = 0 /\ Elems(queue) = {}
  BY <1>1, CycleAssumption DEF TickIndexND, Elems
<1>5. FullTime(TickIndexND * Sub) = 0 /\ FullTime(Millisecond) = Millisecond /\ Millisecond \in Nat
  BY <1>1, <1>4, CycleAssumption DEF FullTime, Millisecond
<1>6. Reach
  <2>1. 0 >= -MaxBack * Sub
    BY Spans
  <2> QED
    BY <1>1, <1>4, <1>5, <2>1, TickAssumption DEF Reach
<1> QED
  BY <1>1, <1>2, <1>3, <1>6 DEF ScheduleInv, Schedule!Init

\* The queue of pointers and relative indices keeps the promises of EventSchedule.
THEOREM SchedulesEvents == TimeSpec => ImplementsSchedule
<1> QED
  BY ScheduleStart, ScheduleStep, PTL DEF TimeSpec, ImplementsSchedule, Schedule!Spec, Scheduled

=============================================================================
