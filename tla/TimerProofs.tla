---------------------------- MODULE TimerProofs ----------------------------
(***************************************************************************)
(* Proofs about counter 0 for every count, length of a millisecond and     *)
(* number of entries in the queue that leaves room for the timer: the      *)
(* counter has exactly the event it needs, the event is due when the       *)
(* counter reaches its end, and the clock steps back where it is said to,  *)
(* by a bounded amount.                                                    *)
(***************************************************************************)
EXTENDS Timer, PicQueueProofs

-----------------------------------------------------------------------------
(* What is collected of a list *)

\* The function that Of defines, one entry at a time.
Collects(f, q, evs) ==
  /\ f[0] = <<>> /\ Of(q, evs) = f[Len(q)]
  /\ \A n \in 0..Len(q) : f[n] \in Seq(Entry)
  /\ \A k \in 1..Len(q) :
       f[k] = IF q[k].ev \in evs THEN Append(f[k - 1], q[k]) ELSE f[k - 1]

LEMMA OfSteps ==
  ASSUME NEW q \in Seq(Entry), NEW evs
  PROVE  \E f : Collects(f, q, evs)
<1>1. PICK f : /\ f = [k \in 0..Len(q) |->
                       IF k = 0 THEN <<>>
                       ELSE IF q[k].ev \in evs THEN Append(f[k - 1], q[k]) ELSE f[k - 1]]
               /\ Of(q, evs) = f[Len(q)]
  BY OfFunction
<1>2. Len(q) \in Nat /\ \A k \in 1..Len(q) : q[k] \in Entry
  BY EntriesOf
<1>3. f[0] = <<>>
  BY <1>1, <1>2
<1>4. ASSUME NEW k \in 1..Len(q)
      PROVE  f[k] = IF q[k].ev \in evs THEN Append(f[k - 1], q[k]) ELSE f[k - 1]
  <2>1. k \in 0..Len(q) /\ k # 0
    BY <1>2
  <2> QED
    BY <1>1, <2>1
<1> DEFINE good == {n \in Nat : n <= Len(q) => f[n] \in Seq(Entry)}
<1>5. good \in SUBSET Nat /\ 0 \in good
  <2>1. <<>> \in Seq(Entry)
    OBVIOUS
  <2> QED
    BY <1>3, <2>1
<1>6. ASSUME NEW n \in good
      PROVE  n + 1 \in good
  <2> SUFFICES ASSUME n + 1 <= Len(q)
               PROVE  f[n + 1] \in Seq(Entry)
    OBVIOUS
  <2>1. n + 1 \in 1..Len(q) /\ (n + 1) - 1 = n /\ f[n] \in Seq(Entry) /\ q[n + 1] \in Entry
    BY <1>2
  <2>2. f[n + 1] = IF q[n + 1].ev \in evs THEN Append(f[n], q[n + 1]) ELSE f[n]
    BY <1>4, <2>1
  <2> QED
    BY <2>1, <2>2
<1> HIDE DEF good
<1>7. good = Nat
  BY <1>5, <1>6, Induction
<1>8. \A n \in 0..Len(q) : f[n] \in Seq(Entry)
  BY <1>2, <1>7 DEF good
<1> QED
  BY <1>1, <1>3, <1>4, <1>8 DEF Collects

\* Nothing is collected just if there is nothing to collect.
LEMMA OfNone ==
  ASSUME NEW q \in Seq(Entry), Sorted(q), NEW evs
  PROVE  Of(q, evs) = <<>> <=> \A e \in Elems(q) : e.ev \notin evs
<1> DEFINE r == Of(q, evs)
<1>1. r \in Seq(Entry) /\ Elems(r) = {e \in Elems(q) : e.ev \in evs}
  BY OfSorted
<1> HIDE DEF r
<1>2. r = <<>> <=> Elems(r) = {}
  <2>1. r # <<>> => 1 \in 1..Len(r)
    BY <1>1
  <2>2. r # <<>> => r[1] \in Elems(r)
    BY <2>1 DEF Elems
  <2>3. r = <<>> => Elems(r) = {}
    BY DEF Elems
  <2> QED
    BY <2>2, <2>3
<1>3. r = <<>> <=> \A e \in Elems(q) : e.ev \notin evs
  BY <1>1, <1>2
<1> QED
  BY <1>3 DEF r

\* One entry alone is collected.
LEMMA OfOne ==
  ASSUME NEW q \in Seq(Entry), NEW evs, NEW j \in 1..Len(q),
         \A k \in 1..Len(q) : q[k].ev \in evs <=> k = j
  PROVE  Of(q, evs) = <<q[j]>>
<1>1. PICK f : Collects(f, q, evs)
  BY OfSteps
<1>2. Len(q) \in Nat
  BY EntriesOf
<1> DEFINE good == {n \in Nat : n <= Len(q) => f[n] = IF n < j THEN <<>> ELSE <<q[j]>>}
<1>3. good \in SUBSET Nat /\ 0 \in good
  BY <1>1 DEF Collects
<1>4. ASSUME NEW n \in good
      PROVE  n + 1 \in good
  <2> SUFFICES ASSUME n + 1 <= Len(q)
               PROVE  f[n + 1] = IF n + 1 < j THEN <<>> ELSE <<q[j]>>
    OBVIOUS
  <2>1. n + 1 \in 1..Len(q) /\ (n + 1) - 1 = n /\ f[n] = (IF n < j THEN <<>> ELSE <<q[j]>>)
    BY <1>2
  <2>2. f[n + 1] = IF q[n + 1].ev \in evs THEN Append(f[n], q[n + 1]) ELSE f[n]
    BY <1>1, <2>1 DEF Collects
  <2>3. CASE n + 1 = j
    <3>1. f[n] = <<>> /\ q[n + 1].ev \in evs
      BY <2>1, <2>3
    <3>2. f[n + 1] = Append(<<>>, q[j])
      BY <2>2, <2>3, <3>1
    <3>3. Append(<<>>, q[j]) = <<q[j]>>
      OBVIOUS
    <3> QED
      BY <2>3, <3>2, <3>3
  <2>4. CASE n + 1 # j
    <3>1. f[n + 1] = f[n] /\ (n < j <=> n + 1 < j)
      BY <2>1, <2>2, <2>4
    <3> QED
      BY <2>1, <3>1
  <2> QED
    BY <2>3, <2>4
<1> HIDE DEF good
<1>5. good = Nat
  BY <1>3, <1>4, Induction
<1>6. Len(q) \in good /\ ~(Len(q) < j)
  BY <1>2, <1>5
<1> QED
  BY <1>1, <1>2, <1>6 DEF good, Collects

\* The head of a list is collected first, or not at all.
LEMMA OfTail ==
  ASSUME NEW q \in Seq(Entry), q # <<>>, NEW evs
  PROVE  /\ Head(q).ev \notin evs => Of(q, evs) = Of(Tail(q), evs)
         /\ Head(q).ev \in evs =>
              /\ Len(Of(q, evs)) = Len(Of(Tail(q), evs)) + 1
              /\ Of(q, evs) # <<>> /\ Head(Of(q, evs)) = Head(q)
<1> DEFINE t == Tail(q)
<1>1. /\ Len(q) \in Nat /\ Len(q) >= 1 /\ Head(q) = q[1] /\ q[1] \in Entry
      /\ t \in Seq(Entry) /\ Len(t) = Len(q) - 1
      /\ \A k \in 1..Len(q) - 1 : t[k] = q[k + 1]
  OBVIOUS
<1> HIDE DEF t
<1>2. PICK f : Collects(f, q, evs)
  BY OfSteps
<1>3. PICK g : Collects(g, t, evs)
  BY <1>1, OfSteps
<1> DEFINE After1(n) == IF q[1].ev \in evs
                        THEN Len(f[n + 1]) = Len(g[n]) + 1 /\ f[n + 1][1] = q[1]
                        ELSE f[n + 1] = g[n]
           good == {n \in Nat : n < Len(q) => After1(n)}
<1>4. good \in SUBSET Nat /\ 0 \in good
  <2>1. 1 \in 1..Len(q) /\ 1 - 1 = 0 /\ 0 + 1 = 1
    BY <1>1
  <2>2. f[1] = IF q[1].ev \in evs THEN Append(<<>>, q[1]) ELSE <<>>
    BY <1>2, <2>1 DEF Collects
  <2>3. Len(Append(<<>>, q[1])) = 1 /\ Append(<<>>, q[1])[1] = q[1] /\ Len(<<>>) = 0
    OBVIOUS
  <2> QED
    BY <1>3, <2>1, <2>2, <2>3 DEF Collects
<1>5. ASSUME NEW n \in good
      PROVE  n + 1 \in good
  <2> SUFFICES ASSUME n + 1 < Len(q)
               PROVE  After1(n + 1)
    OBVIOUS
  <2> DEFINE e == q[n + 2]
             r == f[n + 1]
             s == g[n]
  <2>1. /\ n + 1 \in 0..Len(q) /\ n + 2 \in 1..Len(q) /\ (n + 2) - 1 = n + 1 /\ (n + 1) + 1 = n + 2
        /\ n + 1 \in 1..Len(t) /\ (n + 1) - 1 = n /\ n \in 0..Len(t) /\ n < Len(q)
    BY <1>1
  <2>2. After1(n)
    BY <2>1
  <2>3. r \in Seq(Entry) /\ s \in Seq(Entry) /\ e \in Entry /\ t[n + 1] = e
    BY <1>1, <1>2, <1>3, <2>1, EntriesOf DEF Collects
  <2>4. f[n + 2] = IF e.ev \in evs THEN Append(r, e) ELSE r
    BY <1>2, <2>1 DEF Collects
  <2>5. g[n + 1] = IF e.ev \in evs THEN Append(s, e) ELSE s
    BY <1>3, <2>1, <2>3 DEF Collects
  <2> HIDE DEF e
  <2>6. CASE q[1].ev \in evs
    <3>1. Len(r) = Len(s) + 1 /\ r[1] = q[1]
      BY <2>2, <2>6
    <3> HIDE DEF r, s
    <3>2. Len(Append(r, e)) = Len(Append(s, e)) + 1 /\ Append(r, e)[1] = q[1]
      BY <2>3, <3>1
    <3>3. Len(f[n + 2]) = Len(g[n + 1]) + 1 /\ f[n + 2][1] = q[1]
      BY <2>4, <2>5, <3>1, <3>2
    <3> QED
      BY <2>1, <2>6, <3>3
  <2>7. CASE q[1].ev \notin evs
    BY <2>1, <2>2, <2>4, <2>5, <2>7
  <2> QED
    BY <2>6, <2>7
<1> HIDE DEF good
<1>6. good = Nat
  BY <1>4, <1>5, Induction
<1>7. After1(Len(t)) /\ Len(t) + 1 = Len(q)
  BY <1>1, <1>6 DEF good
<1>8. CASE q[1].ev \notin evs
  BY <1>1, <1>2, <1>3, <1>7, <1>8 DEF t, Collects
<1>9. CASE q[1].ev \in evs
  <2> DEFINE r == f[Len(q)]
  <2>1. Len(r) = Len(g[Len(t)]) + 1 /\ r[1] = q[1]
    BY <1>7, <1>9
  <2>2. r \in Seq(Entry) /\ g[Len(t)] \in Seq(Entry) /\ r = Of(q, evs)
    BY <1>1, <1>2, <1>3 DEF Collects
  <2> HIDE DEF r
  <2>3. r # <<>> /\ Head(r) = r[1]
    BY <2>1, <2>2
  <2> QED
    BY <1>1, <1>3, <1>9, <2>1, <2>2, <2>3 DEF t, Collects
<1> QED
  BY <1>8, <1>9

\* The list when a millisecond ends.
Rebased(q) == [k \in 1..Len(q) |-> [q[k] EXCEPT !.at = @ - Millisecond]]

LEMMA RebasedIs ==
  ASSUME NEW q \in Seq(Entry), NEW r, r = Rebased(q)
  PROVE  /\ r \in Seq(Entry) /\ Len(r) = Len(q)
         /\ \A k \in 1..Len(q) : r[k].at = q[k].at - Millisecond /\ r[k].ev = q[k].ev
         /\ Sorted(q) => Sorted(r)
<1>1. Millisecond \in Int /\ Len(q) \in Nat
  BY CycleAssumption, EntriesOf DEF Millisecond
<1>2. ASSUME NEW e \in Entry
      PROVE  LET d == [e EXCEPT !.at = @ - Millisecond]
             IN d \in Entry /\ d.at = e.at - Millisecond /\ d.ev = e.ev /\ e.at \in Int
  BY <1>1 DEF Entry
<1>3. \A k \in 1..Len(q) : q[k] \in Entry /\ r[k] = [q[k] EXCEPT !.at = @ - Millisecond]
  BY EntriesOf DEF Rebased
<1>4. \A k \in 1..Len(q) : /\ r[k] \in Entry /\ r[k].at = q[k].at - Millisecond
                           /\ r[k].ev = q[k].ev /\ q[k].at \in Int
  BY <1>2, <1>3
<1>5. r \in Seq(Entry) /\ Len(r) = Len(q)
  BY <1>1, <1>4 DEF Rebased
<1>6. ASSUME Sorted(q)
      PROVE  Sorted(r)
  <2> SUFFICES ASSUME NEW j \in 1..Len(q), NEW k \in 1..Len(q), j <= k
               PROVE  r[j].at <= r[k].at
    BY <1>5 DEF Sorted
  <2>1. q[j].at <= q[k].at
    BY <1>6 DEF Sorted
  <2> QED
    BY <1>1, <1>4, <2>1
<1> QED
  BY <1>4, <1>5, <1>6

LEMMA OfRebased ==
  ASSUME NEW q \in Seq(Entry), NEW evs, NEW r, r = Rebased(q)
  PROVE  /\ Len(Of(r, evs)) = Len(Of(q, evs))
         /\ Of(q, evs) # <<>> =>
              Of(r, evs) # <<>> /\ Head(Of(r, evs)).at = Head(Of(q, evs)).at - Millisecond
<1>1. /\ r \in Seq(Entry) /\ Len(r) = Len(q) /\ Len(q) \in Nat
      /\ \A k \in 1..Len(q) : r[k].at = q[k].at - Millisecond /\ r[k].ev = q[k].ev
      /\ \A k \in 1..Len(q) : q[k] \in Entry /\ r[k] \in Entry
  BY RebasedIs, EntriesOf
<1>2. PICK f : Collects(f, q, evs)
  BY OfSteps
<1>3. PICK g : Collects(g, r, evs)
  BY <1>1, OfSteps
<1> DEFINE Same(n) == /\ Len(g[n]) = Len(f[n])
                      /\ Len(f[n]) > 0 => g[n][1].at = f[n][1].at - Millisecond
           good == {n \in Nat : n <= Len(q) => Same(n)}
<1>4. good \in SUBSET Nat /\ 0 \in good
  <2>1. Len(<<>>) = 0
    OBVIOUS
  <2> QED
    BY <1>2, <1>3, <2>1 DEF Collects
<1>5. ASSUME NEW n \in good
      PROVE  n + 1 \in good
  <2> SUFFICES ASSUME n + 1 <= Len(q)
               PROVE  Same(n + 1)
    OBVIOUS
  <2> DEFINE a == f[n]
             b == g[n]
             x == q[n + 1]
             y == r[n + 1]
  <2>1. n + 1 \in 1..Len(q) /\ (n + 1) - 1 = n /\ n \in 0..Len(q) /\ n <= Len(q)
    BY <1>1
  <2>2. /\ a \in Seq(Entry) /\ b \in Seq(Entry) /\ x \in Entry /\ y \in Entry
        /\ y.ev = x.ev /\ y.at = x.at - Millisecond
    BY <1>1, <1>2, <1>3, <2>1 DEF Collects
  <2>3. Len(b) = Len(a) /\ (Len(a) > 0 => b[1].at = a[1].at - Millisecond)
    BY <2>1
  <2>4. f[n + 1] = IF x.ev \in evs THEN Append(a, x) ELSE a
    BY <1>2, <2>1 DEF Collects
  <2>5. g[n + 1] = IF x.ev \in evs THEN Append(b, y) ELSE b
    BY <1>1, <1>3, <2>1, <2>2 DEF Collects
  <2> HIDE DEF a, b, x, y
  <2>6. /\ Len(Append(a, x)) = Len(a) + 1 /\ Len(Append(b, y)) = Len(b) + 1
        /\ Append(a, x)[1] = IF Len(a) > 0 THEN a[1] ELSE x
        /\ Append(b, y)[1] = IF Len(b) > 0 THEN b[1] ELSE y
        /\ Len(a) \in Nat
    BY <2>2
  <2> QED
    BY <2>2, <2>3, <2>4, <2>5, <2>6
<1> HIDE DEF good
<1>6. good = Nat
  BY <1>4, <1>5, Induction
<1>7. Same(Len(q)) /\ f[Len(q)] \in Seq(Entry) /\ g[Len(q)] \in Seq(Entry)
  BY <1>1, <1>2, <1>3, <1>6 DEF good, Collects
<1> DEFINE a == f[Len(q)]
           b == g[Len(q)]
<1>8. a = Of(q, evs) /\ b = Of(r, evs) /\ a \in Seq(Entry) /\ b \in Seq(Entry)
      /\ Len(b) = Len(a) /\ (Len(a) > 0 => b[1].at = a[1].at - Millisecond)
  BY <1>1, <1>2, <1>3, <1>7 DEF Collects
<1> HIDE DEF a, b
<1>9. a # <<>> => b # <<>> /\ Head(a) = a[1] /\ Head(b) = b[1] /\ Len(a) > 0
  BY <1>8
<1> QED
  BY <1>8, <1>9

-----------------------------------------------------------------------------
(* The inductive invariant *)

\* A queue, a free list and so many entries in neither make up the array.
Whole(q, f, taken) ==
  /\ q \in Seq(Entry) /\ Sorted(q) /\ f \in Seq(Slots)
  /\ Len(q) + Len(f) + taken = Cardinality(Slots)

Taken == IF current = None THEN 0 ELSE 1

Places ==
  /\ Whole(queue, free, Taken)
  /\ current = None \/ current \in Entry
  /\ HandlerRuns
  /\ Others <= MaxOthers

\* The clock is where the phase lets it be, as in PicQueueProofs.
Cycles ==
  CPU_Cycles \in Int /\ CPU_CycleLeft \in Int /\ phase \in Phases /\ Bounds

Counter == pit \in PIT_Block /\ start \in Int /\ OneEventPerCounter

TimerInv == Places /\ Cycles /\ Counter

\* What InterruptInPhase and ClockBacksteps say of a step.
InPhase ==
  Armed' => \/ Skew' = 0
            \/ Armed /\ Skew' = Skew
            \/ \E d \in PitDelays : WriteRunning(d)

BackStep ==
  NextNow < Now =>
    \/ phase' = "tick" /\ NextNow >= Now - (Hack + 2 * Burst) * Sub
    \/ /\ \/ irq0' /\ pit'.new_mode
          \/ SetCycles
       /\ NextNow >= Now - (Boost + Burst) * Sub

-----------------------------------------------------------------------------
(* The lists *)

LEMMA Adds ==
  ASSUME NEW q, NEW f, NEW taken \in {0, 1}, Whole(q, f, taken), f # <<>>,
         NEW ev \in Events, NEW delay \in Nat \ {0}, NEW now \in Int,
         AddTo(q, f, ev, delay, now)
  PROVE  /\ Whole(queue', free', taken) /\ Len(queue') = Len(q) + 1
         /\ ev = PIT0_EventId /\ Of(q, {PIT0_EventId}) = <<>> =>
              /\ PitQueue' # <<>> /\ Len(PitQueue') = 1
              /\ Head(PitQueue').at = now + delay
<1> DEFINE e == [slot |-> Head(f), at |-> now + delay, ev |-> ev]
           n == Cardinality({k \in 1..Len(q) : q[k].at <= e.at})
<1>1. q \in Seq(Entry) /\ Sorted(q) /\ f \in Seq(Slots) /\ Len(q) \in Nat
  BY EntriesOf DEF Whole
<1>2. queue' = Insert(q, e) /\ free' = Tail(f)
  BY DEF AddTo
<1>3. Head(f) \in Slots /\ free' \in Seq(Slots) /\ Len(f) \in Nat /\ Len(free') = Len(f) - 1
  BY <1>1, <1>2
<1>4. e \in Entry /\ e.ev = ev /\ e.at = now + delay /\ e.at \in Int
  BY <1>3 DEF Entry
<1>5. n \in 0..Len(q)
  <2> HIDE DEF e
  <2> QED
    BY <1>1, <1>4, NoLater
<1>6. queue' = Splice(q, n, e)
  BY <1>2 DEF Insert, Splice
<1> HIDE DEF e, n
<1>7. queue' \in Seq(Entry) /\ Len(queue') = Len(q) + 1 /\ Sorted(queue')
      /\ Elems(queue') = Elems(q) \cup {e}
  BY <1>1, <1>2, <1>4, InsertSorted
<1>8. Whole(queue', free', taken)
  <2>1. Len(q) + Len(f) + taken = Cardinality(Slots)
    BY DEF Whole
  <2>2. Len(queue') + Len(free') = Len(q) + Len(f)
    BY <1>1, <1>3, <1>7
  <2> QED
    BY <1>3, <1>7, <2>1, <2>2 DEF Whole
<1>9. ASSUME ev = PIT0_EventId, Of(q, {PIT0_EventId}) = <<>>
      PROVE  PitQueue' = <<e>>
  <2>1. \A k \in 1..Len(q) : q[k].ev # PIT0_EventId
    <3>1. \A x \in Elems(q) : x.ev \notin {PIT0_EventId}
      BY <1>1, <1>9, OfNone
    <3> QED
      BY <3>1 DEF Elems
  <2>2. Splices(queue', q, n, e)
    BY <1>1, <1>4, <1>5, <1>6, Spliced
  <2>3. n + 1 \in 1..Len(queue') /\ queue'[n + 1] = e
    BY <1>1, <1>5, <1>7, <2>2 DEF Splices
  <2>4. ASSUME NEW k \in 1..Len(queue'), k # n + 1
        PROVE  queue'[k].ev # PIT0_EventId
    <3>1. CASE k <= n
      BY <1>1, <1>5, <2>1, <2>2, <3>1 DEF Splices
    <3>2. CASE k > n + 1
      <4>1. k - 1 \in 1..Len(q) /\ queue'[k] = q[k - 1]
        BY <1>1, <1>5, <1>7, <2>2, <3>2 DEF Splices
      <4> QED
        BY <2>1, <4>1
    <3> QED
      BY <1>5, <2>4, <3>1, <3>2
  <2>5. \A k \in 1..Len(queue') : queue'[k].ev \in {PIT0_EventId} <=> k = n + 1
    BY <1>4, <1>9, <2>3, <2>4
  <2>6. Of(queue', {PIT0_EventId}) = <<queue'[n + 1]>>
    BY <1>7, <2>3, <2>5, OfOne
  <2> QED
    BY <2>3, <2>6 DEF PitQueue
<1>10. ASSUME ev = PIT0_EventId, Of(q, {PIT0_EventId}) = <<>>
       PROVE  PitQueue' # <<>> /\ Len(PitQueue') = 1 /\ Head(PitQueue').at = now + delay
  <2>1. <<e>> # <<>> /\ Len(<<e>>) = 1 /\ Head(<<e>>) = e
    OBVIOUS
  <2> QED
    BY <1>4, <1>9, <1>10, <2>1
<1> QED
  BY <1>7, <1>8, <1>10

LEMMA Removes ==
  ASSUME NEW taken \in {0, 1}, Whole(queue, free, taken), NEW evs
  PROVE  /\ Whole(Without(evs), FreeAfter(evs), taken)
         /\ Len(Without(evs)) = Len(queue) - Len(Of(queue, evs))
         /\ Of(Without(evs), evs) = <<>>
<1> DEFINE gone == Of(queue, evs)
           kept == Without(evs)
           freed == [k \in 1..Len(gone) |-> gone[Len(gone) + 1 - k].slot]
<1>1. queue \in Seq(Entry) /\ Sorted(queue) /\ free \in Seq(Slots) /\ Len(queue) \in Nat
  BY EntriesOf DEF Whole
<1>2. /\ gone \in Seq(Entry) /\ kept \in Seq(Entry) /\ Sorted(kept)
      /\ Elems(kept) = {e \in Elems(queue) : e.ev \in Events \ evs}
      /\ Len(gone) + Len(kept) = Len(queue)
  BY <1>1, OfSorted, OfAll DEF Without
<1>3. Of(kept, evs) = <<>>
  <2> HIDE DEF kept
  <2> QED
    BY <1>2, OfNone
<1>4. FreeAfter(evs) = freed \o free
  BY DEF FreeAfter
<1> HIDE DEF gone, kept
<1>5. Len(gone) \in Nat /\ Len(kept) \in Nat /\ \A k \in 1..Len(gone) : gone[k].slot \in Slots
  <2>1. \A e \in Entry : e.slot \in Slots
    BY DEF Entry
  <2> QED
    BY <1>2, <2>1, EntriesOf
<1>6. freed \in Seq(Slots) /\ Len(freed) = Len(gone)
  <2>1. \A k \in 1..Len(gone) : Len(gone) + 1 - k \in 1..Len(gone)
    BY <1>5
  <2>2. \A k \in 1..Len(gone) : freed[k] \in Slots
    BY <1>5, <2>1
  <2> QED
    BY <1>5, <2>2
<1> HIDE DEF freed
<1>7. /\ FreeAfter(evs) \in Seq(Slots) /\ Len(FreeAfter(evs)) = Len(gone) + Len(free)
      /\ Len(free) \in Nat
  BY <1>1, <1>4, <1>6, Joined
<1>8. Len(kept) + Len(FreeAfter(evs)) + taken = Cardinality(Slots)
  <2>1. Len(queue) + Len(free) + taken = Cardinality(Slots)
    BY DEF Whole
  <2> DEFINE g == Len(gone)
             k == Len(kept)
             r == Len(free)
  <2>2. g \in Nat /\ k \in Nat /\ r \in Nat /\ g + k = Len(queue)
        /\ Len(FreeAfter(evs)) = g + r
    BY <1>2, <1>5, <1>7
  <2> HIDE DEF g, k, r
  <2>3. k + (g + r) = (g + k) + r
    BY <2>2
  <2> QED
    BY <2>1, <2>2, <2>3 DEF k, r
<1>9. Len(kept) = Len(queue) - Len(gone)
  BY <1>1, <1>2, <1>5
<1> QED
  BY <1>2, <1>3, <1>7, <1>8, <1>9 DEF Whole, kept, gone

\* Whatever a call does, the lists stay whole.
LEMMA CallsWhole ==
  ASSUME NEW taken \in {0, 1}, Whole(queue, free, taken), NEW now \in Int, QueueCall(now)
  PROVE  Whole(queue', free', taken)
<1>1. ASSUME NEW ev \in Events, NEW d \in Delays, PIC_AddEvent(ev, d, now)
      PROVE  Whole(queue', free', taken)
  <2>1. CASE free = <<>>
    BY <1>1, <2>1 DEF PIC_AddEvent, AddTo
  <2>2. CASE free # <<>>
    BY <1>1, <2>2, Adds, DelayAssumption DEF PIC_AddEvent
  <2> QED
    BY <2>1, <2>2
<1>2. ASSUME NEW evs, Remove(evs)
      PROVE  Whole(queue', free', taken)
  BY <1>2, Removes DEF Remove
<1> QED
  BY <1>1, <1>2 DEF QueueCall, PIC_RemoveEvents, PIC_RemoveSpecificEvents

\* What is collected are entries.
LEMMA OfType ==
  ASSUME NEW q \in Seq(Entry), NEW evs
  PROVE  Of(q, evs) \in Seq(Entry) /\ Len(Of(q, evs)) \in Nat /\ Len(q) \in Nat
<1>1. PICK f : Collects(f, q, evs)
  BY OfSteps
<1>2. Of(q, evs) \in Seq(Entry)
  BY <1>1, EntriesOf DEF Collects
<1> QED
  BY <1>2, EntriesOf

-----------------------------------------------------------------------------
(* The first event *)

LEMMA TimerInitial == TimerInit => TimerInv
<1> SUFFICES ASSUME TimerInit
             PROVE  TimerInv
  OBVIOUS
<1> DEFINE n == Cardinality(Slots)
           order == CHOOSE f \in [1..n -> Slots] : Elems(f) = Slots
<1>1. n \in Nat /\ n >= 2
  BY SlotAssumption, RoomAssumption, TimerAssumption, FS_CardinalityType
<1>2. order \in [1..n -> Slots]
  <2>1. PICK f \in Bijection(1..n, Slots) : TRUE
    BY SlotAssumption, FS_CardinalityType DEF ExistsBijection
  <2>2. f \in [1..n -> Slots] /\ \A s \in Slots : \E k \in 1..n : f[k] = s
    BY <2>1 DEF Bijection, Injection, Surjection
  <2>3. DOMAIN f = 1..n /\ Len(f) = n
    BY <1>1, <2>2
  <2>4. Elems(f) = Slots
    BY <2>2, <2>3 DEF Elems
  <2> QED
    BY <2>2, <2>4
<1>3. free = Tail(order)
  BY DEF TimerInit
<1>4. PICK d \in PitDelays :
        /\ queue = <<[slot |-> Head(order), at |-> d, ev |-> PIT0_EventId]>>
        /\ pit = [mode |-> 3, new_mode |-> FALSE, cntr |-> d, delay |-> d,
                  update_count |-> FALSE, write_state |-> 3]
  BY DEF TimerInit
<1> HIDE DEF order, n
<1>5. order \in Seq(Slots) /\ Len(order) = n /\ order # <<>>
  BY <1>1, <1>2
<1>6. Head(order) \in Slots /\ free \in Seq(Slots) /\ Len(free) = n - 1
  BY <1>1, <1>3, <1>5
<1> DEFINE e == [slot |-> Head(order), at |-> d, ev |-> PIT0_EventId]
<1>7. e \in Entry /\ e.ev = PIT0_EventId /\ queue = <<e>>
  BY <1>4, <1>6, TimerAssumption DEF Entry
<1> HIDE DEF e
<1>8. queue \in Seq(Entry) /\ Len(queue) = 1 /\ queue[1] = e /\ e.at \in Int
  <2>1. e.at \in Int
    BY <1>7 DEF Entry
  <2> QED
    BY <1>7, <2>1
<1>9. Sorted(queue)
  BY <1>8 DEF Sorted
<1>10. current = None /\ phase = "loop" /\ CPU_Cycles = 0 /\ CPU_CycleLeft = CycleMax /\ start = 0
  BY DEF TimerInit
<1>11. PitQueue = <<e>> /\ Len(PitQueue) = 1
  <2>1. \A k \in 1..Len(queue) : queue[k].ev \in {PIT0_EventId} <=> k = 1
    BY <1>7, <1>8
  <2>2. 1 \in 1..Len(queue)
    BY <1>8
  <2>3. PitQueue = <<queue[1]>>
    BY <1>8, <2>1, <2>2, OfOne DEF PitQueue
  <2> QED
    BY <1>8, <2>3
<1>12. Places
  <2>1. Whole(queue, free, Taken)
    BY <1>1, <1>6, <1>8, <1>9, <1>10 DEF Whole, Taken, n
  <2>2. Others <= MaxOthers
    BY <1>8, <1>11, TimerAssumption DEF Others
  <2> QED
    BY <1>10, <2>1, <2>2 DEF Places, HandlerRuns
<1>13. Cycles
  <2>1. SliceEnds = 0 /\ TickIndexND = 0
    BY <1>10, Constants DEF SliceEnds, TickIndexND
  <2>2. BoundsOf("loop", 0, 0)
    BY Constants DEF BoundsOf
  <2>3. CPU_Cycles \in Int /\ CPU_CycleLeft \in Int /\ phase \in Phases
    BY <1>10, Constants DEF Phases
  <2> QED
    BY <1>10, <2>1, <2>2, <2>3 DEF Cycles, Bounds
<1>14. Counter
  <2>1. pit \in PIT_Block
    BY <1>4 DEF PIT_Block
  <2>2. pit.new_mode = FALSE
    BY <1>4
  <2> QED
    BY <1>10, <1>11, <2>1, <2>2 DEF Counter, OneEventPerCounter, Handling
<1> QED
  BY <1>12, <1>13, <1>14 DEF TimerInv

-----------------------------------------------------------------------------
(* The clock *)

\* The cycles in terms of the clock and of the slice's end.
LEMMA At ==
  ASSUME Cycles
  PROVE  /\ TickIndexND \in Int /\ SliceEnds \in Int
         /\ CPU_Cycles = SliceEnds - TickIndexND /\ CPU_CycleLeft = CycleMax - SliceEnds
         /\ BoundsOf(phase, SliceEnds, TickIndexND)
BY ClockIs, Constants DEF Cycles, Bounds

\* A step that leaves the clock at now and the slice's end at ends.
LEMMA CyclesKeep ==
  ASSUME NEW ends \in Int, NEW now \in Int, phase' \in Phases, BoundsOf(phase', ends, now),
         CPU_CycleLeft' = CycleMax - ends, CPU_Cycles' = ends - now
  PROVE  Cycles' /\ TickIndexND' = now
<1>1. Moves(ends, now) /\ CPU_Cycles' \in Int /\ CPU_CycleLeft' \in Int
  BY MovesTo
<1> QED
  BY <1>1 DEF Cycles, Bounds, Moves

\* Outside the end of a millisecond, the clock that the timer reads is the cycle's.
LEMMA ReadsNow ==
  ASSUME Cycles, NEW now \in Int, TickIndexND' = now, ~(phase = "idle" /\ phase' = "tick")
  PROVE  /\ NextNow = now * Sub /\ Now = TickIndexND * Sub
         /\ now * Sub \in Int /\ TickIndexND * Sub \in Int
<1>1. TickIndexND * Sub \in Int /\ now * Sub \in Int
  BY At, CycleAssumption
<1> QED
  BY <1>1 DEF NextNow, Now

\* A step that does not set the clock back.
LEMMA Onward ==
  ASSUME Cycles, NEW ends \in Int, NEW now \in Int, phase' \in Phases, BoundsOf(phase', ends, now),
         CPU_CycleLeft' = CycleMax - ends, CPU_Cycles' = ends - now, TickIndexND <= now,
         ~(phase = "idle" /\ phase' = "tick")
  PROVE  Cycles' /\ BackStep
<1>1. Cycles' /\ TickIndexND' = now
  BY CyclesKeep
<1>2. TickIndexND * Sub <= now * Sub
  BY At, Order
<1>3. /\ NextNow = now * Sub /\ Now = TickIndexND * Sub
      /\ now * Sub \in Int /\ TickIndexND * Sub \in Int
  BY <1>1, ReadsNow
<1> QED
  BY <1>1, <1>2, <1>3 DEF BackStep

\* One that does, by a bounded amount, and says so.
LEMMA Backward ==
  ASSUME Cycles, NEW ends \in Int, NEW now \in Int, phase' = phase, BoundsOf(phase, ends, now),
         CPU_CycleLeft' = CycleMax - ends, CPU_Cycles' = ends - now,
         now >= TickIndexND - (Boost + Burst),
         (irq0' /\ pit'.new_mode) \/ SetCycles
  PROVE  Cycles' /\ BackStep
<1>1. phase \in Phases
  BY DEF Cycles
<1>2. Cycles' /\ TickIndexND' = now
  BY <1>1, CyclesKeep
<1>3. now * Sub >= TickIndexND * Sub - (Boost + Burst) * Sub
  BY At, Constants, Scaled
<1>4. NextNow = now * Sub /\ Now = TickIndexND * Sub
  BY <1>2, ReadsNow
<1> QED
  BY <1>2, <1>3, <1>4 DEF BackStep

\* A step that leaves the cycles alone.
LEMMA StillClock ==
  ASSUME Cycles, UNCHANGED <<CPU_Cycles, CPU_CycleLeft>>,
         \/ phase' = phase
         \/ phase \in {"service", "handler"} /\ phase' \in {"service", "handler"}
         \/ phase = "tick" /\ phase' = "loop"
         \/ phase = "native" /\ phase' = "loop"
         \/ phase = "dynrec" /\ phase' = "cpu"
         \/ phase = "dynrec" /\ phase' = "block" /\ CPU_Cycles > 0
  PROVE  Cycles' /\ BackStep
<1> DEFINE s == SliceEnds
           t == TickIndexND
<1>1. s \in Int /\ t \in Int /\ CPU_Cycles = s - t /\ CPU_CycleLeft = CycleMax - s /\ BoundsOf(phase, s, t)
  BY At
<1>2. phase' \in Phases /\ ~(phase = "idle" /\ phase' = "tick")
  BY DEF Cycles, Phases
<1>3. BoundsOf(phase', s, t)
  <2> HIDE DEF s, t
  <2> QED
    BY <1>1, Constants DEF BoundsOf
<1>4. t <= t /\ CPU_CycleLeft' = CycleMax - s /\ CPU_Cycles' = s - t
  BY <1>1
<1> QED
  BY <1>1, <1>2, <1>3, <1>4, Onward

LEMMA SpendClock == Cycles /\ Spend => Cycles' /\ BackStep
<1> SUFFICES ASSUME Cycles, Spend
             PROVE  Cycles' /\ BackStep
  OBVIOUS
<1> DEFINE s == SliceEnds
           t == TickIndexND
<1>1. s \in Int /\ t \in Int /\ CPU_Cycles = s - t /\ CPU_CycleLeft = CycleMax - s /\ BoundsOf(phase, s, t)
  BY At
<1>2. PICK n \in 1..Burst : CPU_Cycles' = CPU_Cycles - n
  BY DEF Spend
<1>3. /\ phase \in {"cpu", "block", "native"} /\ CPU_Cycles > 0 /\ n \in Int /\ n >= 1 /\ n <= Burst
      /\ phase # "cpu" => CPU_Cycles' >= 0
      /\ phase' = phase /\ CPU_CycleLeft' = CPU_CycleLeft
  BY Constants DEF Spend
<1>4. /\ t + n \in Int /\ t <= t + n /\ BoundsOf(phase, s, t + n)
      /\ CPU_CycleLeft' = CycleMax - s /\ CPU_Cycles' = s - (t + n)
  <2> HIDE DEF s, t
  <2> QED
    BY <1>1, <1>2, <1>3, Constants DEF BoundsOf
<1>5. phase' \in Phases
  BY <1>3 DEF Phases
<1> QED
  BY <1>1, <1>3, <1>4, <1>5, Onward

\* The slice is cut here.
LEMMA CutClock ==
  ASSUME Cycles, Calls, phase' = phase,
         CPU_Cycles' = 0, CPU_CycleLeft' = CPU_CycleLeft + CPU_Cycles
  PROVE  Cycles' /\ BackStep
<1> DEFINE s == SliceEnds
           t == TickIndexND
<1>1. s \in Int /\ t \in Int /\ CPU_Cycles = s - t /\ CPU_CycleLeft = CycleMax - s /\ BoundsOf(phase, s, t)
  BY At
<1>2. phase \in {"block", "native"} \/ (phase = "cpu" /\ CPU_Cycles >= 0)
  BY DEF Calls
<1>3. /\ t <= t /\ BoundsOf(phase', t, t)
      /\ CPU_CycleLeft' = CycleMax - t /\ CPU_Cycles' = t - t
  <2> HIDE DEF s, t
  <2> QED
    BY <1>1, <1>2, Constants DEF BoundsOf
<1>4. phase' \in Phases /\ ~(phase = "idle" /\ phase' = "tick")
  BY DEF Cycles, Phases
<1> QED
  BY <1>1, <1>3, <1>4, Onward

\* An instruction, with a slice of its own or without, that leaves the core.
LEMMA LeaveClock == Cycles /\ (Leave \/ Trap) => Cycles' /\ BackStep
<1> SUFFICES ASSUME Cycles, Leave \/ Trap
             PROVE  Cycles' /\ BackStep
  OBVIOUS
<1> DEFINE s == SliceEnds
           t == TickIndexND
<1>1. s \in Int /\ t \in Int /\ CPU_Cycles = s - t /\ CPU_CycleLeft = CycleMax - s /\ BoundsOf(phase, s, t)
  BY At
<1>2. /\ phase = "cpu" /\ CPU_Cycles > 0 /\ CPU_CycleLeft' = CPU_CycleLeft
      /\ phase' \in {"loop", "native"}
      /\ CPU_Cycles' = CPU_Cycles - 1 \/ (CPU_Cycles' = 0 /\ phase' = "loop")
  BY DEF Leave, Trap
<1>3. PICK now \in {t + 1, s} : CPU_Cycles' = s - now /\ (phase' = "native" => now = t + 1)
  <2>1. CPU_Cycles' = s - (t + 1) \/ (CPU_Cycles' = s - s /\ phase' = "loop")
    <3> HIDE DEF s, t
    <3> QED
      BY <1>1, <1>2
  <2> QED
    BY <2>1
<1>4. now \in Int /\ t <= now /\ BoundsOf(phase', s, now) /\ CPU_CycleLeft' = CycleMax - s
  <2> HIDE DEF s, t
  <2> QED
    BY <1>1, <1>2, <1>3, Constants DEF BoundsOf
<1>5. phase' \in Phases
  BY <1>2 DEF Phases
<1> QED
  BY <1>1, <1>2, <1>3, <1>4, <1>5, Onward

LEMMA SliceEndClock == Cycles /\ SliceEnd => Cycles' /\ BackStep
<1> SUFFICES ASSUME Cycles, SliceEnd
             PROVE  Cycles' /\ BackStep
  OBVIOUS
<1> DEFINE s == SliceEnds
           t == TickIndexND
<1>1. s \in Int /\ t \in Int /\ CPU_Cycles = s - t /\ CPU_CycleLeft = CycleMax - s /\ BoundsOf(phase, s, t)
  BY At
<1>2. /\ CPU_Cycles <= 0 /\ phase' = "loop" /\ CPU_CycleLeft' = CPU_CycleLeft
      /\ \/ phase = "cpu" /\ CPU_Cycles' = CPU_Cycles - 1
         \/ phase = "dynrec" /\ CPU_Cycles' = CPU_Cycles
  BY DEF SliceEnd
<1>3. PICK now \in {t, t + 1} :
        CPU_Cycles' = s - now /\ ((phase = "cpu" /\ now = t + 1) \/ (phase = "dynrec" /\ now = t))
  <2>1. \/ CPU_Cycles' = s - (t + 1) /\ phase = "cpu"
        \/ CPU_Cycles' = s - t /\ phase = "dynrec"
    <3> HIDE DEF s, t
    <3> QED
      BY <1>1, <1>2
  <2> QED
    BY <2>1
<1>4. now \in Int /\ t <= now /\ BoundsOf("loop", s, now) /\ CPU_CycleLeft' = CycleMax - s
  <2> HIDE DEF s, t
  <2> QED
    BY <1>1, <1>2, <1>3, Constants DEF BoundsOf
<1>5. phase' \in Phases
  BY <1>2 DEF Phases
<1> QED
  BY <1>1, <1>2, <1>3, <1>4, <1>5, Onward

\* A block that ends, or hands an instruction over.
LEMMA BlockClock == Cycles /\ (BlockEnd \/ Handover) => Cycles' /\ BackStep
<1> SUFFICES ASSUME Cycles, BlockEnd \/ Handover
             PROVE  Cycles' /\ BackStep
  OBVIOUS
<1> DEFINE s == SliceEnds
           t == TickIndexND
<1>1. s \in Int /\ t \in Int /\ CPU_Cycles = s - t /\ CPU_CycleLeft = CycleMax - s /\ BoundsOf(phase, s, t)
  BY At
<1>2. CASE BlockEnd
  <2>1. PICK n \in 1..Burst : CPU_Cycles' = CPU_Cycles - n
    BY <1>2 DEF BlockEnd
  <2>2. /\ phase = "block" /\ phase' \in {"dynrec", "native", "loop"} /\ n \in Int /\ n >= 1 /\ n <= Burst
        /\ CPU_CycleLeft' = CPU_CycleLeft
    BY <1>2, Constants DEF BlockEnd
  <2>3. /\ t + n \in Int /\ t <= t + n /\ BoundsOf(phase', s, t + n)
        /\ CPU_CycleLeft' = CycleMax - s /\ CPU_Cycles' = s - (t + n)
    <3> HIDE DEF s, t
    <3> QED
      BY <1>1, <2>1, <2>2, Constants DEF BoundsOf
  <2>4. phase' \in Phases
    BY <2>2 DEF Phases
  <2> QED
    BY <1>1, <2>2, <2>3, <2>4, Onward
<1>3. CASE Handover
  <2>1. PICK n \in 1..Burst : CPU_CycleLeft' = CPU_CycleLeft + CPU_Cycles - n
    BY <1>3 DEF Handover
  <2>2. phase = "block" /\ phase' = "cpu" /\ n \in Int /\ n >= 1 /\ n <= Burst /\ CPU_Cycles' = 1
    BY <1>3, Constants DEF Handover
  <2>3. /\ t + n \in Int /\ t + n - 1 \in Int /\ t <= t + n - 1 /\ BoundsOf(phase', t + n, t + n - 1)
        /\ CPU_CycleLeft' = CycleMax - (t + n) /\ CPU_Cycles' = (t + n) - (t + n - 1)
    <3> HIDE DEF s, t
    <3> QED
      BY <1>1, <2>1, <2>2, Constants DEF BoundsOf
  <2>4. phase' \in Phases
    BY <2>2 DEF Phases
  <2> QED
    BY <1>1, <2>2, <2>3, <2>4, Onward
<1> QED
  BY <1>2, <1>3

LEMMA DetourClock == Cycles /\ Detour => Cycles' /\ BackStep
<1> SUFFICES ASSUME Cycles, Detour
             PROVE  Cycles' /\ BackStep
  OBVIOUS
<1> DEFINE s == SliceEnds
           t == TickIndexND
<1>1. s \in Int /\ t \in Int /\ CPU_Cycles = s - t /\ CPU_CycleLeft = CycleMax - s /\ BoundsOf(phase, s, t)
  BY At
<1>2. /\ phase = "dynrec" /\ CPU_Cycles > -Burst
      /\ \/ CPU_Cycles' = CPU_Cycles - 1 /\ CPU_CycleLeft' = CPU_CycleLeft /\ phase' = phase
         \/ CPU_Cycles' = 0 /\ CPU_CycleLeft' = CPU_CycleLeft + CPU_Cycles /\ phase' = "native"
  BY DEF Detour
<1>3. phase' \in Phases
  BY <1>2 DEF Phases
<1>4. CASE CPU_Cycles' = CPU_Cycles - 1 /\ CPU_CycleLeft' = CPU_CycleLeft /\ phase' = phase
  <2>1. /\ t + 1 \in Int /\ t <= t + 1 /\ BoundsOf(phase', s, t + 1)
        /\ CPU_CycleLeft' = CycleMax - s /\ CPU_Cycles' = s - (t + 1)
    <3> HIDE DEF s, t
    <3> QED
      BY <1>1, <1>2, <1>4, Constants DEF BoundsOf
  <2> QED
    BY <1>1, <1>2, <1>3, <2>1, Onward
<1>5. CASE CPU_Cycles' = 0 /\ CPU_CycleLeft' = CPU_CycleLeft + CPU_Cycles /\ phase' = "native"
  <2>1. t <= t /\ BoundsOf(phase', t, t) /\ CPU_CycleLeft' = CycleMax - t /\ CPU_Cycles' = t - t
    <3> HIDE DEF s, t
    <3> QED
      BY <1>1, <1>2, <1>5, Constants DEF BoundsOf
  <2> QED
    BY <1>1, <1>2, <1>3, <2>1, Onward
<1> QED
  BY <1>2, <1>4, <1>5

LEMMA RunQueueClock == Cycles /\ RunQueue => Cycles' /\ BackStep
<1> SUFFICES ASSUME Cycles, RunQueue
             PROVE  Cycles' /\ BackStep
  OBVIOUS
<1> DEFINE s == SliceEnds
           t == TickIndexND
<1>1. s \in Int /\ t \in Int /\ CPU_Cycles = s - t /\ CPU_CycleLeft = CycleMax - s /\ BoundsOf(phase, s, t)
  BY At
<1>2. /\ phase = "loop" /\ CPU_CycleLeft' = CPU_CycleLeft + CPU_Cycles /\ CPU_Cycles' = 0
      /\ phase' = IF CPU_CycleLeft' <= 0 THEN "idle" ELSE "service"
  BY DEF RunQueue
<1>3. /\ CPU_CycleLeft' = CycleMax - t /\ CPU_Cycles' = t - t /\ t <= t
      /\ phase' = IF t >= CycleMax THEN "idle" ELSE "service"
  <2> HIDE DEF s, t
  <2> QED
    BY <1>1, <1>2, Constants
<1>4. BoundsOf(phase', t, t)
  <2> HIDE DEF s, t
  <2> QED
    BY <1>1, <1>2, <1>3, Constants DEF BoundsOf
<1>5. phase' \in Phases
  BY <1>3 DEF Phases
<1> QED
  BY <1>1, <1>2, <1>3, <1>4, <1>5, Onward

LEMMA EndServiceClock ==
  ASSUME Cycles, queue \in Seq(Entry), Sorted(queue), EndService
  PROVE  Cycles' /\ BackStep
<1> DEFINE s == SliceEnds
           t == TickIndexND
           n == SliceFor(queue, CPU_CycleLeft)
<1>1. s \in Int /\ t \in Int /\ CPU_Cycles = s - t /\ CPU_CycleLeft = CycleMax - s /\ BoundsOf(phase, s, t)
  BY At
<1>2. /\ phase = "service" /\ ~Due(queue) /\ CPU_Cycles' = n
      /\ CPU_CycleLeft' = CPU_CycleLeft - n /\ phase' \in {"cpu", "dynrec"}
  BY CoreAssumption DEF EndService
<1>3. n = SliceFor(queue, CPU_CycleLeft)
  OBVIOUS
<1> HIDE DEF n
<1>4. s = t /\ t < CycleMax /\ t >= -MaxBack
  BY <1>1, <1>2 DEF BoundsOf
<1>5. n \in Int /\ n >= 0 /\ n <= CycleMax + MaxBack /\ t + n <= CycleMax + Hack
  BY <1>1, <1>2, <1>3, <1>4, SliceIsShort
<1>6. /\ t + n \in Int /\ t <= t /\ BoundsOf(phase', t + n, t)
      /\ CPU_CycleLeft' = CycleMax - (t + n) /\ CPU_Cycles' = (t + n) - t
  <2> HIDE DEF s, t
  <2> QED
    BY <1>1, <1>2, <1>4, <1>5, Constants DEF BoundsOf
<1>7. phase' \in Phases
  BY <1>2 DEF Phases
<1> QED
  BY <1>1, <1>2, <1>6, <1>7, Onward

\* The line goes up, and the program is given cycles.
LEMMA RaiseClock ==
  ASSUME Cycles, Calls, RaiseLater, pit'.new_mode, CPU_CycleLeft' = CPU_CycleLeft, phase' = phase
  PROVE  Cycles' /\ BackStep
<1> DEFINE s == SliceEnds
           t == TickIndexND
           c == IF CPU_Cycles < Boost THEN Boost ELSE CPU_Cycles
<1>1. s \in Int /\ t \in Int /\ CPU_Cycles = s - t /\ CPU_CycleLeft = CycleMax - s /\ BoundsOf(phase, s, t)
  BY At
<1>2. /\ phase \in {"block", "native"} \/ (phase = "cpu" /\ CPU_Cycles >= 0)
      /\ irq0' /\ CPU_Cycles' = c /\ s - c >= -MaxBack
  BY DEF Calls, RaiseLater
<1>3. /\ s - c \in Int /\ BoundsOf(phase, s, s - c) /\ s - c >= t - (Boost + Burst)
      /\ CPU_CycleLeft' = CycleMax - s /\ CPU_Cycles' = s - (s - c)
  <2> HIDE DEF s, t
  <2> QED
    BY <1>1, <1>2, Constants DEF BoundsOf
<1> QED
  BY <1>1, <1>2, <1>3, Backward

\* Other code gives itself cycles.
LEMMA BoostClock == Cycles /\ SetCycles => Cycles' /\ BackStep
<1> SUFFICES ASSUME Cycles, SetCycles
             PROVE  Cycles' /\ BackStep
  OBVIOUS
<1> DEFINE s == SliceEnds
           t == TickIndexND
<1>1. s \in Int /\ t \in Int /\ CPU_Cycles = s - t /\ CPU_CycleLeft = CycleMax - s /\ BoundsOf(phase, s, t)
  BY At
<1>2. PICK b \in 1..Boost :
        /\ CPU_Cycles' = b
        /\ \/ CPU_Cycles < b /\ UNCHANGED CPU_CycleLeft
           \/ CPU_Cycles > b /\ CPU_CycleLeft' = CPU_CycleLeft + CPU_Cycles
  BY DEF SetCycles
<1>3. /\ (phase \in {"block", "native"} \/ (phase = "cpu" /\ CPU_Cycles >= 0))
      /\ phase' = phase /\ TickIndexND' >= -MaxBack
  BY DEF SetCycles, Calls
<1>4. PICK ends \in {s, t} : ((ends = s /\ s - t < b) \/ (ends = t /\ s - t > b)) /\ CPU_CycleLeft' = CycleMax - ends
  <2> HIDE DEF s, t
  <2> QED
    BY <1>1, <1>2, Constants
<1>5. ends \in Int /\ Moves(ends, ends - b) /\ CPU_Cycles' = ends - (ends - b) /\ ends - b \in Int
  <2> HIDE DEF s, t
  <2> QED
    BY <1>1, <1>2, <1>4, Constants, MovesTo
<1>6. ends - b >= -MaxBack
  BY <1>3, <1>5 DEF Moves
<1>7. BoundsOf(phase, ends, ends - b) /\ ends - b >= t - (Boost + Burst)
  <2> HIDE DEF s, t
  <2> QED
    BY <1>1, <1>3, <1>4, <1>6, Constants DEF BoundsOf
<1> QED
  BY <1>1, <1>3, <1>4, <1>5, <1>7, Backward

\* The end of a millisecond drops what the cores ran past it.
LEMMA TickClock == Cycles /\ TIMER_AddTick => Cycles' /\ BackStep
<1> SUFFICES ASSUME Cycles, TIMER_AddTick
             PROVE  Cycles' /\ BackStep
  OBVIOUS
<1>1. phase = "idle" /\ phase' = "tick" /\ CPU_CycleLeft' = CycleMax /\ CPU_Cycles' = 0
  BY DEF TIMER_AddTick
<1> DEFINE t == TickIndexND
           past == Hack + 2 * Burst
<1>2. t \in Int /\ t <= CycleMax + past
  <2>1. t \in Int /\ t <= CycleMax + Hack + 2 * Burst
    BY <1>1, At DEF BoundsOf
  <2> HIDE DEF t
  <2> QED
    BY <2>1, Constants
<1>3. Cycles' /\ TickIndexND' = 0
  <2>1. /\ BoundsOf("tick", 0, 0) /\ phase' \in Phases
        /\ CPU_CycleLeft' = CycleMax - 0 /\ CPU_Cycles' = 0 - 0
    BY <1>1, Constants DEF BoundsOf, Phases
  <2> QED
    BY <1>1, <2>1, CyclesKeep
<1>4. CycleMax \in Int /\ past \in Int
  BY Constants
<1>5. Now = t * Sub /\ NextNow = CycleMax * Sub
  <2>1. 0 * Sub = 0 /\ CycleMax * Sub \in Int
    BY CycleAssumption
  <2>2. Now' = 0
    BY <1>3, <2>1 DEF Now
  <2> QED
    BY <1>1, <2>1, <2>2 DEF NextNow, Now, Millisecond
<1> HIDE DEF t, past
<1>6. CycleMax >= t - past
  BY <1>2, <1>4
<1>7. CycleMax * Sub >= t * Sub - past * Sub
  BY <1>2, <1>4, <1>6, Scaled
<1> QED
  BY <1>1, <1>3, <1>5, <1>7 DEF BackStep, past

-----------------------------------------------------------------------------
(* The steps that leave the timer's event where it is *)

\* The handler has not added its event yet.
Serving == Handling /\ ops = 0

\* The counter's event stays, in the queue or with the handler.
LEMMA SameEvent ==
  ASSUME Counter, PitQueue' = PitQueue, Serving' <=> Serving,
         pit' \in PIT_Block, pit'.new_mode = pit.new_mode, pit'.mode = pit.mode, start' \in Int
  PROVE  Counter'
<1>1. Len(PitQueue') = Len(PitQueue)
  OBVIOUS
<1>2. (Handling /\ ops = 0)' <=> (Handling /\ ops = 0)
  BY DEF Serving
<1>3. Running' <=> Running
  BY DEF Running
<1>4. OneEventPerCounter'
  BY <1>1, <1>2, <1>3 DEF Counter, OneEventPerCounter
<1> QED
  BY <1>4 DEF Counter

\* So does the distance to the end of the counter.
LEMMA SameSkew ==
  ASSUME PitQueue' = PitQueue, Serving' <=> Serving, Serving => current'.at = current.at,
         pit'.delay = pit.delay, start' = start
  PROVE  InPhase
<1>1. Armed' <=> Armed
  BY DEF Serving, Armed
<1>2. Due0' = Due0
  BY DEF Serving, Due0
<1> QED
  BY <1>1, <1>2 DEF InPhase, Skew

\* Outside handlers nothing serves the event.
LEMMA NotServing ==
  ASSUME phase # "handler", phase' # "handler"
  PROVE  ~Serving /\ ~Serving'
BY DEF Serving, Handling

LEMMA PlacesStay ==
  ASSUME Places, UNCHANGED <<queue, free, current>>, phase' = "handler" <=> phase = "handler"
  PROVE  Places' /\ PitQueue' = PitQueue
<1>1. PitQueue' = PitQueue
  BY DEF PitQueue
<1> QED
  BY <1>1 DEF Places, Taken, HandlerRuns, Others

\* A step outside the handlers that touches neither the lists nor the counter.
LEMMA QuietStep ==
  ASSUME Places, Counter, UNCHANGED <<queue, free, current, pit, start>>,
         phase # "handler", phase' # "handler"
  PROVE  Places' /\ Counter' /\ InPhase
<1>1. Places' /\ PitQueue' = PitQueue
  BY PlacesStay
<1>2. ~Serving /\ ~Serving'
  BY NotServing
<1>3. pit \in PIT_Block /\ start \in Int
  BY DEF Counter
<1>4. Counter'
  BY <1>1, <1>2, <1>3, SameEvent
<1>5. InPhase
  BY <1>1, <1>2, SameSkew
<1> QED
  BY <1>1, <1>4, <1>5

Good == TimerInv' /\ InPhase /\ BackStep

\* What the cores do without the lists.
LEMMA CoresGood ==
  ASSUME TimerInv, UNCHANGED <<pit, start>>,
         Spend \/ WritePic \/ Leave \/ FallBack \/ EnterBlock \/ BlockEnd \/ Handover \/ Return \/ SliceEnd
  PROVE  Good
<1>1. Cycles' /\ BackStep
  <2>1. CASE Spend
    BY <2>1, SpendClock DEF TimerInv
  <2>2. CASE WritePic
    BY <2>2, CutClock DEF TimerInv, WritePic
  <2>3. CASE Leave
    BY <2>3, LeaveClock DEF TimerInv
  <2>4. CASE FallBack \/ EnterBlock \/ Return
    BY <2>4, StillClock DEF TimerInv, FallBack, EnterBlock, Return
  <2>5. CASE BlockEnd \/ Handover
    BY <2>5, BlockClock DEF TimerInv
  <2>6. CASE SliceEnd
    BY <2>6, SliceEndClock DEF TimerInv
  <2> QED
    BY <2>1, <2>2, <2>3, <2>4, <2>5, <2>6
<1>2. phase # "handler" /\ phase' # "handler" /\ UNCHANGED <<queue, free, current>>
  BY DEF Spend, WritePic, Calls, Leave, FallBack, EnterBlock, BlockEnd, Handover, Return, SliceEnd
<1>3. Places' /\ Counter' /\ InPhase
  BY <1>2, QuietStep DEF TimerInv
<1> QED
  BY <1>1, <1>3 DEF Good, TimerInv

LEMMA BoostGood == TimerInv /\ OthersBoost => Good
<1> SUFFICES ASSUME TimerInv, OthersBoost
             PROVE  Good
  OBVIOUS
<1>1. SetCycles /\ UNCHANGED <<pit, start>>
  BY DEF OthersBoost
<1>2. Cycles' /\ BackStep
  BY <1>1, BoostClock DEF TimerInv
<1>3. phase # "handler" /\ phase' # "handler" /\ UNCHANGED <<queue, free, current>>
  BY <1>1 DEF SetCycles, Calls
<1>4. Places' /\ Counter' /\ InPhase
  BY <1>1, <1>3, QuietStep DEF TimerInv
<1> QED
  BY <1>2, <1>4 DEF Good, TimerInv

LEMMA LoopGood ==
  ASSUME TimerInv, RunQueue \/ EndService \/ TickEnd, UNCHANGED <<pit, start>>
  PROVE  Good
<1>1. Cycles' /\ BackStep
  <2>1. CASE RunQueue
    BY <2>1, RunQueueClock DEF TimerInv
  <2>2. CASE EndService
    BY <2>2, EndServiceClock DEF TimerInv, Places, Whole
  <2>3. CASE TickEnd
    BY <2>3, StillClock DEF TimerInv, TickEnd
  <2> QED
    BY <2>1, <2>2, <2>3
<1>2. phase # "handler" /\ phase' # "handler" /\ UNCHANGED <<queue, free, current>>
  <2>1. CASE RunQueue
    BY <2>1 DEF RunQueue
  <2>2. CASE EndService
    BY <2>2, CoreAssumption DEF EndService
  <2>3. CASE TickEnd
    BY <2>3 DEF TickEnd
  <2> QED
    BY <2>1, <2>2, <2>3
<1>3. Places' /\ Counter' /\ InPhase
  BY <1>2, QuietStep DEF TimerInv
<1> QED
  BY <1>1, <1>3 DEF Good, TimerInv

LEMMA TakeIrq0Good == TimerInv /\ TakeIrq0 => Good
<1> SUFFICES ASSUME TimerInv, TakeIrq0
             PROVE  Good
  OBVIOUS
<1>1. phase \in {"cpu", "dynrec"} /\ UNCHANGED <<vars, pit, start>>
  BY DEF TakeIrq0
<1>2. Cycles' /\ BackStep
  BY <1>1, StillClock DEF TimerInv, vars
<1>3. Places' /\ Counter' /\ InPhase
  BY <1>1, QuietStep DEF TimerInv, vars
<1> QED
  BY <1>2, <1>3 DEF Good, TimerInv

\* The other devices' calls.
LEMMA OthersGood ==
  ASSUME TimerInv, ScheduleEvent \/ CancelEvents \/ Trap \/ Detour, OthersOnly, UNCHANGED <<pit, start>>
  PROVE  Good
<1>1. phase # "handler" /\ phase' # "handler" /\ current' = current
  BY DEF ScheduleEvent, CancelEvents, Calls, Trap, Detour
<1>2. current = None /\ Taken = 0 /\ Whole(queue, free, 0)
  BY <1>1 DEF TimerInv, Places, HandlerRuns, Taken
<1>3. TickIndexND * Sub \in Int /\ SliceEnds * Sub \in Int
  BY At, CycleAssumption DEF TimerInv
<1>4. Whole(queue', free', 0)
  <2>1. CASE ScheduleEvent
    BY <1>2, <1>3, <2>1, CallsWhole DEF ScheduleEvent, QueueCall
  <2>2. CASE CancelEvents
    BY <1>2, <1>3, <2>2, CallsWhole DEF CancelEvents, QueueCall
  <2>3. CASE Trap \/ Detour
    <3>1. UnderOwnSlice
      BY <2>3 DEF Trap, Detour
    <3>2. CASE UNCHANGED <<queue, free>>
      BY <1>2, <3>2
    <3>3. CASE \E ev \in Events, d \in Delays : PIC_AddEvent(ev, d, SliceEnds * Sub)
      BY <1>2, <1>3, <3>3, CallsWhole DEF QueueCall
    <3> QED
      BY <3>1, <3>2, <3>3 DEF UnderOwnSlice
  <2> QED
    BY <2>1, <2>2, <2>3
<1>5. Places'
  BY <1>1, <1>2, <1>4 DEF Places, Taken, HandlerRuns, OthersOnly
<1>6. ~Serving /\ ~Serving'
  BY <1>1, NotServing
<1>7. Counter' /\ InPhase
  <2>1. PitQueue' = PitQueue
    BY DEF OthersOnly
  <2>2. pit \in PIT_Block /\ start \in Int /\ Counter
    BY DEF TimerInv, Counter
  <2>3. Counter'
    BY <1>6, <2>1, <2>2, SameEvent
  <2>4. InPhase
    BY <1>6, <2>1, SameSkew
  <2> QED
    BY <2>3, <2>4
<1>8. Cycles' /\ BackStep
  <2>1. CASE ScheduleEvent
    <3>1. Calls /\ phase' = phase
      BY <2>1 DEF ScheduleEvent
    <3>2. \/ UNCHANGED <<CPU_Cycles, CPU_CycleLeft>>
          \/ CPU_Cycles' = 0 /\ CPU_CycleLeft' = CPU_CycleLeft + CPU_Cycles
      BY <2>1 DEF ScheduleEvent, CutSlice
    <3> QED
      BY <3>1, <3>2, CutClock, StillClock DEF TimerInv
  <2>2. CASE CancelEvents
    BY <2>2, StillClock DEF TimerInv, CancelEvents
  <2>3. CASE Trap
    BY <2>3, LeaveClock DEF TimerInv
  <2>4. CASE Detour
    BY <2>4, DetourClock DEF TimerInv
  <2> QED
    BY <2>1, <2>2, <2>3, <2>4
<1> QED
  BY <1>5, <1>7, <1>8 DEF Good, TimerInv

-----------------------------------------------------------------------------
(* Firing *)

LEMMA DispatchGood ==
  ASSUME TimerInv, Dispatch, UNCHANGED <<pit, start>>
  PROVE  Good
<1>1. /\ phase = "service" /\ queue # <<>> /\ current' = Head(queue) /\ queue' = Tail(queue)
      /\ phase' = "handler" /\ ops' = 0 /\ UNCHANGED <<free, CPU_Cycles, CPU_CycleLeft>>
  BY DEF Dispatch, Due
<1>2. /\ current = None /\ queue \in Seq(Entry) /\ Sorted(queue) /\ free \in Seq(Slots)
      /\ Len(queue) + Len(free) + 0 = Cardinality(Slots) /\ Others <= MaxOthers
  BY <1>1 DEF TimerInv, Places, HandlerRuns, Whole, Taken
<1>3. /\ Head(queue) \in Entry /\ queue' \in Seq(Entry) /\ Sorted(queue')
      /\ Len(queue') = Len(queue) - 1
  BY <1>1, <1>2, HeadAndTail
<1>4. current' \in Entry /\ current' # None
  BY <1>1, <1>3, NoneIsNoEntry
<1>5. PitQueue \in Seq(Entry) /\ Len(PitQueue) \in Nat /\ Len(queue) \in Nat
  BY <1>2, OfType DEF PitQueue
<1>6. Len(free) \in Nat
  BY <1>2
<1>7. Whole(queue', free', Taken')
  <2>1. Len(queue') + Len(free') + 1 = Cardinality(Slots)
    BY <1>1, <1>2, <1>3, <1>5, <1>6
  <2> QED
    BY <1>1, <1>2, <1>3, <1>4, <2>1 DEF Whole, Taken
<1>8. Cycles' /\ BackStep
  BY <1>1, StillClock DEF TimerInv
<1>9. ~Serving /\ (Serving' <=> Head(queue).ev = PIT0_EventId)
  BY <1>1 DEF Serving, Handling
<1>10. pit \in PIT_Block /\ start \in Int /\ Counter
  BY DEF TimerInv, Counter
<1>11. CASE Head(queue).ev # PIT0_EventId
  <2>1. PitQueue' = PitQueue
    BY <1>1, <1>2, <1>11, OfTail DEF PitQueue
  <2>2. Others' <= MaxOthers
    BY <1>2, <1>3, <1>5, <2>1, TimerAssumption DEF Others
  <2>3. Places'
    BY <1>1, <1>4, <1>7, <2>2 DEF Places, HandlerRuns
  <2>4. Counter'
    BY <1>9, <1>10, <1>11, <2>1, SameEvent
  <2>5. InPhase
    BY <1>9, <1>11, <2>1, SameSkew
  <2> QED
    BY <1>8, <2>3, <2>4, <2>5 DEF Good, TimerInv
<1>12. CASE Head(queue).ev = PIT0_EventId
  <2>1. /\ Len(PitQueue) = Len(PitQueue') + 1
        /\ PitQueue # <<>> /\ Head(PitQueue) = Head(queue)
    BY <1>1, <1>2, <1>12, OfTail DEF PitQueue
  <2>2. Len(PitQueue) <= 1 /\ (Running => Len(PitQueue) = 1) /\ (pit.new_mode => Len(PitQueue) = 0)
    BY <1>5, <1>9 DEF TimerInv, Counter, OneEventPerCounter, Serving
  <2>3. PitQueue' \in Seq(Entry) /\ Len(PitQueue') \in Nat
    BY <1>3, OfType DEF PitQueue
  <2>4. Len(PitQueue') = 0 /\ Len(PitQueue) = 1 /\ PitQueue' = <<>>
    BY <1>5, <2>1, <2>2, <2>3
  <2>5. Others' <= MaxOthers
    BY <1>2, <1>3, <1>5, <2>4, TimerAssumption DEF Others
  <2>6. Places'
    BY <1>1, <1>4, <1>7, <2>5 DEF Places, HandlerRuns
  <2>7. (Handling /\ ops = 0)' /\ ~(Handling /\ ops = 0)
    BY <1>9, <1>12 DEF Serving
  <2>8. Counter'
    <3>1. Running' <=> Running
      BY DEF Running
    <3>2. OneEventPerCounter'
      BY <2>2, <2>4, <2>7, <3>1 DEF OneEventPerCounter
    <3> QED
      BY <1>10, <3>2 DEF Counter
  <2>9. InPhase
    <3>1. Armed /\ Due0 = Head(queue).at /\ Due0' = Head(queue).at
      BY <1>1, <2>1, <2>7 DEF Armed, Due0
    <3> QED
      BY <3>1 DEF InPhase, Skew
  <2> QED
    BY <1>8, <2>6, <2>8, <2>9 DEF Good, TimerInv
<1> QED
  BY <1>11, <1>12

LEMMA ReturnGood ==
  ASSUME TimerInv, HandlerReturn, Handling => ops = 1, UNCHANGED <<pit, start>>
  PROVE  Good
<1>1. /\ phase = "handler" /\ free' = <<current.slot>> \o free /\ current' = None
      /\ phase' = "service" /\ UNCHANGED <<queue, CPU_Cycles, CPU_CycleLeft>>
  BY DEF HandlerReturn
<1>2. /\ current \in Entry /\ queue \in Seq(Entry) /\ Sorted(queue) /\ free \in Seq(Slots)
      /\ Len(queue) + Len(free) + 1 = Cardinality(Slots) /\ Others <= MaxOthers
  BY <1>1 DEF TimerInv, Places, HandlerRuns, Whole, Taken
<1>3. current.slot \in Slots
  BY <1>2 DEF Entry
<1>4. free' \in Seq(Slots) /\ Len(free') = 1 + Len(free) /\ Len(free) \in Nat /\ Len(queue) \in Nat
  <2>1. <<current.slot>> \in Seq(Slots) /\ Len(<<current.slot>>) = 1
    BY <1>3
  <2> DEFINE one == <<current.slot>>
  <2> HIDE DEF one
  <2>2. free' \in Seq(Slots) /\ Len(free') = Len(one) + Len(free) /\ Len(free) \in Nat
    <3>1. one \in Seq(Slots) /\ free' = one \o free
      BY <1>1, <2>1 DEF one
    <3> QED
      BY <1>2, <3>1, Joined
  <2> QED
    BY <1>2, <2>1, <2>2, EntriesOf DEF one
<1>5. PitQueue' = PitQueue
  BY <1>1 DEF PitQueue
<1>6. Whole(queue', free', Taken')
  <2>1. Len(queue') + Len(free') + 0 = Cardinality(Slots)
    BY <1>1, <1>2, <1>4
  <2> QED
    BY <1>1, <1>2, <1>4, <2>1 DEF Whole, Taken
<1>7. Places'
  BY <1>1, <1>2, <1>5, <1>6 DEF Places, HandlerRuns, Others
<1>8. ~Serving /\ ~Serving'
  BY <1>1 DEF Serving, Handling
<1>9. Counter' /\ InPhase
  <2>1. pit \in PIT_Block /\ start \in Int /\ Counter
    BY DEF TimerInv, Counter
  <2>2. Counter'
    BY <1>5, <1>8, <2>1, SameEvent
  <2>3. InPhase
    BY <1>5, <1>8, SameSkew
  <2> QED
    BY <2>2, <2>3
<1>10. Cycles' /\ BackStep
  BY <1>1, StillClock DEF TimerInv
<1> QED
  BY <1>7, <1>9, <1>10 DEF Good, TimerInv

-----------------------------------------------------------------------------
(* The timer's own steps *)

\* The timer finds room for its event, which is then the only one it has.
LEMMA Arms ==
  ASSUME NEW q, NEW f, NEW taken \in {0, 1}, Whole(q, f, taken),
         Of(q, {PIT0_EventId}) = <<>>, Len(q) <= MaxOthers,
         NEW delay \in Nat \ {0}, NEW now \in Int, AddTo(q, f, PIT0_EventId, delay, now)
  PROVE  /\ Whole(queue', free', taken) /\ Others' <= MaxOthers
         /\ PitQueue' # <<>> /\ Len(PitQueue') = 1 /\ Head(PitQueue').at = now + delay
<1>1. /\ q \in Seq(Entry) /\ f \in Seq(Slots) /\ Len(q) \in Nat /\ Len(f) \in Nat
      /\ Len(q) + Len(f) + taken = Cardinality(Slots)
  BY EntriesOf DEF Whole
<1>2. f # <<>>
  <2>1. Len(f) >= 1
    BY <1>1, RoomAssumption, TimerAssumption
  <2> QED
    BY <2>1
<1>3. /\ Whole(queue', free', taken) /\ Len(queue') = Len(q) + 1
      /\ PitQueue' # <<>> /\ Len(PitQueue') = 1 /\ Head(PitQueue').at = now + delay
  <2>1. PIT0_EventId \in Events
    BY TimerAssumption
  <2>2. /\ Whole(queue', free', taken) /\ Len(queue') = Len(q) + 1
        /\ PIT0_EventId = PIT0_EventId /\ Of(q, {PIT0_EventId}) = <<>> =>
             /\ PitQueue' # <<>> /\ Len(PitQueue') = 1
             /\ Head(PitQueue').at = now + delay
    BY <1>2, <2>1, Adds
  <2> QED
    BY <2>2
<1>4. Others' = Len(q)
  BY <1>1, <1>3 DEF Others
<1> QED
  BY <1>3, <1>4

\* What the program finds when it writes to a port.
LEMMA AtPort ==
  ASSUME TimerInv, Calls
  PROVE  /\ phase # "handler" /\ phase \in {"cpu", "block", "native"}
         /\ CPU_Cycles \in Int /\ CPU_CycleLeft \in Int
         /\ current = None /\ Taken = 0 /\ Whole(queue, free, 0) /\ ~Serving
         /\ Now \in Int
         /\ pit \in PIT_Block /\ start \in Int /\ Counter
         /\ PitQueue \in Seq(Entry) /\ Len(PitQueue) \in Nat /\ Len(queue) \in Nat
         /\ Len(queue) - Len(PitQueue) <= MaxOthers
<1>1. phase # "handler" /\ phase \in {"cpu", "block", "native"}
  BY DEF Calls
<1>2. CPU_Cycles \in Int /\ CPU_CycleLeft \in Int
  BY DEF TimerInv, Cycles
<1>3. current = None /\ Taken = 0 /\ Whole(queue, free, 0)
  BY <1>1 DEF TimerInv, Places, HandlerRuns, Taken
<1>4. Now \in Int
  BY At, CycleAssumption DEF TimerInv, Now
<1>5. PitQueue \in Seq(Entry) /\ Len(PitQueue) \in Nat /\ Len(queue) \in Nat
  BY <1>3, OfType DEF PitQueue, Whole
<1> QED
  BY <1>1, <1>2, <1>3, <1>4, <1>5 DEF Serving, Handling, TimerInv, Counter, Places, Others

LEMMA WriteControlGood ==
  ASSUME TimerInv, NEW access \in Accesses, NEW mode \in Modes, WriteControl(access, mode)
  PROVE  Good
<1>1. /\ Calls /\ Disarm
      /\ pit' = [pit EXCEPT !.update_count = FALSE, !.write_state = access,
                            !.new_mode = TRUE, !.mode = mode]
      /\ UNCHANGED <<current, CPU_CycleLeft, phase, ops, start>>
      /\ RaiseLater \/ CPU_Cycles' = CPU_Cycles
  BY DEF WriteControl
<1>2. /\ phase # "handler" /\ current = None /\ Taken = 0 /\ Whole(queue, free, 0)
      /\ pit \in PIT_Block /\ start \in Int /\ Len(queue) - Len(PitQueue) <= MaxOthers
  BY <1>1, AtPort
<1>3. pit' \in PIT_Block /\ pit'.new_mode = TRUE
  <2>1. access \in 0..3 /\ mode \in {0, 2, 3, 4}
    BY TimerAssumption
  <2> QED
    BY <1>1, <1>2, <2>1 DEF PIT_Block
<1>4. /\ Whole(queue', free', 0) /\ PitQueue' = <<>>
      /\ Len(queue') = Len(queue) - Len(PitQueue)
  BY <1>1, <1>2, Removes DEF Disarm, Remove, PitQueue
<1>5. Len(queue') \in Nat /\ Others' <= MaxOthers
  <2>1. Len(queue') \in Nat
    BY <1>4, EntriesOf DEF Whole
  <2> QED
    BY <1>2, <1>4, <2>1 DEF Others
<1>6. Places'
  BY <1>1, <1>2, <1>4, <1>5 DEF Places, Taken, HandlerRuns
<1>7. ~(Handling /\ ops = 0)' /\ ~Running'
  BY <1>1, <1>2, <1>3 DEF Handling, Running
<1>8. Counter'
  BY <1>1, <1>2, <1>3, <1>4, <1>7 DEF Counter, OneEventPerCounter
<1>9. InPhase
  BY <1>4, <1>7 DEF InPhase, Armed
<1>10. Cycles' /\ BackStep
  <2>1. CASE RaiseLater
    BY <1>1, <1>2, <1>3, <2>1, RaiseClock DEF TimerInv
  <2>2. CASE CPU_Cycles' = CPU_Cycles
    BY <1>1, <1>2, <2>2, StillClock DEF TimerInv
  <2> QED
    BY <1>1, <2>1, <2>2
<1> QED
  BY <1>6, <1>8, <1>9, <1>10 DEF Good, TimerInv

\* A byte that leaves the event in the queue.
LEMMA WriteKeeps ==
  ASSUME TimerInv, Calls, CPU_Cycles' = CPU_Cycles,
         UNCHANGED <<queue, free, current, CPU_CycleLeft, phase>>,
         pit' \in PIT_Block, pit'.new_mode = pit.new_mode, pit'.mode = pit.mode, start' \in Int,
         \/ pit'.delay = pit.delay /\ start' = start
         \/ \E d \in PitDelays : WriteRunning(d)
  PROVE  Good
<1>1. phase # "handler" /\ Counter
  BY AtPort
<1>2. Places' /\ PitQueue' = PitQueue
  BY PlacesStay DEF TimerInv
<1>3. ~Serving /\ ~Serving'
  BY <1>1, NotServing
<1>4. Counter'
  BY <1>1, <1>2, <1>3, SameEvent
<1>5. InPhase
  <2>1. CASE pit'.delay = pit.delay /\ start' = start
    BY <1>2, <1>3, <2>1, SameSkew
  <2>2. CASE \E d \in PitDelays : WriteRunning(d)
    BY <2>2 DEF InPhase
  <2> QED
    BY <2>1, <2>2
<1>6. Cycles' /\ BackStep
  BY StillClock DEF TimerInv
<1> QED
  BY <1>2, <1>4, <1>5, <1>6 DEF Good, TimerInv

LEMMA WriteFirstGood == TimerInv /\ WriteFirst => Good
<1> SUFFICES ASSUME TimerInv, WriteFirst
             PROVE  Good
  OBVIOUS
<1>1. /\ Calls /\ CPU_Cycles' = CPU_Cycles
      /\ pit' = [pit EXCEPT !.write_state = 0]
      /\ UNCHANGED <<queue, free, current, CPU_CycleLeft, phase, start>>
  BY DEF WriteFirst
<1>2. pit \in PIT_Block /\ start \in Int
  BY <1>1, AtPort
<1>3. /\ pit' \in PIT_Block /\ pit'.new_mode = pit.new_mode /\ pit'.mode = pit.mode
      /\ pit'.delay = pit.delay
  BY <1>1, <1>2 DEF PIT_Block
<1> QED
  BY <1>1, <1>2, <1>3, WriteKeeps

\* A count is loaded.
LEMMA LoadedIs ==
  ASSUME pit \in PIT_Block, NEW d \in PitDelays
  PROVE  /\ Loaded(d) \in PIT_Block
         /\ Loaded(d).new_mode = pit.new_mode /\ Loaded(d).mode = pit.mode
         /\ Loaded(d).delay = pit.delay
<1> DEFINE w == IF pit.write_state = 0 THEN 3 ELSE pit.write_state
<1>1. w \in 0..3
  BY DEF PIT_Block
<1>2. Loaded(d) = [pit EXCEPT !.cntr = d, !.write_state = w]
  BY DEF Loaded, PIT_Block
<1> HIDE DEF w
<1> QED
  BY <1>1, <1>2 DEF PIT_Block

LEMMA WriteLaterGood ==
  ASSUME TimerInv, NEW d \in PitDelays, WriteLater(d)
  PROVE  Good
<1> DEFINE p == Loaded(d)
<1>1. /\ Calls /\ CPU_Cycles' = CPU_Cycles
      /\ pit' = [p EXCEPT !.update_count = TRUE]
      /\ UNCHANGED <<queue, free, current, CPU_CycleLeft, phase, start>>
  BY DEF WriteLater, LastByte
<1>2. pit \in PIT_Block /\ start \in Int
  BY <1>1, AtPort
<1>3. p \in PIT_Block /\ p.new_mode = pit.new_mode /\ p.mode = pit.mode /\ p.delay = pit.delay
  BY <1>2, LoadedIs
<1> HIDE DEF p
<1>4. /\ pit' \in PIT_Block /\ pit'.new_mode = pit.new_mode /\ pit'.mode = pit.mode
      /\ pit'.delay = pit.delay
  BY <1>1, <1>3 DEF PIT_Block
<1> QED
  BY <1>1, <1>2, <1>4, WriteKeeps

LEMMA WriteRunningGood ==
  ASSUME TimerInv, NEW d \in PitDelays, WriteRunning(d)
  PROVE  Good
<1> DEFINE p == Loaded(d)
<1>1. /\ Calls /\ CPU_Cycles' = CPU_Cycles
      /\ pit' = [p EXCEPT !.delay = d] /\ start' = Now
      /\ UNCHANGED <<queue, free, current, CPU_CycleLeft, phase>>
  BY DEF WriteRunning, LastByte
<1>2. pit \in PIT_Block /\ Now \in Int
  BY <1>1, AtPort
<1>3. p \in PIT_Block /\ p.new_mode = pit.new_mode /\ p.mode = pit.mode
  BY <1>2, LoadedIs
<1> HIDE DEF p
<1>4. pit' \in PIT_Block /\ pit'.new_mode = pit.new_mode /\ pit'.mode = pit.mode
  BY <1>1, <1>3 DEF PIT_Block
<1>5. start' \in Int
  BY <1>1, <1>2
<1> QED
  BY <1>1, <1>4, <1>5, WriteKeeps

LEMMA WriteStartsGood ==
  ASSUME TimerInv, NEW d \in PitDelays, WriteStarts(d)
  PROVE  Good
<1> DEFINE p == Loaded(d)
<1>1. /\ Calls
      /\ pit.new_mode \/ pit.mode = 0
      /\ pit' = [p EXCEPT !.delay = d, !.new_mode = FALSE]
      /\ start' = Now /\ Arm(d) /\ CutSlice(queue')
      /\ UNCHANGED <<current, phase, ops>>
  BY DEF WriteStarts, LastByte
<1>2. /\ phase # "handler" /\ current = None /\ Taken = 0 /\ Whole(queue, free, 0)
      /\ pit \in PIT_Block /\ Now \in Int /\ Counter
      /\ PitQueue \in Seq(Entry) /\ Len(PitQueue) \in Nat /\ Len(queue) \in Nat
      /\ Len(queue) - Len(PitQueue) <= MaxOthers
  <2>1. Calls
    BY <1>1
  <2> QED
    BY <2>1, AtPort
<1>3. p \in PIT_Block
  BY <1>2, LoadedIs
<1> HIDE DEF p
<1>4. pit' \in PIT_Block /\ pit'.new_mode = FALSE /\ pit'.delay = d
  BY <1>1, <1>3 DEF PIT_Block
<1>5. d \in Nat \ {0}
  BY TimerAssumption
<1>6. /\ Whole(queue', free', 0) /\ Others' <= MaxOthers
      /\ PitQueue' # <<>> /\ Len(PitQueue') = 1 /\ Head(PitQueue').at = Now + d
  <2>1. CASE pit.mode = 0
    <3>1. AddTo(Without({PIT0_EventId}), FreeAfter({PIT0_EventId}), PIT0_EventId, d, Now)
      BY <1>1, <2>1 DEF Arm
    <3>2. /\ Whole(Without({PIT0_EventId}), FreeAfter({PIT0_EventId}), 0)
          /\ Len(Without({PIT0_EventId})) = Len(queue) - Len(PitQueue)
          /\ Of(Without({PIT0_EventId}), {PIT0_EventId}) = <<>>
      BY <1>2, Removes DEF PitQueue
    <3> QED
      BY <1>2, <1>5, <3>1, <3>2, Arms
  <2>2. CASE pit.mode # 0
    <3>1. PIC_AddEvent(PIT0_EventId, d, Now) /\ pit.new_mode
      BY <1>1, <2>2 DEF Arm
    <3>2. Len(PitQueue) = 0
      <4>1. ~(Handling /\ ops = 0)
        BY <1>2 DEF Handling
      <4> QED
        BY <1>2, <3>1, <4>1 DEF Counter, OneEventPerCounter
    <3>3. Of(queue, {PIT0_EventId}) = <<>> /\ Len(queue) <= MaxOthers
      BY <1>2, <3>2 DEF PitQueue
    <3> QED
      BY <1>2, <1>5, <3>1, <3>3, Arms DEF PIC_AddEvent
  <2> QED
    BY <2>1, <2>2
<1>7. Places'
  BY <1>1, <1>2, <1>6 DEF Places, Taken, HandlerRuns
<1>8. ~(Handling /\ ops = 0)'
  BY <1>1, <1>2 DEF Handling
<1>9. Counter'
  BY <1>1, <1>2, <1>4, <1>6, <1>8 DEF Counter, OneEventPerCounter
<1>10. InPhase
  <2>1. Due0' = Now + d
    BY <1>6, <1>8 DEF Due0
  <2>2. Skew' = 0
    BY <1>1, <1>2, <1>4, <1>5, <2>1 DEF Skew
  <2> QED
    BY <2>2 DEF InPhase
<1>11. Cycles' /\ BackStep
  <2>1. \/ UNCHANGED <<CPU_Cycles, CPU_CycleLeft>>
        \/ CPU_Cycles' = 0 /\ CPU_CycleLeft' = CPU_CycleLeft + CPU_Cycles
    BY <1>1 DEF CutSlice
  <2> QED
    BY <1>1, <2>1, CutClock, StillClock DEF TimerInv
<1> QED
  BY <1>7, <1>9, <1>10, <1>11 DEF Good, TimerInv

\* The handler adds its event again, a period after the time it was due.
LEMMA PitEventGood == TimerInv /\ PIT0_Event => Good
<1> SUFFICES ASSUME TimerInv, PIT0_Event
             PROVE  Good
  OBVIOUS
<1>1. /\ phase = "handler" /\ current.ev = PIT0_EventId /\ ops = 0 /\ ops' = 1
      /\ UNCHANGED <<current, CPU_Cycles, CPU_CycleLeft, phase>>
  BY DEF PIT0_Event
<1>2. /\ current # None /\ current \in Entry /\ Taken = 1 /\ Whole(queue, free, 1)
      /\ pit \in PIT_Block /\ start \in Int /\ Counter /\ HandlerRuns
  BY <1>1 DEF TimerInv, Places, HandlerRuns, Taken, Counter
<1>3. current.at \in Int
  BY <1>2 DEF Entry
<1>4. PitQueue \in Seq(Entry) /\ Len(PitQueue) \in Nat /\ Len(queue) \in Nat
  BY <1>2, OfType DEF PitQueue, Whole
<1>5. Handling /\ ops = 0 /\ ~(Handling /\ ops = 0)'
  BY <1>1 DEF Handling
<1>6. Len(PitQueue) = 0 /\ PitQueue = <<>> /\ Len(queue) <= MaxOthers /\ ~pit.new_mode
  <2>1. Len(PitQueue) + 1 <= 1 /\ (pit.new_mode => Len(PitQueue) + 1 = 0)
    BY <1>2, <1>5 DEF Counter, OneEventPerCounter
  <2>2. Len(PitQueue) = 0 /\ ~pit.new_mode
    BY <1>4, <2>1
  <2>3. Len(queue) - Len(PitQueue) <= MaxOthers
    BY DEF TimerInv, Places, Others
  <2> QED
    BY <1>4, <2>2, <2>3
<1>7. Cycles' /\ BackStep
  BY <1>1, StillClock DEF TimerInv
<1>8. Armed /\ Due0 = current.at
  BY <1>5 DEF Armed, Due0
<1>9. CASE pit.mode = 0
  <2>1. UNCHANGED <<pit, start, queue, free>>
    BY <1>9 DEF PIT0_Event
  <2>2. PitQueue' = <<>>
    BY <1>6, <2>1 DEF PitQueue
  <2>3. Places'
    BY <1>1, <1>6, <2>1, <2>2, PlacesStay DEF TimerInv
  <2>4. ~Running' /\ ~pit'.new_mode
    BY <1>6, <1>9, <2>1 DEF Running
  <2>5. Counter'
    BY <1>2, <1>5, <2>1, <2>2, <2>4 DEF Counter, OneEventPerCounter
  <2>6. InPhase
    BY <1>5, <2>2 DEF InPhase, Armed
  <2> QED
    BY <1>7, <2>3, <2>5, <2>6 DEF Good, TimerInv
<1>10. CASE pit.mode # 0
  <2> DEFINE delay == IF pit.update_count THEN pit.cntr ELSE pit.delay
  <2>1. /\ start' = start + pit.delay
        /\ pit' = [pit EXCEPT !.delay = delay, !.update_count = FALSE]
        /\ PIC_AddEvent(PIT0_EventId, pit'.delay, current.at)
    BY <1>10 DEF PIT0_Event, NextPeriod
  <2>2. delay \in PitDelays /\ pit.delay \in PitDelays
    BY <1>2 DEF PIT_Block
  <2> HIDE DEF delay
  <2>3. /\ pit' \in PIT_Block /\ pit'.new_mode = pit.new_mode /\ pit'.mode = pit.mode
        /\ pit'.delay = delay
    BY <1>2, <2>1, <2>2 DEF PIT_Block
  <2>4. delay \in Nat \ {0} /\ pit.delay \in Nat /\ start' \in Int
    BY <1>2, <2>1, <2>2, TimerAssumption
  <2>5. /\ Whole(queue', free', 1) /\ Others' <= MaxOthers
        /\ PitQueue' # <<>> /\ Len(PitQueue') = 1 /\ Head(PitQueue').at = current.at + delay
    <3>1. AddTo(queue, free, PIT0_EventId, delay, current.at)
      BY <2>1, <2>3 DEF PIC_AddEvent
    <3>2. Of(queue, {PIT0_EventId}) = <<>>
      BY <1>6 DEF PitQueue
    <3> QED
      BY <1>2, <1>3, <1>6, <2>4, <3>1, <3>2, Arms
  <2>6. Places'
    BY <1>1, <1>2, <2>5 DEF Places, Taken, HandlerRuns
  <2>7. Counter'
    BY <1>5, <1>6, <2>3, <2>4, <2>5 DEF Counter, OneEventPerCounter
  <2>8. InPhase
    <3>1. Due0' = current.at + delay
      BY <1>5, <2>5 DEF Due0
    <3>2. Skew' = Due0' - (start' + pit'.delay) /\ Skew = Due0 - (start + pit.delay)
      BY DEF Skew
    <3> DEFINE p == pit.delay
    <3>3. start' = start + p /\ pit'.delay = delay
      BY <2>1, <2>3
    <3>4. p \in Nat /\ Skew = Due0 - (start + p)
      BY <2>4, <3>2
    <3> HIDE DEF p
    <3>5. Skew' = (current.at + delay) - ((start + p) + delay)
      BY <3>1, <3>2, <3>3
    <3>6. Skew' = Skew
      BY <1>2, <1>3, <1>8, <2>4, <3>4, <3>5
    <3> QED
      BY <1>8, <3>6 DEF InPhase
  <2> QED
    BY <1>7, <2>6, <2>7, <2>8 DEF Good, TimerInv
<1> QED
  BY <1>9, <1>10

\* The end of a millisecond moves the event and the counter's start together.
LEMMA MillisecondGood == TimerInv /\ NewMillisecond => Good
<1> SUFFICES ASSUME TimerInv, NewMillisecond
             PROVE  Good
  OBVIOUS
<1>1. /\ phase = "idle" /\ phase' = "tick" /\ queue' = Rebased(queue)
      /\ TIMER_AddTick /\ start' = Settled(start - Millisecond)
      /\ UNCHANGED <<free, current, pit>>
  BY DEF NewMillisecond, TIMER_AddTick, Rebased
<1>2. /\ current = None /\ Taken = 0 /\ Whole(queue, free, 0) /\ queue \in Seq(Entry)
      /\ pit \in PIT_Block /\ start \in Int /\ Counter /\ Others <= MaxOthers
  BY <1>1 DEF TimerInv, Places, HandlerRuns, Taken, Counter, Whole
<1>3. Millisecond \in Int /\ pit.delay \in Nat /\ pit.delay # 0
  <2>1. pit.delay \in PitDelays
    BY <1>2 DEF PIT_Block
  <2>2. \A x \in PitDelays : x \in Nat /\ x # 0
    BY TimerAssumption
  <2>3. Millisecond \in Int
    BY CycleAssumption DEF Millisecond
  <2> QED
    BY <2>1, <2>2, <2>3
<1>4. /\ queue' \in Seq(Entry) /\ Len(queue') = Len(queue) /\ (Sorted(queue) => Sorted(queue'))
  BY <1>1, <1>2, RebasedIs
<1>5. /\ Len(PitQueue') = Len(PitQueue)
      /\ PitQueue # <<>> =>
           PitQueue' # <<>> /\ Head(PitQueue').at = Head(PitQueue).at - Millisecond
  BY <1>1, <1>2, OfRebased DEF PitQueue
<1>6. /\ PitQueue \in Seq(Entry) /\ Len(PitQueue) \in Nat
      /\ PitQueue' \in Seq(Entry) /\ Len(PitQueue') \in Nat
  BY <1>2, <1>4, OfType DEF PitQueue
<1>7. Places'
  BY <1>1, <1>2, <1>4, <1>5 DEF Places, Taken, HandlerRuns, Whole, Others
<1>8. ~(Handling /\ ops = 0) /\ ~(Handling /\ ops = 0)'
  BY <1>1 DEF Handling
<1>9. start' \in Int
  <2> DEFINE s == start - Millisecond
  <2>1. s \in Int
    BY <1>2, <1>3
  <2> HIDE DEF s
  <2>2. (-s - 1) % pit.delay \in Int
    BY <1>3, <2>1
  <2>3. Settled(s) \in Int
    BY <1>3, <2>1, <2>2 DEF Settled
  <2> QED
    BY <1>1, <2>3 DEF s
<1>10. Counter'
  <2>1. Running' <=> Running
    BY <1>1 DEF Running
  <2> QED
    BY <1>1, <1>2, <1>5, <1>8, <1>9, <2>1 DEF Counter, OneEventPerCounter
<1>11. InPhase
  <2> SUFFICES ASSUME Armed'
               PROVE  Armed /\ Skew' = Skew
    BY DEF InPhase
  <2>1. PitQueue # <<>> /\ Armed
    BY <1>5, <1>6, <1>8 DEF Armed
  <2>2. start' = start - Millisecond
    BY <1>1, <2>1 DEF Settled
  <2>3. Due0 = Head(PitQueue).at /\ Due0' = Head(PitQueue).at - Millisecond
    BY <1>5, <1>8, <2>1 DEF Due0
  <2>4. Head(PitQueue).at \in Int
    <3>1. Head(PitQueue) \in Entry
      BY <1>6, <2>1
    <3> QED
      BY <3>1 DEF Entry
  <2>5. Skew' = Skew
    <3> DEFINE p == pit.delay
               h == Head(PitQueue).at
    <3>1. pit' = pit /\ start' = start - Millisecond /\ Due0' = h - Millisecond /\ Due0 = h
      BY <1>1, <2>2, <2>3
    <3>2. Skew' = Due0' - (start' + pit'.delay) /\ Skew = Due0 - (start + p)
      BY DEF Skew
    <3>3. Skew' = (h - Millisecond) - ((start - Millisecond) + p)
      BY <3>1, <3>2
    <3>4. h \in Int /\ p \in Int
      BY <1>3, <2>4
    <3> HIDE DEF h, p
    <3> QED
      BY <1>2, <1>3, <3>1, <3>2, <3>3, <3>4
  <2> QED
    BY <2>1, <2>5
<1>12. Cycles' /\ BackStep
  BY <1>1, TickClock DEF TimerInv
<1> QED
  BY <1>7, <1>10, <1>11, <1>12 DEF Good, TimerInv

-----------------------------------------------------------------------------
(* The theorems *)

LEMMA TimerStep == TimerInv /\ TimerNext => Good
<1> SUFFICES ASSUME TimerInv, TimerNext
             PROVE  Good
  OBVIOUS
<1>1. CASE \E access \in Accesses, mode \in Modes : WriteControl(access, mode)
  BY <1>1, WriteControlGood
<1>2. CASE WriteLatch
  BY <1>2, WriteFirstGood, WriteLaterGood, WriteStartsGood, WriteRunningGood DEF WriteLatch
<1>3. CASE PIT0_Event
  BY <1>3, PitEventGood
<1>4. CASE TakeIrq0
  BY <1>4, TakeIrq0Good
<1>5. CASE Elsewhere
  BY <1>5, CoresGood, LoopGood, OthersGood, DispatchGood, ReturnGood DEF Elsewhere
<1>6. CASE NewMillisecond
  BY <1>6, MillisecondGood
<1>7. CASE OthersBoost
  BY <1>7, BoostGood
<1> QED
  BY <1>1, <1>2, <1>3, <1>4, <1>5, <1>6, <1>7 DEF TimerNext

LEMMA TimerStutter == TimerInv /\ UNCHANGED timerVars => TimerInv'
<1> SUFFICES ASSUME TimerInv, UNCHANGED timerVars
             PROVE  TimerInv'
  OBVIOUS
<1>1. Places' /\ PitQueue' = PitQueue
  BY PlacesStay DEF TimerInv, timerVars, vars
<1>2. Cycles'
  BY StillClock DEF TimerInv, timerVars, vars
<1>3. Counter'
  <2>1. (Serving' <=> Serving) /\ UNCHANGED <<pit, start>>
    BY DEF Serving, Handling, timerVars, vars
  <2>2. pit \in PIT_Block /\ start \in Int /\ Counter
    BY DEF TimerInv, Counter
  <2> QED
    BY <1>1, <2>1, <2>2, SameEvent
<1> QED
  BY <1>1, <1>2, <1>3 DEF TimerInv

THEOREM TimerInvariance == TimerSpec => []TimerInv
<1>1. TimerInv /\ [TimerNext]_timerVars => TimerInv'
  BY TimerStep, TimerStutter DEF Good
<1> QED
  BY <1>1, TimerInitial, PTL DEF TimerSpec

\* The counter has the event it needs, and no other.
THEOREM OneEvent == TimerSpec => []OneEventPerCounter
<1>1. TimerInv => OneEventPerCounter
  BY DEF TimerInv, Counter
<1> QED
  BY <1>1, TimerInvariance, PTL

\* The event follows the end of the counter.
THEOREM StaysInPhase == TimerSpec => InterruptInPhase
<1>1. TimerInv /\ [TimerNext]_timerVars => [InPhase]_timerVars
  BY TimerStep DEF Good
<1> QED
  BY <1>1, TimerInvariance, PTL DEF TimerSpec, InterruptInPhase, InPhase

\* The clock that the timer is programmed against steps back only where what was run
\* past the end of a millisecond is dropped, where a control word raises the line and
\* where other code gives itself cycles, each time by a bounded amount.
THEOREM StepsBack == TimerSpec => ClockBacksteps
<1>1. TimerInv /\ [TimerNext]_timerVars => [BackStep]_timerVars
  BY TimerStep DEF Good
<1> QED
  BY <1>1, TimerInvariance, PTL DEF TimerSpec, ClockBacksteps, BackStep

=============================================================================
