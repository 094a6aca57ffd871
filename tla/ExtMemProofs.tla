---------------------------- MODULE ExtMemProofs ----------------------------
(***************************************************************************)
(* Theorems about the page allocator and the drivers that share it.        *)
(*                                                                         *)
(* BestMatch is one pass over the array with four locals.  Scanned says    *)
(* what they mean after page i: either a run of exactly the size asked for *)
(* has been found, or first is where the run that page i is in starts, and *)
(* bestFirst the first of the shortest runs seen that are longer.  That is *)
(* kept by every page and, with the run at the end of the array treated    *)
(* like the others, gives ShortestFit.                                     *)
(*                                                                         *)
(* The invariant MemInv is that there is a layout: a block for every       *)
(* holder (an XMS or EMS handle, a page of the VCPI client, and a spare    *)
(* one), such that the array has exactly the words of those blocks, no two *)
(* of which share a page, and the tables of the drivers say of each block  *)
(* what it is.  A layout is a witness, no variable of the specification:   *)
(* the code knows a block only by walking it.  The walk of a block is      *)
(* shown to visit it (ChainIs), each branch of the allocator to make a new *)
(* block out of an old one (Relinks, ReAllocates), the spare holder having *)
(* the new block while a block is moved, and each call of a driver to      *)
(* change the block and the record of one holder (Steps).                  *)
(*                                                                         *)
(* All this is under the hypothesis that no XMS block of no size is asked  *)
(* for: such a block is given a page without marking it, after which two   *)
(* handles share one (FreePagesUnheld).                                    *)
(***************************************************************************)
EXTENDS ExtMem, FiniteSetTheorems, SequenceTheorems, WellFoundedInduction, TLAPS

-----------------------------------------------------------------------------
(* Numbers *)

\* A set of numbers that is not empty has a least one.
LEMMA Least ==
  ASSUME NEW S \in SUBSET Nat, S # {}
  PROVE  \E n \in S : \A m \in S : n <= m
<1>1. PICK n \in S : \A m \in S : ~(<<m, n>> \in OpToRel(<, Nat))
  BY WFMin, NatLessThanWellFounded
<1>2. \A m \in S : m \in Nat /\ n \in Nat /\ ~(m < n)
  BY <1>1 DEF OpToRel
<1>3. \A m \in S : n <= m
  BY <1>2
<1> QED
  BY <1>3

\* A set that holds 0 and with every number the next one holds all of them.
LEMMA Induction ==
  ASSUME NEW S \in SUBSET Nat, 0 \in S, \A n \in S : n + 1 \in S
  PROVE  S = Nat
<1> SUFFICES ASSUME Nat \ S # {}
             PROVE  FALSE
  OBVIOUS
<1>1. PICK n \in Nat \ S : \A m \in Nat \ S : n <= m
  BY Least
<1>2. n \in Nat /\ n # 0 /\ n - 1 \in Nat /\ ~(n <= n - 1) /\ (n - 1) + 1 = n
  BY <1>1
<1>3. n - 1 \in S
  BY <1>1, <1>2
<1> QED
  BY <1>1, <1>2, <1>3

-----------------------------------------------------------------------------
(* Runs of free pages *)

LEMMA RunsAre ==
  ASSUME NEW mh
  PROVE  \A r \in FreeRuns(mh) :
           /\ r = <<r[1], r[2]>> /\ r[1] \in Pages /\ r[2] \in Pages /\ r[1] <= r[2]
           /\ \A p \in r[1]..r[2] : mh[p] = 0
           /\ r[1] = 1 \/ mh[r[1] - 1] # 0
           /\ r[2] = N \/ mh[r[2] + 1] # 0
<1> SUFFICES ASSUME NEW r \in FreeRuns(mh)
             PROVE  /\ r = <<r[1], r[2]>> /\ r[1] \in Pages /\ r[2] \in Pages /\ r[1] <= r[2]
                    /\ \A p \in r[1]..r[2] : mh[p] = 0
                    /\ r[1] = 1 \/ mh[r[1] - 1] # 0
                    /\ r[2] = N \/ mh[r[2] + 1] # 0
  OBVIOUS
<1> DEFINE free == FreePages(mh)
<1>1. /\ r = <<r[1], r[2]>> /\ r[1] \in free /\ r[2] \in free
      /\ r[1] - 1 \notin free /\ r[2] + 1 \notin free
      /\ r[1] <= r[2] /\ r[1]..r[2] \subseteq free
  BY DEF FreeRuns
<1>2. \A p : p \in free <=> p \in 1..N /\ mh[p] = 0
  BY DEF FreePages, Pages
<1> HIDE DEF free
<1> QED
  BY <1>1, <1>2, NAssumption DEF Pages

LEMMA RunIs ==
  ASSUME NEW mh, NEW a \in Pages, NEW b \in Pages, a <= b,
         \A p \in a..b : mh[p] = 0, a = 1 \/ mh[a - 1] # 0, b = N \/ mh[b + 1] # 0
  PROVE  <<a, b>> \in FreeRuns(mh) /\ RunLen(<<a, b>>) = b - a + 1
<1>1. \A p : p \in FreePages(mh) <=> p \in 1..N /\ mh[p] = 0
  BY DEF FreePages, Pages
<1>2. a \in FreePages(mh) /\ b \in FreePages(mh) /\ a..b \subseteq FreePages(mh)
  BY <1>1, NAssumption DEF Pages
<1>3. a - 1 \notin FreePages(mh) /\ b + 1 \notin FreePages(mh)
  BY <1>1, NAssumption DEF Pages
<1> QED
  BY <1>2, <1>3 DEF FreeRuns, RunLen

\* Two runs that are not the same do not touch.
LEMMA RunsApart ==
  ASSUME NEW mh, NEW r \in FreeRuns(mh), NEW q \in FreeRuns(mh), q[1] <= r[1]
  PROVE  q = r \/ q[2] < r[1] - 1
<1>1. /\ r = <<r[1], r[2]>> /\ r[1] \in Pages /\ r[2] \in Pages /\ r[1] <= r[2]
      /\ \A p \in r[1]..r[2] : mh[p] = 0
      /\ r[1] = 1 \/ mh[r[1] - 1] # 0
      /\ r[2] = N \/ mh[r[2] + 1] # 0
  BY RunsAre
<1>2. /\ q = <<q[1], q[2]>> /\ q[1] \in Pages /\ q[2] \in Pages /\ q[1] <= q[2]
      /\ \A p \in q[1]..q[2] : mh[p] = 0
      /\ q[1] = 1 \/ mh[q[1] - 1] # 0
      /\ q[2] = N \/ mh[q[2] + 1] # 0
  BY RunsAre
<1> DEFINE a == q[1]
           b == q[2]
           c == r[1]
           d == r[2]
<1>3. /\ a \in 1..N /\ b \in 1..N /\ c \in 1..N /\ d \in 1..N /\ a <= b /\ c <= d /\ a <= c
      /\ \A p \in a..b : mh[p] = 0
      /\ \A p \in c..d : mh[p] = 0
      /\ c = 1 \/ mh[c - 1] # 0
      /\ b = N \/ mh[b + 1] # 0
      /\ d = N \/ mh[d + 1] # 0
      /\ q = <<a, b>> /\ r = <<c, d>>
  BY <1>1, <1>2 DEF Pages
<1> HIDE DEF a, b, c, d
<1>4. CASE b < c - 1
  BY <1>4 DEF b, c
<1>5. CASE b >= c - 1
  <2>1. c = a
    <3> SUFFICES ASSUME a < c
                 PROVE  FALSE
      BY <1>3
    <3>1. c - 1 \in a..b /\ c # 1
      BY <1>3, <1>5, NAssumption
    <3> QED
      BY <1>3, <3>1
  <2>2. b = d
    <3>1. ~(b < d)
      <4> SUFFICES ASSUME b < d
                   PROVE  FALSE
        OBVIOUS
      <4>1. b + 1 \in c..d /\ b # N
        BY <1>3, <1>5, <2>1, NAssumption
      <4> QED
        BY <1>3, <4>1
    <3>2. ~(d < b)
      <4> SUFFICES ASSUME d < b
                   PROVE  FALSE
        OBVIOUS
      <4>1. d + 1 \in a..b /\ d # N
        BY <1>3, <1>5, <2>1, NAssumption
      <4> QED
        BY <1>3, <4>1
    <3> QED
      BY <1>3, <3>1, <3>2, NAssumption
  <2> QED
    BY <1>3, <2>1, <2>2
<1> QED
  BY <1>3, <1>4, <1>5, NAssumption

-----------------------------------------------------------------------------
(* BestMatch *)

\* The first of the shortest runs that are long enough starts at a, or a is 0.
FirstShortest(mh, size, a) ==
  \/ a = 0 /\ \A q \in FreeRuns(mh) : RunLen(q) < size
  \/ \E r \in FreeRuns(mh) :
       /\ a = r[1] /\ RunLen(r) >= size
       /\ \A q \in FreeRuns(mh) : RunLen(q) >= size =>
            RunLen(r) < RunLen(q) \/ (RunLen(r) = RunLen(q) /\ a <= q[1])

LEMMA RunLengths ==
  ASSUME NEW mh, NEW r \in FreeRuns(mh)
  PROVE  RunLen(r) \in Nat \ {0} /\ r[1] \in Nat /\ r[1] # 0 /\ RunLen(r) = r[2] - r[1] + 1
BY RunsAre, NAssumption DEF RunLen, Pages

LEMMA ShortestIs ==
  ASSUME NEW mh, NEW size \in Nat \ {0}, NEW a, FirstShortest(mh, size, a)
  PROVE  ShortestFit(mh, size) = a
<1> DEFINE fit == {r \in FreeRuns(mh) : RunLen(r) >= size}
           shortest == {r \in fit : \A q \in fit : RunLen(r) <= RunLen(q)}
           c == CHOOSE r \in shortest : \A q \in shortest : r[1] <= q[1]
<1>1. ShortestFit(mh, size) = IF fit = {} THEN 0 ELSE c[1]
  BY DEF ShortestFit
<1>2. \A r \in fit : RunLen(r) \in Nat /\ r[1] \in Nat
  BY RunLengths
<1>3. CASE a = 0 /\ \A q \in FreeRuns(mh) : RunLen(q) < size
  <2>1. fit = {}
    BY <1>2, <1>3
  <2> QED
    BY <1>1, <1>3, <2>1
<1>4. CASE \E r \in FreeRuns(mh) :
             /\ a = r[1] /\ RunLen(r) >= size
             /\ \A q \in FreeRuns(mh) : RunLen(q) >= size =>
                  RunLen(r) < RunLen(q) \/ (RunLen(r) = RunLen(q) /\ a <= q[1])
  <2>1. PICK r \in FreeRuns(mh) :
             /\ a = r[1] /\ RunLen(r) >= size
             /\ \A q \in FreeRuns(mh) : RunLen(q) >= size =>
                  RunLen(r) < RunLen(q) \/ (RunLen(r) = RunLen(q) /\ a <= q[1])
    BY <1>4
  <2>2. r \in fit
    BY <2>1
  <2>3. r \in shortest
    BY <1>2, <2>1, <2>2
  <2>4. \A q \in shortest : r[1] <= q[1]
    <3> SUFFICES ASSUME NEW q \in shortest
                 PROVE  r[1] <= q[1]
      OBVIOUS
    <3>1. q \in fit /\ RunLen(q) <= RunLen(r)
      BY <2>2
    <3> QED
      BY <1>2, <2>1, <2>2, <3>1
  <2>5. c \in shortest /\ \A q \in shortest : c[1] <= q[1]
    <3> HIDE DEF shortest
    <3> QED
      BY <2>3, <2>4
  <2>6. c \in fit
    BY <2>5
  <2> HIDE DEF c, shortest
  <2>7. c[1] = r[1]
    BY <1>2, <2>2, <2>3, <2>4, <2>5, <2>6
  <2> HIDE DEF fit
  <2> QED
    BY <1>1, <2>1, <2>2, <2>7
<1> QED
  BY <1>3, <1>4 DEF FirstShortest

\* The best of the runs that end before page i starts at a and has b pages; none
\* of them has the size asked for.
BestBefore(mh, size, i, a, b) ==
  /\ \A q \in FreeRuns(mh) : q[2] < i => RunLen(q) # size
  /\ \/ a = 0 /\ b = N + 2 /\ \A q \in FreeRuns(mh) : q[2] < i => RunLen(q) < size
     \/ \E r \in FreeRuns(mh) :
          /\ r[2] < i /\ r[1] = a /\ RunLen(r) = b /\ b > size
          /\ \A q \in FreeRuns(mh) : q[2] < i /\ RunLen(q) >= size =>
               b < RunLen(q) \/ (b = RunLen(q) /\ a <= q[1])

\* The run that page i is in, if it is free, starts at first.
RunAt(mh, i, first) ==
  \/ first = 0 /\ (i = 0 \/ mh[i] # 0)
  \/ /\ first \in 1..i /\ \A p \in first..i : mh[p] = 0
     /\ first = 1 \/ mh[first - 1] # 0

\* The scan of pages 1 to i.
Scanned(mh, size, i, s) ==
  /\ s \in [first : Nat, best : Nat, bestFirst : Nat, found : Nat]
  /\ \/ s.found # 0 /\ FirstShortest(mh, size, s.found)
     \/ s.found = 0 /\ RunAt(mh, i, s.first) /\ BestBefore(mh, size, i, s.bestFirst, s.best)

LEMMA SameRuns ==
  ASSUME NEW mh, NEW size \in Nat, NEW i \in Nat, NEW a, NEW b, BestBefore(mh, size, i, a, b),
         \A q \in FreeRuns(mh) : q[2] # i
  PROVE  BestBefore(mh, size, i + 1, a, b)
<1>1. \A q \in FreeRuns(mh) : q[2] \in Nat
  BY RunsAre, NAssumption DEF Pages
<1>2. \A q \in FreeRuns(mh) : q[2] < i + 1 <=> q[2] < i
  BY <1>1
<1> QED
  BY <1>2 DEF BestBefore

\* The run that starts at first ends at i.
LEMMA RunEnds ==
  ASSUME NEW mh, NEW i \in Pages, NEW first, first # 0, RunAt(mh, i, first),
         i = N \/ mh[i + 1] # 0
  PROVE  /\ <<first, i>> \in FreeRuns(mh) /\ RunLen(<<first, i>>) = i - first + 1
         /\ \A q \in FreeRuns(mh) : q[2] = i => q = <<first, i>>
<1>1. /\ first \in Pages /\ first <= i /\ \A p \in first..i : mh[p] = 0
      /\ first = 1 \/ mh[first - 1] # 0
  BY NAssumption DEF RunAt, Pages
<1>2. <<first, i>> \in FreeRuns(mh) /\ RunLen(<<first, i>>) = i - first + 1
  BY <1>1, RunIs
<1>3. ASSUME NEW q \in FreeRuns(mh), q[2] = i
      PROVE  q = <<first, i>>
  <2>1. q[1] \in Nat /\ q[1] <= i /\ first \in Nat /\ i \in Nat
    BY <1>1, <1>3, RunsAre, NAssumption DEF Pages
  <2>2. CASE q[1] <= first
    BY <1>1, <1>2, <1>3, <2>1, <2>2, RunsApart
  <2>3. CASE first <= q[1]
    BY <1>1, <1>2, <1>3, <2>1, <2>3, RunsApart
  <2> QED
    BY <2>1, <2>2, <2>3
<1> QED
  BY <1>2, <1>3

\* One more run, and none after it, has the size asked for: it is what is wanted.
LEMMA ExactFit ==
  ASSUME NEW mh, NEW size \in Nat \ {0}, NEW i \in Nat, NEW a, NEW b,
         BestBefore(mh, size, i, a, b), NEW r \in FreeRuns(mh), r[2] = i, RunLen(r) = size
  PROVE  FirstShortest(mh, size, r[1])
<1> SUFFICES ASSUME NEW q \in FreeRuns(mh), RunLen(q) >= size
             PROVE  RunLen(r) < RunLen(q) \/ (RunLen(r) = RunLen(q) /\ r[1] <= q[1])
  <2>1. RunLen(r) >= size
    BY RunLengths
  <2> QED
    BY <2>1 DEF FirstShortest
<1>1. CASE RunLen(r) < RunLen(q)
  <2>1. RunLen(r) \in Nat /\ RunLen(q) \in Nat
    BY RunLengths
  <2> QED
    BY <1>1, <2>1
<1>2. CASE ~(RunLen(r) < RunLen(q))
  <2>1. RunLen(q) = size /\ ~(q[2] < i) /\ q[1] \in Nat /\ r[1] \in Nat /\ q[2] \in Nat
    BY <1>2, RunLengths, RunsAre, NAssumption DEF BestBefore, Pages
  <2>2. CASE q[1] <= r[1]
    BY <2>1, <2>2, RunsApart, RunsAre, NAssumption DEF Pages
  <2> QED
    BY <2>1, <2>2
<1> QED
  BY <1>1, <1>2

\* A run that ends at page i is put beside the best before it.
LEMMA RunAdded ==
  ASSUME NEW mh, NEW size \in Nat \ {0}, NEW i \in Nat, NEW a, NEW b \in Nat,
         BestBefore(mh, size, i, a, b), NEW r \in FreeRuns(mh), r[2] = i, RunLen(r) # size,
         \A q \in FreeRuns(mh) : q[2] = i => q = r
  PROVE  IF RunLen(r) > size /\ RunLen(r) < b
         THEN BestBefore(mh, size, i + 1, r[1], RunLen(r))
         ELSE BestBefore(mh, size, i + 1, a, b)
<1>1. /\ RunLen(r) \in Nat /\ r[1] \in Nat /\ r[1] # 0 /\ RunLen(r) <= N /\ N \in Nat
      /\ \A q \in FreeRuns(mh) : q[2] \in Nat /\ q[1] \in Nat /\ RunLen(q) \in Nat
  BY RunLengths, RunsAre, NAssumption DEF Pages
<1>2. \A q \in FreeRuns(mh) : q[2] < i + 1 <=> q[2] < i \/ q = r
  BY <1>1
<1>3. \A q \in FreeRuns(mh) : q[2] < i + 1 => RunLen(q) # size
  BY <1>2 DEF BestBefore
<1>4. \A q \in FreeRuns(mh) : q[2] < i => q[1] < r[1]
  <2> SUFFICES ASSUME NEW q \in FreeRuns(mh), q[2] < i, r[1] <= q[1]
               PROVE  FALSE
    BY <1>1
  <2>1. r = q \/ r[2] < q[1] - 1
    BY RunsApart
  <2>2. q[1] <= q[2]
    BY RunsAre
  <2> QED
    BY <1>1, <2>1, <2>2
<1>5. CASE a = 0 /\ b = N + 2 /\ \A q \in FreeRuns(mh) : q[2] < i => RunLen(q) < size
  <2>1. CASE RunLen(r) > size
    <3>1. \A q \in FreeRuns(mh) : q[2] < i + 1 /\ RunLen(q) >= size => q = r
      BY <1>1, <1>2, <1>5
    <3>2. BestBefore(mh, size, i + 1, r[1], RunLen(r))
      BY <1>1, <1>2, <1>3, <2>1, <3>1 DEF BestBefore
    <3> QED
      BY <1>1, <1>5, <2>1, <3>2
  <2>2. CASE RunLen(r) < size
    <3>1. BestBefore(mh, size, i + 1, a, b)
      BY <1>2, <1>3, <1>5, <2>2 DEF BestBefore
    <3> QED
      BY <1>1, <2>2, <3>1
  <2> QED
    BY <1>1, <2>1, <2>2
<1>6. CASE \E x \in FreeRuns(mh) :
             /\ x[2] < i /\ x[1] = a /\ RunLen(x) = b /\ b > size
             /\ \A q \in FreeRuns(mh) : q[2] < i /\ RunLen(q) >= size =>
                  b < RunLen(q) \/ (b = RunLen(q) /\ a <= q[1])
  <2>1. PICK x \in FreeRuns(mh) :
             /\ x[2] < i /\ x[1] = a /\ RunLen(x) = b /\ b > size
             /\ \A q \in FreeRuns(mh) : q[2] < i /\ RunLen(q) >= size =>
                  b < RunLen(q) \/ (b = RunLen(q) /\ a <= q[1])
    BY <1>6
  <2>2. CASE RunLen(r) > size /\ RunLen(r) < b
    <3>1. \A q \in FreeRuns(mh) : q[2] < i + 1 /\ RunLen(q) >= size =>
            RunLen(r) < RunLen(q) \/ (RunLen(r) = RunLen(q) /\ r[1] <= q[1])
      <4> SUFFICES ASSUME NEW q \in FreeRuns(mh), q[2] < i + 1, RunLen(q) >= size
                   PROVE  RunLen(r) < RunLen(q) \/ (RunLen(r) = RunLen(q) /\ r[1] <= q[1])
        OBVIOUS
      <4>1. CASE q[2] < i
        <5>1. b <= RunLen(q) /\ RunLen(q) \in Nat
          BY <1>1, <2>1, <4>1
        <5>2. RunLen(r) < RunLen(q)
          BY <1>1, <2>1, <2>2, <5>1
        <5> QED
          BY <5>2
      <4>2. CASE q = r
        BY <1>1, <4>2
      <4> QED
        BY <1>2, <4>1, <4>2
    <3>2. BestBefore(mh, size, i + 1, r[1], RunLen(r))
      BY <1>1, <1>2, <1>3, <2>2, <3>1 DEF BestBefore
    <3> QED
      BY <2>2, <3>2
  <2>3. CASE ~(RunLen(r) > size /\ RunLen(r) < b)
    <3>1. a <= r[1]
      BY <1>1, <1>4, <2>1
    <3>2. \A q \in FreeRuns(mh) : q[2] < i + 1 /\ RunLen(q) >= size =>
            b < RunLen(q) \/ (b = RunLen(q) /\ a <= q[1])
      BY <1>1, <1>2, <2>1, <2>3, <3>1
    <3>3. BestBefore(mh, size, i + 1, a, b)
      BY <1>1, <1>2, <1>3, <2>1, <3>2 DEF BestBefore
    <3> QED
      BY <2>3, <3>3
  <2> QED
    BY <2>2, <2>3
<1> QED
  BY <1>5, <1>6 DEF BestBefore

LEMMA ScanStarts == ASSUME NEW mh, NEW size \in Nat \ {0} PROVE Scanned(mh, size, 0, ScanStart)
<1>1. \A q \in FreeRuns(mh) : ~(q[2] < 0)
  BY RunsAre, NAssumption DEF Pages
<1> QED
  BY <1>1, NAssumption DEF Scanned, ScanStart, RunAt, BestBefore

LEMMA ScanSteps ==
  ASSUME NEW mh, NEW size \in Nat \ {0}, NEW i \in 0..N - 1, NEW s, Scanned(mh, size, i, s)
  PROVE  Scanned(mh, size, i + 1, ScanPage(mh, s, i + 1, size))
<1> DEFINE t == ScanPage(mh, s, i + 1, size)
           j == i + 1
<1>1. /\ i \in Nat /\ j \in Pages /\ j \in Nat /\ N \in Nat /\ j - 1 = i
      /\ s \in [first : Nat, best : Nat, bestFirst : Nat, found : Nat]
  BY NAssumption DEF Scanned, Pages
<1>2. CASE s.found # 0
  <2>1. t = s
    BY <1>2 DEF ScanPage
  <2> QED
    BY <1>2, <2>1 DEF Scanned
<1>3. ASSUME s.found = 0
      PROVE  Scanned(mh, size, j, t)
  <2>1. RunAt(mh, i, s.first) /\ BestBefore(mh, size, i, s.bestFirst, s.best)
    BY <1>3 DEF Scanned
  <2>2. ASSUME s.first = 0 \/ mh[j] = 0
        PROVE  BestBefore(mh, size, j, s.bestFirst, s.best)
    <3>1. \A q \in FreeRuns(mh) : q[2] # i
      <4> SUFFICES ASSUME NEW q \in FreeRuns(mh), q[2] = i
                   PROVE  FALSE
        OBVIOUS
      <4>1. i \in Pages /\ mh[i] = 0 /\ (i = N \/ mh[i + 1] # 0)
        BY RunsAre, NAssumption DEF Pages
      <4>2. s.first # 0
        BY <2>1, <4>1, NAssumption DEF RunAt, Pages
      <4> QED
        BY <1>1, <2>2, <4>1, <4>2 DEF Pages
    <3> QED
      BY <1>1, <2>1, <3>1, SameRuns
  <2>3. CASE s.first = 0 /\ mh[j] = 0
    <3>1. t = [s EXCEPT !.first = j]
      BY <1>3, <2>3 DEF ScanPage
    <3>2. /\ t.first = j /\ t.best = s.best /\ t.bestFirst = s.bestFirst /\ t.found = 0
          /\ t \in [first : Nat, best : Nat, bestFirst : Nat, found : Nat]
      BY <1>1, <1>3, <3>1
    <3>3. RunAt(mh, j, j)
      BY <1>1, <2>1, <2>3 DEF RunAt
    <3> HIDE DEF t, j
    <3> QED
      BY <2>2, <2>3, <3>2, <3>3 DEF Scanned
  <2>4. CASE s.first = 0 /\ mh[j] # 0
    <3>1. t = s
      BY <1>3, <2>4 DEF ScanPage
    <3>2. RunAt(mh, j, s.first)
      BY <2>4 DEF RunAt
    <3> HIDE DEF t, j
    <3> QED
      BY <1>1, <1>3, <2>2, <2>4, <3>1, <3>2 DEF Scanned
  <2>5. CASE s.first # 0 /\ mh[j] = 0
    <3>1. t = s
      BY <1>3, <2>5 DEF ScanPage
    <3>2. RunAt(mh, j, s.first)
      <4>1. s.first \in 1..i /\ \A p \in s.first..i : mh[p] = 0
            /\ (s.first = 1 \/ mh[s.first - 1] # 0)
        BY <2>1, <2>5 DEF RunAt
      <4>2. \A p \in s.first..j : p = j \/ p \in s.first..i
        BY <1>1, <4>1
      <4>3. s.first \in 1..j
        BY <1>1, <4>1
      <4> QED
        BY <2>5, <4>1, <4>2, <4>3 DEF RunAt
    <3> HIDE DEF t, j
    <3> QED
      BY <1>1, <1>3, <2>2, <2>5, <3>1, <3>2 DEF Scanned
  <2>6. CASE s.first # 0 /\ mh[j] # 0
    <3> DEFINE r == <<s.first, i>>
    <3>1. s.first \in 1..i /\ i \in Pages
      BY <1>1, <2>1, <2>6, NAssumption DEF RunAt, Pages
    <3>2. /\ r \in FreeRuns(mh) /\ RunLen(r) = i - s.first + 1
          /\ \A q \in FreeRuns(mh) : q[2] = i => q = r
      BY <2>1, <2>6, <3>1, RunEnds
    <3>3. /\ r[1] = s.first /\ r[2] = i /\ RunLen(r) = j - s.first /\ RunLen(r) \in Nat
      BY <1>1, <3>1, <3>2, RunLengths
    <3>4. t = EndOfRun(s, j, size)
      BY <1>3, <2>6 DEF ScanPage
    <3>5. RunAt(mh, j, 0)
      BY <2>6 DEF RunAt
    <3> DEFINE n == RunLen(r)
    <3>6. j - s.first = n
      BY <3>3
    <3> HIDE DEF r, t, n
    <3>7. CASE n = size
      <4>1. t = [s EXCEPT !.found = s.first]
        BY <3>4, <3>6, <3>7 DEF EndOfRun
      <4>2. t.found = s.first /\ t \in [first : Nat, best : Nat, bestFirst : Nat, found : Nat]
        BY <1>1, <4>1
      <4>3. FirstShortest(mh, size, r[1])
        BY <1>1, <2>1, <3>2, <3>3, <3>7, ExactFit DEF n
      <4> QED
        BY <2>6, <3>3, <4>2, <4>3 DEF Scanned
    <3>8. CASE n # size
      <4>1. IF n > size /\ n < s.best
            THEN BestBefore(mh, size, j, r[1], n)
            ELSE BestBefore(mh, size, j, s.bestFirst, s.best)
        BY <1>1, <2>1, <3>2, <3>3, <3>8, RunAdded DEF n
      <4>2. CASE n > size /\ n < s.best
        <5>1. t = [s EXCEPT !.best = n, !.bestFirst = s.first, !.first = 0]
          BY <3>4, <3>6, <3>8, <4>2 DEF EndOfRun
        <5>2. /\ t.best = n /\ t.bestFirst = s.first /\ t.first = 0 /\ t.found = 0
              /\ t \in [first : Nat, best : Nat, bestFirst : Nat, found : Nat]
          BY <1>1, <1>3, <3>3, <5>1 DEF n
        <5> QED
          BY <3>3, <3>5, <4>1, <4>2, <5>2 DEF Scanned
      <4>3. CASE ~(n > size /\ n < s.best)
        <5>1. t = [s EXCEPT !.first = 0]
          BY <3>4, <3>6, <3>8, <4>3 DEF EndOfRun
        <5>2. /\ t.best = s.best /\ t.bestFirst = s.bestFirst /\ t.first = 0 /\ t.found = 0
              /\ t \in [first : Nat, best : Nat, bestFirst : Nat, found : Nat]
          BY <1>1, <1>3, <5>1
        <5> QED
          BY <3>5, <4>1, <4>3, <5>2 DEF Scanned
      <4> QED
        BY <4>2, <4>3
    <3> QED
      BY <3>7, <3>8
  <2> QED
    BY <2>3, <2>4, <2>5, <2>6
<1> QED
  BY <1>2, <1>3

\* What is left at the end of the array is a run like any other.
LEMMA ScanEnds ==
  ASSUME NEW mh, NEW size \in Nat \ {0}, NEW s, Scanned(mh, size, N, s)
  PROVE  FirstShortest(mh, size, FinalBlock(s, size))
<1>1. /\ size \in Nat \ {0} /\ N \in Nat /\ N # 0 /\ N \in Pages
      /\ s \in [first : Nat, best : Nat, bestFirst : Nat, found : Nat]
  BY NAssumption DEF Scanned, Pages
<1>2. CASE s.found # 0
  BY <1>2 DEF Scanned, FinalBlock
<1>3. ASSUME s.found = 0
      PROVE  FirstShortest(mh, size, FinalBlock(s, size))
  <2>1. RunAt(mh, N, s.first) /\ BestBefore(mh, size, N, s.bestFirst, s.best)
    BY <1>3 DEF Scanned
  <2>2. \A q \in FreeRuns(mh) : q[2] \in Nat /\ q[2] <= N /\ RunLen(q) \in Nat
    BY RunsAre, RunLengths, NAssumption DEF Pages
  <2>3. ASSUME NEW a, NEW b, BestBefore(mh, size, N + 1, a, b)
        PROVE  FirstShortest(mh, size, a)
    <3>1. \A q \in FreeRuns(mh) : q[2] < N + 1
      BY <1>1, <2>2
    <3>2. CASE a = 0 /\ b = N + 2 /\ \A q \in FreeRuns(mh) : q[2] < N + 1 => RunLen(q) < size
      BY <3>1, <3>2 DEF FirstShortest
    <3>3. CASE \E r \in FreeRuns(mh) :
                /\ r[2] < N + 1 /\ r[1] = a /\ RunLen(r) = b /\ b > size
                /\ \A q \in FreeRuns(mh) : q[2] < N + 1 /\ RunLen(q) >= size =>
                     b < RunLen(q) \/ (b = RunLen(q) /\ a <= q[1])
      <4>1. PICK r \in FreeRuns(mh) :
                /\ r[1] = a /\ RunLen(r) = b /\ b > size
                /\ \A q \in FreeRuns(mh) : q[2] < N + 1 /\ RunLen(q) >= size =>
                     b < RunLen(q) \/ (b = RunLen(q) /\ a <= q[1])
        BY <3>3
      <4>2. RunLen(r) >= size
        BY <1>1, <2>2, <4>1
      <4> QED
        BY <3>1, <4>1, <4>2 DEF FirstShortest
    <3> QED
      BY <2>3, <3>2, <3>3 DEF BestBefore
  <2>4. CASE s.first = 0
    <3>1. FinalBlock(s, size) = s.bestFirst
      BY <1>3, <2>4 DEF FinalBlock
    <3>2. \A q \in FreeRuns(mh) : q[2] # N
      BY <1>1, <2>1, <2>4, RunsAre DEF RunAt
    <3>3. BestBefore(mh, size, N + 1, s.bestFirst, s.best)
      BY <1>1, <2>1, <3>2, SameRuns
    <3> QED
      BY <2>3, <3>1, <3>3
  <2>5. CASE s.first # 0
    <3> DEFINE r == <<s.first, N>>
    <3>1. /\ r \in FreeRuns(mh) /\ RunLen(r) = N - s.first + 1
          /\ \A q \in FreeRuns(mh) : q[2] = N => q = r
      BY <1>1, <2>1, <2>5, RunEnds
    <3>2. r[1] = s.first /\ r[2] = N /\ RunLen(r) \in Nat
      BY <3>1, <2>2
    <3> DEFINE n == RunLen(r)
    <3>3. N + 1 - s.first = n /\ n \in Nat
      BY <1>1, <3>1, <3>2
    <3> HIDE DEF r, n
    <3>4. FinalBlock(s, size) = IF n >= size /\ n < s.best THEN s.first ELSE s.bestFirst
      BY <1>3, <2>5, <3>3 DEF FinalBlock
    <3>5. CASE n = size
      <4>1. FirstShortest(mh, size, s.first)
        BY <1>1, <2>1, <3>1, <3>2, <3>5, ExactFit DEF n
      <4>2. n < s.best
        <5>1. s.best = N + 2 \/ s.best > size
          BY <2>1 DEF BestBefore
        <5>2. n <= N
          BY <1>1, <3>1, <3>2, RunsAre DEF n, RunLen, Pages
        <5> QED
          BY <1>1, <3>5, <5>1, <5>2
      <4> QED
        BY <1>1, <3>4, <3>5, <4>1, <4>2
    <3>6. CASE n # size
      <4>1. IF n > size /\ n < s.best
            THEN BestBefore(mh, size, N + 1, s.first, n)
            ELSE BestBefore(mh, size, N + 1, s.bestFirst, s.best)
        BY <1>1, <2>1, <3>1, <3>2, <3>6, RunAdded DEF n
      <4>2. CASE n > size /\ n < s.best
        BY <1>1, <2>3, <3>3, <3>4, <4>1, <4>2
      <4>3. CASE ~(n > size /\ n < s.best)
        <5>1. ~(n >= size /\ n < s.best)
          BY <1>1, <3>3, <3>6, <4>3
        <5> QED
          BY <2>3, <3>4, <4>1, <4>3, <5>1
      <4> QED
        BY <4>2, <4>3
    <3> QED
      BY <3>5, <3>6
  <2> QED
    BY <2>4, <2>5
<1> QED
  BY <1>2, <1>3

\* The function that BestMatch defines exists.
LEMMA ScanFunction ==
  ASSUME NEW mh, NEW size
  PROVE  \E f : /\ f = [i \in 0..N |-> IF i = 0 THEN ScanStart
                                        ELSE ScanPage(mh, f[i - 1], i, size)]
               /\ BestMatch(mh, size) = FinalBlock(f[N], size)
<1> DEFINE Next1(s, i) == ScanPage(mh, s, i, size)
           Step(f, i) == IF i = 0 THEN ScanStart ELSE Next1(f[i - 1], i)
           UpTo(n) == \E f : f = [i \in 0..n |-> Step(f, i)]
           good == {n \in Nat : UpTo(n)}
<1> HIDE DEF Next1
<1>1. UpTo(0)
  <2>1. [i \in 0..0 |-> ScanStart] = [i \in 0..0 |-> Step([k \in 0..0 |-> ScanStart], i)]
    OBVIOUS
  <2> QED
    BY <2>1
<1>2. ASSUME NEW n \in Nat, UpTo(n)
      PROVE  UpTo(n + 1)
  <2>1. PICK f : f = [i \in 0..n |-> Step(f, i)]
    BY <1>2
  <2> DEFINE g == [i \in 0..n + 1 |-> IF i = n + 1 THEN Step(f, n + 1) ELSE f[i]]
  <2>2. \A i \in 0..n : g[i] = f[i]
    OBVIOUS
  <2>3. \A i \in 0..n + 1 : Step(g, i) = Step(f, i)
    <3> HIDE DEF g
    <3>1. \A i \in 0..n + 1 : i = 0 \/ g[i - 1] = f[i - 1]
      BY <2>2
    <3> QED
      BY <3>1
  <2>4. \A i \in 0..n : f[i] = Step(f, i)
    <3> HIDE DEF Step
    <3> QED
      BY <2>1
  <2>5. \A i \in 0..n + 1 : g[i] = Step(g, i)
    <3> HIDE DEF Step
    <3> QED
      BY <2>3, <2>4
  <2>6. g = [i \in 0..n + 1 |-> Step(g, i)]
    <3> HIDE DEF Step
    <3> QED
      BY <2>5
  <2> QED
    BY <2>6
<1>3. good = Nat
  <2> HIDE DEF UpTo
  <2>1. good \in SUBSET Nat /\ 0 \in good /\ \A n \in good : n + 1 \in good
    BY <1>1, <1>2
  <2> HIDE DEF good
  <2> QED
    BY <2>1, Induction
<1>4. UpTo(N)
  <2> HIDE DEF UpTo
  <2> QED
    BY <1>3, NAssumption
<1> DEFINE h == CHOOSE f : f = [i \in 0..N |-> Step(f, i)]
<1>5. h = [i \in 0..N |-> Step(h, i)]
  <2> HIDE DEF Step
  <2> QED
    BY <1>4
<1>6. BestMatch(mh, size) = FinalBlock(h[N], size)
  BY DEF BestMatch, Next1
<1>7. h = [i \in 0..N |-> IF i = 0 THEN ScanStart ELSE ScanPage(mh, h[i - 1], i, size)]
  BY <1>5 DEF Next1
<1> HIDE DEF h
<1> QED
  BY <1>6, <1>7

LEMMA BestMatchIs ==
  ASSUME NEW mh, NEW size \in Nat \ {0}
  PROVE  /\ FirstShortest(mh, size, BestMatch(mh, size))
         /\ BestMatch(mh, size) = ShortestFit(mh, size)
<1>1. PICK f : /\ f = [i \in 0..N |-> IF i = 0 THEN ScanStart
                                        ELSE ScanPage(mh, f[i - 1], i, size)]
               /\ BestMatch(mh, size) = FinalBlock(f[N], size)
  BY ScanFunction
<1>2. N \in Nat /\ size \in Nat \ {0}
  BY NAssumption
<1>3. f[0] = ScanStart /\ \A i \in 0..N - 1 : f[i + 1] = ScanPage(mh, f[i], i + 1, size)
  <2>1. f[0] = ScanStart
    BY <1>1, <1>2
  <2>2. ASSUME NEW i \in 0..N - 1
        PROVE  f[i + 1] = ScanPage(mh, f[i], i + 1, size)
    <3>1. i + 1 \in 0..N /\ i + 1 # 0 /\ (i + 1) - 1 = i
      BY <1>2
    <3> QED
      BY <1>1, <3>1
  <2> QED
    BY <2>1, <2>2
<1> DEFINE good == {n \in Nat : n <= N => Scanned(mh, size, n, f[n])}
<1>4. good = Nat
  <2>1. good \in SUBSET Nat /\ 0 \in good
    BY <1>2, <1>3, ScanStarts
  <2>2. ASSUME NEW n \in good
        PROVE  n + 1 \in good
    <3> SUFFICES ASSUME n + 1 <= N
                 PROVE  Scanned(mh, size, n + 1, f[n + 1])
      OBVIOUS
    <3>1. n \in 0..N - 1 /\ Scanned(mh, size, n, f[n])
      BY <1>2
    <3> QED
      BY <1>2, <1>3, <3>1, ScanSteps
  <2> HIDE DEF good
  <2> QED
    BY <2>1, <2>2, Induction
<1>5. Scanned(mh, size, N, f[N])
  <2>1. N \in good
    <3> HIDE DEF good
    <3> QED
      BY <1>2, <1>4
  <2> QED
    BY <2>1
<1>6. FirstShortest(mh, size, BestMatch(mh, size))
  BY <1>1, <1>5, ScanEnds
<1> QED
  BY <1>2, <1>6, ShortestIs

-----------------------------------------------------------------------------
(* Blocks in the array *)

Spare == <<"spare", 0>>

\* Whoever has a block; the spare one stands for a block that is being moved to.
Holders == {Spare} \cup ({"xms"} \X XmsIds) \cup ({"ems"} \X EmsIds)
                   \cup ({"vcpi"} \X (1..Beyond))

Distinct(s) == s \in Seq(1..Beyond) /\ \A j, k \in 1..Len(s) : s[j] = s[k] => j = k

\* The word of the k-th page of a block with pages s.
LinkAt(s, k) == IF k < Len(s) THEN s[k + 1] ELSE EndOfBlock

Linked(mh, s) == \A k \in 1..Len(s) : mh[s[k]] = LinkAt(s, k)

\* Every holder o has the block B[o] to itself, and all other words are zero, but
\* for the word behind the array.
Layout(mh, B) ==
  /\ mh \in [1..Beyond -> Words]
  /\ DOMAIN B = Holders
  /\ \A o \in Holders : Distinct(B[o]) /\ Linked(mh, B[o])
  /\ \A o, q \in Holders : o # q => PagesIn(B[o]) \cap PagesIn(B[q]) = {}
  /\ \A p \in 1..Beyond : \/ mh[p] = 0
                          \/ \E o \in Holders : p \in PagesIn(B[o])
                          \/ p = Beyond /\ mh[p] = EndOfBlock

\* What a sequence of words of the array is, as facts the leaves below can use.
LEMMA InBlock ==
  ASSUME NEW s \in Seq(1..Beyond)
  PROVE  /\ Len(s) \in Nat /\ DOMAIN s = 1..Len(s)
         /\ \A k \in 1..Len(s) :
              s[k] \in 1..Beyond /\ s[k] \in Nat /\ s[k] > 0 /\ s[k] \in PagesIn(s)
         /\ \A p \in PagesIn(s) : p \in 1..Beyond /\ \E k \in 1..Len(s) : s[k] = p
         /\ s # <<>> => 1 \in 1..Len(s) /\ Len(s) \in 1..Len(s)
         /\ s = <<>> <=> Len(s) = 0
<1>1. Len(s) \in Nat /\ DOMAIN s = 1..Len(s) /\ s \in [1..Len(s) -> 1..Beyond]
  BY LenProperties
<1>2. s = <<>> <=> Len(s) = 0
  BY EmptySeq, <1>1
<1>3. Beyond \in Nat
  BY NAssumption DEF Beyond
<1> QED
  BY <1>1, <1>2, <1>3 DEF PagesIn

\* A function on 1..n is a sequence of length n.
LEMMA SeqOf ==
  ASSUME NEW S, NEW n \in Nat, NEW f \in [1..n -> S]
  PROVE  f \in Seq(S) /\ Len(f) = n
<1>1. f \in Seq(S)
  BY SeqDef
<1>2. Len(f) \in Nat /\ 1..Len(f) = 1..n
  BY <1>1, LenProperties
<1> QED
  BY <1>1, <1>2

\* A link of a block is a word of the array, and never zero.
LEMMA LinkWords ==
  ASSUME NEW s, Distinct(s), NEW k \in 1..Len(s)
  PROVE  LinkAt(s, k) \in Words /\ LinkAt(s, k) # 0
<1>1. Len(s) \in Nat /\ \A j \in 1..Len(s) : s[j] \in 1..Beyond
  BY InBlock DEF Distinct
<1>2. Beyond \in Nat
  BY NAssumption DEF Beyond
<1>3. CASE k < Len(s)
  <2>1. k + 1 \in 1..Len(s)
    BY <1>1, <1>3
  <2> QED
    BY <1>1, <1>2, <1>3, <2>1 DEF LinkAt, Words
<1>4. CASE ~(k < Len(s))
  BY <1>4 DEF LinkAt, Words, EndOfBlock
<1> QED
  BY <1>3, <1>4

-----------------------------------------------------------------------------
(* The walk along a block *)

\* The function that Chain defines.
Walks(f, mh) == f = [w \in Words |-> IF w > 0 THEN <<w>> \o f[mh[w]] ELSE <<>>]

\* What is left of its block from page w on.
LEMMA WalkExists ==
  ASSUME NEW mh, NEW B, Layout(mh, B)
  PROVE  \E f : Walks(f, mh)
<1> DEFINE Is(w, o, k) == o \in Holders /\ k \in 1..Len(B[o]) /\ B[o][k] = w
           held(w) == \E o, k : Is(w, o, k)
           own(w) == CHOOSE o : \E k : Is(w, o, k)
           place(w) == CHOOSE k : Is(w, own(w), k)
           rest(w) == SubSeq(B[own(w)], place(w), Len(B[own(w)]))
           g == [w \in Words |-> IF w > 0 THEN IF held(w) THEN rest(w) ELSE <<w>>
                                 ELSE <<>>]
<1>1. ASSUME NEW o \in Holders
      PROVE  B[o] \in Seq(1..Beyond) /\ Len(B[o]) \in Nat
             /\ \A k \in 1..Len(B[o]) : B[o][k] \in PagesIn(B[o])
    BY InBlock DEF Layout, Distinct
<1>2. ASSUME NEW w, NEW o, NEW k, Is(w, o, k)
      PROVE  rest(w) = SubSeq(B[o], k, Len(B[o]))
  <2>1. \E j : Is(w, own(w), j)
    <3>1. \E q : \E j : Is(w, q, j)
      BY <1>2
    <3> HIDE DEF Is
    <3> QED
      BY <3>1
  <2>2. Is(w, own(w), place(w))
    <3> HIDE DEF Is, own
    <3> QED
      BY <2>1
  <2> HIDE DEF own, place
  <2>3. own(w) = o
    BY <1>1, <1>2, <2>2 DEF Layout
  <2>4. place(w) = k
    BY <1>2, <2>2, <2>3 DEF Layout, Distinct
  <2> QED
    BY <2>3, <2>4
<1>3. 0 \in Words /\ EndOfBlock \in Words /\ g[0] = <<>> /\ g[EndOfBlock] = <<>>
  BY DEF Words, EndOfBlock
<1>4. ASSUME NEW w \in Words, w > 0
      PROVE  g[w] = <<w>> \o g[mh[w]]
  <2>1. w \in 1..Beyond /\ mh[w] \in Words /\ w \in Nat
    BY <1>4, NAssumption DEF Words, Layout, EndOfBlock, Beyond
  <2>2. <<w>> = <<w>> \o <<>>
    OBVIOUS
  <2>3. CASE ~held(w)
    <3>1. mh[w] \in {0, EndOfBlock}
      <4>1. ~\E o \in Holders : w \in PagesIn(B[o])
        <5> SUFFICES ASSUME NEW o \in Holders, w \in PagesIn(B[o])
                     PROVE  FALSE
          OBVIOUS
        <5>1. \E k \in 1..Len(B[o]) : B[o][k] = w
          BY InBlock DEF Layout, Distinct
        <5> QED
          BY <2>3, <5>1
      <4> QED
        BY <2>1, <4>1 DEF Layout
    <3>2. g[w] = <<w>>
      BY <1>4, <2>3
    <3> HIDE DEF g
    <3> QED
      BY <1>3, <2>2, <3>1, <3>2
  <2>4. CASE held(w)
    <3>1. PICK o, k : Is(w, o, k)
      BY <2>4
    <3> DEFINE s == B[o]
    <3>2. s \in Seq(1..Beyond) /\ Len(s) \in Nat /\ k \in 1..Len(s) /\ s[k] = w
          /\ mh[w] = LinkAt(s, k)
      BY <1>1, <3>1 DEF Layout, Linked
    <3>3. g[w] = SubSeq(s, k, Len(s))
      <4>1. g[w] = rest(w)
        BY <1>4, <2>4
      <4> HIDE DEF g, rest
      <4> QED
        BY <1>2, <3>1, <4>1
    <3>4. SubSeq(s, k, Len(s)) = <<w>> \o SubSeq(s, k + 1, Len(s))
      <4>1. Len(s) \in k..Len(s)
        BY <3>2
      <4> QED
        BY <3>2, <4>1, SubSeqRecursiveFirst
    <3>5. CASE k < Len(s)
      <4>1. Is(s[k + 1], o, k + 1) /\ mh[w] = s[k + 1] /\ s[k + 1] \in 1..Beyond
        BY <3>1, <3>2, <3>5, InBlock DEF LinkAt
      <4>2. g[s[k + 1]] = rest(s[k + 1])
        <5>1. held(s[k + 1])
          <6> HIDE DEF Is
          <6> QED
            BY <4>1
        <5>2. s[k + 1] \in Words /\ s[k + 1] > 0
          BY <4>1, NAssumption DEF Words, Beyond
        <5> HIDE DEF Is, rest, held
        <5> QED
          BY <5>1, <5>2
      <4>3. rest(s[k + 1]) = SubSeq(s, k + 1, Len(s))
        <5> HIDE DEF rest
        <5> QED
          BY <1>2, <4>1
      <4> HIDE DEF g, rest, Is
      <4> QED
        BY <3>3, <3>4, <4>1, <4>2, <4>3
    <3>6. CASE ~(k < Len(s))
      <4>1. mh[w] = EndOfBlock
        BY <3>2, <3>6 DEF LinkAt
      <4>2. SubSeq(s, k + 1, Len(s)) = <<>>
        BY <3>2, <3>6, SubSeqEmpty
      <4> HIDE DEF g
      <4> QED
        BY <1>3, <3>3, <3>4, <4>1, <4>2
    <3> QED
      BY <3>5, <3>6
  <2> QED
    BY <2>3, <2>4
<1>5. Walks(g, mh)
  <2>1. \A w \in Words : g[w] = IF w > 0 THEN <<w>> \o g[mh[w]] ELSE <<>>
    <3>1. \A w \in Words : ~(w > 0) => g[w] = <<>>
      OBVIOUS
    <3> HIDE DEF g
    <3> QED
      BY <1>4, <3>1
  <2>2. g = [w \in Words |-> g[w]]
    OBVIOUS
  <2> HIDE DEF g
  <2> QED
    BY <2>1, <2>2 DEF Walks
<1> HIDE DEF g
<1> QED
  BY <1>5

\* Chain is a walk: the recursive function of its definition exists.
LEMMA ChainWalks ==
  ASSUME NEW mh, NEW B, Layout(mh, B)
  PROVE  \E f : Walks(f, mh) /\ \A h : Chain(mh, h) = f[h]
<1> DEFINE f == CHOOSE f : f = [w \in Words |-> IF w > 0 THEN <<w>> \o f[mh[w]] ELSE <<>>]
<1>1. Walks(f, mh)
  BY WalkExists DEF Walks
<1>2. \A h : Chain(mh, h) = f[h]
  BY DEF Chain
<1> HIDE DEF f
<1> QED
  BY <1>1, <1>2

\* The handles of no block, 0 and -1, lead nowhere.
LEMMA ChainNone ==
  ASSUME NEW mh, NEW B, Layout(mh, B), NEW h \in {0, EndOfBlock}
  PROVE  Chain(mh, h) = <<>>
<1>1. PICK f : Walks(f, mh) /\ \A w : Chain(mh, w) = f[w]
  BY ChainWalks
<1>2. h \in Words /\ ~(h > 0)
  BY DEF Words, EndOfBlock
<1> QED
  BY <1>1, <1>2 DEF Walks

\* The walk from the first page of a block visits the block.
LEMMA ChainIs ==
  ASSUME NEW mh, NEW B, Layout(mh, B), NEW o \in Holders, B[o] # <<>>
  PROVE  Chain(mh, B[o][1]) = B[o]
<1> DEFINE s == B[o]
           n == Len(s)
<1>1. PICK f : Walks(f, mh) /\ \A w : Chain(mh, w) = f[w]
  BY ChainWalks
<1>2. /\ s \in Seq(1..Beyond) /\ n \in Nat /\ n # 0 /\ \A k \in 1..n : s[k] \in 1..Beyond
      /\ \A k \in 1..n : mh[s[k]] = LinkAt(s, k)
  BY InBlock DEF Layout, Distinct, Linked
<1>3. \A k \in 1..n : f[s[k]] = <<s[k]>> \o f[mh[s[k]]]
  <2>1. \A k \in 1..n : s[k] \in Words /\ s[k] > 0
    BY <1>2, NAssumption DEF Words, Beyond
  <2> HIDE DEF s, n
  <2> QED
    BY <1>1, <2>1 DEF Walks
<1>4. f[EndOfBlock] = <<>>
  BY <1>1 DEF Walks, Words, EndOfBlock
<1> DEFINE good == {m \in Nat : m < n => f[s[n - m]] = SubSeq(s, n - m, n)}
<1> HIDE DEF s, n
<1>5. 0 \in good
  <2>1. n \in 1..n /\ n - 0 = n
    BY <1>2
  <2>2. LinkAt(s, n) = EndOfBlock
    BY <1>2 DEF LinkAt, n
  <2>3. f[s[n]] = <<s[n]>> \o f[EndOfBlock]
    BY <1>2, <1>3, <2>1, <2>2
  <2>4. SubSeq(s, n, n) = <<s[n]>> \o SubSeq(s, n + 1, n)
    <3>1. n \in 1..Len(s) /\ n \in n..Len(s)
      BY <1>2, <2>1 DEF n
    <3> QED
      BY <1>2, <3>1, SubSeqRecursiveFirst
  <2>5. SubSeq(s, n + 1, n) = <<>>
    BY <1>2, SubSeqEmpty
  <2> QED
    BY <1>2, <1>4, <2>1, <2>3, <2>4, <2>5
<1>6. ASSUME NEW m \in good
      PROVE  m + 1 \in good
  <2> SUFFICES ASSUME m + 1 < n
               PROVE  f[s[n - (m + 1)]] = SubSeq(s, n - (m + 1), n)
    OBVIOUS
  <2> DEFINE k == n - (m + 1)
  <2>1. k \in 1..n /\ k + 1 \in 1..n /\ k < n /\ n - m = k + 1 /\ m < n
    BY <1>2
  <2>2. f[s[k + 1]] = SubSeq(s, k + 1, n)
    BY <1>2, <2>1
  <2> HIDE DEF k
  <2>3. f[s[k]] = <<s[k]>> \o f[s[k + 1]]
    BY <1>2, <1>3, <2>1 DEF LinkAt, n
  <2>4. SubSeq(s, k, n) = <<s[k]>> \o SubSeq(s, k + 1, n)
    <3>1. k \in 1..Len(s) /\ n \in k..Len(s)
      BY <1>2, <2>1 DEF n
    <3> QED
      BY <1>2, <3>1, SubSeqRecursiveFirst
  <2> QED
    BY <2>2, <2>3, <2>4 DEF k
<1>7. good = Nat
  <2>1. good \in SUBSET Nat
    OBVIOUS
  <2> HIDE DEF good
  <2> QED
    BY <1>5, <1>6, <2>1, Induction
<1>8. n - 1 \in good /\ n - 1 < n /\ n - (n - 1) = 1
  <2> HIDE DEF good
  <2> QED
    BY <1>2, <1>7
<1>9. f[s[1]] = SubSeq(s, 1, n)
  BY <1>8
<1>10. SubSeq(s, 1, n) = s
  BY <1>2, SubSeqFull DEF n
<1> QED
  BY <1>1, <1>9, <1>10 DEF s


-----------------------------------------------------------------------------
(* A block that changes *)

\* The array when the block s has become t, whose other pages were free.
Relinks(mh, new, s, t) ==
  /\ new \in [1..Beyond -> Words]
  /\ Distinct(t) /\ Linked(new, t)
  /\ \A p \in PagesIn(t) : p \in PagesIn(s) \/ mh[p] = 0
  /\ \A p \in (1..Beyond) \ PagesIn(t) : new[p] = IF p \in PagesIn(s) THEN 0 ELSE mh[p]

\* The word of a page of a block is not zero.
LEMMA HeldNotFree ==
  ASSUME NEW mh, NEW s, Distinct(s), Linked(mh, s), NEW p \in PagesIn(s)
  PROVE  p \in 1..Beyond /\ mh[p] # 0 /\ mh[p] \in Words
<1>1. PICK k \in 1..Len(s) : s[k] = p
  BY InBlock DEF Distinct
<1>2. mh[p] = LinkAt(s, k) /\ p \in 1..Beyond
  BY <1>1, InBlock DEF Linked, Distinct
<1> QED
  BY <1>2, LinkWords

\* When one holder's block changes, all others stay where they are.
LEMMA Relaid ==
  ASSUME NEW mh, NEW B, Layout(mh, B), NEW o \in Holders, NEW new, NEW t,
         Relinks(mh, new, B[o], t)
  PROVE  Layout(new, [B EXCEPT ![o] = t])
<1> DEFINE C == [B EXCEPT ![o] = t]
<1>1. /\ DOMAIN C = Holders /\ C[o] = t /\ \A q \in Holders : q # o => C[q] = B[q]
  BY DEF Layout
<1>2. \A q \in Holders : Distinct(B[q]) /\ Linked(mh, B[q])
  BY DEF Layout
<1>3. ASSUME NEW q \in Holders, q # o, NEW p \in PagesIn(B[q])
      PROVE  p \notin PagesIn(t) /\ p \in 1..Beyond /\ new[p] = mh[p]
  <2>1. p \notin PagesIn(B[o]) /\ p \in 1..Beyond /\ mh[p] # 0
    BY <1>2, <1>3, HeldNotFree DEF Layout
  <2> QED
    BY <2>1 DEF Relinks
<1> HIDE DEF C
<1>4. ASSUME NEW q \in Holders
      PROVE  Distinct(C[q]) /\ Linked(new, C[q])
  <2>1. CASE q = o
    BY <1>1, <2>1 DEF Relinks
  <2>2. CASE q # o
    <3>1. \A k \in 1..Len(B[q]) : B[q][k] \in PagesIn(B[q])
      BY <1>2, InBlock DEF Distinct
    <3>2. Linked(new, B[q])
      BY <1>2, <1>3, <2>2, <3>1 DEF Linked
    <3> QED
      BY <1>1, <1>2, <2>2, <3>2
  <2> QED
    BY <2>1, <2>2
<1>5. ASSUME NEW q \in Holders, NEW r \in Holders, q # r
      PROVE  PagesIn(C[q]) \cap PagesIn(C[r]) = {}
  <2>1. CASE q = o
    BY <1>1, <1>3, <1>5, <2>1
  <2>2. CASE r = o
    BY <1>1, <1>3, <1>5, <2>2
  <2>3. CASE q # o /\ r # o
    BY <1>1, <1>5, <2>3 DEF Layout
  <2> QED
    BY <2>1, <2>2, <2>3
<1>6. ASSUME NEW p \in 1..Beyond
      PROVE  \/ new[p] = 0
             \/ \E q \in Holders : p \in PagesIn(C[q])
             \/ p = Beyond /\ new[p] = EndOfBlock
  <2>1. CASE p \in PagesIn(t)
    BY <1>1, <2>1
  <2>2. CASE p \notin PagesIn(t) /\ p \in PagesIn(B[o])
    BY <2>2 DEF Relinks
  <2>3. CASE p \notin PagesIn(t) /\ p \notin PagesIn(B[o])
    <3>1. new[p] = mh[p]
      BY <2>3 DEF Relinks
    <3>2. \/ mh[p] = 0
          \/ \E q \in Holders : p \in PagesIn(B[q])
          \/ p = Beyond /\ mh[p] = EndOfBlock
      BY DEF Layout
    <3>3. ASSUME NEW q \in Holders, p \in PagesIn(B[q])
          PROVE  p \in PagesIn(C[q])
      BY <1>1, <2>3, <3>3
    <3> QED
      BY <3>1, <3>2, <3>3
  <2> QED
    BY <2>1, <2>2, <2>3
<1>7. new \in [1..Beyond -> Words]
  BY DEF Relinks
<1> QED
  BY <1>1, <1>4, <1>5, <1>6, <1>7 DEF Layout, C

\* new has the words of a block with pages s, and all others of mh.
Writes(mh, new, s) ==
  /\ new \in [1..Beyond -> Words]
  /\ Linked(new, s)
  /\ \A p \in (1..Beyond) \ PagesIn(s) : new[p] = mh[p]

\* Link writes the words of the block and no others.
LEMMA LinkIs ==
  ASSUME NEW mh \in [1..Beyond -> Words], NEW s, Distinct(s)
  PROVE  Writes(mh, Link(mh, s), s)
<1> DEFINE at(p) == CHOOSE k \in DOMAIN s : s[k] = p
           new == Link(mh, s)
<1>1. DOMAIN mh = 1..Beyond /\ DOMAIN s = 1..Len(s) /\ Len(s) \in Nat
  BY InBlock DEF Distinct
<1>2. ASSUME NEW p \in 1..Beyond
      PROVE  new[p] = IF p \in PagesIn(s) THEN LinkAt(s, at(p)) ELSE mh[p]
  BY <1>1 DEF Link, LinkAt, PagesIn
<1>3. \A k \in 1..Len(s) : s[k] \in 1..Beyond /\ s[k] \in PagesIn(s) /\ at(s[k]) = k
  BY <1>1, InBlock DEF Distinct
<1>4. \A k \in 1..Len(s) : new[s[k]] = LinkAt(s, k)
  <2> HIDE DEF at, new
  <2> QED
    BY <1>2, <1>3
<1>5. \A p \in PagesIn(s) : \E k \in 1..Len(s) : s[k] = p
  BY InBlock DEF Distinct
<1>6. \A p \in 1..Beyond : new[p] \in Words
  <2> SUFFICES ASSUME NEW p \in 1..Beyond
               PROVE  new[p] \in Words
    OBVIOUS
  <2>1. CASE p \in PagesIn(s)
    <3>1. PICK k \in 1..Len(s) : s[k] = p
      BY <1>5, <2>1
    <3> HIDE DEF new, at
    <3> QED
      BY <1>4, <3>1, LinkWords
  <2>2. CASE p \notin PagesIn(s)
    <3> HIDE DEF new, at
    <3> QED
      BY <1>2, <2>2
  <2> QED
    BY <2>1, <2>2
<1>7. DOMAIN new = 1..Beyond
  BY <1>1 DEF Link
<1>8. new = [p \in 1..Beyond |-> new[p]]
  BY <1>1 DEF Link
<1> HIDE DEF new, at
<1>9. new \in [1..Beyond -> Words]
  BY <1>6, <1>8
<1> QED
  BY <1>2, <1>4, <1>9 DEF Writes, Linked, new

\* A list of free pages for a new block.
Fresh(mh, s) == Distinct(s) /\ \A k \in 1..Len(s) : mh[s[k]] = 0

\* Linking free pages makes a block of them.
LEMMA NewBlock ==
  ASSUME NEW mh \in [1..Beyond -> Words], NEW s, Fresh(mh, s)
  PROVE  Relinks(mh, Link(mh, s), <<>>, s)
<1>1. PagesIn(<<>>) = {}
  BY DEF PagesIn
<1>2. \A p \in PagesIn(s) : mh[p] = 0
  BY InBlock DEF Fresh, Distinct
<1> QED
  BY <1>1, <1>2, LinkIs DEF Relinks, Fresh, Writes

\* The block without pages.
LEMMA NoBlock == Distinct(<<>>) /\ PagesIn(<<>>) = {} /\ Len(<<>>) = 0
  BY EmptySeq DEF Distinct, PagesIn

\* MEM_ReleasePages clears the words of the block that the handle leads through.
LEMMA Released ==
  ASSUME NEW mh, NEW B, Layout(mh, B), NEW o \in Holders, B[o] # <<>>
  PROVE  Relinks(mh, MEM_ReleasePages(mh, B[o][1]), B[o], <<>>)
<1> DEFINE new == MEM_ReleasePages(mh, B[o][1])
           s == B[o]
<1>1. Chain(mh, s[1]) = s
  BY ChainIs
<1>2. DOMAIN mh = 1..Beyond /\ mh \in [1..Beyond -> Words] /\ 0 \in Words
  BY DEF Layout, Words
<1>3. new = [p \in 1..Beyond |-> IF p \in PagesIn(s) THEN 0 ELSE mh[p]]
  BY <1>1, <1>2 DEF MEM_ReleasePages, PagesIn
<1>4. /\ new \in [1..Beyond -> Words]
      /\ \A p \in 1..Beyond : new[p] = IF p \in PagesIn(s) THEN 0 ELSE mh[p]
  <2> HIDE DEF s
  <2> QED
    BY <1>2, <1>3
<1> HIDE DEF new
<1> QED
  BY <1>4, NoBlock DEF Relinks, Linked, new


-----------------------------------------------------------------------------
(* The pages of a request *)

\* Pages in the array, each behind the other.
Neighbours(s) == \A k \in 1..Len(s) : s[k] \in Pages /\ s[k] = s[1] + k - 1

\* One of a set of numbers that is not empty and bounded is the greatest.
LEMMA Greatest ==
  ASSUME NEW S \in SUBSET (1..N), S # {}
  PROVE  \E n \in S : \A m \in S : m <= n
<1> DEFINE D == {N - m : m \in S}
<1>1. N \in Nat /\ \A m \in S : m \in 1..N /\ N - m \in Nat /\ N - (N - m) = m
  BY NAssumption
<1>2. D \in SUBSET Nat /\ D # {}
  BY <1>1
<1>3. PICK d \in D : \A e \in D : d <= e
  <2> HIDE DEF D
  <2> QED
    BY <1>2, Least
<1>4. PICK n \in S : d = N - n
  BY DEF D
<1>5. \A m \in S : N - n <= N - m
  BY <1>3, <1>4
<1> QED
  BY <1>1, <1>5

\* Every free page is in a run.
LEMMA RunOf ==
  ASSUME NEW mh, NEW p \in FreePages(mh)
  PROVE  \E r \in FreeRuns(mh) : p \in r[1]..r[2]
<1> DEFINE L == {x \in 1..p : \A y \in x..p : mh[y] = 0}
           U == {x \in p..N : \A y \in p..x : mh[y] = 0}
<1>1. p \in 1..N /\ mh[p] = 0 /\ N \in Nat
  BY NAssumption DEF FreePages, Pages
<1>2. L \in SUBSET Nat /\ p \in L /\ U \in SUBSET (1..N) /\ p \in U
  <2>1. \A y \in p..p : y = p
    BY <1>1
  <2>2. p \in 1..p /\ p \in p..N /\ \A x \in p..N : x \in 1..N
    BY <1>1
  <2>3. \A x \in 1..p : x \in Nat
    BY <1>1
  <2> QED
    BY <1>1, <2>1, <2>2, <2>3
<1>3. PICK a \in L : \A x \in L : a <= x
  <2> HIDE DEF L
  <2> QED
    BY <1>2, Least
<1>4. PICK b \in U : \A x \in U : x <= b
  <2> HIDE DEF U
  <2> QED
    BY <1>2, Greatest
<1>5. a \in 1..p /\ b \in p..N /\ (\A y \in a..p : mh[y] = 0) /\ (\A y \in p..b : mh[y] = 0)
  BY <1>3, <1>4
<1>6. a \in Pages /\ b \in Pages /\ a <= b /\ p \in a..b
  BY <1>1, <1>5 DEF Pages
<1>7. \A y \in a..b : mh[y] = 0
  <2>1. \A y \in a..b : y \in a..p \/ y \in p..b
    BY <1>1, <1>5
  <2> QED
    BY <1>5, <2>1
<1>8. a = 1 \/ mh[a - 1] # 0
  <2> SUFFICES ASSUME a # 1, mh[a - 1] = 0
               PROVE  FALSE
    OBVIOUS
  <2>1. a - 1 \in 1..p /\ ~(a <= a - 1) /\ \A y \in a - 1..p : y = a - 1 \/ y \in a..p
    BY <1>1, <1>5
  <2>2. a - 1 \in L
    BY <1>5, <2>1
  <2> HIDE DEF L
  <2> QED
    BY <1>3, <2>1, <2>2
<1>9. b = N \/ mh[b + 1] # 0
  <2> SUFFICES ASSUME b # N, mh[b + 1] = 0
               PROVE  FALSE
    OBVIOUS
  <2>1. b + 1 \in p..N /\ ~(b + 1 <= b) /\ \A y \in p..b + 1 : y = b + 1 \/ y \in p..b
    BY <1>1, <1>5
  <2>2. b + 1 \in U
    BY <1>5, <2>1
  <2> HIDE DEF U
  <2> QED
    BY <1>4, <2>1, <2>2
<1>10. <<a, b>> \in FreeRuns(mh)
  BY <1>6, <1>7, <1>8, <1>9, RunIs
<1> QED
  BY <1>6, <1>10

\* A request for neighbours gets free ones.
LEMMA SequencePages ==
  ASSUME NEW mh, NEW n \in Nat, NEW sequence \in BOOLEAN, sequence,
         NEW s, s = PagesFor(mh, n, sequence), s # <<>>
  PROVE  n # 0 /\ Len(s) = n /\ Fresh(mh, s) /\ Neighbours(s)
<1> DEFINE first == BestMatch(mh, n)
<1>1. n # 0 /\ first # 0 /\ s = [k \in 1..n |-> first + k - 1]
  BY DEF PagesFor
<1>2. FirstShortest(mh, n, first)
  BY <1>1, BestMatchIs
<1> HIDE DEF first
<1>3. PICK r \in FreeRuns(mh) : first = r[1] /\ RunLen(r) >= n
  BY <1>1, <1>2 DEF FirstShortest
<1>4. /\ r[1] \in Pages /\ r[2] \in Pages /\ \A p \in r[1]..r[2] : mh[p] = 0
      /\ RunLen(r) = r[2] - r[1] + 1
  BY RunsAre DEF RunLen
<1>5. \A k \in 1..n : first + k - 1 \in Pages /\ mh[first + k - 1] = 0
  <2> SUFFICES ASSUME NEW k \in 1..n
               PROVE  first + k - 1 \in Pages /\ mh[first + k - 1] = 0
    OBVIOUS
  <2>1. first + k - 1 \in r[1]..r[2] /\ first + k - 1 \in Pages
    BY <1>3, <1>4, NAssumption DEF Pages
  <2> QED
    BY <1>4, <2>1
<1>6. first \in Nat /\ \A p \in Pages : p \in 1..Beyond
  BY <1>3, <1>4, NAssumption DEF Pages, Beyond
<1>7. s \in [1..n -> 1..Beyond] /\ \A k \in 1..n : s[k] = first + k - 1
  BY <1>1, <1>5, <1>6
<1>8. s \in Seq(1..Beyond) /\ Len(s) = n
  BY <1>7, SeqOf
<1>9. s[1] = first
  <2>1. 1 \in 1..n /\ first + 1 - 1 = first
    BY <1>1, <1>6
  <2> QED
    BY <1>7, <2>1
<1>10. Distinct(s)
  <2>1. \A j, k \in 1..n : first + j - 1 = first + k - 1 => j = k
    BY <1>6
  <2>2. \A j, k \in 1..n : s[j] = s[k] => j = k
    BY <1>7, <2>1
  <2> QED
    BY <1>8, <2>2 DEF Distinct
<1> QED
  BY <1>1, <1>5, <1>7, <1>8, <1>9, <1>10 DEF Fresh, Neighbours

\* The counted pages are numbers: MEM_FreeTotal is one, and bounds no more than is visited.
LEMMA FreeFinite ==
  ASSUME NEW mh
  PROVE  /\ IsFiniteSet(FreePages(mh)) /\ MEM_FreeTotal(mh) \in Nat
         /\ IsFiniteSet(Visited(mh)) /\ Cardinality(Visited(mh)) \in Nat
         /\ MEM_FreeTotal(mh) <= Cardinality(Visited(mh))
         /\ Visited(mh) \subseteq 1..Beyond /\ \A p \in Visited(mh) : mh[p] = 0
<1>1. N \in Nat /\ \A p \in 1..N : p \in 1..N + 1
  BY NAssumption
<1>2. FreePages(mh) \subseteq 1..Beyond /\ Visited(mh) \subseteq 1..Beyond
      /\ FreePages(mh) \subseteq Visited(mh) /\ \A p \in Visited(mh) : mh[p] = 0
  BY <1>1 DEF FreePages, Visited, Pages, Beyond
<1>3. IsFiniteSet(1..Beyond)
  BY <1>1, FS_Interval DEF Beyond
<1>4. IsFiniteSet(FreePages(mh)) /\ IsFiniteSet(Visited(mh))
  BY <1>2, <1>3, FS_Subset
<1> QED
  BY <1>2, <1>4, FS_Subset, FS_CardinalityType DEF MEM_FreeTotal

TotalOrder(R, S) ==
  /\ \A p, q \in S : <<p, q>> \in R \/ <<q, p>> \in R
  /\ \A p, q \in S : <<p, q>> \in R /\ <<q, p>> \in R => p = q
  /\ \A p, q, r \in S : <<p, q>> \in R /\ <<q, r>> \in R => <<p, r>> \in R

\* At place k is the element that k elements, itself among them, do not follow.
InOrder(s, R, S) ==
  \E place : /\ place = [p \in S |-> Cardinality({q \in S : <<q, p>> \in R})]
             /\ s = [k \in 1..Cardinality(S) |-> CHOOSE p \in S : place[p] = k]

Enumerates(s, S) ==
  /\ s \in Seq(S) /\ Len(s) = Cardinality(S)
  /\ \A j, k \in 1..Len(s) : s[j] = s[k] => j = k

\* Counting who comes before enumerates a finite ordered set.
LEMMA OrderEnumerates ==
  ASSUME NEW S, IsFiniteSet(S), NEW R, TotalOrder(R, S), NEW s, InOrder(s, R, S)
  PROVE  Enumerates(s, S)
<1>0. PICK place : /\ place = [p \in S |-> Cardinality({q \in S : <<q, p>> \in R})]
                   /\ s = [k \in 1..Cardinality(S) |-> CHOOSE p \in S : place[p] = k]
  BY DEF InOrder
<1> DEFINE before(p) == {q \in S : <<q, p>> \in R}
           n == Cardinality(S)
<1>1. n \in Nat
  BY FS_CardinalityType
<1>2. ASSUME NEW p \in S
      PROVE  /\ IsFiniteSet(before(p)) /\ Cardinality(before(p)) <= n
             /\ Cardinality(before(p)) \in Nat /\ p \in before(p)
             /\ place[p] = Cardinality(before(p))
  <2>1. before(p) \in SUBSET S
    OBVIOUS
  <2>2. p \in before(p) /\ place[p] = Cardinality(before(p))
    BY <1>0 DEF TotalOrder
  <2> HIDE DEF before
  <2> QED
    BY <2>1, <2>2, FS_Subset, FS_CardinalityType
<1>3. ASSUME NEW p \in S
      PROVE  place[p] \in 1..n
  <2>1. Cardinality(before(p)) # 0
    <3> HIDE DEF before
    <3> QED
      BY <1>2, FS_EmptySet
  <2> HIDE DEF before
  <2> QED
    BY <1>1, <1>2, <2>1
<1>4. ASSUME NEW p \in S, NEW q \in S, place[p] = place[q]
      PROVE  p = q
  <2>1. ASSUME NEW x \in S, NEW y \in S, place[x] = place[y], <<x, y>> \in R
        PROVE  x = y
    <3>1. before(x) \in SUBSET before(y)
      BY <2>1 DEF TotalOrder
    <3>2. y \in before(y) /\ Cardinality(before(x)) = Cardinality(before(y))
      <4> HIDE DEF before
      <4> QED
        BY <1>2, <2>1
    <3>3. before(x) = before(y)
      <4> HIDE DEF before
      <4> QED
        BY <1>2, <3>1, <3>2, FS_Subset
    <3>4. <<y, x>> \in R
      BY <3>2, <3>3
    <3> QED
      BY <2>1, <3>4 DEF TotalOrder
  <2> QED
    BY <1>4, <2>1 DEF TotalOrder
<1>5. place \in Injection(S, 1..n)
  <2>1. place \in [S -> 1..n]
    <3>1. place = [p \in S |-> place[p]]
      BY <1>0
    <3> QED
      BY <1>3, <3>1
  <2> QED
    BY <1>4, <2>1 DEF Injection, IsInjective
<1>6. IsFiniteSet(1..n) /\ Cardinality(1..n) = n
  BY <1>1, FS_Interval
<1>7. place \in Surjection(S, 1..n)
  <2> HIDE DEF before
  <2> QED
    BY <1>5, <1>6, FS_Injection
<1>8. \A k \in 1..n : \E p \in S : place[p] = k
  BY <1>7 DEF Surjection
<1>9. \A k \in 1..n : s[k] \in S /\ place[s[k]] = k
  BY <1>0, <1>8
<1>10. s \in [1..n -> S]
  BY <1>0, <1>9
<1>11. s \in Seq(S) /\ Len(s) = n
  BY <1>1, <1>10, SeqOf
<1>12. \A j, k \in 1..n : s[j] = s[k] => j = k
  BY <1>9
<1> QED
  BY <1>11, <1>12 DEF Enumerates

\* A non-sequential allocation visits each of its candidate words once.
LEMMA VisitOrderIs ==
  ASSUME NEW mh
  PROVE  Enumerates(VisitOrder(mh), Visited(mh))
<1> DEFINE visited == Visited(mh)
           runs == FreeRuns(mh)
           In(p, r) == IF p = Beyond THEN r[2] = N ELSE p \in r[1]..r[2]
           runLen == [p \in visited |-> RunLen(CHOOSE r \in runs : In(p, r))]
           Before(p, q) == \/ runLen[p] < runLen[q]
                           \/ runLen[p] = runLen[q] /\ p <= q
           R == {x \in visited \X visited : Before(x[1], x[2])}
           place == [p \in visited |-> Cardinality({q \in visited : Before(q, p)})]
<1>1. VisitOrder(mh) = [k \in 1..Cardinality(visited) |-> CHOOSE p \in visited : place[p] = k]
  BY DEF VisitOrder
<1>2. \A p \in visited : p \in Nat
  BY FreeFinite, NAssumption DEF Beyond
<1>3. \A p \in visited : \E r \in runs : In(p, r)
  <2> SUFFICES ASSUME NEW p \in visited
               PROVE  \E r \in runs : In(p, r)
    OBVIOUS
  <2>1. CASE p = Beyond
    <3>1. N \in FreePages(mh) /\ p \notin FreePages(mh)
      BY <2>1, NAssumption DEF Visited, FreePages, Pages, Beyond
    <3>2. PICK r \in runs : N \in r[1]..r[2]
      BY <3>1, RunOf
    <3>3. r[2] = N
      BY <3>2, RunsAre, NAssumption DEF Pages
    <3> QED
      BY <2>1, <3>3
  <2>2. CASE p # Beyond
    <3>1. p \in FreePages(mh)
      BY <2>2 DEF Visited
    <3> QED
      BY <2>2, <3>1, RunOf
  <2> QED
    BY <2>1, <2>2
<1>4. \A p \in visited : runLen[p] \in Nat
  <2> SUFFICES ASSUME NEW p \in visited
               PROVE  runLen[p] \in Nat
    OBVIOUS
  <2> DEFINE r == CHOOSE r \in runs : In(p, r)
  <2>1. r \in runs
    <3> HIDE DEF In, runs
    <3> QED
      BY <1>3
  <2>2. runLen[p] = RunLen(r)
    OBVIOUS
  <2> HIDE DEF r
  <2> QED
    BY <2>1, <2>2, RunLengths
<1> HIDE DEF runLen
<1>5. \A p, q \in visited : <<p, q>> \in R <=> Before(p, q)
  OBVIOUS
<1> HIDE DEF R, visited
<1>6. ASSUME NEW p \in visited, NEW q \in visited
      PROVE  /\ <<p, q>> \in R \/ <<q, p>> \in R
             /\ <<p, q>> \in R /\ <<q, p>> \in R => p = q
  <2>1. p \in Nat /\ q \in Nat /\ runLen[p] \in Nat /\ runLen[q] \in Nat
    BY <1>2, <1>4
  <2>2. (<<p, q>> \in R <=> Before(p, q)) /\ (<<q, p>> \in R <=> Before(q, p))
    BY <1>5
  <2> QED
    BY <2>1, <2>2
<1>7. ASSUME NEW p \in visited, NEW q \in visited, NEW r \in visited,
             <<p, q>> \in R, <<q, r>> \in R
      PROVE  <<p, r>> \in R
  <2>1. p \in Nat /\ q \in Nat /\ r \in Nat
        /\ runLen[p] \in Nat /\ runLen[q] \in Nat /\ runLen[r] \in Nat
    BY <1>2, <1>4
  <2>2. Before(p, q) /\ Before(q, r) /\ (<<p, r>> \in R <=> Before(p, r))
    BY <1>5, <1>7
  <2> QED
    BY <2>1, <2>2
<1>8. TotalOrder(R, visited)
  <2> HIDE DEF Before
  <2> QED
    BY <1>6, <1>7 DEF TotalOrder
<1>9. place = [p \in visited |-> Cardinality({q \in visited : <<q, p>> \in R})]
  <2>1. \A p \in visited : {q \in visited : Before(q, p)} = {q \in visited : <<q, p>> \in R}
    BY <1>5
  <2> HIDE DEF R, Before
  <2> QED
    BY <2>1
<1>10. IsFiniteSet(visited)
  BY FreeFinite DEF visited
<1>11. InOrder(VisitOrder(mh), R, visited)
  <2>1. PICK f : f = place
    OBVIOUS
  <2> HIDE DEF place
  <2>2. f = [p \in visited |-> Cardinality({q \in visited : <<q, p>> \in R})]
    BY <1>9, <2>1
  <2>3. VisitOrder(mh) = [k \in 1..Cardinality(visited) |-> CHOOSE p \in visited : f[p] = k]
    BY <1>1, <2>1
  <2> QED
    BY <2>2, <2>3 DEF InOrder
<1> QED
  BY <1>8, <1>10, <1>11, OrderEnumerates DEF visited

\* A request for any pages gets free ones, as many as there are.
LEMMA AnyPages ==
  ASSUME NEW mh, NEW n \in Nat, NEW sequence \in BOOLEAN, ~sequence,
         NEW s, s = PagesFor(mh, n, sequence)
  PROVE  /\ s # <<>> => n # 0 /\ Len(s) = n /\ Fresh(mh, s)
         /\ n # 0 /\ n <= MEM_FreeTotal(mh) => s # <<>>
<1> DEFINE v == VisitOrder(mh)
<1>1. CASE n = 0 \/ MEM_FreeTotal(mh) < n
  <2>1. s = <<>>
    BY <1>1 DEF PagesFor
  <2>2. ~(n # 0 /\ n <= MEM_FreeTotal(mh))
    BY <1>1, FreeFinite
  <2> QED
    BY <2>1, <2>2
<1>2. CASE ~(n = 0 \/ MEM_FreeTotal(mh) < n)
  <2>1. s = SubSeq(v, 1, n)
    BY <1>2 DEF PagesFor
  <2> HIDE DEF v
  <2>2. /\ v \in Seq(Visited(mh)) /\ Len(v) = Cardinality(Visited(mh))
        /\ \A j, k \in 1..Len(v) : v[j] = v[k] => j = k
    BY VisitOrderIs DEF Enumerates, v
  <2>3. n # 0 /\ n <= Len(v) /\ Len(v) \in Nat
    BY <1>2, <2>2, FreeFinite
  <2>4. \A k \in 1..n : k \in 1..Len(v) /\ v[k] \in Visited(mh)
    <3>1. \A k \in 1..n : k \in 1..Len(v)
      BY <2>3
    <3> QED
      BY <2>2, <3>1, ElementOfSeq
  <2>5. Visited(mh) \subseteq 1..Beyond /\ \A p \in Visited(mh) : mh[p] = 0
    BY FreeFinite
  <2>6. s \in Seq(1..Beyond) /\ Len(s) = n /\ \A k \in 1..n : s[k] = v[k]
    <3>1. \A k \in 1..n : v[k] \in 1..Beyond
      BY <2>4, <2>5
    <3>2. /\ SubSeq(v, 1, n) \in Seq(1..Beyond)
          /\ Len(SubSeq(v, 1, n)) = IF 1 <= n THEN n - 1 + 1 ELSE 0
          /\ \A k \in 1..n - 1 + 1 : SubSeq(v, 1, n)[k] = v[1 + k - 1]
      BY <3>1, SubSeqProperties
    <3>3. 1 <= n /\ n - 1 + 1 = n /\ \A k \in 1..n : 1 + k - 1 = k
      BY <2>3
    <3> QED
      BY <2>1, <3>2, <3>3
  <2>7. Distinct(s)
    <3>1. \A j, k \in 1..n : v[j] = v[k] => j = k
      BY <2>2, <2>4
    <3>2. ASSUME NEW j \in 1..Len(s), NEW k \in 1..Len(s), s[j] = s[k]
          PROVE  j = k
      <4>1. j \in 1..n /\ k \in 1..n /\ s[j] = v[j] /\ s[k] = v[k]
        BY <2>6
      <4> QED
        BY <3>1, <3>2, <4>1
    <3> QED
      BY <2>6, <3>2 DEF Distinct
  <2>8. s # <<>>
    BY <2>3, <2>6, EmptySeq
  <2> QED
    BY <2>3, <2>4, <2>5, <2>6, <2>7, <2>8 DEF Fresh
<1> QED
  BY <1>1, <1>2


-----------------------------------------------------------------------------
(* Allocation and resizing *)

HandleOf(h, s) == IF s = <<>> THEN h \in {0, EndOfBlock} ELSE h = s[1]

\* The result r of a request for n pages is the new block t, or none.
Allocated(mh, n, sequence, r, t) ==
  /\ Relinks(mh, r.mh, <<>>, t) /\ Fresh(mh, t)
  /\ r.handle = IF t = <<>> THEN 0 ELSE t[1]
  /\ t # <<>> => Len(t) = n /\ n # 0
  /\ sequence => Neighbours(t)
  /\ ~sequence /\ n # 0 /\ n <= MEM_FreeTotal(mh) => t # <<>>

\* MEM_AllocatePages makes a new block of free pages, or changes nothing.
LEMMA Allocates ==
  ASSUME NEW mh \in [1..Beyond -> Words], NEW n \in Nat, NEW sequence \in BOOLEAN,
         NEW r, r = MEM_AllocatePages(mh, n, sequence)
  PROVE  \E t : Allocated(mh, n, sequence, r, t)
<1> DEFINE t == PagesFor(mh, n, sequence)
<1>1. r = [mh |-> Link(mh, t), handle |-> IF t = <<>> THEN 0 ELSE t[1]]
  BY DEF MEM_AllocatePages, First
<1>2. r.mh = Link(mh, t) /\ r.handle = IF t = <<>> THEN 0 ELSE t[1]
  BY <1>1
<1>3. /\ Fresh(mh, t)
      /\ t # <<>> => Len(t) = n /\ n # 0
      /\ sequence => Neighbours(t)
      /\ ~sequence /\ n # 0 /\ n <= MEM_FreeTotal(mh) => t # <<>>
  <2>1. CASE t = <<>>
    <3>1. Fresh(mh, t) /\ Neighbours(t)
      BY <2>1, NoBlock DEF Fresh, Neighbours
    <3>2. ~sequence /\ n # 0 /\ n <= MEM_FreeTotal(mh) => t # <<>>
      <4> SUFFICES ASSUME ~sequence
                   PROVE  n # 0 /\ n <= MEM_FreeTotal(mh) => t # <<>>
        OBVIOUS
      <4> HIDE DEF t
      <4> QED
        BY AnyPages DEF t
    <3> QED
      BY <2>1, <3>1, <3>2
  <2>2. CASE t # <<>> /\ sequence
    <3>1. n # 0 /\ Len(t) = n /\ Fresh(mh, t) /\ Neighbours(t)
      BY <2>2, SequencePages
    <3> HIDE DEF t
    <3> QED
      BY <2>2, <3>1
  <2>3. CASE t # <<>> /\ ~sequence
    <3>1. n # 0 /\ Len(t) = n /\ Fresh(mh, t)
      BY <2>3, AnyPages
    <3> HIDE DEF t
    <3> QED
      BY <2>3, <3>1
  <2> QED
    BY <2>1, <2>2, <2>3
<1> HIDE DEF t
<1>4. Relinks(mh, r.mh, <<>>, t)
  BY <1>2, <1>3, NewBlock
<1> QED
  BY <1>2, <1>3, <1>4 DEF Allocated

\* Where the contents of the pages of t are, with respect to the pages s before.
MovesFrom(from, s, t) ==
  /\ from \in [Pages -> Pages]
  /\ \A k \in 1..Len(s) : k <= Len(t) /\ t[k] \in Pages => from[t[k]] = s[k]
  /\ \A p \in Pages \ PagesIn(t) : from[p] = p

\* As long as both last, t has the pages of s.
Extends(s, t) == \A k \in 1..Len(s) : k <= Len(t) => t[k] = s[k]

\* The result r of resizing the block s to n pages is the block t.
Resized(mh, s, n, sequence, r, t) ==
  /\ Relinks(mh, r.mh, s, t) /\ HandleOf(r.handle, t)
  /\ r.ok \in BOOLEAN
  /\ r.ok => Len(t) = n
  /\ ~r.ok => t = s
  /\ sequence => Neighbours(t)
  /\ ~sequence => r.from = Stay
  /\ MovesFrom(r.from, s, t)

\* The part of Resized that says where the contents come from, if no page moves.
LEMMA Stays ==
  ASSUME NEW from, from = Stay, NEW s, NEW t, Extends(s, t)
  PROVE  MovesFrom(from, s, t)
<1>1. Stay \in [Pages -> Pages] /\ \A p \in Pages : Stay[p] = p
  BY DEF Stay
<1> QED
  BY <1>1 DEF MovesFrom, Extends

\* A block that stays as it is.
LEMMA Unchanged ==
  ASSUME NEW mh, NEW B, Layout(mh, B), NEW o \in Holders
  PROVE  Relinks(mh, mh, B[o], B[o])
<1>1. Distinct(B[o]) /\ Linked(mh, B[o]) /\ mh \in [1..Beyond -> Words]
  BY DEF Layout
<1> QED
  BY <1>1 DEF Relinks

\* The branch of MEM_ReAllocatePages that cuts the end off a block.
LEMMA Shrinks ==
  ASSUME NEW mh, NEW B, Layout(mh, B), NEW o \in Holders, NEW s, s = B[o],
         NEW sequence \in BOOLEAN, sequence => Neighbours(s),
         NEW n \in 1..Len(s), n < Len(s), NEW r, r = ShrinkBlock(mh, s, n)
  PROVE  Resized(mh, s, n, sequence, r, SubSeq(s, 1, n))
<1> DEFINE t == SubSeq(s, 1, n)
           m == Len(s)
           cut == [p \in DOMAIN mh |-> IF \E k \in n + 1..Len(s) : s[k] = p THEN 0 ELSE mh[p]]
           new == [cut EXCEPT ![s[n]] = EndOfBlock]
<1>1. /\ Distinct(s) /\ Linked(mh, s) /\ mh \in [1..Beyond -> Words] /\ DOMAIN mh = 1..Beyond
      /\ s \in Seq(1..Beyond)
  BY DEF Layout, Distinct
<1>2. /\ m \in Nat /\ \A k \in 1..m : s[k] \in 1..Beyond /\ s[k] \in PagesIn(s)
      /\ n \in 1..m /\ n < m
      /\ \A p \in PagesIn(s) : \E k \in 1..m : s[k] = p
  BY <1>1, InBlock
<1>3. t \in Seq(1..Beyond) /\ Len(t) = n /\ \A k \in 1..n : t[k] = s[k]
  <2>1. \A k \in 1..n : s[k] \in 1..Beyond
    BY <1>2
  <2>2. /\ t \in Seq(1..Beyond) /\ Len(t) = IF 1 <= n THEN n - 1 + 1 ELSE 0
        /\ \A k \in 1..n - 1 + 1 : t[k] = s[1 + k - 1]
    BY <2>1, SubSeqProperties
  <2>3. 1 <= n /\ n - 1 + 1 = n /\ \A k \in 1..n : 1 + k - 1 = k
    BY <1>2
  <2> HIDE DEF t
  <2> QED
    BY <2>2, <2>3
<1>4. r.mh = new /\ r.handle = s[1] /\ r.ok = TRUE /\ r.from = Stay
  BY DEF ShrinkBlock, Outcome
<1> HIDE DEF t
<1>5. Extends(s, t)
  BY <1>2, <1>3 DEF Extends
<1>6. MovesFrom(r.from, s, t)
  BY <1>4, <1>5, Stays
<1>7. \A k \in 1..m : mh[s[k]] = LinkAt(s, k)
  BY <1>1 DEF Linked
<1>8. /\ DOMAIN new = 1..Beyond
      /\ \A p \in 1..Beyond :
           new[p] = IF p = s[n] THEN EndOfBlock
                    ELSE IF \E k \in n + 1..m : s[k] = p THEN 0 ELSE mh[p]
  BY <1>1, <1>2
<1>9. \A j, k \in 1..m : s[j] = s[k] => j = k
  BY <1>1 DEF Distinct
<1> HIDE DEF new, cut, m
<1>10. Distinct(t)
  <2>1. \A k \in 1..n : k \in 1..m
    BY <1>2
  <2>2. ASSUME NEW j \in 1..n, NEW k \in 1..n, t[j] = t[k]
        PROVE  j = k
    BY <1>3, <1>9, <2>1, <2>2
  <2> QED
    BY <1>3, <2>2 DEF Distinct
<1>11. Linked(new, t)
  <2> SUFFICES ASSUME NEW k \in 1..n
               PROVE  new[t[k]] = LinkAt(t, k)
    BY <1>3 DEF Linked
  <2>1. t[k] = s[k] /\ k \in 1..m /\ s[k] \in 1..Beyond
    BY <1>2, <1>3
  <2>2. CASE k = n
    <3>1. LinkAt(t, k) = EndOfBlock
      BY <1>2, <1>3, <2>2 DEF LinkAt
    <3> QED
      BY <1>8, <2>1, <2>2, <3>1
  <2>3. CASE k # n
    <3>1. k < n /\ k + 1 \in 1..n /\ k < m
      BY <1>2, <2>3
    <3>2. LinkAt(t, k) = s[k + 1]
      BY <1>3, <3>1 DEF LinkAt
    <3>3. mh[s[k]] = s[k + 1]
      BY <1>7, <2>1, <3>1 DEF LinkAt, m
    <3>4. s[k] # s[n]
      BY <1>2, <1>9, <2>1, <2>3
    <3>5. ~\E j \in n + 1..m : s[j] = s[k]
      <4> SUFFICES ASSUME NEW j \in n + 1..m, s[j] = s[k]
                   PROVE  FALSE
        OBVIOUS
      <4>1. j \in 1..m /\ j # k
        BY <1>2, <3>1
      <4> QED
        BY <1>9, <2>1, <4>1
    <3> QED
      BY <1>8, <2>1, <3>2, <3>3, <3>4, <3>5
  <2> QED
    BY <2>2, <2>3
<1>12. \A p \in PagesIn(t) : p \in PagesIn(s)
  <2> SUFFICES ASSUME NEW p \in PagesIn(t)
               PROVE  p \in PagesIn(s)
    OBVIOUS
  <2>1. PICK k \in 1..n : t[k] = p
    BY <1>3, InBlock
  <2>2. k \in 1..m
    BY <1>2
  <2> QED
    BY <1>2, <1>3, <2>1, <2>2
<1>13. ASSUME NEW p \in (1..Beyond) \ PagesIn(t)
       PROVE  new[p] = IF p \in PagesIn(s) THEN 0 ELSE mh[p]
  <2>1. p # s[n]
    <3>1. n \in 1..Len(t) /\ t[n] = s[n]
      BY <1>2, <1>3
    <3> QED
      BY <1>3, <3>1, InBlock
  <2>2. CASE p \in PagesIn(s)
    <3>1. PICK k \in 1..m : s[k] = p
      BY <1>2, <2>2
    <3>2. k \notin 1..n
      <4>1. \A j \in 1..Len(t) : t[j] \in PagesIn(t)
        BY <1>3, InBlock
      <4> QED
        BY <1>3, <1>13, <3>1, <4>1
    <3>3. k \in n + 1..m
      BY <1>2, <3>2
    <3> QED
      BY <1>8, <2>1, <2>2, <3>1, <3>3
  <2>3. CASE p \notin PagesIn(s)
    <3>1. ~\E k \in n + 1..m : s[k] = p
      <4> SUFFICES ASSUME NEW k \in n + 1..m, s[k] = p
                   PROVE  FALSE
        OBVIOUS
      <4>1. k \in 1..m
        BY <1>2
      <4> QED
        BY <1>2, <2>3, <4>1
    <3> QED
      BY <1>8, <2>1, <2>3, <3>1
  <2> QED
    BY <2>2, <2>3
<1>14. new \in [1..Beyond -> Words]
  <2>1. \A p \in 1..Beyond : mh[p] \in Words
    BY <1>1
  <2>2. 0 \in Words /\ EndOfBlock \in Words
    BY DEF Words
  <2>3. \A p \in 1..Beyond : new[p] \in Words
    BY <1>8, <2>1, <2>2
  <2>4. new = [p \in 1..Beyond |-> new[p]]
    BY <1>1 DEF new, cut
  <2> QED
    BY <2>3, <2>4
<1>15. Relinks(mh, new, s, t)
  BY <1>10, <1>11, <1>12, <1>13, <1>14 DEF Relinks
<1>16. HandleOf(s[1], t)
  <2>1. t # <<>> /\ t[1] = s[1]
    BY <1>2, <1>3, EmptySeq
  <2> QED
    BY <2>1 DEF HandleOf
<1>17. sequence => Neighbours(t)
  <2> SUFFICES ASSUME Neighbours(s)
               PROVE  Neighbours(t)
    OBVIOUS
  <2>1. \A k \in 1..n : k \in 1..m /\ 1 \in 1..n
    BY <1>2
  <2> QED
    BY <1>3, <2>1 DEF Neighbours, m
<1> QED
  BY <1>3, <1>4, <1>6, <1>15, <1>16, <1>17 DEF Resized, t


\* The pages counted behind page p are those right behind it.
LEMMA BehindIsFree ==
  ASSUME NEW mh, NEW p \in Pages, NEW m \in Nat, FreeBehind(mh, p) >= m,
         NEW q \in p + 1..p + m
  PROVE  q \in Pages /\ mh[q] = 0
<1> DEFINE S == {x \in p + 1..N : \A y \in p + 1..x : mh[y] = 0}
<1>1. p \in Nat /\ N \in Nat /\ q \in Nat /\ p < q /\ q <= p + m
  BY NAssumption DEF Pages
<1> SUFFICES ASSUME ~(q \in Pages /\ mh[q] = 0)
             PROVE  FALSE
  OBVIOUS
<1>2. S \in SUBSET (p + 1..q - 1)
  <2> SUFFICES ASSUME NEW x \in p + 1..N, \A y \in p + 1..x : mh[y] = 0
               PROVE  x < q
    BY <1>1
  <2> SUFFICES ASSUME x >= q
               PROVE  FALSE
    BY <1>1
  <2>1. q \in p + 1..x /\ q \in Pages
    BY <1>1 DEF Pages
  <2> QED
    BY <2>1
<1>3. IsFiniteSet(p + 1..q - 1) /\ Cardinality(p + 1..q - 1) < m
  <2>1. p + 1 \in Int /\ q - 1 \in Int
    BY <1>1
  <2>2. Cardinality(p + 1..q - 1) = IF p + 1 > q - 1 THEN 0 ELSE (q - 1) - (p + 1) + 1
    BY <2>1, FS_Interval
  <2>3. IsFiniteSet(p + 1..q - 1)
    BY <2>1, FS_Interval
  <2>4. (IF p + 1 > q - 1 THEN 0 ELSE (q - 1) - (p + 1) + 1) < m
    BY <1>1
  <2> QED
    BY <2>2, <2>3, <2>4
<1>4. Cardinality(S) <= Cardinality(p + 1..q - 1) /\ Cardinality(S) \in Nat
      /\ Cardinality(p + 1..q - 1) \in Nat
  <2> HIDE DEF S
  <2> QED
    BY <1>2, <1>3, FS_Subset, FS_CardinalityType
<1>5. FreeBehind(mh, p) = Cardinality(S)
  BY DEF FreeBehind
<1> HIDE DEF S
<1> QED
  BY <1>3, <1>4, <1>5

\* The pages of a block, by place and as a set.
Listed(s) ==
  /\ s \in Seq(1..Beyond) /\ Len(s) \in Nat
  /\ \A k \in 1..Len(s) : s[k] \in 1..Beyond /\ s[k] \in PagesIn(s)
  /\ \A p \in PagesIn(s) : p \in 1..Beyond /\ \E k \in 1..Len(s) : s[k] = p
  /\ \A j, k \in 1..Len(s) : s[j] = s[k] => j = k

\* A list without repetitions, by place and as a set.
LEMMA DistinctListed == ASSUME NEW s, Distinct(s) PROVE Listed(s)
<1>1. s \in Seq(1..Beyond) /\ \A j, k \in 1..Len(s) : s[j] = s[k] => j = k
  BY DEF Distinct
<1> QED
  BY <1>1, InBlock DEF Listed

\* A block with pages has a first and a last one.
LEMMA NotEmpty ==
  ASSUME NEW s, Listed(s), s # <<>>
  PROVE  Len(s) \in 1..Len(s) /\ 1 \in 1..Len(s) /\ Len(s) > 0
<1>1. s \in Seq(1..Beyond)
  BY DEF Listed
<1> QED
  BY <1>1, InBlock

\* What a layout says of the block of one holder.
LEMMA BlockOf ==
  ASSUME NEW mh, NEW B, Layout(mh, B), NEW o \in Holders, NEW s, s = B[o]
  PROVE  /\ Distinct(s) /\ Listed(s) /\ Linked(mh, s)
         /\ mh \in [1..Beyond -> Words] /\ DOMAIN mh = 1..Beyond
         /\ \A p \in PagesIn(s) : mh[p] # 0
<1>1. Distinct(s) /\ Linked(mh, s) /\ mh \in [1..Beyond -> Words]
  BY DEF Layout
<1>2. \A p \in PagesIn(s) : mh[p] # 0
  BY <1>1, HeldNotFree
<1> QED
  BY <1>1, <1>2, DistinctListed

\* The page k places into a run that goes on from its m-th page e.
LEMMA Sums ==
  ASSUME NEW a \in Int, NEW m \in Int, NEW k \in Int, NEW e, e = a + m - 1
  PROVE  e + k - m = a + k - 1 /\ e \in Int
OBVIOUS

\* The branch that takes the pages right behind a block.
LEMMA Grows ==
  ASSUME NEW mh, NEW B, Layout(mh, B), NEW o \in Holders, NEW s, s = B[o], s # <<>>,
         Neighbours(s), NEW n \in Nat, n > Len(s), FreeBehind(mh, s[Len(s)]) >= n - Len(s),
         NEW r, r = GrowInPlace(mh, s, n), NEW sequence \in BOOLEAN
  PROVE  \E t : Resized(mh, s, n, sequence, r, t)
<1> DEFINE m == Len(s)
           t == [k \in 1..n |-> IF k <= Len(s) THEN s[k] ELSE s[Len(s)] + k - Len(s)]
<1>0. /\ Distinct(s) /\ Listed(s) /\ Linked(mh, s) /\ mh \in [1..Beyond -> Words]
      /\ DOMAIN mh = 1..Beyond
  BY BlockOf
<1>1. /\ s \in Seq(1..Beyond) /\ m \in Nat
      /\ \A k \in 1..m : s[k] \in 1..Beyond /\ s[k] \in PagesIn(s)
      /\ \A p \in PagesIn(s) : p \in 1..Beyond /\ \E k \in 1..m : s[k] = p
      /\ m \in 1..m /\ 1 \in 1..m /\ m > 0
  BY <1>0, NotEmpty DEF Listed
<1>2. \A k \in 1..m : s[k] \in Pages /\ s[k] = s[1] + k - 1
  BY DEF Neighbours
<1>3. r.mh = Link(mh, t) /\ r.handle = s[1] /\ r.ok = TRUE /\ r.from = Stay
  BY DEF GrowInPlace, Outcome
<1> DEFINE a == s[1]
<1>4. a \in Pages /\ a \in Nat /\ N \in Nat /\ s[m] = a + m - 1 /\ s[m] \in Pages /\ Beyond = N + 1
      /\ m \in Nat /\ s[m] \in Nat
  <2>1. a \in Pages /\ s[m] \in Pages /\ s[m] = a + m - 1
    BY <1>1, <1>2
  <2>2. \A p \in Pages : p \in Nat
    BY NAssumption DEF Pages
  <2> QED
    BY <1>1, <2>1, <2>2, NAssumption DEF Beyond
<1>5. \A k \in 1..n : t[k] = a + k - 1
  <2> SUFFICES ASSUME NEW k \in 1..n
               PROVE  t[k] = a + k - 1
    OBVIOUS
  <2>1. CASE k <= m
    <3>1. k \in 1..m
      BY <1>1, <2>1
    <3> QED
      BY <1>2, <2>1, <3>1
  <2>2. CASE ~(k <= m)
    <3>1. t[k] = s[m] + k - m
      BY <2>2
    <3> HIDE DEF t, m, a
    <3>2. a \in Int /\ m \in Int /\ k \in Int
      BY <1>4
    <3> QED
      BY <1>4, <3>1, <3>2, Sums
  <2> QED
    BY <2>1, <2>2
<1>6. \A k \in 1..n : t[k] = IF k <= m THEN s[k] ELSE t[k]
  OBVIOUS
<1> HIDE DEF a
<1>7. \A k \in 1..n : ~(k <= m) => a + k - 1 \in Pages /\ mh[a + k - 1] = 0
  <2> SUFFICES ASSUME NEW k \in 1..n, ~(k <= m)
               PROVE  a + k - 1 \in Pages /\ mh[a + k - 1] = 0
    OBVIOUS
  <2>1. n - m \in Nat /\ a + k - 1 \in s[m] + 1..s[m] + (n - m)
    <3>1. PICK e : e = s[m]
      OBVIOUS
    <3>2. e \in Int /\ e = a + m - 1 /\ k \in 1..n /\ ~(k <= m) /\ m \in Nat /\ a \in Nat
      BY <1>4, <3>1
    <3> HIDE DEF m
    <3>3. a + k - 1 \in e + 1..e + (n - m) /\ n - m \in Nat
      BY <3>2
    <3> QED
      BY <3>1, <3>3
  <2> HIDE DEF m
  <2>2. FreeBehind(mh, s[m]) >= n - m
    BY DEF m
  <2> QED
    BY <1>4, <2>1, <2>2, BehindIsFree
<1>8. \A k \in 1..m : k \in 1..n /\ t[k] = s[k]
  BY <1>1
<1>9. \A k \in 1..n : t[k] \in Pages /\ t[k] \in 1..Beyond
  <2> SUFFICES ASSUME NEW k \in 1..n
               PROVE  t[k] \in Pages
    BY <1>4 DEF Pages
  <2> HIDE DEF t
  <2>1. CASE k <= m
    <3>1. k \in 1..m
      BY <1>1, <2>1
    <3> QED
      BY <1>2, <1>8, <3>1
  <2>2. CASE ~(k <= m)
    BY <1>5, <1>7, <2>2
  <2> QED
    BY <2>1, <2>2
<1>10. t = [k \in 1..n |-> t[k]]
  OBVIOUS
<1> HIDE DEF t, m
<1>11. t \in [1..n -> 1..Beyond]
  BY <1>9, <1>10
<1>12. t \in Seq(1..Beyond) /\ Len(t) = n
  BY <1>11, SeqOf
<1>13. Distinct(t)
  <2>1. ASSUME NEW j \in 1..n, NEW k \in 1..n, t[j] = t[k]
        PROVE  j = k
    <3>1. a + j - 1 = a + k - 1
      BY <1>5, <2>1
    <3> QED
      BY <1>4, <3>1
  <2> QED
    BY <1>12, <2>1 DEF Distinct
<1>14. \A p \in PagesIn(t) : p \in PagesIn(s) \/ mh[p] = 0
  <2> SUFFICES ASSUME NEW p \in PagesIn(t)
               PROVE  p \in PagesIn(s) \/ mh[p] = 0
    OBVIOUS
  <2>1. PICK k \in 1..n : t[k] = p
    BY <1>12, InBlock
  <2>2. CASE k <= m
    <3>1. k \in 1..m
      BY <1>1, <2>2
    <3> QED
      BY <1>1, <1>8, <2>1, <3>1
  <2>3. CASE ~(k <= m)
    BY <1>5, <1>7, <2>1, <2>3
  <2> QED
    BY <2>2, <2>3
<1>15. \A p \in PagesIn(s) : p \in PagesIn(t)
  <2> SUFFICES ASSUME NEW p \in PagesIn(s)
               PROVE  p \in PagesIn(t)
    OBVIOUS
  <2>1. PICK k \in 1..m : s[k] = p
    BY <1>1
  <2>2. k \in 1..Len(t) /\ t[k] = p
    BY <1>8, <1>12, <2>1
  <2> QED
    BY <1>12, <2>2, InBlock
<1>16. Relinks(mh, r.mh, s, t)
  <2>1. Writes(mh, Link(mh, t), t)
    BY <1>0, <1>13, LinkIs
  <2> QED
    BY <1>3, <1>13, <1>14, <1>15, <2>1 DEF Relinks, Writes
<1>17. MovesFrom(r.from, s, t)
  <2>1. Extends(s, t)
    BY <1>8 DEF Extends, m
  <2> QED
    BY <1>3, <2>1, Stays
<1>18. Neighbours(t) /\ HandleOf(r.handle, t)
  <2>1. 1 \in 1..n /\ t[1] = s[1]
    BY <1>1, <1>8
  <2>3. t # <<>>
    <3>1. n # 0
      BY <2>1
    <3> QED
      BY <1>12, <3>1, EmptySeq
  <2>2. \A k \in 1..n : t[k] = t[1] + k - 1
    BY <1>5, <2>1 DEF a
  <2> QED
    BY <1>3, <1>9, <1>12, <2>1, <2>3, <2>2 DEF Neighbours, HandleOf
<1> QED
  BY <1>3, <1>12, <1>16, <1>17, <1>18 DEF Resized

\* The branch that links pages from anywhere behind the last one of a block.
LEMMA Appends ==
  ASSUME NEW mh, NEW B, Layout(mh, B), NEW o \in Holders, NEW s, s = B[o], s # <<>>,
         NEW n \in Nat, n > Len(s), NEW r, r = AppendBlock(mh, s, n)
  PROVE  \E t : Resized(mh, s, n, FALSE, r, t)
<1> DEFINE m == Len(s)
           rem == MEM_AllocatePages(mh, n - Len(s), FALSE)
           new == [rem.mh EXCEPT ![s[Len(s)]] = rem.handle]
<1>0. /\ Distinct(s) /\ Listed(s) /\ Linked(mh, s) /\ mh \in [1..Beyond -> Words]
      /\ DOMAIN mh = 1..Beyond /\ \A p \in PagesIn(s) : mh[p] # 0
  BY BlockOf
<1>1. /\ s \in Seq(1..Beyond) /\ m \in Nat
      /\ \A k \in 1..m : s[k] \in 1..Beyond /\ s[k] \in PagesIn(s)
      /\ \A p \in PagesIn(s) : p \in 1..Beyond /\ \E k \in 1..m : s[k] = p
      /\ m \in 1..m /\ 1 \in 1..m /\ m > 0
  BY <1>0, NotEmpty DEF Listed
<1>2. PICK x : Allocated(mh, n - Len(s), FALSE, rem, x)
  <2>1. n - Len(s) \in Nat
    BY <1>1
  <2>2. PICK rem2 : rem2 = rem
    OBVIOUS
  <2>3. PICK f \in BOOLEAN : f = FALSE
    OBVIOUS
  <2>4. rem2 = MEM_AllocatePages(mh, n - Len(s), f)
    BY <2>2, <2>3
  <2> HIDE DEF rem
  <2>5. \E x : Allocated(mh, n - Len(s), f, rem2, x)
    BY <1>0, <2>1, <2>4, Allocates
  <2> QED
    BY <2>2, <2>3, <2>5
<1>3. /\ Relinks(mh, rem.mh, <<>>, x) /\ Fresh(mh, x)
      /\ rem.handle = IF x = <<>> THEN 0 ELSE x[1]
      /\ x # <<>> => Len(x) = n - m
  BY <1>2 DEF Allocated
<1>4. r = IF rem.handle = 0 THEN Outcome(mh, s[1], FALSE) ELSE Outcome(new, s[1], TRUE)
  BY DEF AppendBlock
<1> HIDE DEF rem
<1>5. Distinct(x) /\ x \in Seq(1..Beyond)
  BY <1>3 DEF Fresh, Distinct
<1>6. /\ Listed(x) /\ Len(x) \in Nat
      /\ \A k \in 1..Len(x) : x[k] \in 1..Beyond /\ x[k] \in PagesIn(x)
      /\ \A p \in PagesIn(x) : \E k \in 1..Len(x) : x[k] = p
      /\ x # <<>> => 1 \in 1..Len(x)
  BY <1>5, DistinctListed, NotEmpty DEF Listed
<1>7. CASE x = <<>>
  <2>1. r.mh = mh /\ r.handle = s[1] /\ r.ok = FALSE /\ r.from = Stay
    BY <1>3, <1>4, <1>7 DEF Outcome
  <2>2. MovesFrom(r.from, s, s)
    BY <2>1, Stays DEF Extends
  <2>3. Relinks(mh, r.mh, s, s)
    BY <2>1, Unchanged
  <2> QED
    BY <2>1, <2>2, <2>3 DEF Resized, HandleOf
<1>8. CASE x # <<>>
  <2> DEFINE t == s \o x
             q == Len(x)
  <2>1. /\ r.mh = new /\ r.handle = s[1] /\ r.ok = TRUE /\ r.from = Stay
        /\ q = n - m /\ rem.handle = x[1] /\ q \in Nat /\ 1 \in 1..q
    BY <1>3, <1>4, <1>6, <1>8 DEF Outcome
  <2>2. /\ t \in Seq(1..Beyond) /\ Len(t) = m + q
        /\ \A k \in 1..m + q : t[k] = IF k <= m THEN s[k] ELSE x[k - m]
    BY <1>1, <1>5, ConcatProperties
  <2>3. \A k \in 1..m : k \in 1..m + q /\ t[k] = s[k]
    <3>1. \A k \in 1..m : k \in 1..m + q /\ k <= m
      BY <1>1, <2>1
    <3> HIDE DEF t, m, q
    <3> QED
      BY <2>2, <3>1
  <2>4. \A k \in 1..q : m + k \in 1..m + q /\ t[m + k] = x[k]
    <3>1. \A k \in 1..q : m + k \in 1..m + q /\ ~(m + k <= m) /\ (m + k) - m = k
      BY <1>1, <2>1
    <3> HIDE DEF t, m, q
    <3> QED
      BY <2>2, <3>1
  <2> HIDE DEF t, new, q, m
  <2>5. \A k \in 1..m + q : k \in 1..m \/ \E j \in 1..q : k = m + j
    <3> SUFFICES ASSUME NEW k \in 1..m + q, k \notin 1..m
                 PROVE  \E j \in 1..q : k = m + j
      OBVIOUS
    <3>1. k - m \in 1..q /\ k = m + (k - m)
      BY <1>1, <2>1
    <3> QED
      BY <3>1
  <2>6. ASSUME NEW p \in PagesIn(t)
        PROVE  p \in PagesIn(s) \/ p \in PagesIn(x)
    <3>1. PICK k \in 1..m + q : t[k] = p
      BY <2>2, <2>6, InBlock
    <3>2. CASE k \in 1..m
      BY <1>1, <2>3, <3>1, <3>2
    <3>3. CASE k \notin 1..m
      <4>1. PICK j \in 1..q : k = m + j
        BY <2>5, <3>3
      <4> QED
        BY <1>6, <2>4, <3>1, <4>1 DEF q
    <3> QED
      BY <3>2, <3>3
  <2>7. ASSUME NEW p, p \in PagesIn(s) \/ p \in PagesIn(x)
        PROVE  p \in PagesIn(t)
    <3>1. \A k \in 1..m + q : t[k] \in PagesIn(t)
      BY <2>2, InBlock
    <3>2. CASE p \in PagesIn(s)
      BY <1>1, <2>3, <3>1, <3>2
    <3>3. CASE p \in PagesIn(x)
      BY <1>6, <2>4, <3>1, <3>3 DEF q
    <3> QED
      BY <2>7, <3>2, <3>3
  <2>8. ASSUME NEW p \in PagesIn(x)
        PROVE  mh[p] = 0 /\ p \notin PagesIn(s)
    <3>1. mh[p] = 0
      BY <1>3, <1>6, <2>8 DEF Fresh
    <3> QED
      BY <1>0, <3>1
  <2>9. \A p \in 1..Beyond : new[p] = IF p = s[m] THEN x[1] ELSE rem.mh[p]
    <3>1. DOMAIN rem.mh = 1..Beyond
      BY <1>3 DEF Relinks
    <3>2. new = [rem.mh EXCEPT ![s[m]] = x[1]]
      BY <2>1 DEF new, m
    <3> QED
      BY <3>1, <3>2
  <2>10. /\ \A k \in 1..q : rem.mh[x[k]] = LinkAt(x, k)
         /\ \A p \in (1..Beyond) \ PagesIn(x) : rem.mh[p] = mh[p]
         /\ rem.mh \in [1..Beyond -> Words]
    BY <1>3, NoBlock DEF Relinks, Linked, q
  <2>11. \A k \in 1..m : mh[s[k]] = LinkAt(s, k)
    BY <1>0 DEF Linked, m
  <2>12. s[m] \in PagesIn(s) /\ s[m] \in 1..Beyond
    BY <1>1
  <2>13. new \in [1..Beyond -> Words]
    <3>1. \A p \in 1..Beyond : p \in Words
      BY DEF Words
    <3>2. x[1] \in Words
      BY <1>6, <2>1, <3>1 DEF q
    <3>3. \A p \in 1..Beyond : new[p] \in Words
      BY <2>9, <2>10, <3>2
    <3>4. new = [p \in 1..Beyond |-> new[p]]
      BY <2>10 DEF new
    <3> QED
      BY <3>3, <3>4
  <2>14. Distinct(t)
    <3> SUFFICES ASSUME NEW j \in 1..m + q, NEW k \in 1..m + q, t[j] = t[k]
                 PROVE  j = k
      BY <2>2 DEF Distinct
    <3>1. \A u, v \in 1..m : s[u] = s[v] => u = v
      BY <1>0 DEF Distinct, m
    <3>2. \A u, v \in 1..q : x[u] = x[v] => u = v
      BY <1>5 DEF Distinct, q
    <3>3. \A u \in 1..m, v \in 1..q : s[u] # x[v]
      BY <1>1, <1>6, <2>8 DEF q
    <3>4. CASE j \in 1..m
      BY <2>3, <2>4, <2>5, <3>1, <3>3, <3>4
    <3>5. CASE j \notin 1..m
      BY <2>3, <2>4, <2>5, <3>2, <3>3, <3>5
    <3> QED
      BY <3>4, <3>5
  <2>15. Linked(new, t)
    <3> SUFFICES ASSUME NEW k \in 1..m + q
                 PROVE  new[t[k]] = LinkAt(t, k)
      BY <2>2 DEF Linked
    <3>1. CASE k \in 1..m
      <4>1. t[k] = s[k] /\ s[k] \in PagesIn(s) /\ s[k] \in 1..Beyond
        BY <1>1, <2>3, <3>1
      <4>2. rem.mh[s[k]] = LinkAt(s, k)
        BY <2>8, <2>10, <2>11, <3>1, <4>1
      <4>3. CASE k = m
        <5>1. k < m + q /\ k + 1 = m + 1
          BY <1>1, <2>1, <4>3
        <5>2. LinkAt(t, k) = x[1]
          BY <2>1, <2>2, <2>4, <5>1 DEF LinkAt
        <5> QED
          BY <2>9, <2>12, <4>1, <4>3, <5>2
      <4>4. CASE k # m
        <5>1. k < m /\ k + 1 \in 1..m /\ k < m + q
          BY <1>1, <2>1, <3>1, <4>4
        <5>2. LinkAt(t, k) = s[k + 1] /\ LinkAt(s, k) = s[k + 1]
          BY <2>2, <2>3, <5>1 DEF LinkAt, m
        <5>3. s[k] # s[m]
          BY <1>0, <1>1, <3>1, <4>4 DEF Distinct, m
        <5> QED
          BY <2>9, <4>1, <4>2, <5>2, <5>3
      <4> QED
        BY <4>3, <4>4
    <3>2. CASE k \notin 1..m
      <4>1. PICK j \in 1..q : k = m + j
        BY <2>5, <3>2
      <4>2. t[k] = x[j] /\ x[j] \in 1..Beyond /\ x[j] \in PagesIn(x)
        BY <1>6, <2>4, <4>1 DEF q
      <4>3. new[x[j]] = LinkAt(x, j)
        BY <2>8, <2>9, <2>10, <2>12, <4>2
      <4>4. CASE j = q
        <5>1. ~(k < m + q) /\ ~(j < q)
          BY <1>1, <2>1, <4>1, <4>4
        <5> QED
          BY <2>2, <4>2, <4>3, <5>1 DEF LinkAt, q
      <4>5. CASE j # q
        <5>1. k < m + q /\ j < q /\ j + 1 \in 1..q /\ k + 1 = m + (j + 1)
          BY <1>1, <2>1, <4>1, <4>5
        <5>2. t[k + 1] = x[j + 1]
          BY <2>4, <5>1
        <5>3. LinkAt(t, k) = t[k + 1]
          BY <2>2, <5>1 DEF LinkAt
        <5>4. LinkAt(x, j) = x[j + 1]
          BY <5>1 DEF LinkAt, q
        <5> QED
          BY <4>2, <4>3, <5>2, <5>3, <5>4
      <4> QED
        BY <4>4, <4>5
    <3> QED
      BY <3>1, <3>2
  <2>16. Relinks(mh, new, s, t)
    BY <2>6, <2>7, <2>8, <2>9, <2>10, <2>12, <2>13, <2>14, <2>15 DEF Relinks
  <2>17. MovesFrom(r.from, s, t)
    <3>1. Extends(s, t)
      BY <2>3 DEF Extends, m
    <3> QED
      BY <2>1, <3>1, Stays
  <2>18. HandleOf(s[1], t)
    <3>1. t[1] = s[1]
      BY <1>1, <2>3
    <3>2. t # <<>>
      BY <1>1, <2>1, <2>2, EmptySeq
    <3> QED
      BY <3>1, <3>2 DEF HandleOf
  <2>19. Len(t) = n
    BY <1>1, <2>1, <2>2 DEF m
  <2> QED
    BY <2>1, <2>16, <2>17, <2>18, <2>19 DEF Resized
<1> QED
  BY <1>7, <1>8


\* A run of pages, by its first one.
LEMMA Run ==
  ASSUME NEW s, Listed(s), Neighbours(s), s # <<>>, NEW a, a = s[1]
  PROVE  /\ a \in Nat /\ Len(s) \in Nat /\ Len(s) > 0
         /\ \A k \in 1..Len(s) : s[k] = a + k - 1 /\ s[k] \in Pages
         /\ \A p \in Int : a <= p /\ p < a + Len(s) => p \in PagesIn(s) /\ p \in Pages
<1>1. Len(s) \in Nat /\ Len(s) > 0 /\ 1 \in 1..Len(s)
  BY NotEmpty DEF Listed
<1>2. \A k \in 1..Len(s) : s[k] = a + k - 1 /\ s[k] \in Pages
  BY DEF Neighbours
<1>3. a \in Nat
  <2>1. a \in Pages
    BY <1>1, <1>2
  <2> QED
    BY <2>1, NAssumption DEF Pages
<1>4. ASSUME NEW p \in Int, a <= p, p < a + Len(s)
      PROVE  p \in PagesIn(s) /\ p \in Pages
  <2>1. p - a + 1 \in 1..Len(s) /\ a + (p - a + 1) - 1 = p
    BY <1>1, <1>3, <1>4
  <2>2. s[p - a + 1] = p /\ s[p - a + 1] \in Pages
    BY <1>2, <2>1
  <2>3. s[p - a + 1] \in PagesIn(s)
    BY <2>1 DEF Listed
  <2> QED
    BY <2>2, <2>3
<1> QED
  BY <1>1, <1>2, <1>3, <1>4

\* The contents of a run moved to another run.
LEMMA RunMoves ==
  ASSUME NEW s, Listed(s), Neighbours(s), s # <<>>,
         NEW x, Listed(x), Neighbours(x), x # <<>>, Len(s) < Len(x),
         NEW from, from = [p \in Pages |-> IF p \in x[1]..x[1] + Len(s) - 1
                                           THEN s[1] + p - x[1] ELSE p]
  PROVE  MovesFrom(from, s, x)
<1> DEFINE a == s[1]
           b == x[1]
           m == Len(s)
<1>1. /\ a \in Nat /\ m \in Nat /\ m > 0
      /\ \A k \in 1..m : s[k] = a + k - 1 /\ s[k] \in Pages
      /\ \A p \in Int : a <= p /\ p < a + m => p \in Pages
  BY Run
<1>2. /\ b \in Nat /\ Len(x) \in Nat
      /\ \A k \in 1..Len(x) : x[k] = b + k - 1
      /\ \A p \in Int : b <= p /\ p < b + Len(x) => p \in PagesIn(x)
  BY Run
<1>3. \A p \in Pages : p \in Int
  BY NAssumption DEF Pages
<1>4. \A p \in Pages : from[p] = IF p \in b..b + m - 1 THEN a + p - b ELSE p
  OBVIOUS
<1>5. from = [p \in Pages |-> from[p]] /\ m < Len(x)
  OBVIOUS
<1> HIDE DEF a, b
<1>6. ASSUME NEW p \in Pages
      PROVE  from[p] \in Pages
  <2>1. CASE p \in b..b + m - 1
    <3> HIDE DEF m
    <3>1. a + p - b \in Int /\ a <= a + p - b /\ a + p - b < a + m
      BY <1>1, <1>2, <1>3, <2>1
    <3> QED
      BY <1>1, <1>4, <2>1, <3>1
  <2>2. CASE p \notin b..b + m - 1
    BY <1>4, <2>2
  <2> QED
    BY <2>1, <2>2
<1>7. ASSUME NEW k \in 1..m, k <= Len(x), x[k] \in Pages
      PROVE  from[x[k]] = s[k]
  <2> HIDE DEF m
  <2>1. k \in 1..Len(x) /\ x[k] = b + k - 1
    BY <1>1, <1>2, <1>7
  <2>2. b + k - 1 \in b..b + m - 1 /\ a + (b + k - 1) - b = a + k - 1
    BY <1>1, <1>2
  <2> QED
    BY <1>1, <1>4, <1>7, <2>1, <2>2
<1>8. ASSUME NEW p \in Pages \ PagesIn(x)
      PROVE  from[p] = p
  <2> HIDE DEF m
  <2>1. p \notin b..b + m - 1
    <3> SUFFICES ASSUME p \in b..b + m - 1
                 PROVE  FALSE
      OBVIOUS
    <3>1. p \in Int /\ b <= p /\ p < b + Len(x)
      BY <1>1, <1>2, <1>3, <1>5
    <3> QED
      BY <1>2, <3>1
  <2> QED
    BY <1>4, <2>1
<1>9. from \in [Pages -> Pages]
  BY <1>5, <1>6
<1> QED
  BY <1>7, <1>8, <1>9 DEF MovesFrom

\* A block is moved: taken anew, copied and given back where it was.
LEMMA Moves ==
  ASSUME NEW mh, NEW B, Layout(mh, B), B[Spare] = <<>>, NEW o \in Holders, o # Spare,
         NEW s, s = B[o], s # <<>>, Neighbours(s), NEW n \in Nat, n > Len(s),
         NEW r, r = MoveBlock(mh, s, n), NEW sequence \in BOOLEAN, sequence
  PROVE  \E t : Resized(mh, s, n, sequence, r, t)
<1> DEFINE new == MEM_AllocatePages(mh, n, TRUE)
           last == MEM_ReleasePages(new.mh, s[1])
<1>0. /\ Distinct(s) /\ Listed(s) /\ Linked(mh, s) /\ mh \in [1..Beyond -> Words]
      /\ DOMAIN mh = 1..Beyond /\ \A p \in PagesIn(s) : mh[p] # 0
  BY BlockOf
<1>1. PICK x : Allocated(mh, n, TRUE, new, x)
  <2>1. PICK new2 : new2 = new
    OBVIOUS
  <2>2. PICK f \in BOOLEAN : f = TRUE
    OBVIOUS
  <2>3. new2 = MEM_AllocatePages(mh, n, f)
    BY <2>1, <2>2
  <2> HIDE DEF new
  <2>4. \E x : Allocated(mh, n, f, new2, x)
    BY <1>0, <2>3, Allocates
  <2> QED
    BY <2>1, <2>2, <2>4
<1>2. /\ Relinks(mh, new.mh, <<>>, x) /\ Fresh(mh, x)
      /\ new.handle = IF x = <<>> THEN 0 ELSE x[1]
      /\ x # <<>> => Len(x) = n
      /\ Neighbours(x)
  BY <1>1 DEF Allocated
<1>3. /\ new.handle = 0 => r = Outcome(mh, s[1], FALSE)
      /\ new.handle # 0 =>
           /\ r.mh = last /\ r.handle = new.handle /\ r.ok = TRUE
           /\ r.from = [p \in Pages |-> IF p \in new.handle..new.handle + Len(s) - 1
                                        THEN s[1] + p - new.handle ELSE p]
  <2> DEFINE F == [p \in Pages |-> IF p \in new.handle..new.handle + Len(s) - 1
                                  THEN s[1] + p - new.handle ELSE p]
  <2>1. r = IF new.handle = 0 THEN Outcome(mh, s[1], FALSE)
            ELSE [mh |-> last, handle |-> new.handle, ok |-> TRUE, from |-> F]
    BY DEF MoveBlock
  <2>2. new.handle = 0 => r = Outcome(mh, s[1], FALSE)
    <3> HIDE DEF new, last, F
    <3> QED
      BY <2>1
  <2>3. new.handle # 0 => r.mh = last /\ r.handle = new.handle /\ r.ok = TRUE /\ r.from = F
    <3> HIDE DEF new, last, F
    <3> QED
      BY <2>1
  <2> QED
    BY <2>2, <2>3
<1> HIDE DEF new
<1>4. Distinct(x) /\ Listed(x)
  BY <1>2, DistinctListed DEF Fresh
<1>5. CASE x = <<>>
  <2>1. r.mh = mh /\ r.handle = s[1] /\ r.ok = FALSE /\ r.from = Stay
    BY <1>2, <1>3, <1>5 DEF Outcome
  <2>2. MovesFrom(r.from, s, s)
    BY <2>1, Stays DEF Extends
  <2>3. Relinks(mh, r.mh, s, s)
    BY <2>1, Unchanged
  <2> QED
    BY <2>1, <2>2, <2>3 DEF Resized, HandleOf
<1>6. CASE x # <<>>
  <2>1. 1 \in 1..Len(x) /\ x[1] \in 1..Beyond
    BY <1>4, <1>6, NotEmpty DEF Listed
  <2>2. /\ r.mh = last /\ r.handle = x[1] /\ r.ok = TRUE
        /\ r.from = [p \in Pages |-> IF p \in x[1]..x[1] + Len(s) - 1
                                     THEN s[1] + p - x[1] ELSE p]
    <3>1. x[1] # 0
      BY <2>1, NAssumption DEF Beyond
    <3> HIDE DEF last
    <3> QED
      BY <1>2, <1>3, <1>6, <3>1
  <2>3. Spare \in Holders
    BY DEF Holders
  <2> DEFINE C == [B EXCEPT ![Spare] = x]
  <2>4. Layout(new.mh, C)
    BY <1>2, <2>3, Relaid
  <2>5. C[o] = s
    BY DEF Layout
  <2> HIDE DEF C
  <2>6. Relinks(new.mh, last, s, <<>>)
    BY <2>4, <2>5, Released
  <2>7. \A p \in PagesIn(x) : mh[p] = 0 /\ p \notin PagesIn(s) /\ p \in 1..Beyond
    <3>1. \A k \in 1..Len(x) : mh[x[k]] = 0
      BY <1>2 DEF Fresh
    <3> QED
      BY <1>0, <1>4, <3>1 DEF Listed
  <2>8. \A k \in 1..Len(x) : new.mh[x[k]] = LinkAt(x, k) /\ x[k] \in PagesIn(x)
    BY <1>2, <1>4 DEF Relinks, Linked, Listed
  <2>9. \A p \in 1..Beyond : last[p] = IF p \in PagesIn(s) THEN 0 ELSE new.mh[p]
    BY <2>6, NoBlock DEF Relinks
  <2>10. \A p \in (1..Beyond) \ PagesIn(x) : new.mh[p] = mh[p]
    BY <1>2, NoBlock DEF Relinks
  <2>11. last \in [1..Beyond -> Words]
    BY <2>6 DEF Relinks
  <2> HIDE DEF last
  <2>12. Linked(last, x)
    BY <2>7, <2>8, <2>9 DEF Linked
  <2>13. Relinks(mh, last, s, x)
    BY <1>4, <2>7, <2>9, <2>10, <2>11, <2>12 DEF Relinks
  <2>14. MovesFrom(r.from, s, x)
    BY <1>0, <1>2, <1>4, <1>6, <2>2, RunMoves
  <2> QED
    BY <1>2, <1>6, <2>2, <2>13, <2>14 DEF Resized, HandleOf
<1> QED
  BY <1>5, <1>6


\* A handle tells the block.
LEMMA HandleChain ==
  ASSUME NEW mh, NEW B, Layout(mh, B), NEW o \in Holders, NEW s, s = B[o],
         NEW h, HandleOf(h, s)
  PROVE  /\ Chain(mh, h) = s /\ h \in Words /\ h \in Int
         /\ s = <<>> <=> h <= 0
         /\ s # <<>> => h = s[1] /\ h > 0
<1>1. Listed(s)
  BY BlockOf
<1>2. CASE s = <<>>
  <2>1. h \in {0, EndOfBlock}
    BY <1>2 DEF HandleOf
  <2>2. Chain(mh, h) = <<>>
    BY <2>1, ChainNone
  <2> QED
    BY <1>2, <2>1, <2>2 DEF Words, EndOfBlock
<1>3. CASE s # <<>>
  <2>1. h = s[1] /\ h \in 1..Beyond
    BY <1>1, <1>3, NotEmpty DEF HandleOf, Listed
  <2>2. Chain(mh, h) = s
    BY <1>3, <2>1, ChainIs
  <2>3. Beyond \in Int
    BY NAssumption DEF Beyond
  <2> QED
    BY <1>3, <2>1, <2>2, <2>3 DEF Words
<1> QED
  BY <1>2, <1>3

\* The same for a handle of no block: nothing is cleared.
LEMMA Releases ==
  ASSUME NEW mh, NEW B, Layout(mh, B), NEW o \in Holders, NEW s, s = B[o],
         NEW h, HandleOf(h, s)
  PROVE  Relinks(mh, MEM_ReleasePages(mh, h), s, <<>>)
<1>1. CASE s = <<>>
  <2>1. Chain(mh, h) = <<>> /\ DOMAIN mh = 1..Beyond /\ mh \in [1..Beyond -> Words]
    BY <1>1, HandleChain, BlockOf
  <2>2. ~\E k \in DOMAIN <<>> : TRUE
    BY EmptySeq
  <2>3. MEM_ReleasePages(mh, h) = [p \in 1..Beyond |-> mh[p]]
    BY <2>1, <2>2 DEF MEM_ReleasePages
  <2>4. MEM_ReleasePages(mh, h) = mh
    BY <2>1, <2>3
  <2> QED
    BY <1>1, <2>4, Unchanged
<1>2. CASE s # <<>>
  <2>1. h = s[1]
    BY <1>2 DEF HandleOf
  <2> QED
    BY <1>2, <2>1, Released
<1> QED
  BY <1>1, <1>2

\* Every branch of MEM_ReAllocatePages makes a block of one holder out of its old one.
LEMMA ReAllocates ==
  ASSUME NEW mh, NEW B, Layout(mh, B), B[Spare] = <<>>, NEW o \in Holders, o # Spare,
         NEW s, s = B[o], NEW h, HandleOf(h, s), NEW n \in Nat,
         NEW sequence \in BOOLEAN, sequence => Neighbours(s),
         NEW r, r = MEM_ReAllocatePages(mh, h, n, sequence)
  PROVE  \E t : Resized(mh, s, n, sequence, r, t)
<1> DEFINE new == MEM_AllocatePages(mh, n, sequence)
<1>1. /\ Chain(mh, h) = s /\ h \in Int
      /\ s = <<>> <=> h <= 0
      /\ s # <<>> => h = s[1]
  BY HandleChain
<1>2. /\ Distinct(s) /\ Listed(s) /\ mh \in [1..Beyond -> Words] /\ Len(s) \in Nat
      /\ s = <<>> => Len(s) = 0
  <2>1. Distinct(s) /\ Listed(s) /\ mh \in [1..Beyond -> Words]
    BY BlockOf
  <2>2. s = <<>> => Len(s) = 0
    BY NoBlock
  <2> QED
    BY <2>1, <2>2 DEF Listed
<1>3. /\ h <= 0 /\ n = 0 => r = Outcome(mh, h, TRUE)
      /\ h <= 0 /\ n > 0 => r = Outcome(new.mh, new.handle, new.handle > 0)
      /\ h > 0 /\ n = 0 => r = Outcome(MEM_ReleasePages(mh, h), EndOfBlock, TRUE)
      /\ h > 0 /\ n > 0 /\ n = Len(s) => r = Outcome(mh, h, TRUE)
      /\ h > 0 /\ n > 0 /\ n < Len(s) => r = ShrinkBlock(mh, s, n)
      /\ h > 0 /\ n > Len(s) /\ ~sequence => r = AppendBlock(mh, s, n)
      /\ h > 0 /\ n > Len(s) /\ sequence =>
           r = IF FreeBehind(mh, s[Len(s)]) >= n - Len(s)
               THEN GrowInPlace(mh, s, n) ELSE MoveBlock(mh, s, n)
  <2> DEFINE r2 == Outcome(new.mh, new.handle, new.handle > 0)
             r3 == Outcome(MEM_ReleasePages(mh, h), EndOfBlock, TRUE)
             r4 == Outcome(mh, h, TRUE)
             r5 == ShrinkBlock(mh, s, n)
             r6 == AppendBlock(mh, s, n)
             r7 == IF FreeBehind(mh, s[Len(s)]) >= n - Len(s)
                   THEN GrowInPlace(mh, s, n) ELSE MoveBlock(mh, s, n)
  <2>1. PICK m : m = Len(s)
    OBVIOUS
  <2>2. r = CASE h <= 0 /\ n = 0 -> r4
              [] h <= 0 /\ n > 0 -> r2
              [] h > 0 /\ n = 0 -> r3
              [] h > 0 /\ n > 0 /\ n = m -> r4
              [] h > 0 /\ n > 0 /\ n < m -> r5
              [] h > 0 /\ n > m /\ ~sequence -> r6
              [] h > 0 /\ n > m /\ sequence -> r7
    BY <1>1, <2>1 DEF MEM_ReAllocatePages
  <2> HIDE DEF r2, r3, r4, r5, r6, r7, new
  <2>3. m \in Nat /\ h \in Int
    BY <1>1, <1>2, <2>1
  <2>4. h <= 0 /\ n = 0 => r = r4
    BY <2>2, <2>3
  <2>5. h <= 0 /\ n > 0 => r = r2
    BY <2>2, <2>3
  <2>6. h > 0 /\ n = 0 => r = r3
    BY <2>2, <2>3
  <2>7. h > 0 /\ n > 0 /\ n = m => r = r4
    BY <2>2, <2>3
  <2>8. h > 0 /\ n > 0 /\ n < m => r = r5
    BY <2>2, <2>3
  <2>9. h > 0 /\ n > m /\ ~sequence => r = r6
    BY <2>2, <2>3
  <2>10. h > 0 /\ n > m /\ sequence => r = r7
    BY <2>2, <2>3
  <2> QED
    BY <2>1, <2>4, <2>5, <2>6, <2>7, <2>8, <2>9, <2>10 DEF r2, r3, r4, r5, r6, r7
<1>4. PICK x : Allocated(mh, n, sequence, new, x)
  <2>1. PICK new2 : new2 = new
    OBVIOUS
  <2> HIDE DEF new
  <2>2. new2 = MEM_AllocatePages(mh, n, sequence)
    BY <2>1 DEF new
  <2>3. \E x : Allocated(mh, n, sequence, new2, x)
    BY <1>2, <2>2, Allocates
  <2> QED
    BY <2>1, <2>3
<1> HIDE DEF new
<1>5. CASE h <= 0 /\ n = 0
  <2>1. r = Outcome(mh, h, TRUE)
    BY <1>1, <1>3, <1>5
  <2>2. r.mh = mh /\ r.handle = h /\ r.ok = TRUE /\ r.from = Stay
    BY <2>1 DEF Outcome
  <2>3. MovesFrom(r.from, s, s)
    BY <2>2, Stays DEF Extends
  <2>4. Relinks(mh, r.mh, s, s)
    BY <2>2, Unchanged
  <2>5. Len(s) = n
    BY <1>1, <1>2, <1>5
  <2> QED
    BY <2>2, <2>3, <2>4, <2>5 DEF Resized
<1>6. CASE h <= 0 /\ n > 0
  <2>1. r = Outcome(new.mh, new.handle, new.handle > 0)
    BY <1>1, <1>3, <1>6
  <2>2. r.mh = new.mh /\ r.handle = new.handle /\ r.ok = (new.handle > 0) /\ r.from = Stay
    BY <2>1 DEF Outcome
  <2>3. s = <<>>
    BY <1>1, <1>6
  <2>4. /\ Relinks(mh, new.mh, <<>>, x) /\ Fresh(mh, x)
        /\ new.handle = IF x = <<>> THEN 0 ELSE x[1]
        /\ x # <<>> => Len(x) = n
        /\ sequence => Neighbours(x)
    BY <1>4 DEF Allocated
  <2>5. Extends(s, x)
    <3>1. ~\E k \in 1..Len(s) : TRUE
      BY <1>2, <2>3
    <3> QED
      BY <3>1 DEF Extends
  <2>6. MovesFrom(r.from, s, x)
    BY <2>2, <2>5, Stays
  <2>7. x = <<>> => r.ok = FALSE
    <3> SUFFICES ASSUME x = <<>>
                 PROVE  r.ok = FALSE
      OBVIOUS
    <3>1. new.handle = 0
      BY <2>4
    <3>2. (0 > 0) = FALSE
      OBVIOUS
    <3> QED
      BY <2>2, <3>1, <3>2
  <2>8. x # <<>> => r.ok = TRUE
    <3> SUFFICES ASSUME x # <<>>
                 PROVE  r.ok = TRUE
      OBVIOUS
    <3>1. Listed(x)
      BY <2>4, DistinctListed DEF Fresh
    <3>2. x[1] \in 1..Beyond
      BY <3>1, NotEmpty DEF Listed
    <3>3. x[1] > 0
      BY <3>2, NAssumption DEF Beyond
    <3> QED
      BY <2>2, <2>4, <3>3
  <2>9. HandleOf(r.handle, x)
    BY <2>2, <2>4 DEF HandleOf
  <2> QED
    BY <2>2, <2>3, <2>4, <2>6, <2>7, <2>8, <2>9 DEF Resized
<1>7. CASE h > 0 /\ n = 0
  <2>1. r = Outcome(MEM_ReleasePages(mh, h), EndOfBlock, TRUE)
    BY <1>1, <1>3, <1>7
  <2>2. r.mh = MEM_ReleasePages(mh, h) /\ r.handle = EndOfBlock /\ r.ok = TRUE /\ r.from = Stay
    BY <2>1 DEF Outcome
  <2>3. Extends(s, <<>>)
    <3>1. \A k \in 1..Len(s) : ~(k <= Len(<<>>))
      BY <1>2, NoBlock
    <3> QED
      BY <3>1 DEF Extends
  <2>4. MovesFrom(r.from, s, <<>>)
    BY <2>2, <2>3, Stays
  <2>5. Relinks(mh, r.mh, s, <<>>)
    BY <2>2, Releases
  <2>6. Neighbours(<<>>) /\ Len(<<>>) = n /\ HandleOf(r.handle, <<>>)
    <3>1. ~\E k \in 1..Len(<<>>) : TRUE
      BY NoBlock
    <3> QED
      BY <1>7, <2>2, <3>1, NoBlock DEF Neighbours, HandleOf
  <2> QED
    BY <2>2, <2>4, <2>5, <2>6 DEF Resized
<1>8. CASE h > 0 /\ n > 0 /\ n = Len(s)
  <2>1. r = Outcome(mh, h, TRUE)
    BY <1>1, <1>2, <1>3, <1>8
  <2>2. r.mh = mh /\ r.handle = h /\ r.ok = TRUE /\ r.from = Stay
    BY <2>1 DEF Outcome
  <2>3. MovesFrom(r.from, s, s)
    BY <2>2, Stays DEF Extends
  <2>4. Relinks(mh, r.mh, s, s)
    BY <2>2, Unchanged
  <2> QED
    BY <1>8, <2>2, <2>3, <2>4 DEF Resized
<1>9. CASE h > 0 /\ n > 0 /\ n < Len(s)
  <2>1. r = ShrinkBlock(mh, s, n)
    BY <1>1, <1>2, <1>3, <1>9
  <2>2. n \in 1..Len(s)
    BY <1>2, <1>9
  <2> QED
    BY <1>9, <2>1, <2>2, Shrinks
<1>10. CASE h > 0 /\ n > Len(s) /\ ~sequence
  <2>1. r = AppendBlock(mh, s, n)
    BY <1>1, <1>2, <1>3, <1>10
  <2>2. s # <<>>
    BY <1>1, <1>10
  <2>3. PICK t : Resized(mh, s, n, FALSE, r, t)
    BY <1>10, <2>1, <2>2, Appends
  <2> QED
    BY <1>10, <2>3 DEF Resized
<1>11. CASE h > 0 /\ n > Len(s) /\ sequence
  <2>1. r = IF FreeBehind(mh, s[Len(s)]) >= n - Len(s)
            THEN GrowInPlace(mh, s, n) ELSE MoveBlock(mh, s, n)
    BY <1>1, <1>2, <1>3, <1>11
  <2>2. s # <<>> /\ Neighbours(s)
    BY <1>1, <1>11
  <2>3. CASE FreeBehind(mh, s[Len(s)]) >= n - Len(s)
    BY <1>11, <2>1, <2>2, <2>3, Grows
  <2>4. CASE ~(FreeBehind(mh, s[Len(s)]) >= n - Len(s))
    BY <1>11, <2>1, <2>2, <2>4, Moves
  <2> QED
    BY <2>3, <2>4
<1> QED
  BY <1>1, <1>2, <1>5, <1>6, <1>7, <1>8, <1>9, <1>10, <1>11


-----------------------------------------------------------------------------
(* What the pages hold *)

\* The holders whose pages are numbered: the handles of the two drivers.
Named == ({"xms"} \X XmsIds) \cup ({"ems"} \X EmsIds)

Stored == {Empty} \cup (Owners \X (1..Beyond))

\* Of each block of the layout C, what the program stored is at its place; of
\* o's only up to place len.
Ready(c, C, o, len) ==
  \A q \in Named : \A k \in 1..Len(C[q]) :
     C[q][k] \in Pages /\ (q = o => k <= len) => c[C[q][k]] = <<q, k>>

Kept(c, C) ==
  \A q \in Named : \A k \in 1..Len(C[q]) : C[q][k] \in Pages => c[C[q][k]] = <<q, k>>

\* The handles are holders and owners, the spare holder is none of them.
LEMMA NamedHolders ==
  /\ Named \subseteq Holders /\ Named \subseteq Owners /\ Spare \notin Named /\ Spare \in Holders
  /\ \A h \in XmsIds : <<"xms", h>> \in Named
  /\ \A h \in EmsIds : <<"ems", h>> \in Named
  /\ \A p \in 1..Beyond : <<"vcpi", p>> \in Holders /\ <<"vcpi", p>> \notin Named
BY DEF Named, Holders, Owners, Spare

\* A block has no more pages than the array has words.
LEMMA BlockLength ==
  ASSUME NEW s, Distinct(s)
  PROVE  Len(s) \in Nat /\ Len(s) <= Beyond
<1>1. /\ Len(s) \in Nat /\ \A j, k \in 1..Len(s) : s[j] = s[k] => j = k
      /\ s \in [1..Len(s) -> 1..Beyond]
  BY InBlock, LenProperties DEF Distinct
<1>2. Beyond \in Nat /\ Len(s) \in Nat
  BY <1>1, NAssumption DEF Beyond
<1>3. s \in Injection(1..Len(s), 1..Beyond)
  BY <1>1 DEF Injection, IsInjective
<1>4. IsFiniteSet(1..Beyond) /\ Cardinality(1..Beyond) = IF 1 > Beyond THEN 0 ELSE Beyond - 1 + 1
  BY <1>2, FS_Interval
<1>5. Cardinality(1..Len(s)) = IF 1 > Len(s) THEN 0 ELSE Len(s) - 1 + 1
  BY <1>2, FS_Interval
<1>6. Cardinality(1..Len(s)) <= Cardinality(1..Beyond)
  BY <1>3, <1>4, FS_Injection
<1>7. Cardinality(1..Beyond) = Beyond /\ Cardinality(1..Len(s)) = Len(s)
  BY <1>2, <1>4, <1>5
<1> QED
  BY <1>1, <1>6, <1>7

\* What the program fills in goes to its place, and what is stored elsewhere stays.
LEMMA FilledKeeps ==
  ASSUME NEW mh, NEW C, Layout(mh, C), NEW o \in Holders, NEW s, s = C[o],
         NEW owner \in Owners, o \in Named => owner = o, NEW len \in Nat,
         NEW old \in [Pages -> Stored], Ready(old, C, o, len),
         NEW new, new = Filled(old, mh, owner, s, len)
  PROVE  Kept(new, C) /\ new \in [Pages -> Stored]
<1> DEFINE at(p) == CHOOSE k \in len + 1..Len(s) : s[k] = p
           late(p) == \E k \in len + 1..Len(s) : s[k] = p
<1>0. Distinct(s) /\ Listed(s) /\ Len(s) \in Nat /\ Len(s) <= Beyond
  BY BlockOf, BlockLength
<1>1. /\ new = [p \in Pages |-> new[p]]
      /\ \A p \in Pages : mh[p] = 0 => new[p] = Empty
      /\ \A p \in Pages : mh[p] # 0 /\ late(p) => new[p] = <<owner, at(p)>>
      /\ \A p \in Pages : mh[p] # 0 /\ ~late(p) => new[p] = old[p]
  BY DEF Filled
<1>2. \A k \in len + 1..Len(s) : at(s[k]) = k /\ late(s[k])
  <2>1. \A k \in len + 1..Len(s) : k \in 1..Len(s)
    BY <1>0
  <2>2. \A j, k \in 1..Len(s) : s[j] = s[k] => j = k
    BY <1>0 DEF Distinct
  <2> QED
    BY <2>1, <2>2
<1>3. \A p : late(p) => at(p) \in 1..Beyond
  <2> SUFFICES ASSUME NEW p, late(p)
               PROVE  at(p) \in 1..Beyond
    OBVIOUS
  <2>1. PICK k \in len + 1..Len(s) : s[k] = p
    OBVIOUS
  <2>2. at(p) = k
    BY <1>2, <2>1
  <2>3. Beyond \in Nat
    BY NAssumption DEF Beyond
  <2> HIDE DEF at, late
  <2> QED
    BY <1>0, <2>1, <2>2, <2>3
<1> HIDE DEF at, late
<1>4. ASSUME NEW p \in Pages
      PROVE  new[p] \in Stored
  <2>1. Empty \in Stored /\ \A k \in 1..Beyond : <<owner, k>> \in Stored
    BY DEF Stored
  <2>2. old[p] \in Stored
    OBVIOUS
  <2> QED
    BY <1>1, <1>3, <2>1, <2>2
<1>5. ASSUME NEW q \in Named, NEW k \in 1..Len(C[q]), C[q][k] \in Pages
      PROVE  new[C[q][k]] = <<q, k>>
  <2> DEFINE p == C[q][k]
  <2>0. q \in Holders
    BY NamedHolders
  <2>1. p \in PagesIn(C[q]) /\ mh[p] # 0 /\ p \in Pages
    BY <1>5, <2>0, BlockOf DEF Listed
  <2>2. CASE q = o /\ k > len
    <3>1. k \in len + 1..Len(s) /\ p = s[k]
      BY <1>0, <2>2
    <3>2. at(p) = k /\ late(p)
      BY <1>2, <3>1
    <3> QED
      BY <1>1, <2>1, <2>2, <3>2
  <2>3. CASE q = o /\ ~(k > len)
    <3>1. k \in 1..Len(s) /\ p = s[k] /\ k <= len
      BY <1>0, <2>3
    <3>2. ~late(p)
      <4> SUFFICES ASSUME NEW j \in len + 1..Len(s), s[j] = p
                   PROVE  FALSE
        BY DEF late
      <4>1. j \in 1..Len(s) /\ j # k
        BY <1>0, <3>1
      <4> QED
        BY <1>0, <3>1, <4>1 DEF Distinct
    <3>3. old[p] = <<q, k>>
      BY <1>5, <3>1 DEF Ready
    <3> QED
      BY <1>1, <2>1, <3>2, <3>3
  <2>4. CASE q # o
    <3>1. ~late(p)
      <4> SUFFICES ASSUME NEW j \in len + 1..Len(s), s[j] = p
                   PROVE  FALSE
        BY DEF late
      <4>1. j \in 1..Len(s)
        BY <1>0
      <4>2. p \in PagesIn(s)
        BY <1>0, <4>1 DEF Listed
      <4> QED
        BY <2>0, <2>1, <2>4, <4>2 DEF Layout
    <3>2. old[p] = <<q, k>>
      BY <1>5, <2>4 DEF Ready
    <3> QED
      BY <1>1, <2>1, <3>1, <3>2
  <2> QED
    BY <2>2, <2>3, <2>4
<1>6. new \in [Pages -> Stored]
  BY <1>1, <1>4
<1> QED
  BY <1>5, <1>6 DEF Kept

\* No block but o's is another one, and o's is t.
Swaps(B, C, o, t) ==
  DOMAIN C = DOMAIN B /\ C[o] = t /\ \A q \in Holders \ {o} : C[q] = B[q]

\* Changing one entry of the layout swaps that block.
LEMMA SwapsIs ==
  ASSUME NEW mh, NEW B, Layout(mh, B), NEW o \in Holders, NEW t,
         NEW C, C = [B EXCEPT ![o] = t]
  PROVE  Swaps(B, C, o, t)
BY DEF Layout, Swaps

\* What is given back takes nothing from the other blocks.
LEMMA ErasedKeeps ==
  ASSUME NEW mh, NEW B, NEW C, Layout(mh, C), NEW o \in Holders, Swaps(B, C, o, <<>>),
         NEW old \in [Pages -> Stored], Kept(old, B),
         NEW new, new = [p \in Pages |-> IF mh[p] = 0 THEN Empty ELSE old[p]]
  PROVE  Kept(new, C) /\ new \in [Pages -> Stored]
<1>1. ASSUME NEW q \in Named, NEW k \in 1..Len(C[q]), C[q][k] \in Pages
      PROVE  new[C[q][k]] = <<q, k>>
  <2>1. q \in Holders
    BY NamedHolders
  <2>2. q # o /\ C[q] = B[q]
    <3>1. CASE q = o
      <4>1. C[q] = <<>> /\ Len(<<>>) = 0
        BY <3>1, NoBlock DEF Swaps
      <4> QED
        BY <4>1
    <3> QED
      BY <2>1, <3>1 DEF Swaps
  <2>3. mh[C[q][k]] # 0
    BY <2>1, BlockOf DEF Listed
  <2>4. old[C[q][k]] = <<q, k>>
    BY <1>1, <2>2 DEF Kept
  <2> QED
    BY <1>1, <2>3, <2>4
<1>2. new \in [Pages -> Stored]
  <2>1. Empty \in Stored /\ \A p \in Pages : old[p] \in Stored
    BY DEF Stored
  <2>2. \A p \in Pages : (IF mh[p] = 0 THEN Empty ELSE old[p]) \in Stored
    BY <2>1
  <2> QED
    BY <2>2
<1> QED
  BY <1>1, <1>2 DEF Kept

\* A new block is ready to be filled.
LEMMA NewReady ==
  ASSUME NEW B, NEW C, NEW o \in Holders, NEW t, Swaps(B, C, o, t), NEW c, Kept(c, B)
  PROVE  Ready(c, C, o, 0)
<1> SUFFICES ASSUME NEW q \in Named, NEW k \in 1..Len(C[q]), C[q][k] \in Pages, q = o => k <= 0
             PROVE  c[C[q][k]] = <<q, k>>
  BY DEF Ready
<1>1. q # o
  <2>1. ~(k <= 0)
    OBVIOUS
  <2> QED
    BY <2>1
<1>2. C[q] = B[q]
  BY <1>1, NamedHolders DEF Swaps
<1> QED
  BY <1>2 DEF Kept

\* What a resized block had is ready where its contents were moved.
LEMMA MovedReady ==
  ASSUME NEW mh, NEW B, NEW C, Layout(mh, C), NEW o \in Holders, NEW s, s = B[o],
         NEW t, Swaps(B, C, o, t), NEW from, MovesFrom(from, s, t),
         NEW len, len = Len(s), Len(s) \in Nat,
         NEW old \in [Pages -> Stored], Kept(old, B),
         NEW c, c = [p \in Pages |-> old[from[p]]]
  PROVE  Ready(c, C, o, len) /\ c \in [Pages -> Stored]
<1>1. /\ from \in [Pages -> Pages]
      /\ \A k \in 1..Len(s) : k <= Len(t) /\ t[k] \in Pages => from[t[k]] = s[k]
      /\ \A p \in Pages \ PagesIn(t) : from[p] = p
  BY DEF MovesFrom
<1>2. \A p \in Pages : c[p] = old[from[p]]
  OBVIOUS
<1>3. c \in [Pages -> Stored]
  <2>1. \A p \in Pages : old[from[p]] \in Stored
    BY <1>1
  <2> QED
    BY <2>1
<1>4. ASSUME NEW q \in Named, NEW k \in 1..Len(C[q]), C[q][k] \in Pages, q = o => k <= len
      PROVE  c[C[q][k]] = <<q, k>>
  <2>0. q \in Holders /\ Len(C[q]) \in Nat
    BY NamedHolders, BlockOf DEF Listed
  <2>1. CASE q = o
    <3>1. C[q] = t /\ k \in 1..Len(s) /\ k <= Len(t) /\ t[k] \in Pages
      BY <1>4, <2>0, <2>1 DEF Swaps
    <3>2. from[t[k]] = s[k] /\ s[k] \in Pages
      BY <1>1, <3>1
    <3>3. old[s[k]] = <<q, k>>
      BY <2>1, <3>1, <3>2 DEF Kept
    <3> QED
      BY <1>2, <3>1, <3>2, <3>3
  <2>2. CASE q # o
    <3>1. C[q] = B[q]
      BY <2>0, <2>2 DEF Swaps
    <3>2. C[q][k] \in PagesIn(C[q])
      BY <2>0, BlockOf DEF Listed
    <3>3. C[q][k] \notin PagesIn(t)
      BY <2>0, <2>2, <3>2 DEF Layout, Swaps
    <3>4. from[C[q][k]] = C[q][k]
      BY <1>1, <1>4, <3>3
    <3>5. old[C[q][k]] = <<q, k>>
      BY <1>4, <3>1 DEF Kept
    <3> QED
      BY <1>2, <1>4, <3>4, <3>5
  <2> QED
    BY <2>1, <2>2
<1> QED
  BY <1>3, <1>4 DEF Ready


-----------------------------------------------------------------------------
(* The invariant *)

XmsRecord == [free : BOOLEAN, mem : Words, size : Nat, locked : 0..MaxLock]
EmsRecord == [pages : Nat \cup {Null}, mem : Words]

\* The block s fits what an XMS or EMS handle says of it.
XmsBlockFits(r, s) ==
  /\ HandleOf(r.mem, s) /\ Neighbours(s)
  /\ Len(s) = PagesOfKb(r.size)
  /\ r.free => r.size = 0

EmsBlockFits(r, s) ==
  /\ HandleOf(r.mem, s)
  /\ Len(s) = IF r.pages = Null THEN 0 ELSE r.pages * PerEms

XmsFits(x, B) ==
  /\ x \in [XmsIds -> XmsRecord]
  /\ \A h \in XmsIds : XmsBlockFits(x[h], B[<<"xms", h>>])

EmsFits(e, B) ==
  /\ e \in [EmsIds -> EmsRecord]
  /\ \A h \in EmsIds : EmsBlockFits(e[h], B[<<"ems", h>>])

VcpiFits(v, B) ==
  /\ v \subseteq 1..Beyond
  /\ \A p \in 1..Beyond : B[<<"vcpi", p>>] = IF p \in v THEN <<p>> ELSE <<>>

\* The holders' blocks B account for the whole array, and for all the drivers say.
Sound(mh, c, x, e, v, B) ==
  /\ Layout(mh, B) /\ B[Spare] = <<>>
  /\ c \in [Pages -> Stored] /\ Kept(c, B)
  /\ XmsFits(x, B) /\ EmsFits(e, B) /\ VcpiFits(v, B)

MemInv ==
  /\ \E B : Sound(mhandles, contents, xms, emm, vcpi, B)
  /\ stopped \in BOOLEAN

\* A step changes one holder's block, and no locked one.
Steps(B) ==
  \E o, t, C :
    /\ o \in Holders /\ Sound(mhandles', contents', xms', emm', vcpi', C)
    /\ Swaps(B, C, o, t) /\ o # Spare
    /\ \A h \in XmsIds : o = <<"xms", h>> => xms[h].free \/ xms[h].locked = 0 \/ xms'[h].free

\* The holders of the handles, and the units the drivers count in.
LEMMA Constants ==
  /\ \A h \in XmsIds : <<"xms", h>> \in Holders /\ <<"xms", h>> # Spare
  /\ \A h \in EmsIds : <<"ems", h>> \in Holders /\ <<"ems", h>> # Spare
  /\ \A p \in 1..Beyond : <<"vcpi", p>> \in Holders /\ <<"vcpi", p>> # Spare
  /\ 0 \in EmsIds /\ XmsIds \subseteq Nat /\ EmsIds \subseteq Nat
  /\ PerEms \in Nat \ {0} /\ PerKb \in Nat \ {0}
BY ExtMemAssumption DEF Holders, Spare, XmsIds, EmsIds

\* The XMS table fits as long as none of its blocks changes.
LEMMA XmsKeeps ==
  ASSUME NEW x, NEW B, XmsFits(x, B), NEW C, NEW o, NEW t, Swaps(B, C, o, t),
         \A h \in XmsIds : o # <<"xms", h>>
  PROVE  XmsFits(x, C)
<1>1. \A h \in XmsIds : C[<<"xms", h>>] = B[<<"xms", h>>]
  BY Constants DEF Swaps
<1> QED
  BY <1>1 DEF XmsFits

\* The EMS table fits as long as none of its blocks changes.
LEMMA EmsKeeps ==
  ASSUME NEW e, NEW B, EmsFits(e, B), NEW C, NEW o, NEW t, Swaps(B, C, o, t),
         \A h \in EmsIds : o # <<"ems", h>>
  PROVE  EmsFits(e, C)
<1>1. \A h \in EmsIds : C[<<"ems", h>>] = B[<<"ems", h>>]
  BY Constants DEF Swaps
<1> QED
  BY <1>1 DEF EmsFits

\* The pages of the VCPI client stay as long as none of them changes.
LEMMA VcpiKeeps ==
  ASSUME NEW v, NEW B, VcpiFits(v, B), NEW C, NEW o, NEW t, Swaps(B, C, o, t),
         \A p \in 1..Beyond : o # <<"vcpi", p>>
  PROVE  VcpiFits(v, C)
<1>1. \A p \in 1..Beyond : C[<<"vcpi", p>>] = B[<<"vcpi", p>>]
  BY Constants DEF Swaps
<1> QED
  BY <1>1 DEF VcpiFits

\* An XMS record is written together with its block.
LEMMA XmsChanges ==
  ASSUME NEW x, NEW B, XmsFits(x, B), NEW C, NEW t, NEW h \in XmsIds,
         Swaps(B, C, <<"xms", h>>, t),
         NEW r \in XmsRecord, XmsBlockFits(r, t), NEW y, y = [x EXCEPT ![h] = r]
  PROVE  XmsFits(y, C) /\ y[h] = r
<1>1. \A g \in XmsIds : C[<<"xms", g>>] = IF g = h THEN t ELSE B[<<"xms", g>>]
  BY Constants DEF Swaps
<1>2. y \in [XmsIds -> XmsRecord] /\ \A g \in XmsIds : y[g] = IF g = h THEN r ELSE x[g]
  BY DEF XmsFits
<1>3. \A g \in XmsIds : XmsBlockFits(x[g], B[<<"xms", g>>])
  BY DEF XmsFits
<1>4. ASSUME NEW g \in XmsIds
      PROVE  XmsBlockFits(y[g], C[<<"xms", g>>])
  BY <1>1, <1>2, <1>3
<1> QED
  BY <1>2, <1>4 DEF XmsFits

\* An EMS record is written together with its block.
LEMMA EmsChanges ==
  ASSUME NEW e, NEW B, EmsFits(e, B), NEW C, NEW t, NEW h \in EmsIds,
         Swaps(B, C, <<"ems", h>>, t),
         NEW r \in EmsRecord, EmsBlockFits(r, t), NEW y, y = [e EXCEPT ![h] = r]
  PROVE  EmsFits(y, C)
<1>1. \A g \in EmsIds : C[<<"ems", g>>] = IF g = h THEN t ELSE B[<<"ems", g>>]
  BY Constants DEF Swaps
<1>2. y \in [EmsIds -> EmsRecord] /\ \A g \in EmsIds : y[g] = IF g = h THEN r ELSE e[g]
  BY DEF EmsFits
<1>3. \A g \in EmsIds : EmsBlockFits(e[g], B[<<"ems", g>>])
  BY DEF EmsFits
<1>4. ASSUME NEW g \in EmsIds
      PROVE  EmsBlockFits(y[g], C[<<"ems", g>>])
  BY <1>1, <1>2, <1>3
<1> QED
  BY <1>2, <1>4 DEF EmsFits

\* A page is added to those of the VCPI client, or taken from them.
LEMMA VcpiChanges ==
  ASSUME NEW v, NEW B, VcpiFits(v, B), NEW C, NEW t, NEW p \in 1..Beyond,
         Swaps(B, C, <<"vcpi", p>>, t), NEW w,
         \/ t = <<p>> /\ w = v \cup {p}
         \/ t = <<>> /\ w = v \ {p}
  PROVE  VcpiFits(w, C)
<1>1. \A q \in 1..Beyond : C[<<"vcpi", q>>] = IF q = p THEN t ELSE B[<<"vcpi", q>>]
  BY Constants DEF Swaps
<1> QED
  BY <1>1 DEF VcpiFits

\* A block is rounded up to whole pages.
LEMMA Rounds ==
  ASSUME NEW size \in Nat, NEW n, n = PagesOfKb(size)
  PROVE  /\ n \in Nat /\ size <= n * PerKb /\ n * PerKb < size + PerKb
         /\ n = 0 <=> size = 0
<1>1. size + PerKb - 1 \in Nat /\ PerKb \in Nat \ {0}
  BY Constants
<1>2. \A a \in Nat, b \in Nat \ {0} :
        (a \div b) \in Nat /\ (a \div b) * b <= a /\ a < (a \div b) * b + b
  OBVIOUS
<1>3. n = (size + PerKb - 1) \div PerKb
  BY DEF PagesOfKb
<1>4. n \in Nat /\ n * PerKb <= size + PerKb - 1 /\ size + PerKb - 1 < n * PerKb + PerKb
  BY <1>1, <1>2, <1>3
<1>5. n * PerKb \in Nat /\ (n = 0 => n * PerKb = 0) /\ (n # 0 => n * PerKb >= PerKb)
  BY <1>1, <1>4
<1>6. PICK q : q = n * PerKb
  OBVIOUS
<1>7. /\ q \in Nat /\ q <= size + PerKb - 1 /\ size + PerKb - 1 < q + PerKb
      /\ (n = 0 => q = 0) /\ (n # 0 => q >= PerKb) /\ PerKb \in Nat \ {0}
  BY <1>1, <1>4, <1>5, <1>6
<1>8. size <= q /\ q < size + PerKb /\ (n = 0 => size = 0) /\ (size = 0 => n = 0)
  BY <1>7
<1> QED
  BY <1>4, <1>6, <1>8

\* The search for a free handle returns one, when there is one.
LEMMA LowestIs ==
  ASSUME NEW S \in SUBSET Nat, S # {}
  PROVE  LowestOf(S) \in S
<1>1. \E h \in S : \A g \in S : h <= g
  BY Least
<1> QED
  BY <1>1 DEF LowestOf


-----------------------------------------------------------------------------
(* The steps *)

\* With the block t for o instead of its own, array and contents are in order.
InOrderFor(mh, c, B, C, o, t) ==
  /\ Layout(mh, C) /\ C[Spare] = <<>>
  /\ c \in [Pages -> Stored] /\ Kept(c, C)
  /\ Swaps(B, C, o, t)

\* A step of another holder leaves the spare block empty.
LEMMA SpareStays ==
  ASSUME NEW B, B[Spare] = <<>>, NEW C, NEW o, o # Spare, NEW t, Swaps(B, C, o, t)
  PROVE  C[Spare] = <<>>
BY NamedHolders DEF Swaps

\* A holder without a block is given the pages of an allocation and fills them.
LEMMA Takes ==
  ASSUME NEW mh, NEW B, Layout(mh, B), B[Spare] = <<>>,
         NEW o \in Holders, o # Spare, B[o] = <<>>,
         NEW n, NEW sequence, NEW r, NEW t, Allocated(mh, n, sequence, r, t),
         NEW owner \in Owners, o \in Named => owner = o,
         NEW c \in [Pages -> Stored], Kept(c, B),
         NEW new, new = Filled(c, r.mh, owner, Chain(r.mh, r.handle), 0)
  PROVE  \E C : InOrderFor(r.mh, new, B, C, o, t)
<1>1. PICK C : C = [B EXCEPT ![o] = t]
  OBVIOUS
<1>2. Relinks(mh, r.mh, B[o], t) /\ HandleOf(r.handle, t)
  BY DEF Allocated, HandleOf
<1>3. Layout(r.mh, C)
  BY <1>1, <1>2, Relaid
<1>4. Swaps(B, C, o, t)
  BY <1>1, SwapsIs
<1>5. C[o] = t
  BY <1>4 DEF Swaps
<1>6. Chain(r.mh, r.handle) = t
  BY <1>2, <1>3, <1>5, HandleChain
<1>7. Ready(c, C, o, 0)
  BY <1>4, NewReady
<1>8. new = Filled(c, r.mh, owner, t, 0) /\ 0 \in Nat
  BY <1>6
<1>9. Kept(new, C) /\ new \in [Pages -> Stored]
  BY <1>3, <1>5, <1>7, <1>8, FilledKeeps
<1>10. C[Spare] = <<>>
  BY <1>4, SpareStays
<1> QED
  BY <1>3, <1>4, <1>9, <1>10 DEF InOrderFor

\* A holder gives its block back.
LEMMA Gives ==
  ASSUME NEW mh, NEW B, Layout(mh, B), B[Spare] = <<>>, NEW o \in Holders, o # Spare,
         NEW now, Relinks(mh, now, B[o], <<>>),
         NEW c \in [Pages -> Stored], Kept(c, B),
         NEW new, new = [p \in Pages |-> IF now[p] = 0 THEN Empty ELSE c[p]]
  PROVE  \E C : InOrderFor(now, new, B, C, o, <<>>)
<1>1. PICK C : C = [B EXCEPT ![o] = <<>>]
  OBVIOUS
<1>3. Layout(now, C)
  BY <1>1, Relaid
<1>4. Swaps(B, C, o, <<>>)
  BY <1>1, SwapsIs
<1>5. Kept(new, C) /\ new \in [Pages -> Stored]
  BY <1>3, <1>4, ErasedKeeps
<1>6. C[Spare] = <<>>
  BY <1>4, SpareStays
<1> QED
  BY <1>3, <1>4, <1>5, <1>6 DEF InOrderFor

\* A holder's block is resized, its contents are moved along, and the rest is filled.
LEMMA TakesResized ==
  ASSUME NEW mh, NEW B, Layout(mh, B), B[Spare] = <<>>, NEW o \in Named,
         NEW s, s = B[o], NEW n, NEW sequence, NEW r, NEW t,
         Resized(mh, s, n, sequence, r, t),
         NEW c \in [Pages -> Stored], Kept(c, B), NEW len, len = Len(s),
         NEW new,
         new = Filled([p \in Pages |-> c[r.from[p]]], r.mh, o, Chain(r.mh, r.handle), len)
  PROVE  \E C : InOrderFor(r.mh, new, B, C, o, t)
<1>1. PICK C : C = [B EXCEPT ![o] = t]
  OBVIOUS
<1>0. o \in Holders /\ o # Spare /\ o \in Owners
  BY NamedHolders
<1>2. Relinks(mh, r.mh, s, t) /\ HandleOf(r.handle, t) /\ MovesFrom(r.from, s, t)
  BY DEF Resized
<1>3. Layout(r.mh, C)
  BY <1>0, <1>1, <1>2, Relaid
<1>4. Swaps(B, C, o, t)
  BY <1>0, <1>1, SwapsIs
<1>5. C[o] = t
  BY <1>4 DEF Swaps
<1>6. Chain(r.mh, r.handle) = t
  BY <1>0, <1>2, <1>3, <1>5, HandleChain
<1>7. len \in Nat
  BY <1>0, BlockOf DEF Listed
<1>8. PICK old : old = [p \in Pages |-> c[r.from[p]]]
  OBVIOUS
<1>9. Ready(old, C, o, len) /\ old \in [Pages -> Stored]
  BY <1>0, <1>2, <1>3, <1>4, <1>7, <1>8, MovedReady
<1>10. new = Filled(old, r.mh, o, t, len)
  BY <1>6, <1>8
<1>11. Kept(new, C) /\ new \in [Pages -> Stored]
  BY <1>0, <1>3, <1>5, <1>7, <1>9, <1>10, FilledKeeps
<1>12. C[Spare] = <<>>
  BY <1>0, <1>4, SpareStays
<1> QED
  BY <1>3, <1>4, <1>11, <1>12 DEF InOrderFor

\* The steps of the XMS handle h.
LEMMA XmsStep ==
  ASSUME NEW B, Sound(mhandles, contents, xms, emm, vcpi, B), NEW h \in XmsIds, NEW t, NEW C,
         InOrderFor(mhandles', contents', B, C, <<"xms", h>>, t),
         NEW r \in XmsRecord, XmsBlockFits(r, t), xms' = [xms EXCEPT ![h] = r],
         UNCHANGED <<emm, vcpi>>, xms[h].free \/ xms[h].locked = 0 \/ r.free
  PROVE  Steps(B)
<1> DEFINE o == <<"xms", h>>
<1>1. Swaps(B, C, o, t) /\ o \in Holders /\ o # Spare
  BY Constants DEF InOrderFor
<1>2. XmsFits(xms', C) /\ xms'[h] = r
  <2>1. XmsFits(xms', C)
    BY <1>1, XmsChanges DEF Sound
  <2>2. DOMAIN xms = XmsIds
    BY DEF Sound, XmsFits
  <2> QED
    BY <2>1, <2>2
<1>3. \A g \in EmsIds : o # <<"ems", g>>
  OBVIOUS
<1>4. \A p \in 1..Beyond : o # <<"vcpi", p>>
  OBVIOUS
<1>5. \A g \in XmsIds : o = <<"xms", g>> => g = h
  OBVIOUS
<1> HIDE DEF o
<1>6. EmsFits(emm', C)
  BY <1>1, <1>3, EmsKeeps DEF Sound
<1>7. VcpiFits(vcpi', C)
  BY <1>1, <1>4, VcpiKeeps DEF Sound
<1>8. Sound(mhandles', contents', xms', emm', vcpi', C)
  BY <1>2, <1>6, <1>7 DEF Sound, InOrderFor
<1> QED
  BY <1>1, <1>2, <1>5, <1>8 DEF Steps

\* The steps of the EMS handle h.
LEMMA EmsStep ==
  ASSUME NEW B, Sound(mhandles, contents, xms, emm, vcpi, B), NEW h \in EmsIds, NEW t, NEW C,
         InOrderFor(mhandles', contents', B, C, <<"ems", h>>, t),
         NEW r \in EmsRecord, EmsBlockFits(r, t), emm' = [emm EXCEPT ![h] = r],
         UNCHANGED <<xms, vcpi>>
  PROVE  Steps(B)
<1> DEFINE o == <<"ems", h>>
<1>1. Swaps(B, C, o, t) /\ o \in Holders /\ o # Spare
  BY Constants DEF InOrderFor
<1>2. EmsFits(emm', C)
  BY <1>1, EmsChanges DEF Sound
<1>3. \A g \in XmsIds : o # <<"xms", g>>
  OBVIOUS
<1>4. \A p \in 1..Beyond : o # <<"vcpi", p>>
  OBVIOUS
<1> HIDE DEF o
<1>6. XmsFits(xms', C)
  BY <1>1, <1>3, XmsKeeps DEF Sound
<1>7. VcpiFits(vcpi', C)
  BY <1>1, <1>4, VcpiKeeps DEF Sound
<1>8. Sound(mhandles', contents', xms', emm', vcpi', C)
  BY <1>2, <1>6, <1>7 DEF Sound, InOrderFor
<1> QED
  BY <1>1, <1>3, <1>8 DEF Steps

\* The steps of the VCPI page p.
LEMMA VcpiStep ==
  ASSUME NEW B, Sound(mhandles, contents, xms, emm, vcpi, B), NEW p \in 1..Beyond,
         NEW t, NEW C, InOrderFor(mhandles', contents', B, C, <<"vcpi", p>>, t),
         \/ t = <<p>> /\ vcpi' = vcpi \cup {p}
         \/ t = <<>> /\ vcpi' = vcpi \ {p},
         UNCHANGED <<xms, emm>>
  PROVE  Steps(B)
<1> DEFINE o == <<"vcpi", p>>
<1>1. Swaps(B, C, o, t) /\ o \in Holders /\ o # Spare
  BY Constants DEF InOrderFor
<1>2. VcpiFits(vcpi', C)
  BY <1>1, VcpiChanges DEF Sound
<1>3. \A g \in XmsIds : o # <<"xms", g>>
  OBVIOUS
<1>4. \A g \in EmsIds : o # <<"ems", g>>
  OBVIOUS
<1> HIDE DEF o
<1>6. XmsFits(xms', C)
  BY <1>1, <1>3, XmsKeeps DEF Sound
<1>7. EmsFits(emm', C)
  BY <1>1, <1>4, EmsKeeps DEF Sound
<1>8. Sound(mhandles', contents', xms', emm', vcpi', C)
  BY <1>2, <1>6, <1>7 DEF Sound, InOrderFor
<1> QED
  BY <1>1, <1>3, <1>8 DEF Steps


\* What the invariant says of the block of one holder.
LEMMA XmsOwn ==
  ASSUME NEW x, NEW B, XmsFits(x, B), NEW h \in XmsIds
  PROVE  /\ x[h] \in XmsRecord /\ XmsBlockFits(x[h], B[<<"xms", h>>])
         /\ x[h] = [free |-> x[h].free, mem |-> x[h].mem, size |-> x[h].size,
                    locked |-> x[h].locked]
<1>1. x[h] \in XmsRecord /\ XmsBlockFits(x[h], B[<<"xms", h>>])
  BY DEF XmsFits
<1> QED
  BY <1>1 DEF XmsRecord

\* The same for an EMS handle.
LEMMA EmsOwn ==
  ASSUME NEW e, NEW B, EmsFits(e, B), NEW h \in EmsIds
  PROVE  /\ e[h] \in EmsRecord /\ EmsBlockFits(e[h], B[<<"ems", h>>])
         /\ e[h].pages \in Nat \cup {Null} /\ e[h].mem \in Words
<1>1. e[h] \in EmsRecord /\ EmsBlockFits(e[h], B[<<"ems", h>>])
  BY DEF EmsFits
<1> QED
  BY <1>1 DEF EmsRecord

\* A handle of a block is a word of the array.
LEMMA HandleWord ==
  ASSUME NEW t, NEW h, HandleOf(h, t), Distinct(t)
  PROVE  h \in Words
<1>1. CASE t = <<>>
  BY <1>1 DEF HandleOf, Words
<1>2. CASE t # <<>>
  <2>1. t[1] \in 1..Beyond
    BY <1>2, DistinctListed, NotEmpty DEF Listed
  <2> QED
    BY <1>2, <2>1 DEF HandleOf, Words
<1> QED
  BY <1>1, <1>2

\* XMS_AllocateMemory of some kilobytes.
LEMMA XmsAllocates ==
  ASSUME NEW B, Sound(mhandles, contents, xms, emm, vcpi, B), NEW size \in NewSizes,
         size # 0, XMS_AllocateMemory(size)
  PROVE  Steps(B)
<1> DEFINE h == LowestOf(XmsFree)
           n == PagesOfKb(size)
           b == MEM_AllocatePages(mhandles, n, TRUE)
           o == <<"xms", h>>
           r == [free |-> FALSE, mem |-> b.handle, size |-> size, locked |-> 0]
<1>0. size \in Nat
  BY ExtMemAssumption
<1>1. h \in XmsIds /\ xms[h].free
  <2>1. XmsFree # {} /\ XmsFree \in SUBSET Nat
    BY Constants DEF XMS_AllocateMemory, XmsFree
  <2>2. h \in XmsFree
    BY <2>1, LowestIs
  <2> HIDE DEF h
  <2> QED
    BY <2>2 DEF XmsFree
<1>2. /\ b.handle # 0 /\ mhandles' = b.mh
      /\ contents' = Filled(contents, b.mh, o, Chain(b.mh, b.handle), 0)
      /\ xms' = [xms EXCEPT ![h] = r]
      /\ UNCHANGED <<emm, vcpi>>
  BY DEF XMS_AllocateMemory, XmsBlockFor
<1>3. n \in Nat
  BY <1>0, Rounds
<1>4. PICK t : Allocated(mhandles, n, TRUE, b, t)
  <2>1. PICK b2 : b2 = b
    OBVIOUS
  <2>2. PICK f \in BOOLEAN : f = TRUE
    OBVIOUS
  <2> HIDE DEF n
  <2>3. b2 = MEM_AllocatePages(mhandles, n, f)
    BY <2>1, <2>2
  <2> HIDE DEF b
  <2>4. mhandles \in [1..Beyond -> Words]
    BY DEF Sound, Layout
  <2>5. \E t : Allocated(mhandles, n, f, b2, t)
    BY <1>3, <2>3, <2>4, Allocates
  <2> QED
    BY <2>1, <2>2, <2>5
<1> HIDE DEF h, b, n
<1>5. /\ Fresh(mhandles, t) /\ Neighbours(t)
      /\ b.handle = IF t = <<>> THEN 0 ELSE t[1]
      /\ t # <<>> => Len(t) = n
  BY <1>4 DEF Allocated
<1>6. t # <<>> /\ HandleOf(b.handle, t) /\ Len(t) = n /\ b.handle \in Words
  BY <1>2, <1>5, HandleWord DEF HandleOf, Fresh
<1>7. o \in Named /\ o \in Holders /\ o # Spare /\ o \in Owners
  BY <1>1, NamedHolders
<1>8. B[o] = <<>>
  <2>1. XmsBlockFits(xms[h], B[o])
    BY <1>1, XmsOwn DEF Sound
  <2>2. Len(B[o]) = PagesOfKb(0)
    BY <1>1, <2>1 DEF XmsBlockFits
  <2>3. PagesOfKb(0) = 0
    BY Rounds
  <2>4. B[o] \in Seq(1..Beyond)
    BY <1>7 DEF Sound, Layout, Distinct
  <2> QED
    BY <2>2, <2>3, <2>4, InBlock
<1> HIDE DEF o
<1>9. PICK C : InOrderFor(b.mh, contents', B, C, o, t)
  <2>1. PICK f : f = TRUE
    OBVIOUS
  <2>2. Allocated(mhandles, n, f, b, t)
    BY <1>4, <2>1
  <2> QED
    BY <1>2, <1>7, <1>8, <2>2, Takes DEF Sound
<1>10. InOrderFor(mhandles', contents', B, C, o, t)
  BY <1>2, <1>9
<1>11. r \in XmsRecord
  BY <1>0, <1>6, ExtMemAssumption DEF XmsRecord
<1>12. XmsBlockFits(r, t)
  BY <1>5, <1>6 DEF XmsBlockFits, n
<1> HIDE DEF r
<1> QED
  BY <1>1, <1>2, <1>10, <1>11, <1>12, XmsStep DEF o

\* XMS_FreeMemory gives the block back and clears the record but for the lock count.
LEMMA XmsFrees ==
  ASSUME NEW B, Sound(mhandles, contents, xms, emm, vcpi, B), NEW h \in XmsIds,
         XMS_FreeMemory(h)
  PROVE  Steps(B)
<1> DEFINE o == <<"xms", h>>
           r == [free |-> TRUE, mem |-> EndOfBlock, size |-> 0, locked |-> xms[h].locked]
<1>1. /\ mhandles' = MEM_ReleasePages(mhandles, xms[h].mem)
      /\ contents' = [p \in Pages |-> IF mhandles'[p] = 0 THEN Empty ELSE contents[p]]
      /\ UNCHANGED <<emm, vcpi>>
  BY DEF XMS_FreeMemory, Erased
<1>2. xms[h] \in XmsRecord /\ XmsBlockFits(xms[h], B[o]) /\ xms \in [XmsIds -> XmsRecord]
  BY XmsOwn DEF Sound, XmsFits
<1>3. xms' = [xms EXCEPT ![h] = r]
  <2>1. xms' = [xms EXCEPT ![h].mem = EndOfBlock, ![h].size = 0, ![h].free = TRUE]
    BY DEF XMS_FreeMemory
  <2>2. [[[xms[h] EXCEPT !.mem = EndOfBlock] EXCEPT !.size = 0] EXCEPT !.free = TRUE] = r
    <3>1. xms[h] = [free |-> xms[h].free, mem |-> xms[h].mem, size |-> xms[h].size,
                    locked |-> xms[h].locked]
      BY XmsOwn DEF Sound
    <3>2. PICK q : q = xms[h]
      OBVIOUS
    <3>3. q = [free |-> q.free, mem |-> q.mem, size |-> q.size, locked |-> q.locked]
      BY <3>1, <3>2
    <3>4. [[[q EXCEPT !.mem = EndOfBlock] EXCEPT !.size = 0] EXCEPT !.free = TRUE]
          = [free |-> TRUE, mem |-> EndOfBlock, size |-> 0, locked |-> q.locked]
      <4>1. [q EXCEPT !.mem = EndOfBlock]
            = [free |-> q.free, mem |-> EndOfBlock, size |-> q.size, locked |-> q.locked]
        BY <3>3
      <4>2. [[free |-> q.free, mem |-> EndOfBlock, size |-> q.size, locked |-> q.locked]
               EXCEPT !.size = 0]
            = [free |-> q.free, mem |-> EndOfBlock, size |-> 0, locked |-> q.locked]
        OBVIOUS
      <4>3. \A f, g \in BOOLEAN : \A l :
              [[free |-> f, mem |-> EndOfBlock, size |-> 0, locked |-> l] EXCEPT !.free = g]
                        = [free |-> g, mem |-> EndOfBlock, size |-> 0, locked |-> l]
        OBVIOUS
      <4>4. q.free \in BOOLEAN
        BY <1>2, <3>2 DEF XmsRecord
      <4> QED
        BY <4>1, <4>2, <4>3, <4>4
    <3> QED
      BY <3>2, <3>4
  <2>3. xms' = [xms EXCEPT ![h] = [[[xms[h] EXCEPT !.mem = EndOfBlock] EXCEPT !.size = 0]
                                    EXCEPT !.free = TRUE]]
    BY <1>2, <2>1
  <2> HIDE DEF r
  <2> QED
    BY <2>2, <2>3
<1>4. o \in Holders /\ o # Spare
  BY Constants
<1>5. HandleOf(xms[h].mem, B[o])
  BY <1>2 DEF XmsBlockFits
<1> HIDE DEF o
<1>6. Relinks(mhandles, mhandles', B[o], <<>>)
  BY <1>1, <1>4, <1>5, Releases DEF Sound
<1>7. PICK C : InOrderFor(mhandles', contents', B, C, o, <<>>)
  BY <1>1, <1>4, <1>6, Gives DEF Sound
<1>8. r \in XmsRecord /\ r.free
  <2>1. xms[h].locked \in 0..MaxLock
    BY <1>2 DEF XmsRecord
  <2> QED
    BY <2>1 DEF XmsRecord, Words
<1>9. XmsBlockFits(r, <<>>)
  <2>1. PagesOfKb(0) = 0
    BY Rounds
  <2>2. Neighbours(<<>>)
    <3>1. ~\E k \in 1..Len(<<>>) : TRUE
      BY NoBlock
    <3> QED
      BY <3>1 DEF Neighbours
  <2> QED
    BY <2>1, <2>2, NoBlock DEF XmsBlockFits, HandleOf
<1> HIDE DEF r
<1> QED
  BY <1>1, <1>3, <1>7, <1>8, <1>9, XmsStep DEF o

\* A step that changes no block.
LEMMA Stutters ==
  ASSUME NEW B, Sound(mhandles', contents', xms', emm', vcpi', B)
  PROVE  Steps(B)
<1> DEFINE o == <<"ems", 0>>
<1>1. o \in Holders /\ o # Spare /\ \A h \in XmsIds : o # <<"xms", h>>
  BY Constants
<1> HIDE DEF o
<1>2. PICK t : t = B[o]
  OBVIOUS
<1>3. Swaps(B, B, o, t)
  BY <1>2 DEF Swaps
<1> QED
  BY <1>1, <1>3 DEF Steps

\* A step that writes nothing but a lock count.
LEMMA XmsCounts ==
  ASSUME NEW B, Sound(mhandles, contents, xms, emm, vcpi, B), NEW h \in XmsIds,
         NEW n \in 0..MaxLock, xms' = [xms EXCEPT ![h].locked = n],
         UNCHANGED <<mhandles, contents, emm, vcpi>>
  PROVE  Steps(B)
<1> DEFINE r == [free |-> xms[h].free, mem |-> xms[h].mem, size |-> xms[h].size, locked |-> n]
<1>1. xms[h] \in XmsRecord /\ XmsBlockFits(xms[h], B[<<"xms", h>>])
      /\ xms \in [XmsIds -> XmsRecord]
  BY XmsOwn DEF Sound, XmsFits
<1>2. [xms[h] EXCEPT !.locked = n] = r /\ r \in XmsRecord
  BY <1>1 DEF XmsRecord
<1>3. XmsBlockFits(r, B[<<"xms", h>>])
  BY <1>1 DEF XmsBlockFits
<1>4. xms' = [xms EXCEPT ![h] = [xms[h] EXCEPT !.locked = n]]
  BY <1>1
<1> HIDE DEF r
<1>5. xms' \in [XmsIds -> XmsRecord]
      /\ \A g \in XmsIds : xms'[g] = IF g = h THEN r ELSE xms[g]
  BY <1>1, <1>2, <1>4
<1>6. XmsFits(xms', B)
  BY <1>3, <1>5 DEF XmsFits, Sound
<1>7. Sound(mhandles', contents', xms', emm', vcpi', B)
  BY <1>6 DEF Sound
<1> QED
  BY <1>7, Stutters

\* XMS_LockMemory and XMS_UnlockMemory.
LEMMA XmsLocks ==
  ASSUME NEW B, Sound(mhandles, contents, xms, emm, vcpi, B), NEW h \in XmsIds,
         XMS_LockMemory(h) \/ XMS_UnlockMemory(h)
  PROVE  Steps(B)
<1>1. xms[h].locked \in 0..MaxLock /\ MaxLock \in Nat
  BY XmsOwn, ExtMemAssumption DEF Sound, XmsRecord
<1>2. CASE XMS_LockMemory(h)
  <2>1. CountLock(xms[h].locked) \in 0..MaxLock
    BY <1>1 DEF CountLock
  <2>2. xms' = [xms EXCEPT ![h].locked = CountLock(xms[h].locked)]
        /\ UNCHANGED <<mhandles, contents, emm, vcpi>>
    BY <1>2 DEF XMS_LockMemory
  <2> QED
    BY <2>1, <2>2, XmsCounts
<1>3. CASE XMS_UnlockMemory(h)
  <2>1. xms[h].locked > 0 /\ xms' = [xms EXCEPT ![h].locked = xms[h].locked - 1]
        /\ UNCHANGED <<mhandles, contents, emm, vcpi>>
    BY <1>3 DEF XMS_UnlockMemory
  <2>2. xms[h].locked - 1 \in 0..MaxLock
    BY <1>1, <2>1
  <2> QED
    BY <2>1, <2>2, XmsCounts
<1> QED
  BY <1>2, <1>3
\* XMS_ResizeMemory, which may move the block, whether it succeeds or not.
LEMMA XmsResizes ==
  ASSUME NEW B, Sound(mhandles, contents, xms, emm, vcpi, B), NEW h \in XmsIds,
         NEW size \in Sizes, XMS_ResizeMemory(h, size)
  PROVE  Steps(B)
<1> DEFINE o == <<"xms", h>>
           n == PagesOfKb(size)
           m == xms[h].mem
           s == B[o]
           b == MEM_ReAllocatePages(mhandles, m, n, TRUE)
           r == [free |-> xms[h].free, mem |-> b.handle,
                 size |-> IF b.ok THEN size ELSE xms[h].size, locked |-> xms[h].locked]
<1>0. size \in Nat /\ n \in Nat
  <2>1. size \in Nat
    BY ExtMemAssumption
  <2> HIDE DEF n
  <2> QED
    BY <2>1, Rounds DEF n
<1>1. xms[h] \in XmsRecord /\ XmsBlockFits(xms[h], s) /\ xms \in [XmsIds -> XmsRecord]
  BY XmsOwn DEF Sound, XmsFits
<1>2. xms[h].free = FALSE /\ xms[h].locked = 0
  <2>1. ~xms[h].free /\ xms[h].locked = 0
    BY DEF XMS_ResizeMemory, MayResize, InvalidHandle
  <2> QED
    BY <1>1, <2>1 DEF XmsRecord
<1>3. /\ mhandles' = b.mh
      /\ contents' = Filled([p \in Pages |-> contents[b.from[p]]], b.mh, o,
                            Chain(b.mh, b.handle), Len(Chain(mhandles, m)))
      /\ xms' = [xms EXCEPT ![h].mem = b.handle,
                            ![h].size = IF b.ok THEN size ELSE @]
      /\ UNCHANGED <<emm, vcpi>>
  BY DEF XMS_ResizeMemory
<1>4. o \in Named /\ o \in Holders /\ o # Spare
  BY NamedHolders, Constants
<1>5. Chain(mhandles, m) = s /\ HandleOf(m, s) /\ Neighbours(s)
  <2>1. HandleOf(m, s) /\ Neighbours(s)
    BY <1>1 DEF XmsBlockFits
  <2> HIDE DEF o, m
  <2> QED
    BY <1>4, <2>1, HandleChain DEF Sound
<1> HIDE DEF n, o, m, b
<1>6. PICK f \in BOOLEAN : f = TRUE
  OBVIOUS
<1>7. PICK t : Resized(mhandles, s, n, f, b, t)
  <2>1. b = MEM_ReAllocatePages(mhandles, m, n, f)
    BY <1>6 DEF b
  <2>2. Layout(mhandles, B) /\ B[Spare] = <<>>
    BY DEF Sound
  <2> HIDE DEF s
  <2>3. s = B[o]
    BY DEF s
  <2> QED
    BY <1>0, <1>4, <1>5, <2>1, <2>2, <2>3, ReAllocates
<1>8. /\ HandleOf(b.handle, t) /\ b.ok \in BOOLEAN /\ Distinct(t)
      /\ b.ok => Len(t) = n
      /\ ~b.ok => t = s
      /\ Neighbours(t)
  BY <1>6, <1>7 DEF Resized, Relinks
<1>9. PICK C : InOrderFor(b.mh, contents', B, C, o, t)
  <2>1. contents' = Filled([p \in Pages |-> contents[b.from[p]]], b.mh, o,
                           Chain(b.mh, b.handle), Len(s))
    BY <1>3, <1>5
  <2>2. /\ Layout(mhandles, B) /\ B[Spare] = <<>>
        /\ contents \in [Pages -> Stored] /\ Kept(contents, B)
    BY DEF Sound
  <2>3. PICK len : len = Len(s)
    OBVIOUS
  <2>4. PICK new : new = contents'
    OBVIOUS
  <2>5. new = Filled([p \in Pages |-> contents[b.from[p]]], b.mh, o,
                     Chain(b.mh, b.handle), len)
    BY <2>1, <2>3, <2>4
  <2>6. \E C : InOrderFor(b.mh, new, B, C, o, t)
    BY <1>4, <1>7, <2>2, <2>3, <2>5, TakesResized
  <2> QED
    BY <2>4, <2>6
<1>10. InOrderFor(mhandles', contents', B, C, o, t)
  BY <1>3, <1>9
<1>11. b.handle \in Words
  BY <1>8, HandleWord
<1>12. r \in XmsRecord /\ xms' = [xms EXCEPT ![h] = r]
  <2>1. PICK q : q = xms[h]
    OBVIOUS
  <2>2. q = [free |-> q.free, mem |-> q.mem, size |-> q.size, locked |-> q.locked]
        /\ q.free \in BOOLEAN /\ q.size \in Nat /\ q.locked \in 0..MaxLock
    BY <1>1, <2>1, XmsOwn DEF Sound, XmsRecord
  <2>3. PICK z : z = IF b.ok THEN size ELSE q.size
    OBVIOUS
  <2>4. z \in Nat
    BY <1>0, <1>8, <2>2, <2>3
  <2>5. r = [free |-> q.free, mem |-> b.handle, size |-> z, locked |-> q.locked]
    BY <2>1, <2>3
  <2>6. xms' = [xms EXCEPT ![h] = [[q EXCEPT !.mem = b.handle] EXCEPT !.size = z]]
    <3>1. xms' = [xms EXCEPT ![h] = [[xms[h] EXCEPT !.mem = b.handle]
                    EXCEPT !.size = IF b.ok THEN size ELSE [xms[h] EXCEPT !.mem = b.handle].size]]
      BY <1>1, <1>3
    <3>2. [xms[h] EXCEPT !.mem = b.handle].size = q.size
      BY <2>1, <2>2
    <3> QED
      BY <2>1, <2>3, <3>1, <3>2
  <2>7. [q EXCEPT !.mem = b.handle]
        = [free |-> q.free, mem |-> b.handle, size |-> q.size, locked |-> q.locked]
    BY <2>2
  <2>8. [[free |-> q.free, mem |-> b.handle, size |-> q.size, locked |-> q.locked]
           EXCEPT !.size = z]
        = [free |-> q.free, mem |-> b.handle, size |-> z, locked |-> q.locked]
    OBVIOUS
  <2>9. xms' = [xms EXCEPT ![h] = r]
    BY <2>5, <2>6, <2>7, <2>8
  <2>10. r \in XmsRecord
    BY <1>11, <2>2, <2>4, <2>5 DEF XmsRecord
  <2> QED
    BY <2>9, <2>10
<1>13. XmsBlockFits(r, t)
  <2>1. r.mem = b.handle /\ r.free = xms[h].free
        /\ r.size = IF b.ok THEN size ELSE xms[h].size
    OBVIOUS
  <2> HIDE DEF r
  <2>2. Len(t) = PagesOfKb(r.size)
    <3>1. CASE b.ok
      BY <1>8, <2>1, <3>1 DEF n
    <3>2. CASE ~b.ok
      BY <1>1, <1>8, <2>1, <3>2 DEF XmsBlockFits
    <3> QED
      BY <3>1, <3>2
  <2> QED
    BY <1>2, <1>8, <2>1, <2>2 DEF XmsBlockFits
<1> HIDE DEF r, s
<1> QED
  BY <1>2, <1>3, <1>10, <1>12, <1>13, XmsStep DEF o


\* The EMS handle h, which has no block, is given n pages.
LEMMA EmsTakes ==
  ASSUME NEW B, Sound(mhandles, contents, xms, emm, vcpi, B), NEW h \in EmsIds,
         emm[h].pages \in {0, Null}, NEW n \in Nat,
         NEW b, b = MEM_AllocatePages(mhandles, n * PerEms, FALSE),
         n * PerEms <= MEM_FreeTotal(mhandles) \/ b.handle # 0,
         mhandles' = b.mh,
         contents' = Filled(contents, b.mh, <<"ems", h>>, Chain(b.mh, b.handle), 0),
         emm' = [emm EXCEPT ![h] = [pages |-> n, mem |-> b.handle]],
         UNCHANGED <<xms, vcpi>>
  PROVE  Steps(B)
<1> DEFINE o == <<"ems", h>>
           r == [pages |-> n, mem |-> b.handle]
<1>1. PICK m : m = n * PerEms
  OBVIOUS
<1>2. m \in Nat /\ (m = 0 <=> n = 0) /\ n # Null /\ Null # 0
  BY <1>1, Constants DEF Null
<1>3. PICK f \in BOOLEAN : f = FALSE
  OBVIOUS
<1>4. PICK t : Allocated(mhandles, m, f, b, t)
  <2>1. b = MEM_AllocatePages(mhandles, m, f) /\ mhandles \in [1..Beyond -> Words]
    BY <1>1, <1>3 DEF Sound, Layout
  <2> QED
    BY <1>2, <2>1, Allocates
<1>5. /\ Fresh(mhandles, t)
      /\ b.handle = IF t = <<>> THEN 0 ELSE t[1]
      /\ t # <<>> => Len(t) = m /\ m # 0
      /\ m # 0 /\ m <= MEM_FreeTotal(mhandles) => t # <<>>
  BY <1>3, <1>4 DEF Allocated
<1>6. Len(t) = m
  <2>1. CASE t # <<>>
    BY <1>5, <2>1
  <2>2. CASE t = <<>>
    <3>1. m <= MEM_FreeTotal(mhandles)
      BY <1>1, <1>5, <2>2
    <3>2. m = 0
      BY <1>5, <2>2, <3>1
    <3> QED
      BY <2>2, <3>2, NoBlock
  <2> QED
    BY <2>1, <2>2
<1>7. HandleOf(b.handle, t) /\ b.handle \in Words
  BY <1>5, HandleWord DEF HandleOf, Fresh
<1>8. o \in Named /\ o \in Holders /\ o # Spare /\ o \in Owners
  BY NamedHolders
<1>9. B[o] = <<>>
  <2>1. EmsBlockFits(emm[h], B[o])
    BY EmsOwn DEF Sound
  <2>2. Len(B[o]) = 0
    <3>1. 0 * PerEms = 0
      BY Constants
    <3> QED
      BY <2>1, <3>1 DEF EmsBlockFits
  <2>3. B[o] \in Seq(1..Beyond)
    BY <1>8 DEF Sound, Layout, Distinct
  <2> QED
    BY <2>2, <2>3, InBlock
<1> HIDE DEF o
<1>10. PICK C : InOrderFor(b.mh, contents', B, C, o, t)
  <2>1. contents' = Filled(contents, b.mh, o, Chain(b.mh, b.handle), 0)
    BY DEF o
  <2> QED
    BY <1>4, <1>8, <1>9, <2>1, Takes DEF Sound
<1>11. InOrderFor(mhandles', contents', B, C, o, t)
  BY <1>10
<1>12. r \in EmsRecord /\ EmsBlockFits(r, t)
  BY <1>1, <1>2, <1>6, <1>7 DEF EmsRecord, EmsBlockFits
<1> HIDE DEF r
<1> QED
  BY <1>11, <1>12, EmsStep DEF o, r

\* EMM_AllocateMemory: the check of the free pages makes the allocation succeed.
LEMMA EmsAllocates ==
  ASSUME NEW B, Sound(mhandles, contents, xms, emm, vcpi, B), NEW n \in EmsSizes,
         NEW zpages \in BOOLEAN, EMM_AllocateMemory(n, zpages)
  PROVE  Steps(B)
<1> DEFINE h == LowestOf(EmsFree)
           b == MEM_AllocatePages(mhandles, n * PerEms, FALSE)
<1>0. n \in Nat
  BY ExtMemAssumption
<1>1. h \in EmsIds /\ emm[h].pages = Null
  <2>1. EmsFree # {} /\ EmsFree \in SUBSET Nat
    BY Constants DEF EMM_AllocateMemory, EmsFree
  <2>2. h \in EmsFree
    BY <2>1, LowestIs
  <2> HIDE DEF h
  <2> QED
    BY <2>2 DEF EmsFree
<1>2. /\ MEM_FreeTotal(mhandles) \div PerEms >= n
      /\ mhandles' = b.mh
      /\ contents' = Filled(contents, b.mh, <<"ems", h>>, Chain(b.mh, b.handle), 0)
      /\ emm' = [emm EXCEPT ![h] = [pages |-> n, mem |-> b.handle]]
      /\ UNCHANGED <<xms, vcpi>>
  BY DEF EMM_AllocateMemory
<1>3. n * PerEms <= MEM_FreeTotal(mhandles)
  <2>1. \A x \in Nat, y \in Nat, z \in Nat \ {0} : y \div z >= x => x * z <= y
    OBVIOUS
  <2>2. MEM_FreeTotal(mhandles) \in Nat /\ PerEms \in Nat \ {0}
    BY FreeFinite, Constants
  <2> QED
    BY <1>0, <1>2, <2>1, <2>2
<1>4. PICK b2 : b2 = b
  OBVIOUS
<1>5. b2 = MEM_AllocatePages(mhandles, n * PerEms, FALSE)
  BY <1>4
<1> HIDE DEF h, b
<1>6. emm[h].pages \in {0, Null}
  BY <1>1
<1> QED
  BY <1>0, <1>1, <1>2, <1>3, <1>4, <1>5, <1>6, EmsTakes

\* EMM_ReallocatePages of a handle without pages.
LEMMA EmsRefills ==
  ASSUME NEW B, Sound(mhandles, contents, xms, emm, vcpi, B), NEW h \in EmsIds,
         NEW n \in EmsSizes, RefillEms(h, n), UNCHANGED <<xms, vcpi>>
  PROVE  Steps(B)
<1> DEFINE b == MEM_AllocatePages(mhandles, n * PerEms, FALSE)
<1>0. n \in Nat /\ emm[h].pages = 0
  BY ExtMemAssumption DEF RefillEms
<1>1. \/ UNCHANGED <<mhandles, contents, emm>>
      \/ /\ b.handle # 0 /\ mhandles' = b.mh
         /\ contents' = Filled(contents, b.mh, <<"ems", h>>, Chain(b.mh, b.handle), 0)
         /\ emm' = [emm EXCEPT ![h] = [pages |-> n, mem |-> b.handle]]
  BY DEF RefillEms
<1>2. CASE UNCHANGED <<mhandles, contents, emm>>
  <2>1. Sound(mhandles', contents', xms', emm', vcpi', B)
    BY <1>2
  <2> QED
    BY <2>1, Stutters
<1>3. CASE /\ b.handle # 0 /\ mhandles' = b.mh
           /\ contents' = Filled(contents, b.mh, <<"ems", h>>, Chain(b.mh, b.handle), 0)
           /\ emm' = [emm EXCEPT ![h] = [pages |-> n, mem |-> b.handle]]
  <2>1. PICK b2 : b2 = b
    OBVIOUS
  <2>2. b2 = MEM_AllocatePages(mhandles, n * PerEms, FALSE)
    BY <2>1
  <2>3. emm[h].pages \in {0, Null}
    BY <1>0
  <2> HIDE DEF b
  <2> QED
    BY <1>0, <1>3, <2>1, <2>2, <2>3, EmsTakes
<1> QED
  BY <1>1, <1>2, <1>3

\* EMM_ReallocatePages of a handle with pages, which never moves them.
LEMMA EmsResizes ==
  ASSUME NEW B, Sound(mhandles, contents, xms, emm, vcpi, B), NEW h \in EmsIds,
         NEW n \in EmsSizes, ValidHandle(h), ResizeEms(h, n), UNCHANGED <<xms, vcpi>>
  PROVE  Steps(B)
<1> DEFINE o == <<"ems", h>>
           m == emm[h].mem
           s == B[o]
           b == MEM_ReAllocatePages(mhandles, m, n * PerEms, FALSE)
           r == [pages |-> n, mem |-> b.handle]
<1>0. n \in Nat /\ n # Null
  BY ExtMemAssumption DEF Null
<1>1. /\ emm[h].pages # Null /\ b.ok /\ mhandles' = b.mh
      /\ contents' = Filled(contents, b.mh, o, Chain(b.mh, b.handle), emm[h].pages * PerEms)
      /\ emm' = [emm EXCEPT ![h] = r]
  BY DEF ResizeEms, ValidHandle
<1>2. EmsBlockFits(emm[h], s)
  BY EmsOwn DEF Sound
<1>3. HandleOf(m, s) /\ Len(s) = emm[h].pages * PerEms
  BY <1>1, <1>2 DEF EmsBlockFits
<1>4. o \in Named /\ o \in Holders /\ o # Spare
  BY NamedHolders, Constants
<1>5. PICK k : k = n * PerEms
  OBVIOUS
<1>6. k \in Nat
  BY <1>0, <1>5, Constants
<1>7. PICK f \in BOOLEAN : f = FALSE
  OBVIOUS
<1> HIDE DEF o, m, b
<1>8. PICK t : Resized(mhandles, s, k, f, b, t)
  <2>1. b = MEM_ReAllocatePages(mhandles, m, k, f)
    BY <1>5, <1>7 DEF b
  <2>2. Layout(mhandles, B) /\ B[Spare] = <<>>
    BY DEF Sound
  <2> HIDE DEF s
  <2>3. s = B[o]
    BY DEF s
  <2> QED
    BY <1>3, <1>4, <1>6, <1>7, <2>1, <2>2, <2>3, ReAllocates
<1>9. /\ HandleOf(b.handle, t) /\ Distinct(t)
      /\ Len(t) = k
      /\ b.from = Stay
  BY <1>1, <1>7, <1>8 DEF Resized, Relinks
<1>10. contents = [p \in Pages |-> contents[b.from[p]]]
  <2>1. \A p \in Pages : b.from[p] = p
    BY <1>9 DEF Stay
  <2>2. contents = [p \in Pages |-> contents[p]]
    BY DEF Sound
  <2> QED
    BY <2>1, <2>2
<1>11. PICK C : InOrderFor(b.mh, contents', B, C, o, t)
  <2>1. contents' = Filled([p \in Pages |-> contents[b.from[p]]], b.mh, o,
                           Chain(b.mh, b.handle), Len(s))
    BY <1>1, <1>3, <1>10
  <2>2. /\ Layout(mhandles, B) /\ B[Spare] = <<>>
        /\ contents \in [Pages -> Stored] /\ Kept(contents, B)
    BY DEF Sound
  <2>3. PICK len : len = Len(s)
    OBVIOUS
  <2>4. PICK new : new = contents'
    OBVIOUS
  <2>5. new = Filled([p \in Pages |-> contents[b.from[p]]], b.mh, o,
                     Chain(b.mh, b.handle), len)
    BY <2>1, <2>3, <2>4
  <2>6. \E C : InOrderFor(b.mh, new, B, C, o, t)
    BY <1>4, <1>8, <2>2, <2>3, <2>5, TakesResized
  <2> QED
    BY <2>4, <2>6
<1>12. InOrderFor(mhandles', contents', B, C, o, t)
  BY <1>1, <1>11
<1>13. r \in EmsRecord /\ EmsBlockFits(r, t)
  BY <1>0, <1>5, <1>9, HandleWord DEF EmsRecord, EmsBlockFits
<1> HIDE DEF r, s
<1> QED
  BY <1>1, <1>12, <1>13, EmsStep DEF o

\* EMM_ReleaseMemory, for the system handle too.
LEMMA EmsReleases ==
  ASSUME NEW B, Sound(mhandles, contents, xms, emm, vcpi, B), NEW h \in EmsIds,
         EMM_ReleaseMemory(h)
  PROVE  Steps(B)
<1> DEFINE o == <<"ems", h>>
           r == [pages |-> IF h = 0 THEN 0 ELSE Null, mem |-> 0]
<1>1. /\ emm[h].pages # Null
      /\ mhandles' = IF emm[h].pages # 0 THEN MEM_ReleasePages(mhandles, emm[h].mem)
                     ELSE mhandles
      /\ contents' = [p \in Pages |-> IF mhandles'[p] = 0 THEN Empty ELSE contents[p]]
      /\ emm' = [emm EXCEPT ![h] = r]
      /\ UNCHANGED <<xms, vcpi>>
  BY DEF EMM_ReleaseMemory, Erased, ValidHandle
<1>2. HandleOf(emm[h].mem, B[o])
      /\ Len(B[o]) = IF emm[h].pages = Null THEN 0 ELSE emm[h].pages * PerEms
  BY EmsOwn DEF Sound, EmsBlockFits
<1>3. o \in Holders /\ o # Spare
  BY Constants
<1> HIDE DEF o
<1>4. Relinks(mhandles, mhandles', B[o], <<>>)
  <2>1. CASE emm[h].pages # 0
    <3>1. mhandles' = MEM_ReleasePages(mhandles, emm[h].mem)
      BY <1>1, <2>1
    <3> QED
      BY <1>2, <1>3, <3>1, Releases DEF Sound
  <2>2. CASE emm[h].pages = 0
    <3>1. Len(B[o]) = 0
      <4>1. 0 * PerEms = 0
        BY Constants
      <4> QED
        BY <1>1, <1>2, <2>2, <4>1
    <3>2. B[o] \in Seq(1..Beyond)
      BY <1>3 DEF Sound, Layout, Distinct
    <3>3. B[o] = <<>>
      BY <3>1, <3>2, InBlock
    <3>4. Relinks(mhandles, mhandles, B[o], B[o])
      BY <1>3, Unchanged DEF Sound
    <3> QED
      BY <1>1, <2>2, <3>3, <3>4
  <2> QED
    BY <2>1, <2>2
<1>5. PICK C : InOrderFor(mhandles', contents', B, C, o, <<>>)
  BY <1>1, <1>3, <1>4, Gives DEF Sound
<1>6. r \in EmsRecord /\ EmsBlockFits(r, <<>>)
  <2>1. 0 * PerEms = 0
    BY Constants
  <2>2. r.pages \in {0, Null} /\ r.mem = 0
    OBVIOUS
  <2>3. r \in EmsRecord
    BY DEF EmsRecord, Words
  <2> HIDE DEF r
  <2>4. HandleOf(r.mem, <<>>)
    BY <2>2 DEF HandleOf
  <2> QED
    BY <2>1, <2>2, <2>3, <2>4, NoBlock DEF EmsBlockFits
<1> HIDE DEF r
<1> QED
  BY <1>1, <1>5, <1>6, EmsStep DEF o

\* VCPI_AllocatePage takes a block of one page.
LEMMA VcpiAllocates ==
  ASSUME NEW B, Sound(mhandles, contents, xms, emm, vcpi, B), VCPI_AllocatePage
  PROVE  Steps(B)
<1> DEFINE b == MEM_AllocatePages(mhandles, 1, FALSE)
           p == b.handle
           o == <<"vcpi", p>>
<1>1. /\ p # 0 /\ mhandles' = b.mh /\ vcpi' = vcpi \cup {p}
      /\ contents' = Filled(contents, b.mh, <<"vcpi", 0>>, Chain(b.mh, b.handle), 0)
      /\ UNCHANGED <<xms, emm>>
  BY DEF VCPI_AllocatePage
<1>2. PICK f \in BOOLEAN : f = FALSE
  OBVIOUS
<1>3. PICK b2 : b2 = b
  OBVIOUS
<1>4. b2 = MEM_AllocatePages(mhandles, 1, f) /\ 1 \in Nat /\ mhandles \in [1..Beyond -> Words]
  BY <1>2, <1>3 DEF Sound, Layout
<1> HIDE DEF b
<1>5. PICK t : Allocated(mhandles, 1, f, b2, t)
  BY <1>4, Allocates
<1>6. /\ Fresh(mhandles, t) /\ p = IF t = <<>> THEN 0 ELSE t[1]
      /\ t # <<>> => Len(t) = 1
      /\ Allocated(mhandles, 1, f, b, t)
  BY <1>3, <1>5 DEF Allocated
<1>7. t # <<>> /\ p = t[1] /\ Len(t) = 1 /\ Listed(t) /\ t \in Seq(1..Beyond)
  BY <1>1, <1>6, DistinctListed DEF Fresh, Distinct
<1>8. p \in 1..Beyond /\ mhandles[p] = 0
  <2>1. 1 \in 1..Len(t)
    BY <1>7, NotEmpty
  <2> QED
    BY <1>6, <1>7, <2>1 DEF Listed, Fresh
<1>9. t = <<p>>
  BY <1>7
<1> HIDE DEF p
<1>10. o \in Holders /\ o # Spare /\ o \notin Named
  BY <1>8, NamedHolders, Constants
<1>11. B[o] = <<>>
  <2>1. B[o] = IF p \in vcpi THEN <<p>> ELSE <<>>
    BY <1>8 DEF Sound, VcpiFits
  <2>2. p \in PagesIn(<<p>>)
    <3>1. 1 \in DOMAIN <<p>> /\ <<p>>[1] = p
      OBVIOUS
    <3> QED
      BY <3>1 DEF PagesIn
  <2>3. \A q \in PagesIn(B[o]) : mhandles[q] # 0
    BY <1>10, BlockOf DEF Sound
  <2> QED
    BY <1>8, <2>1, <2>2, <2>3
<1> HIDE DEF o
<1>12. <<"vcpi", 0>> \in Owners
  BY DEF Owners
<1>13. PICK C : InOrderFor(b.mh, contents', B, C, o, t)
  BY <1>1, <1>6, <1>10, <1>11, <1>12, Takes DEF Sound
<1>14. InOrderFor(mhandles', contents', B, C, o, t)
  BY <1>1, <1>13
<1> QED
  BY <1>1, <1>8, <1>9, <1>14, VcpiStep DEF o

\* VCPI_FreePage gives it back.
LEMMA VcpiFrees ==
  ASSUME NEW B, Sound(mhandles, contents, xms, emm, vcpi, B), NEW p \in vcpi, VCPI_FreePage(p)
  PROVE  Steps(B)
<1> DEFINE o == <<"vcpi", p>>
<1>1. /\ mhandles' = MEM_ReleasePages(mhandles, p) /\ vcpi' = vcpi \ {p}
      /\ contents' = [q \in Pages |-> IF mhandles'[q] = 0 THEN Empty ELSE contents[q]]
      /\ UNCHANGED <<xms, emm>>
  BY DEF VCPI_FreePage, Erased
<1>2. p \in 1..Beyond /\ B[o] = <<p>>
  BY DEF Sound, VcpiFits
<1>3. o \in Holders /\ o # Spare
  BY <1>2, Constants
<1>4. HandleOf(p, B[o])
  <2>1. <<p>> # <<>> /\ <<p>>[1] = p
    OBVIOUS
  <2> QED
    BY <1>2, <2>1 DEF HandleOf
<1> HIDE DEF o
<1>5. Relinks(mhandles, mhandles', B[o], <<>>)
  BY <1>1, <1>3, <1>4, Releases DEF Sound
<1>6. PICK C : InOrderFor(mhandles', contents', B, C, o, <<>>)
  BY <1>1, <1>3, <1>5, Gives DEF Sound
<1> QED
  BY <1>1, <1>2, <1>6, VcpiStep DEF o


-----------------------------------------------------------------------------
(* The invariant of the specification *)

\* Every step changes the block of one holder.
LEMMA NextSteps ==
  ASSUME 0 \notin NewSizes, NEW B, Sound(mhandles, contents, xms, emm, vcpi, B), [Next]_vars
  PROVE  Steps(B) /\ stopped' \in {stopped, TRUE}
<1>1. ASSUME NEW size \in NewSizes, XMS_AllocateMemory(size)
      PROVE  Steps(B) /\ stopped' = stopped
  BY <1>1, XmsAllocates DEF XMS_AllocateMemory
<1>2. ASSUME NEW h \in XmsIds, XMS_FreeMemory(h)
      PROVE  Steps(B) /\ stopped' = stopped
  BY <1>2, XmsFrees DEF XMS_FreeMemory
<1>3. ASSUME NEW h \in XmsIds, XMS_LockMemory(h) \/ XMS_UnlockMemory(h)
      PROVE  Steps(B) /\ stopped' = stopped
  BY <1>3, XmsLocks DEF XMS_LockMemory, XMS_UnlockMemory
<1>4. ASSUME NEW h \in XmsIds, NEW size \in Sizes, XMS_ResizeMemory(h, size)
      PROVE  Steps(B) /\ stopped' = stopped
  BY <1>4, XmsResizes DEF XMS_ResizeMemory
<1>5. ASSUME NEW n \in EmsSizes, NEW zpages \in BOOLEAN, EMM_AllocateMemory(n, zpages)
      PROVE  Steps(B) /\ stopped' = stopped
  BY <1>5, EmsAllocates DEF EMM_AllocateMemory
<1>6. ASSUME NEW h \in EmsIds, EMM_ReleaseMemory(h)
      PROVE  Steps(B) /\ stopped' = stopped
  BY <1>6, EmsReleases DEF EMM_ReleaseMemory
<1>7. ASSUME NEW h \in EmsIds, NEW n \in EmsSizes, EMM_ReallocatePages(h, n)
      PROVE  Steps(B) /\ stopped' \in {stopped, TRUE}
  <2>1. ValidHandle(h) /\ UNCHANGED <<xms, vcpi>> /\ (ResizeEms(h, n) \/ RefillEms(h, n))
    BY <1>7 DEF EMM_ReallocatePages
  <2>2. CASE ResizeEms(h, n)
    <3>1. stopped' = stopped
      BY <2>2 DEF ResizeEms
    <3> QED
      BY <2>1, <2>2, <3>1, EmsResizes
  <2>3. CASE RefillEms(h, n)
    <3>1. stopped' \in {stopped, TRUE}
      BY <2>3 DEF RefillEms
    <3> QED
      BY <2>1, <2>3, <3>1, EmsRefills
  <2> QED
    BY <2>1, <2>2, <2>3
<1>8. ASSUME VCPI_AllocatePage
      PROVE  Steps(B) /\ stopped' = stopped
  BY <1>8, VcpiAllocates DEF VCPI_AllocatePage
<1>9. ASSUME NEW p \in vcpi, VCPI_FreePage(p)
      PROVE  Steps(B) /\ stopped' = stopped
  BY <1>9, VcpiFrees DEF VCPI_FreePage
<1>10. ASSUME UNCHANGED vars
       PROVE  Steps(B) /\ stopped' = stopped
  <2>1. Sound(mhandles', contents', xms', emm', vcpi', B) /\ stopped' = stopped
    BY <1>10 DEF vars
  <2> QED
    BY <2>1, Stutters
<1> QED
  BY <1>1, <1>2, <1>3, <1>4, <1>5, <1>6, <1>7, <1>8, <1>9, <1>10 DEF Next

\* An array with no block but perhaps a word behind its end.
LEMMA ClearLayout ==
  ASSUME NEW word \in {0, EndOfBlock},
         NEW mh, mh = [p \in 1..Beyond |-> IF p = Beyond THEN word ELSE 0],
         NEW B, B = [o \in Holders |-> <<>>]
  PROVE  Layout(mh, B) /\ MEM_FreeTotal(mh) = N
<1>1. /\ mh \in [1..Beyond -> Words]
      /\ \A p \in 1..Beyond : mh[p] = 0 \/ (p = Beyond /\ mh[p] = EndOfBlock)
  <2>1. \A p \in 1..Beyond : mh[p] = IF p = Beyond THEN word ELSE 0
    OBVIOUS
  <2>2. \A p \in 1..Beyond : mh[p] \in Words
    BY <2>1 DEF Words
  <2>3. mh = [p \in 1..Beyond |-> mh[p]]
    OBVIOUS
  <2>4. mh \in [1..Beyond -> Words]
    BY <2>2, <2>3
  <2>5. \A p \in 1..Beyond : mh[p] = 0 \/ (p = Beyond /\ mh[p] = EndOfBlock)
    <3> SUFFICES ASSUME NEW p \in 1..Beyond
                 PROVE  mh[p] = 0 \/ (p = Beyond /\ mh[p] = EndOfBlock)
      OBVIOUS
    <3>1. mh[p] = IF p = Beyond THEN word ELSE 0
      BY <2>1
    <3> QED
      BY <3>1
  <2> QED
    BY <2>4, <2>5
<1>2. \A o \in Holders : Distinct(B[o]) /\ Linked(mh, B[o]) /\ PagesIn(B[o]) = {}
  <2>1. Linked(mh, <<>>)
    <3>1. ~\E k \in 1..Len(<<>>) : TRUE
      BY NoBlock
    <3> QED
      BY <3>1 DEF Linked
  <2> QED
    BY <2>1, NoBlock
<1>3. Layout(mh, B)
  BY <1>1, <1>2 DEF Layout
<1>4. FreePages(mh) = 1..N
  BY NAssumption DEF FreePages, Pages, Beyond
<1>5. Cardinality(1..N) = IF 1 > N THEN 0 ELSE N - 1 + 1
  BY NAssumption, FS_Interval
<1>6. MEM_FreeTotal(mh) = N
  BY <1>4, <1>5, NAssumption DEF MEM_FreeTotal
<1> QED
  BY <1>3, <1>6

\* Clear memory with the system handle's block.
LEMMA InitSound ==
  ASSUME Init
  PROVE  MemInv
<1>0. PICK word \in {0, EndOfBlock} :
        LET clear == [p \in 1..Beyond |-> IF p = Beyond THEN word ELSE 0]
            sys == MEM_AllocatePages(clear, SystemPages * PerEms, FALSE)
        IN /\ mhandles = sys.mh
           /\ contents = Filled([p \in Pages |-> Empty], sys.mh, <<"ems", 0>>,
                                Chain(sys.mh, sys.handle), 0)
           /\ xms = [h \in XmsIds |-> FreeXms]
           /\ emm = [h \in EmsIds |-> IF h = 0
                       THEN [pages |-> SystemPages, mem |-> sys.handle]
                       ELSE FreeEms]
           /\ vcpi = {}
           /\ stopped = FALSE
  BY DEF Init
<1> DEFINE clear == [p \in 1..Beyond |-> IF p = Beyond THEN word ELSE 0]
           sys == MEM_AllocatePages(clear, SystemPages * PerEms, FALSE)
           B == [o \in Holders |-> <<>>]
           o == <<"ems", 0>>
           c == [p \in Pages |-> Empty]
<1>1. /\ mhandles = sys.mh
      /\ contents = Filled(c, sys.mh, o, Chain(sys.mh, sys.handle), 0)
      /\ xms = [h \in XmsIds |-> FreeXms]
      /\ emm = [h \in EmsIds |-> IF h = 0 THEN [pages |-> SystemPages, mem |-> sys.handle]
                                 ELSE FreeEms]
      /\ vcpi = {} /\ stopped = FALSE
  BY <1>0
<1>2. Layout(clear, B) /\ MEM_FreeTotal(clear) = N
  <2>1. PICK mh : mh = clear
    OBVIOUS
  <2> HIDE DEF B
  <2>2. B = [q \in Holders |-> <<>>]
    BY DEF B
  <2>3. Layout(mh, B) /\ MEM_FreeTotal(mh) = N
    BY <2>1, <2>2, ClearLayout
  <2> QED
    BY <2>1, <2>3
<1>3. o \in Named /\ o \in Holders /\ o # Spare /\ o \in Owners /\ Spare \in Holders
  BY NamedHolders, Constants
<1>4. PICK n : n = SystemPages * PerEms
  OBVIOUS
<1>5. n \in Nat /\ n # 0 /\ n <= N /\ SystemPages \in Nat /\ SystemPages # Null
  <2>1. SystemPages \in Nat \ {0} /\ n < N /\ PerEms \in Nat \ {0} /\ N \in Nat
    BY <1>4, ExtMemAssumption, NAssumption
  <2>2. n \in Nat /\ n # 0
    BY <1>4, <2>1
  <2> QED
    BY <2>1, <2>2 DEF Null
<1>6. PICK f \in BOOLEAN : f = FALSE
  OBVIOUS
<1>7. \A q \in Holders : B[q] = <<>>
  OBVIOUS
<1> HIDE DEF clear, B
<1>8. PICK b : b = sys
  OBVIOUS
<1>9. PICK t : Allocated(clear, n, f, b, t)
  <2>1. b = MEM_AllocatePages(clear, n, f) /\ clear \in [1..Beyond -> Words]
    BY <1>2, <1>4, <1>6, <1>8 DEF Layout
  <2> HIDE DEF sys
  <2> QED
    BY <1>5, <2>1, Allocates
<1> HIDE DEF sys
<1>10. /\ Fresh(clear, t) /\ t # <<>> /\ Len(t) = n /\ b.handle = t[1]
  BY <1>2, <1>5, <1>6, <1>9 DEF Allocated
<1>11. Kept(c, B) /\ c \in [Pages -> Stored]
  <2>1. \A q \in Named : ~\E k \in 1..Len(B[q]) : TRUE
    BY <1>7, NoBlock, NamedHolders
  <2>2. Kept(c, B)
    BY <2>1 DEF Kept
  <2> QED
    BY <2>2 DEF Stored
<1> HIDE DEF c, o
<1>12. PICK C : InOrderFor(b.mh, contents, B, C, o, t)
  <2>1. contents = Filled(c, b.mh, o, Chain(b.mh, b.handle), 0)
    BY <1>1, <1>8
  <2> QED
    BY <1>2, <1>3, <1>7, <1>9, <1>11, <2>1, Takes
<1>13. /\ Layout(mhandles, C) /\ C[Spare] = <<>>
       /\ contents \in [Pages -> Stored] /\ Kept(contents, C)
       /\ C[o] = t /\ \A q \in Holders \ {o} : C[q] = <<>>
  BY <1>1, <1>7, <1>8, <1>12 DEF InOrderFor, Swaps
<1>14. XmsFits(xms, C)
  <2>1. FreeXms \in XmsRecord
    BY ExtMemAssumption DEF FreeXms, XmsRecord, Words
  <2>2. \A h \in XmsIds : C[<<"xms", h>>] = <<>>
    BY <1>13, Constants DEF o
  <2>3. XmsBlockFits(FreeXms, <<>>)
    <3>1. PagesOfKb(0) = 0
      BY Rounds
    <3>2. Neighbours(<<>>)
      <4>1. ~\E k \in 1..Len(<<>>) : TRUE
        BY NoBlock
      <4> QED
        BY <4>1 DEF Neighbours
    <3> QED
      BY <3>1, <3>2, NoBlock DEF XmsBlockFits, HandleOf, FreeXms
  <2>4. xms \in [XmsIds -> XmsRecord] /\ \A h \in XmsIds : xms[h] = FreeXms
    BY <1>1, <2>1
  <2> QED
    BY <2>2, <2>3, <2>4 DEF XmsFits
<1>15. EmsFits(emm, C)
  <2> DEFINE r == [pages |-> SystemPages, mem |-> b.handle]
  <2>1. FreeEms \in EmsRecord /\ EmsBlockFits(FreeEms, <<>>)
    BY NoBlock DEF FreeEms, EmsRecord, EmsBlockFits, HandleOf, Words, Null
  <2>2. HandleOf(b.handle, t) /\ Distinct(t)
    BY <1>10 DEF HandleOf, Fresh
  <2>3. r \in EmsRecord /\ EmsBlockFits(r, t)
    BY <1>4, <1>5, <1>10, <2>2, HandleWord DEF EmsRecord, EmsBlockFits
  <2> HIDE DEF r
  <2>4. emm = [h \in EmsIds |-> IF h = 0 THEN r ELSE FreeEms]
    BY <1>1, <1>8 DEF r
  <2>5. \A h \in EmsIds : C[<<"ems", h>>] = IF h = 0 THEN t ELSE <<>>
    BY <1>13, Constants DEF o
  <2>6. emm \in [EmsIds -> EmsRecord]
    BY <2>1, <2>3, <2>4
  <2>7. \A h \in EmsIds : emm[h] = IF h = 0 THEN r ELSE FreeEms
    BY <2>4
  <2>8. \A h \in EmsIds : EmsBlockFits(emm[h], C[<<"ems", h>>])
    BY <2>1, <2>3, <2>5, <2>7
  <2> QED
    BY <2>6, <2>8 DEF EmsFits
<1>16. VcpiFits(vcpi, C)
  <2>1. \A p \in 1..Beyond : C[<<"vcpi", p>>] = <<>>
    BY <1>13, Constants DEF o
  <2> QED
    BY <1>1, <2>1 DEF VcpiFits
<1>17. Sound(mhandles, contents, xms, emm, vcpi, C)
  BY <1>13, <1>14, <1>15, <1>16 DEF Sound
<1> QED
  BY <1>1, <1>17 DEF MemInv

\* A step keeps the invariant.
LEMMA Preserved ==
  ASSUME 0 \notin NewSizes, MemInv, [Next]_vars
  PROVE  MemInv'
<1>1. PICK B : Sound(mhandles, contents, xms, emm, vcpi, B)
  BY DEF MemInv
<1>2. Steps(B) /\ stopped' \in {stopped, TRUE} /\ stopped \in BOOLEAN
  BY <1>1, NextSteps DEF MemInv
<1>3. PICK C : Sound(mhandles', contents', xms', emm', vcpi', C)
  BY <1>2 DEF Steps
<1>4. stopped' \in BOOLEAN
  BY <1>2
<1> QED
  BY <1>3, <1>4 DEF MemInv

\* No page is lost or shared as long as no program asks for a block of no size.
THEOREM MemInvariance ==
  ASSUME 0 \notin NewSizes
  PROVE  Spec => []MemInv
<1>1. Init => MemInv
  BY InitSound
<1>2. MemInv /\ [Next]_vars => MemInv'
  BY Preserved
<1> QED
  BY <1>1, <1>2, PTL DEF Spec


-----------------------------------------------------------------------------
(* What the invariant says of the handles *)

\* The operators of the properties, of any values of the variables.
XmsBlockOf(mh, x, h) == IF x[h].size = 0 THEN <<>> ELSE Chain(mh, x[h].mem)
EmsBlockOf(mh, e, h) == IF e[h].pages < 1 THEN <<>> ELSE Chain(mh, e[h].mem)

HeldOf(mh, x, e, v) ==
  [o \in Owners |->
      CASE o[1] = "xms" -> PagesIn(XmsBlockOf(mh, x, o[2]))
        [] o[1] = "ems" -> PagesIn(EmsBlockOf(mh, e, o[2]))
        [] o[1] = "vcpi" -> UNION {PagesIn(Chain(mh, p)) : p \in v}]

\* The owner that has holder o's pages.
OwnerOf(o) == IF o \in Named THEN o ELSE <<"vcpi", 0>>

\* The block that XmsBlock walks is the one of the layout.
LEMMA XmsBlockIs ==
  ASSUME NEW mh, NEW c, NEW x, NEW e, NEW v, NEW B, Sound(mh, c, x, e, v, B), NEW h \in XmsIds
  PROVE  XmsBlockOf(mh, x, h) = B[<<"xms", h>>]
<1>1. XmsBlockFits(x[h], B[<<"xms", h>>]) /\ x[h] \in XmsRecord
  BY XmsOwn DEF Sound
<1> DEFINE o == <<"xms", h>>
           s == B[o]
<1>2. o \in Holders
  BY Constants
<1>3. HandleOf(x[h].mem, s) /\ Len(s) = PagesOfKb(x[h].size) /\ x[h].size \in Nat
  BY <1>1 DEF XmsBlockFits, XmsRecord
<1> HIDE DEF o
<1>4. Chain(mh, x[h].mem) = s /\ s \in Seq(1..Beyond)
  <2>1. PICK m : m = x[h].mem
    OBVIOUS
  <2>2. Layout(mh, B) /\ HandleOf(m, s)
    BY <1>3, <2>1 DEF Sound
  <2>3. Chain(mh, m) = s
    BY <1>2, <2>2, HandleChain
  <2>4. s \in Seq(1..Beyond)
    BY <1>2, <2>2 DEF Layout, Distinct
  <2> QED
    BY <2>1, <2>3, <2>4
<1>5. x[h].size = 0 => s = <<>>
  <2>1. PagesOfKb(0) = 0
    BY Rounds
  <2> QED
    BY <1>3, <1>4, <2>1, InBlock
<1> QED
  BY <1>4, <1>5 DEF XmsBlockOf, o

\* The block that EmsBlock walks is the one of the layout.
LEMMA EmsBlockIs ==
  ASSUME NEW mh, NEW c, NEW x, NEW e, NEW v, NEW B, Sound(mh, c, x, e, v, B), NEW h \in EmsIds
  PROVE  EmsBlockOf(mh, e, h) = B[<<"ems", h>>]
<1>1. EmsBlockFits(e[h], B[<<"ems", h>>]) /\ e[h] \in EmsRecord
  BY EmsOwn DEF Sound
<1> DEFINE o == <<"ems", h>>
           s == B[o]
<1>2. o \in Holders
  BY Constants
<1>3. HandleOf(e[h].mem, s) /\ e[h].pages \in Nat \cup {Null}
      /\ Len(s) = IF e[h].pages = Null THEN 0 ELSE e[h].pages * PerEms
  BY <1>1 DEF EmsBlockFits, EmsRecord
<1> HIDE DEF o
<1>4. Chain(mh, e[h].mem) = s /\ s \in Seq(1..Beyond)
  <2>1. PICK m : m = e[h].mem
    OBVIOUS
  <2>2. Layout(mh, B) /\ HandleOf(m, s)
    BY <1>3, <2>1 DEF Sound
  <2>3. Chain(mh, m) = s
    BY <1>2, <2>2, HandleChain
  <2>4. s \in Seq(1..Beyond)
    BY <1>2, <2>2 DEF Layout, Distinct
  <2> QED
    BY <2>1, <2>3, <2>4
<1>5. e[h].pages < 1 => s = <<>>
  <2> SUFFICES ASSUME e[h].pages < 1
               PROVE  Len(s) = 0
    BY <1>4, InBlock
  <2>1. e[h].pages \in {0, Null}
    BY <1>3 DEF Null
  <2>2. 0 * PerEms = 0
    BY Constants
  <2> QED
    BY <1>3, <2>1, <2>2
<1> QED
  BY <1>4, <1>5 DEF EmsBlockOf, o

\* A page is held by an owner exactly when it is in a block of one of its holders.
LEMMA HeldIs ==
  ASSUME NEW mh, NEW c, NEW x, NEW e, NEW v, NEW B, Sound(mh, c, x, e, v, B), NEW a \in Owners,
         NEW p
  PROVE  p \in HeldOf(mh, x, e, v)[a]
           <=> \E o \in Holders \ {Spare} : OwnerOf(o) = a /\ p \in PagesIn(B[o])
<1>1. CASE a \in Named
  <2>1. \A o \in Holders : OwnerOf(o) = a <=> o = a
    BY <1>1 DEF OwnerOf, Named
  <2>2. HeldOf(mh, x, e, v)[a] = PagesIn(B[a])
    <3>1. ASSUME NEW h \in XmsIds, a = <<"xms", h>>
          PROVE  HeldOf(mh, x, e, v)[a] = PagesIn(B[a])
      <4>1. HeldOf(mh, x, e, v)[a] = PagesIn(XmsBlockOf(mh, x, h))
        BY <3>1 DEF HeldOf
      <4> QED
        BY <3>1, <4>1, XmsBlockIs
    <3>2. ASSUME NEW h \in EmsIds, a = <<"ems", h>>
          PROVE  HeldOf(mh, x, e, v)[a] = PagesIn(B[a])
      <4>1. HeldOf(mh, x, e, v)[a] = PagesIn(EmsBlockOf(mh, e, h))
        BY <3>2 DEF HeldOf
      <4> QED
        BY <3>2, <4>1, EmsBlockIs
    <3> QED
      BY <1>1, <3>1, <3>2 DEF Named
  <2>3. a \in Holders /\ a # Spare
    BY <1>1, NamedHolders
  <2> QED
    BY <2>1, <2>2, <2>3
<1>2. CASE a \notin Named
  <2>1. a = <<"vcpi", 0>>
    BY <1>2 DEF Owners, Named
  <2>2. HeldOf(mh, x, e, v)[a] = UNION {PagesIn(Chain(mh, q)) : q \in v}
    BY <2>1 DEF HeldOf
  <2>3. v \subseteq 1..Beyond
        /\ \A q \in 1..Beyond : B[<<"vcpi", q>>] = IF q \in v THEN <<q>> ELSE <<>>
    BY DEF Sound, VcpiFits
  <2>4. ASSUME NEW q \in v
        PROVE  Chain(mh, q) = B[<<"vcpi", q>>]
    <3>1. PICK o : o = <<"vcpi", q>>
      OBVIOUS
    <3>2. o \in Holders /\ B[o] = <<q>>
      BY <2>3, <3>1, Constants
    <3>3. HandleOf(q, B[o])
      <4>1. <<q>> # <<>> /\ <<q>>[1] = q
        OBVIOUS
      <4> QED
        BY <3>2, <4>1 DEF HandleOf
    <3> QED
      BY <3>1, <3>2, <3>3, HandleChain DEF Sound
  <2>5. ASSUME NEW o \in Holders \ {Spare}, OwnerOf(o) = a, p \in PagesIn(B[o])
        PROVE  \E q \in v : p \in PagesIn(Chain(mh, q))
    <3>1. PICK q \in 1..Beyond : o = <<"vcpi", q>>
      BY <1>2, <2>5 DEF OwnerOf, Holders, Named
    <3>2. q \in v
      BY <2>3, <2>5, <3>1, NoBlock
    <3> QED
      BY <2>4, <2>5, <3>1, <3>2
  <2>6. ASSUME NEW q \in v, p \in PagesIn(Chain(mh, q))
        PROVE  \E o \in Holders \ {Spare} : OwnerOf(o) = a /\ p \in PagesIn(B[o])
    <3>1. PICK o : o = <<"vcpi", q>>
      OBVIOUS
    <3>2. o \in Holders \ {Spare} /\ o \notin Named
      BY <2>3, <3>1, NamedHolders, Constants
    <3>3. p \in PagesIn(B[o]) /\ OwnerOf(o) = a
      BY <2>1, <2>4, <2>6, <3>1, <3>2 DEF OwnerOf
    <3> QED
      BY <3>2, <3>3
  <2> QED
    BY <2>2, <2>5, <2>6
<1> QED
  BY <1>1, <1>2

\* Held is a function of the variables as they are,
LEMMA HeldNow == Held = HeldOf(mhandles, xms, emm, vcpi)
BY DEF Held, HeldOf, XmsBlock, EmsBlock, XmsBlockOf, EmsBlockOf

\* and as they will be.
LEMMA HeldNext == Held' = HeldOf(mhandles', xms', emm', vcpi')
BY DEF Held, HeldOf, XmsBlock, EmsBlock, XmsBlockOf, EmsBlockOf

\* Every holder's pages have an owner.
LEMMA OwnerIs ==
  ASSUME NEW o \in Holders
  PROVE  OwnerOf(o) \in Owners
BY NamedHolders DEF OwnerOf, Owners

-----------------------------------------------------------------------------
(* The properties *)

\* The invariant gives the types.
LEMMA TypesHold == MemInv => TypeOK
<1> SUFFICES ASSUME MemInv
             PROVE  TypeOK
  OBVIOUS
<1>1. PICK B : Sound(mhandles, contents, xms, emm, vcpi, B)
  BY DEF MemInv
<1>2. mhandles \in [1..Beyond -> Words] /\ contents \in [Pages -> Stored]
  BY <1>1 DEF Sound, Layout
<1>3. xms \in [XmsIds -> XmsRecord] /\ emm \in [EmsIds -> EmsRecord] /\ vcpi \subseteq 1..Beyond
  BY <1>1 DEF Sound, XmsFits, EmsFits, VcpiFits
<1>4. stopped \in BOOLEAN
  BY DEF MemInv
<1> QED
  BY <1>2, <1>3, <1>4 DEF TypeOK, Stored, XmsRecord, EmsRecord

\* The layout accounts for every page of the array.
LEMMA PagesAccounted == MemInv => UsedIffHeld
<1> SUFFICES ASSUME MemInv
             PROVE  UsedIffHeld
  OBVIOUS
<1>1. PICK B : Sound(mhandles, contents, xms, emm, vcpi, B)
  BY DEF MemInv
<1>2. \A a \in Owners : \A p :
        p \in Held[a] <=> \E o \in Holders \ {Spare} : OwnerOf(o) = a /\ p \in PagesIn(B[o])
  BY <1>1, HeldIs, HeldNow
<1>3. ASSUME NEW p \in Pages
      PROVE  mhandles[p] # 0 <=> p \in HeldPages
  <2>0. p \in 1..Beyond /\ p # Beyond
    BY NAssumption DEF Pages, Beyond
  <2>1. p \in HeldPages <=> \E a \in Owners : p \in Held[a]
    BY DEF HeldPages
  <2>2. ASSUME p \in HeldPages
        PROVE  mhandles[p] # 0
    <3>1. PICK o \in Holders : p \in PagesIn(B[o])
      BY <1>2, <2>1, <2>2
    <3> QED
      BY <1>1, <3>1, BlockOf DEF Sound
  <2>3. ASSUME mhandles[p] # 0
        PROVE  p \in HeldPages
    <3>1. PICK o \in Holders : p \in PagesIn(B[o])
      BY <1>1, <2>0, <2>3 DEF Sound, Layout
    <3>2. o # Spare
      BY <1>1, <3>1, NoBlock DEF Sound
    <3>3. OwnerOf(o) \in Owners
      BY OwnerIs
    <3> QED
      BY <1>2, <2>1, <3>1, <3>2, <3>3
  <2> QED
    BY <2>2, <2>3
<1> QED
  BY <1>3 DEF UsedIffHeld, FreePages

\* The length of a block is what its driver says, and XMS blocks are runs.
LEMMA WholeBlocks == MemInv => BlocksWhole
<1> SUFFICES ASSUME MemInv
             PROVE  BlocksWhole
  OBVIOUS
<1>1. PICK B : Sound(mhandles, contents, xms, emm, vcpi, B)
  BY DEF MemInv
<1>2. ASSUME NEW h \in XmsIds
      PROVE  /\ XmsBlock(h) = B[<<"xms", h>>] /\ XmsBlockFits(xms[h], XmsBlock(h))
             /\ xms[h].size \in Nat
  <2>1. XmsBlock(h) = XmsBlockOf(mhandles, xms, h)
    BY DEF XmsBlock, XmsBlockOf
  <2>2. XmsBlock(h) = B[<<"xms", h>>]
    BY <1>1, <2>1, XmsBlockIs
  <2>3. XmsFits(xms, B)
    BY <1>1 DEF Sound
  <2>4. XmsBlockFits(xms[h], B[<<"xms", h>>]) /\ xms[h] \in XmsRecord
    BY <2>3, XmsOwn
  <2>5. xms[h].size \in Nat
    BY <2>4 DEF XmsRecord
  <2> QED
    BY <2>2, <2>4, <2>5
<1>3. ASSUME NEW h \in XmsIds
      PROVE  LET size == xms[h].size
                 n == Len(XmsBlock(h))
             IN size <= n * PerKb /\ n * PerKb < size + PerKb
  <2>1. PICK n : n = Len(XmsBlock(h))
    OBVIOUS
  <2>2. PICK size \in Nat : size = xms[h].size
    BY <1>2
  <2>3. n = PagesOfKb(size)
    BY <1>2, <2>1, <2>2 DEF XmsBlockFits
  <2>4. size <= n * PerKb /\ n * PerKb < size + PerKb
    BY <2>3, Rounds
  <2> QED
    BY <2>1, <2>2, <2>4
<1>4. ASSUME NEW h \in EmsIds, ValidHandle(h)
      PROVE  Len(EmsBlock(h)) = emm[h].pages * PerEms
  <2>1. EmsBlock(h) = EmsBlockOf(mhandles, emm, h)
    BY DEF EmsBlock, EmsBlockOf
  <2>2. EmsBlock(h) = B[<<"ems", h>>]
    BY <1>1, <2>1, EmsBlockIs
  <2>3. EmsBlockFits(emm[h], EmsBlock(h))
    BY <1>1, <2>2, EmsOwn DEF Sound
  <2> QED
    BY <1>4, <2>3 DEF EmsBlockFits, ValidHandle
<1>5. ASSUME NEW h \in XmsIds, NEW k \in 1..Len(XmsBlock(h)) - 1
      PROVE  XmsBlock(h)[k + 1] = XmsBlock(h)[k] + 1
  <2>1. PICK s : s = XmsBlock(h)
    OBVIOUS
  <2>2. Neighbours(s) /\ s = B[<<"xms", h>>]
    BY <1>2, <2>1 DEF XmsBlockFits
  <2>3. Listed(s)
    <3>1. PICK o \in Holders : o = <<"xms", h>>
      BY Constants
    <3>2. s = B[o]
      BY <2>2, <3>1
    <3> QED
      BY <1>1, <3>2, BlockOf DEF Sound
  <2>4. Len(s) \in Nat /\ k \in 1..Len(s) - 1
    BY <2>1, <2>3 DEF Listed
  <2>5. k \in 1..Len(s) /\ k + 1 \in 1..Len(s) /\ 1 \in 1..Len(s)
    BY <2>4
  <2>6. s[k] = s[1] + k - 1 /\ s[k + 1] = s[1] + (k + 1) - 1
    BY <2>2, <2>5 DEF Neighbours
  <2>7. s[1] \in Int
    <3>1. s[1] \in Pages
      BY <2>2, <2>5 DEF Neighbours
    <3> QED
      BY <3>1, NAssumption DEF Pages
  <2>8. \A a \in Int : a + (k + 1) - 1 = (a + k - 1) + 1
    BY <2>4
  <2> QED
    BY <2>1, <2>6, <2>7, <2>8
<1> QED
  BY <1>3, <1>4, <1>5 DEF BlocksWhole

\* What is stored is at its place.
LEMMA ContentsHold == MemInv => ContentsKept
<1> SUFFICES ASSUME MemInv
             PROVE  ContentsKept
  OBVIOUS
<1>1. PICK B : Sound(mhandles, contents, xms, emm, vcpi, B)
  BY DEF MemInv
<1>2. ASSUME NEW o \in Named
      PROVE  InPlace(o, B[o])
  <2>1. o \in Holders
    BY NamedHolders
  <2>2. DOMAIN B[o] = 1..Len(B[o])
    BY <1>1, <2>1, InBlock DEF Sound, Layout, Distinct
  <2> QED
    BY <1>1, <2>2 DEF InPlace, Sound, Kept
<1>3. ASSUME NEW h \in XmsIds
      PROVE  InPlace(<<"xms", h>>, XmsBlock(h))
  <2>1. XmsBlock(h) = XmsBlockOf(mhandles, xms, h)
    BY DEF XmsBlock, XmsBlockOf
  <2>2. XmsBlock(h) = B[<<"xms", h>>]
    BY <1>1, <2>1, XmsBlockIs
  <2> QED
    BY <1>2, <2>2, NamedHolders
<1>4. ASSUME NEW h \in EmsIds
      PROVE  InPlace(<<"ems", h>>, EmsBlock(h))
  <2>1. EmsBlock(h) = EmsBlockOf(mhandles, emm, h)
    BY DEF EmsBlock, EmsBlockOf
  <2>2. EmsBlock(h) = B[<<"ems", h>>]
    BY <1>1, <2>1, EmsBlockIs
  <2> QED
    BY <1>2, <2>2, NamedHolders
<1> QED
  BY <1>3, <1>4 DEF ContentsKept

\* A step leaves a locked block alone unless it frees it.
LEMMA LocksHold ==
  ASSUME 0 \notin NewSizes, MemInv, [Next]_vars
  PROVE  \A h \in XmsIds :
           xms[h].locked > 0 /\ ~xms[h].free /\ ~xms'[h].free => XmsBlock(h)' = XmsBlock(h)
<1>1. PICK B : Sound(mhandles, contents, xms, emm, vcpi, B)
  BY DEF MemInv
<1>2. Steps(B)
  BY <1>1, NextSteps
<1>3. PICK o, t, C :
        /\ o \in Holders /\ Sound(mhandles', contents', xms', emm', vcpi', C)
        /\ Swaps(B, C, o, t) /\ o # Spare
        /\ \A h \in XmsIds : o = <<"xms", h>> => xms[h].free \/ xms[h].locked = 0 \/ xms'[h].free
  BY <1>2 DEF Steps
<1> SUFFICES ASSUME NEW h \in XmsIds, xms[h].locked > 0, ~xms[h].free, ~xms'[h].free
             PROVE  XmsBlock(h)' = XmsBlock(h)
  OBVIOUS
<1>4. o # <<"xms", h>>
  <2>1. xms[h].locked # 0
    BY DEF Sound
  <2> QED
    BY <1>3, <2>1
<1>5. C[<<"xms", h>>] = B[<<"xms", h>>]
  BY <1>3, <1>4, Constants DEF Swaps
<1>6. XmsBlock(h) = XmsBlockOf(mhandles, xms, h)
      /\ XmsBlock(h)' = XmsBlockOf(mhandles', xms', h)
  BY DEF XmsBlock, XmsBlockOf
<1>7. XmsBlockOf(mhandles, xms, h) = B[<<"xms", h>>]
  BY <1>1, XmsBlockIs
<1>8. XmsBlockOf(mhandles', xms', h) = C[<<"xms", h>>]
  BY <1>3, XmsBlockIs
<1> QED
  BY <1>5, <1>6, <1>7, <1>8

-----------------------------------------------------------------------------
(* The pages and their owners *)

\* No page has two owners.
LEMMA OwnersApart ==
  ASSUME NEW mh, NEW c, NEW x, NEW e, NEW v, NEW B, Sound(mh, c, x, e, v, B),
         NEW held, held = HeldOf(mh, x, e, v)
  PROVE  /\ held \in [Owners -> SUBSET (1..Beyond)]
         /\ \A a, b \in Owners : a # b => held[a] \cap held[b] = {}
<1>1. \A a \in Owners : \A p :
        p \in held[a] <=> \E o \in Holders \ {Spare} : OwnerOf(o) = a /\ p \in PagesIn(B[o])
  BY HeldIs
<1>2. \A o \in Holders : \A p \in PagesIn(B[o]) : p \in 1..Beyond
  BY BlockOf DEF Sound, Listed
<1>3. held = [a \in Owners |-> held[a]]
  <2> DEFINE pages(a) == CASE a[1] = "xms" -> PagesIn(XmsBlockOf(mh, x, a[2]))
                           [] a[1] = "ems" -> PagesIn(EmsBlockOf(mh, e, a[2]))
                           [] a[1] = "vcpi" -> UNION {PagesIn(Chain(mh, p)) : p \in v}
  <2>1. held = [a \in Owners |-> pages(a)]
    BY DEF HeldOf
  <2> HIDE DEF pages
  <2> QED
    BY <2>1
<1>4. \A a \in Owners : held[a] \in SUBSET (1..Beyond)
  BY <1>1, <1>2
<1>5. ASSUME NEW a \in Owners, NEW b \in Owners, a # b, NEW p \in held[a], p \in held[b]
      PROVE  FALSE
  <2>1. PICK o \in Holders : OwnerOf(o) = a /\ p \in PagesIn(B[o])
    BY <1>1
  <2>2. PICK q \in Holders : OwnerOf(q) = b /\ p \in PagesIn(B[q])
    BY <1>1, <1>5
  <2> QED
    BY <1>5, <2>1, <2>2 DEF Sound, Layout
<1>6. held \in [Owners -> SUBSET (1..Beyond)]
  BY <1>3, <1>4
<1> QED
  BY <1>5, <1>6

\* Any state of the invariant is an initial one of PageOwners.
LEMMA OwnersInit == MemInv => Ownership!Init
<1> SUFFICES ASSUME MemInv
             PROVE  Ownership!Init
  OBVIOUS
<1>1. PICK B : Sound(mhandles, contents, xms, emm, vcpi, B)
  BY DEF MemInv
<1>2. /\ Held \in [Owners -> SUBSET (1..Beyond)]
      /\ \A a, b \in Owners : a # b => Held[a] \cap Held[b] = {}
  BY <1>1, HeldNow, OwnersApart
<1> QED
  BY <1>2 DEF Ownership!Init, Ownership!TypeOK, Ownership!Exclusive

\* A step serves the owner of the holder whose block changes.
LEMMA OwnersServe ==
  ASSUME 0 \notin NewSizes, MemInv, [Next]_vars
  PROVE  Ownership!Next
<1>1. PICK B : Sound(mhandles, contents, xms, emm, vcpi, B)
  BY DEF MemInv
<1>2. Steps(B)
  BY <1>1, NextSteps
<1>3. PICK o, t, C :
        /\ o \in Holders /\ Sound(mhandles', contents', xms', emm', vcpi', C)
        /\ Swaps(B, C, o, t) /\ o # Spare
  BY <1>2 DEF Steps
<1> DEFINE w == OwnerOf(o)
<1>4. w \in Owners
  BY <1>3, OwnerIs
<1>5. /\ Held' \in [Owners -> SUBSET (1..Beyond)]
      /\ \A a, b \in Owners : a # b => Held'[a] \cap Held'[b] = {}
  BY <1>3, HeldNext, OwnersApart
<1>6. \A a \in Owners : \A p :
        p \in Held[a] <=> \E q \in Holders \ {Spare} : OwnerOf(q) = a /\ p \in PagesIn(B[q])
  BY <1>1, HeldNow, HeldIs
<1>7. \A a \in Owners : \A p :
        p \in Held'[a] <=> \E q \in Holders \ {Spare} : OwnerOf(q) = a /\ p \in PagesIn(C[q])
  BY <1>3, HeldNext, HeldIs
<1>8. ASSUME NEW a \in Owners, a # w
      PROVE  Held'[a] = Held[a]
  <2>1. \A q \in Holders : OwnerOf(q) = a => C[q] = B[q]
    BY <1>3, <1>8 DEF Swaps
  <2>2. \A p : p \in Held'[a] <=> p \in Held[a]
    BY <1>6, <1>7, <2>1
  <2> QED
    BY <2>2
<1> HIDE DEF w
<1>9. ASSUME NEW a \in Owners \ {w}
      PROVE  Held'[a] = Held[a] /\ Held'[w] \cap Held[a] = {}
  BY <1>4, <1>5, <1>8
<1>10. Held'[w] \subseteq 1..Beyond
  BY <1>4, <1>5
<1>11. Ownership!Serve(w)
  BY <1>9, <1>10 DEF Ownership!Serve
<1> QED
  BY <1>4, <1>11 DEF Ownership!Next


-----------------------------------------------------------------------------
(* The theorems *)

\* The one pass of BestMatch finds the first of the shortest runs that are long
\* enough, whatever the array holds.
THEOREM ScanIsRight == Spec => []BestMatchIsShortest
<1>1. BestMatchIsShortest
  <2>1. \A size \in 1..N : size \in Nat \ {0}
    BY NAssumption
  <2> QED
    BY <2>1, BestMatchIs DEF BestMatchIsShortest
<1> QED
  BY <1>1, PTL

\* The variables keep their types: among them, no handle leads outside the array
\* but to the word behind it (mhandles, xms_handles and emm_handles).
THEOREM HasTypes == ASSUME 0 \notin NewSizes PROVE Spec => []TypeOK
<1>1. Spec => []MemInv
  BY MemInvariance
<1>2. MemInv => TypeOK
  BY TypesHold
<1> QED
  BY <1>1, <1>2, PTL

\* A word of memory.mhandles is zero exactly when no handle stands for its page:
\* no call of the three drivers loses a page or hands out one that is held.
THEOREM NoPageLost == ASSUME 0 \notin NewSizes PROVE Spec => []UsedIffHeld
<1>1. Spec => []MemInv
  BY MemInvariance
<1>2. MemInv => UsedIffHeld
  BY PagesAccounted
<1> QED
  BY <1>1, <1>2, PTL

\* A handle has as many pages as xms_handles or emm_handles says, and the pages
\* of an XMS block are neighbours, as its moves and locks assume.
THEOREM BlocksAreWhole == ASSUME 0 \notin NewSizes PROVE Spec => []BlocksWhole
<1>1. Spec => []MemInv
  BY MemInvariance
<1>2. MemInv => BlocksWhole
  BY WholeBlocks
<1> QED
  BY <1>1, <1>2, PTL

\* What is stored in a block stays at its place in it, through every branch of
\* MEM_ReAllocatePages and whatever the other handles do.
THEOREM ContentsStay == ASSUME 0 \notin NewSizes PROVE Spec => []ContentsKept
<1>1. Spec => []MemInv
  BY MemInvariance
<1>2. MemInv => ContentsKept
  BY ContentsHold
<1> QED
  BY <1>1, <1>2, PTL

\* A locked XMS block keeps its pages, hence the address that XMS_LockMemory
\* returned, until it is unlocked or freed.
THEOREM LocksKeep == ASSUME 0 \notin NewSizes PROVE Spec => LockedStays
<1> DEFINE LockedKeep == \A h \in XmsIds :
         xms[h].locked > 0 /\ ~xms[h].free /\ ~xms'[h].free =>
            XmsBlock(h)' = XmsBlock(h)
<1>1. Spec => []MemInv
  BY MemInvariance
<1>2. MemInv /\ [Next]_vars => [LockedKeep]_vars
  BY LocksHold
<1>3. Spec => [][LockedKeep]_vars
  BY <1>1, <1>2, PTL DEF Spec
<1> QED
  BY <1>3 DEF LockedStays

\* The three drivers on top of the link array share its pages as PageOwners says:
\* one call serves one owner, who takes only what nobody holds.
THEOREM SharesPages == ASSUME 0 \notin NewSizes PROVE Spec => ImplementsOwnership
<1>1. Spec => []MemInv
  BY MemInvariance
<1>2. MemInv => Ownership!Init
  BY OwnersInit
<1>3. MemInv /\ [Next]_vars => [Ownership!Next]_Held
  BY OwnersServe
<1>4. Spec => Ownership!Init /\ [][Ownership!Next]_Held
  BY <1>1, <1>2, <1>3, PTL DEF Spec
<1> QED
  BY <1>4 DEF ImplementsOwnership, Ownership!Spec

=============================================================================
