--------------------------- MODULE DosMemoryProofs ---------------------------
(***************************************************************************)
(* Proofs about DosMemory for every layout of conventional and upper       *)
(* memory, with or without UMBs, and any requests: the chains of memory    *)
(* control blocks cover the memory without holes and overlaps, a process   *)
(* that waits keeps its blocks and one that ends leaves none, the search   *)
(* misses nothing that fits, and a program gets the block it asks for.     *)
(***************************************************************************)
EXTENDS DosMemory, SequenceTheorems, WellFoundedInduction, TLAPS

-----------------------------------------------------------------------------
(* Numbers *)

\* A set of numbers that is not empty has a least one.
LEMMA Least ==
  ASSUME NEW S \in SUBSET Nat, S # {}
  PROVE  \E n \in S : \A m \in S : n <= m
<1>1. PICK n \in S : \A m \in S : ~(<<m, n>> \in OpToRel(<, Nat))
  BY WFMin, NatLessThanWellFounded
<1>2. \A m \in S : m \in Nat /\ n \in Nat /\ ~(m < n)
  BY <1>1 DEF OpToRel
<1>3. \A m \in S : n <= m
  BY <1>2
<1> QED
  BY <1>3

\* A set that holds 0 and with every number the next one holds all of them.
LEMMA Induction ==
  ASSUME NEW S \in SUBSET Nat, 0 \in S, \A n \in S : n + 1 \in S
  PROVE  S = Nat
<1> SUFFICES ASSUME Nat \ S # {}
             PROVE  FALSE
  OBVIOUS
<1>1. PICK n \in Nat \ S : \A m \in Nat \ S : n <= m
  BY Least
<1>2. n \in Nat /\ n # 0 /\ n - 1 \in Nat /\ ~(n <= n - 1) /\ (n - 1) + 1 = n
  BY <1>1
<1>3. n - 1 \in S
  BY <1>1, <1>2
<1> QED
  BY <1>1, <1>2, <1>3

-----------------------------------------------------------------------------
(* The headers in memory *)

U == UMB_START_SEG

\* The paragraph behind all memory that has headers.
Top == IF HasUmb THEN LastSeg + 1 ELSE U

\* Where the chain through a header ends, by the link of the chains.
End(l, s) == IF s < U /\ ~l THEN U ELSE Top

\* The blocks lie side by side, from the first header to the top and with one of
\* them at the start of upper memory, and those at the ends of the chains say so.
Layout(m, l) ==
  /\ DOMAIN m \subseteq FirstMCB..(Top - 1) /\ FirstMCB \in DOMAIN m
  /\ HasUmb => U \in DOMAIN m
  /\ m = [s \in DOMAIN m |-> m[s]]
  /\ \A s \in DOMAIN m : m[s] \in [type : {"M", "Z"}, psp : Nat, size : Nat]
  /\ \A s \in DOMAIN m : Next0(m, s) \in DOMAIN m \cup {Top}
  /\ \A s, t \in DOMAIN m : s < t => Next0(m, s) <= t
  /\ \A s \in DOMAIN m : m[s].type = "Z" <=> Next0(m, s) = End(l, s)

LEMMA Bounds ==
  /\ U \in Nat /\ Top \in Nat /\ FirstMCB \in Nat /\ FirstMCB < U /\ U <= Top
  /\ Top - 1 <= LastSeg /\ LastSeg \in Nat /\ FirstMCB = 100
  /\ HasUmb => U < Top
  /\ ~HasUmb => U = Top
BY McbAssumption DEF U, Top, FirstMCB

\* A header and the one behind it.
LEMMA NextIs ==
  ASSUME NEW m, NEW l \in BOOLEAN, Layout(m, l), NEW s \in DOMAIN m
  PROVE  /\ s \in Nat /\ FirstMCB <= s /\ s < Top
         /\ m[s].size \in Nat /\ m[s].psp \in Nat /\ m[s].type \in {"M", "Z"}
         /\ Next0(m, s) \in Nat /\ s < Next0(m, s) /\ Next0(m, s) <= Top
         /\ Next0(m, s) <= End(l, s) /\ End(l, s) \in {U, Top}
         /\ m[s].type = "M" => /\ Next0(m, s) \in DOMAIN m
                               /\ End(l, Next0(m, s)) = End(l, s)
                               /\ Next0(m, s) < End(l, s)
         /\ m[s].type = "Z" => Next0(m, s) = End(l, s)
<1>1. s \in Nat /\ FirstMCB <= s /\ s < Top
  BY Bounds DEF Layout
<1>2. m[s] \in [type : {"M", "Z"}, psp : Nat, size : Nat]
  BY DEF Layout
<1>3. m[s].size \in Nat /\ m[s].psp \in Nat /\ m[s].type \in {"M", "Z"}
  BY <1>2
<1>4. Next0(m, s) \in Nat /\ s < Next0(m, s)
  BY <1>1, <1>3 DEF Next0
<1>5. Next0(m, s) \in DOMAIN m \cup {Top} /\ Next0(m, s) <= Top
  BY Bounds DEF Layout
<1>6. s < U => Next0(m, s) <= U
  <2>1. CASE HasUmb
    BY <2>1 DEF Layout
  <2>2. CASE ~HasUmb
    BY <2>2, <1>5, Bounds
  <2> QED
    BY <2>1, <2>2
<1>7. End(l, s) \in {U, Top} /\ Next0(m, s) <= End(l, s)
  BY <1>5, <1>6 DEF End
<1>8. m[s].type = "Z" <=> Next0(m, s) = End(l, s)
  BY DEF Layout
<1>9. ASSUME m[s].type = "M"
      PROVE  /\ Next0(m, s) \in DOMAIN m
             /\ End(l, Next0(m, s)) = End(l, s)
             /\ Next0(m, s) < End(l, s)
  <2>1. Next0(m, s) # End(l, s)
    BY <1>8, <1>9
  <2>2. Next0(m, s) < End(l, s)
    BY <2>1, <1>4, <1>7, Bounds
  <2>3. Next0(m, s) \in DOMAIN m
    BY <2>2, <1>5, <1>7, Bounds
  <2>4. End(l, Next0(m, s)) = End(l, s)
    BY <2>2, <1>1, <1>4, Bounds DEF End
  <2> QED
    BY <2>2, <2>3, <2>4
<1> QED
  BY <1>1, <1>3, <1>4, <1>5, <1>7, <1>8, <1>9

-----------------------------------------------------------------------------
(* Walks *)

\* w goes from s, block by block, to the end e, and meets every header between.
Walks(w, m, s, e) ==
  /\ w \in Seq(DOMAIN m) /\ Len(w) > 0
  /\ w[1] = s /\ Next0(m, w[Len(w)]) = e
  /\ \A k \in 1..(Len(w) - 1) : w[k + 1] = Next0(m, w[k])
  /\ \A i, j \in 1..Len(w) : i < j => w[i] < w[j]
  /\ \A t \in DOMAIN m : s <= t /\ t < e <=> \E k \in 1..Len(w) : w[k] = t

WalkStep(m, f, s) ==
  IF m[s].type = "M" /\ Next0(m, s) \in DOMAIN m THEN <<s>> \o f[Next0(m, s)] ELSE <<s>>

\* The function that Walk defines exists.
LEMMA WalkFunction ==
  ASSUME NEW m, NEW l \in BOOLEAN, Layout(m, l)
  PROVE  \E f : /\ f = [s \in DOMAIN m |-> WalkStep(m, f, s)]
                /\ \A s : Walk(m, s) = f[s]
<1> DEFINE Near(n) == {s \in DOMAIN m : Top <= s + n}
           UpTo(n) == \E f : f = [s \in Near(n) |-> WalkStep(m, f, s)]
           good == {n \in Nat : UpTo(n)}
<1>1. \A s \in DOMAIN m : s \in Nat /\ s < Top /\ Next0(m, s) \in Nat /\ s < Next0(m, s)
  BY NextIs
<1>2. Top \in Nat
  BY Bounds
<1>3. UpTo(0)
  <2>1. Near(0) = {}
    BY <1>1, <1>2
  <2> DEFINE f == [s \in {} |-> 0]
  <2>2. f = [s \in {} |-> WalkStep(m, f, s)]
    OBVIOUS
  <2> QED
    BY <2>1, <2>2
<1>4. ASSUME NEW n \in Nat, UpTo(n)
      PROVE  UpTo(n + 1)
  <2>1. PICK f : f = [s \in Near(n) |-> WalkStep(m, f, s)]
    BY <1>4
  <2> DEFINE g == [s \in Near(n + 1) |-> WalkStep(m, f, s)]
  <2>2. \A s \in Near(n) : s \in Near(n + 1)
    BY <1>1, <1>2
  <2>3. \A s \in Near(n) : g[s] = f[s]
    <3> HIDE DEF Near
    <3> QED
      BY <2>1, <2>2
  <2>4. ASSUME NEW s \in Near(n + 1)
        PROVE  WalkStep(m, f, s) = WalkStep(m, g, s)
    <3>1. CASE m[s].type = "M" /\ Next0(m, s) \in DOMAIN m
      <4>1. Next0(m, s) \in Near(n)
        BY <3>1, <1>1, <1>2
      <4>2. f[Next0(m, s)] = g[Next0(m, s)]
        BY <2>3, <4>1
      <4> HIDE DEF g, Near
      <4> QED
        BY <4>2 DEF WalkStep
    <3>2. CASE ~(m[s].type = "M" /\ Next0(m, s) \in DOMAIN m)
      BY <3>2 DEF WalkStep
    <3> QED
      BY <3>1, <3>2
  <2>5. g = [s \in Near(n + 1) |-> WalkStep(m, g, s)]
    <3>1. g = [s \in Near(n + 1) |-> WalkStep(m, f, s)]
      OBVIOUS
    <3> HIDE DEF g, Near
    <3> QED
      BY <2>4, <3>1
  <2> QED
    BY <2>5
<1>5. good = Nat
  <2> HIDE DEF UpTo
  <2>1. good \in SUBSET Nat /\ 0 \in good /\ \A n \in good : n + 1 \in good
    BY <1>3, <1>4
  <2> HIDE DEF good
  <2> QED
    BY <2>1, Induction
<1>6. UpTo(Top)
  <2> HIDE DEF UpTo
  <2> QED
    BY <1>2, <1>5
<1>7. Near(Top) = DOMAIN m
  BY <1>1, <1>2
<1>8. \E f : f = [s \in DOMAIN m |-> WalkStep(m, f, s)]
  BY <1>6, <1>7
<1> DEFINE h == CHOOSE f : f = [s \in DOMAIN m |-> WalkStep(m, f, s)]
<1>9. h = [s \in DOMAIN m |-> WalkStep(m, h, s)]
  BY <1>8
<1>10. \A s : Walk(m, s) = h[s]
  BY DEF Walk, WalkStep
<1> HIDE DEF h
<1> QED
  BY <1>9, <1>10

\* One more block in front of a walk.
LEMMA WalkGrows ==
  ASSUME NEW m, NEW l \in BOOLEAN, Layout(m, l), NEW s \in DOMAIN m, m[s].type = "M",
         NEW w, Walks(w, m, Next0(m, s), End(l, s))
  PROVE  Walks(<<s>> \o w, m, s, End(l, s))
<1>1. PICK v : v = <<s>> \o w
  OBVIOUS
<1> DEFINE D == DOMAIN m
           e == End(l, s)
<1>2. /\ w \in Seq(D) /\ Len(w) \in Nat /\ Len(w) > 0
      /\ w[1] = Next0(m, s) /\ Next0(m, w[Len(w)]) = e
      /\ \A k \in 1..(Len(w) - 1) : w[k + 1] = Next0(m, w[k])
      /\ \A i, j \in 1..Len(w) : i < j => w[i] < w[j]
      /\ \A t \in D : Next0(m, s) <= t /\ t < e <=> \E k \in 1..Len(w) : w[k] = t
  BY DEF Walks
<1>3. /\ s \in Nat /\ Next0(m, s) \in Nat /\ s < Next0(m, s) /\ Next0(m, s) < e
      /\ Next0(m, s) \in D /\ e \in Nat
  BY NextIs, Bounds
<1>4. \A t \in D : t \in Nat /\ (s < t => Next0(m, s) <= t)
  BY NextIs DEF Layout
<1> HIDE DEF D, e
<1>5. s \in D
  BY DEF D
<1>6. /\ v \in Seq(D) /\ Len(v) = Len(w) + 1 /\ v[1] = s
      /\ \A k \in 1..Len(w) : v[k + 1] = w[k]
  BY <1>1, <1>2, <1>5
<1>7. \A k \in 1..Len(w) : w[k] \in D /\ w[k] \in Nat /\ Next0(m, s) <= w[k]
  <2>1. \A k \in 1..Len(w) : w[k] \in D
    BY <1>2
  <2> QED
    BY <1>2, <1>4, <2>1
<1>8. Next0(m, v[Len(v)]) = e
  BY <1>2, <1>6
<1>9. ASSUME NEW k \in 1..(Len(v) - 1)
      PROVE  v[k + 1] = Next0(m, v[k])
  <2>1. CASE k = 1
    BY <1>2, <1>6, <2>1
  <2>2. CASE k # 1
    <3>1. k - 1 \in 1..(Len(w) - 1) /\ k - 1 \in 1..Len(w) /\ k \in 1..Len(w)
      BY <1>2, <1>6, <2>2
    <3>2. k \in Int /\ (k - 1) + 1 = k
      BY <3>1
    <3>3. v[k + 1] = w[k]
      BY <1>6, <3>1
    <3>4. v[(k - 1) + 1] = w[k - 1]
      BY <1>6, <3>1
    <3>5. w[(k - 1) + 1] = Next0(m, w[k - 1])
      BY <1>2, <3>1
    <3> QED
      BY <3>2, <3>3, <3>4, <3>5
  <2> QED
    BY <2>1, <2>2
<1>10. ASSUME NEW i \in 1..Len(v), NEW j \in 1..Len(v), i < j
       PROVE  v[i] < v[j]
  <2>1. j - 1 \in 1..Len(w) /\ (j - 1) + 1 = j
    BY <1>2, <1>6, <1>10
  <2>2. v[j] = w[j - 1]
    BY <1>6, <2>1
  <2>3. CASE i = 1
    BY <1>3, <1>6, <1>7, <2>1, <2>2, <2>3
  <2>4. CASE i # 1
    <3>1. i - 1 \in 1..Len(w) /\ (i - 1) + 1 = i /\ i - 1 < j - 1
      BY <1>2, <1>6, <1>10, <2>4
    <3>2. v[i] = w[i - 1]
      BY <1>6, <3>1
    <3> QED
      BY <1>2, <2>1, <2>2, <3>1, <3>2
  <2> QED
    BY <2>3, <2>4
<1>11. ASSUME NEW t \in D
       PROVE  s <= t /\ t < e <=> \E k \in 1..Len(v) : v[k] = t
  <2>1. (\E k \in 1..Len(v) : v[k] = t) <=> (t = s \/ \E k \in 1..Len(w) : w[k] = t)
    <3>1. ASSUME NEW k \in 1..Len(v), v[k] = t
          PROVE  t = s \/ \E j \in 1..Len(w) : w[j] = t
      <4>1. CASE k = 1
        BY <1>6, <3>1, <4>1
      <4>2. CASE k # 1
        <5>1. k - 1 \in 1..Len(w) /\ (k - 1) + 1 = k
          BY <1>2, <1>6, <4>2
        <5> QED
          BY <1>6, <3>1, <5>1
      <4> QED
        BY <4>1, <4>2
    <3>2. ASSUME NEW k \in 1..Len(w), w[k] = t
          PROVE  \E j \in 1..Len(v) : v[j] = t
      <4>1. k + 1 \in 1..Len(v)
        BY <1>2, <1>6
      <4> QED
        BY <1>6, <3>2, <4>1
    <3>3. 1 \in 1..Len(v)
      BY <1>2, <1>6
    <3> QED
      BY <1>6, <3>1, <3>2, <3>3
  <2>2. s <= t /\ t < e <=> t = s \/ (Next0(m, s) <= t /\ t < e)
    BY <1>3, <1>4
  <2> QED
    BY <1>2, <2>1, <2>2
<1>12. Walks(v, m, s, e)
  BY <1>2, <1>6, <1>8, <1>9, <1>10, <1>11 DEF Walks, D
<1> QED
  BY <1>1, <1>12 DEF e

\* The walk from a header visits those up to the end of its chain.
LEMMA WalkIs ==
  ASSUME NEW m, NEW l \in BOOLEAN, Layout(m, l), NEW start \in DOMAIN m
  PROVE  Walks(Walk(m, start), m, start, End(l, start))
<1>1. PICK f : /\ f = [s \in DOMAIN m |-> WalkStep(m, f, s)]
               /\ \A s : Walk(m, s) = f[s]
  BY WalkFunction
<1> DEFINE good == {n \in Nat : \A s \in DOMAIN m : Top <= s + n => Walks(f[s], m, s, End(l, s))}
<1>2. \A s \in DOMAIN m : s \in Nat /\ s < Top /\ Next0(m, s) \in Nat /\ s < Next0(m, s)
  BY NextIs
<1>3. Top \in Nat
  BY Bounds
<1>4. \A s \in DOMAIN m : f[s] = WalkStep(m, f, s)
  BY <1>1
<1>5. good \in SUBSET Nat /\ 0 \in good
  BY <1>2, <1>3
<1>6. ASSUME NEW n \in good
      PROVE  n + 1 \in good
  <2> SUFFICES ASSUME NEW s \in DOMAIN m, Top <= s + (n + 1)
               PROVE  Walks(f[s], m, s, End(l, s))
    OBVIOUS
  <2>1. CASE m[s].type = "M"
    <3>1. Next0(m, s) \in DOMAIN m /\ End(l, Next0(m, s)) = End(l, s)
      BY <2>1, NextIs
    <3>2. Top <= Next0(m, s) + n
      BY <1>2, <1>3, <3>1
    <3>3. Walks(f[Next0(m, s)], m, Next0(m, s), End(l, s))
      BY <3>1, <3>2
    <3>4. f[s] = <<s>> \o f[Next0(m, s)]
      BY <1>4, <2>1, <3>1 DEF WalkStep
    <3> HIDE DEF good
    <3>5. PICK w : w = f[Next0(m, s)]
      OBVIOUS
    <3>6. Walks(<<s>> \o w, m, s, End(l, s))
      BY <2>1, <3>3, <3>5, WalkGrows
    <3> QED
      BY <3>4, <3>5, <3>6
  <2>2. CASE m[s].type # "M"
    <3>1. f[s] = <<s>>
      BY <1>4, <2>2 DEF WalkStep
    <3>2. Next0(m, s) = End(l, s)
      BY <2>2, NextIs
    <3>3. \A t \in DOMAIN m : t \in Nat /\ (s < t => Next0(m, s) <= t)
      BY NextIs DEF Layout
    <3>4. PICK w : w = <<s>>
      OBVIOUS
    <3>5. w \in Seq(DOMAIN m) /\ Len(w) = 1 /\ w[1] = s
      BY <3>4
    <3>6. \A t \in DOMAIN m : s <= t /\ t < End(l, s) <=> \E k \in 1..Len(w) : w[k] = t
      BY <1>2, <3>2, <3>3, <3>5
    <3>7. Walks(w, m, s, End(l, s))
      BY <3>2, <3>5, <3>6 DEF Walks
    <3> QED
      BY <3>1, <3>4, <3>7
  <2> QED
    BY <2>1, <2>2
<1>7. good = Nat
  <2> HIDE DEF good
  <2> QED
    BY <1>5, <1>6, Induction
<1>8. Top \in good
  <2> HIDE DEF good
  <2> QED
    BY <1>3, <1>7
<1>9. Top <= start + Top
  BY <1>2, <1>3
<1> QED
  BY <1>1, <1>8, <1>9

-----------------------------------------------------------------------------
(* DOS_CompressMemory *)

\* A bounded set of numbers that is not empty has a greatest one.
LEMMA Greatest ==
  ASSUME NEW b \in Nat, NEW S \in SUBSET (0..b), S # {}
  PROVE  \E n \in S : \A m \in S : m <= n
<1> DEFINE T == {b - n : n \in S}
<1>1. T \in SUBSET Nat /\ T # {}
  <2>1. \A n \in S : n \in 0..b /\ b - n \in Nat
    OBVIOUS
  <2> QED
    BY <2>1
<1>2. PICK t \in T : \A u \in T : t <= u
  <2> HIDE DEF T
  <2> QED
    BY <1>1, Least
<1>3. PICK n \in S : t = b - n
  BY <1>2
<1>4. \A m \in S : b - n <= b - m
  BY <1>2, <1>3
<1> QED
  BY <1>3, <1>4

\* The last block of a walk that the one at place k takes in.
LastOf(m, w, k) ==
  CHOOSE j \in k..Len(w) : /\ Joined(m, w, k, j)
                           /\ j < Len(w) => ~Joined(m, w, k, j + 1)

LEMMA LastOfIs ==
  ASSUME NEW m, NEW w, Len(w) \in Nat, NEW k \in 1..Len(w)
  PROVE  /\ LastOf(m, w, k) \in k..Len(w)
         /\ Joined(m, w, k, LastOf(m, w, k))
         /\ LastOf(m, w, k) < Len(w) => ~Joined(m, w, k, LastOf(m, w, k) + 1)
<1> DEFINE S == {j \in k..Len(w) : Joined(m, w, k, j)}
<1>1. k \in S /\ S \in SUBSET (0..Len(w))
  BY DEF Joined
<1>2. PICK j \in S : \A i \in S : i <= j
  <2> HIDE DEF S
  <2> QED
    BY <1>1, Greatest
<1>3. j \in k..Len(w) /\ Joined(m, w, k, j)
  BY <1>2
<1>4. ASSUME j < Len(w), Joined(m, w, k, j + 1)
      PROVE  FALSE
  <2>1. j + 1 \in k..Len(w) /\ ~(j + 1 <= j)
    BY <1>3, <1>4
  <2> QED
    BY <1>2, <1>4, <2>1
<1>5. \E i \in k..Len(w) : /\ Joined(m, w, k, i)
                           /\ i < Len(w) => ~Joined(m, w, k, i + 1)
  BY <1>3, <1>4
<1> QED
  BY <1>5 DEF LastOf

\* The blocks that end up in the one before them.
Absorbed(m, w) ==
  {w[k] : k \in {i \in 2..Len(w) : Free(m, w[i - 1]) /\ Free(m, w[i])}}

Record(b) == b \in [type : {"M", "Z"}, psp : Nat, size : Nat]

\* The block at s of c is made of those of m from s to j; past the end e of the
\* chain that is compressed, of one.
Takes(m, c, e, s, j) ==
  /\ j \in DOMAIN m /\ s <= j
  /\ Record(c[s]) /\ c[s].type = m[j].type /\ c[s].psp = m[s].psp
  /\ Next0(c, s) = Next0(m, j)
  /\ s # j => j < e /\ \A t \in DOMAIN m : s <= t /\ t <= j => Free(m, t)
  /\ \A t \in DOMAIN c : ~(s < t /\ t <= j)
  /\ s < e /\ Free(m, s) /\ Next0(m, j) < e => ~Free(m, Next0(m, j))

\* A header that goes: its block and the one before are free.
Gone(m, e, s) ==
  /\ Free(m, s) /\ s # FirstMCB /\ s < e
  /\ \A p \in DOMAIN m : Next0(m, p) = s => Free(m, p)

\* c is m with the free stretches of the chain up to e put together.
Compressed(m, c, e) ==
  /\ DOMAIN c \subseteq DOMAIN m /\ c = [s \in DOMAIN c |-> c[s]]
  /\ \A s \in DOMAIN m : s \notin DOMAIN c => Gone(m, e, s)
  /\ \A s \in DOMAIN c : \E j \in DOMAIN m : Takes(m, c, e, s, j)

LEMMA CompressIs ==
  ASSUME NEW m, NEW l \in BOOLEAN, Layout(m, l)
  PROVE  Compressed(m, DOS_CompressMemory(m), End(l, FirstMCB))
<1>1. PICK w : w = Walk(m, FirstMCB)
  OBVIOUS
<1>2. PICK e : e = End(l, FirstMCB)
  OBVIOUS
<1>3. PICK c : c = DOS_CompressMemory(m)
  OBVIOUS
<1>4. FirstMCB \in DOMAIN m
  BY DEF Layout
<1>5. Walks(w, m, FirstMCB, e)
  BY <1>1, <1>2, <1>4, WalkIs
<1>6. /\ w \in Seq(DOMAIN m) /\ Len(w) \in Nat /\ Len(w) > 0 /\ w[1] = FirstMCB
      /\ Next0(m, w[Len(w)]) = e
      /\ \A k \in 1..(Len(w) - 1) : w[k + 1] = Next0(m, w[k])
      /\ \A i, j \in 1..Len(w) : i < j => w[i] < w[j]
      /\ \A t \in DOMAIN m : FirstMCB <= t /\ t < e <=> \E k \in 1..Len(w) : w[k] = t
  BY <1>5 DEF Walks
<1>7. \A t \in DOMAIN m : /\ t \in Nat /\ FirstMCB <= t /\ Record(m[t])
                          /\ m[t].size \in Nat /\ Next0(m, t) \in Nat /\ t < Next0(m, t)
  BY NextIs DEF Layout, Record
<1>8. \A k \in 1..Len(w) : w[k] \in DOMAIN m /\ w[k] \in Nat /\ w[k] < e
  <2>1. \A k \in 1..Len(w) : w[k] \in DOMAIN m
    BY <1>6
  <2> QED
    BY <1>6, <1>7, <2>1
<1>9. e \in Nat /\ FirstMCB \in Nat
  BY <1>2, Bounds DEF End
<1>10. \A i, j \in 1..Len(w) : w[i] <= w[j] => i <= j
  BY <1>6, <1>8
<1>11. c = [seg \in DOMAIN m \ Absorbed(m, w) |->
             IF \E k \in 1..Len(w) : w[k] = seg
             THEN LET k == CHOOSE k \in 1..Len(w) : w[k] = seg
                  IN Merged(m, w, k, LastOf(m, w, k))
             ELSE m[seg]]
  BY <1>1, <1>3 DEF DOS_CompressMemory, LastOf, Absorbed
<1>12. DOMAIN c = DOMAIN m \ Absorbed(m, w) /\ c = [s \in DOMAIN c |-> c[s]]
  BY <1>11
<1>13. \A s \in DOMAIN c : (\A k \in 1..Len(w) : w[k] # s) => c[s] = m[s]
  BY <1>11
<1>14. ASSUME NEW k \in 1..Len(w), w[k] \in DOMAIN c
       PROVE  c[w[k]] = Merged(m, w, k, LastOf(m, w, k))
  <2>1. \A i \in 1..Len(w) : w[i] = w[k] => i = k
    BY <1>8, <1>10
  <2>2. (CHOOSE i \in 1..Len(w) : w[i] = w[k]) = k
    BY <2>1
  <2> QED
    BY <1>11, <1>14, <2>2
<1>15. ASSUME NEW s \in DOMAIN m, s \notin DOMAIN c
       PROVE  Gone(m, e, s)
  <2>1. PICK i \in 2..Len(w) : Free(m, w[i - 1]) /\ Free(m, w[i]) /\ s = w[i]
    BY <1>12, <1>15 DEF Absorbed
  <2>2. /\ i \in 1..Len(w) /\ 1 \in 1..Len(w) /\ 1 < i
        /\ i - 1 \in 1..Len(w) /\ i - 1 \in 1..(Len(w) - 1) /\ (i - 1) + 1 = i
    BY <1>6, <2>1
  <2>3. w[1] < w[i] /\ w[1] \in Nat /\ w[i] \in Nat
    BY <1>6, <1>8, <2>2
  <2>4. PICK q \in DOMAIN m : q = w[i - 1]
    BY <1>8, <2>2
  <2>5. Next0(m, q) = s /\ Free(m, q)
    BY <1>6, <2>1, <2>2, <2>4
  <2>6. ASSUME NEW p \in DOMAIN m, Next0(m, p) = s
        PROVE  p = q
    <3>1. /\ p \in Nat /\ q \in Nat /\ p < s /\ q < s
          /\ p < q => s <= q
          /\ q < p => s <= p
      BY <1>7, <2>4, <2>5, <2>6 DEF Layout
    <3> QED
      BY <3>1
  <2> QED
    BY <1>6, <1>8, <2>1, <2>2, <2>3, <2>5, <2>6 DEF Gone
<1>16. ASSUME NEW s \in DOMAIN c
       PROVE  \E j \in DOMAIN m : Takes(m, c, e, s, j)
  <2>0. s \in DOMAIN m
    BY <1>12
  <2>1. CASE \A k \in 1..Len(w) : w[k] # s
    <3>1. c[s] = m[s]
      BY <1>13, <2>1
    <3>2. ~(s < e)
      BY <1>6, <1>7, <2>0, <2>1
    <3>3. Next0(c, s) = Next0(m, s)
      BY <3>1 DEF Next0
    <3>4. \A t \in DOMAIN c : ~(s < t /\ t <= s)
      BY <1>7, <1>12, <2>0
    <3>5. Takes(m, c, e, s, s)
      BY <1>7, <2>0, <3>1, <3>2, <3>3, <3>4 DEF Takes
    <3> QED
      BY <2>0, <3>5
  <2>2. ASSUME NEW k \in 1..Len(w), w[k] = s
        PROVE  \E j \in DOMAIN m : Takes(m, c, e, s, j)
    <3>1. PICK J : J = LastOf(m, w, k)
      OBVIOUS
    <3>2. J \in k..Len(w) /\ Joined(m, w, k, J) /\ (J < Len(w) => ~Joined(m, w, k, J + 1))
      BY <1>6, <3>1, LastOfIs
    <3>3. J \in 1..Len(w) /\ k <= J /\ J \in Nat /\ k \in Nat
      BY <1>6, <3>2
    <3>4. PICK j \in DOMAIN m : j = w[J]
      BY <1>8, <3>3
    <3>5. s <= j /\ j < e /\ s \in Nat /\ j \in Nat /\ (s # j => k < J)
      BY <1>6, <1>8, <2>2, <3>3, <3>4
    <3>6. c[s] = Block(m[j].type, m[s].psp, Next0(m, j) - s - 1)
      BY <1>14, <2>2, <3>1, <3>4 DEF Merged
    <3>7. Next0(m, j) \in Nat /\ s < Next0(m, j)
      BY <1>7, <3>4, <3>5
    <3>8. Next0(m, j) - s - 1 \in Nat /\ s + (Next0(m, j) - s - 1) + 1 = Next0(m, j)
      BY <3>5, <3>7
    <3>9. /\ c[s].type = m[j].type /\ c[s].psp = m[s].psp
          /\ c[s].size = Next0(m, j) - s - 1
      BY <3>6 DEF Block
    <3>10. Next0(c, s) = Next0(m, j)
      BY <3>8, <3>9 DEF Next0
    <3>11. Record(m[j]) /\ Record(m[s])
      BY <1>7, <2>0, <3>4
    <3>12. Record(c[s])
      BY <3>6, <3>8, <3>11 DEF Record, Block
    <3>13. \A t \in DOMAIN m : s <= t /\ t <= j => \E i \in k..J : w[i] = t
      <4> TAKE t \in DOMAIN m
      <4> HAVE s <= t /\ t <= j
      <4>1. t \in Nat /\ FirstMCB <= t /\ t < e
        BY <1>7, <1>9, <3>5
      <4>2. PICK i \in 1..Len(w) : w[i] = t
        BY <1>6, <4>1
      <4>3. k <= i /\ i <= J
        BY <1>10, <2>2, <3>3, <3>4, <4>2
      <4> QED
        BY <3>3, <4>2, <4>3
    <3>14. k < J => \A i \in k..J : Free(m, w[i])
      BY <3>2, <3>3 DEF Joined
    <3>15. s # j => \A t \in DOMAIN m : s <= t /\ t <= j => Free(m, t)
      BY <3>5, <3>13, <3>14
    <3>16. ASSUME NEW t \in DOMAIN c, s < t, t <= j
           PROVE  FALSE
      <4>1. t \in DOMAIN m /\ t \in Nat /\ s <= t
        BY <1>7, <1>12, <3>5, <3>16
      <4>2. PICK i \in k..J : w[i] = t
        BY <3>13, <3>16, <4>1
      <4>3. i # k /\ i - 1 \in k..J /\ i \in 2..Len(w)
        BY <2>2, <3>3, <3>5, <3>16, <4>1, <4>2
      <4>4. k < J
        BY <3>3, <4>2, <4>3
      <4>5. Free(m, w[i - 1]) /\ Free(m, w[i])
        BY <3>14, <4>3, <4>4
      <4>6. t \in Absorbed(m, w)
        BY <4>2, <4>3, <4>5 DEF Absorbed
      <4> QED
        BY <1>12, <4>6
    <3>17. ASSUME Free(m, s), Next0(m, j) < e, Free(m, Next0(m, j))
           PROVE  FALSE
      <4>1. J # Len(w)
        BY <1>6, <1>9, <3>4, <3>17
      <4>2. J < Len(w) /\ J \in 1..(Len(w) - 1)
        BY <1>6, <3>3, <4>1
      <4>3. w[J + 1] = Next0(m, j)
        BY <1>6, <3>4, <4>2
      <4>4. \A i \in k..J : Free(m, w[i])
        <5>1. CASE k < J
          BY <3>14, <5>1
        <5>2. CASE k = J
          BY <2>2, <3>17, <5>2
        <5> QED
          BY <3>3, <5>1, <5>2
      <4>5. \A i \in k..(J + 1) : i \in k..J \/ i = J + 1
        BY <3>3
      <4>6. \A i \in k..(J + 1) : Free(m, w[i])
        BY <3>17, <4>3, <4>4, <4>5
      <4>7. Joined(m, w, k, J + 1)
        BY <4>6 DEF Joined
      <4> QED
        BY <3>2, <4>2, <4>7
    <3>18. Takes(m, c, e, s, j)
      BY <3>5, <3>9, <3>10, <3>12, <3>15, <3>16, <3>17 DEF Takes
    <3> QED
      BY <3>18
  <2> QED
    BY <2>1, <2>2
<1>17. Compressed(m, c, e)
  BY <1>12, <1>15, <1>16 DEF Compressed
<1> QED
  BY <1>2, <1>3, <1>17

\* The headers of the system blocks that the chains start with.
Sys(m) == m[FirstMCB].psp = MCB_DOS /\ (HasUmb => m[U].psp = MCB_DOS)

\* c has the blocks of m that have an owner, and no others.
SameOwned(m, c) ==
  /\ \A s \in DOMAIN m : ~Free(m, s) => s \in DOMAIN c /\ c[s] = m[s]
  /\ \A s \in DOMAIN c : ~Free(c, s) => s \in DOMAIN m /\ ~Free(m, s)

\* No free block before e is followed by another.
NoNeighbours(c, e) ==
  \A s \in DOMAIN c : Free(c, s) /\ Next0(c, s) < e => ~Free(c, Next0(c, s))

LEMMA CompressedKeeps ==
  ASSUME NEW m, NEW l \in BOOLEAN, Layout(m, l), Sys(m),
         NEW e, e = End(l, FirstMCB), NEW c, Compressed(m, c, e)
  PROVE  /\ Layout(c, l) /\ Sys(c) /\ SameOwned(m, c) /\ NoNeighbours(c, e)
         /\ \A s \in DOMAIN c : s \in DOMAIN m /\ c[s].psp = m[s].psp
<1>1. /\ DOMAIN c \subseteq DOMAIN m /\ c = [s \in DOMAIN c |-> c[s]]
      /\ \A s \in DOMAIN m : s \notin DOMAIN c => Gone(m, e, s)
      /\ \A s \in DOMAIN c : \E j \in DOMAIN m : Takes(m, c, e, s, j)
  BY DEF Compressed
<1>2. /\ DOMAIN m \subseteq FirstMCB..(Top - 1) /\ FirstMCB \in DOMAIN m
      /\ HasUmb => U \in DOMAIN m
      /\ \A s, t \in DOMAIN m : s < t => Next0(m, s) <= t
      /\ \A s \in DOMAIN m : Next0(m, s) \in DOMAIN m \cup {Top}
      /\ \A s \in DOMAIN m : m[s].type = "Z" <=> Next0(m, s) = End(l, s)
  BY DEF Layout
<1>3. \A t \in DOMAIN m : /\ t \in Nat /\ FirstMCB <= t /\ Record(m[t]) /\ t < Top
                          /\ m[t].size \in Nat /\ Next0(m, t) \in Nat /\ t < Next0(m, t)
                          /\ Next0(m, t) <= End(l, t) /\ Next0(m, t) <= Top
  BY NextIs DEF Layout, Record
<1>4. e \in Nat /\ FirstMCB \in Nat /\ e \in {U, Top} /\ e <= Top /\ U \in Nat /\ Top \in Nat
      /\ FirstMCB < e
  BY Bounds DEF End
<1>5. \A s \in DOMAIN m : s < e => End(l, s) = e
  BY <1>3, <1>4, Bounds DEF End
<1>6. ASSUME HasUmb
      PROVE  ~Free(m, U)
  BY <1>6 DEF Sys, Free, MCB_DOS, MCB_FREE
<1>7. ASSUME NEW s \in DOMAIN c, NEW j \in DOMAIN m, Takes(m, c, e, s, j)
      PROVE  /\ s \in DOMAIN m /\ s <= j /\ s \in Nat /\ j \in Nat
             /\ Record(c[s]) /\ c[s].type = m[j].type /\ c[s].psp = m[s].psp
             /\ Next0(c, s) = Next0(m, j) /\ End(l, j) = End(l, s)
             /\ s # j => /\ s < e /\ j < e
                         /\ \A t \in DOMAIN m : s <= t /\ t <= j => Free(m, t)
             /\ \A t \in DOMAIN c : ~(s < t /\ t <= j)
             /\ s < e /\ Free(m, s) /\ Next0(m, j) < e => ~Free(m, Next0(m, j))
  <2>1. s \in DOMAIN m /\ s \in Nat /\ j \in Nat
    BY <1>1, <1>3
  <2>2. s # j => s < e /\ j < e
    BY <1>4, <1>7, <2>1 DEF Takes
  <2>3. End(l, j) = End(l, s)
    BY <1>5, <2>1, <2>2
  <2> QED
    BY <1>7, <2>1, <2>2, <2>3 DEF Takes
<1>8. \A s \in DOMAIN c : c[s].psp = m[s].psp
  BY <1>1, <1>7
<1>9. ASSUME NEW s \in DOMAIN m, ~Free(m, s)
      PROVE  s \in DOMAIN c /\ c[s] = m[s]
  <2>1. s \in DOMAIN c
    BY <1>1, <1>9 DEF Gone
  <2>2. PICK j \in DOMAIN m : Takes(m, c, e, s, j)
    BY <1>1, <2>1
  <2>3. s = j
    BY <1>3, <1>7, <1>9, <2>1, <2>2
  <2>4. /\ Record(c[s]) /\ Record(m[s]) /\ c[s].type = m[s].type /\ c[s].psp = m[s].psp
        /\ Next0(c, s) = Next0(m, s)
    BY <1>3, <1>7, <2>1, <2>2, <2>3
  <2>5. c[s].size = m[s].size
    BY <1>3, <2>4 DEF Next0, Record
  <2> QED
    BY <2>1, <2>4, <2>5 DEF Record
<1>10. SameOwned(m, c)
  BY <1>1, <1>8, <1>9 DEF SameOwned, Free
<1>11. FirstMCB \in DOMAIN c /\ (HasUmb => U \in DOMAIN c)
  BY <1>1, <1>2, <1>6 DEF Gone
<1>12. Sys(c)
  BY <1>8, <1>11 DEF Sys
<1>13. ASSUME NEW s \in DOMAIN c
       PROVE  /\ Next0(c, s) \in DOMAIN c \cup {Top}
              /\ Free(c, s) /\ Next0(c, s) < e => ~Free(c, Next0(c, s))
  <2>1. PICK j \in DOMAIN m : Takes(m, c, e, s, j)
    BY <1>1
  <2>2. PICK n : n = Next0(m, j)
    OBVIOUS
  <2>3. Next0(c, s) = n /\ n \in DOMAIN m \cup {Top}
    BY <1>2, <1>7, <2>1, <2>2
  <2>4. /\ s \in DOMAIN m /\ s \in Nat /\ j \in Nat /\ n \in Nat /\ s <= j /\ j < n /\ n <= Top
        /\ n <= End(l, j) /\ (s # j => s < e /\ Free(m, s))
        /\ (s < e /\ Free(m, s) /\ n < e => ~Free(m, n))
    BY <1>3, <1>7, <2>1, <2>2
  <2>5. n < e => n \in DOMAIN m
    BY <1>4, <2>3
  <2>6. ASSUME n \in DOMAIN m, n \notin DOMAIN c
        PROVE  FALSE
    <3>1. Free(m, n) /\ n < e /\ Free(m, j)
      BY <1>1, <2>2, <2>6 DEF Gone
    <3>2. s < e /\ Free(m, s)
      BY <1>4, <2>4, <3>1
    <3> QED
      BY <2>4, <3>1, <3>2
  <2>7. ASSUME Free(c, s), n < e
        PROVE  ~Free(c, n)
    <3>1. n \in DOMAIN m /\ n \in DOMAIN c
      BY <2>5, <2>6, <2>7
    <3>2. Free(m, s) /\ s < e
      BY <1>4, <1>8, <2>4, <2>7 DEF Free
    <3>3. ~Free(m, n)
      BY <2>4, <2>7, <3>2
    <3> QED
      BY <1>8, <3>1, <3>3 DEF Free
  <2> QED
    BY <2>3, <2>6, <2>7
<1>14. ASSUME NEW s \in DOMAIN c, NEW t \in DOMAIN c, s < t
       PROVE  Next0(c, s) <= t
  <2>1. PICK j \in DOMAIN m : Takes(m, c, e, s, j)
    BY <1>1
  <2>2. /\ Next0(c, s) = Next0(m, j) /\ ~(s < t /\ t <= j) /\ j \in Nat /\ j \in DOMAIN m
        /\ t \in DOMAIN m /\ t \in Nat
    BY <1>1, <1>3, <1>7, <2>1
  <2>3. j < t
    BY <1>14, <2>2
  <2> QED
    BY <1>2, <2>2, <2>3
<1>15. ASSUME NEW s \in DOMAIN c
       PROVE  Record(c[s]) /\ (c[s].type = "Z" <=> Next0(c, s) = End(l, s))
  <2>1. PICK j \in DOMAIN m : Takes(m, c, e, s, j)
    BY <1>1
  <2>2. /\ Record(c[s]) /\ c[s].type = m[j].type /\ Next0(c, s) = Next0(m, j)
        /\ End(l, j) = End(l, s)
    BY <1>7, <2>1
  <2> QED
    BY <1>2, <2>2
<1>16. Layout(c, l)
  BY <1>1, <1>2, <1>11, <1>13, <1>14, <1>15 DEF Layout, Record
<1>17. NoNeighbours(c, e)
  BY <1>13 DEF NoNeighbours
<1> QED
  BY <1>1, <1>8, <1>10, <1>12, <1>16, <1>17

\* Every header but the first is the next one of another.
LEMMA Before ==
  ASSUME NEW m, NEW l \in BOOLEAN, Layout(m, l), NEW s \in DOMAIN m, s # FirstMCB
  PROVE  \E p \in DOMAIN m : p < s /\ Next0(m, p) = s
<1>1. \A t \in DOMAIN m : /\ t \in Nat /\ FirstMCB <= t /\ t < Top
                          /\ Next0(m, t) \in Nat /\ t < Next0(m, t)
  BY NextIs
<1>2. /\ FirstMCB \in DOMAIN m
      /\ \A t \in DOMAIN m : Next0(m, t) \in DOMAIN m \cup {Top}
      /\ \A t, u \in DOMAIN m : t < u => Next0(m, t) <= u
  BY DEF Layout
<1> DEFINE S == {t \in DOMAIN m : t < s}
<1>3. S \in SUBSET (0..s) /\ S # {}
  <2>1. FirstMCB \in S
    BY <1>1, <1>2
  <2> QED
    BY <1>1, <2>1
<1>4. PICK p \in S : \A t \in S : t <= p
  <2> HIDE DEF S
  <2> QED
    BY <1>1, <1>3, Greatest
<1>5. p \in DOMAIN m /\ p < s /\ Next0(m, p) <= s /\ p < Next0(m, p)
  BY <1>1, <1>2, <1>4
<1>6. Next0(m, p) \in DOMAIN m
  BY <1>1, <1>2, <1>5, Bounds
<1>7. Next0(m, p) \notin S
  BY <1>1, <1>4, <1>5
<1> QED
  BY <1>1, <1>5, <1>6, <1>7

\* A chain without free neighbours is compressed already.
LEMMA CompressedStays ==
  ASSUME NEW m, NEW l \in BOOLEAN, Layout(m, l), NoNeighbours(m, End(l, FirstMCB))
  PROVE  DOS_CompressMemory(m) = m
<1>1. PICK c : c = DOS_CompressMemory(m)
  OBVIOUS
<1>2. PICK e : e = End(l, FirstMCB)
  OBVIOUS
<1>3. /\ DOMAIN c \subseteq DOMAIN m /\ c = [s \in DOMAIN c |-> c[s]]
      /\ \A s \in DOMAIN m : s \notin DOMAIN c => Gone(m, e, s)
      /\ \A s \in DOMAIN c : \E j \in DOMAIN m : Takes(m, c, e, s, j)
  BY <1>1, <1>2, CompressIs DEF Compressed
<1>4. \A t \in DOMAIN m : t \in Nat /\ Record(m[t])
  BY NextIs DEF Layout, Record
<1>5. ASSUME NEW s \in DOMAIN m, s \notin DOMAIN c
      PROVE  FALSE
  <2>1. Free(m, s) /\ s < e /\ s # FirstMCB /\ \A p \in DOMAIN m : Next0(m, p) = s => Free(m, p)
    BY <1>3, <1>5 DEF Gone
  <2>2. PICK p \in DOMAIN m : Next0(m, p) = s
    BY <2>1, Before
  <2>3. Free(m, p) /\ Next0(m, p) < e
    BY <2>1, <2>2
  <2> QED
    BY <1>2, <2>1, <2>2, <2>3 DEF NoNeighbours
<1>6. DOMAIN c = DOMAIN m
  BY <1>3, <1>5
<1>7. ASSUME NEW s \in DOMAIN m
      PROVE  c[s] = m[s]
  <2>1. PICK j \in DOMAIN m : Takes(m, c, e, s, j)
    BY <1>3, <1>6
  <2>2. j \in DOMAIN c /\ s <= j /\ ~(s < j /\ j <= j) /\ j \in Nat /\ s \in Nat
    BY <1>4, <1>6, <2>1 DEF Takes
  <2>3. s = j
    BY <2>2
  <2>4. /\ Record(c[s]) /\ c[s].type = m[s].type /\ c[s].psp = m[s].psp
        /\ Next0(c, s) = Next0(m, s) /\ Record(m[s])
    BY <1>4, <2>1, <2>3 DEF Takes
  <2>5. c[s].size = m[s].size
    BY <1>4, <2>4 DEF Next0, Record
  <2> QED
    BY <2>4, <2>5 DEF Record
<1>8. m = [s \in DOMAIN m |-> m[s]]
  BY DEF Layout
<1>9. c = [s \in DOMAIN m |-> m[s]]
  BY <1>3, <1>6, <1>7
<1> QED
  BY <1>1, <1>8, <1>9

-----------------------------------------------------------------------------
(* Blocks that are cut, joined and given away *)

\* The blocks of m whose owner is not in P are blocks of n, and the other way.
Keeps(m, n, P) ==
  \A s \in DOMAIN m :
     m[s].psp \notin P => s \in DOMAIN n /\ n[s].psp = m[s].psp /\ n[s].size = m[s].size

Adds(m, n, P) ==
  \A s \in DOMAIN n : n[s].psp \notin P => s \in DOMAIN m /\ m[s].psp = n[s].psp

LEMMA KeepsOn ==
  ASSUME NEW m, NEW n, NEW o, NEW P, NEW Q,
         Keeps(m, n, P), Keeps(n, o, Q), P \subseteq Q
  PROVE  Keeps(m, o, Q)
BY DEF Keeps

LEMMA AddsOn ==
  ASSUME NEW m, NEW n, NEW o, NEW P, NEW Q,
         Adds(m, n, P), Adds(n, o, Q), P \subseteq Q
  PROVE  Adds(m, o, Q)
BY DEF Adds

LEMMA SameOwnedKeeps ==
  ASSUME NEW m, NEW c, SameOwned(m, c)
  PROVE  Keeps(m, c, {MCB_FREE}) /\ Adds(m, c, {MCB_FREE})
BY DEF SameOwned, Keeps, Adds, Free

\* Other owners of the same blocks.
Reowned(m, n) ==
  /\ DOMAIN n = DOMAIN m /\ n = [s \in DOMAIN n |-> n[s]]
  /\ \A s \in DOMAIN m : Record(n[s]) /\ n[s].type = m[s].type /\ n[s].size = m[s].size

LEMMA ReownedLayout ==
  ASSUME NEW m, NEW l \in BOOLEAN, Layout(m, l), NEW n, Reowned(m, n)
  PROVE  Layout(n, l) /\ \A s \in DOMAIN m : Next0(n, s) = Next0(m, s)
<1>1. \A s \in DOMAIN m : Next0(n, s) = Next0(m, s) /\ n[s].type = m[s].type /\ Record(n[s])
  BY DEF Next0, Reowned
<1>2. DOMAIN n = DOMAIN m /\ n = [s \in DOMAIN n |-> n[s]]
  BY DEF Reowned
<1> QED
  BY <1>1, <1>2 DEF Layout, Record

\* The block at s cut in two at p, with the owners a and b.
Split(m, n, s, p, a, b) ==
  /\ n = [t \in DOMAIN n |-> n[t]] /\ DOMAIN n = DOMAIN m \cup {p}
  /\ n[s] = Block("M", a, p - s - 1)
  /\ n[p] = Block(m[s].type, b, Next0(m, s) - p - 1)
  /\ \A t \in DOMAIN m : t # s => n[t] = m[t]

LEMMA SplitLayout ==
  ASSUME NEW m, NEW l \in BOOLEAN, Layout(m, l), NEW s \in DOMAIN m,
         NEW p \in Nat, s < p, p < Next0(m, s), NEW a \in Nat, NEW b \in Nat,
         NEW n, Split(m, n, s, p, a, b)
  PROVE  /\ Layout(n, l) /\ p \notin DOMAIN m
         /\ n[s].psp = a /\ n[s].size = p - s - 1 /\ Next0(n, s) = p
         /\ n[p].psp = b /\ n[p].size = Next0(m, s) - p - 1 /\ Next0(n, p) = Next0(m, s)
<1>1. /\ n = [t \in DOMAIN n |-> n[t]] /\ DOMAIN n = DOMAIN m \cup {p}
      /\ n[s] = Block("M", a, p - s - 1)
      /\ n[p] = Block(m[s].type, b, Next0(m, s) - p - 1)
      /\ \A t \in DOMAIN m : t # s => n[t] = m[t]
  BY DEF Split
<1>2. \A t \in DOMAIN m : /\ t \in Nat /\ FirstMCB <= t /\ Record(m[t]) /\ t < Top
                          /\ m[t].size \in Nat /\ Next0(m, t) \in Nat /\ t < Next0(m, t)
                          /\ Next0(m, t) <= End(l, t) /\ Next0(m, t) <= Top
  BY NextIs DEF Layout, Record
<1>3. /\ DOMAIN m \subseteq FirstMCB..(Top - 1) /\ FirstMCB \in DOMAIN m
      /\ HasUmb => U \in DOMAIN m
      /\ \A t, u \in DOMAIN m : t < u => Next0(m, t) <= u
      /\ \A t \in DOMAIN m : Next0(m, t) \in DOMAIN m \cup {Top}
      /\ \A t \in DOMAIN m : m[t].type = "Z" <=> Next0(m, t) = End(l, t)
  BY DEF Layout
<1>4. p \notin DOMAIN m
  BY <1>2, <1>3
<1>5. p - s - 1 \in Nat /\ Next0(m, s) - p - 1 \in Nat
  BY <1>2
<1>6. /\ n[s].type = "M" /\ n[s].psp = a /\ n[s].size = p - s - 1
      /\ n[p].type = m[s].type /\ n[p].psp = b /\ n[p].size = Next0(m, s) - p - 1
  BY <1>1 DEF Block
<1>7. Record(n[s]) /\ Record(n[p])
  BY <1>1, <1>2, <1>5 DEF Block, Record
<1>8. Next0(n, s) = p /\ Next0(n, p) = Next0(m, s)
  <2>1. s + (p - s - 1) + 1 = p /\ p + (Next0(m, s) - p - 1) + 1 = Next0(m, s)
    BY <1>2
  <2> QED
    BY <1>6, <2>1 DEF Next0
<1>9. \A t \in DOMAIN m : t # s => Next0(n, t) = Next0(m, t)
  BY <1>1 DEF Next0
<1>10. End(l, p) = End(l, s) /\ p < End(l, s) /\ p < Top
  <2>1. End(l, s) \in {U, Top} /\ End(l, s) \in Nat /\ U \in Nat
    BY Bounds DEF End
  <2>2. p < End(l, s) /\ p < Top
    BY <1>2, <2>1, Bounds
  <2>3. s < U /\ ~l => p < U
    BY <2>2 DEF End
  <2> QED
    BY <1>2, <2>1, <2>2, <2>3 DEF End
<1>11. DOMAIN n \subseteq FirstMCB..(Top - 1)
  BY <1>1, <1>2, <1>3, <1>10, Bounds
<1>12. \A t \in DOMAIN n : Record(n[t])
  BY <1>1, <1>2, <1>7
<1>13. \A t \in DOMAIN n : Next0(n, t) \in DOMAIN n \cup {Top}
  BY <1>1, <1>3, <1>8, <1>9
<1>14. ASSUME NEW t \in DOMAIN n, NEW u \in DOMAIN n, t < u
       PROVE  Next0(n, t) <= u
  <2>1. CASE t = p
    BY <1>1, <1>2, <1>3, <1>8, <1>14, <2>1
  <2>2. CASE t # p /\ u = p
    BY <1>1, <1>2, <1>3, <1>8, <1>9, <1>14, <2>2
  <2>3. CASE t # p /\ u # p
    <3>1. t \in DOMAIN m /\ u \in DOMAIN m /\ Next0(m, t) <= u
      BY <1>1, <1>3, <1>14, <2>3
    <3>2. CASE t = s
      BY <1>2, <1>8, <3>1, <3>2
    <3>3. CASE t # s
      BY <1>9, <3>1, <3>3
    <3> QED
      BY <3>2, <3>3
  <2> QED
    BY <2>1, <2>2, <2>3
<1>15. ASSUME NEW t \in DOMAIN n
       PROVE  n[t].type = "Z" <=> Next0(n, t) = End(l, t)
  <2>1. CASE t = s
    <3>1. p # End(l, s)
      BY <1>10, Bounds DEF End
    <3> QED
      BY <1>6, <1>8, <2>1, <3>1
  <2>2. CASE t = p
    BY <1>3, <1>6, <1>8, <1>10, <2>2
  <2>3. CASE t # s /\ t # p
    BY <1>1, <1>3, <1>9, <2>3
  <2> QED
    BY <2>1, <2>2, <2>3
<1>16. Layout(n, l)
  BY <1>1, <1>3, <1>11, <1>12, <1>13, <1>14, <1>15 DEF Layout, Record
<1> QED
  BY <1>4, <1>6, <1>8, <1>16

LEMMA SplitKeeps ==
  ASSUME NEW m, NEW s \in DOMAIN m, NEW p, p \notin DOMAIN m, NEW a, NEW b,
         NEW n, Split(m, n, s, p, a, b), NEW P, m[s].psp \in P, a \in P, b \in P
  PROVE  Keeps(m, n, P) /\ Adds(m, n, P)
<1>1. /\ DOMAIN n = DOMAIN m \cup {p} /\ n[s].psp = a /\ n[p].psp = b
      /\ \A t \in DOMAIN m : t # s => n[t] = m[t]
  BY DEF Split, Block
<1> QED
  BY <1>1 DEF Keeps, Adds

\* The block at s with the one behind it, for owner a.
Join(m, n, s, a) ==
  /\ n = [t \in DOMAIN n |-> n[t]] /\ DOMAIN n = DOMAIN m \ {Next0(m, s)}
  /\ n[s] = Block(m[Next0(m, s)].type, a, m[s].size + m[Next0(m, s)].size + 1)
  /\ \A t \in DOMAIN n : t # s => n[t] = m[t]

LEMMA JoinLayout ==
  ASSUME NEW m, NEW l \in BOOLEAN, Layout(m, l), NEW s \in DOMAIN m,
         m[s].type = "M", HasUmb => Next0(m, s) # U, NEW a \in Nat,
         NEW n, Join(m, n, s, a)
  PROVE  /\ Layout(n, l) /\ s \in DOMAIN n /\ Next0(n, s) = Next0(m, Next0(m, s))
         /\ n[s].psp = a
<1>1. PICK f : f = Next0(m, s)
  OBVIOUS
<1>2. /\ n = [t \in DOMAIN n |-> n[t]] /\ DOMAIN n = DOMAIN m \ {f}
      /\ n[s] = Block(m[f].type, a, m[s].size + m[f].size + 1)
      /\ \A t \in DOMAIN n : t # s => n[t] = m[t]
  BY <1>1 DEF Join
<1>3. \A t \in DOMAIN m : /\ t \in Nat /\ FirstMCB <= t /\ Record(m[t]) /\ t < Top
                          /\ m[t].size \in Nat /\ Next0(m, t) \in Nat /\ t < Next0(m, t)
                          /\ Next0(m, t) <= End(l, t) /\ Next0(m, t) <= Top
  BY NextIs DEF Layout, Record
<1>4. /\ DOMAIN m \subseteq FirstMCB..(Top - 1) /\ FirstMCB \in DOMAIN m
      /\ HasUmb => U \in DOMAIN m
      /\ \A t, u \in DOMAIN m : t < u => Next0(m, t) <= u
      /\ \A t \in DOMAIN m : Next0(m, t) \in DOMAIN m \cup {Top}
      /\ \A t \in DOMAIN m : m[t].type = "Z" <=> Next0(m, t) = End(l, t)
  BY DEF Layout
<1>5. f \in DOMAIN m /\ End(l, f) = End(l, s) /\ s < f
  BY <1>1, <1>3, NextIs
<1>6. s \in DOMAIN n /\ FirstMCB \in DOMAIN n /\ (HasUmb => U \in DOMAIN n)
  BY <1>1, <1>2, <1>3, <1>4, <1>5, Bounds
<1>7. /\ n[s].type = m[f].type /\ n[s].psp = a /\ n[s].size = m[s].size + m[f].size + 1
  BY <1>2 DEF Block
<1>8. Record(n[s])
  BY <1>2, <1>3, <1>5 DEF Block, Record
<1>9. Next0(n, s) = Next0(m, f)
  <2>1. f = s + m[s].size + 1
    BY <1>1 DEF Next0
  <2>2. s + (m[s].size + m[f].size + 1) + 1 = f + m[f].size + 1
    BY <1>3, <1>5, <2>1
  <2> QED
    BY <1>7, <2>2 DEF Next0
<1>10. \A t \in DOMAIN n : t # s => Next0(n, t) = Next0(m, t)
  BY <1>2 DEF Next0
<1>11. \A t \in DOMAIN m : t # s => Next0(m, t) # f
  BY <1>1, <1>3, <1>4
<1>12. Next0(m, f) # f
  BY <1>3, <1>5
<1>13. \A t \in DOMAIN n : Next0(n, t) \in DOMAIN n \cup {Top}
  BY <1>2, <1>4, <1>5, <1>9, <1>10, <1>11, <1>12
<1>14. \A t \in DOMAIN n : Record(n[t])
  BY <1>2, <1>3, <1>8
<1>15. ASSUME NEW t \in DOMAIN n, NEW u \in DOMAIN n, t < u
       PROVE  Next0(n, t) <= u
  <2>1. CASE t = s
    <3>1. f <= u /\ u # f /\ u \in Nat
      BY <1>1, <1>2, <1>3, <1>4, <1>15, <2>1
    <3>2. f < u
      BY <1>3, <1>5, <3>1
    <3> QED
      BY <1>2, <1>4, <1>5, <1>9, <2>1, <3>2
  <2>2. CASE t # s
    BY <1>2, <1>4, <1>10, <1>15, <2>2
  <2> QED
    BY <2>1, <2>2
<1>16. ASSUME NEW t \in DOMAIN n
       PROVE  n[t].type = "Z" <=> Next0(n, t) = End(l, t)
  <2>1. CASE t = s
    BY <1>4, <1>5, <1>7, <1>9, <2>1
  <2>2. CASE t # s
    BY <1>2, <1>4, <1>10, <2>2
  <2> QED
    BY <2>1, <2>2
<1>17. Layout(n, l)
  BY <1>2, <1>4, <1>6, <1>13, <1>14, <1>15, <1>16 DEF Layout, Record
<1> QED
  BY <1>1, <1>6, <1>7, <1>9, <1>17

LEMMA JoinKeeps ==
  ASSUME NEW m, NEW s \in DOMAIN m, Next0(m, s) \in DOMAIN m, Next0(m, s) # s, NEW a,
         NEW n, Join(m, n, s, a), NEW P, m[s].psp \in P, m[Next0(m, s)].psp \in P, a \in P
  PROVE  Keeps(m, n, P) /\ Adds(m, n, P)
<1>1. /\ DOMAIN n = DOMAIN m \ {Next0(m, s)} /\ n[s].psp = a
      /\ \A t \in DOMAIN n : t # s => n[t] = m[t]
  BY DEF Join, Block
<1> QED
  BY <1>1 DEF Keeps, Adds

-----------------------------------------------------------------------------
(* DOS_AllocateMemory *)

LEMMA SearchedIs ==
  ASSUME NEW m, NEW l \in BOOLEAN, Layout(m, l), NEW strat \in Strategies
  PROVE  /\ Searched(m, strat) \in Seq(DOMAIN m)
         /\ strat.place = "low" => Searched(m, strat) = Walk(m, FirstMCB)
         /\ HasUmb /\ strat.place = "high" =>
              \A k \in DOMAIN Searched(m, strat) : U <= Searched(m, strat)[k]
<1>1. FirstMCB \in DOMAIN m /\ (HasUmb => U \in DOMAIN m)
  BY DEF Layout
<1>2. Walk(m, FirstMCB) \in Seq(DOMAIN m)
  BY <1>1, WalkIs DEF Walks
<1>3. strat.place \in {"low", "high", "highlow"}
  BY DEF Strategies, Places
<1>4. CASE ~HasUmb \/ strat.place = "low"
  <2>1. Searched(m, strat) = Walk(m, FirstMCB)
    BY <1>4 DEF Searched
  <2> QED
    BY <1>2, <1>4, <2>1
<1>5. CASE HasUmb /\ strat.place = "high"
  <2>1. PICK w : w = Walk(m, U)
    OBVIOUS
  <2>2. Walks(w, m, U, End(l, U))
    BY <1>1, <1>5, <2>1, WalkIs
  <2>3. w \in Seq(DOMAIN m) /\ w[1] = U /\ \A i, j \in 1..Len(w) : i < j => w[i] < w[j]
    BY <2>2 DEF Walks
  <2>4. \A k \in DOMAIN w : w[k] \in Nat
    <3>1. \A k \in DOMAIN w : w[k] \in DOMAIN m
      BY <2>3
    <3> QED
      BY <3>1, NextIs
  <2>5. \A k \in DOMAIN w : U <= w[k]
    <3> TAKE k \in DOMAIN w
    <3>1. k \in 1..Len(w) /\ 1 \in 1..Len(w) /\ (k = 1 \/ 1 < k) /\ U \in Nat /\ w[k] \in Nat
      BY <2>3, <2>4, Bounds
    <3> QED
      BY <2>3, <3>1
  <2>6. Searched(m, strat) = Walk(m, UMB_START_SEG)
    BY <1>5 DEF Searched
  <2>7. Searched(m, strat) = w
    BY <2>1, <2>6 DEF U
  <2> QED
    BY <1>5, <2>3, <2>5, <2>7
<1>6. CASE HasUmb /\ strat.place = "highlow"
  <2>1. Walk(m, UMB_START_SEG) \in Seq(DOMAIN m)
    BY <1>1, <1>6, WalkIs DEF Walks, U
  <2>2. Searched(m, strat) = Walk(m, UMB_START_SEG) \o Walk(m, FirstMCB)
    BY <1>6 DEF Searched
  <2>3. Searched(m, strat) \in Seq(DOMAIN m)
    <3>1. \A v, w \in Seq(DOMAIN m) : v \o w \in Seq(DOMAIN m)
      OBVIOUS
    <3> QED
      BY <1>2, <2>1, <2>2, <3>1
  <2> QED
    BY <1>6, <2>3
<1> QED
  BY <1>3, <1>4, <1>5, <1>6

LEMMA ChosenIs ==
  ASSUME NEW m, NEW D, \A x \in D : m[x].size \in Nat,
         NEW s \in Seq(D), NEW K \in SUBSET DOMAIN s, K # {}, NEW fit \in Fits
  PROVE  \E k \in K : Chosen(m, s, K, fit) = s[k]
<1>1. Len(s) \in Nat /\ DOMAIN s = 1..Len(s) /\ \A k \in DOMAIN s : s[k] \in D
  OBVIOUS
<1>2. \A J \in SUBSET K : J # {} => Earliest(J) \in J
  <2> TAKE J \in SUBSET K
  <2> HAVE J # {}
  <2>1. J \in SUBSET Nat
    BY <1>1
  <2>2. \E k \in J : \A j \in J : k <= j
    BY <2>1, Least
  <2> QED
    BY <2>2 DEF Earliest
<1>3. Latest(K) \in K
  <2>1. K \in SUBSET (0..Len(s))
    BY <1>1
  <2>2. \E k \in K : \A j \in K : j <= k
    BY <1>1, <2>1, Greatest
  <2>3. \E k \in K : \A j \in K : k >= j
    BY <1>1, <2>2
  <2> QED
    BY <2>3 DEF Latest
<1>4. Smallest(m, s, K) \in SUBSET K /\ Smallest(m, s, K) # {}
  <2> DEFINE N == {m[s[k]].size : k \in K}
  <2>1. N \in SUBSET Nat /\ N # {}
    BY <1>1
  <2>2. PICK n \in N : \A j \in N : n <= j
    <3> HIDE DEF N
    <3> QED
      BY <2>1, Least
  <2>3. PICK k \in K : n = m[s[k]].size
    BY <2>2
  <2>4. k \in Smallest(m, s, K)
    BY <2>2, <2>3 DEF Smallest
  <2> QED
    BY <2>4 DEF Smallest
<1>5. Earliest(K) \in K
  BY <1>2
<1>6. Earliest(Smallest(m, s, K)) \in K
  <2>1. PICK J : J = Smallest(m, s, K)
    OBVIOUS
  <2> QED
    BY <1>2, <1>4, <2>1
<1>7. fit \in {"first", "best", "last"}
  BY DEF Fits
<1>8. Chosen(m, s, K, fit) \in {s[Earliest(K)], s[Earliest(Smallest(m, s, K))], s[Latest(K)]}
  <2>1. CASE fit = "first"
    BY <2>1 DEF Chosen
  <2>2. CASE fit = "best"
    BY <2>2 DEF Chosen
  <2>3. CASE fit = "last"
    BY <2>3 DEF Chosen
  <2> QED
    BY <1>7, <2>1, <2>2, <2>3
<1> QED
  BY <1>3, <1>5, <1>6, <1>8

\* n is m after the free block b of m gave a block of the size want at at to p.
Granted(m, n, want, p, b, at) ==
  /\ b \in DOMAIN m /\ Free(m, b) /\ at \in Nat /\ b <= at /\ at + want + 1 <= Next0(m, b)
  /\ at \in DOMAIN n /\ n[at].psp = p /\ n[at].size = want
  /\ Keeps(m, n, {MCB_FREE}) /\ Adds(m, n, {MCB_FREE, p})
  /\ at \in DOMAIN m => at = b

LEMMA TakeWholeIs ==
  ASSUME NEW m, NEW l \in BOOLEAN, Layout(m, l), NEW b \in DOMAIN m, Free(m, b),
         NEW p \in Nat
  PROVE  /\ Layout(TakeWhole(m, b, p), l)
         /\ Granted(m, TakeWhole(m, b, p), m[b].size, p, b, b)
<1>1. PICK n : n = TakeWhole(m, b, p)
  OBVIOUS
<1>2. /\ DOMAIN n = DOMAIN m /\ n = [s \in DOMAIN n |-> n[s]]
      /\ n[b] = [m[b] EXCEPT !.psp = p]
      /\ \A s \in DOMAIN m : s # b => n[s] = m[s]
  BY <1>1 DEF TakeWhole
<1>3. \A s \in DOMAIN m : Record(m[s]) /\ s \in Nat /\ m[s].size \in Nat
  BY NextIs DEF Layout, Record
<1>4. Record(n[b]) /\ n[b].type = m[b].type /\ n[b].size = m[b].size /\ n[b].psp = p
  BY <1>2, <1>3 DEF Record
<1>5. Reowned(m, n)
  BY <1>2, <1>3, <1>4 DEF Reowned
<1>6. Layout(n, l)
  BY <1>5, ReownedLayout
<1>7. Keeps(m, n, {MCB_FREE}) /\ Adds(m, n, {MCB_FREE, p})
  BY <1>2, <1>4 DEF Keeps, Adds, Free
<1>8. b <= b /\ b + m[b].size + 1 <= Next0(m, b)
  BY <1>3 DEF Next0
<1>9. Granted(m, n, m[b].size, p, b, b)
  BY <1>2, <1>3, <1>4, <1>7, <1>8 DEF Granted
<1> QED
  BY <1>1, <1>6, <1>9

\* A free block that is cut in two, one of them for p.
LEMMA TakePartIs ==
  ASSUME NEW m, NEW l \in BOOLEAN, Layout(m, l), NEW b \in DOMAIN m, Free(m, b),
         NEW p \in Nat, NEW c \in Nat, b < c, c < Next0(m, b),
         NEW n
  PROVE  /\ Split(m, n, b, c, p, MCB_FREE) =>
              Layout(n, l) /\ Granted(m, n, c - b - 1, p, b, b)
         /\ Split(m, n, b, c, MCB_FREE, p) =>
              Layout(n, l) /\ Granted(m, n, Next0(m, b) - c - 1, p, b, c)
<1>0. PICK f \in Nat : f = MCB_FREE
  BY DEF MCB_FREE
<1>1. b \in Nat /\ Next0(m, b) \in Nat /\ m[b].psp \in {MCB_FREE}
  BY NextIs DEF Free
<1>2. ASSUME Split(m, n, b, c, p, MCB_FREE)
      PROVE  Layout(n, l) /\ Granted(m, n, c - b - 1, p, b, b)
  <2>1. /\ Layout(n, l) /\ c \notin DOMAIN m
        /\ n[b].psp = p /\ n[b].size = c - b - 1 /\ n[c].psp = MCB_FREE
    <3>1. Split(m, n, b, c, p, f)
      BY <1>0, <1>2
    <3> QED
      BY <1>0, <1>1, <3>1, SplitLayout
  <2>2. DOMAIN n = DOMAIN m \cup {c} /\ \A t \in DOMAIN m : t # b => n[t] = m[t]
    BY <1>2 DEF Split
  <2>3. Keeps(m, n, {MCB_FREE}) /\ Adds(m, n, {MCB_FREE, p})
    BY <1>1, <2>1, <2>2 DEF Keeps, Adds
  <2>4. b <= b /\ b + (c - b - 1) + 1 <= Next0(m, b)
    BY <1>1
  <2> QED
    BY <1>1, <2>1, <2>2, <2>3, <2>4 DEF Granted
<1>3. ASSUME Split(m, n, b, c, MCB_FREE, p)
      PROVE  Layout(n, l) /\ Granted(m, n, Next0(m, b) - c - 1, p, b, c)
  <2>1. /\ Layout(n, l) /\ c \notin DOMAIN m
        /\ n[b].psp = MCB_FREE /\ n[c].psp = p /\ n[c].size = Next0(m, b) - c - 1
    <3>1. Split(m, n, b, c, f, p)
      BY <1>0, <1>3
    <3> QED
      BY <1>0, <1>1, <3>1, SplitLayout
  <2>2. DOMAIN n = DOMAIN m \cup {c} /\ \A t \in DOMAIN m : t # b => n[t] = m[t]
    BY <1>3 DEF Split
  <2>3. Keeps(m, n, {MCB_FREE}) /\ Adds(m, n, {MCB_FREE, p})
    BY <1>1, <2>1, <2>2 DEF Keeps, Adds
  <2>4. b <= c /\ c + (Next0(m, b) - c - 1) + 1 <= Next0(m, b)
    BY <1>1
  <2> QED
    BY <1>1, <2>1, <2>2, <2>3, <2>4 DEF Granted
<1> QED
  BY <1>2, <1>3

LEMMA TakeFrontIs ==
  ASSUME NEW m, NEW l \in BOOLEAN, Layout(m, l), NEW b \in DOMAIN m, Free(m, b),
         NEW p \in Nat, NEW want \in Nat, want < m[b].size
  PROVE  /\ Layout(TakeFront(m, b, want, p), l)
         /\ Granted(m, TakeFront(m, b, want, p), want, p, b, b)
<1>1. PICK n : n = TakeFront(m, b, want, p)
  OBVIOUS
<1>2. b \in Nat /\ m[b].size \in Nat /\ Next0(m, b) = b + m[b].size + 1
  BY NextIs DEF Next0
<1>3. PICK c \in Nat : c = b + want + 1
  BY <1>2
<1>4. /\ b < c /\ c < Next0(m, b) /\ c - b - 1 = want
      /\ Next0(m, b) - c - 1 = m[b].size - want - 1
  BY <1>2, <1>3
<1>5. n = [t \in (DOMAIN m \ {}) \cup {b, c} |->
             IF t \in {b, c}
             THEN IF t = b THEN Block("M", p, want)
                  ELSE Block(m[b].type, MCB_FREE, m[b].size - want - 1)
             ELSE m[t]]
  BY <1>1, <1>3 DEF TakeFront, With
<1>6. (DOMAIN m \ {}) \cup {b, c} = DOMAIN m \cup {c}
  OBVIOUS
<1>7. Split(m, n, b, c, p, MCB_FREE)
  <2>1. DOMAIN n = DOMAIN m \cup {c} /\ n = [t \in DOMAIN n |-> n[t]]
    BY <1>5, <1>6
  <2>2. n[b] = Block("M", p, want)
    BY <1>5
  <2>3. n[c] = Block(m[b].type, MCB_FREE, m[b].size - want - 1)
    BY <1>4, <1>5, <1>2
  <2>4. c \notin DOMAIN m
    <3>1. \A t \in DOMAIN m : t \in Nat /\ (b < t => Next0(m, b) <= t)
      BY NextIs DEF Layout
    <3> QED
      BY <1>2, <1>4, <3>1
  <2>5. \A t \in DOMAIN m : t # b => n[t] = m[t]
    BY <1>5, <2>4
  <2> QED
    BY <1>4, <2>1, <2>2, <2>3, <2>5 DEF Split
<1> QED
  BY <1>1, <1>4, <1>7, TakePartIs

LEMMA TakeEndIs ==
  ASSUME NEW m, NEW l \in BOOLEAN, Layout(m, l), NEW b \in DOMAIN m, Free(m, b),
         NEW p \in Nat, NEW want \in Nat, want < m[b].size
  PROVE  /\ Layout(TakeEnd(m, b, want, p), l)
         /\ Granted(m, TakeEnd(m, b, want, p), want, p, b, b + m[b].size - want)
<1>1. PICK n : n = TakeEnd(m, b, want, p)
  OBVIOUS
<1>2. b \in Nat /\ m[b].size \in Nat /\ Next0(m, b) = b + m[b].size + 1
  BY NextIs DEF Next0
<1>3. PICK c \in Nat : c = b + m[b].size - want
  BY <1>2
<1>4. /\ b < c /\ c < Next0(m, b) /\ c - b - 1 = m[b].size - want - 1
      /\ Next0(m, b) - c - 1 = want
  BY <1>2, <1>3
<1>5. n = [t \in (DOMAIN m \ {}) \cup {b, c} |->
             IF t \in {b, c}
             THEN IF t = c THEN Block(m[b].type, p, want)
                  ELSE Block("M", MCB_FREE, m[b].size - want - 1)
             ELSE m[t]]
  BY <1>1, <1>3 DEF TakeEnd, With
<1>6. (DOMAIN m \ {}) \cup {b, c} = DOMAIN m \cup {c}
  OBVIOUS
<1>7. Split(m, n, b, c, MCB_FREE, p)
  <2>1. DOMAIN n = DOMAIN m \cup {c} /\ n = [t \in DOMAIN n |-> n[t]]
    BY <1>5, <1>6
  <2>2. n[b] = Block("M", MCB_FREE, m[b].size - want - 1)
    BY <1>2, <1>4, <1>5
  <2>3. n[c] = Block(m[b].type, p, want)
    BY <1>5
  <2>4. c \notin DOMAIN m
    <3>1. \A t \in DOMAIN m : t \in Nat /\ (b < t => Next0(m, b) <= t)
      BY NextIs DEF Layout
    <3> QED
      BY <1>2, <1>4, <3>1
  <2>5. \A t \in DOMAIN m : t # b => n[t] = m[t]
    BY <1>5, <2>4
  <2> QED
    BY <1>4, <2>1, <2>2, <2>3, <2>5 DEF Split
<1> QED
  BY <1>1, <1>3, <1>4, <1>7, TakePartIs

\* What a request that is granted leaves.
Success(m, l, s, K, want, p, r) ==
  /\ r.ok /\ r.size = want /\ Layout(r.mcb, l)
  /\ \E k \in K : Granted(m, r.mcb, want, p, s[k], r.seg)

\* A request succeeds if one of the blocks looked at fits.
LEMMA AllocIs ==
  ASSUME NEW m, NEW l \in BOOLEAN, Layout(m, l), Sys(m), NEW strat \in Strategies,
         NEW want \in Nat, NEW p \in Nat,
         NEW c, c = DOS_CompressMemory(m), NEW s, s = Searched(c, strat),
         NEW K, K = Fitting(c, s, want), NEW r, r = DOS_AllocateMemory(m, strat, want, p)
  PROVE  /\ K = {} => ~r.ok /\ r.mcb = c /\ r.size = BigSize(c, s)
         /\ K # {} => Success(c, l, s, K, want, p, r)
<1>1. Layout(c, l)
  BY CompressIs, CompressedKeeps
<1>2. s \in Seq(DOMAIN c)
  BY <1>1, SearchedIs
<1>3. PICK b : b = Chosen(c, s, K, strat.fit)
  OBVIOUS
<1>4. strat.fit \in Fits
  BY DEF Strategies
<1>5. ASSUME K = {}
      PROVE  ~r.ok /\ r.mcb = c /\ r.size = BigSize(c, s)
  <2>1. r = [mcb |-> c, ok |-> FALSE, seg |-> 0, size |-> BigSize(c, s)]
    BY <1>5 DEF DOS_AllocateMemory
  <2> QED
    BY <2>1
<1>6. ASSUME K # {}
      PROVE  Success(c, l, s, K, want, p, r)
  <2>1. \A x \in DOMAIN c : c[x].size \in Nat
    BY <1>1, NextIs
  <2>2. K \in SUBSET DOMAIN s
    BY DEF Fitting
  <2>3. PICK k \in K : b = s[k]
    BY <1>2, <1>3, <1>4, <1>6, <2>1, <2>2, ChosenIs
  <2>4. b \in DOMAIN c /\ Free(c, b) /\ want <= c[b].size
    BY <1>2, <2>1, <2>3 DEF Fitting, LargeEnough
  <2>5. CASE c[b].size = want
    <3>1. r = [mcb |-> TakeWhole(c, b, p), ok |-> TRUE, seg |-> b, size |-> want]
      BY <1>3, <1>6, <2>5 DEF DOS_AllocateMemory
    <3>2. r.ok /\ r.size = want /\ r.mcb = TakeWhole(c, b, p) /\ r.seg = b
      BY <3>1
    <3>3. Layout(r.mcb, l) /\ Granted(c, r.mcb, want, p, s[k], r.seg)
      BY <1>1, <2>3, <2>4, <2>5, <3>2, TakeWholeIs
    <3> QED
      BY <3>2, <3>3 DEF Success
  <2>6. CASE c[b].size # want /\ strat.fit # "last"
    <3>1. r = [mcb |-> TakeFront(c, b, want, p), ok |-> TRUE, seg |-> b, size |-> want]
      BY <1>3, <1>6, <2>6 DEF DOS_AllocateMemory
    <3>2. r.ok /\ r.size = want /\ r.mcb = TakeFront(c, b, want, p) /\ r.seg = b
      BY <3>1
    <3>3. want < c[b].size
      BY <2>1, <2>4, <2>6
    <3>4. Layout(r.mcb, l) /\ Granted(c, r.mcb, want, p, s[k], r.seg)
      BY <1>1, <2>3, <2>4, <3>2, <3>3, TakeFrontIs
    <3> QED
      BY <3>2, <3>4 DEF Success
  <2>7. CASE c[b].size # want /\ strat.fit = "last"
    <3>1. r = [mcb |-> TakeEnd(c, b, want, p), ok |-> TRUE,
               seg |-> b + c[b].size - want, size |-> want]
      BY <1>3, <1>6, <2>7 DEF DOS_AllocateMemory
    <3>2. /\ r.ok /\ r.size = want /\ r.mcb = TakeEnd(c, b, want, p)
          /\ r.seg = b + c[b].size - want
      BY <3>1
    <3>3. want < c[b].size
      BY <2>1, <2>4, <2>7
    <3>4. Layout(r.mcb, l) /\ Granted(c, r.mcb, want, p, s[k], r.seg)
      BY <1>1, <2>3, <2>4, <3>2, <3>3, TakeEndIs
    <3> QED
      BY <3>2, <3>4 DEF Success
  <2> QED
    BY <2>5, <2>6, <2>7
<1> QED
  BY <1>5, <1>6

-----------------------------------------------------------------------------
(* DOS_ResizeMemory *)

\* The blocks of m with an owner are blocks of n and have the same owner.
StayOwned(m, n) ==
  \A s \in DOMAIN m : ~Free(m, s) => s \in DOMAIN n /\ n[s].psp = m[s].psp

LEMMA KeepsOwned ==
  ASSUME NEW m, NEW n, Keeps(m, n, {MCB_FREE})
  PROVE  StayOwned(m, n)
BY DEF Keeps, StayOwned, Free

\* Blocks may also go to, and come from, process p.
Only(m, n, p) == Keeps(m, n, {MCB_FREE, p}) /\ Adds(m, n, {MCB_FREE, p})

\* n is m with the blocks of p or none cut or put together, seg still with p.
Resized(m, n, l, seg, p) ==
  Layout(n, l) /\ Only(m, n, p) /\ StayOwned(m, n)

LEMMA CutIs ==
  ASSUME NEW m, NEW l \in BOOLEAN, Layout(m, l), NEW seg \in DOMAIN m,
         NEW p \in Nat, m[seg].psp = p, NEW c \in Nat, seg < c, c < Next0(m, seg),
         NEW n, Split(m, n, seg, c, p, MCB_FREE)
  PROVE  Resized(m, n, l, seg, p)
<1>1. PICK f \in Nat : f = MCB_FREE
  BY DEF MCB_FREE
<1>2. Split(m, n, seg, c, p, f)
  BY <1>1
<1>3. Layout(n, l) /\ c \notin DOMAIN m /\ n[seg].psp = p
  BY <1>2, SplitLayout
<1>4. Only(m, n, p)
  <2>1. PICK P : P = {MCB_FREE, p}
    OBVIOUS
  <2>2. m[seg].psp \in P /\ p \in P /\ f \in P
    BY <1>1, <2>1
  <2>3. Keeps(m, n, P) /\ Adds(m, n, P)
    BY <1>2, <1>3, <2>2, SplitKeeps
  <2> QED
    BY <2>1, <2>3 DEF Only
<1>5. StayOwned(m, n)
  <2>1. DOMAIN n = DOMAIN m \cup {c} /\ \A t \in DOMAIN m : t # seg => n[t] = m[t]
    BY <1>2 DEF Split
  <2> QED
    BY <1>3, <2>1 DEF StayOwned
<1> QED
  BY <1>3, <1>4, <1>5 DEF Resized

\* j is m with the block at seg and the free one behind it put together.
Grown(m, j, l, seg, p) ==
  /\ Resized(m, j, l, seg, p)
  /\ DOMAIN j = DOMAIN m \ {Next0(m, seg)} /\ seg \in DOMAIN j
  /\ j[seg].psp = p /\ j[seg].type = m[Next0(m, seg)].type
  /\ Next0(j, seg) = seg + JoinedSize(m, seg) + 1
  /\ \A t \in DOMAIN j : t # seg => j[t] = m[t]

LEMMA GrowIs ==
  ASSUME NEW m, NEW l \in BOOLEAN, Layout(m, l), Sys(m), NEW seg \in DOMAIN m,
         CanJoin(m, seg), NEW p \in Nat, m[seg].psp = p
  PROVE  Grown(m, GrowWhole(m, seg, p), l, seg, p)
<1>1. PICK j : j = GrowWhole(m, seg, p)
  OBVIOUS
<1>2. PICK f : f = Next0(m, seg)
  OBVIOUS
<1>3. Free(m, f) /\ m[seg].type = "M"
  BY <1>2, NextIs DEF CanJoin
<1>4. f \in DOMAIN m /\ seg < f /\ f \in Nat /\ seg \in Nat
  BY <1>2, <1>3, NextIs
<1>5. HasUmb => f # U
  BY <1>3 DEF Sys, Free, MCB_FREE, MCB_DOS
<1>6. m[seg].size \in Nat /\ m[f].size \in Nat
  BY <1>4, NextIs
<1>7. j = [t \in (DOMAIN m \ {f}) \cup {seg} |->
             IF t \in {seg} THEN Block(m[f].type, p, m[seg].size + m[f].size + 1) ELSE m[t]]
  BY <1>1, <1>2 DEF GrowWhole, With, JoinedSize
<1>8. seg # f
  BY <1>4
<1>9. DOMAIN j = DOMAIN m \ {f} /\ j = [t \in DOMAIN j |-> j[t]]
  BY <1>7, <1>8
<1>10. j[seg] = Block(m[f].type, p, m[seg].size + m[f].size + 1)
  BY <1>7
<1>11. \A t \in DOMAIN j : t # seg => j[t] = m[t]
  BY <1>7
<1>12. Join(m, j, seg, p)
  BY <1>2, <1>9, <1>10, <1>11 DEF Join
<1>13. /\ Layout(j, l) /\ seg \in DOMAIN j /\ j[seg].psp = p
       /\ Next0(j, seg) = Next0(m, f)
  BY <1>2, <1>3, <1>5, <1>12, JoinLayout
<1>14. Only(m, j, p)
  <2>1. PICK P : P = {MCB_FREE, p}
    OBVIOUS
  <2>2. m[seg].psp \in P /\ m[f].psp \in P /\ p \in P
    BY <1>3, <2>1 DEF Free
  <2>3. Keeps(m, j, P) /\ Adds(m, j, P)
    BY <1>2, <1>4, <1>8, <1>12, <2>2, JoinKeeps
  <2> QED
    BY <2>1, <2>3 DEF Only
<1>15. StayOwned(m, j)
  BY <1>3, <1>9, <1>11, <1>13 DEF StayOwned
<1>16. Next0(j, seg) = seg + JoinedSize(m, seg) + 1 /\ j[seg].type = m[f].type
  BY <1>2, <1>10 DEF Next0, Block, JoinedSize
<1> QED
  BY <1>1, <1>2, <1>9, <1>11, <1>13, <1>14, <1>15, <1>16 DEF Resized, Grown

LEMMA ResizeIs ==
  ASSUME NEW m, NEW l \in BOOLEAN, Layout(m, l), Sys(m), NEW seg \in DOMAIN m,
         NEW p \in Nat, p # MCB_FREE, m[seg].psp = p, NEW want \in Nat
  PROVE  Resized(m, DOS_ResizeMemory(m, seg, want, p), l, seg, p)
<1>1. PICK c : c = DOS_CompressMemory(m)
  OBVIOUS
<1>2. PICK n : n = DOS_ResizeMemory(m, seg, want, p)
  OBVIOUS
<1>3. Layout(c, l) /\ Sys(c) /\ SameOwned(m, c)
  BY <1>1, CompressIs, CompressedKeeps
<1>4. seg \in DOMAIN c /\ c[seg].psp = p
  BY <1>3 DEF SameOwned, Free
<1>5. Only(m, c, p) /\ StayOwned(m, c)
  <2>1. Keeps(m, c, {MCB_FREE}) /\ Adds(m, c, {MCB_FREE})
    BY <1>3, SameOwnedKeeps
  <2> QED
    BY <2>1, KeepsOwned DEF Only, Keeps, Adds
<1>6. PICK size \in Nat : size = c[seg].size
  BY <1>3, <1>4, NextIs
<1>7. seg \in Nat /\ Next0(c, seg) = seg + size + 1
  BY <1>3, <1>4, <1>6, NextIs DEF Next0
<1>8. PICK rest \in Nat : rest = seg + want + 1
  BY <1>7
<1>9. Resized(c, n, l, seg, p)
  <2>1. CASE want = size
    <3>1. n = c
      BY <1>1, <1>2, <1>6, <2>1 DEF DOS_ResizeMemory
    <3> QED
      BY <1>3, <3>1 DEF Resized, Only, Keeps, Adds, StayOwned
  <2>2. CASE want < size
    <3>1. n = CutBlock(c, seg, want, p)
      BY <1>1, <1>2, <1>6, <2>2 DEF DOS_ResizeMemory
    <3>2. n = [t \in (DOMAIN c \ {}) \cup {seg, rest} |->
                 IF t \in {seg, rest}
                 THEN IF t = seg THEN Block("M", p, want)
                      ELSE Block(c[seg].type, MCB_FREE, size - want - 1)
                 ELSE c[t]]
      BY <1>6, <1>8, <3>1 DEF CutBlock, With
    <3>3. /\ seg < rest /\ rest < Next0(c, seg) /\ rest - seg - 1 = want
          /\ Next0(c, seg) - rest - 1 = size - want - 1
      BY <1>7, <1>8, <2>2
    <3>4. rest \notin DOMAIN c
      <4>1. \A t \in DOMAIN c : t \in Nat /\ (seg < t => Next0(c, seg) <= t)
        BY <1>3, <1>4, NextIs DEF Layout
      <4> QED
        BY <1>7, <3>3, <4>1
    <3>5. Split(c, n, seg, rest, p, MCB_FREE)
      <4>1. DOMAIN n = DOMAIN c \cup {rest} /\ n = [t \in DOMAIN n |-> n[t]]
        BY <1>4, <3>2
      <4>2. n[seg] = Block("M", p, want)
        BY <3>2
      <4>3. n[rest] = Block(c[seg].type, MCB_FREE, size - want - 1)
        BY <1>4, <3>2, <3>4
      <4>4. \A t \in DOMAIN c : t # seg => n[t] = c[t]
        BY <3>2, <3>4
      <4> QED
        BY <3>3, <4>1, <4>2, <4>3, <4>4 DEF Split
    <3> QED
      BY <1>3, <1>4, <3>3, <3>5, CutIs
  <2>3. CASE size < want /\ ~CanJoin(c, seg)
    <3>1. n = [c EXCEPT ![seg].psp = p]
      BY <1>1, <1>2, <1>6, <2>3 DEF DOS_ResizeMemory
    <3>2. n = [t \in DOMAIN c |-> IF t = seg THEN [c[seg] EXCEPT !.psp = p] ELSE c[t]]
      BY <3>1
    <3>3. \A s \in DOMAIN c : Record(c[s])
      BY <1>3 DEF Layout, Record
    <3>4. Record(n[seg]) /\ n[seg].type = c[seg].type /\ n[seg].size = c[seg].size /\ n[seg].psp = p
      BY <1>4, <3>2, <3>3 DEF Record
    <3>5. /\ DOMAIN n = DOMAIN c /\ n = [t \in DOMAIN n |-> n[t]]
          /\ \A s \in DOMAIN c : s # seg => n[s] = c[s]
      BY <3>2
    <3>6. Reowned(c, n)
      BY <3>3, <3>4, <3>5 DEF Reowned
    <3>7. Layout(n, l)
      BY <1>3, <3>6, ReownedLayout
    <3> QED
      BY <1>4, <3>4, <3>5, <3>7 DEF Resized, Only, Keeps, Adds, StayOwned
  <2>4. CASE size < want /\ CanJoin(c, seg)
    <3>0. PICK j : j = GrowWhole(c, seg, p)
      OBVIOUS
    <3>1. /\ j = GrowWhole(c, seg, p)
          /\ Resized(c, j, l, seg, p)
          /\ DOMAIN j = DOMAIN c \ {Next0(c, seg)} /\ seg \in DOMAIN j
          /\ j[seg].psp = p /\ j[seg].type = c[Next0(c, seg)].type
          /\ Next0(j, seg) = seg + JoinedSize(c, seg) + 1
          /\ \A t \in DOMAIN j : t # seg => j[t] = c[t]
      <4>1. Grown(c, j, l, seg, p)
        BY <1>3, <1>4, <2>4, <3>0, GrowIs
      <4> QED
        BY <3>0, <4>1 DEF Grown
    <3>2. CASE ~(want < JoinedSize(c, seg))
      <4>1. n = GrowWhole(c, seg, p)
        BY <1>1, <1>2, <1>6, <2>4, <3>2 DEF DOS_ResizeMemory
      <4> QED
        BY <3>1, <4>1
    <3>3. CASE want < JoinedSize(c, seg)
      <4>1. n = GrowAndCut(c, seg, want, p)
        BY <1>1, <1>2, <1>6, <2>4, <3>3 DEF DOS_ResizeMemory
      <4>2. PICK f : f = Next0(c, seg)
        OBVIOUS
      <4>3. n = [t \in (DOMAIN c \ {f}) \cup {seg, rest} |->
                   IF t \in {seg, rest}
                   THEN IF t = seg THEN Block("M", p, want)
                        ELSE Block(c[f].type, MCB_FREE, JoinedSize(c, seg) - want - 1)
                   ELSE c[t]]
        BY <1>8, <4>1, <4>2 DEF GrowAndCut, With
      <4>4. Layout(j, l)
        BY <3>1 DEF Resized
      <4>5. f \in DOMAIN c /\ c[f].size \in Nat
        <5>1. c[seg].type = "M"
          BY <1>3, <1>4, <2>4, NextIs DEF CanJoin
        <5>2. f \in DOMAIN c
          BY <1>3, <1>4, <4>2, <5>1, NextIs
        <5> QED
          BY <1>3, <5>2, NextIs
      <4>6. PICK big \in Nat : big = JoinedSize(c, seg)
        BY <1>6, <4>2, <4>5 DEF JoinedSize
      <4>7. /\ seg < rest /\ rest < Next0(j, seg) /\ rest - seg - 1 = want
            /\ Next0(j, seg) - rest - 1 = big - want - 1
        BY <1>7, <1>8, <3>1, <3>3, <4>6
      <4>8. rest \notin DOMAIN j
        <5>1. \A t \in DOMAIN j : t \in Nat /\ (seg < t => Next0(j, seg) <= t)
          BY <3>1, <4>4, NextIs DEF Layout
        <5>2. Next0(j, seg) \in Nat
          BY <3>1, <4>4, NextIs
        <5> QED
          BY <1>7, <4>7, <5>1, <5>2
      <4>9. Split(j, n, seg, rest, p, MCB_FREE)
        <5>1. DOMAIN n = DOMAIN j \cup {rest} /\ n = [t \in DOMAIN n |-> n[t]]
          BY <3>1, <4>2, <4>3
        <5>2. n[seg] = Block("M", p, want)
          BY <4>3
        <5>3. n[rest] = Block(c[f].type, MCB_FREE, big - want - 1)
          BY <3>1, <4>3, <4>6, <4>8
        <5>4. \A t \in DOMAIN j : t # seg => n[t] = j[t]
          BY <3>1, <4>2, <4>3, <4>8
        <5> QED
          BY <3>1, <4>2, <4>7, <5>1, <5>2, <5>3, <5>4 DEF Split
      <4>10. Resized(j, n, l, seg, p)
        BY <3>1, <4>4, <4>7, <4>9, CutIs
      <4> QED
        BY <3>1, <4>10 DEF Resized, Only, Keeps, Adds, StayOwned, Free
    <3> QED
      BY <3>2, <3>3
  <2>5. want = size \/ want < size \/ size < want
    BY <1>6
  <2> QED
    BY <2>1, <2>2, <2>3, <2>4, <2>5
<1>10. Only(m, n, p)
  <2>1. Keeps(m, n, {MCB_FREE, p}) /\ Adds(m, n, {MCB_FREE, p})
    BY <1>5, <1>9, KeepsOn, AddsOn DEF Resized, Only
  <2> QED
    BY <2>1 DEF Only
<1>11. StayOwned(m, n)
  BY <1>5, <1>9 DEF Resized, StayOwned, Free
<1> QED
  BY <1>2, <1>9, <1>10, <1>11 DEF Resized

-----------------------------------------------------------------------------
(* DOS_FreeMemory, DOS_FreeProcessMemory and the link of the chains *)

LEMMA FreeIs ==
  ASSUME NEW m, NEW l \in BOOLEAN, Layout(m, l), NEW seg \in DOMAIN m,
         NEW n, n = DOS_FreeMemory(m, seg)
  PROVE  /\ Layout(n, l) /\ DOMAIN n = DOMAIN m /\ n[seg].psp = MCB_FREE
         /\ \A s \in DOMAIN m : s # seg => n[s] = m[s]
<1>1. /\ DOMAIN n = DOMAIN m /\ n = [s \in DOMAIN n |-> n[s]]
      /\ n[seg] = [m[seg] EXCEPT !.psp = MCB_FREE]
      /\ \A s \in DOMAIN m : s # seg => n[s] = m[s]
  BY DEF DOS_FreeMemory
<1>2. \A s \in DOMAIN m : Record(m[s])
  BY DEF Layout, Record
<1>3. Record(n[seg]) /\ n[seg].type = m[seg].type /\ n[seg].size = m[seg].size
      /\ n[seg].psp = MCB_FREE
  BY <1>1, <1>2 DEF Record, MCB_FREE
<1>4. Reowned(m, n)
  BY <1>1, <1>2, <1>3 DEF Reowned
<1> QED
  BY <1>1, <1>3, <1>4, ReownedLayout

\* The walks meet every header.
LEMMA OnChainsIs ==
  ASSUME NEW m, NEW l \in BOOLEAN, Layout(m, l), l => HasUmb
  PROVE  OnChains(m) = DOMAIN m
<1>1. FirstMCB \in DOMAIN m /\ (HasUmb => U \in DOMAIN m)
  BY DEF Layout
<1>2. \A t \in DOMAIN m : t \in Nat /\ FirstMCB <= t /\ t < Top
  BY NextIs
<1>3. ASSUME NEW x \in DOMAIN m
      PROVE  OnWalk(m, x) = {t \in DOMAIN m : x <= t /\ t < End(l, x)}
  <2>1. PICK w : w = Walk(m, x)
    OBVIOUS
  <2>2. Walks(w, m, x, End(l, x))
    BY <1>3, <2>1, WalkIs
  <2>3. /\ w \in Seq(DOMAIN m) /\ DOMAIN w = 1..Len(w)
        /\ \A t \in DOMAIN m : x <= t /\ t < End(l, x) <=> \E k \in 1..Len(w) : w[k] = t
    BY <2>2 DEF Walks
  <2>4. OnWalk(m, x) = {w[k] : k \in DOMAIN w}
    BY <2>1 DEF OnWalk
  <2>5. {w[k] : k \in DOMAIN w} = {t \in DOMAIN m : x <= t /\ t < End(l, x)}
    <3>1. \A k \in DOMAIN w : w[k] \in DOMAIN m
      BY <2>3
    <3> QED
      BY <2>3, <3>1
  <2> QED
    BY <2>4, <2>5
<1>4. CASE HasUmb
  <2>1. OnChains(m) = OnWalk(m, FirstMCB) \cup OnWalk(m, U)
    BY <1>4 DEF OnChains, U
  <2>2. End(l, U) = Top /\ End(l, FirstMCB) \in {U, Top} /\ U \in Nat
    BY Bounds DEF End
  <2>3. \A t \in DOMAIN m : t \in OnWalk(m, FirstMCB) \cup OnWalk(m, U)
    BY <1>1, <1>2, <1>3, <1>4, <2>2
  <2> QED
    BY <1>1, <1>3, <1>4, <2>1, <2>3
<1>5. CASE ~HasUmb
  <2>1. OnChains(m) = OnWalk(m, FirstMCB)
    BY <1>5 DEF OnChains
  <2>2. End(l, FirstMCB) = Top
    BY <1>5, Bounds DEF End
  <2> QED
    BY <1>1, <1>2, <1>3, <2>1, <2>2
<1> QED
  BY <1>4, <1>5

LEMMA FreeProcessIs ==
  ASSUME NEW m, NEW l \in BOOLEAN, Layout(m, l), Sys(m), l => HasUmb,
         NEW p, p # MCB_DOS, NEW n, n = DOS_FreeProcessMemory(m, p)
  PROVE  /\ Layout(n, l) /\ Keeps(m, n, {MCB_FREE, p}) /\ Adds(m, n, {MCB_FREE})
         /\ p # MCB_FREE => \A s \in DOMAIN n : n[s].psp # p
<1>1. PICK x : x = [seg \in DOMAIN m |->
                      IF seg \in OnChains(m) /\ m[seg].psp = p
                      THEN [m[seg] EXCEPT !.psp = MCB_FREE] ELSE m[seg]]
  OBVIOUS
<1>2. n = DOS_CompressMemory(x)
  BY <1>1 DEF DOS_FreeProcessMemory
<1>3. DOMAIN x = DOMAIN m /\ x = [s \in DOMAIN x |-> x[s]]
  BY <1>1
<1>4. \A s \in DOMAIN m : Record(m[s]) /\ s \in OnChains(m)
  BY OnChainsIs DEF Layout, Record
<1>5. ASSUME NEW s \in DOMAIN m
      PROVE  /\ Record(x[s]) /\ x[s].type = m[s].type /\ x[s].size = m[s].size
             /\ x[s].psp = IF m[s].psp = p THEN MCB_FREE ELSE m[s].psp
  <2>1. CASE m[s].psp = p
    <3>1. x[s] = [m[s] EXCEPT !.psp = MCB_FREE]
      BY <1>1, <1>4, <2>1
    <3> QED
      BY <1>4, <2>1, <3>1 DEF Record, MCB_FREE
  <2>2. CASE m[s].psp # p
    <3>1. x[s] = m[s]
      BY <1>1, <2>2
    <3> QED
      BY <1>4, <2>2, <3>1
  <2> QED
    BY <2>1, <2>2
<1>6. Reowned(m, x)
  BY <1>3, <1>5 DEF Reowned
<1>7. Layout(x, l)
  BY <1>6, ReownedLayout
<1>8. Sys(x)
  <2>1. FirstMCB \in DOMAIN m /\ (HasUmb => U \in DOMAIN m)
    BY DEF Layout
  <2> QED
    BY <1>5, <2>1 DEF Sys
<1>9. /\ Layout(n, l) /\ SameOwned(x, n)
      /\ \A s \in DOMAIN n : s \in DOMAIN x /\ n[s].psp = x[s].psp
  BY <1>2, <1>7, <1>8, CompressIs, CompressedKeeps
<1>10. Keeps(m, x, {MCB_FREE, p}) /\ Adds(m, x, {MCB_FREE})
  BY <1>3, <1>5 DEF Keeps, Adds
<1>11. Keeps(x, n, {MCB_FREE}) /\ Adds(x, n, {MCB_FREE})
  BY <1>9, SameOwnedKeeps
<1>12. Keeps(m, n, {MCB_FREE, p}) /\ Adds(m, n, {MCB_FREE})
  <2>1. Keeps(x, n, {MCB_FREE, p})
    BY <1>11 DEF Keeps
  <2> QED
    BY <1>10, <1>11, <2>1, KeepsOn, AddsOn
<1>13. p # MCB_FREE => \A s \in DOMAIN n : n[s].psp # p
  BY <1>3, <1>5, <1>9
<1> QED
  BY <1>9, <1>12, <1>13

\* The block that is given another type ends where upper memory begins.
LEMMA LowLastIs ==
  ASSUME NEW m, NEW l \in BOOLEAN, Layout(m, l), HasUmb
  PROVE  LowLast(m) \in DOMAIN m /\ Next0(m, LowLast(m)) = U
<1>1. PICK w : w = Walk(m, FirstMCB)
  OBVIOUS
<1>2. PICK e : e = End(l, FirstMCB)
  OBVIOUS
<1>3. FirstMCB \in DOMAIN m /\ U \in DOMAIN m
  BY DEF Layout
<1>4. Walks(w, m, FirstMCB, e)
  BY <1>1, <1>2, <1>3, WalkIs
<1>5. /\ w \in Seq(DOMAIN m) /\ Len(w) \in Nat /\ Len(w) > 0 /\ w[1] = FirstMCB
      /\ Next0(m, w[Len(w)]) = e /\ DOMAIN w = 1..Len(w)
      /\ \A k \in 1..(Len(w) - 1) : w[k + 1] = Next0(m, w[k])
      /\ \A i, j \in 1..Len(w) : i < j => w[i] < w[j]
      /\ \A t \in DOMAIN m : FirstMCB <= t /\ t < e <=> \E k \in 1..Len(w) : w[k] = t
  BY <1>4 DEF Walks
<1>6. \A t \in DOMAIN m : /\ t \in Nat /\ FirstMCB <= t /\ t < Top
                          /\ Next0(m, t) \in Nat /\ t < Next0(m, t)
                          /\ (m[t].type = "Z" <=> Next0(m, t) = End(l, t))
                          /\ (t < U => Next0(m, t) <= U)
  BY <1>3, NextIs DEF Layout
<1>7. \A k \in 1..Len(w) : w[k] \in DOMAIN m /\ w[k] \in Nat
  <2>1. \A k \in 1..Len(w) : w[k] \in DOMAIN m
    BY <1>5
  <2> QED
    BY <1>6, <2>1
<1> DEFINE S == {k \in DOMAIN w : m[w[k]].type = "Z" \/ Next0(m, w[k]) = U}
<1>8. /\ e \in {U, Top} /\ U \in Nat /\ Top \in Nat /\ U < Top /\ FirstMCB < U
      /\ FirstMCB \in Nat
  BY <1>2, Bounds DEF End
<1>9. PICK q \in DOMAIN m : q < U /\ Next0(m, q) = U
  BY <1>3, <1>8, Before
<1>10. PICK a \in 1..Len(w) : w[a] = q
  <2>1. FirstMCB <= q /\ q < e
    BY <1>6, <1>8, <1>9
  <2> QED
    BY <1>5, <2>1
<1>11. a \in S
  BY <1>5, <1>9, <1>10
<1>12. PICK k \in S : \A j \in S : k <= j
  <2>1. S \in SUBSET Nat
    BY <1>5
  <2> HIDE DEF S
  <2> QED
    BY <1>11, <2>1, Least
<1>13. k \in 1..Len(w) /\ k <= a
  BY <1>5, <1>11, <1>12
<1>14. \A j \in S : (\A i \in S : j <= i) => j = k
  BY <1>5, <1>12
<1>15. Earliest(S) = k
  <2>1. \E j \in S : \A i \in S : j <= i
    BY <1>12
  <2> HIDE DEF S
  <2> QED
    BY <1>14, <2>1 DEF Earliest
<1>16. w[k] <= q /\ w[k] \in DOMAIN m /\ w[k] < U
  <2>1. k = a \/ k < a
    BY <1>13
  <2>2. w[k] \in Nat /\ q \in Nat
    BY <1>6, <1>7, <1>13
  <2>3. w[k] <= q
    BY <1>5, <1>10, <1>13, <2>1, <2>2
  <2> QED
    BY <1>7, <1>8, <1>9, <1>13, <2>2, <2>3
<1>17. Next0(m, w[k]) = U
  <2>1. CASE Next0(m, w[k]) = U
    BY <2>1
  <2>2. CASE m[w[k]].type = "Z"
    <3>1. Next0(m, w[k]) = End(l, w[k]) /\ Next0(m, w[k]) <= U
      BY <1>6, <1>16, <2>2
    <3> QED
      BY <1>8, <3>1 DEF End
  <2> QED
    BY <1>12, <2>1, <2>2
<1>18. LowLast(m) = w[Earliest(S)]
  BY <1>1 DEF LowLast, U
<1> QED
  BY <1>15, <1>16, <1>17, <1>18

\* Linking and unlinking change where the low chain ends and nothing else.
LEMMA LinkIs ==
  ASSUME NEW m, NEW l \in BOOLEAN, Layout(m, l), HasUmb,
         NEW k \in BOOLEAN, k <=> ~l, NEW n, n = SetEnd(m, IF k THEN "M" ELSE "Z")
  PROVE  /\ Layout(n, k) /\ DOMAIN n = DOMAIN m
         /\ \A s \in DOMAIN m : n[s].psp = m[s].psp /\ n[s].size = m[s].size
<1>1. PICK q \in DOMAIN m : q = LowLast(m) /\ Next0(m, q) = U
  BY LowLastIs
<1>2. PICK ty : ty = IF k THEN "M" ELSE "Z"
  OBVIOUS
<1>3. n = [m EXCEPT ![q].type = ty]
  BY <1>1, <1>2 DEF SetEnd
<1>4. /\ DOMAIN n = DOMAIN m /\ n = [s \in DOMAIN n |-> n[s]]
      /\ n[q] = [m[q] EXCEPT !.type = ty]
      /\ \A s \in DOMAIN m : s # q => n[s] = m[s]
  BY <1>3
<1>5. \A s \in DOMAIN m : Record(m[s])
  BY DEF Layout, Record
<1>6. Record(n[q]) /\ n[q].type = ty /\ n[q].psp = m[q].psp /\ n[q].size = m[q].size
  BY <1>2, <1>4, <1>5 DEF Record
<1>7. \A s \in DOMAIN m : n[s].psp = m[s].psp /\ n[s].size = m[s].size /\ Record(n[s])
  BY <1>4, <1>5, <1>6
<1>8. \A s \in DOMAIN m : Next0(n, s) = Next0(m, s)
  BY <1>7 DEF Next0
<1>9. ASSUME NEW s \in DOMAIN m
      PROVE  n[s].type = "Z" <=> Next0(n, s) = End(k, s)
  <2>1. /\ s \in Nat /\ q \in Nat /\ Next0(m, s) \in Nat /\ s < Next0(m, s) /\ q < Next0(m, q)
        /\ (m[s].type = "Z" <=> Next0(m, s) = End(l, s))
    BY NextIs DEF Layout
  <2>2. U \in Nat /\ Top \in Nat /\ U < Top
    BY Bounds
  <2>3. CASE s = q
    <3>1. s < U
      BY <1>1, <2>1, <2>3
    <3>2. n[s].type = "Z" <=> ~k
      BY <1>2, <1>6, <2>3
    <3>3. Next0(n, s) = U
      BY <1>1, <1>8, <2>3
    <3> QED
      BY <2>2, <3>1, <3>2, <3>3 DEF End
  <2>4. CASE s # q
    <3>1. n[s].type = m[s].type /\ Next0(n, s) = Next0(m, s)
      BY <1>4, <1>8, <2>4
    <3>2. CASE s < U
      <4>1. Next0(m, s) <= U
        BY <3>2 DEF Layout
      <4>2. Next0(m, s) # U
        <5>1. s < q \/ q < s
          BY <2>1, <2>4
        <5>2. s < q => Next0(m, s) <= q
          BY DEF Layout
        <5>3. q < s => Next0(m, q) <= s
          BY DEF Layout
        <5> QED
          BY <1>1, <2>1, <2>2, <3>2, <5>1, <5>2, <5>3
      <4> QED
        BY <2>1, <2>2, <3>1, <4>1, <4>2 DEF End
    <3>3. CASE ~(s < U)
      BY <2>1, <3>1, <3>3 DEF End
    <3> QED
      BY <3>2, <3>3
  <2> QED
    BY <2>3, <2>4
<1>10. Layout(n, k)
  <2>1. /\ DOMAIN m \subseteq FirstMCB..(Top - 1) /\ FirstMCB \in DOMAIN m
        /\ HasUmb => U \in DOMAIN m
        /\ \A s \in DOMAIN m : Next0(m, s) \in DOMAIN m \cup {Top}
        /\ \A s, t \in DOMAIN m : s < t => Next0(m, s) <= t
    BY DEF Layout
  <2> QED
    BY <1>4, <1>7, <1>8, <1>9, <2>1 DEF Layout, Record
<1> QED
  BY <1>4, <1>7, <1>10

-----------------------------------------------------------------------------
(* The processes and what they own *)

\* p is a process whose program lies in a block of its own.
Holds(m, p) == p - 1 \in DOMAIN m /\ m[p - 1].psp = p

\* The processes that run or wait, each with its program's block but for the
\* shell, and none of them twice.
Run(m, r) ==
  /\ r \in Seq(Nat) /\ Len(r) > 0 /\ r[1] = FirstShell
  /\ \A i \in 2..Len(r) : FirstMCB < r[i] /\ Holds(m, r[i])
  /\ \A i, j \in 1..Len(r) : r[i] = r[j] => i = j

Owners(m) ==
  \A s \in DOMAIN m : \/ m[s].psp \in {MCB_FREE, MCB_DOS, FakePsp, FirstShell}
                      \/ Holds(m, m[s].psp)

Owned(m, p) == {<<s, m[s].size>> : s \in {t \in DOMAIN m : m[t].psp = p}}

\* The owners of blocks in m that are not in P own the same blocks in n.
Others(m, n, P) == \A p \in {m[s].psp : s \in DOMAIN m} \ P : Owned(n, p) = Owned(m, p)

\* The inductive invariant.
IInv ==
  /\ Layout(mcb, linked) /\ linked \in BOOLEAN /\ (linked => HasUmb)
  /\ Sys(mcb) /\ Run(mcb, running) /\ Owners(mcb)
  /\ strategy \in Strategies /\ stopped \in BOOLEAN

LEMMA Numbers ==
  MCB_FREE = 0 /\ MCB_DOS = 8 /\ FakePsp = 64 /\ FirstShell = 90 /\ FirstMCB = 100
BY DEF MCB_FREE, MCB_DOS, FakePsp, FirstShell, FirstMCB

\* Owners in Q had no block.
LEMMA OthersStay ==
  ASSUME NEW m, NEW n, NEW P, NEW Q, Keeps(m, n, P), Adds(m, n, P \cup Q),
         \A s \in DOMAIN m : m[s].psp \notin Q
  PROVE  Others(m, n, P)
<1> SUFFICES ASSUME NEW p \in {m[s].psp : s \in DOMAIN m} \ P
             PROVE  Owned(n, p) = Owned(m, p)
  BY DEF Others
<1>1. p \notin P /\ p \notin Q
  OBVIOUS
<1>2. {t \in DOMAIN m : m[t].psp = p} = {t \in DOMAIN n : n[t].psp = p}
  BY <1>1 DEF Keeps, Adds
<1>3. \A t \in DOMAIN m : m[t].psp = p => n[t].size = m[t].size
  BY <1>1 DEF Keeps
<1> QED
  BY <1>2, <1>3 DEF Owned

LEMMA FrontIs ==
  ASSUME NEW r \in Seq(Nat), Len(r) > 0
  PROVE  /\ Front(r) \in Seq(Nat) /\ Len(Front(r)) = Len(r) - 1
         /\ \A i \in 1..Len(Front(r)) : Front(r)[i] = r[i]
<1>0. Len(r) \in Nat /\ DOMAIN r = 1..Len(r)
  OBVIOUS
<1>1. PICK k \in Nat : k = Len(r) - 1 /\ k <= Len(r)
  <2>1. Len(r) - 1 \in Nat /\ Len(r) - 1 <= Len(r)
    BY <1>0
  <2> QED
    BY <2>1
<1>2. Front(r) = [i \in 1..k |-> r[i]]
  BY <1>1 DEF Front
<1>3. \A i \in 1..k : r[i] \in Nat
  BY <1>1
<1>4. [i \in 1..k |-> r[i]] \in Seq(Nat) /\ Len([i \in 1..k |-> r[i]]) = k
  BY <1>1, <1>3
<1> QED
  BY <1>1, <1>2, <1>4

\* What a call of the process p, the last of r, leaves to all the others.
LEMMA MemStep ==
  ASSUME NEW m, NEW l \in BOOLEAN, Layout(m, l), Sys(m), NEW r, Run(m, r), Owners(m),
         NEW p, p = r[Len(r)], NEW n,
         Keeps(m, n, {MCB_FREE, FakePsp, p}), Adds(m, n, {MCB_FREE, FakePsp, p}),
         Len(r) = 1 \/ Holds(n, p) \/ \A s \in DOMAIN n : n[s].psp # p
  PROVE  /\ Sys(n) /\ Owners(n) /\ Others(m, n, {MCB_FREE, FakePsp, p})
         /\ Len(r) = 1 \/ Holds(n, p) => Run(n, r)
         /\ Len(r) > 1 => Run(n, Front(r))
<1> DEFINE P == {MCB_FREE, FakePsp, p}
<1>1. /\ r \in Seq(Nat) /\ Len(r) \in Nat /\ Len(r) > 0 /\ r[1] = FirstShell
      /\ \A i \in 2..Len(r) : r[i] \in Nat /\ FirstMCB < r[i] /\ Holds(m, r[i])
      /\ \A i, j \in 1..Len(r) : r[i] = r[j] => i = j
  BY DEF Run
<1>2. p \in Nat /\ (Len(r) = 1 => p = FirstShell) /\ (Len(r) > 1 => FirstMCB < p)
  BY <1>1
<1>3. Others(m, n, P)
  <2>1. Adds(m, n, P \cup {})
    OBVIOUS
  <2>2. PICK Q : Q = {}
    OBVIOUS
  <2>3. PICK R : R = P
    OBVIOUS
  <2>4. Keeps(m, n, R) /\ Adds(m, n, R \cup Q) /\ \A s \in DOMAIN m : m[s].psp \notin Q
    BY <2>1, <2>2, <2>3
  <2> QED
    BY <2>3, <2>4, OthersStay
<1>4. MCB_DOS \notin P
  <2>1. Len(r) = 1 \/ Len(r) > 1
    <3>1. \A k \in Nat : k > 0 => k = 1 \/ k > 1
      OBVIOUS
    <3>2. Len(r) \in Nat /\ Len(r) > 0
      BY <1>1
    <3>3. PICK k \in Nat : k = Len(r) /\ k > 0
      BY <3>2
    <3>4. k = 1 \/ k > 1
      BY <3>1, <3>3
    <3> QED
      BY <3>3, <3>4, Zenon
  <2>2. p # MCB_DOS
    BY <1>2, <2>1, Numbers
  <2>3. MCB_DOS # MCB_FREE /\ MCB_DOS # FakePsp
    BY Numbers
  <2> QED
    BY <2>2, <2>3
<1>5. Sys(n)
  <2>1. FirstMCB \in DOMAIN m /\ (HasUmb => U \in DOMAIN m)
    BY DEF Layout
  <2> QED
    BY <1>4, <2>1 DEF Sys, Keeps
<1>6. ASSUME NEW x, Holds(m, x), x \notin P
      PROVE  Holds(n, x)
  BY <1>6 DEF Holds, Keeps
<1>7. ASSUME NEW s \in DOMAIN n, n[s].psp \notin {MCB_FREE, MCB_DOS, FakePsp, FirstShell}
      PROVE  Holds(n, n[s].psp)
  <2>1. CASE n[s].psp = p
    <3>1. Len(r) # 1
      BY <1>2, <1>7, <2>1
    <3> QED
      BY <2>1, <3>1
  <2>2. CASE n[s].psp # p
    <3>1. s \in DOMAIN m /\ m[s].psp = n[s].psp /\ n[s].psp \notin P
      BY <1>7, <2>2 DEF Adds
    <3>2. Holds(m, n[s].psp)
      BY <1>7, <3>1 DEF Owners
    <3> QED
      BY <1>6, <3>1, <3>2
  <2> QED
    BY <2>1, <2>2
<1>8. Owners(n)
  BY <1>7 DEF Owners
<1>9. ASSUME NEW i \in 2..Len(r), i # Len(r)
      PROVE  Holds(n, r[i])
  <2>1. i \in 1..Len(r) /\ Len(r) \in 1..Len(r) /\ Holds(m, r[i]) /\ FirstMCB < r[i] /\ r[i] \in Nat
    BY <1>1
  <2>2. r[i] # p
    BY <1>1, <1>9, <2>1
  <2>3. r[i] \notin P
    BY <2>1, <2>2, Numbers
  <2> QED
    BY <1>6, <2>1, <2>3
<1>10. ASSUME Len(r) = 1 \/ Holds(n, p)
       PROVE  Run(n, r)
  <2>1. ASSUME NEW i \in 2..Len(r)
        PROVE  Holds(n, r[i])
    <3>1. CASE i = Len(r)
      BY <1>1, <1>10, <3>1
    <3>2. CASE i # Len(r)
      BY <1>9, <3>2
    <3> QED
      BY <3>1, <3>2
  <2> QED
    BY <1>1, <2>1 DEF Run
<1>11. ASSUME Len(r) > 1
       PROVE  Run(n, Front(r))
  <2>1. PICK f : f = Front(r)
    OBVIOUS
  <2>2. Len(r) - 1 \in Nat /\ Len(r) - 1 <= Len(r)
    BY <1>1, <1>11
  <2>3. f \in Seq(Nat) /\ Len(f) = Len(r) - 1 /\ \A i \in 1..Len(f) : f[i] = r[i]
    BY <1>1, <2>1, <2>2, FrontIs
  <2>4. ASSUME NEW i \in 2..Len(f)
        PROVE  FirstMCB < f[i] /\ Holds(n, f[i])
    <3>1. i \in 2..Len(r) /\ i # Len(r) /\ i \in 1..Len(f)
      BY <1>1, <2>2, <2>3
    <3>2. f[i] = r[i]
      BY <2>3, <3>1
    <3> QED
      BY <1>1, <1>9, <3>1, <3>2
  <2>5. \A i \in 1..Len(f) : i \in 1..Len(r)
    BY <1>1, <2>2, <2>3
  <2>6. \A i, j \in 1..Len(f) : f[i] = f[j] => i = j
    BY <1>1, <2>3, <2>5
  <2>7. Len(f) > 0
    BY <1>1, <1>11, <2>3
  <2>8. f[1] = FirstShell
    BY <1>1, <2>2, <2>3, <2>7
  <2> QED
    BY <2>1, <2>3, <2>4, <2>6, <2>7, <2>8 DEF Run
<1> QED
  BY <1>3, <1>5, <1>8, <1>10, <1>11

LEMMA CurrentIs ==
  ASSUME IInv
  PROVE  /\ running \in Seq(Nat) /\ Len(running) \in Nat /\ Len(running) > 0
         /\ Current \in Nat /\ Current = running[Len(running)]
         /\ Current # MCB_FREE /\ Current # MCB_DOS /\ Current # FakePsp
         /\ Len(running) = 1 \/ (FirstMCB < Current /\ Holds(mcb, Current))
         /\ Len(running) = 1 => Current = FirstShell
<1>1. /\ running \in Seq(Nat) /\ Len(running) \in Nat /\ Len(running) > 0
      /\ running[1] = FirstShell
      /\ \A i \in 2..Len(running) : FirstMCB < running[i] /\ Holds(mcb, running[i])
  BY DEF IInv, Run
<1>2. PICK k \in Nat : k = Len(running) /\ k > 0
  BY <1>1
<1>3. k = 1 \/ k \in 2..k
  BY <1>2
<1>4. Current \in Nat /\ Current = running[k]
  BY <1>1, <1>2 DEF Current
<1>5. k = 1 => Current = FirstShell
  BY <1>1, <1>4
<1>6. k = 1 \/ (FirstMCB < Current /\ Holds(mcb, Current))
  BY <1>1, <1>2, <1>3, <1>4
<1>7. Current # MCB_FREE /\ Current # MCB_DOS /\ Current # FakePsp
  BY <1>4, <1>5, <1>6, Numbers
<1> QED
  BY <1>1, <1>2, <1>4, <1>5, <1>6, <1>7

\* The owners whose blocks a call of the current process may change.
Changing == {MCB_FREE, FakePsp, Current}

\* What a step keeps: the invariant, and what other processes own.
Good == IInv' /\ Others(mcb, mcb', Changing)

\* A call that touches only blocks of Changing, and not the program's own.
LEMMA CallIsGood ==
  ASSUME IInv, NEW n, mcb' = n, NEW k \in BOOLEAN, linked' = k, k => HasUmb, Layout(n, k),
         strategy' \in Strategies, stopped' \in BOOLEAN, running' = running,
         Keeps(mcb, n, Changing), Adds(mcb, n, Changing),
         StayOwned(mcb, n) \/ Len(running) = 1 \/ Holds(n, Current)
  PROVE  Good
<1>1. Layout(mcb, linked) /\ linked \in BOOLEAN /\ Sys(mcb) /\ Run(mcb, running) /\ Owners(mcb)
  BY DEF IInv
<1>2. Len(running) = 1 \/ Holds(n, Current)
  BY CurrentIs DEF StayOwned, Holds, Free
<1>3. Keeps(mcb, n, {MCB_FREE, FakePsp, Current}) /\ Adds(mcb, n, {MCB_FREE, FakePsp, Current})
  BY DEF Changing
<1>4. Current = running[Len(running)]
  BY DEF Current
<1>5. Sys(n) /\ Owners(n) /\ Others(mcb, n, {MCB_FREE, FakePsp, Current}) /\ Run(n, running)
  BY <1>1, <1>2, <1>3, <1>4, MemStep
<1> QED
  BY <1>5 DEF Good, IInv, Changing

\* What every request leaves, granted or not.
Allocated(m, r, l, want, p) ==
  /\ Layout(r.mcb, l) /\ Sys(r.mcb) /\ r.size \in Nat
  /\ Keeps(m, r.mcb, {MCB_FREE}) /\ Adds(m, r.mcb, {MCB_FREE, p})
  /\ r.ok => /\ r.size = want /\ r.seg \in DOMAIN r.mcb /\ FirstMCB < r.seg
             /\ r.mcb[r.seg].psp = p /\ r.mcb[r.seg].size = want
             /\ r.seg \in DOMAIN m => Free(m, r.seg)

LEMMA BigSizeIs ==
  ASSUME NEW m, NEW l \in BOOLEAN, Layout(m, l), NEW s \in Seq(DOMAIN m)
  PROVE  /\ BigSize(m, s) \in Nat
         /\ \A k \in DOMAIN s : Free(m, s[k]) => m[s[k]].size <= BigSize(m, s)
         /\ BigSize(m, s) # 0 => \E k \in DOMAIN s : Free(m, s[k]) /\ m[s[k]].size = BigSize(m, s)
<1> DEFINE S == {0} \cup {m[s[k]].size : k \in {j \in DOMAIN s : Free(m, s[j])}}
<1>1. \A k \in DOMAIN s : s[k] \in DOMAIN m
  OBVIOUS
<1>2. \A x \in DOMAIN m : m[x].size \in Nat /\ m[x].size <= Top
  <2> TAKE x \in DOMAIN m
  <2>1. m[x].size \in Nat /\ x \in Nat /\ Next0(m, x) <= Top /\ Top \in Nat
    BY NextIs, Bounds
  <2> QED
    BY <2>1 DEF Next0
<1>3. S \in SUBSET (0..Top) /\ S # {} /\ Top \in Nat
  BY <1>1, <1>2, Bounds
<1>4. \E n \in S : \A i \in S : i <= n
  <2> HIDE DEF S
  <2> QED
    BY <1>3, Greatest
<1>5. PICK n : n = BigSize(m, s)
  OBVIOUS
<1>6. n = CHOOSE i \in S : \A j \in S : j <= i
  BY <1>5 DEF BigSize
<1>7. n \in S /\ \A i \in S : i <= n
  <2> HIDE DEF S
  <2> QED
    BY <1>4, <1>6
<1>8. n \in Nat
  <2> HIDE DEF S
  <2> QED
    BY <1>3, <1>7
<1> QED
  BY <1>5, <1>7, <1>8

LEMMA AllocateKeeps ==
  ASSUME NEW m, NEW l \in BOOLEAN, Layout(m, l), Sys(m), NEW strat \in Strategies,
         NEW want \in Nat, NEW p \in Nat, NEW r, r = DOS_AllocateMemory(m, strat, want, p)
  PROVE  Allocated(m, r, l, want, p)
<1>1. PICK c : c = DOS_CompressMemory(m)
  OBVIOUS
<1>2. PICK s : s = Searched(c, strat)
  OBVIOUS
<1>3. PICK K : K = Fitting(c, s, want)
  OBVIOUS
<1>4. /\ Layout(c, l) /\ Sys(c) /\ SameOwned(m, c)
      /\ \A x \in DOMAIN c : x \in DOMAIN m /\ c[x].psp = m[x].psp
  BY <1>1, CompressIs, CompressedKeeps
<1>5. Keeps(m, c, {MCB_FREE}) /\ Adds(m, c, {MCB_FREE})
  BY <1>4, SameOwnedKeeps
<1>6. /\ K = {} => ~r.ok /\ r.mcb = c /\ r.size = BigSize(c, s)
      /\ K # {} => Success(c, l, s, K, want, p, r)
  BY <1>1, <1>2, <1>3, AllocIs
<1>7. s \in Seq(DOMAIN c)
  BY <1>2, <1>4, SearchedIs
<1>8. CASE K = {}
  <2>1. Adds(m, c, {MCB_FREE, p})
    BY <1>5 DEF Adds
  <2>2. BigSize(c, s) \in Nat
    BY <1>4, <1>7, BigSizeIs
  <2> QED
    BY <1>4, <1>5, <1>6, <1>8, <2>1, <2>2 DEF Allocated
<1>9. CASE K # {}
  <2>1. r.ok /\ r.size = want /\ Layout(r.mcb, l)
    BY <1>6, <1>9 DEF Success
  <2>2. PICK b : Granted(c, r.mcb, want, p, b, r.seg)
    BY <1>6, <1>9 DEF Success
  <2>3. /\ b \in DOMAIN c /\ Free(c, b) /\ b <= r.seg /\ r.seg \in Nat
        /\ r.seg \in DOMAIN r.mcb /\ r.mcb[r.seg].psp = p /\ r.mcb[r.seg].size = want
        /\ Keeps(c, r.mcb, {MCB_FREE}) /\ Adds(c, r.mcb, {MCB_FREE, p})
        /\ r.seg \in DOMAIN c => r.seg = b
    BY <2>2 DEF Granted
  <2>4. Keeps(m, r.mcb, {MCB_FREE})
    BY <1>5, <2>3, KeepsOn
  <2>5. Adds(m, r.mcb, {MCB_FREE, p})
    BY <1>5, <2>3 DEF Adds
  <2>6. FirstMCB < r.seg
    <3>1. b # FirstMCB
      BY <1>4, <2>3, Numbers DEF Sys, Free
    <3>2. b \in Nat /\ FirstMCB <= b /\ FirstMCB \in Nat
      BY <1>4, <2>3, NextIs, Bounds
    <3> QED
      BY <2>3, <3>1, <3>2
  <2>7. r.seg \in DOMAIN m => Free(m, r.seg)
    BY <1>4, <2>3 DEF SameOwned, Free
  <2>8. Sys(r.mcb)
    <3>1. FirstMCB \in DOMAIN c /\ (HasUmb => U \in DOMAIN c)
      BY <1>4 DEF Layout
    <3>2. MCB_DOS \notin {MCB_FREE}
      BY Numbers
    <3> QED
      BY <1>4, <2>3, <3>1, <3>2 DEF Sys, Keeps
  <2> QED
    BY <2>1, <2>3, <2>4, <2>5, <2>6, <2>7, <2>8 DEF Allocated
<1> QED
  BY <1>8, <1>9

-----------------------------------------------------------------------------
(* The steps *)

LEMMA AllocateIsGood ==
  ASSUME IInv, NEW want \in Wants, Allocate(want)
  PROVE  Good
<1>1. PICK r : r = DOS_AllocateMemory(mcb, strategy, want, Current)
  OBVIOUS
<1>2. mcb' = r.mcb /\ UNCHANGED <<linked, strategy, running, stopped>>
  BY <1>1 DEF Allocate
<1>3. want \in Nat
  BY DosMemoryAssumption
<1>4. Allocated(mcb, r, linked, want, Current)
  BY <1>1, <1>3, CurrentIs, AllocateKeeps DEF IInv
<1>5. /\ Layout(r.mcb, linked) /\ Keeps(mcb, r.mcb, {MCB_FREE})
      /\ Adds(mcb, r.mcb, {MCB_FREE, Current})
  BY <1>4 DEF Allocated
<1>6. Keeps(mcb, r.mcb, Changing) /\ Adds(mcb, r.mcb, Changing) /\ StayOwned(mcb, r.mcb)
  BY <1>5, KeepsOwned DEF Changing, Keeps, Adds
<1> QED
  BY <1>2, <1>5, <1>6, CallIsGood DEF IInv

LEMMA ResizeIsGood ==
  ASSUME IInv, NEW seg \in DOMAIN mcb, NEW want \in Wants, Resize(seg, want)
  PROVE  Good
<1>1. PICK n : n = DOS_ResizeMemory(mcb, seg, want, Current)
  OBVIOUS
<1>2. mcb' = n /\ UNCHANGED <<linked, strategy, running, stopped>> /\ mcb[seg].psp = Current
  BY <1>1 DEF Resize, Own
<1>3. want \in Nat
  BY DosMemoryAssumption
<1>4. Resized(mcb, n, linked, seg, Current)
  BY <1>1, <1>2, <1>3, CurrentIs, ResizeIs DEF IInv
<1>5. /\ Layout(n, linked) /\ StayOwned(mcb, n)
      /\ Keeps(mcb, n, {MCB_FREE, Current}) /\ Adds(mcb, n, {MCB_FREE, Current})
  BY <1>4 DEF Resized, Only
<1>6. Keeps(mcb, n, Changing) /\ Adds(mcb, n, Changing)
  BY <1>5 DEF Changing, Keeps, Adds
<1> QED
  BY <1>2, <1>5, <1>6, CallIsGood DEF IInv

LEMMA FreeBlockIsGood ==
  ASSUME IInv, NEW seg \in DOMAIN mcb, FreeBlock(seg)
  PROVE  Good
<1>1. PICK n : n = DOS_FreeMemory(mcb, seg)
  OBVIOUS
<1>2. /\ mcb' = n /\ UNCHANGED <<linked, strategy, running, stopped>>
      /\ mcb[seg].psp = Current /\ seg + 1 # Current
  BY <1>1 DEF FreeBlock, Own
<1>3. /\ Layout(n, linked) /\ DOMAIN n = DOMAIN mcb /\ n[seg].psp = MCB_FREE
      /\ \A s \in DOMAIN mcb : s # seg => n[s] = mcb[s]
  BY <1>1, FreeIs DEF IInv
<1>4. Keeps(mcb, n, Changing) /\ Adds(mcb, n, Changing)
  BY <1>2, <1>3 DEF Changing, Keeps, Adds
<1>5. Len(running) = 1 \/ Holds(n, Current)
  <2>1. CASE Len(running) = 1
    BY <2>1
  <2>2. CASE Holds(mcb, Current)
    <3>1. seg \in Nat /\ Current \in Nat
      BY CurrentIs, NextIs DEF IInv
    <3>2. Current - 1 # seg
      BY <1>2, <3>1
    <3> QED
      BY <1>3, <2>2, <3>2 DEF Holds
  <2> QED
    BY <2>1, <2>2, CurrentIs
<1> QED
  BY <1>2, <1>3, <1>4, <1>5, CallIsGood DEF IInv

LEMMA SetStrategyIsGood ==
  ASSUME IInv, NEW s \in Strategies, SetStrategy(s)
  PROVE  Good
<1>1. PICK n : n = mcb
  OBVIOUS
<1>2. mcb' = n /\ UNCHANGED <<linked, running, stopped>> /\ strategy' = s
  BY <1>1 DEF SetStrategy
<1>3. Layout(n, linked) /\ Keeps(mcb, n, Changing) /\ Adds(mcb, n, Changing) /\ StayOwned(mcb, n)
  BY <1>1 DEF IInv, Keeps, Adds, StayOwned
<1> QED
  BY <1>2, <1>3, CallIsGood DEF IInv

LEMMA LinkIsGood ==
  ASSUME IInv, LinkUmbs
  PROVE  Good
<1>1. PICK k \in BOOLEAN : k <=> ~linked
  OBVIOUS
<1>2. PICK n : n = SetEnd(mcb, IF k THEN "M" ELSE "Z")
  OBVIOUS
<1>3. linked' = k /\ mcb' = n /\ UNCHANGED <<strategy, running, stopped>> /\ HasUmb
  <2>1. linked \in BOOLEAN
    BY DEF IInv
  <2>2. (IF ~linked THEN "M" ELSE "Z") = (IF k THEN "M" ELSE "Z")
    BY <1>1
  <2>3. mcb' = n
    BY <1>2, <2>2 DEF LinkUmbs, DOS_LinkUMBsToMemChain
  <2> QED
    BY <1>1, <2>1, <2>3 DEF LinkUmbs
<1>4. /\ Layout(n, k) /\ DOMAIN n = DOMAIN mcb
      /\ \A s \in DOMAIN mcb : n[s].psp = mcb[s].psp /\ n[s].size = mcb[s].size
  BY <1>1, <1>2, <1>3, LinkIs DEF IInv
<1>5. Keeps(mcb, n, Changing) /\ Adds(mcb, n, Changing) /\ StayOwned(mcb, n)
  BY <1>4 DEF Keeps, Adds, StayOwned
<1> QED
  BY <1>3, <1>4, <1>5, CallIsGood DEF IInv

LEMMA XmsIsGood ==
  ASSUME IInv, NEW want \in Wants, XMS_AllocateUMB(want)
  PROVE  Good
<1>1. PICK j : j = IF linked THEN mcb ELSE DOS_LinkUMBsToMemChain(mcb, TRUE)
  OBVIOUS
<1>2. PICK r : r = DOS_AllocateMemory(j, UmbOnly, want, Current)
  OBVIOUS
<1>3. PICK n : n = RestoreLink(r.mcb)
  OBVIOUS
<1>4. mcb' = n /\ UNCHANGED <<linked, strategy, running, stopped>> /\ HasUmb
  BY <1>1, <1>2, <1>3 DEF XMS_AllocateUMB
<1>5. PICK up \in BOOLEAN : up
  OBVIOUS
<1>6. want \in Nat /\ UmbOnly \in Strategies
  BY DosMemoryAssumption DEF UmbOnly, Strategies, Fits, Places
<1>7. /\ Layout(j, up) /\ Sys(j) /\ DOMAIN j = DOMAIN mcb
      /\ \A s \in DOMAIN mcb : j[s].psp = mcb[s].psp /\ j[s].size = mcb[s].size
  <2>1. CASE linked
    <3>1. j = mcb /\ up = linked
      BY <1>1, <1>5, <2>1 DEF IInv
    <3> QED
      BY <3>1 DEF IInv
  <2>2. CASE ~linked
    <3>1. j = SetEnd(mcb, IF up THEN "M" ELSE "Z")
      BY <1>1, <1>5, <2>2 DEF DOS_LinkUMBsToMemChain
    <3>2. /\ Layout(j, up) /\ DOMAIN j = DOMAIN mcb
          /\ \A s \in DOMAIN mcb : j[s].psp = mcb[s].psp /\ j[s].size = mcb[s].size
      <4>1. linked \in BOOLEAN /\ Layout(mcb, linked)
        BY DEF IInv
      <4>2. up <=> ~linked
        BY <1>5, <2>2
      <4> QED
        BY <1>4, <3>1, <4>1, <4>2, LinkIs
    <3>3. FirstMCB \in DOMAIN mcb /\ (HasUmb => U \in DOMAIN mcb) /\ Sys(mcb)
      BY DEF IInv, Layout
    <3> QED
      BY <3>2, <3>3 DEF Sys
  <2> QED
    BY <2>1, <2>2
<1>8. Allocated(j, r, up, want, Current)
  BY <1>2, <1>6, <1>7, CurrentIs, AllocateKeeps
<1>9. /\ Layout(r.mcb, up) /\ Keeps(j, r.mcb, {MCB_FREE})
      /\ Adds(j, r.mcb, {MCB_FREE, Current})
  BY <1>8 DEF Allocated
<1>10. /\ Layout(n, linked) /\ DOMAIN n = DOMAIN r.mcb
       /\ \A s \in DOMAIN r.mcb : n[s].psp = r.mcb[s].psp /\ n[s].size = r.mcb[s].size
  <2>1. CASE linked
    <3>1. n = r.mcb /\ up = linked
      BY <1>3, <1>5, <2>1 DEF RestoreLink, IInv
    <3> QED
      BY <1>9, <3>1
  <2>2. CASE ~linked
    <3>1. PICK m : m = r.mcb
      OBVIOUS
    <3>2. n = SetEnd(m, IF linked THEN "M" ELSE "Z")
      BY <1>3, <2>2, <3>1 DEF RestoreLink, DOS_LinkUMBsToMemChain
    <3>3. linked \in BOOLEAN /\ (linked <=> ~up) /\ Layout(m, up)
      BY <1>5, <1>9, <2>2, <3>1 DEF IInv
    <3>4. /\ Layout(n, linked) /\ DOMAIN n = DOMAIN m
          /\ \A s \in DOMAIN m : n[s].psp = m[s].psp /\ n[s].size = m[s].size
      BY <1>4, <3>2, <3>3, LinkIs
    <3> QED
      BY <3>1, <3>4
  <2> QED
    BY <2>1, <2>2
<1>11. Keeps(mcb, n, {MCB_FREE}) /\ Adds(mcb, n, {MCB_FREE, Current})
  BY <1>7, <1>9, <1>10 DEF Keeps, Adds
<1>12. Keeps(mcb, n, Changing) /\ Adds(mcb, n, Changing) /\ StayOwned(mcb, n)
  BY <1>11, KeepsOwned DEF Changing, Keeps, Adds
<1> QED
  BY <1>4, <1>10, <1>12, CallIsGood DEF IInv

LEMMA TerminateIsGood ==
  ASSUME IInv, Terminate
  PROVE  Good
<1>1. PICK n : n = DOS_FreeProcessMemory(mcb, Current)
  OBVIOUS
<1>2. /\ mcb' = n /\ running' = Front(running) /\ UNCHANGED <<linked, strategy, stopped>>
      /\ Len(running) > 1
  BY <1>1 DEF Terminate
<1>3. /\ Layout(mcb, linked) /\ linked \in BOOLEAN /\ Sys(mcb) /\ Run(mcb, running)
      /\ Owners(mcb) /\ (linked => HasUmb)
  BY DEF IInv
<1>4. /\ Layout(n, linked) /\ Keeps(mcb, n, {MCB_FREE, Current}) /\ Adds(mcb, n, {MCB_FREE})
      /\ \A s \in DOMAIN n : n[s].psp # Current
  BY <1>1, <1>3, CurrentIs, FreeProcessIs
<1>5. /\ Keeps(mcb, n, {MCB_FREE, FakePsp, Current})
      /\ Adds(mcb, n, {MCB_FREE, FakePsp, Current})
  BY <1>4 DEF Keeps, Adds
<1>6. Current = running[Len(running)]
  BY DEF Current
<1>7. /\ Sys(n) /\ Owners(n) /\ Others(mcb, n, {MCB_FREE, FakePsp, Current})
      /\ Run(n, Front(running))
  BY <1>2, <1>3, <1>4, <1>5, <1>6, MemStep
<1> QED
  BY <1>2, <1>4, <1>7 DEF Good, IInv, Changing

LEMMA StayResidentIsGood ==
  ASSUME IInv, NEW keep \in Wants, StayResident(keep)
  PROVE  Good
<1>1. PICK n : n = DOS_ResizeMemory(mcb, Current - 1, keep, Current)
  OBVIOUS
<1>2. /\ mcb' = n /\ running' = Front(running) /\ UNCHANGED <<linked, strategy, stopped>>
      /\ Len(running) > 1
  BY <1>1 DEF StayResident
<1>3. /\ Layout(mcb, linked) /\ linked \in BOOLEAN /\ Sys(mcb) /\ Run(mcb, running)
      /\ Owners(mcb)
  BY DEF IInv
<1>4. keep \in Nat
  BY DosMemoryAssumption
<1>5. Holds(mcb, Current)
  BY <1>2, CurrentIs
<1>6. PICK seg \in DOMAIN mcb : seg = Current - 1 /\ mcb[seg].psp = Current
  BY <1>5 DEF Holds
<1>7. Resized(mcb, n, linked, seg, Current)
  BY <1>1, <1>3, <1>4, <1>6, CurrentIs, ResizeIs
<1>8. /\ Layout(n, linked) /\ StayOwned(mcb, n)
      /\ Keeps(mcb, n, {MCB_FREE, Current}) /\ Adds(mcb, n, {MCB_FREE, Current})
  BY <1>7 DEF Resized, Only
<1>9. /\ Keeps(mcb, n, {MCB_FREE, FakePsp, Current})
      /\ Adds(mcb, n, {MCB_FREE, FakePsp, Current})
  BY <1>8 DEF Keeps, Adds
<1>10. Holds(n, Current)
  BY <1>5, <1>8, CurrentIs DEF Holds, StayOwned, Free
<1>11. Current = running[Len(running)]
  BY DEF Current
<1>12. /\ Sys(n) /\ Owners(n) /\ Others(mcb, n, {MCB_FREE, FakePsp, Current})
       /\ Run(n, Front(running))
  BY <1>2, <1>3, <1>9, <1>10, <1>11, MemStep
<1> QED
  BY <1>2, <1>8, <1>12 DEF Good, IInv, Changing

LEMMA RemoveLockIsGood ==
  ASSUME IInv, RemoveLock
  PROVE  Good
<1>1. PICK n : n = DOS_FreeProcessMemory(mcb, FakePsp)
  OBVIOUS
<1>2. mcb' = n /\ UNCHANGED <<linked, strategy, running, stopped>>
  BY <1>1 DEF RemoveLock
<1>3. FakePsp # MCB_DOS
  BY Numbers
<1>4. /\ Layout(n, linked) /\ Keeps(mcb, n, {MCB_FREE, FakePsp}) /\ Adds(mcb, n, {MCB_FREE})
  BY <1>1, <1>3, FreeProcessIs DEF IInv
<1>5. Keeps(mcb, n, Changing) /\ Adds(mcb, n, Changing)
  BY <1>4 DEF Changing, Keeps, Adds
<1>6. Len(running) = 1 \/ Holds(n, Current)
  <2>1. ASSUME Holds(mcb, Current)
        PROVE  Holds(n, Current)
    BY <1>4, <2>1, CurrentIs DEF Holds, Keeps
  <2> QED
    BY <2>1, CurrentIs
<1> QED
  BY <1>2, <1>4, <1>5, <1>6, CallIsGood DEF IInv

\* The program that is started gets two new blocks and every other keeps its.
LEMMA ExecuteIsGood ==
  ASSUME IInv, NEW minsize \in MinSizes, NEW maxsize \in MaxSizes, Execute(minsize, maxsize)
  PROVE  Good
<1>1. PICK env : env = DOS_AllocateMemory(mcb, strategy, EnvSize, Current)
  OBVIOUS
<1>2. PICK query : query = DOS_AllocateMemory(env.mcb, strategy, Whole, Current)
  OBVIOUS
<1>3. PICK size : size = MemSize(query.size, maxsize)
  OBVIOUS
<1>4. PICK prog : prog = DOS_AllocateMemory(query.mcb, strategy, size, Current)
  OBVIOUS
<1>5. /\ \/ /\ ~env.ok
            /\ mcb' = env.mcb
            /\ UNCHANGED <<running, stopped>>
         \/ /\ env.ok /\ query.size < minsize
            /\ mcb' = DOS_FreeMemory(query.mcb, env.seg)
            /\ UNCHANGED <<running, stopped>>
         \/ /\ env.ok /\ query.size >= minsize /\ prog.ok
            /\ mcb' = SetOwner(prog.mcb, {env.seg, prog.seg}, prog.seg + 1)
            /\ running' = Append(running, prog.seg + 1)
            /\ UNCHANGED stopped
         \/ /\ env.ok /\ query.size >= minsize /\ ~prog.ok
            /\ mcb' = prog.mcb
            /\ stopped' = TRUE
            /\ UNCHANGED running
      /\ UNCHANGED <<linked, strategy>>
  BY <1>1, <1>2, <1>3, <1>4 DEF Execute
<1>6. /\ EnvSize \in Nat /\ Whole \in Nat /\ maxsize \in Nat
  BY DosMemoryAssumption, McbAssumption DEF Whole
<1>7. /\ Layout(mcb, linked) /\ linked \in BOOLEAN /\ Sys(mcb) /\ Run(mcb, running)
      /\ Owners(mcb) /\ (linked => HasUmb) /\ strategy \in Strategies /\ stopped \in BOOLEAN
  BY DEF IInv
<1>8. Allocated(mcb, env, linked, EnvSize, Current)
  BY <1>1, <1>6, <1>7, CurrentIs, AllocateKeeps
<1>9. Layout(env.mcb, linked) /\ Sys(env.mcb)
  BY <1>8 DEF Allocated
<1>10. Allocated(env.mcb, query, linked, Whole, Current)
  BY <1>2, <1>6, <1>7, <1>9, CurrentIs, AllocateKeeps
<1>11. Layout(query.mcb, linked) /\ Sys(query.mcb) /\ query.size \in Nat
  BY <1>10 DEF Allocated
<1>12. size \in Nat
  BY <1>3, <1>6, <1>11 DEF MemSize
<1>13. Allocated(query.mcb, prog, linked, size, Current)
  BY <1>4, <1>7, <1>11, <1>12, CurrentIs, AllocateKeeps
<1>14. /\ Layout(prog.mcb, linked)
       /\ Keeps(mcb, env.mcb, {MCB_FREE}) /\ Adds(mcb, env.mcb, {MCB_FREE, Current})
       /\ Keeps(env.mcb, query.mcb, {MCB_FREE}) /\ Adds(env.mcb, query.mcb, {MCB_FREE, Current})
       /\ Keeps(query.mcb, prog.mcb, {MCB_FREE}) /\ Adds(query.mcb, prog.mcb, {MCB_FREE, Current})
  BY <1>8, <1>10, <1>13 DEF Allocated
<1>15. Keeps(mcb, query.mcb, {MCB_FREE}) /\ Adds(mcb, query.mcb, {MCB_FREE, Current})
  BY <1>14, KeepsOn, AddsOn
<1>16. Keeps(mcb, prog.mcb, {MCB_FREE}) /\ Adds(mcb, prog.mcb, {MCB_FREE, Current})
  BY <1>14, <1>15, KeepsOn, AddsOn
<1>17. ASSUME NEW n, Layout(n, linked), mcb' = n, running' = running,
              stopped' \in BOOLEAN, Keeps(mcb, n, {MCB_FREE}), Adds(mcb, n, {MCB_FREE, Current})
       PROVE  Good
  <2>1. Keeps(mcb, n, Changing) /\ Adds(mcb, n, Changing) /\ StayOwned(mcb, n)
    BY <1>17, KeepsOwned DEF Changing, Keeps, Adds
  <2> QED
    BY <1>5, <1>7, <1>17, <2>1, CallIsGood
<1>18. CASE ~env.ok /\ mcb' = env.mcb /\ UNCHANGED <<running, stopped>>
  <2>1. PICK n : n = env.mcb
    OBVIOUS
  <2> QED
    BY <1>7, <1>9, <1>14, <1>17, <1>18, <2>1
<1>19. CASE mcb' = prog.mcb /\ stopped' = TRUE /\ UNCHANGED running
  <2>1. PICK n : n = prog.mcb
    OBVIOUS
  <2> QED
    BY <1>14, <1>16, <1>17, <1>19, <2>1
<1>20. ASSUME env.ok
       PROVE  /\ env.seg \in DOMAIN query.mcb /\ query.mcb[env.seg].psp = Current
              /\ env.seg \in DOMAIN prog.mcb /\ prog.mcb[env.seg].psp = Current
              /\ env.seg \in DOMAIN mcb => Free(mcb, env.seg)
  <2>1. /\ env.seg \in DOMAIN env.mcb /\ env.mcb[env.seg].psp = Current
        /\ env.seg \in DOMAIN mcb => Free(mcb, env.seg)
    BY <1>8, <1>20 DEF Allocated
  <2>2. Current \notin {MCB_FREE}
    BY CurrentIs
  <2> QED
    BY <1>14, <2>1, <2>2 DEF Keeps
<1>21. CASE /\ env.ok /\ mcb' = DOS_FreeMemory(query.mcb, env.seg)
            /\ UNCHANGED <<running, stopped>>
  <2>1. PICK q : q = query.mcb
    OBVIOUS
  <2>2. PICK n : n = DOS_FreeMemory(q, env.seg)
    OBVIOUS
  <2>3. env.seg \in DOMAIN q /\ q[env.seg].psp = Current
    BY <1>20, <1>21, <2>1
  <2>4. /\ Layout(n, linked) /\ DOMAIN n = DOMAIN q /\ n[env.seg].psp = MCB_FREE
        /\ \A s \in DOMAIN q : s # env.seg => n[s] = q[s]
    BY <1>7, <1>11, <2>1, <2>2, <2>3, FreeIs
  <2>5. Keeps(q, n, Changing) /\ Adds(q, n, Changing)
    BY <2>3, <2>4 DEF Keeps, Adds, Changing
  <2>6. Keeps(mcb, n, Changing) /\ Adds(mcb, n, Changing)
    BY <1>15, <2>1, <2>5 DEF Keeps, Adds, Changing
  <2>7. Len(running) = 1 \/ Holds(n, Current)
    <3>1. ASSUME Holds(mcb, Current)
          PROVE  Holds(n, Current)
      <4>1. ~Free(mcb, Current - 1) /\ Current - 1 \in DOMAIN mcb /\ mcb[Current - 1].psp = Current
        BY <3>1, CurrentIs DEF Holds, Free
      <4>2. Current - 1 # env.seg
        BY <1>20, <1>21, <4>1
      <4>3. Current - 1 \in DOMAIN q /\ q[Current - 1].psp = Current
        BY <1>15, <2>1, <4>1 DEF Keeps, Free
      <4> QED
        BY <2>4, <4>2, <4>3 DEF Holds
    <3> QED
      BY <3>1, CurrentIs
  <2> QED
    BY <1>5, <1>7, <1>21, <2>1, <2>2, <2>4, <2>6, <2>7, CallIsGood
<1>22. CASE /\ env.ok /\ prog.ok
            /\ mcb' = SetOwner(prog.mcb, {env.seg, prog.seg}, prog.seg + 1)
            /\ running' = Append(running, prog.seg + 1)
            /\ UNCHANGED stopped
  <2>1. PICK m : m = prog.mcb
    OBVIOUS
  <2>2. /\ prog.seg \in DOMAIN m /\ FirstMCB < prog.seg
        /\ prog.seg \in DOMAIN query.mcb => Free(query.mcb, prog.seg)
    BY <1>13, <1>22, <2>1 DEF Allocated
  <2>3. prog.seg \in Nat /\ Layout(m, linked)
    BY <1>7, <1>14, <2>1, <2>2, NextIs
  <2>4. PICK child \in Nat : child = prog.seg + 1 /\ child > FirstMCB /\ child - 1 = prog.seg
    BY <2>2, <2>3, Numbers
  <2>5. PICK new : new = {env.seg, prog.seg}
    OBVIOUS
  <2>6. PICK n : n = SetOwner(m, new, child)
    OBVIOUS
  <2>7. mcb' = n /\ running' = Append(running, child)
    BY <1>22, <2>1, <2>4, <2>5, <2>6
  <2>8. new \subseteq DOMAIN m /\ prog.seg \in new
    BY <1>20, <1>22, <2>1, <2>2, <2>5
  <2>9. \A s \in DOMAIN mcb : ~Free(mcb, s) => s \notin new
    <3>1. \A s \in DOMAIN mcb : ~Free(mcb, s) => s # env.seg
      BY <1>20, <1>22
    <3>2. \A s \in DOMAIN mcb : ~Free(mcb, s) => s \in DOMAIN query.mcb /\ ~Free(query.mcb, s)
      BY <1>15 DEF Keeps, Free
    <3> QED
      BY <2>2, <2>5, <3>1, <3>2
  <2>10. Keeps(mcb, m, {MCB_FREE}) /\ Adds(mcb, m, {MCB_FREE, Current})
    BY <1>16, <2>1
  <2>11. /\ DOMAIN n = DOMAIN m /\ n = [s \in DOMAIN n |-> n[s]]
         /\ \A s \in DOMAIN m : s \notin new => n[s] = m[s]
         /\ \A s \in DOMAIN m : s \in new => n[s] = [m[s] EXCEPT !.psp = child]
    BY <2>6 DEF SetOwner
  <2>12. \A s \in DOMAIN m : Record(m[s])
    BY <2>3 DEF Layout, Record
  <2>13. \A s \in DOMAIN m : s \in new => /\ Record(n[s]) /\ n[s].psp = child
                                          /\ n[s].type = m[s].type /\ n[s].size = m[s].size
    BY <2>11, <2>12 DEF Record
  <2>14. Reowned(m, n)
    BY <2>11, <2>12, <2>13 DEF Reowned
  <2>15. Layout(n, linked)
    BY <1>7, <2>3, <2>14, ReownedLayout
  <2>16. \A s \in DOMAIN mcb : ~Free(mcb, s) =>
           s \in DOMAIN n /\ n[s].psp = mcb[s].psp /\ n[s].size = mcb[s].size
    BY <2>9, <2>10, <2>11 DEF Keeps, Free
  <2>17. \A s \in DOMAIN n : \/ n[s].psp = child
                             \/ n[s].psp \in {MCB_FREE, Current}
                             \/ s \in DOMAIN mcb /\ mcb[s].psp = n[s].psp
    BY <2>10, <2>11, <2>13 DEF Adds
  <2>18. ASSUME NEW x \in Nat, x # MCB_FREE, Holds(mcb, x)
         PROVE  Holds(n, x) /\ x # child
    <3>1. x - 1 \in DOMAIN mcb /\ mcb[x - 1].psp = x /\ ~Free(mcb, x - 1)
      BY <2>18 DEF Holds, Free
    <3>2. x - 1 # prog.seg
      BY <2>8, <2>9, <3>1
    <3> QED
      BY <2>4, <2>16, <3>1, <3>2 DEF Holds
  <2>19. Holds(n, child)
    BY <2>4, <2>8, <2>11, <2>13 DEF Holds
  <2>20. child \notin {MCB_FREE, MCB_DOS, FakePsp, FirstShell}
    BY <2>4, Numbers
  <2>21. Sys(n)
    <3>1. FirstMCB \in DOMAIN mcb /\ (HasUmb => U \in DOMAIN mcb)
      BY <1>7 DEF Layout
    <3>2. MCB_DOS # MCB_FREE
      BY Numbers
    <3> QED
      BY <1>7, <2>16, <3>1, <3>2 DEF Sys, Free
  <2>22. ASSUME NEW s \in DOMAIN n, n[s].psp \notin {MCB_FREE, MCB_DOS, FakePsp, FirstShell}
         PROVE  Holds(n, n[s].psp)
    <3>1. CASE n[s].psp = child
      BY <2>19, <3>1
    <3>2. CASE n[s].psp = Current
      BY <2>18, <2>22, <3>2, CurrentIs
    <3>3. CASE s \in DOMAIN mcb /\ mcb[s].psp = n[s].psp
      <4>1. Holds(mcb, n[s].psp) /\ n[s].psp \in Nat
        BY <1>7, <2>22, <3>3, NextIs DEF Owners
      <4> QED
        BY <2>18, <2>22, <4>1
    <3> QED
      BY <2>17, <2>22, <3>1, <3>2, <3>3
  <2>23. Owners(n)
    BY <2>22 DEF Owners
  <2>24. Run(n, Append(running, child))
    <3>1. PICK r : r = Append(running, child)
      OBVIOUS
    <3>2. PICK k \in Nat : k = Len(running) /\ k > 0
      BY CurrentIs
    <3>3. /\ running \in Seq(Nat) /\ running[1] = FirstShell
          /\ \A i \in 2..k : FirstMCB < running[i] /\ Holds(mcb, running[i])
          /\ \A i, j \in 1..k : running[i] = running[j] => i = j
      BY <1>7, <3>2 DEF Run
    <3>4. \A i \in 1..k : running[i] \in Nat
      BY <3>2, <3>3
    <3>5. /\ r \in Seq(Nat) /\ Len(r) = k + 1 /\ r[k + 1] = child
          /\ \A i \in 1..k : r[i] = running[i]
      BY <3>1, <3>2, <3>3
    <3>6. ASSUME NEW i \in 1..k
          PROVE  running[i] # child
      <4>1. CASE i = 1
        BY <2>20, <3>3, <4>1
      <4>2. CASE i # 1
        <5>1. i \in 2..k
          BY <4>2
        <5>2. running[i] # MCB_FREE
          BY <3>3, <3>4, <5>1, Numbers
        <5> QED
          BY <2>18, <3>3, <3>4, <5>1, <5>2
      <4> QED
        BY <4>1, <4>2
    <3>7. ASSUME NEW i \in 2..(k + 1)
          PROVE  FirstMCB < r[i] /\ Holds(n, r[i])
      <4>1. CASE i = k + 1
        BY <2>4, <2>19, <3>5, <4>1, Numbers
      <4>2. CASE i # k + 1
        <5>1. i \in 2..k /\ i \in 1..k
          BY <3>2, <4>2
        <5>2. running[i] # MCB_FREE /\ r[i] = running[i] /\ running[i] \in Nat
          BY <3>3, <3>4, <3>5, <5>1, Numbers
        <5>3. FirstMCB < running[i] /\ Holds(mcb, running[i])
          BY <3>3, <5>1
        <5> QED
          BY <2>18, <5>2, <5>3
      <4> QED
        BY <4>1, <4>2
    <3>8. ASSUME NEW i \in 1..(k + 1), NEW j \in 1..(k + 1), r[i] = r[j]
          PROVE  i = j
      <4>1. (i \in 1..k \/ i = k + 1) /\ (j \in 1..k \/ j = k + 1)
        BY <3>2
      <4> QED
        BY <3>3, <3>5, <3>6, <3>8, <4>1
    <3>9. r[1] = FirstShell /\ Len(r) > 0
      <4>1. 1 \in 1..k /\ k + 1 > 0
        BY <3>2
      <4> QED
        BY <3>3, <3>5, <4>1
    <3> QED
      BY <3>1, <3>5, <3>7, <3>8, <3>9 DEF Run
  <2>25. IInv'
    BY <1>5, <1>7, <1>22, <2>7, <2>15, <2>21, <2>23, <2>24 DEF IInv
  <2>26. Others(mcb, n, Changing)
    <3>1. PICK P : P = Changing
      OBVIOUS
    <3>2. PICK Q : Q = {child}
      OBVIOUS
    <3>3. Keeps(mcb, n, P)
      BY <2>16, <3>1 DEF Keeps, Changing, Free
    <3>4. Adds(mcb, n, P \cup Q)
      BY <2>17, <3>1, <3>2 DEF Adds, Changing
    <3>5. \A s \in DOMAIN mcb : mcb[s].psp \notin Q
      <4> SUFFICES ASSUME NEW s \in DOMAIN mcb, mcb[s].psp = child
                   PROVE  FALSE
        BY <3>2
      <4>1. Holds(mcb, child)
        BY <1>7, <2>20 DEF Owners
      <4> QED
        BY <2>18, <2>20, <4>1
    <3> QED
      BY <3>1, <3>3, <3>4, <3>5, OthersStay
  <2> QED
    BY <2>7, <2>25, <2>26 DEF Good
<1> QED
  BY <1>5, <1>18, <1>19, <1>21, <1>22

-----------------------------------------------------------------------------
(* The first state *)

LEMMA LowIs ==
  \E gap, lock, rest \in Nat :
     /\ gap = FirstMCB + 2 /\ lock = gap + GapSize + 1 /\ rest = lock + LockSize + 1
     /\ rest < U - 1 /\ GapSize \in Nat /\ LockSize \in Nat
     /\ DOMAIN LowBlocks = {FirstMCB, gap, lock, rest}
     /\ LowBlocks[FirstMCB] = Block("M", MCB_DOS, 1)
     /\ LowBlocks[gap] = Block("M", MCB_FREE, GapSize)
     /\ LowBlocks[lock] = Block("M", FakePsp, LockSize)
     /\ LowBlocks[rest] = Block("Z", MCB_FREE, U - rest - 1)
     /\ LowBlocks = [s \in DOMAIN LowBlocks |-> LowBlocks[s]]
<1>1. /\ GapSize \in Nat /\ LockSize \in Nat /\ FirstMCB = 100 /\ U \in Nat
      /\ FirstMCB + 5 + GapSize + LockSize < U
  BY DosMemoryAssumption, McbAssumption, Bounds DEF U
<1>2. PICK gap \in Nat : gap = FirstMCB + 2
  BY <1>1
<1>3. PICK lock \in Nat : lock = gap + GapSize + 1
  BY <1>1, <1>2
<1>4. PICK rest \in Nat : rest = lock + LockSize + 1
  BY <1>1, <1>3
<1>5. FirstMCB < gap /\ gap < lock /\ lock < rest /\ rest < U - 1
  BY <1>1, <1>2, <1>3, <1>4
<1>6. PICK b : b = LowBlocks
  OBVIOUS
<1>7. b = [s \in {FirstMCB, gap, lock, rest} |->
             CASE s = FirstMCB -> Block("M", MCB_DOS, 1)
               [] s = gap -> Block("M", MCB_FREE, GapSize)
               [] s = lock -> Block("M", FakePsp, LockSize)
               [] s = rest -> Block("Z", MCB_FREE, UMB_START_SEG - rest - 1)]
  BY <1>2, <1>3, <1>4, <1>6 DEF LowBlocks
<1>8. /\ FirstMCB # gap /\ FirstMCB # lock /\ FirstMCB # rest
      /\ gap # lock /\ gap # rest /\ lock # rest
  BY <1>1, <1>5
<1>9. /\ DOMAIN b = {FirstMCB, gap, lock, rest}
      /\ b[FirstMCB] = Block("M", MCB_DOS, 1)
      /\ b[gap] = Block("M", MCB_FREE, GapSize)
      /\ b[lock] = Block("M", FakePsp, LockSize)
      /\ b[rest] = Block("Z", MCB_FREE, UMB_START_SEG - rest - 1)
      /\ b = [s \in DOMAIN b |-> b[s]]
  BY <1>7, <1>8
<1> QED
  BY <1>1, <1>2, <1>3, <1>4, <1>5, <1>6, <1>9 DEF U

LEMMA HighIs ==
  ASSUME HasUmb
  PROVE  \E umb \in Nat :
           /\ umb = U + CoverSize + 1 /\ umb < LastSeg /\ CoverSize \in Nat
           /\ DOMAIN HighBlocks = {U, umb}
           /\ HighBlocks[U] = Block("M", MCB_DOS, CoverSize)
           /\ HighBlocks[umb] = Block("Z", MCB_FREE, LastSeg - umb)
<1>1. CoverSize \in Nat /\ U \in Nat /\ LastSeg \in Nat /\ U + CoverSize + 1 < LastSeg
  BY DosMemoryAssumption, McbAssumption DEF U
<1>2. PICK umb \in Nat : umb = U + CoverSize + 1
  BY <1>1
<1>3. U # umb /\ umb < LastSeg
  BY <1>1, <1>2
<1>4. PICK b : b = HighBlocks
  OBVIOUS
<1>5. b = [s \in {U, umb} |->
             IF s = umb THEN Block("Z", MCB_FREE, LastSeg - umb)
             ELSE Block("M", MCB_DOS, CoverSize)]
  BY <1>2, <1>4 DEF HighBlocks, U
<1>6. /\ DOMAIN b = {U, umb} /\ b[U] = Block("M", MCB_DOS, CoverSize)
      /\ b[umb] = Block("Z", MCB_FREE, LastSeg - umb)
  BY <1>3, <1>5
<1> QED
  BY <1>1, <1>2, <1>3, <1>4, <1>6

LEMMA BlockIs ==
  ASSUME NEW ty \in {"M", "Z"}, NEW p \in Nat, NEW z \in Nat
  PROVE  /\ Record(Block(ty, p, z)) /\ Block(ty, p, z).type = ty
         /\ Block(ty, p, z).psp = p /\ Block(ty, p, z).size = z
BY DEF Record, Block

LEMMA PlacedIs ==
  ASSUME NEW m, NEW s \in Nat, NEW ty \in {"M", "Z"}, NEW p \in Nat, NEW z \in Nat,
         m[s] = Block(ty, p, z)
  PROVE  /\ Record(m[s]) /\ m[s].type = ty /\ m[s].psp = p
         /\ Next0(m, s) = s + z + 1
<1>1. /\ Record(m[s]) /\ m[s].type = ty /\ m[s].psp = p /\ m[s].size = z
  BY BlockIs
<1> QED
  BY <1>1 DEF Next0

LEMMA InitLayout ==
  ASSUME Init
  PROVE  Layout(mcb, linked) /\ Sys(mcb)
<1>1. PICK gap, lock, rest \in Nat :
        /\ gap = FirstMCB + 2 /\ lock = gap + GapSize + 1 /\ rest = lock + LockSize + 1
        /\ rest < U - 1 /\ GapSize \in Nat /\ LockSize \in Nat
        /\ DOMAIN LowBlocks = {FirstMCB, gap, lock, rest}
        /\ LowBlocks[FirstMCB] = Block("M", MCB_DOS, 1)
        /\ LowBlocks[gap] = Block("M", MCB_FREE, GapSize)
        /\ LowBlocks[lock] = Block("M", FakePsp, LockSize)
        /\ LowBlocks[rest] = Block("Z", MCB_FREE, U - rest - 1)
        /\ LowBlocks = [s \in DOMAIN LowBlocks |-> LowBlocks[s]]
  BY LowIs
<1>2. PICK m : m = mcb
  OBVIOUS
<1>3. /\ MCB_DOS = 8 /\ MCB_FREE = 0 /\ FakePsp = 64 /\ FirstMCB = 100 /\ U \in Nat
      /\ U - rest - 1 \in Nat /\ 1 \in Nat /\ MCB_DOS \in Nat /\ MCB_FREE \in Nat /\ FakePsp \in Nat
      /\ FirstMCB < gap /\ gap < lock /\ lock < rest /\ rest < U
  BY <1>1, Numbers, Bounds
<1>4. \E l \in BOOLEAN : l = linked /\ ~l
  BY DEF Init
<1>5. PICK l \in BOOLEAN : l = linked /\ ~l
  BY <1>4
<1>6. /\ FirstMCB \in DOMAIN m /\ gap \in DOMAIN m /\ lock \in DOMAIN m /\ rest \in DOMAIN m
      /\ m[FirstMCB] = Block("M", MCB_DOS, 1) /\ m[gap] = Block("M", MCB_FREE, GapSize)
      /\ m[lock] = Block("M", FakePsp, LockSize) /\ m[rest] = Block("Z", MCB_FREE, U - rest - 1)
      /\ m = [s \in DOMAIN m |-> m[s]]
      /\ IF HasUmb
         THEN \E umb \in Nat :
                /\ umb = U + CoverSize + 1 /\ umb < LastSeg /\ CoverSize \in Nat
                /\ DOMAIN m = {FirstMCB, gap, lock, rest, U, umb}
                /\ m[U] = Block("M", MCB_DOS, CoverSize)
                /\ m[umb] = Block("Z", MCB_FREE, LastSeg - umb)
         ELSE DOMAIN m = {FirstMCB, gap, lock, rest}
  <2>1. CASE HasUmb
    <3>1. PICK umb \in Nat :
            /\ umb = U + CoverSize + 1 /\ umb < LastSeg /\ CoverSize \in Nat
            /\ DOMAIN HighBlocks = {U, umb}
            /\ HighBlocks[U] = Block("M", MCB_DOS, CoverSize)
            /\ HighBlocks[umb] = Block("Z", MCB_FREE, LastSeg - umb)
      BY <2>1, HighIs
    <3>2. m = [s \in (DOMAIN LowBlocks \ {}) \cup DOMAIN HighBlocks |->
                 IF s \in DOMAIN HighBlocks THEN HighBlocks[s] ELSE LowBlocks[s]]
      BY <1>2, <2>1 DEF Init, With
    <3>3. m = [s \in {FirstMCB, gap, lock, rest} \cup {U, umb} |->
                 IF s \in {U, umb} THEN HighBlocks[s] ELSE LowBlocks[s]]
      BY <1>1, <3>1, <3>2
    <3>4. /\ FirstMCB \notin {U, umb} /\ gap \notin {U, umb}
          /\ lock \notin {U, umb} /\ rest \notin {U, umb}
      BY <1>3, <3>1
    <3>5. DOMAIN m = {FirstMCB, gap, lock, rest, U, umb} /\ m = [s \in DOMAIN m |-> m[s]]
      BY <3>3
    <3>6. /\ m[FirstMCB] = LowBlocks[FirstMCB] /\ m[gap] = LowBlocks[gap]
          /\ m[lock] = LowBlocks[lock] /\ m[rest] = LowBlocks[rest]
          /\ m[U] = HighBlocks[U] /\ m[umb] = HighBlocks[umb]
      BY <3>3, <3>4
    <3> QED
      BY <1>1, <2>1, <3>1, <3>5, <3>6
  <2>2. CASE ~HasUmb
    <3>1. m = LowBlocks
      BY <1>2, <2>2 DEF Init
    <3> QED
      BY <1>1, <2>2, <3>1
  <2> QED
    BY <2>1, <2>2
<1>7. /\ Record(m[FirstMCB]) /\ m[FirstMCB].type = "M" /\ m[FirstMCB].psp = MCB_DOS
      /\ Next0(m, FirstMCB) = gap
  <2>1. PICK f, z, p \in Nat : f = FirstMCB /\ z = 1 /\ p = MCB_DOS /\ gap = f + z + 1
    BY <1>1, <1>3
  <2>2. m[f] = Block("M", p, z)
    BY <1>6, <2>1
  <2>3. Record(m[f]) /\ m[f].type = "M" /\ m[f].psp = p /\ Next0(m, f) = f + z + 1
    BY <2>2, PlacedIs
  <2> QED
    BY <2>1, <2>3
<1>8. Record(m[gap]) /\ m[gap].type = "M" /\ Next0(m, gap) = lock
  BY <1>1, <1>3, <1>6, PlacedIs
<1>9. Record(m[lock]) /\ m[lock].type = "M" /\ Next0(m, lock) = rest
  BY <1>1, <1>3, <1>6, PlacedIs
<1>10. Record(m[rest]) /\ m[rest].type = "Z" /\ Next0(m, rest) = U
  <2>1. PICK z, p \in Nat : z = U - rest - 1 /\ p = MCB_FREE /\ rest + z + 1 = U
    BY <1>3
  <2>2. m[rest] = Block("Z", p, z)
    BY <1>6, <2>1
  <2>3. Record(m[rest]) /\ m[rest].type = "Z" /\ Next0(m, rest) = rest + z + 1
    BY <2>2, PlacedIs
  <2> QED
    BY <2>1, <2>3
<1>11. \A s \in Nat : s < U => End(l, s) = U
  BY <1>5 DEF End
<1>12. /\ End(l, FirstMCB) = U /\ End(l, gap) = U /\ End(l, lock) = U /\ End(l, rest) = U
       /\ gap # U /\ lock # U /\ rest # U
  BY <1>3, <1>11
<1>13. CASE ~HasUmb
  <2>1. DOMAIN m = {FirstMCB, gap, lock, rest} /\ Top = U
    BY <1>6, <1>13, Bounds
  <2>2. DOMAIN m \subseteq FirstMCB..(Top - 1)
    BY <1>3, <2>1
  <2>3. \A s \in DOMAIN m : Record(m[s]) /\ Next0(m, s) \in DOMAIN m \cup {Top}
    BY <1>7, <1>8, <1>9, <1>10, <2>1
  <2>4. \A s, t \in DOMAIN m : s < t => Next0(m, s) <= t
    BY <1>3, <1>7, <1>8, <1>9, <1>10, <2>1
  <2>5. \A s \in DOMAIN m : m[s].type = "Z" <=> Next0(m, s) = End(l, s)
    BY <1>7, <1>8, <1>9, <1>10, <1>12, <2>1
  <2>6. Layout(m, l)
    BY <1>6, <1>13, <2>2, <2>3, <2>4, <2>5 DEF Layout, Record
  <2> QED
    BY <1>2, <1>5, <1>7, <1>13, <2>6 DEF Sys
<1>14. CASE HasUmb
  <2>1. PICK umb \in Nat :
          /\ umb = U + CoverSize + 1 /\ umb < LastSeg /\ CoverSize \in Nat
          /\ DOMAIN m = {FirstMCB, gap, lock, rest, U, umb}
          /\ m[U] = Block("M", MCB_DOS, CoverSize)
          /\ m[umb] = Block("Z", MCB_FREE, LastSeg - umb)
    BY <1>6, <1>14
  <2>2. Top = LastSeg + 1 /\ LastSeg \in Nat /\ LastSeg - umb \in Nat
    BY <1>14, <2>1, McbAssumption DEF Top
  <2>3. Record(m[U]) /\ m[U].type = "M" /\ m[U].psp = MCB_DOS /\ Next0(m, U) = umb
    BY <1>3, <2>1, BlockIs DEF Next0
  <2>4. Record(m[umb]) /\ m[umb].type = "Z" /\ Next0(m, umb) = Top
    BY <1>3, <2>1, <2>2, BlockIs DEF Next0
  <2>5. U < umb /\ umb < Top
    BY <1>3, <2>1, <2>2
  <2>6. DOMAIN m \subseteq FirstMCB..(Top - 1)
    BY <1>3, <2>1, <2>2, <2>5
  <2>7. \A s \in DOMAIN m : Record(m[s]) /\ Next0(m, s) \in DOMAIN m \cup {Top}
    BY <1>7, <1>8, <1>9, <1>10, <2>1, <2>3, <2>4
  <2>8. ASSUME NEW s \in DOMAIN m, NEW t \in DOMAIN m, s < t
        PROVE  Next0(m, s) <= t
    <3>1. CASE s = FirstMCB
      BY <1>3, <1>7, <2>1, <2>5, <2>8, <3>1
    <3>2. CASE s = gap
      BY <1>3, <1>8, <2>1, <2>5, <2>8, <3>2
    <3>3. CASE s = lock
      BY <1>3, <1>9, <2>1, <2>5, <2>8, <3>3
    <3>4. CASE s = rest
      BY <1>3, <1>10, <2>1, <2>5, <2>8, <3>4
    <3>5. CASE s = U
      BY <1>3, <2>1, <2>3, <2>5, <2>8, <3>5
    <3>6. CASE s = umb
      BY <1>3, <2>1, <2>5, <2>8, <3>6
    <3> QED
      BY <2>1, <3>1, <3>2, <3>3, <3>4, <3>5, <3>6
  <2>9. End(l, U) = Top /\ End(l, umb) = Top /\ umb # Top
    BY <1>3, <2>1, <2>2, <2>5 DEF End
  <2>10. \A s \in DOMAIN m : m[s].type = "Z" <=> Next0(m, s) = End(l, s)
    BY <1>7, <1>8, <1>9, <1>10, <1>12, <2>1, <2>3, <2>4, <2>9
  <2>11. U \in DOMAIN m
    BY <2>1
  <2>12. Layout(m, l)
    BY <1>6, <2>6, <2>7, <2>8, <2>10, <2>11 DEF Layout, Record
  <2> QED
    BY <1>2, <1>5, <1>7, <2>3, <2>12 DEF Sys
<1> QED
  BY <1>13, <1>14

LEMMA InitInv == Init => IInv
<1> SUFFICES ASSUME Init
             PROVE  IInv
  OBVIOUS
<1>1. Layout(mcb, linked) /\ Sys(mcb)
  BY InitLayout
<1>2. linked \in BOOLEAN /\ (linked => HasUmb) /\ stopped \in BOOLEAN
  BY DEF Init
<1>3. strategy \in Strategies
  BY DEF Init, FirstFitLow, Strategies, Fits, Places
<1>4. Run(mcb, running)
  <2>1. running = <<FirstShell>> /\ FirstShell \in Nat
    BY Numbers DEF Init
  <2> QED
    BY <2>1 DEF Run
<1>5. ASSUME NEW s \in DOMAIN mcb
      PROVE  mcb[s].psp \in {MCB_FREE, MCB_DOS, FakePsp}
  <2>1. PICK gap, lock, rest \in Nat :
        /\ DOMAIN LowBlocks = {FirstMCB, gap, lock, rest}
        /\ LowBlocks[FirstMCB] = Block("M", MCB_DOS, 1)
        /\ LowBlocks[gap] = Block("M", MCB_FREE, GapSize)
        /\ LowBlocks[lock] = Block("M", FakePsp, LockSize)
        /\ LowBlocks[rest] = Block("Z", MCB_FREE, U - rest - 1)
    BY LowIs
  <2>2. ASSUME NEW t \in DOMAIN LowBlocks
        PROVE  LowBlocks[t].psp \in {MCB_FREE, MCB_DOS, FakePsp}
    BY <2>1 DEF Block
  <2>3. CASE HasUmb
    <3>1. PICK umb \in Nat :
            /\ DOMAIN HighBlocks = {U, umb}
            /\ HighBlocks[U] = Block("M", MCB_DOS, CoverSize)
            /\ HighBlocks[umb] = Block("Z", MCB_FREE, LastSeg - umb)
      BY <2>3, HighIs
    <3>2. \A t \in DOMAIN HighBlocks : HighBlocks[t].psp \in {MCB_FREE, MCB_DOS, FakePsp}
      BY <3>1 DEF Block
    <3>3. mcb = [t \in (DOMAIN LowBlocks \ {}) \cup DOMAIN HighBlocks |->
                   IF t \in DOMAIN HighBlocks THEN HighBlocks[t] ELSE LowBlocks[t]]
      BY <2>3 DEF Init, With
    <3> QED
      BY <2>2, <3>2, <3>3
  <2>4. CASE ~HasUmb
    BY <2>2, <2>4 DEF Init
  <2> QED
    BY <2>3, <2>4
<1>6. Owners(mcb)
  BY <1>5 DEF Owners
<1> QED
  BY <1>1, <1>2, <1>3, <1>4, <1>6 DEF IInv

LEMMA StepInv ==
  ASSUME IInv, [Next]_vars
  PROVE  IInv' /\ (mcb' = mcb \/ Others(mcb, mcb', Changing))
<1>1. CASE UNCHANGED vars
  <2>1. /\ mcb' = mcb /\ linked' = linked /\ strategy' = strategy /\ running' = running
        /\ stopped' = stopped
    BY <1>1 DEF vars
  <2> QED
    BY <2>1 DEF IInv
<1>2. CASE Next
  <2>1. CASE \E want \in Wants : Allocate(want)
    BY <2>1, AllocateIsGood DEF Good
  <2>2. CASE \E want \in Wants : XMS_AllocateUMB(want)
    BY <2>2, XmsIsGood DEF Good
  <2>3. CASE \E seg \in DOMAIN mcb : FreeBlock(seg)
    BY <2>3, FreeBlockIsGood DEF Good
  <2>4. CASE \E seg \in DOMAIN mcb, want \in Wants : Resize(seg, want)
    BY <2>4, ResizeIsGood DEF Good
  <2>5. CASE \E s \in Strategies : SetStrategy(s)
    BY <2>5, SetStrategyIsGood DEF Good
  <2>6. CASE LinkUmbs
    BY <2>6, LinkIsGood DEF Good
  <2>7. CASE \E minsize \in MinSizes, maxsize \in MaxSizes : Execute(minsize, maxsize)
    BY <2>7, ExecuteIsGood DEF Good
  <2>8. CASE Terminate
    BY <2>8, TerminateIsGood DEF Good
  <2>9. CASE \E keep \in Wants : StayResident(keep)
    BY <2>9, StayResidentIsGood DEF Good
  <2>10. CASE RemoveLock
    BY <2>10, RemoveLockIsGood DEF Good
  <2> QED
    BY <1>2, <2>1, <2>2, <2>3, <2>4, <2>5, <2>6, <2>7, <2>8, <2>9, <2>10 DEF Next
<1> QED
  BY <1>1, <1>2

\* Headers, owners, processes, the strategy and the link of the chains are as
\* the proofs below need them, whatever the programs ask for.
THEOREM Invariant == Spec => []IInv
<1>1. IInv /\ [Next]_vars => IInv'
  BY StepInv
<1> QED
  BY InitInv, <1>1, PTL DEF Spec

-----------------------------------------------------------------------------
(* What the calls promise *)

\* Headers are of the kind the code stores, within the memory.
THEOREM Types == Spec => []TypeOK
<1>1. ASSUME IInv
      PROVE  TypeOK
  <2>1. Layout(mcb, linked) /\ linked \in BOOLEAN
    BY <1>1 DEF IInv
  <2>2. ASSUME NEW s \in DOMAIN mcb
        PROVE  s \in Segments /\ mcb[s] \in [type : {"M", "Z"}, psp : Nat, size : Sizes]
    <3>1. /\ s \in Nat /\ FirstMCB <= s /\ s < Top /\ mcb[s].size \in Nat
          /\ mcb[s].psp \in Nat /\ mcb[s].type \in {"M", "Z"} /\ Next0(mcb, s) <= Top
      BY <2>1, NextIs
    <3>2. mcb[s] \in [type : {"M", "Z"}, psp : Nat, size : Nat]
      BY <2>1 DEF Layout
    <3>3. mcb[s].size <= LastSeg - FirstMCB
      BY <3>1, Bounds DEF Next0
    <3>4. mcb[s].size \in Sizes
      BY <3>1, <3>3, Bounds DEF Sizes
    <3> QED
      BY <3>1, <3>2, <3>4, Bounds DEF Segments
  <2> QED
    BY <1>1, <2>2 DEF IInv, Run, TypeOK
<1> QED
  BY Invariant, <1>1, PTL

\* The walks that every call takes leave no gap and no overlap and end in a
\* Z at the end of their memory, in conventional memory and in the UMBs.
THEOREM NoHoles == Spec => []ChainsTile
<1>1. ASSUME IInv
      PROVE  ChainsTile
  <2>1. Layout(mcb, linked) /\ linked \in BOOLEAN /\ (linked => HasUmb)
    BY <1>1 DEF IInv
  <2>2. FirstMCB \in DOMAIN mcb /\ (HasUmb => U \in DOMAIN mcb)
    BY <2>1 DEF Layout
  <2>3. ASSUME NEW start \in DOMAIN mcb, NEW last \in Int, last + 1 = End(linked, start)
        PROVE  Tiles(start, last)
    <3>1. PICK w : w = Walk(mcb, start)
      OBVIOUS
    <3>2. PICK e : e = End(linked, start)
      OBVIOUS
    <3>3. Walks(w, mcb, start, e)
      BY <2>1, <2>3, <3>1, <3>2, WalkIs
    <3>4. /\ w \in Seq(DOMAIN mcb) /\ Len(w) \in Nat /\ Len(w) > 0 /\ DOMAIN w = 1..Len(w)
          /\ w[1] = start /\ Next0(mcb, w[Len(w)]) = e
          /\ \A i, j \in 1..Len(w) : i < j => w[i] < w[j]
          /\ \A t \in DOMAIN mcb : start <= t /\ t < e <=> \E k \in 1..Len(w) : w[k] = t
      BY <3>3 DEF Walks
    <3>5. PICK n \in 1..Len(w) : n = Len(w)
      <4>1. PICK k \in Nat : k = Len(w) /\ k > 0
        BY <3>4
      <4>2. k \in 1..k
        BY <4>1
      <4> QED
        BY <4>1, <4>2
    <3>6. PICK z \in DOMAIN mcb : z = w[n]
      BY <3>4, <3>5
    <3>7. \A t \in DOMAIN mcb : t \in Nat
      BY <2>1, NextIs
    <3>8. start <= z /\ z < e /\ e \in Nat /\ start \in Nat /\ z \in Nat
      BY <2>3, <3>2, <3>4, <3>5, <3>6, <3>7, Bounds DEF End
    <3>9. End(linked, z) = e
      BY <3>2, <3>8, Bounds DEF End
    <3>10. mcb[z].type = "Z" /\ Next0(mcb, z) = last + 1
      BY <2>1, <2>3, <3>2, <3>4, <3>5, <3>6, <3>9 DEF Layout
    <3>11. {w[k] : k \in DOMAIN w} = {s \in DOMAIN mcb : start <= s /\ s <= last}
      <4>1. \A t \in DOMAIN mcb : t < e <=> t <= last
        BY <2>3, <3>2, <3>7, <3>8
      <4>2. \A k \in DOMAIN w : w[k] \in DOMAIN mcb
        BY <3>4
      <4> QED
        BY <3>4, <4>1, <4>2
    <3> QED
      BY <3>1, <3>5, <3>6, <3>10, <3>11 DEF Tiles
  <2>4. Tiles(FirstMCB, IF HasUmb /\ linked THEN LastSeg ELSE LowEnd)
    <3>1. PICK last \in Int : last = IF HasUmb /\ linked THEN LastSeg ELSE LowEnd
      BY Bounds DEF LowEnd, U
    <3>2. last + 1 = End(linked, FirstMCB)
      BY <2>1, <3>1, Bounds DEF End, LowEnd, U, Top
    <3>3. Tiles(FirstMCB, last)
      BY <2>2, <2>3, <3>2
    <3> QED
      BY <3>1, <3>3
  <2>5. HasUmb => Tiles(UMB_START_SEG, LastSeg)
    <3>1. LastSeg \in Int /\ (HasUmb => LastSeg + 1 = End(linked, U))
      BY Bounds DEF End, Top
    <3>2. HasUmb => Tiles(U, LastSeg)
      BY <2>2, <2>3, <3>1
    <3> QED
      BY <3>2 DEF U
  <2> QED
    BY <2>4, <2>5 DEF ChainsTile
<1> QED
  BY Invariant, <1>1, PTL

\* A process that waits or stays resident keeps every block it has, at its size,
\* and gets none it did not ask for.
THEOREM OthersKeep == Spec => OthersKeepBlocks
<1>1. ASSUME IInv, [Next]_vars
      PROVE  [\A psp \in {mcb[s].psp : s \in DOMAIN mcb} \ {MCB_FREE, FakePsp, Current} :
                BlocksOf(psp)' = BlocksOf(psp)]_vars
  <2>1. CASE mcb' = mcb
    BY <2>1 DEF BlocksOf
  <2>2. CASE Others(mcb, mcb', Changing)
    BY <2>2 DEF Others, Owned, BlocksOf, Changing
  <2> QED
    BY <1>1, <2>1, <2>2, StepInv
<1> QED
  BY Invariant, <1>1, PTL DEF Spec, OthersKeepBlocks

\* A program that ends leaves no block behind that names it.
THEOREM NoOrphans == Spec => []OwnersHoldTheirProgram
<1>1. ASSUME IInv
      PROVE  OwnersHoldTheirProgram
  BY <1>1 DEF IInv, Owners, Holds, OwnersHoldTheirProgram
<1> QED
  BY Invariant, <1>1, PTL

-----------------------------------------------------------------------------
(* Refusals *)

\* What a refusal says: nothing that was looked at fits, the chain is compressed,
\* and the size it names is the largest of what was looked at.
LEMMA RefusedIs ==
  ASSUME NEW m, NEW l \in BOOLEAN, Layout(m, l), Sys(m), NEW strat \in Strategies,
         NEW want \in Nat, NEW p \in Nat, NEW r, r = DOS_AllocateMemory(m, strat, want, p), ~r.ok
  PROVE  /\ r.mcb = DOS_CompressMemory(m) /\ r.size = BigSize(r.mcb, Searched(r.mcb, strat))
         /\ Fitting(r.mcb, Searched(r.mcb, strat), want) = {}
         /\ want > 0 => r.size < want
<1>1. PICK c : c = DOS_CompressMemory(m)
  OBVIOUS
<1>2. PICK s : s = Searched(c, strat)
  OBVIOUS
<1>3. PICK K : K = Fitting(c, s, want)
  OBVIOUS
<1>4. /\ K = {} => ~r.ok /\ r.mcb = c /\ r.size = BigSize(c, s)
      /\ K # {} => Success(c, l, s, K, want, p, r)
  BY <1>1, <1>2, <1>3, AllocIs
<1>5. K = {} /\ r.mcb = c /\ r.size = BigSize(c, s)
  BY <1>4 DEF Success
<1>6. Layout(c, l)
  BY <1>1, CompressIs, CompressedKeeps
<1>7. s \in Seq(DOMAIN c)
  BY <1>2, <1>6, SearchedIs
<1>8. want > 0 => r.size < want
  <2>1. CASE r.size = 0
    BY <2>1
  <2>2. CASE r.size # 0
    <3>1. PICK k \in DOMAIN s : Free(c, s[k]) /\ c[s[k]].size = r.size
      BY <1>5, <1>6, <1>7, <2>2, BigSizeIs
    <3>2. k \notin K
      BY <1>5
    <3>3. ~(r.size >= want)
      BY <1>3, <3>1, <3>2 DEF Fitting, LargeEnough
    <3>4. r.size \in Nat
      BY <1>5, <1>6, <1>7, BigSizeIs
    <3> QED
      BY <3>3, <3>4
  <2> QED
    BY <2>1, <2>2
<1> QED
  BY <1>1, <1>2, <1>3, <1>5, <1>8

\* After a refusal any size up to the one it names is granted.
LEMMA AgainIs ==
  ASSUME NEW m, NEW l \in BOOLEAN, Layout(m, l), Sys(m), NEW strat \in Strategies,
         NEW want \in Nat, NEW p \in Nat, NEW r, r = DOS_AllocateMemory(m, strat, want, p), ~r.ok,
         r.size # 0, NEW n \in Nat, n <= r.size
  PROVE  DOS_AllocateMemory(r.mcb, strat, n, p).ok
<1>1. PICK c : c = r.mcb
  OBVIOUS
<1>2. PICK s : s = Searched(c, strat)
  OBVIOUS
<1>3. c = DOS_CompressMemory(m) /\ r.size = BigSize(c, s)
  BY <1>1, <1>2, RefusedIs
<1>4. PICK e : e = End(l, FirstMCB)
  OBVIOUS
<1>5. Layout(c, l) /\ Sys(c) /\ NoNeighbours(c, e)
  BY <1>3, <1>4, CompressIs, CompressedKeeps
<1>6. DOS_CompressMemory(c) = c
  BY <1>4, <1>5, CompressedStays
<1>7. s \in Seq(DOMAIN c)
  BY <1>2, <1>5, SearchedIs
<1>8. PICK k \in DOMAIN s : Free(c, s[k]) /\ c[s[k]].size = r.size
  BY <1>3, <1>5, <1>7, BigSizeIs
<1>9. r.size \in Nat
  BY <1>3, <1>5, <1>7, BigSizeIs
<1>10. PICK K : K = Fitting(c, s, n)
  OBVIOUS
<1>11. K # {}
  BY <1>8, <1>9, <1>10 DEF Fitting, LargeEnough
<1>12. PICK q : q = DOS_AllocateMemory(c, strat, n, p)
  OBVIOUS
<1>13. Success(c, l, s, K, n, p, q)
  BY <1>2, <1>5, <1>6, <1>10, <1>11, <1>12, AllocIs
<1> QED
  BY <1>1, <1>12, <1>13 DEF Success

\* There is no block for the request of all memory.
LEMMA WholeIsRefused ==
  ASSUME NEW m, NEW l \in BOOLEAN, Layout(m, l), Sys(m), NEW strat \in Strategies,
         NEW p \in Nat
  PROVE  ~DOS_AllocateMemory(m, strat, Whole, p).ok
<1>1. PICK r : r = DOS_AllocateMemory(m, strat, Whole, p)
  OBVIOUS
<1>2. PICK c : c = DOS_CompressMemory(m)
  OBVIOUS
<1>3. PICK s : s = Searched(c, strat)
  OBVIOUS
<1>4. PICK want \in Nat : want = Whole /\ want = LastSeg + 1
  BY McbAssumption DEF Whole
<1>5. PICK K : K = Fitting(c, s, want)
  OBVIOUS
<1>6. /\ K = {} => ~r.ok
      /\ K # {} => Success(c, l, s, K, want, p, r)
  BY <1>1, <1>2, <1>3, <1>4, <1>5, AllocIs
<1>7. Layout(c, l)
  BY <1>2, CompressIs, CompressedKeeps
<1>8. ASSUME K # {}
      PROVE  FALSE
  <2>1. PICK b : Granted(c, r.mcb, want, p, b, r.seg)
    BY <1>6, <1>8 DEF Success
  <2>2. b \in DOMAIN c /\ r.seg \in Nat /\ b <= r.seg /\ r.seg + want + 1 <= Next0(c, b)
    BY <2>1 DEF Granted
  <2>3. b \in Nat /\ Next0(c, b) \in Nat /\ Next0(c, b) <= Top
    BY <1>7, <2>2, NextIs
  <2> QED
    BY <1>4, <2>2, <2>3, Bounds
<1> QED
  BY <1>1, <1>6, <1>8

\* dos_execute.cpp:351 leaves the emulator should the request for the program's block
\* fail, after a query for the largest one.  No program comes to that unless its
\* header says that it needs no memory at all.
THEOREM ProgramGetsItsBlock ==
  ASSUME 0 \notin MinSizes
  PROVE  Spec => []ExecutionNeverFails
<1>1. Init => ExecutionNeverFails
  BY DEF Init, ExecutionNeverFails
<1>2. ASSUME IInv, ExecutionNeverFails, [Next]_vars
      PROVE  ExecutionNeverFails'
  <2>1. ASSUME NEW minsize \in MinSizes, NEW maxsize \in MaxSizes, Execute(minsize, maxsize)
        PROVE  ~stopped'
    <3>1. PICK env : env = DOS_AllocateMemory(mcb, strategy, EnvSize, Current)
      OBVIOUS
    <3>2. PICK query : query = DOS_AllocateMemory(env.mcb, strategy, Whole, Current)
      OBVIOUS
    <3>3. PICK size : size = MemSize(query.size, maxsize)
      OBVIOUS
    <3>4. PICK prog : prog = DOS_AllocateMemory(query.mcb, strategy, size, Current)
      OBVIOUS
    <3>5. stopped' = stopped \/ (query.size >= minsize /\ ~prog.ok)
      BY <2>1, <3>1, <3>2, <3>3, <3>4 DEF Execute
    <3>6. /\ EnvSize \in Nat /\ maxsize \in Nat /\ minsize \in Nat /\ minsize > 0 /\ Whole \in Nat
      BY DosMemoryAssumption, McbAssumption DEF Whole
    <3>7. /\ Layout(mcb, linked) /\ linked \in BOOLEAN /\ Sys(mcb) /\ strategy \in Strategies
      BY <1>2 DEF IInv
    <3>8. Current \in Nat
      BY <1>2, CurrentIs
    <3>9. Layout(env.mcb, linked) /\ Sys(env.mcb)
      <4>1. Allocated(mcb, env, linked, EnvSize, Current)
        BY <3>1, <3>6, <3>7, <3>8, AllocateKeeps
      <4> QED
        BY <4>1 DEF Allocated
    <3>10. ~query.ok
      BY <3>2, <3>7, <3>8, <3>9, WholeIsRefused
    <3>11. query.size \in Nat
      <4>1. Allocated(env.mcb, query, linked, Whole, Current)
        BY <3>2, <3>6, <3>7, <3>8, <3>9, AllocateKeeps
      <4> QED
        BY <4>1 DEF Allocated
    <3>12. size \in Nat /\ size <= query.size
      BY <3>3, <3>6, <3>11 DEF MemSize
    <3>13. ASSUME query.size >= minsize
           PROVE  prog.ok
      <4>1. query.size # 0
        BY <3>6, <3>11, <3>13
      <4>2. PICK m : m = env.mcb
        OBVIOUS
      <4>3. PICK w \in Nat : w = Whole
        BY <3>6
      <4>4. Layout(m, linked) /\ Sys(m) /\ query = DOS_AllocateMemory(m, strategy, w, Current)
        BY <3>2, <3>9, <4>2, <4>3
      <4> QED
        BY <3>4, <3>7, <3>8, <3>10, <3>12, <4>1, <4>4, AgainIs
    <3> QED
      BY <1>2, <3>5, <3>13 DEF ExecutionNeverFails
  <2>2. CASE UNCHANGED vars
    BY <1>2, <2>2 DEF vars, ExecutionNeverFails
  <2>3. CASE Next
    <3>1. CASE \E minsize \in MinSizes, maxsize \in MaxSizes : Execute(minsize, maxsize)
      BY <2>1, <3>1 DEF ExecutionNeverFails
    <3>2. CASE ~ \E minsize \in MinSizes, maxsize \in MaxSizes : Execute(minsize, maxsize)
      <4>1. stopped' = stopped
        BY <2>3, <3>2 DEF Next, Allocate, XMS_AllocateUMB, FreeBlock, Resize, SetStrategy,
                          LinkUmbs, Terminate, StayResident, RemoveLock
      <4> QED
        BY <1>2, <4>1 DEF ExecutionNeverFails
    <3> QED
      BY <3>1, <3>2
  <2> QED
    BY <1>2, <2>2, <2>3
<1> QED
  BY Invariant, <1>1, <1>2, PTL DEF Spec

-----------------------------------------------------------------------------
(* The search finds what there is *)

\* A block that is granted was free, whatever blocks it lay in before the chain
\* was compressed.
LEMMA GrantedWasFree ==
  ASSUME NEW m, NEW l \in BOOLEAN, Layout(m, l), Sys(m), NEW c, c = DOS_CompressMemory(m),
         NEW n, NEW want \in Nat, NEW p, NEW b, NEW at, Granted(c, n, want, p, b, at),
         NEW s \in DOMAIN m, s <= at + want, at <= Next0(m, s) - 1
  PROVE  Free(m, s)
<1>1. PICK e : e = End(l, FirstMCB)
  OBVIOUS
<1>2. /\ Compressed(m, c, e) /\ Layout(c, l)
      /\ \A x \in DOMAIN c : x \in DOMAIN m /\ c[x].psp = m[x].psp
  BY <1>1, CompressIs, CompressedKeeps
<1>3. b \in DOMAIN c /\ Free(c, b) /\ at \in Nat /\ b <= at /\ at + want + 1 <= Next0(c, b)
  BY DEF Granted
<1>4. PICK j \in DOMAIN m : Takes(m, c, e, b, j)
  BY <1>2, <1>3 DEF Compressed
<1>5. /\ Next0(c, b) = Next0(m, j) /\ b <= j
      /\ b # j => \A t \in DOMAIN m : b <= t /\ t <= j => Free(m, t)
  BY <1>4 DEF Takes
<1>6. b \in DOMAIN m /\ Free(m, b)
  BY <1>2, <1>3 DEF Free
<1>7. /\ b \in Nat /\ j \in Nat /\ s \in Nat /\ Next0(m, j) \in Nat /\ Next0(m, s) \in Nat
  BY <1>6, NextIs
<1>8. s < Next0(m, j) /\ b < Next0(m, s)
  BY <1>3, <1>5, <1>7
<1>9. (j < s => Next0(m, j) <= s) /\ (s < b => Next0(m, s) <= b)
  BY <1>6 DEF Layout
<1>10. b <= s /\ s <= j
  BY <1>7, <1>8, <1>9
<1>11. CASE b = j
  BY <1>6, <1>7, <1>10, <1>11
<1>12. CASE b # j
  BY <1>5, <1>10, <1>12
<1> QED
  BY <1>11, <1>12

\* A stretch of free blocks on the chain from the start lies in one block after the
\* chain is compressed, and so does a free block behind that chain.
LEMMA RunInBlock ==
  ASSUME NEW m, NEW l \in BOOLEAN, Layout(m, l), Sys(m), NEW c, c = DOS_CompressMemory(m),
         NEW x \in DOMAIN m, NEW y \in DOMAIN m, x <= y, x = y \/ y < End(l, FirstMCB),
         \A t \in DOMAIN m : x <= t /\ t <= y => Free(m, t)
  PROVE  \E b \in DOMAIN c : /\ Free(c, b) /\ b <= x /\ Next0(m, y) <= Next0(c, b)
                             /\ \A t \in DOMAIN c : t <= x => t <= b
<1>1. PICK e : e = End(l, FirstMCB)
  OBVIOUS
<1>2. /\ Compressed(m, c, e) /\ Layout(c, l)
      /\ \A t \in DOMAIN c : t \in DOMAIN m /\ c[t].psp = m[t].psp
  BY <1>1, CompressIs, CompressedKeeps
<1>3. FirstMCB \in DOMAIN c
  BY <1>2 DEF Layout
<1>6. \A t \in DOMAIN m : /\ t \in Nat /\ FirstMCB <= t /\ t < Top
                          /\ Next0(m, t) \in Nat /\ t < Next0(m, t) /\ Next0(m, t) <= Top
  BY NextIs
<1>7. \A t \in DOMAIN c : t \in Nat /\ Next0(c, t) \in Nat /\ t < Next0(c, t)
  BY <1>2, NextIs
<1>9. e \in Nat /\ (e = U \/ e = Top) /\ Top \in Nat /\ e <= Top
  BY <1>1, Bounds DEF End
<1>10. x \in Nat /\ y \in Nat
  BY <1>6
<1>11. CASE ~(x < e)
  <2>1. x = y
    BY <1>1, <1>9, <1>10, <1>11
  <2>2. x \in DOMAIN c
    BY <1>2, <1>11 DEF Compressed, Gone
  <2>3. PICK d \in DOMAIN m : Takes(m, c, e, x, d)
    BY <1>2, <2>2 DEF Compressed
  <2>4. Next0(c, x) = Next0(m, d) /\ x <= d
    BY <2>3 DEF Takes
  <2>5. Next0(m, x) <= Next0(c, x)
    <3>1. x < d => Next0(m, x) <= d
      BY DEF Layout
    <3> QED
      BY <1>6, <2>4, <3>1
  <2>6. Free(c, x)
    BY <1>2, <1>10, <2>1, <2>2 DEF Free
  <2> QED
    BY <1>10, <2>1, <2>2, <2>5, <2>6
<1>12. CASE x < e
  <2>12. x \in Nat /\ y \in Nat /\ x <= y /\ y < e /\ x < e
    BY <1>1, <1>9, <1>10, <1>12
  <2>13. \A t \in DOMAIN m : x <= t /\ t <= y => Free(m, t)
    OBVIOUS
  <2> DEFINE S == {t \in DOMAIN c : t <= x}
  <2>14. S \in SUBSET (0..x) /\ S # {}
    <3>1. FirstMCB \in S
      BY <1>3, <1>6, <1>10
    <3> QED
      BY <1>7, <3>1
  <2>15. PICK b \in S : \A t \in S : t <= b
    <3> HIDE DEF S
    <3> QED
      BY <2>12, <2>14, Greatest
  <2>16. b \in DOMAIN c /\ b \in DOMAIN m /\ b <= x /\ b \in Nat
    BY <1>2, <1>6, <2>15
  <2>17. PICK d \in DOMAIN m : Takes(m, c, e, b, d)
    BY <1>2, <2>16 DEF Compressed
  <2>18. PICK n : n = Next0(m, d)
    OBVIOUS
  <2>19. /\ Next0(c, b) = n /\ b <= d
         /\ b # d => d < e /\ \A t \in DOMAIN m : b <= t /\ t <= d => Free(m, t)
         /\ b < e /\ Free(m, b) /\ n < e => ~Free(m, n)
    BY <2>17, <2>18 DEF Takes
  <2>20. d \in Nat /\ n \in Nat /\ d < n /\ n <= Top
    BY <1>6, <2>18
  <2>21. x < n
    <3>1. ASSUME n <= x
          PROVE  FALSE
      <4>1. n < Top
        <5>1. x < Top
          BY <1>6
        <5> QED
          BY <1>9, <2>12, <2>20, <3>1, <5>1
      <4>2. Next0(c, b) \in DOMAIN c \cup {Top}
        BY <1>2, <2>16 DEF Layout
      <4>3. n \in S
        BY <2>19, <2>20, <3>1, <4>1, <4>2
      <4> QED
        BY <1>7, <2>15, <2>16, <2>19, <4>3
    <3> QED
      BY <2>12, <2>20, <3>1
  <2>22. b < e
    BY <1>9, <2>12, <2>16
  <2>23. Free(m, b)
    <3>1. CASE b = d
      <4>1. x = b
        <5>1. d < x => n <= x
          BY <1>10, <2>18 DEF Layout
        <5> QED
          BY <2>12, <2>16, <2>20, <2>21, <3>1, <5>1
      <4> QED
        BY <1>10, <2>13, <2>12, <4>1
    <3>2. CASE b # d
      BY <2>16, <2>19, <3>2
    <3> QED
      BY <3>1, <3>2
  <2>24. y < n
    <3>1. ASSUME n <= y
          PROVE  FALSE
      <4>1. n \in DOMAIN m
        <5>1. n \in DOMAIN m \cup {Top}
          BY <2>18 DEF Layout
        <5>2. n # Top
          BY <1>6, <1>10, <2>12, <2>20, <3>1
        <5> QED
          BY <5>1, <5>2
      <4>2. Free(m, n)
        BY <2>12, <2>13, <2>20, <2>21, <3>1, <4>1
      <4>3. n < e
        BY <1>9, <2>12, <2>20, <3>1
      <4> QED
        BY <2>19, <2>22, <2>23, <4>2, <4>3
    <3> QED
      BY <2>12, <2>20, <3>1
  <2>25. Next0(m, y) <= n
    <3>1. y <= d
      <4>1. d < y => n <= y
        BY <2>18 DEF Layout
      <4> QED
        BY <2>12, <2>20, <2>24, <4>1
    <3>2. CASE y = d
      BY <2>18, <2>20, <3>2
    <3>3. CASE y < d
      <4>1. Next0(m, y) <= d
        BY <3>3 DEF Layout
      <4> QED
        BY <1>6, <2>20, <4>1
    <3> QED
      BY <2>12, <2>20, <3>1, <3>2, <3>3
  <2>26. Free(c, b)
    BY <1>2, <2>16, <2>23 DEF Free
  <2>27. \A t \in DOMAIN c : t <= x => t <= b
    BY <2>15
  <2>28. Next0(m, y) <= Next0(c, b)
    BY <2>19, <2>25
  <2> QED
    BY <2>16, <2>26, <2>27, <2>28
<1> QED
  BY <1>11, <1>12

\* A chain has a block for the request after the compression if it had a stretch for
\* it before, with blocks joined on the chain that is compressed only.
LEMMA ChainFits ==
  ASSUME NEW m, NEW l \in BOOLEAN, Layout(m, l), Sys(m), m = mcb,
         NEW start \in DOMAIN m, start \in {FirstMCB, U}, NEW c, c = DOS_CompressMemory(m),
         NEW want \in Nat, NEW joins \in BOOLEAN, joins <=> start = FirstMCB \/ l,
         NEW s, s = Walk(c, start)
  PROVE  /\ start \in DOMAIN c
         /\ (\E k \in DOMAIN s : Free(c, s[k]) /\ c[s[k]].size >= want)
              <=> FreeStretch(start, want, joins)
<1>1. PICK e : e = End(l, FirstMCB)
  OBVIOUS
<1>2. PICK f : f = End(l, start)
  OBVIOUS
<1>3. PICK w : w = Walk(m, start)
  OBVIOUS
<1>4. /\ Compressed(m, c, e) /\ Layout(c, l)
      /\ \A t \in DOMAIN c : t \in DOMAIN m /\ c[t].psp = m[t].psp
  BY <1>1, CompressIs, CompressedKeeps
<1>5. start \in DOMAIN c
  <2>1. CASE start = FirstMCB
    BY <1>4, <2>1 DEF Layout
  <2>2. CASE start # FirstMCB
    <3>1. start = U
      BY <2>2
    <3>2. start < Top
      BY NextIs
    <3>3. HasUmb
      BY <3>1, <3>2, Bounds
    <3> QED
      BY <1>4, <3>1, <3>3 DEF Layout
  <2> QED
    BY <2>1, <2>2
<1>6. Walks(w, m, start, f) /\ Walks(s, c, start, f)
  BY <1>2, <1>3, <1>4, <1>5, WalkIs
<1>7. /\ w \in Seq(DOMAIN m) /\ Len(w) \in Nat /\ DOMAIN w = 1..Len(w)
      /\ \A a, k \in 1..Len(w) : a < k => w[a] < w[k]
      /\ \A t \in DOMAIN m : start <= t /\ t < f <=> \E k \in 1..Len(w) : w[k] = t
  BY <1>6 DEF Walks
<1>8. /\ s \in Seq(DOMAIN c) /\ DOMAIN s = 1..Len(s)
      /\ \A t \in DOMAIN c : start <= t /\ t < f <=> \E k \in 1..Len(s) : s[k] = t
  BY <1>6 DEF Walks
<1>9. /\ \A t \in DOMAIN m : /\ t \in Nat /\ FirstMCB <= t
                             /\ Next0(m, t) \in Nat /\ t < Next0(m, t)
      /\ \A t \in DOMAIN c : /\ t \in Nat /\ FirstMCB <= t /\ c[t].size \in Nat
                             /\ Next0(c, t) \in Nat /\ t < Next0(c, t)
  BY <1>4, NextIs
<1>10. \A k \in 1..Len(w) : w[k] \in DOMAIN m /\ w[k] \in Nat
  <2>1. \A k \in 1..Len(w) : w[k] \in DOMAIN m
    BY <1>7
  <2> QED
    BY <1>9, <2>1
<1>11. e \in Nat /\ f \in Nat /\ start \in Nat /\ start < f
  <2>1. e \in Nat /\ f \in Nat
    BY <1>1, <1>2, Bounds DEF End
  <2>2. start < Next0(m, start) /\ Next0(m, start) <= End(l, start) /\ Next0(m, start) \in Nat
    BY NextIs
  <2>3. start < f
    BY <1>2, <1>9, <2>1, <2>2
  <2> QED
    BY <1>9, <2>1, <2>3
<1>12. joins => f = e
  BY <1>1, <1>2 DEF End
<1>13. ~joins => e <= start
  <2>1. ~joins => start = U /\ ~l
    OBVIOUS
  <2> QED
    BY <1>1, <2>1, Bounds DEF End
<1>14. ASSUME NEW k \in DOMAIN s, Free(c, s[k]), c[s[k]].size >= want
       PROVE  FreeStretch(start, want, joins)
  <2>1. PICK b \in DOMAIN c : b = s[k]
    BY <1>8
  <2>2. PICK d \in DOMAIN m : Takes(m, c, e, b, d)
    BY <1>4 DEF Compressed
  <2>3. /\ Next0(c, b) = Next0(m, d) /\ b <= d
        /\ b # d => d < e /\ \A t \in DOMAIN m : b <= t /\ t <= d => Free(m, t)
    BY <2>2 DEF Takes
  <2>4. b < f /\ start <= b
    BY <1>8, <2>1
  <2>5. b \in DOMAIN m /\ Free(m, b) /\ b \in Nat /\ d \in Nat
    BY <1>4, <1>9, <1>14, <2>1 DEF Free
  <2>6. b = d \/ joins
    BY <1>11, <1>13, <2>3, <2>4, <2>5
  <2>7. d < f
    BY <1>12, <2>3, <2>4, <2>6
  <2>8. start <= d
    BY <1>11, <2>3, <2>4, <2>5
  <2>9. PICK i \in 1..Len(w) : w[i] = b
    BY <1>7, <2>4, <2>5
  <2>10. PICK j \in 1..Len(w) : w[j] = d /\ (b = d => j = i)
    <3>1. CASE b = d
      BY <2>9, <3>1
    <3>2. CASE b # d
      BY <1>7, <2>7, <2>8, <3>2
    <3> QED
      BY <3>1, <3>2
  <2>11. i <= j
    <3>1. j < i => w[j] < w[i]
      BY <1>7
    <3> QED
      BY <1>7, <2>3, <2>5, <2>9, <2>10, <3>1
  <2>12. ASSUME NEW a \in i..j
         PROVE  Free(m, w[a])
    <3>1. a \in 1..Len(w) /\ (i = a \/ i < a) /\ (a = j \/ a < j)
      BY <1>7, <2>9, <2>10
    <3>2. PICK t \in DOMAIN m : t = w[a]
      BY <1>10, <3>1
    <3>3. (i < a => b < t) /\ (a < j => t < d)
      BY <1>7, <2>9, <2>10, <3>1, <3>2
    <3>4. (i = a => b = t) /\ (a = j => t = d) /\ t \in Nat
      BY <1>9, <2>9, <2>10, <3>2
    <3>5. b <= t /\ t <= d
      BY <2>5, <3>1, <3>3, <3>4
    <3>6. CASE b = d
      BY <2>5, <3>2, <3>4, <3>5, <3>6
    <3>7. CASE b # d
      BY <2>3, <3>2, <3>5, <3>7
    <3> QED
      BY <3>6, <3>7
  <2>13. Next0(m, w[j]) - w[i] - 1 >= want
    <3>1. Next0(c, b) = b + c[b].size + 1
      BY DEF Next0
    <3>2. c[b].size \in Nat /\ Next0(m, d) \in Nat
      BY <1>9
    <3>3. want <= Next0(m, d) - b - 1
      BY <1>14, <2>1, <2>3, <2>5, <3>1, <3>2
    <3> QED
      BY <2>5, <2>9, <2>10, <3>2, <3>3
  <2>14. i \in DOMAIN w /\ j \in i..Len(w) /\ (i = j \/ joins)
    BY <1>7, <2>6, <2>10, <2>11
  <2> QED
    BY <1>3, <2>12, <2>13, <2>14 DEF FreeStretch
<1>15. ASSUME FreeStretch(start, want, joins)
       PROVE  \E k \in DOMAIN s : Free(c, s[k]) /\ c[s[k]].size >= want
  <2>1. PICK i \in 1..Len(w) : \E j \in i..Len(w) :
          /\ \A k \in i..j : Free(m, w[k])
          /\ i = j \/ joins
          /\ Next0(m, w[j]) - w[i] - 1 >= want
    BY <1>3, <1>7, <1>15 DEF FreeStretch
  <2>2. PICK j \in i..Len(w) : /\ \A k \in i..j : Free(m, w[k])
                               /\ i = j \/ joins
                               /\ Next0(m, w[j]) - w[i] - 1 >= want
    BY <2>1
  <2>3. j \in 1..Len(w) /\ i <= j
    BY <1>7, <2>1, <2>2
  <2>4. PICK x \in DOMAIN m : x = w[i]
    BY <1>10
  <2>5. PICK y \in DOMAIN m : y = w[j]
    BY <1>10, <2>3
  <2>6. start <= x /\ x < f /\ start <= y /\ y < f
    BY <1>7, <2>3, <2>4, <2>5
  <2>7. x <= y /\ (i = j => x = y) /\ x \in Nat /\ y \in Nat
    <3>1. i < j => x < y
      BY <1>7, <2>3, <2>4, <2>5
    <3>2. i = j => x = y
      BY <2>4, <2>5
    <3> QED
      BY <1>7, <1>9, <2>3, <3>1, <3>2
  <2>8. x = y \/ y < e
    BY <1>12, <2>2, <2>6, <2>7
  <2>9. ASSUME NEW t \in DOMAIN m, x <= t, t <= y
        PROVE  Free(m, t)
    <3>1. start <= t /\ t < f
      BY <1>9, <1>11, <2>6, <2>7, <2>9
    <3>2. PICK a \in 1..Len(w) : w[a] = t
      BY <1>7, <3>1
    <3>3. (a < i => t < x) /\ (j < a => y < t)
      BY <1>7, <2>3, <2>4, <2>5, <3>2
    <3>4. a \in i..j
      BY <1>7, <1>9, <2>3, <2>7, <2>9, <3>2, <3>3
    <3> QED
      BY <2>2, <3>2, <3>4
  <2>10. PICK b \in DOMAIN c : /\ Free(c, b) /\ b <= x /\ Next0(m, y) <= Next0(c, b)
                               /\ \A t \in DOMAIN c : t <= x => t <= b
    BY <1>1, <2>7, <2>8, <2>9, RunInBlock
  <2>11. start <= b /\ b < f
    BY <1>5, <1>9, <1>11, <2>6, <2>7, <2>10
  <2>12. PICK k \in 1..Len(s) : s[k] = b
    BY <1>8, <2>11
  <2>13. c[b].size >= want
    <3>1. Next0(c, b) = b + c[b].size + 1
      BY DEF Next0
    <3>2. PICK n \in Nat : n = Next0(m, y) /\ n - x - 1 >= want
      BY <1>9, <2>2, <2>4, <2>5
    <3>3. b \in Nat /\ c[b].size \in Nat /\ Next0(c, b) \in Nat
      BY <1>9
    <3> QED
      BY <2>7, <2>10, <3>1, <3>2, <3>3
  <2> QED
    BY <1>8, <2>10, <2>12, <2>13
<1> QED
  BY <1>5, <1>14, <1>15

\* A request succeeds exactly when the chains its strategy looks at offer room.
LEMMA NoFitIsMissed ==
  ASSUME NEW m, NEW l \in BOOLEAN, Layout(m, l), Sys(m), m = mcb,
         NEW strat \in Strategies, NEW want \in Nat, NEW p \in Nat
  PROVE  DOS_AllocateMemory(m, strat, want, p).ok
           <=> \/ ~(HasUmb /\ strat.place = "high") /\ FreeStretch(FirstMCB, want, TRUE)
               \/ HasUmb /\ strat.place # "low" /\ FreeStretch(UMB_START_SEG, want, l)
<1>1. PICK c : c = DOS_CompressMemory(m)
  OBVIOUS
<1>2. PICK s : s = Searched(c, strat)
  OBVIOUS
<1>3. PICK K : K = Fitting(c, s, want)
  OBVIOUS
<1>4. PICK r : r = DOS_AllocateMemory(m, strat, want, p)
  OBVIOUS
<1>5. PICK low : low = Walk(c, FirstMCB)
  OBVIOUS
<1>6. PICK high : high = Walk(c, UMB_START_SEG)
  OBVIOUS
<1> DEFINE Fits0(v) == \E k \in DOMAIN v : Free(c, v[k]) /\ c[v[k]].size >= want
<1>7. r.ok <=> Fits0(s)
  <2>1. /\ K = {} => ~r.ok
        /\ K # {} => Success(c, l, s, K, want, p, r)
    BY <1>1, <1>2, <1>3, <1>4, AllocIs
  <2>2. K # {} <=> Fits0(s)
    BY <1>3 DEF Fitting, LargeEnough
  <2> QED
    BY <2>1, <2>2 DEF Success
<1>8. FirstMCB \in DOMAIN m /\ (HasUmb => U \in DOMAIN m)
  BY DEF Layout
<1>9. /\ FirstMCB \in DOMAIN c
      /\ Fits0(low) <=> FreeStretch(FirstMCB, want, TRUE)
  <2>1. PICK joins \in BOOLEAN : joins = TRUE
    OBVIOUS
  <2>2. joins <=> FirstMCB = FirstMCB \/ l
    BY <2>1
  <2>3. /\ FirstMCB \in DOMAIN c
        /\ Fits0(low) <=> FreeStretch(FirstMCB, want, joins)
    <3>1. PICK start \in DOMAIN m : start = FirstMCB
      BY <1>8
    <3>2. start \in {FirstMCB, U} /\ (joins <=> start = FirstMCB \/ l) /\ low = Walk(c, start)
      BY <1>5, <2>2, <3>1
    <3>3. /\ start \in DOMAIN c
          /\ Fits0(low) <=> FreeStretch(start, want, joins)
      BY <1>1, <3>2, ChainFits
    <3> QED
      BY <3>1, <3>3
  <2>4. FreeStretch(FirstMCB, want, joins) <=> FreeStretch(FirstMCB, want, TRUE)
    BY <2>1 DEF FreeStretch
  <2> QED
    BY <2>3, <2>4
<1>10. ASSUME HasUmb
       PROVE  /\ U \in DOMAIN c
              /\ Fits0(high) <=> FreeStretch(UMB_START_SEG, want, l)
  <2>1. U # FirstMCB /\ U = UMB_START_SEG
    BY <1>10, Bounds DEF U
  <2> QED
    BY <1>1, <1>6, <1>8, <1>10, <2>1, ChainFits
<1>11. strat.place \in {"low", "high", "highlow"}
  BY DEF Strategies, Places
<1>12. CASE ~HasUmb \/ strat.place = "low"
  <2>1. s = low
    BY <1>2, <1>5, <1>12 DEF Searched
  <2> QED
    BY <1>4, <1>7, <1>9, <1>12, <2>1
<1>13. CASE HasUmb /\ strat.place = "high"
  <2>1. s = high
    BY <1>2, <1>6, <1>13 DEF Searched
  <2> QED
    BY <1>4, <1>7, <1>10, <1>13, <2>1
<1>14. CASE HasUmb /\ strat.place = "highlow"
  <2>1. s = high \o low
    BY <1>2, <1>5, <1>6, <1>14 DEF Searched
  <2>2. Layout(c, l)
    BY <1>1, CompressIs, CompressedKeeps
  <2>3. low \in Seq(DOMAIN c) /\ high \in Seq(DOMAIN c)
    <3>1. PICK u : u = U /\ u = UMB_START_SEG
      BY <1>10, <1>14, Bounds DEF U
    <3>2. Walks(low, c, FirstMCB, End(l, FirstMCB)) /\ Walks(high, c, u, End(l, u))
      BY <1>5, <1>6, <1>9, <1>10, <1>14, <2>2, <3>1, WalkIs
    <3> QED
      BY <3>2 DEF Walks
  <2>4. Fits0(s) <=> Fits0(high) \/ Fits0(low)
    <3>1. /\ DOMAIN s = 1..(Len(high) + Len(low))
          /\ DOMAIN high = 1..Len(high) /\ DOMAIN low = 1..Len(low)
          /\ Len(high) \in Nat /\ Len(low) \in Nat
          /\ \A k \in 1..Len(high) : s[k] = high[k]
          /\ \A k \in 1..Len(low) : s[Len(high) + k] = low[k]
      BY <2>1, <2>3
    <3>2. Fits0(high) => Fits0(s)
      BY <3>1
    <3>3. Fits0(low) => Fits0(s)
      <4>1. \A k \in 1..Len(low) : Len(high) + k \in DOMAIN s
        BY <3>1
      <4> QED
        BY <3>1, <4>1
    <3>4. Fits0(s) => Fits0(high) \/ Fits0(low)
      <4>1. SUFFICES ASSUME NEW k \in DOMAIN s, Free(c, s[k]) /\ c[s[k]].size >= want
                     PROVE  Fits0(high) \/ Fits0(low)
        OBVIOUS
      <4>2. CASE k <= Len(high)
        <5>1. k \in DOMAIN high /\ s[k] = high[k]
          BY <3>1, <4>2
        <5> QED
          BY <4>1, <5>1
      <4>3. CASE k > Len(high)
        <5>1. PICK i \in DOMAIN low : k = Len(high) + i
          <6>1. k - Len(high) \in 1..Len(low) /\ k = Len(high) + (k - Len(high))
            BY <3>1, <4>3
          <6> QED
            BY <3>1, <6>1
        <5>2. s[k] = low[i]
          BY <3>1, <5>1
        <5> QED
          BY <4>1, <5>2
      <4> QED
        BY <3>1, <4>2, <4>3
    <3> QED
      BY <3>2, <3>3, <3>4
  <2> HIDE DEF Fits0
  <2> QED
    BY <1>4, <1>7, <1>9, <1>10, <1>14, <2>4
<1> QED
  BY <1>11, <1>12, <1>13, <1>14

\* Under every strategy a request is refused only when the chains it looks at offer no
\* stretch of free memory that holds it, where upper memory that is not linked offers
\* single blocks only; what is granted was free and lies where the strategy says; a
\* refusal names the largest size that would be granted.
THEOREM SearchTheorem == Spec => []SearchIsRight
<1>1. ASSUME IInv
      PROVE  SearchIsRight
  <2>1. /\ Layout(mcb, linked) /\ linked \in BOOLEAN /\ Sys(mcb) /\ strategy \in Strategies
        /\ Current \in Nat
    BY <1>1, CurrentIs DEF IInv
  <2>2. Wants \cup {0} \subseteq Nat
    BY DosMemoryAssumption
  <2>3. NoMissedFit
    BY <2>1, <2>2, NoFitIsMissed DEF NoMissedFit, Offered
  <2>4. ASSUME NEW want \in Wants \cup {0}, NEW r, r = DOS_AllocateMemory(mcb, strategy, want, Current)
        PROVE  IF r.ok
               THEN /\ r.mcb[r.seg].size = want /\ r.mcb[r.seg].psp = Current
                    /\ WasFree(r.seg, want)
                    /\ HasUmb /\ strategy.place = "high" => r.seg > UMB_START_SEG
               ELSE /\ want > 0 => r.size < want
                    /\ r.size > 0 =>
                         DOS_AllocateMemory(r.mcb, strategy, r.size, Current).ok
    <3>1. want \in Nat
      BY <2>2
    <3>2. PICK m : m = mcb
      OBVIOUS
    <3>3. PICK l \in BOOLEAN : l = linked
      BY <2>1
    <3>4. Layout(m, l) /\ Sys(m)
      BY <2>1, <3>2, <3>3
    <3>5. r = DOS_AllocateMemory(m, strategy, want, Current)
      BY <2>4, <3>2
    <3>6. Allocated(m, r, l, want, Current)
      BY <2>1, <3>1, <3>4, <3>5, AllocateKeeps
    <3>7. CASE r.ok
      <4>1. PICK c : c = DOS_CompressMemory(m)
        OBVIOUS
      <4>2. PICK s : s = Searched(c, strategy)
        OBVIOUS
      <4>3. PICK K : K = Fitting(c, s, want)
        OBVIOUS
      <4>4. /\ K = {} => ~r.ok
            /\ K # {} => Success(c, l, s, K, want, Current, r)
        BY <2>1, <3>1, <3>4, <3>5, <4>1, <4>2, <4>3, AllocIs
      <4>5. PICK k \in K : Granted(c, r.mcb, want, Current, s[k], r.seg)
        BY <3>7, <4>4 DEF Success
      <4>6. WasFree(r.seg, want)
        BY <3>1, <3>2, <3>4, <4>1, <4>5, GrantedWasFree DEF WasFree
      <4>7. ASSUME HasUmb, strategy.place = "high"
            PROVE  r.seg > UMB_START_SEG
        <5>1. Layout(c, l) /\ Sys(c)
          BY <3>4, <4>1, CompressIs, CompressedKeeps
        <5>2. s \in Seq(DOMAIN c) /\ \A i \in DOMAIN s : U <= s[i]
          BY <2>1, <4>2, <4>7, <5>1, SearchedIs
        <5>3. k \in DOMAIN s
          BY <4>3 DEF Fitting
        <5>4. PICK b : b = s[k]
          OBVIOUS
        <5>5. b \in DOMAIN c /\ Free(c, b) /\ b <= r.seg /\ r.seg \in Nat
          BY <4>5, <5>4 DEF Granted
        <5>6. b # U
          BY <4>7, <5>1, <5>5, Numbers DEF Sys, Free
        <5>7. U <= b /\ b \in Nat /\ U \in Nat
          BY <5>1, <5>2, <5>3, <5>4, <5>5, NextIs, Bounds
        <5> QED
          BY <5>5, <5>6, <5>7 DEF U
      <4> QED
        BY <3>6, <3>7, <4>6, <4>7 DEF Allocated
    <3>8. CASE ~r.ok
      <4>1. r.size \in Nat
        BY <3>6 DEF Allocated
      <4>2. want > 0 => r.size < want
        BY <2>1, <3>1, <3>4, <3>5, <3>8, RefusedIs
      <4>3. ASSUME r.size > 0
            PROVE  DOS_AllocateMemory(r.mcb, strategy, r.size, Current).ok
        <5>1. PICK n \in Nat : n = r.size /\ n <= r.size
          BY <4>1
        <5>2. r.size # 0
          BY <4>1, <4>3
        <5>3. DOS_AllocateMemory(r.mcb, strategy, n, Current).ok
          BY <2>1, <3>1, <3>4, <3>5, <3>8, <5>1, <5>2, AgainIs
        <5> QED
          BY <5>1, <5>3
      <4> QED
        BY <3>8, <4>2, <4>3
    <3> QED
      BY <3>7, <3>8
  <2>5. GrantIsSound
    BY <2>4 DEF GrantIsSound
  <2> QED
    BY <2>3, <2>5 DEF SearchIsRight
<1> QED
  BY Invariant, <1>1, PTL

=============================================================================
