------------------------------ MODULE MemPages ------------------------------
(***************************************************************************)
(* The page allocator of hardware/memory.cpp as operators on its link      *)
(* array.  memory.mhandles has one word per 4 KB page: 0 for a free page,  *)
(* the number of the next page of the same block, or -1 at the end of a    *)
(* block.  Pages are numbered from XMS_START in the code and from 1 here,  *)
(* so that 0 and -1 keep their meaning as handles.                         *)
(*                                                                         *)
(* The array holds pages 1..N.  The word after it belongs to the C++ heap; *)
(* one loop of MEM_AllocatePages reads it, and writes it when it is zero,  *)
(* so that it is part of the state (page number N + 1).  The word after    *)
(* that is the size of the next heap chunk, which is never zero.           *)
(***************************************************************************)
EXTENDS Integers, Sequences, FiniteSets

CONSTANT N                      \* memory.reported_pages

ASSUME NAssumption == N \in Nat \ {0}

EndOfBlock == -1
Pages == 1..N
Beyond == N + 1
Words == {0, EndOfBlock} \cup 1..Beyond

FreePages(mh) == {p \in Pages : mh[p] = 0}

MEM_FreeTotal(mh) == Cardinality(FreePages(mh))

-----------------------------------------------------------------------------
(* BestMatch: one pass over the array, with the code's four locals.        *)

ScanStart == [first |-> 0, best |-> N + 2, bestFirst |-> 0, found |-> 0]

\* Mutant: a longer run replaces a shorter one.
EndOfRunLonger(s, i, size) ==
    IF i - s.first >= size
    THEN [s EXCEPT !.best = i - s.first, !.bestFirst = s.first, !.first = 0]
    ELSE [s EXCEPT !.first = 0]

\* A used page at i ends the run that started at s.first.
EndOfRun(s, i, size) ==
    LET run == i - s.first
    IN CASE run = size -> [s EXCEPT !.found = s.first]
         [] run > size /\ run < s.best ->
              [s EXCEPT !.best = run, !.bestFirst = s.first, !.first = 0]
         [] OTHER -> [s EXCEPT !.first = 0]

ScanPage(mh, s, i, size) ==
    CASE s.found = 0 /\ s.first = 0 /\ mh[i] = 0 -> [s EXCEPT !.first = i]
      [] s.found = 0 /\ s.first # 0 /\ mh[i] # 0 -> EndOfRun(s, i, size)
      [] OTHER -> s

\* "Check for the final block if we can".
FinalBlock(s, size) ==
    LET run == N + 1 - s.first
    IN CASE s.found # 0 -> s.found
         [] s.found = 0 /\ s.first # 0 /\ run >= size /\ run < s.best -> s.first
         [] OTHER -> s.bestFirst

BestMatch(mh, size) ==
    LET scan[i \in 0..N] ==
          IF i = 0 THEN ScanStart ELSE ScanPage(mh, scan[i - 1], i, size)
    IN FinalBlock(scan[N], size)

-----------------------------------------------------------------------------
(* The same, said without the loop.                                        *)

\* The maximal runs of free pages.
FreeRuns(mh) ==
    LET free == FreePages(mh)
        starts == {p \in free : p - 1 \notin free}
        ends == {p \in free : p + 1 \notin free}
    IN {r \in starts \X ends : r[1] <= r[2] /\ r[1]..r[2] \subseteq free}

RunLen(r) == r[2] - r[1] + 1

\* The start of the shortest run that is long enough, the first of those
\* of equal length, and 0 when there is none.
ShortestFit(mh, size) ==
    LET fit == {r \in FreeRuns(mh) : RunLen(r) >= size}
        shortest == {r \in fit : \A q \in fit : RunLen(r) <= RunLen(q)}
    IN IF fit = {} THEN 0
       ELSE (CHOOSE r \in shortest : \A q \in shortest : r[1] <= q[1])[1]

-----------------------------------------------------------------------------
(* Blocks                                                                  *)

\* The words of a block with pages s: each names the next, the last is -1.
Link(mh, s) ==
    [p \in DOMAIN mh |->
        IF \E k \in DOMAIN s : s[k] = p
        THEN LET k == CHOOSE k \in DOMAIN s : s[k] = p
             IN IF k < Len(s) THEN s[k + 1] ELSE EndOfBlock
        ELSE mh[p]]

\* The pages reached from handle h, in order; every loop over a block walks
\* it ("while (handle > 0)").
Chain(mh, h) ==
    LET from[w \in Words] == IF w > 0 THEN <<w>> \o from[mh[w]] ELSE <<>>
    IN from[h]

\* The pages a non-sequential allocation visits: whole runs, the shortest
\* first.  "while (pages && (!memory.mhandles[index]))" does not stop at the
\* end of the array: a run that ends at N goes on with a zero word after it.
Visited(mh) ==
    FreePages(mh) \cup IF mh[N] = 0 /\ mh[Beyond] = 0 THEN {Beyond} ELSE {}

VisitOrder(mh) ==
    LET visited == Visited(mh)
        runs == FreeRuns(mh)
        runLen == [p \in visited |->
                     RunLen(CHOOSE r \in runs : IF p = Beyond THEN r[2] = N
                                                ELSE p \in r[1]..r[2])]
        Before(p, q) == \/ runLen[p] < runLen[q]
                        \/ runLen[p] = runLen[q] /\ p <= q
        place == [p \in visited |-> Cardinality({q \in visited : Before(q, p)})]
    IN [k \in 1..Cardinality(visited) |-> CHOOSE p \in visited : place[p] = k]

\* The pages a request for n pages gets; <<>> for a failure (handle 0).
PagesFor(mh, n, sequence) ==
    IF sequence
    THEN LET first == BestMatch(mh, n)
         IN IF n = 0 \/ first = 0 THEN <<>> ELSE [k \in 1..n |-> first + k - 1]
    ELSE IF n = 0 \/ MEM_FreeTotal(mh) < n THEN <<>>
         ELSE SubSeq(VisitOrder(mh), 1, n)

First(s) == IF s = <<>> THEN 0 ELSE s[1]

\* Both results of MEM_AllocatePages: the array and the handle.
MEM_AllocatePages(mh, n, sequence) ==
    LET s == PagesFor(mh, n, sequence)
    IN [mh |-> Link(mh, s), handle |-> First(s)]

MEM_GetNextFreePage(mh) == BestMatch(mh, 1)

MEM_ReleasePages(mh, h) ==
    LET s == Chain(mh, h)
    IN [p \in DOMAIN mh |-> IF \E k \in DOMAIN s : s[k] = p THEN 0 ELSE mh[p]]

\* Mutant: pages anywhere behind page p are counted.
FreeBehindAll(mh, p) == Cardinality({q \in p + 1..N : mh[q] = 0})

\* How many pages right behind page p are free.
FreeBehind(mh, p) ==
    Cardinality({q \in p + 1..N : \A r \in p + 1..q : mh[r] = 0})

(* The branches of MEM_ReAllocatePages.  Each gives the array, the handle, *)
(* whether the call succeeds, and the page each page's contents come from. *)

Stay == [p \in Pages |-> p]

Outcome(mh, h, ok) == [mh |-> mh, handle |-> h, ok |-> ok, from |-> Stay]

\* Mutant: the pages cut off stay marked.
ShrinkBlockLeak(mh, s, n) ==
    Outcome([mh EXCEPT ![s[n]] = EndOfBlock], s[1], TRUE)

ShrinkBlock(mh, s, n) ==
    LET cut == [p \in DOMAIN mh |->
                  IF \E k \in n + 1..Len(s) : s[k] = p THEN 0 ELSE mh[p]]
    IN Outcome([cut EXCEPT ![s[n]] = EndOfBlock], s[1], TRUE)

GrowInPlace(mh, s, n) ==
    Outcome(Link(mh, [k \in 1..n |-> IF k <= Len(s) THEN s[k]
                                     ELSE s[Len(s)] + k - Len(s)]),
            s[1], TRUE)

\* Mutant: the contents are not copied.
MoveBlockNoCopy(mh, s, n) ==
    LET new == MEM_AllocatePages(mh, n, TRUE)
    IN IF new.handle = 0 THEN Outcome(mh, s[1], FALSE)
       ELSE Outcome(MEM_ReleasePages(new.mh, s[1]), new.handle, TRUE)

\* MEM_BlockCopy moves old_pages pages from the old start to the new one.
MoveBlock(mh, s, n) ==
    LET new == MEM_AllocatePages(mh, n, TRUE)
    IN IF new.handle = 0 THEN Outcome(mh, s[1], FALSE)
       ELSE [mh |-> MEM_ReleasePages(new.mh, s[1]),
             handle |-> new.handle,
             ok |-> TRUE,
             from |-> [p \in Pages |->
                         IF p \in new.handle..new.handle + Len(s) - 1
                         THEN s[1] + p - new.handle ELSE p]]

\* Mutant: the new pages are linked behind the first page of the block.
AppendBlockFirst(mh, s, n) ==
    LET rem == MEM_AllocatePages(mh, n - Len(s), FALSE)
    IN IF rem.handle = 0 THEN Outcome(mh, s[1], FALSE)
       ELSE Outcome([rem.mh EXCEPT ![s[1]] = rem.handle], s[1], TRUE)

AppendBlock(mh, s, n) ==
    LET rem == MEM_AllocatePages(mh, n - Len(s), FALSE)
    IN IF rem.handle = 0 THEN Outcome(mh, s[1], FALSE)
       ELSE Outcome([rem.mh EXCEPT ![s[Len(s)]] = rem.handle], s[1], TRUE)

MEM_ReAllocatePages(mh, h, n, sequence) ==
    LET s == Chain(mh, h)
        new == MEM_AllocatePages(mh, n, sequence)
    IN CASE h <= 0 /\ n = 0 -> Outcome(mh, h, TRUE)
         [] h <= 0 /\ n > 0 -> Outcome(new.mh, new.handle, new.handle > 0)
         [] h > 0 /\ n = 0 ->
              Outcome(MEM_ReleasePages(mh, h), EndOfBlock, TRUE)
         [] h > 0 /\ n > 0 /\ n = Len(s) -> Outcome(mh, h, TRUE)
         [] h > 0 /\ n > 0 /\ n < Len(s) -> ShrinkBlock(mh, s, n)
         [] h > 0 /\ n > Len(s) /\ ~sequence -> AppendBlock(mh, s, n)
         [] h > 0 /\ n > Len(s) /\ sequence ->
              IF FreeBehind(mh, s[Len(s)]) >= n - Len(s)
              THEN GrowInPlace(mh, s, n) ELSE MoveBlock(mh, s, n)
=============================================================================
