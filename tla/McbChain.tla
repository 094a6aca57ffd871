------------------------------ MODULE McbChain ------------------------------
(***************************************************************************)
(* The memory control blocks of DOS (dos/dos_memory.cpp) as operators on   *)
(* the headers in memory.  mcb maps the segment of every header to         *)
(*    type  "M" (0x4d, more blocks follow) or "Z" (0x5a, the last one)     *)
(*    psp   its owner, MCB_FREE for none                                   *)
(*    size  the paragraphs behind the header                               *)
(* A chain is walked by address, as the code does: the next header is at   *)
(* segment + size + 1.                                                     *)
(*                                                                         *)
(* Conventional memory starts at FirstMCB; the chain of upper memory       *)
(* blocks starts at UMB_START_SEG with a system block that covers the gap  *)
(* between them.                                                           *)
(***************************************************************************)
EXTENDS Integers, Sequences, FiniteSets

CONSTANTS
    UMB_START_SEG,  \* the segment right behind conventional memory
    LastSeg,        \* the last paragraph of upper memory
    HasUmb          \* "umb" of the configuration

ASSUME McbAssumption ==
    /\ UMB_START_SEG \in Nat /\ LastSeg \in Nat /\ UMB_START_SEG > 100
    /\ UMB_START_SEG < LastSeg /\ HasUmb \in BOOLEAN

FirstMCB == 100     \* DOS_MEM_START; owners below it are no blocks
MCB_FREE == 0
MCB_DOS == 8

Segments == FirstMCB..LastSeg
Sizes == 0..LastSeg - FirstMCB

Block(type, psp, size) == [type |-> type, psp |-> psp, size |-> size]

Next0(mcb, seg) == seg + mcb[seg].size + 1

Free(mcb, seg) == mcb[seg].psp = MCB_FREE

\* The headers from start to the first Z, in the order of the walk.
Walk(mcb, start) ==
    LET from[seg \in DOMAIN mcb] ==
          IF mcb[seg].type = "M" /\ Next0(mcb, seg) \in DOMAIN mcb
          THEN <<seg>> \o from[Next0(mcb, seg)] ELSE <<seg>>
    IN from[start]

OnWalk(mcb, start) == LET w == Walk(mcb, start) IN {w[k] : k \in DOMAIN w}

-----------------------------------------------------------------------------
\* The blocks of a walk that end up in one: w[k] takes those up to w[j].
Joined(mcb, w, k, j) ==
    k = j \/ \A i \in k..j : Free(mcb, w[i])

Merged(mcb, w, k, j) ==
    Block(mcb[w[j]].type, mcb[w[k]].psp, Next0(mcb, w[j]) - w[k] - 1)

\* DOS_CompressMemory: every stretch of free blocks on the chain from
\* firstMCB becomes one block with the type of its last.
DOS_CompressMemory(mcb) ==
    LET w == Walk(mcb, FirstMCB)
        n == Len(w)
        absorbed == {w[k] : k \in {i \in 2..n : Free(mcb, w[i - 1])
                                                /\ Free(mcb, w[i])}}
        lastOf(k) == CHOOSE j \in k..n :
                        /\ Joined(mcb, w, k, j)
                        /\ j < n => ~Joined(mcb, w, k, j + 1)
    IN [seg \in DOMAIN mcb \ absorbed |->
            IF \E k \in 1..n : w[k] = seg
            THEN LET k == CHOOSE k \in 1..n : w[k] = seg
                 IN Merged(mcb, w, k, lastOf(k))
            ELSE mcb[seg]]

-----------------------------------------------------------------------------
(* DOS_AllocateMemory.  A strategy has a fit (bits 0-5) and says where to  *)
(* look: "low" (from firstMCB), "high" (bit 6, UMBs only) or "highlow"     *)
(* (bit 7, UMBs and then from firstMCB).                                   *)

Fits == {"first", "best", "last"}
Places == {"low", "high", "highlow"}
Strategies == [fit : Fits, place : Places]

\* The headers in the order they are looked at.
Searched(mcb, strat) ==
    LET low == Walk(mcb, FirstMCB)
        high == Walk(mcb, UMB_START_SEG)
    IN CASE ~HasUmb \/ strat.place = "low" -> low
         [] HasUmb /\ strat.place = "high" -> high
         [] HasUmb /\ strat.place = "highlow" -> high \o low

\* Mutant: a block one paragraph short is taken for large enough.
LargeEnoughOne(size, want) == size + 1 >= want

\* Mutant: a block of exactly the size is passed over.
LargeEnoughMore(size, want) == size > want

LargeEnough(size, want) == size >= want

\* Places in s of the blocks that can hold the request.
Fitting(mcb, s, want) ==
    {k \in DOMAIN s : Free(mcb, s[k]) /\ LargeEnough(mcb[s[k]].size, want)}

Earliest(K) == CHOOSE k \in K : \A j \in K : k <= j
Latest(K) == CHOOSE k \in K : \A j \in K : k >= j

Smallest(mcb, s, K) ==
    {k \in K : \A j \in K : mcb[s[k]].size <= mcb[s[j]].size}

Chosen(mcb, s, K, fit) ==
    CASE fit = "first" -> s[Earliest(K)]
      [] fit = "best" -> s[Earliest(Smallest(mcb, s, K))]
      [] fit = "last" -> s[Latest(K)]

\* The largest free block that was looked at, 0 when there is none.
BigSize(mcb, s) ==
    LET sizes == {0} \cup {mcb[s[k]].size : k \in {j \in DOMAIN s : Free(mcb, s[j])}}
    IN CHOOSE n \in sizes : \A m \in sizes : m <= n

\* mcb with header seg (and those in gone removed) replaced by new.
With(mcb, gone, new) ==
    [seg \in (DOMAIN mcb \ gone) \cup DOMAIN new |->
        IF seg \in DOMAIN new THEN new[seg] ELSE mcb[seg]]

\* The beginning of the free block at seg, the rest stays free behind it.
TakeFront(mcb, seg, want, psp) ==
    LET rest == seg + want + 1
    IN With(mcb, {}, [s \in {seg, rest} |->
          IF s = seg THEN Block("M", psp, want)
          ELSE Block(mcb[seg].type, MCB_FREE, mcb[seg].size - want - 1)])

\* Its end (last fit).
TakeEnd(mcb, seg, want, psp) ==
    LET new == seg + mcb[seg].size - want
    IN With(mcb, {}, [s \in {seg, new} |->
          IF s = new THEN Block(mcb[seg].type, psp, want)
          ELSE Block("M", MCB_FREE, mcb[seg].size - want - 1)])

TakeWhole(mcb, seg, psp) == [mcb EXCEPT ![seg].psp = psp]

\* The headers, whether it succeeds, the new header, and *blocks.
DOS_AllocateMemory(mcb, strat, want, psp) ==
    LET m == DOS_CompressMemory(mcb)
        s == Searched(m, strat)
        K == Fitting(m, s, want)
        seg == Chosen(m, s, K, strat.fit)
        got(r, at) == [mcb |-> r, ok |-> TRUE, seg |-> at, size |-> want]
    IN CASE K = {} ->
              [mcb |-> m, ok |-> FALSE, seg |-> 0, size |-> BigSize(m, s)]
         [] K # {} /\ m[seg].size = want -> got(TakeWhole(m, seg, psp), seg)
         [] K # {} /\ m[seg].size # want /\ strat.fit # "last" ->
              got(TakeFront(m, seg, want, psp), seg)
         [] K # {} /\ m[seg].size # want /\ strat.fit = "last" ->
              got(TakeEnd(m, seg, want, psp), seg + m[seg].size - want)

-----------------------------------------------------------------------------
(* DOS_ResizeMemory on header seg, after the chain is compressed           *)

CutBlock(m, seg, want, psp) ==
    LET rest == seg + want + 1
    IN With(m, {}, [s \in {seg, rest} |->
          IF s = seg THEN Block("M", psp, want)
          ELSE Block(m[seg].type, MCB_FREE, m[seg].size - want - 1)])

\* The following block joins in when there is one and it is free.
CanJoin(m, seg) == m[seg].type # "Z" /\ Free(m, Next0(m, seg))

JoinedSize(m, seg) == m[seg].size + m[Next0(m, seg)].size + 1

\* Joined and cut to size.
GrowAndCut(m, seg, want, psp) ==
    LET rest == seg + want + 1
        follow == Next0(m, seg)
    IN With(m, {follow}, [s \in {seg, rest} |->
          IF s = seg THEN Block("M", psp, want)
          ELSE Block(m[follow].type, MCB_FREE, JoinedSize(m, seg) - want - 1)])

GrowWhole(m, seg, psp) ==
    LET follow == Next0(m, seg)
    IN With(m, {follow}, [s \in {seg} |->
          Block(m[follow].type, psp, JoinedSize(m, seg))])

\* A request that is too large still gets all there is, and fails.
DOS_ResizeMemory(mcb, seg, want, psp) ==
    LET m == DOS_CompressMemory(mcb)
        size == m[seg].size
    IN CASE want = size -> m
         [] want < size -> CutBlock(m, seg, want, psp)
         [] want > size /\ ~CanJoin(m, seg) -> [m EXCEPT ![seg].psp = psp]
         [] want > size /\ CanJoin(m, seg) ->
              IF want < JoinedSize(m, seg) THEN GrowAndCut(m, seg, want, psp)
              ELSE GrowWhole(m, seg, psp)

DOS_FreeMemory(mcb, seg) == [mcb EXCEPT ![seg].psp = MCB_FREE]

\* Mutant: only the chain from firstMCB is looked at.
OnChainsLow(mcb) == OnWalk(mcb, FirstMCB)

OnChains(mcb) ==
    OnWalk(mcb, FirstMCB) \cup IF HasUmb THEN OnWalk(mcb, UMB_START_SEG) ELSE {}

DOS_FreeProcessMemory(mcb, psp) ==
    DOS_CompressMemory(
        [seg \in DOMAIN mcb |->
            IF seg \in OnChains(mcb) /\ mcb[seg].psp = psp
            THEN [mcb[seg] EXCEPT !.psp = MCB_FREE] ELSE mcb[seg]])

-----------------------------------------------------------------------------
(* DOS_LinkUMBsToMemChain, when the flag differs from the request          *)

\* The last header of the walk before the upper chain.
LowLast(mcb) ==
    LET w == Walk(mcb, FirstMCB)
    IN w[Earliest({k \in DOMAIN w : mcb[w[k]].type = "Z" \/ Next0(mcb, w[k]) = UMB_START_SEG})]

SetEnd(mcb, type) == [mcb EXCEPT ![LowLast(mcb)].type = type]

\* Mutant: unlinking forgets to end the low chain.
DOS_LinkUMBsForgetEnd(mcb, link) == IF link THEN SetEnd(mcb, "M") ELSE mcb

DOS_LinkUMBsToMemChain(mcb, link) == SetEnd(mcb, IF link THEN "M" ELSE "Z")
=============================================================================
