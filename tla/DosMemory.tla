----------------------------- MODULE DosMemory ------------------------------
(***************************************************************************)
(* DOS memory in use: the INT 21h calls of the running program, the UMB    *)
(* calls of the XMS driver, and programs that start others and end         *)
(* (dos/dos_memory.cpp, dos/dos_execute.cpp, ints/xms.cpp).                *)
(*                                                                         *)
(* A process is named by its PSP segment, the paragraph behind the header  *)
(* of its program block.  running holds the chain of processes, the one    *)
(* that runs last; the first is the shell, whose memory lies below the     *)
(* chain.  A program frees and resizes blocks it owns, and does not free   *)
(* the block it runs in.                                                   *)
(***************************************************************************)
EXTENDS McbChain

CONSTANTS
    GapSize,        \* the small empty block DOS starts with (4)
    LockSize,       \* the block behind it (16), "can be removed by loadfix"
    CoverSize,      \* the system block between low and upper memory
    Wants,          \* paragraphs a program asks for
    EnvSize,        \* paragraphs of an environment block
    MinSizes,       \* what programs need at least, and may get at most
    MaxSizes,
    MaxDepth,       \* bound on the processes that wait for one another
    MayTune         \* programs set the strategy and the UMB link themselves

ASSUME DosMemoryAssumption ==
    /\ {GapSize, LockSize, CoverSize, EnvSize} \subseteq Nat
    /\ MaxDepth \in Nat \ {0} /\ Wants \subseteq Nat
    /\ MinSizes \cup MaxSizes \subseteq Nat /\ MayTune \in BOOLEAN
    /\ FirstMCB + 5 + GapSize + LockSize < UMB_START_SEG
    /\ UMB_START_SEG + CoverSize + 1 < LastSeg

VARIABLES
    mcb,        \* the headers in memory
    linked,     \* dos_infoblock's UMB chain state
    strategy,   \* memAllocStrategy
    running,    \* the PSPs, parent before child
    stopped     \* the emulator has left through E_Exit

vars == <<mcb, linked, strategy, running, stopped>>

FirstShell == 90            \* DOS_FIRST_SHELL
FakePsp == 64               \* 0x40, owner of the locked block

FirstFitLow == [fit |-> "first", place |-> "low"]
UmbOnly == [fit |-> "first", place |-> "high"]

Live == ~stopped

Current == running[Len(running)]

\* DOS_SetupMemory and, with UMBs, DOS_BuildUMBChain.
LowBlocks ==
    LET gap == FirstMCB + 2
        lock == gap + GapSize + 1
        rest == lock + LockSize + 1
    IN [s \in {FirstMCB, gap, lock, rest} |->
          CASE s = FirstMCB -> Block("M", MCB_DOS, 1)
            [] s = gap -> Block("M", MCB_FREE, GapSize)
            [] s = lock -> Block("M", FakePsp, LockSize)
            [] s = rest -> Block("Z", MCB_FREE, UMB_START_SEG - rest - 1)]

HighBlocks ==
    LET umb == UMB_START_SEG + CoverSize + 1
    IN [s \in {UMB_START_SEG, umb} |->
          IF s = umb THEN Block("Z", MCB_FREE, LastSeg - umb)
          ELSE Block("M", MCB_DOS, CoverSize)]

Init ==
    /\ mcb = IF HasUmb THEN With(LowBlocks, {}, HighBlocks) ELSE LowBlocks
    /\ linked = FALSE
    /\ strategy = FirstFitLow
    /\ running = <<FirstShell>>
    /\ stopped = FALSE

-----------------------------------------------------------------------------
(* INT 21h, functions 48h, 49h, 4Ah, 58h                                   *)

Own(seg) == mcb[seg].psp = Current

Allocate(want) ==
    /\ Live
    /\ mcb' = DOS_AllocateMemory(mcb, strategy, want, Current).mcb
    /\ UNCHANGED <<linked, strategy, running, stopped>>

Resize(seg, want) ==
    /\ Live
    /\ Own(seg)
    /\ mcb' = DOS_ResizeMemory(mcb, seg, want, Current)
    /\ UNCHANGED <<linked, strategy, running, stopped>>

\* Also the XMS driver's function 11h.
FreeBlock(seg) ==
    /\ Live
    /\ Own(seg) /\ seg + 1 # Current
    /\ mcb' = DOS_FreeMemory(mcb, seg)
    /\ UNCHANGED <<linked, strategy, running, stopped>>

SetStrategy(s) ==
    /\ Live
    /\ MayTune
    /\ strategy' = s
    /\ UNCHANGED <<mcb, linked, running, stopped>>

LinkUmbs ==
    /\ Live
    /\ MayTune /\ HasUmb
    /\ linked' = ~linked
    /\ mcb' = DOS_LinkUMBsToMemChain(mcb, ~linked)
    /\ UNCHANGED <<strategy, running, stopped>>

-----------------------------------------------------------------------------
(* The XMS driver's function 10h                                           *)

\* The chains are linked for the search and then as they were.
RestoreLink(m) == IF linked THEN m ELSE DOS_LinkUMBsToMemChain(m, FALSE)

XMS_AllocateUMB(want) ==
    /\ Live
    /\ HasUmb
    /\ LET joined == IF linked THEN mcb ELSE DOS_LinkUMBsToMemChain(mcb, TRUE)
           r == DOS_AllocateMemory(joined, UmbOnly, want, Current)
       IN mcb' = RestoreLink(r.mcb)
    /\ UNCHANGED <<linked, strategy, running, stopped>>

-----------------------------------------------------------------------------
(* DOS_Execute and DOS_Terminate                                           *)

Whole == LastSeg + 1    \* 0xffff: more than there can be

\* Mutant: the request is the size of the file, whatever is free.
MemSizeUnchecked(maxfree, maxsize) == maxsize

MemSize(maxfree, maxsize) == IF maxfree < maxsize THEN maxfree ELSE maxsize

SetOwner(m, segs, psp) ==
    [s \in DOMAIN m |-> IF s \in segs THEN [m[s] EXCEPT !.psp = psp] ELSE m[s]]

\* The environment is allocated, the largest block asked for and then the
\* program's block, all by the parent; SetupPSP gives both to the child.
Execute(minsize, maxsize) ==
    /\ Live
    /\ Len(running) < MaxDepth
    /\ \E env \in {DOS_AllocateMemory(mcb, strategy, EnvSize, Current)} :
       \E query \in {DOS_AllocateMemory(env.mcb, strategy, Whole, Current)} :
       \E prog \in {DOS_AllocateMemory(query.mcb, strategy,
                                       MemSize(query.size, maxsize), Current)} :
          \/ /\ ~env.ok                     \* MakeEnv fails
             /\ mcb' = env.mcb
             /\ UNCHANGED <<running, stopped>>
          \/ /\ env.ok /\ query.size < minsize
             /\ mcb' = DOS_FreeMemory(query.mcb, env.seg)
             /\ UNCHANGED <<running, stopped>>
          \/ /\ env.ok /\ query.size >= minsize /\ prog.ok
             /\ mcb' = SetOwner(prog.mcb, {env.seg, prog.seg}, prog.seg + 1)
             /\ running' = Append(running, prog.seg + 1)
             /\ UNCHANGED stopped
          \/ /\ env.ok /\ query.size >= minsize /\ ~prog.ok
             /\ mcb' = prog.mcb
             /\ stopped' = TRUE             \* "DOS:Exec error in memory"
             /\ UNCHANGED running
    /\ UNCHANGED <<linked, strategy>>

Front(s) == SubSeq(s, 1, Len(s) - 1)

\* Mutant: the memory of the current process is freed, which by then is
\* the parent.
TerminateParent ==
    /\ Live
    /\ Len(running) > 1
    /\ mcb' = DOS_FreeProcessMemory(mcb, running[Len(running) - 1])
    /\ running' = Front(running)
    /\ UNCHANGED <<linked, strategy, stopped>>

\* The shell does not end: it is its own parent.
Terminate ==
    /\ Live
    /\ Len(running) > 1
    /\ mcb' = DOS_FreeProcessMemory(mcb, Current)
    /\ running' = Front(running)
    /\ UNCHANGED <<linked, strategy, stopped>>

\* Function 31h: all blocks stay, the program's own is resized.
StayResident(keep) ==
    /\ Live
    /\ Len(running) > 1
    /\ mcb' = DOS_ResizeMemory(mcb, Current - 1, keep, Current)
    /\ running' = Front(running)
    /\ UNCHANGED <<linked, strategy, stopped>>

\* LOADFIX -D frees the locked block.  LOADFIX that loads a program, which takes
\* memory in the name of the locked block's owner, runs the program and gives the
\* memory back, is left out.
RemoveLock ==
    /\ Live
    /\ mcb' = DOS_FreeProcessMemory(mcb, FakePsp)
    /\ UNCHANGED <<linked, strategy, running, stopped>>

Next ==
    \/ \E want \in Wants : Allocate(want)
    \/ \E want \in Wants : XMS_AllocateUMB(want)
    \/ \E seg \in DOMAIN mcb : FreeBlock(seg)
    \/ \E seg \in DOMAIN mcb, want \in Wants : Resize(seg, want)
    \/ \E s \in Strategies : SetStrategy(s)
    \/ LinkUmbs
    \/ \E minsize \in MinSizes, maxsize \in MaxSizes : Execute(minsize, maxsize)
    \/ Terminate
    \/ \E keep \in Wants : StayResident(keep)
    \/ RemoveLock

Spec == Init /\ [][Next]_vars

-----------------------------------------------------------------------------
(* Properties                                                              *)

TypeOK ==
    /\ DOMAIN mcb \subseteq Segments
    /\ \A s \in DOMAIN mcb :
          mcb[s] \in [type : {"M", "Z"}, psp : Nat, size : Sizes]
    /\ linked \in BOOLEAN /\ strategy \in Strategies
    /\ running \in Seq(Nat) /\ stopped \in BOOLEAN

\* The blocks of a walk from start cover the memory from there to last: a
\* walk meets every header between them, skips none and ends in a Z.
Tiles(start, last) ==
    LET w == Walk(mcb, start)
    IN /\ {w[k] : k \in DOMAIN w} = {s \in DOMAIN mcb : start <= s /\ s <= last}
       /\ mcb[w[Len(w)]].type = "Z"
       /\ Next0(mcb, w[Len(w)]) = last + 1

LowEnd == UMB_START_SEG - 1

\* No call leaves a hole, an overlap or an open end in the chains, and the
\* low chain runs on into the upper one exactly while DOS says so.
ChainsTile ==
    /\ Tiles(FirstMCB, IF HasUmb /\ linked THEN LastSeg ELSE LowEnd)
    /\ HasUmb => Tiles(UMB_START_SEG, LastSeg)

\* dos_execute.cpp:351 asks for no more than the query before it reported
\* and leaves the emulator should that fail.  It never does: the size a
\* failed request reports can be had at once.
ExecutionNeverFails == ~stopped

\* The chain from start has n free paragraphs in a row behind a header, in one
\* block or, where the search finds blocks joined, in several.
FreeStretch(start, n, joins) ==
    LET w == Walk(mcb, start)
    IN \E i \in DOMAIN w : \E j \in i..Len(w) :
         /\ \A k \in i..j : Free(mcb, w[k])
         /\ i = j \/ joins
         /\ Next0(mcb, w[j]) - w[i] - 1 >= n

\* What the strategy looks at could hold n paragraphs.  DOS_CompressMemory starts
\* at firstMCB (dos_memory.cpp:31), so that in upper memory free neighbours are
\* joined only while the low chain runs on into it.
Offered(n) ==
    \/ ~(HasUmb /\ strategy.place = "high") /\ FreeStretch(FirstMCB, n, TRUE)
    \/ HasUmb /\ strategy.place # "low" /\ FreeStretch(UMB_START_SEG, n, linked)

\* Under every strategy a request fails only if the chains it looks at have no
\* free stretch that holds it, whatever blocks the stretch is in; while upper
\* memory is not linked, a stretch there counts only if it is one block, and a
\* request that would fit into two free neighbours is refused.
NoMissedFit ==
    \A want \in Wants \cup {0} :
       DOS_AllocateMemory(mcb, strategy, want, Current).ok <=> Offered(want)

\* A granted block has the size asked for, was free in every paragraph and
\* lies where the strategy says; the largest size a refusal names is the
\* largest that is granted.
WasFree(seg, want) ==
    \A s \in DOMAIN mcb :
       s <= seg + want /\ seg <= Next0(mcb, s) - 1 => Free(mcb, s)

GrantIsSound ==
    \A want \in Wants \cup {0} :
       \A r \in {DOS_AllocateMemory(mcb, strategy, want, Current)} :
          IF r.ok
          THEN /\ r.mcb[r.seg].size = want /\ r.mcb[r.seg].psp = Current
               /\ WasFree(r.seg, want)
               /\ HasUmb /\ strategy.place = "high" => r.seg > UMB_START_SEG
          ELSE /\ want > 0 => r.size < want
               /\ r.size > 0 =>
                    DOS_AllocateMemory(r.mcb, strategy, r.size, Current).ok

\* Both, in every state the calls can reach.
SearchIsRight == NoMissedFit /\ GrantIsSound

\* The blocks of a process as the process knows them.
BlocksOf(psp) == {<<s, mcb[s].size>> : s \in {t \in DOMAIN mcb : mcb[t].psp = psp}}

\* Every process that waits keeps its blocks whatever the running program
\* and its children do, and so does what stays resident.
OthersKeepBlocks ==
    [][\A psp \in {mcb[s].psp : s \in DOMAIN mcb} \ {MCB_FREE, FakePsp, Current} :
          BlocksOf(psp)' = BlocksOf(psp)]_vars

\* Every block with an owner belongs to a process that still holds its
\* program's block, running or resident: a program that ends leaves nothing
\* behind, in either chain, that nobody could ever give back.
OwnersHoldTheirProgram ==
    \A s \in DOMAIN mcb :
       LET psp == mcb[s].psp
       IN \/ psp \in {MCB_FREE, MCB_DOS, FakePsp, FirstShell}
          \/ psp - 1 \in DOMAIN mcb /\ mcb[psp - 1].psp = psp

=============================================================================
