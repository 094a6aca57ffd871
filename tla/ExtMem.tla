------------------------------- MODULE ExtMem -------------------------------
(***************************************************************************)
(* Extended memory: the XMS driver (ints/xms.cpp), the EMS driver          *)
(* (ints/ems.cpp) and the VCPI page calls share the page allocator of      *)
(* hardware/memory.cpp.  One action is one call of a DOS program that      *)
(* changes state; a call that returns an error before it changes anything  *)
(* is no step.                                                             *)
(*                                                                         *)
(* contents stands for what a program keeps in its pages: it fills each    *)
(* page it is given with the page's own place in the block, and the driver *)
(* moves what is there with MEM_BlockCopy.  What a free page holds matters *)
(* to nobody and is left out.                                              *)
(***************************************************************************)
EXTENDS MemPages

CONSTANTS
    XmsHandles,     \* handles 1..XmsHandles (XMS_HANDLES - 1 in the code)
    EmsHandles,     \* handles 0..EmsHandles, 0 is the system's
    PerEms,         \* pages of an EMS page (4 in the code)
    PerKb,          \* kilobytes of a page (4 in the code)
    NewSizes,       \* kilobytes an XMS allocation asks for
    Sizes,          \* kilobytes an XMS resize asks for
    EmsSizes,       \* EMS pages an EMS call asks for
    SystemPages,    \* EMS pages of the system handle
    MaxLock,        \* limit of the lock count (255 in the code, 0 to leave locks out)
    MaxVcpi         \* bound on the pages the VCPI client holds

ASSUME ExtMemAssumption ==
    /\ {XmsHandles, EmsHandles, PerEms, PerKb} \subseteq Nat \ {0}
    /\ MaxLock \in Nat
    /\ MaxVcpi \in Nat
    /\ NewSizes \cup Sizes \cup EmsSizes \subseteq Nat
    /\ SystemPages \in Nat \ {0} /\ SystemPages * PerEms < N

VARIABLES
    mhandles,   \* memory.mhandles and the word behind it
    contents,   \* what the program has stored in each page
    xms,        \* xms_handles
    emm,        \* emm_handles: pages (Null for NULL_HANDLE) and mem
    vcpi,       \* the pages a VCPI client has allocated
    stopped     \* the emulator has left through E_Exit

vars == <<mhandles, contents, xms, emm, vcpi, stopped>>

Null == -1      \* NULL_HANDLE

XmsIds == 1..XmsHandles
EmsIds == 0..EmsHandles

Live == ~stopped

Empty == <<>>

\* The program fills the pages of owner's block s from place len + 1 on.
Filled(old, mh, owner, s, len) ==
    [p \in Pages |->
        IF mh[p] = 0 THEN Empty
        ELSE IF \E k \in len + 1..Len(s) : s[k] = p
             THEN <<owner, CHOOSE k \in len + 1..Len(s) : s[k] = p>>
             ELSE old[p]]

\* No page changes but those given back.
Erased(mh) == [p \in Pages |-> IF mh[p] = 0 THEN Empty ELSE contents[p]]

FreeXms == [free |-> TRUE, mem |-> EndOfBlock, size |-> 0, locked |-> 0]
FreeEms == [pages |-> Null, mem |-> 0]

\* Memory is cleared, all handles are free, and the EMS driver has taken its
\* system handle (EMM_AllocateSystemHandle).
Init ==
    \E word \in {0, EndOfBlock} :
       LET clear == [p \in 1..Beyond |-> IF p = Beyond THEN word ELSE 0]
           sys == MEM_AllocatePages(clear, SystemPages * PerEms, FALSE)
       IN /\ mhandles = sys.mh
          /\ contents = Filled([p \in Pages |-> Empty], sys.mh, <<"ems", 0>>,
                               Chain(sys.mh, sys.handle), 0)
          /\ xms = [h \in XmsIds |-> FreeXms]
          /\ emm = [h \in EmsIds |-> IF h = 0
                      THEN [pages |-> SystemPages, mem |-> sys.handle]
                      ELSE FreeEms]
          /\ vcpi = {}
          /\ stopped = FALSE

\* Mutant: the kilobytes are rounded down.
PagesOfKbDown(size) == size \div PerKb

PagesOfKb(size) == (size + PerKb - 1) \div PerKb

LowestOf(ids) == CHOOSE h \in ids : \A g \in ids : h <= g

-----------------------------------------------------------------------------
(* XMS                                                                     *)

XmsFree == {h \in XmsIds : xms[h].free}
InvalidHandle(h) == xms[h].free     \* numbers outside XmsIds never get here

\* Mutant: the block is not asked for in one piece.
XmsBlockForScattered(size) ==
    IF size # 0 THEN MEM_AllocatePages(mhandles, PagesOfKb(size), FALSE)
    ELSE [mh |-> mhandles, handle |-> MEM_GetNextFreePage(mhandles)]

\* A block of no size holds on to the next free page without marking it.
XmsBlockFor(size) ==
    IF size # 0 THEN MEM_AllocatePages(mhandles, PagesOfKb(size), TRUE)
    ELSE [mh |-> mhandles, handle |-> MEM_GetNextFreePage(mhandles)]

XMS_AllocateMemory(size) ==
    /\ Live
    /\ XmsFree # {}
    /\ LET h == LowestOf(XmsFree)
           block == XmsBlockFor(size)
       IN /\ size # 0 => block.handle # 0
          /\ mhandles' = block.mh
          /\ contents' = Filled(contents, block.mh, <<"xms", h>>,
                                Chain(block.mh, block.handle), 0)
          /\ xms' = [xms EXCEPT ![h] = [free |-> FALSE, mem |-> block.handle,
                                        size |-> size, locked |-> 0]]
    /\ UNCHANGED <<emm, vcpi, stopped>>

\* A lock does not keep a block from being freed, and the count stays.
XMS_FreeMemory(h) ==
    /\ Live /\ ~InvalidHandle(h)
    /\ mhandles' = MEM_ReleasePages(mhandles, xms[h].mem)
    /\ xms' = [xms EXCEPT ![h].mem = EndOfBlock, ![h].size = 0, ![h].free = TRUE]
    /\ contents' = Erased(mhandles')
    /\ UNCHANGED <<emm, vcpi, stopped>>

\* Mutant: the count runs past what the byte can hold.
CountLockOn(n) == n + 1

\* The count is a byte and stays at its limit.
CountLock(n) == IF n < MaxLock THEN n + 1 ELSE n

XMS_LockMemory(h) ==
    /\ Live /\ ~InvalidHandle(h)
    /\ xms' = [xms EXCEPT ![h].locked = CountLock(@)]
    /\ UNCHANGED <<mhandles, contents, emm, vcpi, stopped>>

XMS_UnlockMemory(h) ==
    /\ Live /\ ~InvalidHandle(h) /\ xms[h].locked > 0
    /\ xms' = [xms EXCEPT ![h].locked = @ - 1]
    /\ UNCHANGED <<mhandles, contents, emm, vcpi, stopped>>

\* Mutant: the lock is not looked at.
MayResizeLocked(h) == ~InvalidHandle(h)

\* "Block has to be unlocked".
MayResize(h) == ~InvalidHandle(h) /\ xms[h].locked = 0

\* The handle is passed by reference: a failure can still change it.
XMS_ResizeMemory(h, size) ==
    /\ Live /\ MayResize(h)
    /\ LET r == MEM_ReAllocatePages(mhandles, xms[h].mem, PagesOfKb(size), TRUE)
       IN /\ mhandles' = r.mh
          /\ contents' = Filled([p \in Pages |-> contents[r.from[p]]], r.mh,
                                <<"xms", h>>, Chain(r.mh, r.handle),
                                Len(Chain(mhandles, xms[h].mem)))
          /\ xms' = [xms EXCEPT ![h].mem = r.handle,
                                ![h].size = IF r.ok THEN size ELSE @]
    /\ UNCHANGED <<emm, vcpi, stopped>>

-----------------------------------------------------------------------------
(* EMS                                                                     *)

EmsFree == {h \in EmsIds \ {0} : emm[h].pages = Null}
ValidHandle(h) == emm[h].pages # Null

\* Function 5A may ask for no pages at all (can_allocate_zpages).
EMM_AllocateMemory(n, zpages) ==
    /\ Live
    /\ n = 0 => zpages
    /\ MEM_FreeTotal(mhandles) \div PerEms >= n
    /\ EmsFree # {}
    /\ LET h == LowestOf(EmsFree)
           block == MEM_AllocatePages(mhandles, n * PerEms, FALSE)
       IN /\ mhandles' = block.mh
          /\ emm' = [emm EXCEPT ![h] = [pages |-> n, mem |-> block.handle]]
          /\ contents' = Filled(contents, block.mh, <<"ems", h>>,
                                Chain(block.mh, block.handle), 0)
    /\ UNCHANGED <<xms, vcpi, stopped>>

\* A handle with pages is resized; OUT_OF_LOG leaves it as it was.
ResizeEms(h, n) ==
    /\ emm[h].pages # 0
    /\ LET r == MEM_ReAllocatePages(mhandles, emm[h].mem, n * PerEms, FALSE)
       IN /\ r.ok
          /\ mhandles' = r.mh
          /\ emm' = [emm EXCEPT ![h] = [pages |-> n, mem |-> r.handle]]
          /\ contents' = Filled(contents, r.mh, <<"ems", h>>,
                                Chain(r.mh, r.handle), emm[h].pages * PerEms)
    /\ UNCHANGED stopped

\* A handle without pages gets a new block, and failing to is fatal.
RefillEms(h, n) ==
    /\ emm[h].pages = 0
    /\ LET block == MEM_AllocatePages(mhandles, n * PerEms, FALSE)
       IN IF block.handle = 0
          THEN stopped' = TRUE /\ UNCHANGED <<mhandles, contents, emm>>
          ELSE /\ mhandles' = block.mh
               /\ emm' = [emm EXCEPT ![h] = [pages |-> n, mem |-> block.handle]]
               /\ contents' = Filled(contents, block.mh, <<"ems", h>>,
                                     Chain(block.mh, block.handle), 0)
               /\ UNCHANGED stopped

EMM_ReallocatePages(h, n) ==
    /\ Live /\ ValidHandle(h)
    /\ ResizeEms(h, n) \/ RefillEms(h, n)
    /\ UNCHANGED <<xms, vcpi>>

\* "OS handle is NEVER deallocated".
EMM_ReleaseMemory(h) ==
    /\ Live /\ ValidHandle(h)
    /\ mhandles' = IF emm[h].pages # 0
                   THEN MEM_ReleasePages(mhandles, emm[h].mem) ELSE mhandles
    /\ emm' = [emm EXCEPT ![h] = [pages |-> IF h = 0 THEN 0 ELSE Null, mem |-> 0]]
    /\ contents' = Erased(mhandles')
    /\ UNCHANGED <<xms, vcpi, stopped>>

-----------------------------------------------------------------------------
(* VCPI: single pages.  A client gives back pages it was given.            *)

VCPI_AllocatePage ==
    /\ Live /\ Cardinality(vcpi) < MaxVcpi
    /\ LET block == MEM_AllocatePages(mhandles, 1, FALSE)
       IN /\ block.handle # 0
          /\ mhandles' = block.mh
          /\ vcpi' = vcpi \cup {block.handle}
          /\ contents' = Filled(contents, block.mh, <<"vcpi", 0>>,
                                Chain(block.mh, block.handle), 0)
    /\ UNCHANGED <<xms, emm, stopped>>

VCPI_FreePage(p) ==
    /\ Live
    /\ mhandles' = MEM_ReleasePages(mhandles, p)
    /\ vcpi' = vcpi \ {p}
    /\ contents' = Erased(mhandles')
    /\ UNCHANGED <<xms, emm, stopped>>

-----------------------------------------------------------------------------
Next ==
    \/ \E size \in NewSizes : XMS_AllocateMemory(size)
    \/ \E h \in XmsIds : \/ XMS_FreeMemory(h)
                         \/ XMS_LockMemory(h)
                         \/ XMS_UnlockMemory(h)
                         \/ \E size \in Sizes : XMS_ResizeMemory(h, size)
    \/ \E n \in EmsSizes, zpages \in BOOLEAN : EMM_AllocateMemory(n, zpages)
    \/ \E h \in EmsIds : \/ EMM_ReleaseMemory(h)
                         \/ \E n \in EmsSizes : EMM_ReallocatePages(h, n)
    \/ VCPI_AllocatePage
    \/ \E p \in vcpi : VCPI_FreePage(p)

Spec == Init /\ [][Next]_vars

-----------------------------------------------------------------------------
(* Properties                                                              *)

Owners == ({"xms"} \X XmsIds) \cup ({"ems"} \X EmsIds) \cup {<<"vcpi", 0>>}

TypeOK ==
    /\ mhandles \in [1..Beyond -> Words]
    /\ contents \in [Pages -> {Empty} \cup (Owners \X (1..Beyond))]
    /\ xms \in [XmsIds -> [free : BOOLEAN, mem : Words, size : Nat,
                           locked : 0..MaxLock]]
    /\ emm \in [EmsIds -> [pages : Nat \cup {Null}, mem : Words]]
    /\ vcpi \subseteq 1..Beyond
    /\ stopped \in BOOLEAN

\* The pages an XMS or EMS handle stands for, in the order they are addressed.
XmsBlock(h) == IF xms[h].size = 0 THEN <<>> ELSE Chain(mhandles, xms[h].mem)
EmsBlock(h) == IF emm[h].pages < 1 THEN <<>> ELSE Chain(mhandles, emm[h].mem)

PagesIn(s) == {s[k] : k \in DOMAIN s}

Held ==
    [o \in Owners |->
        CASE o[1] = "xms" -> PagesIn(XmsBlock(o[2]))
          [] o[1] = "ems" -> PagesIn(EmsBlock(o[2]))
          [] o[1] = "vcpi" -> UNION {PagesIn(Chain(mhandles, p)) : p \in vcpi}]

HeldPages == UNION {Held[o] : o \in Owners}

\* A word of the array is zero exactly when no handle stands for its page:
\* no page is lost to every later request, and none in use is handed out.
UsedIffHeld == Pages \ FreePages(mhandles) = Pages \cap HeldPages

\* A handle has as many pages as its driver says, so that no logical page
\* and no offset it accepts leads past the end of the block; and since XMS moves
\* and locks address a block by its first page alone
\* ("xms_handles[handle].mem*4096"), the pages of an XMS block are neighbours.
BlocksWhole ==
    /\ \A h \in XmsIds : ~xms[h].free =>
          LET size == xms[h].size
              n == Len(XmsBlock(h))
          IN size <= n * PerKb /\ n * PerKb < size + PerKb
    /\ \A h \in EmsIds : ValidHandle(h) =>
          Len(EmsBlock(h)) = emm[h].pages * PerEms
    /\ \A h \in XmsIds :
       LET s == XmsBlock(h)
       IN \A k \in 1..Len(s) - 1 : s[k + 1] = s[k] + 1

\* The scan of BestMatch finds the first shortest run that is long enough.
BestMatchIsShortest ==
    \A size \in 1..N : BestMatch(mhandles, size) = ShortestFit(mhandles, size)

InPlace(owner, s) ==
    \A k \in DOMAIN s : s[k] \in Pages => contents[s[k]] = <<owner, k>>

\* What a program stored in a block stays at its place in the block as long
\* as the block has that page, whatever is allocated, moved or freed.
ContentsKept ==
    /\ \A h \in XmsIds : InPlace(<<"xms", h>>, XmsBlock(h))
    /\ \A h \in EmsIds : InPlace(<<"ems", h>>, EmsBlock(h))

\* A locked block keeps its pages, at the address the lock call returned,
\* until it is unlocked or freed.
LockedStays ==
    [][\A h \in XmsIds :
         xms[h].locked > 0 /\ ~xms[h].free /\ ~xms'[h].free =>
            XmsBlock(h)' = XmsBlock(h)]_vars

Ownership == INSTANCE PageOwners WITH Pages <- 1..Beyond, held <- Held

\* The drivers share the pages as PageOwners says.
ImplementsOwnership == Ownership!Spec

-----------------------------------------------------------------------------
(* What the code says of itself and does not keep.                         *)

\* "Check if this is a free page" (memory.cpp:348): a page the allocator
\* takes for free belongs to no block that a program may use.
FreePagesUnheld ==
    FreePages(mhandles) \cap HeldPages = {}

\* "EMS:Memory allocation failure during reallocation" (ems.cpp:279): the
\* emulator is left only for what cannot happen.
NeverLeaves == ~stopped
=============================================================================
