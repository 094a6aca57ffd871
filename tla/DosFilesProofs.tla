--------------------------- MODULE DosFilesProofs ---------------------------
(***************************************************************************)
(* Proofs about open files for every size of Files and of a PSP's table,   *)
(* every set of processes and every depth: the reference counts are right, *)
(* what is held is open, a process finds its files as it left them, and    *)
(* the shell's redirections reach a command and are undone after it.       *)
(*                                                                         *)
(* Good is what every call of dos_files.cpp and dos_classes.cpp preserves: *)
(* one lemma per call.  The shell's lines chain these calls, and a step of *)
(* the system is one call or one chain.                                    *)
(***************************************************************************)
EXTENDS DosFiles, FiniteSetTheorems, WellFoundedInduction, TLAPS

File == [name : Names \cup {"none"}, refCtr : Nat, open : BOOLEAN,
         private : BOOLEAN]

State == [files : [Slots -> File],
          tables : [Psps -> [Entries -> Slots \cup {None}]]]

HeldBy(s, h) == {pe \in Psps \X Entries : s.tables[pe[1]][pe[2]] = h}

Counted(s) == \A h \in Slots : s.files[h].refCtr = Cardinality(HeldBy(s, h))

Filled(s) ==
    \A h \in Slots : \/ s.files[h] = Empty
                     \/ s.files[h].name \in Names /\ s.files[h].refCtr > 0

HeldOpen(s) == \A h \in Slots : HeldBy(s, h) # {} => s.files[h].open

Private(s) ==
    \A h \in Slots : s.files[h].private =>
       \A pe, qe \in HeldBy(s, h) : pe[1] = qe[1]

\* A process that is not there holds nothing.
OthersClosed(s, P) ==
    \A p \in Psps \ P : \A e \in Entries : s.tables[p][e] = None

\* s is what the calls leave behind while the processes P run, wait or stay.
Good(s, P) ==
    /\ s \in State
    /\ Counted(s) /\ Filled(s) /\ HeldOpen(s) /\ Private(s)
    /\ OthersClosed(s, P)

\* From s to t no process but p lost an entry, or the file it names.
Keeps(s, t, p) ==
    \A q \in Psps \ {p} :
       /\ t.tables[q] = s.tables[q]
       /\ \A e \in Entries :
             LET h == s.tables[q][e]
             IN h \in Slots => t.files[h].name = s.files[h].name

-----------------------------------------------------------------------------

LEMMA Bytes ==
  /\ None \notin Slots /\ None \notin Entries
  /\ Slots \subseteq Nat /\ Entries \subseteq Nat
  /\ 0 \in Entries /\ 1 \in Entries /\ 2 \in Entries
BY DosFilesAssumption DEF None, Slots, Entries

LEMMA FiniteHolders ==
  ASSUME NEW s, NEW h
  PROVE  IsFiniteSet(HeldBy(s, h)) /\ Cardinality(HeldBy(s, h)) \in Nat
<1>1. IsFiniteSet(Entries)
  BY FS_Interval, DosFilesAssumption DEF Entries, None
<1>2. IsFiniteSet(Psps \X Entries)
  BY <1>1, FS_Product, DosFilesAssumption
<1>3. HeldBy(s, h) \in SUBSET (Psps \X Entries)
  BY DEF HeldBy
<1>4. IsFiniteSet(HeldBy(s, h))
  BY <1>2, <1>3, FS_Subset
<1> QED
  BY <1>4, FS_CardinalityType

LEMMA EmptyIsFile ==
  /\ Empty \in File
  /\ Empty.refCtr = 0 /\ Empty.name = "none" /\ "none" \notin Names
  /\ ~Empty.private /\ ~Empty.open
BY DosFilesAssumption DEF Empty, File, Names

\* An entry that was free now names a slot that holds the file f.
LEMMA Hold ==
  ASSUME NEW P \in SUBSET Psps, NEW s, Good(s, P), NEW p \in P,
         NEW e \in Entries, s.tables[p][e] = None, NEW h \in Slots,
         NEW f \in File, f.name \in Names, f.open,
         f.refCtr = s.files[h].refCtr,
         f.private => \A pe \in HeldBy(s, h) : pe[1] = p,
         HeldBy(s, h) = {} \/ f.name = s.files[h].name,
         NEW t, t \in State,
         t.files = [s.files EXCEPT ![h] = [f EXCEPT !.refCtr = f.refCtr + 1]],
         t.tables = [s.tables EXCEPT ![p][e] = h]
  PROVE  Good(t, P) /\ Keeps(s, t, p)
<1> DEFINE g == [f EXCEPT !.refCtr = f.refCtr + 1]
<1>1. s \in State /\ p \in Psps /\ h # None
  BY Bytes DEF Good
<1>2. \A k \in Slots \ {h} : t.files[k] = s.files[k] /\ HeldBy(t, k) = HeldBy(s, k)
  <2>1. \A k \in Slots \ {h} : t.files[k] = s.files[k]
    BY <1>1 DEF State
  <2>2. ASSUME NEW k \in Slots \ {h}
        PROVE  HeldBy(t, k) = HeldBy(s, k)
    <3>1. \A q \in Psps, x \in Entries : t.tables[q][x] = k <=> s.tables[q][x] = k
      BY <1>1, <2>2, Bytes DEF State
    <3> QED
      BY <3>1 DEF HeldBy
  <2> QED
    BY <2>1, <2>2
<1>3. HeldBy(t, h) = HeldBy(s, h) \cup {<<p, e>>} /\ <<p, e>> \notin HeldBy(s, h)
  <2>1. \A q \in Psps, x \in Entries :
           t.tables[q][x] = h <=> s.tables[q][x] = h \/ (q = p /\ x = e)
    BY <1>1 DEF State
  <2>2. <<p, e>> \in Psps \X Entries /\ s.tables[p][e] # h
    BY <1>1
  <2> QED
    BY <2>1, <2>2 DEF HeldBy
<1>4. /\ t.files[h] = g /\ g.name = f.name /\ g.refCtr = f.refCtr + 1
      /\ g.open = f.open /\ g.private = f.private
      /\ f.refCtr \in Nat
  BY <1>1 DEF State, File
<1> HIDE DEF g
<1>5. Counted(t)
  <2>1. Cardinality(HeldBy(t, h)) = Cardinality(HeldBy(s, h)) + 1
    BY <1>3, FiniteHolders, FS_AddElement
  <2>2. t.files[h].refCtr = Cardinality(HeldBy(t, h))
    BY <1>4, <2>1 DEF Good, Counted
  <2>3. \A k \in Slots \ {h} : t.files[k].refCtr = Cardinality(HeldBy(t, k))
    BY <1>2 DEF Good, Counted
  <2> QED
    BY <2>2, <2>3 DEF Counted
<1>6. Filled(t)
  BY <1>2, <1>4 DEF Good, Filled
<1>7. HeldOpen(t)
  BY <1>2, <1>4 DEF Good, HeldOpen
<1>8. Private(t)
  BY <1>2, <1>3, <1>4 DEF Good, Private
<1>9. OthersClosed(t, P)
  BY <1>1 DEF Good, OthersClosed, State
<1>10. Keeps(s, t, p)
  <2>1. \A q \in Psps \ {p} : t.tables[q] = s.tables[q]
    BY <1>1 DEF State
  <2>2. ASSUME NEW q \in Psps \ {p}, NEW x \in Entries, s.tables[q][x] \in Slots
        PROVE  t.files[s.tables[q][x]].name = s.files[s.tables[q][x]].name
    <3>1. CASE s.tables[q][x] = h
      <4>1. <<q, x>> \in HeldBy(s, h)
        BY <3>1 DEF HeldBy
      <4> QED
        BY <3>1, <4>1, <1>4
    <3>2. CASE s.tables[q][x] # h
      BY <3>2, <2>2, <1>2
    <3> QED
      BY <3>1, <3>2
  <2> QED
    BY <2>1, <2>2 DEF Keeps
<1> QED
  BY <1>5, <1>6, <1>7, <1>8, <1>9, <1>10 DEF Good

\* An entry that named a slot is free again.
LEMMA Release ==
  ASSUME NEW P \in SUBSET Psps, NEW s, Good(s, P), NEW p \in Psps,
         NEW e \in Entries, NEW h \in Slots, s.tables[p][e] = h,
         NEW t, t \in State,
         t.files = [s.files EXCEPT ![h] =
                      IF s.files[h].refCtr <= 1 THEN Empty
                      ELSE [s.files[h] EXCEPT !.refCtr = s.files[h].refCtr - 1]],
         t.tables = [s.tables EXCEPT ![p][e] = None]
  PROVE  Good(t, P) /\ Keeps(s, t, p)
<1> DEFINE n == s.files[h].refCtr
           g == IF n <= 1 THEN Empty ELSE [s.files[h] EXCEPT !.refCtr = n - 1]
<1>1. s \in State /\ h # None
  BY Bytes DEF Good
<1>2. \A k \in Slots \ {h} : t.files[k] = s.files[k] /\ HeldBy(t, k) = HeldBy(s, k)
  <2>1. \A k \in Slots \ {h} : t.files[k] = s.files[k]
    BY <1>1 DEF State
  <2>2. ASSUME NEW k \in Slots \ {h}
        PROVE  HeldBy(t, k) = HeldBy(s, k)
    <3>1. \A q \in Psps, x \in Entries : t.tables[q][x] = k <=> s.tables[q][x] = k
      BY <1>1, <2>2, Bytes DEF State
    <3> QED
      BY <3>1 DEF HeldBy
  <2> QED
    BY <2>1, <2>2
<1>3. HeldBy(t, h) = HeldBy(s, h) \ {<<p, e>>} /\ <<p, e>> \in HeldBy(s, h)
  <2>1. \A q \in Psps, x \in Entries :
           t.tables[q][x] = h <=> s.tables[q][x] = h /\ ~(q = p /\ x = e)
    BY <1>1 DEF State
  <2> QED
    BY <2>1 DEF HeldBy
<1>4. t.files[h] = g /\ n \in Nat /\ n = Cardinality(HeldBy(s, h))
  BY <1>1 DEF State, File, Good, Counted
<1>5. Cardinality(HeldBy(t, h)) = n - 1 /\ n - 1 \in Nat
  <2>1. Cardinality(HeldBy(t, h)) = Cardinality(HeldBy(s, h)) - 1
    <3>1. IsFiniteSet(HeldBy(s, h))
      BY FiniteHolders
    <3>2. Cardinality(HeldBy(s, h) \ {<<p, e>>}) = Cardinality(HeldBy(s, h)) - 1
      BY <3>1, <1>3, FS_RemoveElement
    <3> QED
      BY <3>2, <1>3
  <2>2. Cardinality(HeldBy(t, h)) \in Nat
    BY FiniteHolders
  <2> HIDE DEF n
  <2> QED
    BY <2>1, <2>2, <1>4
<1>6. CASE n = 1
  <2>1. HeldBy(t, h) = {} /\ t.files[h] = Empty
    BY <1>4, <1>5, <1>6, FiniteHolders, FS_EmptySet
  <2> HIDE DEF g, n
  <2>2. Counted(t)
    <3>1. t.files[h].refCtr = Cardinality(HeldBy(t, h))
      <4>1. Cardinality(HeldBy(t, h)) = 0
        BY <1>5, <1>6
      <4>2. t.files[h].refCtr = 0
        BY <2>1, EmptyIsFile
      <4> QED
        BY <4>1, <4>2
    <3>2. \A k \in Slots \ {h} : t.files[k].refCtr = Cardinality(HeldBy(t, k))
      BY <1>2 DEF Good, Counted
    <3> QED
      BY <3>1, <3>2 DEF Counted
  <2>3. Filled(t)
    BY <1>2, <2>1 DEF Good, Filled
  <2>4. HeldOpen(t)
    BY <1>2, <2>1 DEF Good, HeldOpen
  <2>5. Private(t)
    BY <1>2, <2>1 DEF Good, Private
  <2>6. \A q \in Psps \ {p}, x \in Entries : s.tables[q][x] # h
    <3> SUFFICES ASSUME NEW q \in Psps \ {p}, NEW x \in Entries, s.tables[q][x] = h
                 PROVE  FALSE
      OBVIOUS
    <3>1. <<q, x>> \in HeldBy(s, h) /\ <<q, x>> # <<p, e>>
      BY DEF HeldBy
    <3> QED
      BY <3>1, <2>1, <1>3
  <2>7. Keeps(s, t, p)
    <3>1. \A q \in Psps \ {p} : t.tables[q] = s.tables[q]
      BY <1>1 DEF State
    <3> QED
      BY <3>1, <2>6, <1>2 DEF Keeps
  <2>8. OthersClosed(t, P)
    BY <1>1, Bytes DEF Good, OthersClosed, State
  <2> QED
    BY <2>2, <2>3, <2>4, <2>5, <2>7, <2>8 DEF Good
<1>7. CASE n > 1
  <2>1. /\ t.files[h].refCtr = n - 1 /\ n - 1 > 0
        /\ t.files[h].name = s.files[h].name
        /\ t.files[h].open = s.files[h].open
        /\ t.files[h].private = s.files[h].private
        /\ s.files[h] # Empty
    BY <1>1, <1>4, <1>7, EmptyIsFile DEF State, File
  <2> HIDE DEF g, n
  <2>2. Counted(t)
    BY <1>2, <1>5, <2>1 DEF Good, Counted
  <2>3. Filled(t)
    BY <1>2, <2>1 DEF Good, Filled
  <2>4. HeldOpen(t)
    BY <1>2, <1>3, <2>1 DEF Good, HeldOpen
  <2>5. Private(t)
    BY <1>2, <1>3, <2>1 DEF Good, Private
  <2>6. Keeps(s, t, p)
    <3>1. \A q \in Psps \ {p} : t.tables[q] = s.tables[q]
      BY <1>1 DEF State
    <3>2. \A k \in Slots : t.files[k].name = s.files[k].name
      BY <1>2, <2>1
    <3> QED
      BY <3>1, <3>2 DEF Keeps
  <2>7. OthersClosed(t, P)
    BY <1>1, Bytes DEF Good, OthersClosed, State
  <2> QED
    BY <2>2, <2>3, <2>4, <2>5, <2>6, <2>7 DEF Good
<1>8. n = 1 \/ n > 1
  BY <1>4, <1>5
<1> QED
  BY <1>6, <1>7, <1>8

-----------------------------------------------------------------------------
(* One lemma per call *)

LEMMA LowestOfSome ==
  ASSUME NEW S \in SUBSET Nat, S # {}
  PROVE  Lowest(S) \in S /\ \A m \in S : Lowest(S) <= m
<1>1. PICK n \in S : \A m \in S : ~(<<m, n>> \in OpToRel(<, Nat))
  BY WFMin, NatLessThanWellFounded
<1>2. \A m \in S : m \in Nat /\ n \in Nat /\ ~(m < n)
  BY <1>1 DEF OpToRel
<1>3. \A m \in S : n <= m
  BY <1>2
<1> QED
  BY <1>3 DEF Lowest

LEMMA LowestIsIn ==
  ASSUME NEW S \in SUBSET Nat, Lowest(S) # None
  PROVE  Lowest(S) \in S
<1>1. S # {}
  BY DEF Lowest
<1> QED
  BY <1>1, LowestOfSome

LEMMA RoomIsFree ==
  ASSUME NEW s, NEW p, HasRoom(s, p)
  PROVE  /\ FreeSlot(s) \in Slots /\ s.files[FreeSlot(s)] = Empty
         /\ FindFreeFileEntry(s, p) \in Entries
         /\ s.tables[p][FindFreeFileEntry(s, p)] = None
<1>1. {h \in Slots : s.files[h] = Empty} \in SUBSET Nat
  BY Bytes
<1>2. {e \in Entries : s.tables[p][e] = None} \in SUBSET Nat
  BY Bytes
<1> QED
  BY <1>1, <1>2, LowestIsIn DEF HasRoom, FreeSlot, FindFreeFileEntry

LEMMA Same ==
  ASSUME NEW s, NEW p
  PROVE  Keeps(s, s, p)
BY DEF Keeps

LEMMA Then ==
  ASSUME NEW s, NEW t, NEW u, NEW p, Keeps(s, t, p), Keeps(t, u, p)
  PROVE  Keeps(s, u, p)
BY DEF Keeps

LEMMA OpenFile ==
  ASSUME NEW P \in SUBSET Psps, NEW s, Good(s, P), NEW p \in P,
         NEW name \in Names, NEW private \in BOOLEAN
  PROVE  LET t == DOS_OpenFile(s, p, name, private)
         IN Good(t, P) /\ Keeps(s, t, p)
<1>1. CASE ~HasRoom(s, p)
  BY <1>1, Same DEF DOS_OpenFile
<1>2. CASE HasRoom(s, p)
  <2> DEFINE h == FreeSlot(s)
             e == FindFreeFileEntry(s, p)
             f == [name |-> name, refCtr |-> 0, open |-> TRUE,
                   private |-> private /\ name # "con"]
             t == DOS_OpenFile(s, p, name, private)
  <2>1. /\ h \in Slots /\ s.files[h] = Empty
        /\ e \in Entries /\ s.tables[p][e] = None
    BY <1>2, RoomIsFree
  <2>2. t = SetFileHandle(AddRef([s EXCEPT !.files[h] = f], h), p, e, h)
    BY <1>2 DEF DOS_OpenFile
  <2> HIDE DEF h, e, t
  <2>3. f \in File
    BY DEF File
  <2>4. s \in State
    BY DEF Good
  <2>5. /\ t.files = [s.files EXCEPT ![h] = [f EXCEPT !.refCtr = f.refCtr + 1]]
        /\ t.tables = [s.tables EXCEPT ![p][e] = h]
        /\ t \in State
    BY <2>1, <2>2, <2>3, <2>4 DEF State, File, SetFileHandle, AddRef
  <2>6. HeldBy(s, h) = {} /\ f.refCtr = s.files[h].refCtr
    <3>1. s.files[h].refCtr = 0
      BY <2>1, EmptyIsFile
    <3> QED
      BY <3>1, <2>1, FiniteHolders, FS_EmptySet DEF Good, Counted
  <2>7. f.name = name /\ f.open
    OBVIOUS
  <2> HIDE DEF f
  <2> QED
    BY <2>1, <2>3, <2>5, <2>6, <2>7, Hold DEF t
<1> QED
  BY <1>1, <1>2

\* A slot that an entry names holds an open file.
LEMMA NamedIsValid ==
  ASSUME NEW P \in SUBSET Psps, NEW s, Good(s, P), NEW p \in Psps,
         NEW e \in Entries, NEW h \in Slots, s.tables[p][e] = h
  PROVE  /\ <<p, e>> \in HeldBy(s, h)
         /\ s.files[h] \in File /\ s.files[h] # Empty
         /\ s.files[h].open /\ s.files[h].name \in Names
<1>1. <<p, e>> \in HeldBy(s, h)
  BY DEF HeldBy
<1>2. s.files[h].open /\ s.files[h] \in File
  BY <1>1 DEF Good, HeldOpen, State
<1>3. s.files[h] # Empty
  BY <1>2, EmptyIsFile
<1>4. s.files[h].name \in Names
  BY <1>3 DEF Good, Filled
<1> QED
  BY <1>1, <1>2, <1>3, <1>4

LEMMA OneHolder ==
  ASSUME NEW P \in SUBSET Psps, NEW s, Good(s, P), NEW p \in Psps,
         NEW e \in Entries, NEW h \in Slots, s.tables[p][e] = h,
         s.files[h].private, NEW pe \in HeldBy(s, h)
  PROVE  pe[1] = p
<1>1. <<p, e>> \in HeldBy(s, h)
  BY DEF HeldBy
<1> QED
  BY <1>1 DEF Good, Private

LEMMA ValidIff ==
  ASSUME NEW P \in SUBSET Psps, NEW s, Good(s, P), NEW p \in Psps, NEW e
  PROVE  Valid(s, p, e) <=> e \in Entries /\ s.tables[p][e] \in Slots
<1>1. CASE e \in Entries
  <2>1. ASSUME s.tables[p][e] \in Slots
        PROVE  s.files[s.tables[p][e]] # Empty
    <3>1. <<p, e>> \in HeldBy(s, s.tables[p][e])
      BY <1>1 DEF HeldBy
    <3> QED
      BY <3>1, <2>1, EmptyIsFile DEF Good, HeldOpen
  <2> QED
    BY <1>1, <2>1 DEF Valid, RealHandle
<1>2. CASE e \notin Entries
  BY <1>2, Bytes DEF Valid, RealHandle
<1> QED
  BY <1>1, <1>2

LEMMA RemoveRefIs ==
  ASSUME NEW u \in State, NEW h \in Slots
  PROVE  /\ RemoveRef(u, h).files = [u.files EXCEPT ![h] =
                 IF u.files[h].refCtr <= 1 THEN Empty
                 ELSE [u.files[h] EXCEPT !.refCtr = u.files[h].refCtr - 1]]
         /\ RemoveRef(u, h).tables = u.tables
<1>1. CASE u.files[h].refCtr <= 1
  BY <1>1 DEF RemoveRef, State
<1>2. CASE ~(u.files[h].refCtr <= 1)
  BY <1>2 DEF RemoveRef, State
<1> QED
  BY <1>1, <1>2

LEMMA CloseFile ==
  ASSUME NEW P \in SUBSET Psps, NEW s, Good(s, P), NEW p \in Psps, NEW e
  PROVE  LET t == DOS_CloseFile(s, p, e)
         IN /\ Good(t, P) /\ Keeps(s, t, p)
            /\ e \in Entries => t.tables[p][e] = None
            /\ \A x \in Entries \ {e} : t.tables[p][x] = s.tables[p][x]
<1>1. s \in State
  BY DEF Good
<1>2. CASE ~Valid(s, p, e)
  <2>1. DOS_CloseFile(s, p, e) = s
    BY <1>2 DEF DOS_CloseFile
  <2>2. e \in Entries => s.tables[p][e] = None
    BY <1>1, <1>2, ValidIff DEF State
  <2> QED
    BY <2>1, <2>2, Same
<1>3. CASE Valid(s, p, e)
  <2> DEFINE h == s.tables[p][e]
             f == s.files[h]
             t == DOS_CloseFile(s, p, e)
  <2>1. e \in Entries /\ h \in Slots /\ f \in File /\ RealHandle(s, p, e) = h
    BY <1>3, ValidIff, NamedIsValid DEF RealHandle
  <2>2. t = RemoveRef(SetFileHandle([s EXCEPT !.files[h] = CloseHost(f)], p, e, None), h)
    BY <1>1, <1>3, <2>1 DEF DOS_CloseFile, State
  <2>3. CloseHost(f).refCtr = f.refCtr /\ CloseHost(f) \in File
        /\ (f.refCtr # 1 => CloseHost(f) = f)
    BY <2>1 DEF CloseHost, File
  <2>4. f.refCtr \in Nat
    BY <2>1 DEF File
  <2> DEFINE g == IF f.refCtr <= 1 THEN Empty ELSE [f EXCEPT !.refCtr = f.refCtr - 1]
  <2>5. g \in File
    BY <2>1, <2>4, EmptyIsFile DEF File
  <2>6. /\ t.files = [s.files EXCEPT ![h] = g]
        /\ t.tables = [s.tables EXCEPT ![p][e] = None]
    <3> DEFINE m == [s EXCEPT !.files[h] = CloseHost(f)]
               u == SetFileHandle(m, p, e, None)
    <3>1. m.files = [s.files EXCEPT ![h] = CloseHost(f)] /\ m.tables = s.tables /\ m \in State
      BY <1>1, <2>1, <2>3 DEF State
    <3> HIDE DEF m
    <3>2. u.files = m.files /\ u.tables = [s.tables EXCEPT ![p][e] = None] /\ u \in State
      BY <3>1, <2>1 DEF State, SetFileHandle
    <3>3. t = RemoveRef(u, h)
      BY <2>2 DEF m
    <3>h. h \in Slots
      BY <2>1
    <3> HIDE DEF u, t, h
    <3>4. /\ t.files = [u.files EXCEPT ![h] =
                 IF u.files[h].refCtr <= 1 THEN Empty
                 ELSE [u.files[h] EXCEPT !.refCtr = u.files[h].refCtr - 1]]
          /\ t.tables = u.tables
      BY <3>2, <3>3, <3>h, RemoveRefIs
    <3>5. u.files[h] = CloseHost(f)
      BY <3>1, <3>2, <2>1, <1>1 DEF State
    <3>6. (IF u.files[h].refCtr <= 1 THEN Empty
           ELSE [u.files[h] EXCEPT !.refCtr = u.files[h].refCtr - 1]) = g
      BY <3>5, <2>3, <2>4
    <3>7. t.files = [u.files EXCEPT ![h] = g]
      BY <3>4, <3>6
    <3>8. [u.files EXCEPT ![h] = g] = [s.files EXCEPT ![h] = g]
      <4> HIDE DEF g
      <4>1. [[s.files EXCEPT ![h] = CloseHost(f)] EXCEPT ![h] = g] = [s.files EXCEPT ![h] = g]
        BY <1>1, <3>h DEF State
      <4> QED
        BY <4>1, <3>1, <3>2
    <3> QED
      BY <3>7, <3>8, <3>4, <3>2
  <2>7. t \in State
    <3>1. t = [files |-> t.files, tables |-> t.tables]
      BY <2>2, <1>1 DEF RemoveRef, SetFileHandle, State
    <3> HIDE DEF t, g
    <3> QED
      BY <3>1, <2>1, <2>5, <2>6, <1>1 DEF State
  <2>8. Good(t, P) /\ Keeps(s, t, p)
    <3> HIDE DEF t
    <3> QED
      BY <2>1, <2>6, <2>7, Release
  <2>9. t.tables[p][e] = None /\ \A x \in Entries \ {e} : t.tables[p][x] = s.tables[p][x]
    BY <1>1, <2>1, <2>6 DEF State
  <2> QED
    BY <2>8, <2>9
<1> QED
  BY <1>2, <1>3

\* Entry e, which names an open file, is copied to an entry that is free.
LEMMA CopyEntry ==
  ASSUME NEW P \in SUBSET Psps, NEW s, Good(s, P), NEW p \in P,
         NEW e \in Entries, NEW h \in Slots, s.tables[p][e] = h,
         NEW new \in Entries, s.tables[p][new] = None
  PROVE  LET t == SetFileHandle(AddRef(s, h), p, new, h)
         IN Good(t, P) /\ Keeps(s, t, p)
<1> DEFINE t == SetFileHandle(AddRef(s, h), p, new, h)
           f == s.files[h]
<1>1. s \in State /\ p \in Psps
  BY DEF Good
<1>2. /\ f \in File /\ f.name \in Names /\ f.open
      /\ f.private => \A pe \in HeldBy(s, h) : pe[1] = p
  <2>1. f \in File /\ f.name \in Names /\ f.open
    BY <1>1, NamedIsValid
  <2>2. f.private => \A pe \in HeldBy(s, h) : pe[1] = p
    BY <1>1, OneHolder
  <2> QED
    BY <2>1, <2>2
<1>3. /\ t.files = [s.files EXCEPT ![h] = [f EXCEPT !.refCtr = f.refCtr + 1]]
      /\ t.tables = [s.tables EXCEPT ![p][new] = h]
      /\ t \in State
  <2> DEFINE a == AddRef(s, h)
  <2>1. f.refCtr \in Nat /\ [f EXCEPT !.refCtr = f.refCtr + 1] \in File
    BY <1>2 DEF File
  <2>2. /\ a.files = [s.files EXCEPT ![h] = [f EXCEPT !.refCtr = f.refCtr + 1]]
        /\ a.tables = s.tables
        /\ a \in State
    BY <1>1, <2>1 DEF State, AddRef
  <2> HIDE DEF a
  <2>3. t.files = a.files /\ t.tables = [a.tables EXCEPT ![p][new] = h] /\ t \in State
    BY <1>1, <2>2 DEF State, SetFileHandle, a
  <2> QED
    BY <2>2, <2>3
<1>4. f.refCtr = s.files[h].refCtr /\ f.name = s.files[h].name
  OBVIOUS
<1> HIDE DEF t, f
<1>5. Good(t, P) /\ Keeps(s, t, p)
  BY <1>2, <1>3, <1>4, Hold
<1> QED
  BY <1>5 DEF t

LEMMA DuplicateEntry ==
  ASSUME NEW P \in SUBSET Psps, NEW s, Good(s, P), NEW p \in P, NEW e
  PROVE  LET t == DOS_DuplicateEntry(s, p, e)
         IN Good(t, P) /\ Keeps(s, t, p)
<1> DEFINE new == FindFreeFileEntry(s, p)
           h == RealHandle(s, p, e)
<1>1. CASE ~IsOpen(s, p, e) \/ new = None
  BY <1>1, Same DEF DOS_DuplicateEntry
<1>2. CASE IsOpen(s, p, e) /\ new # None
  <2>1. new \in Entries /\ s.tables[p][new] = None
    <3>1. {x \in Entries : s.tables[p][x] = None} \in SUBSET Nat
      BY Bytes
    <3> QED
      BY <3>1, <1>2, LowestIsIn DEF FindFreeFileEntry
  <2>2. e \in Entries /\ h \in Slots /\ s.tables[p][e] = h
    BY <1>2, ValidIff DEF IsOpen, RealHandle
  <2>3. DOS_DuplicateEntry(s, p, e) = SetFileHandle(AddRef(s, h), p, new, h)
    BY <1>2 DEF DOS_DuplicateEntry
  <2> HIDE DEF new, h
  <2> QED
    BY <2>1, <2>2, <2>3, CopyEntry
<1> QED
  BY <1>1, <1>2

LEMMA ForceDuplicateEntry ==
  ASSUME NEW P \in SUBSET Psps, NEW s, Good(s, P), NEW p \in P, NEW e,
         NEW new \in Entries
  PROVE  LET t == DOS_ForceDuplicateEntry(s, p, e, new)
         IN Good(t, P) /\ Keeps(s, t, p)
<1> DEFINE h == RealHandle(s, p, e)
           c == DOS_CloseFile(s, p, new)
<1>1. CASE e = new \/ ~IsOpen(s, p, e)
  BY <1>1, Same DEF DOS_ForceDuplicateEntry
<1>2. CASE e # new /\ IsOpen(s, p, e)
  <2>1. e \in Entries /\ h \in Slots /\ s.tables[p][e] = h
    BY <1>2, ValidIff DEF IsOpen, RealHandle
  <2>2. /\ Good(c, P) /\ Keeps(s, c, p)
        /\ c.tables[p][new] = None
        /\ \A x \in Entries \ {new} : c.tables[p][x] = s.tables[p][x]
    <3>1. p \in Psps
      OBVIOUS
    <3> QED
      BY <3>1, CloseFile
  <2>h. c.tables[p][e] = h
    BY <1>2, <2>1, <2>2
  <2>3. DOS_ForceDuplicateEntry(s, p, e, new) = SetFileHandle(AddRef(c, h), p, new, h)
    BY <1>2 DEF DOS_ForceDuplicateEntry
  <2> HIDE DEF c, h
  <2>4. LET t == SetFileHandle(AddRef(c, h), p, new, h)
        IN Good(t, P) /\ Keeps(c, t, p)
    BY <2>1, <2>2, <2>h, CopyEntry
  <2> QED
    BY <2>2, <2>3, <2>4, Then
<1> QED
  BY <1>1, <1>2

\* The entries of one process that name a slot are as many as that process
\* contributes to its holders.
LEMMA OneProcess ==
  ASSUME NEW p \in Psps, NEW S \in SUBSET Entries
  PROVE  Cardinality({p} \X S) = Cardinality(S) /\ IsFiniteSet({p} \X S)
<1>1. IsFiniteSet(S) /\ IsFiniteSet({p}) /\ Cardinality({p}) = 1
  <2>1. IsFiniteSet(Entries)
    BY FS_Interval, DosFilesAssumption DEF Entries, None
  <2> QED
    BY <2>1, FS_Subset, FS_Singleton
<1>2. Cardinality({p} \X S) = Cardinality({p}) * Cardinality(S) /\ IsFiniteSet({p} \X S)
  BY <1>1, FS_Product
<1>3. Cardinality(S) \in Nat
  BY <1>1, FS_CardinalityType
<1> QED
  BY <1>1, <1>2, <1>3

LEMMA CopyTable ==
  ASSUME NEW P \in SUBSET Psps, NEW s, Good(s, P), NEW parent \in P,
         NEW child \in Psps \ P
  PROVE  LET t == CopyFileTable(s, parent, child)
         IN Good(t, P \cup {child}) /\ Keeps(s, t, child)
<1> DEFINE t == CopyFileTable(s, parent, child)
           kept == {e \in Entries : Inherited(s, s.tables[parent][e])}
           from(h) == {e \in kept : s.tables[parent][e] = h}
<1>1. s \in State /\ parent \in Psps /\ child # parent
  BY DEF Good
<1>2. /\ t.files = [h \in Slots |-> [s.files[h] EXCEPT !.refCtr = @ + Cardinality(from(h))]]
      /\ t.tables = [s.tables EXCEPT ![child] =
                       [e \in Entries |-> IF e \in kept THEN s.tables[parent][e] ELSE None]]
  BY DEF CopyFileTable
<1>3. \A h \in Slots : Cardinality(from(h)) \in Nat
  <2>1. IsFiniteSet(Entries)
    BY FS_Interval, DosFilesAssumption DEF Entries, None
  <2>2. \A h \in Slots : from(h) \in SUBSET Entries
    OBVIOUS
  <2> QED
    BY <2>1, <2>2, FS_Subset, FS_CardinalityType
<1>4. \A e \in kept : s.tables[parent][e] \in Slots
  BY DEF Inherited
<1>5. t \in State
  <2>1. t = [files |-> t.files, tables |-> t.tables]
    BY DEF CopyFileTable
  <2>2. \A h \in Slots, n \in Nat :
           [s.files[h] EXCEPT !.refCtr = s.files[h].refCtr + n] \in File
    BY <1>1 DEF State, File
  <2>3. t.files \in [Slots -> File]
    <3> HIDE DEF from, t
    <3> QED
      BY <2>2, <1>2, <1>3
  <2>4. t.tables \in [Psps -> [Entries -> Slots \cup {None}]]
    BY <1>1, <1>2, <1>4 DEF State
  <2> HIDE DEF t
  <2> QED
    BY <2>1, <2>3, <2>4 DEF State
<1>6. \A h \in Slots : HeldBy(t, h) = HeldBy(s, h) \cup ({child} \X from(h))
                       /\ HeldBy(s, h) \cap ({child} \X from(h)) = {}
  <2> SUFFICES ASSUME NEW h \in Slots
               PROVE  HeldBy(t, h) = HeldBy(s, h) \cup ({child} \X from(h))
                      /\ HeldBy(s, h) \cap ({child} \X from(h)) = {}
    OBVIOUS
  <2>1. h # None /\ \A e \in Entries : s.tables[child][e] = None
    BY Bytes DEF Good, OthersClosed
  <2>2. \A q \in Psps, e \in Entries :
           t.tables[q][e] = h <=> s.tables[q][e] = h \/ (q = child /\ e \in from(h))
    BY <1>1, <1>2, <2>1 DEF State
  <2> HIDE DEF t
  <2>3. from(h) \subseteq Entries
    OBVIOUS
  <2> HIDE DEF from
  <2> QED
    BY <2>1, <2>2, <2>3 DEF HeldBy
<1>7. \A h \in Slots :
         /\ t.files[h].name = s.files[h].name
         /\ t.files[h].open = s.files[h].open
         /\ t.files[h].private = s.files[h].private
         /\ t.files[h].refCtr = s.files[h].refCtr + Cardinality(from(h))
         /\ s.files[h].refCtr \in Nat
  BY <1>1, <1>2 DEF State, File
<1>8. \A h \in Slots : from(h) # {} =>
         s.files[h] # Empty /\ ~s.files[h].private /\ s.files[h].open
  <2> SUFFICES ASSUME NEW h \in Slots, NEW e \in from(h)
               PROVE  s.files[h] # Empty /\ ~s.files[h].private /\ s.files[h].open
    OBVIOUS
  <2>1. e \in Entries /\ s.tables[parent][e] = h
    OBVIOUS
  <2> QED
    BY <2>1, <1>1, NamedIsValid DEF Inherited
<1>9. Counted(t)
  <2> SUFFICES ASSUME NEW h \in Slots
               PROVE  t.files[h].refCtr = Cardinality(HeldBy(t, h))
    BY DEF Counted
  <2>1. /\ Cardinality({child} \X from(h)) = Cardinality(from(h))
        /\ IsFiniteSet({child} \X from(h))
    <3>1. from(h) \in SUBSET Entries
      OBVIOUS
    <3> HIDE DEF from
    <3> QED
      BY <3>1, OneProcess
  <2>2. IsFiniteSet(HeldBy(s, h)) /\ Cardinality(HeldBy(s, h)) \in Nat
    BY FiniteHolders
  <2>3. Cardinality(HeldBy(t, h)) =
           Cardinality(HeldBy(s, h)) + Cardinality({child} \X from(h)) - Cardinality({})
    BY <1>6, <2>1, <2>2, FS_Union
  <2>4. Cardinality({}) = 0
    BY FS_EmptySet
  <2>5. s.files[h].refCtr = Cardinality(HeldBy(s, h))
    BY DEF Good, Counted
  <2> HIDE DEF t, from
  <2> QED
    BY <1>3, <1>7, <2>1, <2>2, <2>3, <2>4, <2>5
<1>10. Filled(t)
  <2> SUFFICES ASSUME NEW h \in Slots
               PROVE  t.files[h] = Empty \/ (t.files[h].name \in Names /\ t.files[h].refCtr > 0)
    BY DEF Filled
  <2>1. CASE s.files[h] = Empty
    <3>1. Cardinality(from(h)) = 0
      BY <2>1, <1>8, FS_EmptySet
    <3>2. t.files[h] = [Empty EXCEPT !.refCtr = Empty.refCtr + 0]
      BY <1>2, <2>1, <3>1
    <3> HIDE DEF t
    <3> QED
      BY <3>2 DEF Empty
  <2>2. CASE s.files[h] # Empty
    <3>1. s.files[h].name \in Names /\ s.files[h].refCtr > 0
      BY <2>2 DEF Good, Filled
    <3> HIDE DEF t, from
    <3> QED
      BY <3>1, <1>3, <1>7
  <2> QED
    BY <2>1, <2>2
<1> HIDE DEF t, from
<1>11. HeldOpen(t)
  <2> SUFFICES ASSUME NEW h \in Slots, HeldBy(t, h) # {}
               PROVE  t.files[h].open
    BY DEF HeldOpen
  <2>1. HeldBy(s, h) # {} \/ from(h) # {}
    BY <1>6
  <2> QED
    BY <2>1, <1>7, <1>8 DEF Good, HeldOpen
<1>12. Private(t)
  <2> SUFFICES ASSUME NEW h \in Slots, t.files[h].private
               PROVE  \A pe, qe \in HeldBy(t, h) : pe[1] = qe[1]
    BY DEF Private
  <2>1. s.files[h].private /\ HeldBy(t, h) = HeldBy(s, h)
    BY <1>6, <1>7, <1>8
  <2> QED
    BY <2>1 DEF Good, Private
<1>13. OthersClosed(t, P \cup {child})
  BY <1>1, <1>2 DEF Good, OthersClosed, State
<1>14. Keeps(s, t, child)
  <2>1. \A q \in Psps \ {child} : t.tables[q] = s.tables[q]
    BY <1>1, <1>2 DEF State
  <2> QED
    BY <2>1, <1>7 DEF Keeps
<1> QED
  BY <1>5, <1>9, <1>10, <1>11, <1>12, <1>13, <1>14 DEF Good, t

-----------------------------------------------------------------------------
(* CloseFiles *)

\* A set that holds 0 and with every number the next one holds all of them.
LEMMA Induction ==
  ASSUME NEW S \in SUBSET Nat, 0 \in S, \A n \in S : n + 1 \in S
  PROVE  S = Nat
<1> SUFFICES ASSUME Nat \ S # {}
             PROVE  FALSE
  OBVIOUS
<1>1. PICK n \in Nat \ S : \A m \in Nat \ S : ~(<<m, n>> \in OpToRel(<, Nat))
  BY WFMin, NatLessThanWellFounded
<1>2. n \in Nat /\ n # 0 /\ n - 1 \in Nat /\ n - 1 < n /\ (n - 1) + 1 = n
  <2>1. n \in Nat /\ n # 0
    OBVIOUS
  <2> QED
    BY <2>1
<1>3. n - 1 \in S
  BY <1>1, <1>2 DEF OpToRel
<1> QED
  BY <1>1, <1>2, <1>3

\* The function that CloseFiles defines exists.
LEMMA CloseFilesFunction ==
  ASSUME NEW s, NEW p
  PROVE  \E f : /\ f = [e \in 0..MaxFiles |->
                          IF e = 0 THEN s ELSE DOS_CloseFile(f[e - 1], p, e - 1)]
                /\ CloseFiles(s, p) = f[MaxFiles]
<1> DEFINE Step(f, e) == IF e = 0 THEN s ELSE DOS_CloseFile(f[e - 1], p, e - 1)
           UpTo(n) == \E f : f = [e \in 0..n |-> Step(f, e)]
           good == {n \in Nat : UpTo(n)}
<1>1. UpTo(0)
  <2>1. [e \in 0..0 |-> s] = [e \in 0..0 |-> Step([i \in 0..0 |-> s], e)]
    OBVIOUS
  <2> QED
    BY <2>1
<1>2. ASSUME NEW n \in Nat, UpTo(n)
      PROVE  UpTo(n + 1)
  <2>1. PICK f : f = [e \in 0..n |-> Step(f, e)]
    BY <1>2
  <2> DEFINE g == [e \in 0..n + 1 |-> IF e = n + 1 THEN Step(f, n + 1) ELSE f[e]]
  <2>2. \A e \in 0..n : g[e] = f[e]
    OBVIOUS
  <2>3. \A e \in 0..n + 1 : Step(g, e) = Step(f, e)
    <3> HIDE DEF g
    <3>1. \A e \in 0..n + 1 : e = 0 \/ g[e - 1] = f[e - 1]
      BY <2>2
    <3> QED
      BY <3>1
  <2>4. \A e \in 0..n : f[e] = Step(f, e)
    <3> HIDE DEF Step
    <3> QED
      BY <2>1
  <2>5. \A e \in 0..n + 1 : g[e] = Step(g, e)
    <3> HIDE DEF Step
    <3> QED
      BY <2>3, <2>4
  <2>6. g = [e \in 0..n + 1 |-> Step(g, e)]
    <3> HIDE DEF Step
    <3> QED
      BY <2>5
  <2> QED
    BY <2>6
<1>3. good = Nat
  <2> HIDE DEF UpTo
  <2>1. good \in SUBSET Nat /\ 0 \in good /\ \A n \in good : n + 1 \in good
    BY <1>1, <1>2
  <2> HIDE DEF good
  <2> QED
    BY <2>1, Induction
<1>4. UpTo(MaxFiles)
  <2> HIDE DEF UpTo
  <2>1. MaxFiles \in Nat
    BY DosFilesAssumption DEF None
  <2> QED
    BY <1>3, <2>1
<1> DEFINE h == CHOOSE f : f = [e \in 0..MaxFiles |-> Step(f, e)]
<1>5. h = [e \in 0..MaxFiles |-> Step(h, e)]
  <2> HIDE DEF Step
  <2> QED
    BY <1>4
<1>6. CloseFiles(s, p) = h[MaxFiles]
  BY DEF CloseFiles
<1>7. h = [e \in 0..MaxFiles |->
             IF e = 0 THEN s ELSE DOS_CloseFile(h[e - 1], p, e - 1)]
  BY <1>5
<1> HIDE DEF h
<1> QED
  BY <1>6, <1>7

LEMMA CloseAll ==
  ASSUME NEW P \in SUBSET Psps, NEW s, Good(s, P), NEW p \in Psps
  PROVE  LET t == CloseFiles(s, p)
         IN /\ Good(t, P) /\ Keeps(s, t, p)
            /\ \A e \in Entries : t.tables[p][e] = None
<1>1. PICK f : /\ f = [e \in 0..MaxFiles |->
                         IF e = 0 THEN s ELSE DOS_CloseFile(f[e - 1], p, e - 1)]
               /\ CloseFiles(s, p) = f[MaxFiles]
  BY CloseFilesFunction
<1>2. MaxFiles \in Nat /\ MaxFiles > 0
  BY DosFilesAssumption DEF None
<1>3. f[0] = s /\ \A e \in Entries : f[e + 1] = DOS_CloseFile(f[e], p, e)
  <2>1. f[0] = s
    BY <1>1, <1>2
  <2>2. ASSUME NEW e \in Entries
        PROVE  f[e + 1] = DOS_CloseFile(f[e], p, e)
    <3>1. e + 1 \in 0..MaxFiles /\ e + 1 # 0 /\ (e + 1) - 1 = e
      BY <1>2 DEF Entries
    <3> QED
      BY <1>1, <3>1
  <2> QED
    BY <2>1, <2>2
<1> DEFINE Closed(n) == /\ Good(f[n], P) /\ Keeps(s, f[n], p)
                        /\ \A e \in Entries : e < n => f[n].tables[p][e] = None
           good == {n \in Nat : n <= MaxFiles => Closed(n)}
<1>4. Closed(0)
  <2>1. \A e \in Entries : ~(e < 0)
    BY <1>2 DEF Entries
  <2> QED
    BY <1>3, <2>1, Same
<1>5. ASSUME NEW n \in Nat, n + 1 <= MaxFiles, Closed(n)
      PROVE  Closed(n + 1)
  <2>1. n \in Entries
    BY <1>2, <1>5 DEF Entries
  <2>2. f[n + 1] = DOS_CloseFile(f[n], p, n)
    BY <1>3, <2>1
  <2>3. /\ Good(f[n + 1], P) /\ Keeps(f[n], f[n + 1], p)
        /\ f[n + 1].tables[p][n] = None
        /\ \A x \in Entries \ {n} : f[n + 1].tables[p][x] = f[n].tables[p][x]
    <3> DEFINE u == f[n]
    <3>1. Good(u, P)
      BY <1>5
    <3> HIDE DEF u
    <3> DEFINE t == DOS_CloseFile(u, p, n)
    <3>2. Good(t, P) /\ Keeps(u, t, p)
      BY <3>1, CloseFile
    <3>3. t.tables[p][n] = None
      BY <2>1, <3>1, CloseFile
    <3>4. ASSUME NEW x \in Entries \ {n}
          PROVE  t.tables[p][x] = u.tables[p][x]
      BY <3>1, CloseFile
    <3> QED
      BY <2>2, <3>2, <3>3, <3>4 DEF u
  <2>4. Keeps(s, f[n + 1], p)
    BY <1>5, <2>3, Then
  <2>5. \A e \in Entries : e < n + 1 => e = n \/ e < n
    BY <1>2 DEF Entries
  <2> QED
    BY <1>5, <2>3, <2>4, <2>5
<1>6. good = Nat
  <2>1. good \in SUBSET Nat
    OBVIOUS
  <2>2. 0 \in good
    BY <1>4
  <2>3. \A n \in good : n + 1 \in good
    <3> HIDE DEF Closed
    <3>1. \A n \in Nat : n + 1 <= MaxFiles => n <= MaxFiles
      BY <1>2
    <3> QED
      BY <1>5, <3>1
  <2> HIDE DEF good
  <2> QED
    BY <2>1, <2>2, <2>3, Induction
<1>7. Closed(MaxFiles)
  <2> HIDE DEF Closed
  <2> QED
    BY <1>2, <1>6
<1>8. \A e \in Entries : e < MaxFiles
  BY <1>2 DEF Entries
<1> QED
  BY <1>1, <1>7, <1>8

-----------------------------------------------------------------------------
(* The shell *)

LEMMA OpenIfGood ==
  ASSUME NEW P \in SUBSET Psps, NEW s, Good(s, P), NEW p \in P,
         NEW name \in Names, NEW ok
  PROVE  LET t == OpenIf(ok, s, p, name)
         IN Good(t, P) /\ Keeps(s, t, p)
BY OpenFile, Same DEF OpenIf

LEMMA CloseIfGood ==
  ASSUME NEW P \in SUBSET Psps, NEW s, Good(s, P), NEW p \in P,
         NEW e, NEW ok
  PROVE  LET t == CloseIf(ok, s, p, e)
         IN Good(t, P) /\ Keeps(s, t, p)
<1>1. p \in Psps
  OBVIOUS
<1>2. LET t == DOS_CloseFile(s, p, e) IN Good(t, P) /\ Keeps(s, t, p)
  BY <1>1, CloseFile
<1> QED
  BY <1>2, Same DEF CloseIf

LEMMA ConIsName == "con" \in Names /\ FALSE \in BOOLEAN
BY DEF Names

LEMMA RedirectInGood ==
  ASSUME NEW P \in SUBSET Psps, NEW s, Good(s, P), NEW p \in P,
         NEW c, c.inOk => c.in \in Names
  PROVE  LET t == RedirectIn(s, p, c)
         IN Good(t, P) /\ Keeps(s, t, p)
<1>1. CASE ~c.inOk
  BY <1>1, Same DEF RedirectIn
<1>2. CASE c.inOk
  <2> DEFINE closed == CloseIf(c.normalstdin, s, p, 0)
             t == DOS_OpenFile(closed, p, c.in, FALSE)
  <2>1. Good(closed, P) /\ Keeps(s, closed, p)
    BY CloseIfGood
  <2> HIDE DEF closed
  <2>2. Good(t, P) /\ Keeps(closed, t, p)
    BY <1>2, <2>1, ConIsName, OpenFile
  <2>3. RedirectIn(s, p, c) = t
    BY <1>2 DEF RedirectIn, closed
  <2> HIDE DEF t
  <2> QED
    BY <2>1, <2>2, <2>3, Then
<1> QED
  BY <1>1, <1>2

LEMMA RedirectOutGood ==
  ASSUME NEW P \in SUBSET Psps, NEW s, Good(s, P), NEW p \in P,
         NEW c, c.outOk => c.out \in Names
  PROVE  LET t == RedirectOut(s, p, c)
         IN Good(t, P) /\ Keeps(s, t, p)
<1> DEFINE closed == CloseIf(c.normalstdout, s, p, 1)
           placed == OpenIf(Placeholder(c), closed, p, "con")
           opened == IF c.outOk /\ HasRoom(placed, p)
                     THEN DOS_OpenFile(placed, p, c.out, FALSE)
                     ELSE OpenIf(c.normalstdout, placed, p, "con")
           t == CloseIf(Placeholder(c), opened, p, 0)
<1>1. Good(closed, P) /\ Keeps(s, closed, p)
  BY CloseIfGood
<1> HIDE DEF closed
<1>2. Good(placed, P) /\ Keeps(closed, placed, p)
  BY <1>1, ConIsName, OpenIfGood
<1> HIDE DEF placed
<1>3. Good(opened, P) /\ Keeps(placed, opened, p)
  <2>1. CASE c.outOk /\ HasRoom(placed, p)
    BY <2>1, <1>2, ConIsName, OpenFile
  <2>2. CASE ~(c.outOk /\ HasRoom(placed, p))
    BY <2>2, <1>2, ConIsName, OpenIfGood
  <2> QED
    BY <2>1, <2>2
<1> HIDE DEF opened
<1>4. Good(t, P) /\ Keeps(opened, t, p)
  BY <1>3, CloseIfGood
<1>5. RedirectOut(s, p, c) = IF c.out = "none" THEN s ELSE t
  BY DEF RedirectOut, opened, placed, closed
<1> HIDE DEF t
<1>6. Keeps(s, t, p)
  BY <1>1, <1>2, <1>3, <1>4, Then
<1> QED
  BY <1>4, <1>5, <1>6, Same

LEMMA RestoreGood ==
  ASSUME NEW P \in SUBSET Psps, NEW s, Good(s, P), NEW p \in P, NEW c
  PROVE  LET t == Restore(s, p, c)
         IN Good(t, P) /\ Keeps(s, t, p)
<1> DEFINE noIn == DOS_CloseFile(s, p, 0)
           input == IF c.in = "none" THEN s ELSE OpenIf(c.normalstdin, noIn, p, "con")
           noOut == DOS_CloseFile(input, p, 1)
           placed == OpenIf(~c.normalstdin, noOut, p, "con")
           output == OpenIf(c.normalstdout, placed, p, "con")
           t == CloseIf(~c.normalstdin, output, p, 0)
<1>1. p \in Psps
  OBVIOUS
<1>2. Good(noIn, P) /\ Keeps(s, noIn, p)
  BY <1>1, CloseFile
<1> HIDE DEF noIn
<1>3. Good(input, P) /\ Keeps(s, input, p)
  <2> DEFINE u == OpenIf(c.normalstdin, noIn, p, "con")
  <2>1. Good(u, P) /\ Keeps(noIn, u, p)
    BY <1>2, ConIsName, OpenIfGood
  <2> HIDE DEF u
  <2>2. Keeps(s, u, p)
    BY <1>2, <2>1, Then
  <2>3. input = IF c.in = "none" THEN s ELSE u
    BY DEF u
  <2> QED
    BY <2>1, <2>2, <2>3, Same
<1> HIDE DEF input
<1>4. Good(noOut, P) /\ Keeps(input, noOut, p)
  BY <1>1, <1>3, CloseFile
<1> HIDE DEF noOut
<1>5. Good(placed, P) /\ Keeps(noOut, placed, p)
  BY <1>4, ConIsName, OpenIfGood
<1> HIDE DEF placed
<1>6. Good(output, P) /\ Keeps(placed, output, p)
  BY <1>5, ConIsName, OpenIfGood
<1> HIDE DEF output
<1>7. Good(t, P) /\ Keeps(output, t, p)
  BY <1>6, CloseIfGood
<1>8. Restore(s, p, c) = IF c.out = "none" THEN input ELSE t
  BY DEF Restore, output, placed, noOut, input, noIn
<1> HIDE DEF t
<1>9. Keeps(s, t, p)
  BY <1>3, <1>4, <1>5, <1>6, <1>7, Then
<1> QED
  BY <1>3, <1>7, <1>8, <1>9

LEMMA FirstShell == Good(ShellFiles, {0})
<1> DEFINE none == [files |-> [h \in Slots |-> Empty],
                    tables |-> [p \in Psps |-> [e \in Entries |-> None]]]
           one == DOS_OpenFile(none, 0, "con", FALSE)
           two == DOS_OpenFile(one, 0, "con", FALSE)
           shut == DOS_CloseFile(two, 0, 0)
           in == DOS_ForceDuplicateEntry(shut, 0, 1, 0)
           std == DOS_ForceDuplicateEntry(in, 0, 1, 2)
           four == DOS_OpenFile(std, 0, "con", FALSE)
           five == DOS_OpenFile(four, 0, "con", FALSE)
           P == {0}
<1>1. P \in SUBSET Psps /\ 0 \in P /\ 0 \in Psps
  BY DosFilesAssumption
<1>2. Good(none, P)
  <2>1. none \in State
    BY EmptyIsFile DEF State
  <2>2. \A h \in Slots : HeldBy(none, h) = {}
    BY Bytes DEF HeldBy
  <2>3. Counted(none)
    BY <2>2, EmptyIsFile, FS_EmptySet DEF Counted
  <2>4. Filled(none) /\ HeldOpen(none) /\ Private(none)
    BY <2>2 DEF Filled, HeldOpen, Private
  <2>5. OthersClosed(none, P)
    BY DEF OthersClosed
  <2> QED
    BY <2>1, <2>3, <2>4, <2>5 DEF Good
<1>3. ShellFiles = five
  BY DEF ShellFiles
<1> HIDE DEF none, P
<1>4. Good(one, P)
  BY <1>1, <1>2, ConIsName, OpenFile
<1> HIDE DEF one
<1>5. Good(two, P)
  BY <1>1, <1>4, ConIsName, OpenFile
<1> HIDE DEF two
<1>6. Good(shut, P)
  BY <1>1, <1>5, CloseFile
<1> HIDE DEF shut
<1>7. Good(in, P)
  BY <1>1, <1>6, Bytes, ForceDuplicateEntry
<1> HIDE DEF in
<1>8. Good(std, P)
  BY <1>1, <1>7, Bytes, ForceDuplicateEntry
<1> HIDE DEF std
<1>9. Good(four, P)
  BY <1>1, <1>8, ConIsName, OpenFile
<1> HIDE DEF four
<1>10. Good(five, P)
  BY <1>1, <1>9, ConIsName, OpenFile
<1> QED
  BY <1>3, <1>10 DEF P

-----------------------------------------------------------------------------
(* The system *)

Waiting ==
    /\ running \in Seq(Psps) /\ Len(running) > 0
    /\ resident \subseteq Psps

Commands ==
    /\ command = [p \in Psps |-> command[p]]
    /\ \A p \in Psps : command[p].doing \in {"program", "idle", "command"}

Inv == Good(Now, Processes) /\ Waiting /\ Commands

\* What a step does to the processes other than the one it is about.
OneTable == \E q \in (Psps \ Processes) \cup {Current} : Keeps(Now, Now', q)

LEMMA CurrentRuns ==
  ASSUME Waiting
  PROVE  Current \in Processes /\ Processes \in SUBSET Psps /\ Current \in Psps
<1>1. Len(running) \in DOMAIN running /\ \A k \in DOMAIN running : running[k] \in Psps
  BY DEF Waiting
<1> QED
  BY <1>1 DEF Waiting, Current, Processes

\* A call that changes the files and the table of the current process alone.
LEMMA OneCall ==
  ASSUME Inv, NEW t, Good(t, Processes), Keeps(Now, t, Current), Becomes(t),
         UNCHANGED <<running, resident>>, Commands'
  PROVE  Inv' /\ OneTable
<1>1. Now' = t
  BY DEF Becomes, Now, Good, State
<1>2. Processes' = Processes /\ Waiting'
  BY DEF Processes, Waiting, Inv
<1>3. Good(Now', Processes')
  BY <1>1, <1>2
<1>4. (Good(Now, Processes))'
  BY <1>3
<1> QED
  BY <1>1, <1>2, <1>4 DEF Inv, OneTable

LEMMA Initially == Init => Inv
<1> SUFFICES ASSUME Init
             PROVE  Inv
  OBVIOUS
<1>1. Waiting /\ Processes = {0}
  <2>1. running = <<0>> /\ resident = {} /\ 0 \in Psps
    BY DosFilesAssumption DEF Init
  <2> QED
    BY <2>1 DEF Waiting, Processes
<1>2. Now = ShellFiles
  <2>1. ShellFiles \in State
    BY FirstShell DEF Good
  <2> QED
    BY <2>1 DEF Init, Now, State
<1>3. Commands
  BY DEF Init, Commands, Idle, Program
<1> QED
  BY <1>1, <1>2, <1>3, FirstShell DEF Inv

LEMMA OpenStep ==
  ASSUME Inv, NEW name \in Names, NEW private \in BOOLEAN, Open(name, private)
  PROVE  Inv' /\ OneTable
<1>1. Good(Now, Processes) /\ Waiting
  BY DEF Inv
<1>2. LET t == DOS_OpenFile(Now, Current, name, private)
      IN Good(t, Processes) /\ Keeps(Now, t, Current)
  BY <1>1, CurrentRuns, OpenFile
<1>3. Commands'
  BY DEF Open, Inv, Commands
<1> QED
  BY <1>2, <1>3, OneCall DEF Open

LEMMA FcbOpenStep ==
  ASSUME Inv, NEW name \in FileNames, FcbOpen(name)
  PROVE  Inv' /\ OneTable
<1>1. Good(Now, Processes) /\ Waiting
  BY DEF Inv
<1>2. LET t == DOS_OpenFile(Now, Current, name, FALSE)
      IN Good(t, Processes) /\ Keeps(Now, t, Current)
  <2>1. name \in Names /\ FALSE \in BOOLEAN
    BY DEF Names
  <2> QED
    BY <1>1, <2>1, CurrentRuns, OpenFile
<1>3. Commands'
  BY DEF FcbOpen, Inv, Commands
<1> QED
  BY <1>2, <1>3, OneCall DEF FcbOpen

LEMMA CloseStep ==
  ASSUME Inv, NEW e \in Touched, Close(e)
  PROVE  Inv' /\ OneTable
<1>1. Good(Now, Processes) /\ Waiting
  BY DEF Inv
<1>2. LET t == DOS_CloseFile(Now, Current, e)
      IN Good(t, Processes) /\ Keeps(Now, t, Current)
  BY <1>1, CurrentRuns, CloseFile
<1>3. Commands'
  BY DEF Close, Inv, Commands
<1> QED
  BY <1>2, <1>3, OneCall DEF Close

LEMMA DuplicateStep ==
  ASSUME Inv, NEW e \in Touched, Duplicate(e)
  PROVE  Inv' /\ OneTable
<1>1. Good(Now, Processes) /\ Waiting
  BY DEF Inv
<1>2. LET t == DOS_DuplicateEntry(Now, Current, e)
      IN Good(t, Processes) /\ Keeps(Now, t, Current)
  BY <1>1, CurrentRuns, DuplicateEntry
<1>3. Commands'
  BY DEF Duplicate, Inv, Commands
<1> QED
  BY <1>2, <1>3, OneCall DEF Duplicate

\* The entries that programs close and duplicate are in their table.
InTable == Touched \subseteq Entries

LEMMA ForceDuplicateStep ==
  ASSUME InTable, Inv, NEW e \in Touched, NEW new \in Touched, ForceDuplicate(e, new)
  PROVE  Inv' /\ OneTable
<1>1. Good(Now, Processes) /\ Waiting /\ new \in Entries
  BY DEF Inv, InTable
<1>2. LET t == DOS_ForceDuplicateEntry(Now, Current, e, new)
      IN Good(t, Processes) /\ Keeps(Now, t, Current)
  BY <1>1, CurrentRuns, ForceDuplicateEntry
<1>3. Commands'
  BY DEF ForceDuplicate, Inv, Commands
<1> QED
  BY <1>2, <1>3, OneCall DEF ForceDuplicate

LEMMA ExecuteStep ==
  ASSUME Inv, NEW shell \in BOOLEAN, Execute(shell)
  PROVE  Inv' /\ OneTable
<1> DEFINE child == Lowest(Unused)
           t == CopyFileTable(Now, Current, child)
<1>1. Good(Now, Processes) /\ Waiting /\ Commands
  BY DEF Inv
<1>2. child \in Psps \ Processes
  <2>1. Unused \in SUBSET Nat /\ Unused # {} /\ Unused = Psps \ Processes
    BY DosFilesAssumption DEF Unused, Processes, Execute
  <2> QED
    BY <2>1, LowestOfSome
<1>3. Becomes(t) /\ running' = Append(running, child)
      /\ command' = [command EXCEPT ![child] = IF shell THEN Idle ELSE Program]
      /\ resident' = resident
  BY DEF Execute
<1>4. Good(t, Processes \cup {child}) /\ Keeps(Now, t, child)
  <2> HIDE DEF child
  <2> QED
    BY <1>1, <1>2, CurrentRuns, CopyTable
<1> HIDE DEF t, child
<1>5. Waiting'
  BY <1>1, <1>2, <1>3 DEF Waiting
<1>6. Processes' = Processes \cup {child}
  <2>1. /\ DOMAIN running' = (DOMAIN running) \cup {Len(running) + 1}
        /\ running'[Len(running) + 1] = child
        /\ \A k \in DOMAIN running : running'[k] = running[k]
    BY <1>1, <1>3 DEF Waiting
  <2> QED
    BY <2>1, <1>3 DEF Processes
<1>7. Commands'
  BY <1>1, <1>2, <1>3 DEF Commands, Idle, Program
<1>8. Now' = t
  BY <1>3, <1>4 DEF Becomes, Now, Good, State
<1>9. (Good(Now, Processes))'
  BY <1>4, <1>6, <1>8
<1> QED
  BY <1>2, <1>4, <1>5, <1>7, <1>8, <1>9 DEF Inv, OneTable

LEMMA Leaving ==
  ASSUME Waiting, Len(running) > 1, Leave, resident' \subseteq Psps
  PROVE  /\ Waiting'
         /\ Processes \cup resident' \subseteq Processes' \cup resident \cup {Current}
         /\ Processes' \subseteq Processes \cup resident'
<1>1. /\ Len(running) - 1 \in Nat /\ Len(running) - 1 <= Len(running)
      /\ Len(running) \in Nat
      /\ running' = SubSeq(running, 1, Len(running) - 1)
  BY DEF Leave, Waiting
<1>2. /\ running' \in Seq(Psps) /\ Len(running') = Len(running) - 1
      /\ \A k \in 1..Len(running) - 1 : running'[k] = running[k]
  BY <1>1 DEF Waiting
<1>3. Waiting'
  BY <1>1, <1>2 DEF Waiting
<1>4. DOMAIN running' = 1..Len(running) - 1
      /\ DOMAIN running = (1..Len(running) - 1) \cup {Len(running)}
  <2>1. DOMAIN running' = 1..Len(running') /\ DOMAIN running = 1..Len(running)
    BY <1>2 DEF Waiting
  <2>2. \A n \in Nat : n > 1 => 1..n = (1..n - 1) \cup {n}
    OBVIOUS
  <2> QED
    BY <1>1, <1>2, <2>1, <2>2
<1> QED
  BY <1>2, <1>3, <1>4 DEF Processes, Current

LEMMA TerminateStep ==
  ASSUME Inv, Terminate
  PROVE  Inv' /\ OneTable
<1> DEFINE t == CloseFiles(Now, Current)
<1>1. Good(Now, Processes) /\ Waiting /\ Commands
  BY DEF Inv
<1>2. /\ Good(t, Processes) /\ Keeps(Now, t, Current)
      /\ \A e \in Entries : t.tables[Current][e] = None
  BY <1>1, CurrentRuns, CloseAll
<1>3. Becomes(t) /\ resident' = resident /\ Leave /\ Len(running) > 1
      /\ command' = [command EXCEPT ![Current] = Program]
  BY DEF Terminate
<1> HIDE DEF t
<1>4. Waiting' /\ Processes \subseteq Processes' \cup {Current}
  <2>1. resident' \subseteq Psps
    BY <1>1, <1>3 DEF Waiting
  <2>2. /\ Waiting'
        /\ Processes \cup resident' \subseteq Processes' \cup resident \cup {Current}
    BY <1>1, <1>3, <2>1, Leaving
  <2>3. resident \subseteq Processes'
    BY <1>3 DEF Processes
  <2> QED
    BY <2>2, <2>3
<1>5. Commands'
  BY <1>1, <1>3, CurrentRuns DEF Commands, Program
<1>6. Now' = t
  BY <1>2, <1>3 DEF Becomes, Now, Good, State
<1>7. Good(t, Processes')
  <2>1. OthersClosed(t, Processes')
    BY <1>2, <1>4 DEF Good, OthersClosed
  <2> QED
    BY <1>2, <2>1 DEF Good
<1>8. (Good(Now, Processes))'
  BY <1>6, <1>7
<1> QED
  BY <1>2, <1>4, <1>5, <1>6, <1>8 DEF Inv, OneTable

LEMMA StayResidentStep ==
  ASSUME Inv, StayResident
  PROVE  Inv' /\ OneTable
<1>1. Good(Now, Processes) /\ Waiting /\ Commands
  BY DEF Inv
<1>2. /\ UNCHANGED <<files, tables, command>> /\ Leave /\ Len(running) > 1
      /\ resident' = resident \cup {Current}
  BY DEF StayResident
<1>3. Waiting' /\ Processes \subseteq Processes'
  <2>1. resident' \subseteq Psps
    BY <1>1, <1>2, CurrentRuns DEF Waiting
  <2>2. /\ Waiting'
        /\ Processes \cup resident' \subseteq Processes' \cup resident \cup {Current}
    BY <1>1, <1>2, <2>1, Leaving
  <2>3. resident' \subseteq Processes'
    BY DEF Processes
  <2> QED
    BY <1>2, <2>2, <2>3
<1>4. Commands'
  BY <1>1, <1>2 DEF Commands
<1>5. Now' = Now
  BY <1>2 DEF Now
<1>6. Good(Now, Processes')
  <2>1. OthersClosed(Now, Processes')
    BY <1>1, <1>3 DEF Good, OthersClosed
  <2> QED
    BY <1>1, <2>1 DEF Good
<1>7. (Good(Now, Processes))'
  BY <1>5, <1>6
<1> QED
  BY <1>3, <1>4, <1>5, <1>7, Same DEF Inv, OneTable

LEMMA LineStep ==
  ASSUME Inv, NEW in \in FileNames \cup {"none"}, NEW out \in FileNames \cup {"none"},
         NEW inOk \in BOOLEAN, NEW outOk \in BOOLEAN, Line(in, inOk, out, outOk)
  PROVE  Inv' /\ OneTable
<1>1. Good(Now, Processes) /\ Waiting /\ Commands
  BY DEF Inv
<1>2. PICK c : /\ c.doing = "command"
               /\ c.inOk => c.in \in Names
               /\ c.outOk => c.out \in Names
               /\ Becomes(RedirectOut(RedirectIn(Now, Current, c), Current, c))
               /\ command' = [command EXCEPT ![Current] = c]
  <2>1. PICK c \in {[doing |-> "command", in |-> in, out |-> out,
                     inOk |-> inOk /\ HasRoom(Now, Current), outOk |-> outOk,
                     normalstdin |-> tables[Current][0] # None,
                     normalstdout |-> tables[Current][1] # None,
                     roomy |-> Roomy]} :
               /\ Becomes(RedirectOut(RedirectIn(Now, Current, c), Current, c))
               /\ command' = [command EXCEPT ![Current] = c]
    BY DEF Line
  <2>2. /\ c.doing = "command" /\ c.in = in /\ c.out = out
        /\ c.inOk => inOk
        /\ c.outOk => outOk
    BY <2>1
  <2>3. /\ inOk => in \in FileNames
        /\ outOk => out \in FileNames
    BY DEF Line
  <2> QED
    BY <2>1, <2>2, <2>3 DEF Names
<1> DEFINE u == RedirectIn(Now, Current, c)
           t == RedirectOut(u, Current, c)
<1>3. Good(u, Processes) /\ Keeps(Now, u, Current)
  BY <1>1, <1>2, CurrentRuns, RedirectInGood
<1> HIDE DEF u
<1>4. Good(t, Processes) /\ Keeps(u, t, Current)
  BY <1>1, <1>2, <1>3, CurrentRuns, RedirectOutGood
<1>5. Becomes(t) /\ UNCHANGED <<running, resident>>
  BY <1>2 DEF u, Line
<1> HIDE DEF t
<1>6. Keeps(Now, t, Current)
  BY <1>3, <1>4, Then
<1>7. Commands'
  BY <1>1, <1>2, CurrentRuns DEF Commands
<1> QED
  BY <1>4, <1>5, <1>6, <1>7, OneCall

LEMMA EndOfCommandStep ==
  ASSUME Inv, EndOfCommand
  PROVE  Inv' /\ OneTable
<1>1. Good(Now, Processes) /\ Waiting /\ Commands
  BY DEF Inv
<1>2. LET t == Restore(Now, Current, command[Current])
      IN Good(t, Processes) /\ Keeps(Now, t, Current)
  BY <1>1, CurrentRuns, RestoreGood
<1>3. Commands'
  BY <1>1, CurrentRuns DEF EndOfCommand, Commands, Idle, Program
<1> QED
  BY <1>2, <1>3, OneCall DEF EndOfCommand

LEMMA Stutter ==
  ASSUME Inv, UNCHANGED vars
  PROVE  Inv' /\ OneTable
<1>1. Now' = Now /\ Processes' = Processes
  BY DEF vars, Now, Processes
<1>2. (Good(Now, Processes))'
  BY <1>1 DEF Inv
<1>3. Waiting' /\ Commands'
  BY DEF vars, Inv, Waiting, Commands
<1> QED
  BY <1>1, <1>2, <1>3, Same DEF Inv, OneTable

LEMMA OneStep == InTable /\ Inv /\ [Next]_vars => Inv' /\ OneTable
<1> SUFFICES ASSUME InTable, Inv, [Next]_vars
             PROVE  Inv' /\ OneTable
  OBVIOUS
<1>1. CASE \E name \in Names, private \in BOOLEAN : Open(name, private)
  BY <1>1, OpenStep
<1>2. CASE \E name \in FileNames : FcbOpen(name)
  BY <1>2, FcbOpenStep
<1>3. CASE \E e \in Touched : Close(e)
  BY <1>3, CloseStep
<1>4. CASE \E e \in Touched : Duplicate(e)
  BY <1>4, DuplicateStep
<1>5. CASE \E e, new \in Touched : ForceDuplicate(e, new)
  BY <1>5, ForceDuplicateStep
<1>6. CASE \E shell \in BOOLEAN : Execute(shell)
  BY <1>6, ExecuteStep
<1>7. CASE Terminate
  BY <1>7, TerminateStep
<1>8. CASE StayResident
  BY <1>8, StayResidentStep
<1>9. CASE \E in, out \in FileNames \cup {"none"}, inOk, outOk \in BOOLEAN :
              Line(in, inOk, out, outOk)
  BY <1>9, LineStep
<1>10. CASE EndOfCommand
  BY <1>10, EndOfCommandStep
<1>11. CASE UNCHANGED vars
  BY <1>11, Stutter
<1> QED
  BY <1>1, <1>2, <1>3, <1>4, <1>5, <1>6, <1>7, <1>8, <1>9, <1>10, <1>11 DEF Next

\* The files and tables stay good over every step of programs and shells that use
\* entries of their table: this is the inductive invariant that the next four theorems
\* rest on.  A forced duplicate to an entry past the table's end counts a reference
\* that nobody holds (dos_files.cpp:729).
THEOREM Invariance == ASSUME InTable PROVE Spec => []Inv
<1>1. Inv /\ [Next]_vars => Inv'
  BY OneStep
<1> QED
  BY Initially, <1>1, PTL DEF Spec

\* A slot of Files is empty or holds a named file with a reference, and an
\* entry of a PSP is free or names a slot.
THEOREM TypeCorrect == ASSUME InTable PROVE Spec => []TypeOK
<1>1. Inv => TypeOK
  <2> SUFFICES ASSUME Inv
               PROVE  TypeOK
    OBVIOUS
  <2>1. Now \in State /\ Filled(Now) /\ Waiting /\ Commands
    BY DEF Inv, Good
  <2>2. files \in [Slots -> File] /\ tables \in [Psps -> [Entries -> Slots \cup {None}]]
    BY <2>1 DEF State, Now
  <2>3. ASSUME NEW h \in Slots, files[h] # Empty
        PROVE  files[h] \in [name : Names, refCtr : Nat \ {0},
                             open : BOOLEAN, private : BOOLEAN]
    <3>1. files[h].name \in Names /\ files[h].refCtr > 0
      BY <2>1, <2>3 DEF Filled, Now
    <3> QED
      BY <2>2, <3>1 DEF File
  <2> QED
    BY <2>1, <2>2, <2>3 DEF TypeOK, Waiting, Commands
<1> QED
  BY Invariance, <1>1, PTL

\* The reference count of a file is the number of entries that name it, over
\* all processes, while programs name entries of their table.
THEOREM CountsCorrect == ASSUME InTable PROVE Spec => []CountsMatch
<1>1. Inv => CountsMatch
  <2> SUFFICES ASSUME Inv
               PROVE  CountsMatch
    OBVIOUS
  <2>1. \A h : HeldBy(Now, h) = Holders(h)
    BY DEF HeldBy, Holders, Now
  <2>2. \A h \in Slots : files[h].refCtr = Cardinality(Holders(h))
    BY <2>1 DEF Inv, Good, Counted, Now
  <2>3. ASSUME NEW h \in Slots, NEW pe \in Holders(h)
        PROVE  pe[1] \in Processes
    <3>1. pe[1] \in Psps /\ pe[2] \in Entries /\ tables[pe[1]][pe[2]] # None
      BY <2>3, Bytes DEF Holders
    <3> QED
      BY <3>1 DEF Inv, Good, OthersClosed, Now
  <2> QED
    BY <2>2, <2>3 DEF CountsMatch
<1> QED
  BY Invariance, <1>1, PTL

\* A file that an entry names is open on the host, and one opened with
\* DOS_NOT_INHERIT is in the table of one process at most.
THEOREM HeldFilesOpen == ASSUME InTable PROVE Spec => []HeldIsOpen
<1>1. Inv => HeldIsOpen
  <2> SUFFICES ASSUME Inv, NEW h \in Slots
               PROVE  /\ Holders(h) # {} => files[h].open
                      /\ files[h].private => Cardinality({pe[1] : pe \in Holders(h)}) <= 1
    BY DEF HeldIsOpen
  <2>1. HeldBy(Now, h) = Holders(h)
    BY DEF HeldBy, Holders, Now
  <2>2. Holders(h) # {} => files[h].open
    BY <2>1 DEF Inv, Good, HeldOpen, Now
  <2>3. ASSUME files[h].private
        PROVE  Cardinality({pe[1] : pe \in Holders(h)}) <= 1
    <3>1. \A pe, qe \in Holders(h) : pe[1] = qe[1]
      BY <2>1, <2>3 DEF Inv, Good, Private, Now
    <3>2. CASE Holders(h) = {}
      <4>1. {pe[1] : pe \in Holders(h)} = {}
        BY <3>2
      <4> QED
        BY <4>1, FS_EmptySet
    <3>3. CASE Holders(h) # {}
      <4>1. PICK qe \in Holders(h) : TRUE
        BY <3>3
      <4>2. {pe[1] : pe \in Holders(h)} = {qe[1]}
        BY <3>1, <4>1
      <4>3. Cardinality({qe[1]}) = 1
        BY FS_Singleton
      <4> QED
        BY <4>2, <4>3
    <3> QED
      BY <3>2, <3>3
  <2> QED
    BY <2>2, <2>3
<1> QED
  BY Invariance, <1>1, PTL

\* No step changes the entries of a process that waits or is resident, or the
\* files they name.
THEOREM OthersUntouched == ASSUME InTable PROVE Spec => OthersKeepFiles
<1>1. Inv /\ Inv' /\ [Next]_vars =>
        [\A p \in Processes \ {Current} :
            /\ tables'[p] = tables[p]
            /\ \A e \in Entries :
                  Valid(Now, p, e) =>
                     LET h == tables[p][e]
                     IN files'[h].name = files[h].name /\ files'[h].open]_vars
  <2> SUFFICES ASSUME Inv, Inv', [Next]_vars, NEW p \in Processes \ {Current}
               PROVE  /\ tables'[p] = tables[p]
                      /\ \A e \in Entries :
                            Valid(Now, p, e) =>
                               LET h == tables[p][e]
                               IN files'[h].name = files[h].name /\ files'[h].open
    OBVIOUS
  <2>1. PICK q \in (Psps \ Processes) \cup {Current} : Keeps(Now, Now', q)
    BY OneStep DEF OneTable
  <2>2. Processes \in SUBSET Psps
    BY CurrentRuns DEF Inv
  <2>3. p \in Psps \ {q}
    BY <2>1, <2>2
  <2>4. tables'[p] = tables[p]
    BY <2>1, <2>3 DEF Keeps, Now
  <2>5. ASSUME NEW e \in Entries, Valid(Now, p, e)
        PROVE  files'[tables[p][e]].name = files[tables[p][e]].name
               /\ files'[tables[p][e]].open
    <3> DEFINE h == tables[p][e]
    <3>1. h \in Slots
      BY <2>5 DEF Valid, RealHandle, Now
    <3>2. files'[h].name = files[h].name
      BY <2>1, <2>3, <3>1 DEF Keeps, Now
    <3>3. <<p, e>> \in HeldBy(Now', h)
      BY <2>3, <2>4 DEF HeldBy, Now
    <3>4. \A k \in Slots : HeldBy(Now', k) # {} => files'[k].open
      BY DEF Inv, Good, HeldOpen, Now
    <3> QED
      BY <3>1, <3>2, <3>3, <3>4
  <2> QED
    BY <2>4, <2>5
<1> QED
  BY Invariance, <1>1, PTL DEF Spec, OthersKeepFiles

-----------------------------------------------------------------------------
(* Redirection: where the calls of a shell put what they open *)

Free(s) == {h \in Slots : s.files[h] = Empty}

NameOf(s, p, e) ==
    IF s.tables[p][e] = None THEN "none" ELSE s.files[s.tables[p][e]].name

SameEntry(s, t, p, e) ==
    t.tables[p][e] = s.tables[p][e] /\ NameOf(t, p, e) = NameOf(s, p, e)

\* e is the first entry that is free.
FirstFree(s, p, e) ==
    /\ s.tables[p][e] = None
    /\ \A x \in Entries : x < e => s.tables[p][x] # None

\* The call from s to t put a file into entry e of p, and nothing else.
Puts(s, t, p, e, name) ==
    \E h \in Free(s) :
       /\ t.tables[p][e] = h /\ NameOf(t, p, e) = name
       /\ \A x \in Entries \ {e} : SameEntry(s, t, p, x)
       /\ Free(t) = Free(s) \ {h}
       /\ \A k \in Slots \ {h} : t.files[k] = s.files[k]

\* The call emptied entry e of p, and no other.
Empties(s, t, p, e) ==
    LET h == s.tables[p][e]
    IN /\ t.tables[p][e] = None
       /\ \A x \in Entries \ {e} : SameEntry(s, t, p, x)
       /\ Free(s) \subseteq Free(t)
       /\ h \in Slots /\ s.files[h].refCtr = 1 => h \in Free(t)
       /\ \A k \in Slots \ {h} : t.files[k] = s.files[k]

LEMMA OpenAt ==
  ASSUME NEW P \in SUBSET Psps, NEW s, Good(s, P), NEW p \in P,
         NEW e \in Entries, FirstFree(s, p, e), Free(s) # {},
         NEW name \in Names
  PROVE  /\ HasRoom(s, p)
         /\ Puts(s, DOS_OpenFile(s, p, name, FALSE), p, e, name)
<1> DEFINE h == FreeSlot(s)
           f == [name |-> name, refCtr |-> 0, open |-> TRUE,
                 private |-> FALSE /\ name # "con"]
           t == DOS_OpenFile(s, p, name, FALSE)
<1>1. s \in State /\ p \in Psps
  BY DEF Good
<1>2. FindFreeFileEntry(s, p) = e
  <2> DEFINE S == {x \in Entries : s.tables[p][x] = None}
  <2>1. S \in SUBSET Nat /\ e \in S /\ \A x \in S : ~(x < e)
    BY Bytes DEF FirstFree
  <2>2. Lowest(S) \in S /\ \A m \in S : Lowest(S) <= m
    <3> HIDE DEF S
    <3> QED
      BY <2>1, LowestOfSome
  <2>3. Lowest(S) <= e /\ ~(Lowest(S) < e) /\ Lowest(S) \in Nat /\ e \in Nat
    BY <2>1, <2>2
  <2> HIDE DEF S
  <2>4. Lowest(S) = e
    BY <2>3
  <2> QED
    BY <2>4 DEF S, FindFreeFileEntry
<1>3. h \in Free(s)
  <2>1. Free(s) \in SUBSET Nat
    BY Bytes DEF Free
  <2> QED
    BY <2>1, LowestOfSome DEF Free, FreeSlot
<1>4. h \in Slots /\ h # None /\ s.files[h] = Empty
  BY <1>3, Bytes DEF Free
<1>5. HasRoom(s, p)
  BY <1>2, <1>4, Bytes DEF HasRoom
<1>6. t = SetFileHandle(AddRef([s EXCEPT !.files[h] = f], h), p, e, h)
  BY <1>2, <1>5 DEF DOS_OpenFile
<1> HIDE DEF t, h
<1>7. f \in File
  BY DEF File
<1>8. /\ t.files = [s.files EXCEPT ![h] = [f EXCEPT !.refCtr = f.refCtr + 1]]
      /\ t.tables = [s.tables EXCEPT ![p][e] = h]
  BY <1>1, <1>4, <1>6, <1>7 DEF State, File, SetFileHandle, AddRef
<1>9. t.tables[p][e] = h /\ \A x \in Entries \ {e} : t.tables[p][x] = s.tables[p][x]
  BY <1>1, <1>8 DEF State
<1>10. t.files[h].name = name /\ \A k \in Slots \ {h} : t.files[k] = s.files[k]
  BY <1>1, <1>4, <1>8 DEF State
<1> HIDE DEF f
<1>11. NameOf(t, p, e) = name
  BY <1>4, <1>9, <1>10 DEF NameOf
<1>12. ASSUME NEW x \in Entries \ {e}
       PROVE  SameEntry(s, t, p, x)
  <2>1. s.tables[p][x] \in Slots => s.tables[p][x] # h
    BY <1>1, <1>4, NamedIsValid
  <2>2. s.tables[p][x] \in Slots \cup {None}
    BY <1>1 DEF State
  <2> QED
    BY <1>9, <1>10, <2>1, <2>2 DEF SameEntry, NameOf
<1>13. Free(t) = Free(s) \ {h}
  <2>1. t.files[h] # Empty
    BY <1>10, EmptyIsFile
  <2> QED
    BY <1>10, <2>1 DEF Free
<1> QED
  BY <1>3, <1>5, <1>9, <1>10, <1>11, <1>12, <1>13 DEF t, Puts

LEMMA CloseAt ==
  ASSUME NEW P \in SUBSET Psps, NEW s, Good(s, P), NEW p \in Psps, NEW e \in Entries
  PROVE  Empties(s, DOS_CloseFile(s, p, e), p, e)
<1> DEFINE h == s.tables[p][e]
           t == DOS_CloseFile(s, p, e)
<1>1. s \in State
  BY DEF Good
<1>2. CASE h \notin Slots
  <2>1. ~Valid(s, p, e) /\ h = None
    BY <1>1, <1>2, ValidIff DEF State
  <2>2. t = s
    BY <2>1 DEF DOS_CloseFile
  <2> QED
    BY <1>2, <2>1, <2>2 DEF SameEntry, Empties
<1>3. CASE h \in Slots
  <2> DEFINE f == s.files[h]
             g == CloseHost(f)
             m == [s EXCEPT !.files[h] = g]
             u == SetFileHandle(m, p, e, None)
  <2>1. Valid(s, p, e) /\ RealHandle(s, p, e) = h /\ f \in File /\ f.refCtr \in Nat
    BY <1>1, <1>3, ValidIff DEF RealHandle, State, File
  <2>2. g \in File /\ g.name = f.name /\ g.refCtr = f.refCtr
    BY <2>1 DEF CloseHost, File
  <2>3. t = RemoveRef(u, h)
    BY <1>1, <1>3, <2>1 DEF DOS_CloseFile, State
  <2> HIDE DEF g
  <2>4. m.files = [s.files EXCEPT ![h] = g] /\ m.tables = s.tables /\ m \in State
    BY <1>1, <1>3, <2>2 DEF State
  <2> HIDE DEF m
  <2>5. u.files = m.files /\ u.tables = [s.tables EXCEPT ![p][e] = None] /\ u \in State
    BY <2>4 DEF State, SetFileHandle
  <2> HIDE DEF u, t
  <2>6. /\ t.files = [u.files EXCEPT ![h] =
               IF u.files[h].refCtr <= 1 THEN Empty
               ELSE [u.files[h] EXCEPT !.refCtr = u.files[h].refCtr - 1]]
        /\ t.tables = u.tables
    BY <2>3, <2>5, <1>3, RemoveRefIs
  <2>7. u.files[h] = g /\ \A k \in Slots \ {h} : u.files[k] = s.files[k]
    BY <1>1, <1>3, <2>4, <2>5 DEF State
  <2>8. /\ f.refCtr <= 1 => t.files[h] = Empty
        /\ f.refCtr > 1 => t.files[h].name = f.name
        /\ \A k \in Slots \ {h} : t.files[k] = s.files[k]
    <3>1. \A k \in Slots \ {h} : t.files[k] = s.files[k]
      BY <1>3, <2>5, <2>6, <2>7 DEF State
    <3>2. f.refCtr <= 1 => t.files[h] = Empty
      BY <1>3, <2>2, <2>5, <2>6, <2>7 DEF State
    <3>3. f.refCtr > 1 => t.files[h] = [g EXCEPT !.refCtr = g.refCtr - 1]
      <4>1. t.files[h] = IF u.files[h].refCtr <= 1 THEN Empty
                         ELSE [u.files[h] EXCEPT !.refCtr = u.files[h].refCtr - 1]
        BY <1>3, <2>5, <2>6 DEF State
      <4>2. f.refCtr > 1 => ~(g.refCtr <= 1)
        BY <2>1, <2>2
      <4> HIDE DEF f, h
      <4> QED
        BY <4>1, <4>2, <2>7
    <3>4. [g EXCEPT !.refCtr = g.refCtr - 1].name = g.name
      BY <2>2 DEF File
    <3> QED
      BY <3>1, <3>2, <3>3, <3>4, <2>2
  <2>9. t.tables[p][e] = None /\ \A x \in Entries \ {e} : t.tables[p][x] = s.tables[p][x]
    BY <1>1, <2>5, <2>6 DEF State
  <2>10. ASSUME NEW x \in Entries \ {e}
         PROVE  SameEntry(s, t, p, x)
    <3>1. CASE s.tables[p][x] = h
      <4>1. <<p, x>> \in HeldBy(s, h) /\ <<p, e>> \in HeldBy(s, h) /\ <<p, x>> # <<p, e>>
        BY <3>1, <1>3 DEF HeldBy
      <4>2. Cardinality(HeldBy(s, h)) # 1 /\ Cardinality(HeldBy(s, h)) # 0
        BY <4>1, FiniteHolders, FS_Singleton, FS_EmptySet
      <4>3. f.refCtr = Cardinality(HeldBy(s, h))
        BY <1>3 DEF Good, Counted
      <4>4. f.refCtr > 1
        <5> HIDE DEF f, h
        <5> QED
          BY <4>2, <4>3, <2>1
      <4> QED
        BY <3>1, <4>4, <2>8, <2>9 DEF SameEntry, NameOf
    <3>2. CASE s.tables[p][x] # h
      <4>1. s.tables[p][x] \in Slots \cup {None}
        BY <1>1 DEF State
      <4> QED
        BY <3>2, <4>1, <2>8, <2>9 DEF SameEntry, NameOf
    <3> QED
      BY <3>1, <3>2
  <2>11. Free(s) \subseteq Free(t)
    <3>1. f # Empty
      BY <2>1 DEF Valid
    <3> HIDE DEF h
    <3> QED
      BY <3>1, <2>8 DEF Free
  <2>12. f.refCtr = 1 => h \in Free(t)
    <3> HIDE DEF h
    <3> QED
      BY <1>3, <2>8 DEF Free
  <2> HIDE DEF h, f
  <2>13. h \in Slots /\ s.files[h].refCtr = 1 => h \in Free(t)
    BY <2>12 DEF f
  <2> QED
    BY <2>8, <2>9, <2>10, <2>11, <2>13 DEF h, t, Empties
<1> QED
  BY <1>2, <1>3

\* Two slots are free.
Two(S) == \E a, b \in S : a # b

LEMMA SmallNumbers ==
  /\ \A x \in Entries : ~(x < 0)
  /\ \A x \in Entries : x < 1 => x = 0
  /\ 0 \in Entries /\ 1 \in Entries
BY DosFilesAssumption DEF Entries, None

LEMMA NamedIsHeld ==
  ASSUME NEW s, NEW p, NEW e, NEW name \in Names, NameOf(s, p, e) = name
  PROVE  s.tables[p][e] # None
BY EmptyIsFile DEF NameOf

LEMMA SameTwice ==
  ASSUME NEW s, NEW t, NEW u, NEW p, NEW e,
         SameEntry(s, t, p, e), SameEntry(t, u, p, e)
  PROVE  SameEntry(s, u, p, e)
BY DEF SameEntry

\* The file opened for stdin gets entry 0, and takes one slot.
LEMMA RedirectInReaches ==
  ASSUME NEW P \in SUBSET Psps, NEW s, Good(s, P), NEW p \in P,
         NEW c, c.inOk, c.in \in Names,
         c.normalstdin <=> s.tables[p][0] # None, Two(Free(s))
  PROVE  LET t == RedirectIn(s, p, c)
         IN /\ NameOf(t, p, 0) = c.in
            /\ SameEntry(s, t, p, 1)
            /\ Free(t) # {}
<1> DEFINE closed == CloseIf(c.normalstdin, s, p, 0)
           t == DOS_OpenFile(closed, p, c.in, FALSE)
<1>1. Good(closed, P)
  BY CloseIfGood
<1>2. closed.tables[p][0] = None /\ SameEntry(s, closed, p, 1) /\ Free(s) \subseteq Free(closed)
  <2>1. CASE c.normalstdin
    <3>1. closed = DOS_CloseFile(s, p, 0) /\ p \in Psps
      BY <2>1 DEF CloseIf
    <3>2. Empties(s, closed, p, 0)
      BY <3>1, SmallNumbers, CloseAt
    <3> HIDE DEF closed
    <3> QED
      BY <3>2, SmallNumbers DEF Empties
  <2>2. CASE ~c.normalstdin
    BY <2>2 DEF CloseIf, SameEntry
  <2> QED
    BY <2>1, <2>2
<1>3. RedirectIn(s, p, c) = t
  BY DEF RedirectIn
<1> HIDE DEF closed
<1>4. FirstFree(closed, p, 0) /\ Free(closed) # {}
  BY <1>2, SmallNumbers DEF FirstFree, Two
<1>5. PICK h \in Free(closed) :
         /\ NameOf(t, p, 0) = c.in
         /\ \A x \in Entries \ {0} : SameEntry(closed, t, p, x)
         /\ Free(t) = Free(closed) \ {h}
  <2>1. Puts(closed, t, p, 0, c.in)
    BY <1>1, <1>4, SmallNumbers, OpenAt
  <2> HIDE DEF t
  <2> QED
    BY <2>1 DEF Puts
<1> HIDE DEF t
<1>6. SameEntry(s, t, p, 1)
  BY <1>2, <1>5, SmallNumbers, SameTwice
<1>7. Free(t) # {}
  BY <1>2, <1>5 DEF Two
<1> QED
  BY <1>3, <1>5, <1>6, <1>7

\* The file opened for stdout gets entry 1, and stdin is as before.
LEMMA RedirectOutReaches ==
  ASSUME NEW P \in SUBSET Psps, NEW s, Good(s, P), NEW p \in P,
         NEW c, c.out # "none", c.outOk => c.out \in Names,
         c.normalstdout <=> s.tables[p][1] # None, Free(s) # {},
         Placeholder(c) => s.tables[p][0] = None /\ Two(Free(s)),
         ~Placeholder(c) => s.tables[p][0] # None
  PROVE  LET t == RedirectOut(s, p, c)
         IN /\ SameEntry(s, t, p, 0)
            /\ c.outOk => NameOf(t, p, 1) = c.out
            /\ ~c.outOk => (t.tables[p][1] # None <=> c.normalstdout)
<1> DEFINE closed == CloseIf(c.normalstdout, s, p, 1)
           placed == OpenIf(Placeholder(c), closed, p, "con")
           opened == IF c.outOk /\ HasRoom(placed, p)
                     THEN DOS_OpenFile(placed, p, c.out, FALSE)
                     ELSE OpenIf(c.normalstdout, placed, p, "con")
           t == CloseIf(Placeholder(c), opened, p, 0)
<1>0. RedirectOut(s, p, c) = t
  BY DEF RedirectOut
<1>1. Good(closed, P)
  BY CloseIfGood
<1>2. closed.tables[p][1] = None /\ SameEntry(s, closed, p, 0) /\ Free(s) \subseteq Free(closed)
  <2>1. CASE c.normalstdout
    <3>1. closed = DOS_CloseFile(s, p, 1) /\ p \in Psps
      BY <2>1 DEF CloseIf
    <3>2. Empties(s, closed, p, 1)
      BY <3>1, SmallNumbers, CloseAt
    <3> HIDE DEF closed
    <3> QED
      BY <3>2, SmallNumbers DEF Empties
  <2>2. CASE ~c.normalstdout
    BY <2>2 DEF CloseIf, SameEntry
  <2> QED
    BY <2>1, <2>2
<1> HIDE DEF closed
<1>3. Good(placed, P)
  BY <1>1, ConIsName, OpenIfGood
<1>4. /\ placed.tables[p][0] # None /\ placed.tables[p][1] = None /\ Free(placed) # {}
      /\ ~Placeholder(c) => SameEntry(closed, placed, p, 0)
  <2>1. CASE Placeholder(c)
    <3>1. FirstFree(closed, p, 0) /\ Two(Free(closed)) /\ Free(closed) # {}
      BY <1>2, <2>1, SmallNumbers DEF FirstFree, Two, SameEntry
    <3>2. placed = DOS_OpenFile(closed, p, "con", FALSE)
      BY <2>1 DEF OpenIf
    <3> HIDE DEF placed
    <3>3. PICK h \in Free(closed) :
             /\ NameOf(placed, p, 0) = "con"
             /\ \A x \in Entries \ {0} : SameEntry(closed, placed, p, x)
             /\ Free(placed) = Free(closed) \ {h}
      <4>1. Puts(closed, placed, p, 0, "con")
        BY <1>1, <3>1, <3>2, SmallNumbers, ConIsName, OpenAt
      <4> QED
        BY <4>1 DEF Puts
    <3>4. placed.tables[p][0] # None
      BY <3>3, ConIsName, NamedIsHeld
    <3>5. placed.tables[p][1] = None
      BY <3>3, <1>2, SmallNumbers DEF SameEntry
    <3>6. Free(placed) # {}
      BY <3>1, <3>3 DEF Two
    <3> QED
      BY <2>1, <3>4, <3>5, <3>6
  <2>2. CASE ~Placeholder(c)
    <3>1. placed = closed
      BY <2>2 DEF OpenIf
    <3> HIDE DEF placed
    <3> QED
      BY <2>2, <3>1, <1>2 DEF SameEntry
  <2> QED
    BY <2>1, <2>2
<1> HIDE DEF placed
<1>5. FirstFree(placed, p, 1)
  BY <1>4, SmallNumbers DEF FirstFree
<1>6. ASSUME NEW name \in Names
      PROVE  /\ HasRoom(placed, p)
             /\ LET u == DOS_OpenFile(placed, p, name, FALSE)
                IN NameOf(u, p, 1) = name /\ SameEntry(placed, u, p, 0)
  <2> DEFINE u == DOS_OpenFile(placed, p, name, FALSE)
  <2>1. HasRoom(placed, p) /\ Puts(placed, u, p, 1, name)
    BY <1>3, <1>4, <1>5, SmallNumbers, OpenAt
  <2> HIDE DEF u
  <2>2. NameOf(u, p, 1) = name /\ SameEntry(placed, u, p, 0)
    BY <2>1, SmallNumbers DEF Puts
  <2> QED
    BY <2>1, <2>2 DEF u
<1>7. /\ Good(opened, P)
      /\ SameEntry(placed, opened, p, 0)
      /\ c.outOk => NameOf(opened, p, 1) = c.out
      /\ ~c.outOk => (opened.tables[p][1] # None <=> c.normalstdout)
  <2>1. CASE c.outOk
    <3>1. c.out \in Names /\ HasRoom(placed, p)
      BY <2>1, <1>6
    <3>2. opened = DOS_OpenFile(placed, p, c.out, FALSE)
      BY <2>1, <3>1
    <3> HIDE DEF opened
    <3>3. Good(opened, P)
      BY <1>3, <3>1, <3>2, ConIsName, OpenFile
    <3> QED
      BY <2>1, <3>1, <3>2, <3>3, <1>6
  <2>2. CASE ~c.outOk
    <3>1. opened = OpenIf(c.normalstdout, placed, p, "con")
      BY <2>2
    <3> HIDE DEF opened
    <3>2. Good(opened, P)
      BY <1>3, <3>1, ConIsName, OpenIfGood
    <3>3. CASE c.normalstdout
      <4>1. opened = DOS_OpenFile(placed, p, "con", FALSE)
        BY <3>1, <3>3 DEF OpenIf
      <4>2. NameOf(opened, p, 1) = "con" /\ SameEntry(placed, opened, p, 0)
        BY <4>1, <1>6, ConIsName
      <4>3. opened.tables[p][1] # None
        BY <4>2, ConIsName, NamedIsHeld
      <4> QED
        BY <2>2, <3>2, <3>3, <4>2, <4>3
    <3>4. CASE ~c.normalstdout
      <4>1. opened = placed
        BY <3>1, <3>4 DEF OpenIf
      <4> QED
        BY <2>2, <3>2, <3>4, <4>1, <1>4 DEF SameEntry
    <3> QED
      BY <3>3, <3>4
  <2> QED
    BY <2>1, <2>2
<1> HIDE DEF opened
<1>8. CASE Placeholder(c)
  <2>1. t = DOS_CloseFile(opened, p, 0)
    BY <1>8 DEF CloseIf
  <2> HIDE DEF t
  <2>2. p \in Psps
    OBVIOUS
  <2>3. t.tables[p][0] = None /\ SameEntry(opened, t, p, 1)
    <3>1. Empties(opened, t, p, 0)
      BY <1>7, <2>1, <2>2, SmallNumbers, CloseAt
    <3> QED
      BY <3>1, SmallNumbers DEF Empties
  <2>4. s.tables[p][0] = None
    BY <1>8
  <2>5. SameEntry(s, t, p, 0)
    BY <2>3, <2>4 DEF SameEntry, NameOf
  <2> QED
    BY <1>0, <1>7, <2>3, <2>5 DEF SameEntry
<1>9. CASE ~Placeholder(c)
  <2>1. t = opened
    BY <1>9 DEF CloseIf
  <2> HIDE DEF t
  <2>2. SameEntry(s, opened, p, 0)
    BY <1>2, <1>4, <1>7, <1>9, SameTwice
  <2> QED
    BY <1>0, <1>7, <2>1, <2>2
<1> QED
  BY <1>8, <1>9

\* What a command may reuse when it ends: its slots that nobody else holds.
Returned(s, p, c) ==
    {h \in Slots : \/ h = s.tables[p][0] /\ c.in # "none" /\ s.files[h].refCtr = 1
                   \/ h = s.tables[p][1] /\ c.out # "none" /\ s.files[h].refCtr = 1}

\* After the command the entries are as they were before it.
LEMMA RestoreKeeps ==
  ASSUME NEW P \in SUBSET Psps, NEW s, Good(s, P), NEW p \in P,
         NEW c, c.normalstdin \in BOOLEAN, c.normalstdout \in BOOLEAN,
         c.in = "none" => (s.tables[p][0] # None <=> c.normalstdin),
         c.out = "none" => (s.tables[p][1] # None <=> c.normalstdout),
         Two(Free(s) \cup Returned(s, p, c))
  PROVE  LET t == Restore(s, p, c)
         IN /\ t.tables[p][0] # None <=> c.normalstdin
            /\ t.tables[p][1] # None <=> c.normalstdout
            /\ \A e \in Entries \ {0, 1} : t.tables[p][e] = s.tables[p][e]
<1> DEFINE noIn == DOS_CloseFile(s, p, 0)
           input == IF c.in = "none" THEN s ELSE OpenIf(c.normalstdin, noIn, p, "con")
           noOut == DOS_CloseFile(input, p, 1)
           placed == OpenIf(~c.normalstdin, noOut, p, "con")
           output == OpenIf(c.normalstdout, placed, p, "con")
           t == CloseIf(~c.normalstdin, output, p, 0)
           h1 == s.tables[p][1]
           late == {h \in Slots : h = h1 /\ c.out # "none" /\ s.files[h].refCtr = 1}
<1>0. Restore(s, p, c) = IF c.out = "none" THEN input ELSE t
  BY DEF Restore
<1>1. p \in Psps /\ s \in State
  BY DEF Good
<1>2. /\ Good(input, P)
      /\ input.tables[p][0] # None <=> c.normalstdin
      /\ \A e \in Entries \ {0} : input.tables[p][e] = s.tables[p][e]
      /\ h1 \in late => input.files[h1] = s.files[h1]
      /\ Free(input) \cup late # {}
      /\ ~c.normalstdin => Two(Free(input) \cup late)
  <2>1. CASE c.in = "none"
    <3>1. input = s
      BY <2>1
    <3>2. Free(s) \cup Returned(s, p, c) \subseteq Free(s) \cup late
      BY <2>1 DEF Returned
    <3> HIDE DEF input, late
    <3> QED
      BY <2>1, <3>1, <3>2 DEF Two
  <2>2. CASE c.in # "none"
    <3>1. /\ Good(noIn, P) /\ noIn.tables[p][0] = None
          /\ \A x \in Entries \ {0} : SameEntry(s, noIn, p, x)
          /\ Free(s) \subseteq Free(noIn)
          /\ s.tables[p][0] \in Slots /\ s.files[s.tables[p][0]].refCtr = 1
                => s.tables[p][0] \in Free(noIn)
          /\ \A k \in Slots \ {s.tables[p][0]} : noIn.files[k] = s.files[k]
      <4>1. Good(noIn, P)
        BY <1>1, CloseFile
      <4>2. Empties(s, noIn, p, 0)
        BY <1>1, SmallNumbers, CloseAt
      <4> HIDE DEF noIn
      <4> QED
        BY <4>1, <4>2 DEF Empties
    <3>2. input = OpenIf(c.normalstdin, noIn, p, "con")
      BY <2>2
    <3>3. h1 \in late => h1 # s.tables[p][0]
      <4> SUFFICES ASSUME h1 \in late, h1 = s.tables[p][0]
                   PROVE  FALSE
        OBVIOUS
      <4>1. h1 \in Slots /\ s.files[h1].refCtr = 1
        OBVIOUS
      <4> HIDE DEF late
      <4>2. <<p, 0>> \in HeldBy(s, h1) /\ <<p, 1>> \in HeldBy(s, h1)
        BY <1>1, SmallNumbers DEF HeldBy
      <4>3. Cardinality(HeldBy(s, h1)) = 1
        BY <4>1 DEF Good, Counted
      <4>4. <<p, 0>> # <<p, 1>>
        OBVIOUS
      <4> QED
        BY <4>2, <4>3, <4>4, FiniteHolders, FS_Singleton
    <3>4. Two(Free(noIn) \cup late)
      <4>1. Returned(s, p, c) \subseteq Free(noIn) \cup late
        BY <3>1 DEF Returned
      <4> HIDE DEF noIn, late
      <4> QED
        BY <3>1, <4>1 DEF Two
    <3>5. h1 \in late => noIn.files[h1] = s.files[h1] /\ h1 \notin Free(noIn)
      <4>1. h1 \in late => h1 \in Slots /\ s.files[h1].refCtr = 1
        OBVIOUS
      <4> HIDE DEF late, noIn, h1
      <4>2. h1 \in late => noIn.files[h1] = s.files[h1]
        BY <3>1, <3>3, <4>1
      <4> QED
        BY <4>1, <4>2, EmptyIsFile DEF Free
    <3> HIDE DEF noIn, input, late, h1
    <3>6. CASE c.normalstdin
      <4>1. input = DOS_OpenFile(noIn, p, "con", FALSE)
        BY <3>2, <3>6 DEF OpenIf
      <4>2. Free(noIn) # {}
        <5>1. \A a, b \in late : a = b
          BY DEF late
        <5> QED
          BY <3>4, <5>1 DEF Two
      <4>3. FirstFree(noIn, p, 0)
        BY <3>1, SmallNumbers DEF FirstFree
      <4>4. PICK h \in Free(noIn) :
               /\ NameOf(input, p, 0) = "con"
               /\ \A x \in Entries \ {0} : SameEntry(noIn, input, p, x)
               /\ Free(input) = Free(noIn) \ {h}
               /\ \A k \in Slots \ {h} : input.files[k] = noIn.files[k]
        <5>1. Puts(noIn, input, p, 0, "con")
          BY <3>1, <4>1, <4>2, <4>3, SmallNumbers, ConIsName, OpenAt
        <5> QED
          BY <5>1 DEF Puts
      <4>5. input.tables[p][0] # None
        BY <4>4, ConIsName, NamedIsHeld
      <4>6. Good(input, P)
        BY <3>1, <4>1, ConIsName, OpenFile
      <4>7. h1 \in late => input.files[h1] = s.files[h1]
        BY <3>5, <4>4 DEF late
      <4>8. Free(input) \cup late # {}
        BY <3>4, <3>5, <4>4 DEF Two
      <4>9. \A e \in Entries \ {0} : input.tables[p][e] = s.tables[p][e]
        BY <3>1, <4>4 DEF SameEntry
      <4> QED
        BY <3>6, <4>5, <4>6, <4>7, <4>8, <4>9
    <3>7. CASE ~c.normalstdin
      <4>1. input = noIn
        BY <3>2, <3>7 DEF OpenIf
      <4> QED
        BY <3>1, <3>4, <3>5, <3>7, <4>1 DEF SameEntry, Two
    <3> QED
      BY <3>6, <3>7
  <2> QED
    BY <2>1, <2>2
<1> HIDE DEF input
<1>3. CASE c.out = "none"
  <2>1. \A e \in Entries \ {0, 1} : input.tables[p][e] = s.tables[p][e]
    BY <1>2
  <2>2. input.tables[p][1] = s.tables[p][1]
    BY <1>2, SmallNumbers
  <2> QED
    BY <1>0, <1>2, <1>3, <2>1, <2>2
<1>4. CASE c.out # "none"
  <2>1. /\ Good(noOut, P) /\ noOut.tables[p][1] = None
        /\ \A x \in Entries \ {1} : SameEntry(input, noOut, p, x)
        /\ Free(input) \subseteq Free(noOut)
        /\ h1 \in Slots /\ input.files[h1].refCtr = 1 => h1 \in Free(noOut)
    <3>1. Good(noOut, P)
      BY <1>1, <1>2, CloseFile
    <3>2. input.tables[p][1] = h1
      BY <1>2, SmallNumbers
    <3>3. Empties(input, noOut, p, 1)
      BY <1>1, <1>2, SmallNumbers, CloseAt
    <3> HIDE DEF noOut, h1
    <3> QED
      BY <3>1, <3>2, <3>3 DEF Empties
  <2>2. Free(input) \cup late \subseteq Free(noOut)
    <3>1. late \subseteq {h1} /\ (h1 \in late => h1 \in Slots /\ s.files[h1].refCtr = 1)
      OBVIOUS
    <3> HIDE DEF late, noOut, h1
    <3> QED
      BY <3>1, <2>1, <1>2
  <2>3. Free(noOut) # {} /\ (~c.normalstdin => Two(Free(noOut)))
    <3> HIDE DEF late, noOut
    <3> QED
      BY <1>2, <2>2 DEF Two
  <2> HIDE DEF late, noOut, h1
  <2>4. /\ Good(placed, P) /\ placed.tables[p][0] # None /\ placed.tables[p][1] = None
        /\ Free(placed) # {}
        /\ \A e \in Entries \ {0, 1} : placed.tables[p][e] = s.tables[p][e]
    <3>1. Good(placed, P)
      BY <2>1, ConIsName, OpenIfGood
    <3>2. \A e \in Entries \ {0, 1} : noOut.tables[p][e] = s.tables[p][e]
      BY <1>2, <2>1 DEF SameEntry
    <3>3. noOut.tables[p][0] # None <=> c.normalstdin
      BY <1>2, <2>1, SmallNumbers DEF SameEntry
    <3>4. CASE c.normalstdin
      <4>1. placed = noOut
        BY <3>4 DEF OpenIf
      <4> HIDE DEF placed
      <4> QED
        BY <2>1, <2>3, <3>1, <3>2, <3>3, <3>4, <4>1
    <3>5. CASE ~c.normalstdin
      <4>1. placed = DOS_OpenFile(noOut, p, "con", FALSE)
        BY <3>5 DEF OpenIf
      <4> HIDE DEF placed
      <4>2. FirstFree(noOut, p, 0)
        BY <3>3, <3>5, SmallNumbers DEF FirstFree
      <4>3. PICK h \in Free(noOut) :
               /\ NameOf(placed, p, 0) = "con"
               /\ \A x \in Entries \ {0} : SameEntry(noOut, placed, p, x)
               /\ Free(placed) = Free(noOut) \ {h}
        <5>1. Puts(noOut, placed, p, 0, "con")
          BY <2>1, <2>3, <4>1, <4>2, SmallNumbers, ConIsName, OpenAt
        <5> QED
          BY <5>1 DEF Puts
      <4>4. placed.tables[p][0] # None
        BY <4>3, ConIsName, NamedIsHeld
      <4>5. Free(placed) # {}
        BY <2>3, <3>5, <4>3 DEF Two
      <4>6. placed.tables[p][1] = None
        BY <2>1, <4>3, SmallNumbers DEF SameEntry
      <4>7. \A e \in Entries \ {0, 1} : placed.tables[p][e] = s.tables[p][e]
        BY <3>2, <4>3 DEF SameEntry
      <4> QED
        BY <3>1, <4>4, <4>5, <4>6, <4>7
    <3> QED
      BY <3>4, <3>5
  <2> HIDE DEF placed
  <2>5. /\ Good(output, P) /\ output.tables[p][0] # None
        /\ output.tables[p][1] # None <=> c.normalstdout
        /\ \A e \in Entries \ {0, 1} : output.tables[p][e] = s.tables[p][e]
    <3>1. Good(output, P)
      BY <2>4, ConIsName, OpenIfGood
    <3>2. CASE c.normalstdout
      <4>1. output = DOS_OpenFile(placed, p, "con", FALSE)
        BY <3>2 DEF OpenIf
      <4> HIDE DEF output
      <4>2. FirstFree(placed, p, 1)
        BY <2>4, SmallNumbers DEF FirstFree
      <4>3. /\ NameOf(output, p, 1) = "con"
            /\ \A x \in Entries \ {1} : SameEntry(placed, output, p, x)
        <5>1. Puts(placed, output, p, 1, "con")
          BY <2>4, <4>1, <4>2, SmallNumbers, ConIsName, OpenAt
        <5> QED
          BY <5>1 DEF Puts
      <4>4. output.tables[p][1] # None
        BY <4>3, ConIsName, NamedIsHeld
      <4>5. output.tables[p][0] # None
        BY <2>4, <4>3, SmallNumbers DEF SameEntry
      <4>6. \A e \in Entries \ {0, 1} : output.tables[p][e] = s.tables[p][e]
        BY <2>4, <4>3 DEF SameEntry
      <4> QED
        BY <3>1, <3>2, <4>4, <4>5, <4>6
    <3>3. CASE ~c.normalstdout
      <4>1. output = placed
        BY <3>3 DEF OpenIf
      <4> HIDE DEF output
      <4> QED
        BY <2>4, <3>1, <3>3, <4>1
    <3> QED
      BY <3>2, <3>3
  <2> HIDE DEF output
  <2>6. /\ t.tables[p][0] # None <=> c.normalstdin
        /\ t.tables[p][1] # None <=> c.normalstdout
        /\ \A e \in Entries \ {0, 1} : t.tables[p][e] = s.tables[p][e]
    <3>1. CASE c.normalstdin
      <4>1. t = output
        BY <3>1 DEF CloseIf
      <4> HIDE DEF t
      <4> QED
        BY <2>5, <3>1, <4>1
    <3>2. CASE ~c.normalstdin
      <4>1. t = DOS_CloseFile(output, p, 0)
        BY <3>2 DEF CloseIf
      <4> HIDE DEF t
      <4>2. t.tables[p][0] = None /\ \A x \in Entries \ {0} : SameEntry(output, t, p, x)
        <5>1. Empties(output, t, p, 0)
          BY <1>1, <2>5, <4>1, SmallNumbers, CloseAt
        <5> QED
          BY <5>1 DEF Empties
      <4>3. t.tables[p][1] # None <=> c.normalstdout
        BY <2>5, <4>2, SmallNumbers DEF SameEntry
      <4>4. \A e \in Entries \ {0, 1} : t.tables[p][e] = s.tables[p][e]
        BY <2>5, <4>2 DEF SameEntry
      <4> QED
        BY <3>2, <4>2, <4>3, <4>4
    <3> QED
      BY <3>1, <3>2
  <2> QED
    BY <1>0, <1>4, <2>6
<1> QED
  BY <1>3, <1>4

-----------------------------------------------------------------------------
(* The shells of the system *)

Odd(c) == c.in # "none" /\ ~c.inOk /\ ~c.normalstdin

\* While the shell of p waits for a command.
Redirected(p) ==
    LET c == command[p]
    IN c.doing = "command" =>
         /\ p \in Processes
         /\ c.normalstdin \in BOOLEAN /\ c.normalstdout \in BOOLEAN
         /\ c.inOk => c.in # "none"
         /\ c.outOk => c.out # "none"
         /\ c.roomy /\ ~Odd(c) =>
              /\ c.inOk => NameAt(p, 0) = c.in
              /\ ~c.inOk => (tables[p][0] # None <=> c.normalstdin)
              /\ c.outOk => NameAt(p, 1) = c.out
              /\ ~c.outOk => (tables[p][1] # None <=> c.normalstdout)
         /\ c.roomy /\ c.out = "none" => (tables[p][1] # None <=> c.normalstdout)

ShellInv == Inv /\ \A p \in Psps : Redirected(p)

LEMMA TwoOf ==
  ASSUME NEW S \in SUBSET Slots, Cardinality(S) >= 2
  PROVE  Two(S)
<1>1. IsFiniteSet(S)
  <2>1. IsFiniteSet(Slots)
    BY FS_Interval, DosFilesAssumption DEF Slots, None
  <2> QED
    BY <2>1, FS_Subset
<1>2. S # {}
  BY <1>1, FS_EmptySet
<1>3. PICK a \in S : TRUE
  BY <1>2
<1>4. S # {a}
  BY FS_Singleton
<1> QED
  BY <1>3, <1>4 DEF Two

\* A shell that waits while another process runs.
LEMMA Bystander ==
  ASSUME Inv, NEW q, Keeps(Now, Now', q), NEW p \in Psps, p # q, Redirected(p),
         command'[p] = command[p], p \in Processes => p \in Processes'
  PROVE  Redirected(p)'
<1>1. tables \in [Psps -> [Entries -> Slots \cup {None}]]
  BY DEF Inv, Good, State, Now
<1>2. tables'[p] = tables[p]
  BY DEF Keeps, Now
<1>3. \A e \in {0, 1} : NameAt(p, e)' = NameAt(p, e)
  <2> SUFFICES ASSUME NEW e \in {0, 1}
               PROVE  NameAt(p, e)' = NameAt(p, e)
    OBVIOUS
  <2>1. e \in Entries
    BY SmallNumbers
  <2>2. tables[p][e] \in Slots => files'[tables[p][e]].name = files[tables[p][e]].name
    BY <2>1 DEF Keeps, Now
  <2>3. tables[p][e] = None \/ tables[p][e] \in Slots
    BY <1>1, <2>1
  <2> QED
    BY <1>2, <2>2, <2>3 DEF NameAt
<1> QED
  BY <1>2, <1>3 DEF Redirected

LEMMA OtherShells ==
  ASSUME ShellInv, OneTable, Processes \subseteq Processes' \cup {Current},
         NEW p \in Psps, p # Current, command'[p] = command[p]
  PROVE  Redirected(p)'
<1>1. Inv /\ Redirected(p)
  BY DEF ShellInv
<1>2. CASE p \in Processes
  <2>1. PICK q \in (Psps \ Processes) \cup {Current} : Keeps(Now, Now', q)
    BY DEF OneTable
  <2> QED
    BY <1>1, <1>2, <2>1, Bystander
<1>3. CASE p \notin Processes
  BY <1>1, <1>3 DEF Redirected
<1> QED
  BY <1>2, <1>3

LEMMA InitialShells == Init => ShellInv
<1> SUFFICES ASSUME Init
             PROVE  ShellInv
  OBVIOUS
<1>1. \A p \in Psps : command[p].doing # "command"
  BY DEF Init, Idle, Program
<1>2. \A p \in Psps : Redirected(p)
  BY <1>1 DEF Redirected
<1> QED
  BY <1>2, Initially DEF ShellInv

\* A call of a program, or the end of a process that is no shell with a command.
LEMMA CallsKeepShells ==
  ASSUME ShellInv, OneTable, ~IsShell("command"),
         Processes \subseteq Processes' \cup {Current},
         \A p \in Psps \ {Current} : command'[p] = command[p],
         command'[Current].doing # "command"
  PROVE  \A p \in Psps : Redirected(p)'
<1> SUFFICES ASSUME NEW p \in Psps
             PROVE  Redirected(p)'
  OBVIOUS
<1>1. CASE p = Current
  <2>1. command'[p].doing # "command"
    BY <1>1
  <2> QED
    BY <2>1 DEF Redirected
<1>2. CASE p # Current
  BY <1>2, OtherShells
<1> QED
  BY <1>1, <1>2

LEMMA ExecuteKeepsShells ==
  ASSUME ShellInv, NEW shell \in BOOLEAN, Execute(shell)
  PROVE  \A p \in Psps : Redirected(p)'
<1> DEFINE child == Lowest(Unused)
           t == CopyFileTable(Now, Current, child)
<1> SUFFICES ASSUME NEW p \in Psps
             PROVE  Redirected(p)'
  OBVIOUS
<1>1. Good(Now, Processes) /\ Waiting /\ Commands /\ Inv /\ Redirected(p)
  BY DEF Inv, ShellInv
<1>2. child \in Psps \ Processes
  <2>1. Unused \in SUBSET Nat /\ Unused # {} /\ Unused = Psps \ Processes
    BY DosFilesAssumption DEF Unused, Processes, Execute
  <2> QED
    BY <2>1, LowestOfSome
<1>3. Becomes(t) /\ running' = Append(running, child) /\ resident' = resident
      /\ command' = [command EXCEPT ![child] = IF shell THEN Idle ELSE Program]
  BY DEF Execute
<1>4. Good(t, Processes \cup {child}) /\ Keeps(Now, t, child)
  <2> HIDE DEF child
  <2> QED
    BY <1>1, <1>2, CurrentRuns, CopyTable
<1> HIDE DEF t, child
<1>5. Now' = t
  BY <1>3, <1>4 DEF Becomes, Now, Good, State
<1>6. Processes \subseteq Processes'
  <2>1. /\ DOMAIN running \subseteq DOMAIN running'
        /\ \A k \in DOMAIN running : running'[k] = running[k]
    BY <1>1, <1>3 DEF Waiting
  <2> QED
    BY <2>1, <1>3 DEF Processes
<1>7. CASE p = child
  <2>1. command'[p].doing # "command"
    BY <1>1, <1>3, <1>7 DEF Commands, Idle, Program
  <2> QED
    BY <2>1 DEF Redirected
<1>8. CASE p # child
  <2>1. command'[p] = command[p]
    BY <1>1, <1>3, <1>8 DEF Commands
  <2>2. Keeps(Now, Now', child)
    BY <1>4, <1>5
  <2> QED
    BY <1>1, <1>6, <1>8, <2>1, <2>2, Bystander
<1> QED
  BY <1>7, <1>8

LEMMA LineReaches ==
  ASSUME ShellInv, NEW in \in FileNames \cup {"none"}, NEW out \in FileNames \cup {"none"},
         NEW inOk \in BOOLEAN, NEW outOk \in BOOLEAN, Line(in, inOk, out, outOk)
  PROVE  Redirected(Current)'
<1> DEFINE c == [doing |-> "command", in |-> in, out |-> out,
                 inOk |-> inOk /\ HasRoom(Now, Current), outOk |-> outOk,
                 normalstdin |-> tables[Current][0] # None,
                 normalstdout |-> tables[Current][1] # None,
                 roomy |-> Roomy]
           p == Current
           u == RedirectIn(Now, p, c)
           t == RedirectOut(u, p, c)
<1>1. /\ Good(Now, Processes) /\ Waiting /\ Commands
      /\ p \in Processes /\ p \in Psps /\ Processes \in SUBSET Psps
  BY CurrentRuns DEF Inv, ShellInv
<1>2. /\ Becomes(t) /\ command' = [command EXCEPT ![p] = c]
      /\ UNCHANGED <<running, resident>>
      /\ inOk => in \in FileNames
      /\ outOk => out \in FileNames
  BY DEF Line
<1>3. /\ c.doing = "command" /\ c.in = in /\ c.out = out
      /\ c.inOk => inOk
      /\ c.outOk <=> outOk
      /\ c.normalstdin <=> tables[p][0] # None
      /\ c.normalstdout <=> tables[p][1] # None
      /\ c.normalstdin \in BOOLEAN /\ c.normalstdout \in BOOLEAN
      /\ c.roomy <=> Roomy
  OBVIOUS
<1> HIDE DEF c
<1>4. /\ c.inOk => c.in \in Names
      /\ c.outOk => c.out \in Names
      /\ c.inOk => c.in # "none"
      /\ c.outOk => c.out # "none"
  BY <1>2, <1>3, EmptyIsFile DEF Names
<1>5. Good(u, Processes)
  BY <1>1, <1>4, RedirectInGood
<1>6. Good(t, Processes)
  <2> HIDE DEF u
  <2> QED
    BY <1>1, <1>4, <1>5, RedirectOutGood
<1>7. command'[p] = c /\ p' = p /\ p \in Processes'
  <2>1. running' = running /\ Processes' = Processes
    BY <1>2 DEF Processes
  <2>2. p' = p
    BY <2>1 DEF Current
  <2> QED
    BY <1>1, <1>2, <2>1, <2>2 DEF Commands
<1>8. /\ tables'[p] = t.tables[p]
      /\ NameAt(p, 0)' = NameOf(t, p, 0)
      /\ NameAt(p, 1)' = NameOf(t, p, 1)
  <2> HIDE DEF t
  <2> QED
    BY <1>2, <1>7 DEF Becomes, NameAt, NameOf
<1>9. ASSUME Roomy
      PROVE  Two(Free(Now))
  <2>1. Free(Now) = FreeSlots
    BY DEF Free, FreeSlots, Now
  <2>2. FreeSlots \in SUBSET Slots /\ Cardinality(FreeSlots) >= 2
    BY <1>9 DEF Roomy, FreeSlots
  <2> QED
    BY <2>1, <2>2, TwoOf
<1>10. Now.tables = tables
  BY DEF Now
<1> HIDE DEF p
<1>11. ASSUME Roomy
       PROVE  /\ c.inOk => NameOf(u, p, 0) = c.in
              /\ ~c.inOk => (u.tables[p][0] # None <=> c.normalstdin)
              /\ u.tables[p][1] # None <=> c.normalstdout
              /\ Free(u) # {}
              /\ ~c.inOk => Two(Free(u))
  <2>1. CASE c.inOk
    <3>1. /\ NameOf(u, p, 0) = c.in /\ SameEntry(Now, u, p, 1) /\ Free(u) # {}
      <4>1. c.normalstdin <=> Now.tables[p][0] # None
        BY <1>3, <1>10 DEF p
      <4> QED
        BY <2>1, <4>1, <1>1, <1>4, <1>9, <1>11, RedirectInReaches
    <3> HIDE DEF u
    <3> QED
      BY <2>1, <3>1, <1>3, <1>10 DEF SameEntry, p
  <2>2. CASE ~c.inOk
    <3>1. u = Now
      BY <2>2 DEF RedirectIn
    <3> HIDE DEF u
    <3> QED
      BY <2>2, <3>1, <1>3, <1>9, <1>10, <1>11 DEF Two, p
  <2> QED
    BY <2>1, <2>2
<1>12. ASSUME c.out = "none"
       PROVE  t = u
  BY <1>12 DEF RedirectOut
<1>13. ASSUME Roomy, ~Odd(c), c.out # "none"
       PROVE  /\ SameEntry(u, t, p, 0)
              /\ c.outOk => NameOf(t, p, 1) = c.out
              /\ ~c.outOk => (t.tables[p][1] # None <=> c.normalstdout)
  <2> HIDE DEF u
  <2>1. Placeholder(c) => u.tables[p][0] = None /\ Two(Free(u))
    BY <1>4, <1>11, <1>13 DEF Placeholder
  <2>2. ~Placeholder(c) => u.tables[p][0] # None
    <3>1. c.inOk => u.tables[p][0] # None
      BY <1>4, <1>11, <1>13, NamedIsHeld
    <3> QED
      BY <3>1, <1>11, <1>13 DEF Placeholder, Odd
  <2>3. p \in Processes /\ Processes \in SUBSET Psps /\ Good(u, Processes)
    BY <1>1, <1>5 DEF p
  <2> QED
    BY <2>1, <2>2, <2>3, <1>4, <1>11, <1>13, RedirectOutReaches
<1> HIDE DEF u, t
<1>14. ASSUME Roomy, ~Odd(c)
       PROVE  /\ c.inOk => NameOf(t, p, 0) = c.in
              /\ ~c.inOk => (t.tables[p][0] # None <=> c.normalstdin)
              /\ c.outOk => NameOf(t, p, 1) = c.out
              /\ ~c.outOk => (t.tables[p][1] # None <=> c.normalstdout)
  <2>1. CASE c.out = "none"
    BY <2>1, <1>4, <1>11, <1>12, <1>14
  <2>2. CASE c.out # "none"
    BY <2>2, <1>11, <1>13, <1>14 DEF SameEntry
  <2> QED
    BY <2>1, <2>2
<1>15. ASSUME Roomy, c.out = "none"
       PROVE  t.tables[p][1] # None <=> c.normalstdout
  BY <1>11, <1>12, <1>15
<1>16. command'[p].doing = "command" => 
         /\ p \in Processes'
         /\ c.normalstdin \in BOOLEAN /\ c.normalstdout \in BOOLEAN
         /\ c.inOk => c.in # "none"
         /\ c.outOk => c.out # "none"
         /\ c.roomy /\ ~Odd(c) =>
              /\ c.inOk => NameAt(p, 0)' = c.in
              /\ ~c.inOk => (tables'[p][0] # None <=> c.normalstdin)
              /\ c.outOk => NameAt(p, 1)' = c.out
              /\ ~c.outOk => (tables'[p][1] # None <=> c.normalstdout)
         /\ c.roomy /\ c.out = "none" => (tables'[p][1] # None <=> c.normalstdout)
  BY <1>3, <1>4, <1>7, <1>8, <1>14, <1>15
<1> QED
  BY <1>7, <1>16 DEF Redirected, p

\* The end of a command undoes what its line did to the entries.
LEMMA EndOfCommandRestores ==
  ASSUME ShellInv, EndOfCommand, command[Current].roomy,
         Cardinality(FreeSlots \cup Reusable(Current)) >= 2
  PROVE  /\ tables'[Current][0] # None <=> command[Current].normalstdin
         /\ tables'[Current][1] # None <=> command[Current].normalstdout
         /\ \A e \in Entries \ {0, 1} : tables'[Current][e] = tables[Current][e]
<1> DEFINE p == Current
           c == command[p]
           t == Restore(Now, p, c)
<1>1. /\ Good(Now, Processes) /\ p \in Processes /\ Processes \in SUBSET Psps
      /\ Redirected(p) /\ c.doing = "command"
  BY CurrentRuns DEF Inv, ShellInv, EndOfCommand, IsShell
<1>2. files' = t.files /\ tables' = t.tables
  BY DEF EndOfCommand, Becomes
<1>3. Now.tables = tables /\ Now.files = files
  BY DEF Now
<1> HIDE DEF t
<1>4. /\ c.normalstdin \in BOOLEAN /\ c.normalstdout \in BOOLEAN
      /\ c.in = "none" => (Now.tables[p][0] # None <=> c.normalstdin)
      /\ c.out = "none" => (Now.tables[p][1] # None <=> c.normalstdout)
  BY <1>1, <1>3 DEF Redirected, Odd
<1>5. Two(Free(Now) \cup Returned(Now, p, c))
  <2>1. Free(Now) = FreeSlots /\ Returned(Now, p, c) = Reusable(p)
    BY <1>3 DEF Free, FreeSlots, Returned, Reusable
  <2>2. FreeSlots \cup Reusable(p) \in SUBSET Slots
    BY DEF FreeSlots, Reusable
  <2> QED
    BY <2>1, <2>2, TwoOf
<1> HIDE DEF c, p
<1>6. /\ t.tables[p][0] # None <=> c.normalstdin
      /\ t.tables[p][1] # None <=> c.normalstdout
      /\ \A e \in Entries \ {0, 1} : t.tables[p][e] = Now.tables[p][e]
  BY <1>1, <1>4, <1>5, RestoreKeeps DEF t
<1> QED
  BY <1>2, <1>3, <1>6 DEF c, p

LEMMA ProgramKeepsShells ==
  ASSUME ShellInv, OneTable, IsProgram, command' = command,
         Processes \subseteq Processes' \cup {Current}
  PROVE  \A p \in Psps : Redirected(p)'
<1>1. command[Current].doing = "program"
  BY DEF IsProgram
<1> QED
  BY <1>1, CallsKeepShells DEF IsShell

LEMMA ShellStep == InTable /\ ShellInv /\ [Next]_vars => ShellInv'
<1> SUFFICES ASSUME InTable, ShellInv, [Next]_vars
             PROVE  ShellInv'
  OBVIOUS
<1>1. Inv /\ Inv' /\ OneTable /\ Current \in Psps /\ Waiting /\ Commands
  BY OneStep, CurrentRuns DEF ShellInv, Inv
<1>2. \A p \in Psps : Redirected(p)'
  <2>1. ASSUME IsProgram, UNCHANGED <<running, resident, command>>
        PROVE  \A p \in Psps : Redirected(p)'
    <3>1. Processes' = Processes
      BY <2>1 DEF Processes
    <3> QED
      BY <2>1, <3>1, <1>1, ProgramKeepsShells
  <2>2. CASE \E name \in Names, private \in BOOLEAN : Open(name, private)
    BY <2>1, <2>2 DEF Open
  <2>3. CASE \E name \in FileNames : FcbOpen(name)
    BY <2>1, <2>3 DEF FcbOpen
  <2>4. CASE \E e \in Touched : Close(e)
    BY <2>1, <2>4 DEF Close
  <2>5. CASE \E e \in Touched : Duplicate(e)
    BY <2>1, <2>5 DEF Duplicate
  <2>6. CASE \E e, new \in Touched : ForceDuplicate(e, new)
    BY <2>1, <2>6 DEF ForceDuplicate
  <2>7. CASE \E shell \in BOOLEAN : Execute(shell)
    BY <2>7, ExecuteKeepsShells
  <2>8. CASE Terminate
    <3>1. /\ ~IsShell("command") /\ Leave /\ Len(running) > 1 /\ resident' = resident
          /\ command' = [command EXCEPT ![Current] = Program]
      BY <2>8 DEF Terminate, IsProgram, IsShell
    <3>2. resident' \subseteq Psps
      BY <3>1, <1>1 DEF Waiting
    <3>3. Processes \subseteq Processes' \cup {Current}
      <4>1. Processes \cup resident' \subseteq Processes' \cup resident \cup {Current}
        BY <1>1, <3>1, <3>2, Leaving
      <4> QED
        BY <3>1, <4>1 DEF Processes
    <3>4. /\ \A p \in Psps \ {Current} : command'[p] = command[p]
          /\ command'[Current].doing # "command"
      BY <1>1, <3>1 DEF Commands, Program
    <3> QED
      BY <1>1, <3>1, <3>3, <3>4, CallsKeepShells
  <2>9. CASE StayResident
    <3>1. /\ IsProgram /\ command' = command /\ Leave /\ Len(running) > 1
          /\ resident' = resident \cup {Current}
      BY <2>9 DEF StayResident
    <3>2. resident' \subseteq Psps
      BY <3>1, <1>1 DEF Waiting
    <3>3. Processes \subseteq Processes' \cup {Current}
      <4>1. Processes \cup resident' \subseteq Processes' \cup resident \cup {Current}
        BY <1>1, <3>1, <3>2, Leaving
      <4> QED
        BY <3>1, <4>1 DEF Processes
    <3> QED
      BY <1>1, <3>1, <3>3, ProgramKeepsShells
  <2>10. CASE \E in, out \in FileNames \cup {"none"}, inOk, outOk \in BOOLEAN :
                 Line(in, inOk, out, outOk)
    <3>1. PICK in \in FileNames \cup {"none"}, out \in FileNames \cup {"none"},
               inOk \in BOOLEAN, outOk \in BOOLEAN : Line(in, inOk, out, outOk)
      BY <2>10
    <3>2. Redirected(Current)'
      BY <3>1, LineReaches
    <3>3. /\ Processes' = Processes
          /\ \A p \in Psps \ {Current} : command'[p] = command[p]
      BY <1>1, <3>1 DEF Line, Processes, Commands
    <3>4. \A p \in Psps \ {Current} : Redirected(p)'
      BY <1>1, <3>3, OtherShells
    <3>5. Current' = Current
      BY <3>1 DEF Line, Current
    <3> QED
      BY <3>2, <3>4, <3>5
  <2>11. CASE EndOfCommand
    <3>1. /\ Processes' = Processes
          /\ \A p \in Psps \ {Current} : command'[p] = command[p]
          /\ command'[Current].doing # "command"
      BY <1>1, <2>11 DEF EndOfCommand, Processes, Commands, Idle, Program
    <3>2. \A p \in Psps \ {Current} : Redirected(p)'
      BY <1>1, <3>1, OtherShells
    <3>3. ASSUME NEW p \in Psps, p = Current
          PROVE  Redirected(p)'
      <4>1. command'[p].doing # "command"
        BY <3>1, <3>3
      <4> QED
        BY <4>1 DEF Redirected
    <3> QED
      BY <3>2, <3>3
  <2>12. CASE UNCHANGED vars
    <3>1. \A p \in Psps : Redirected(p)
      BY DEF ShellInv
    <3> QED
      BY <2>12, <3>1 DEF vars, Redirected, Processes, NameAt
  <2> QED
    BY <2>2, <2>3, <2>4, <2>5, <2>6, <2>7, <2>8, <2>9, <2>10, <2>11, <2>12 DEF Next
<1> QED
  BY <1>1, <1>2 DEF ShellInv

\* What a line asked for stays in entries 0 and 1 of the shell while the
\* command runs: the invariant behind the two theorems on redirection.
THEOREM ShellInvariance == ASSUME InTable PROVE Spec => []ShellInv
<1>1. ShellInv /\ [Next]_vars => ShellInv'
  BY ShellStep
<1> QED
  BY InitialShells, <1>1, PTL DEF Spec

\* While a command runs, stdin and stdout of its shell are the files the line
\* named, and are closed where they were closed before (DOS_Shell::ParseLine).
THEOREM CommandsGetTheirFiles == ASSUME InTable PROVE Spec => []RedirectReaches
<1>1. ShellInv => RedirectReaches
  BY DEF ShellInv, RedirectReaches, Redirected, Odd
<1> QED
  BY ShellInvariance, <1>1, PTL

\* After the command the shell's entries are open or closed as before it, and
\* those from 2 on are the same.
THEOREM ShellsKeepTheirs == ASSUME InTable PROVE Spec => ShellKeepsEntries
<1>1. ShellInv /\ [Next]_vars =>
        [\A p \in Psps :
          LET c == command[p]
          IN c.doing = "command" /\ command'[p].doing = "idle"
                /\ c.roomy /\ Cardinality(FreeSlots \cup Reusable(p)) >= 2 =>
             /\ tables'[p][0] # None <=> c.normalstdin
             /\ tables'[p][1] # None <=> c.normalstdout
             /\ \A e \in Entries \ {0, 1} : tables'[p][e] = tables[p][e]]_vars
  <2> SUFFICES ASSUME ShellInv, [Next]_vars, NEW p \in Psps,
                      command[p].doing = "command", command'[p].doing = "idle",
                      command[p].roomy, Cardinality(FreeSlots \cup Reusable(p)) >= 2
               PROVE  /\ tables'[p][0] # None <=> command[p].normalstdin
                      /\ tables'[p][1] # None <=> command[p].normalstdout
                      /\ \A e \in Entries \ {0, 1} : tables'[p][e] = tables[p][e]
    OBVIOUS
  <2>1. /\ Commands /\ p \in Processes /\ Current \in Psps
        /\ Unused \in SUBSET Nat /\ Unused = Psps \ Processes
    BY CurrentRuns, DosFilesAssumption
    DEF ShellInv, Inv, Redirected, Unused, Processes
  <2>2. p = Current /\ EndOfCommand
    <3>1. command' # command
      OBVIOUS
    <3>2. ~\E shell \in BOOLEAN : Execute(shell)
      <4> SUFFICES ASSUME NEW shell \in BOOLEAN, Execute(shell)
                   PROVE  FALSE
        OBVIOUS
      <4>1. Lowest(Unused) # p
        BY <2>1, LowestOfSome DEF Execute
      <4>2. command'[p] = command[p]
        BY <2>1, <4>1 DEF Execute, Commands
      <4> QED
        BY <4>2
    <3>3. ~Terminate
      BY <2>1 DEF Terminate, Commands, Program
    <3>4. ~\E in, out \in FileNames \cup {"none"}, inOk, outOk \in BOOLEAN :
              Line(in, inOk, out, outOk)
      <4> SUFFICES ASSUME NEW in, NEW out, NEW inOk, NEW outOk,
                          Line(in, inOk, out, outOk)
                   PROVE  FALSE
        OBVIOUS
      <4>1. PICK c : c.doing = "command" /\ command' = [command EXCEPT ![Current] = c]
        BY DEF Line
      <4> QED
        BY <2>1, <4>1 DEF Commands
    <3>5. EndOfCommand
      BY <3>1, <3>2, <3>3, <3>4
      DEF Next, vars, Open, FcbOpen, Close, Duplicate, ForceDuplicate, StayResident
    <3>6. p = Current
      BY <2>1, <3>5 DEF EndOfCommand, Commands
    <3> QED
      BY <3>5, <3>6
  <2> QED
    BY <2>2, EndOfCommandRestores
<1> QED
  BY ShellInvariance, <1>1, PTL DEF Spec, ShellKeepsEntries
=============================================================================
