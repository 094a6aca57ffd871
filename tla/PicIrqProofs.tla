---------------------------- MODULE PicIrqProofs ----------------------------
(***************************************************************************)
(* Proofs about PicIrq for every choice of lines, machine and guest:       *)
(* type correctness, the cached answer PIC_IRQCheck, the cached line       *)
(* PIC_IRQActive, and nesting by priority.                                 *)
(***************************************************************************)
EXTENDS PicIrq, WellFoundedInduction, TLAPS

\* Without special mask mode neither controller's flag nor the summary is set.
NoSpecial ==
  ~SpecialMaskUsed => ~specialMode /\ \A p \in Pics : ~special[p]

\* What the next-state relation preserves.
IInv == TypeOK /\ CheckTracksLines /\ ActiveInService /\ ActiveIsHighest /\ NoSpecial

-----------------------------------------------------------------------------
(* The priority order *)

\* A line's rank is a number below 16, and no two lines share one: the order
\* of IRQ_priority_table is total.
LEMMA RankProperties ==
  /\ \A i \in Lines : Rank(i) \in 0..15
  /\ \A i, j \in Lines : Rank(i) = Rank(j) => i = j
  /\ Rank(NoIRQ) = 16
  /\ NoIRQ \notin Lines
BY LinesAssumption DEF Rank, NoIRQ

\* The walk down the priority table finds the most urgent line of any set of
\* lines that is not empty.
LEMMA HighestProperties ==
  ASSUME NEW S \in SUBSET Lines
  PROVE  /\ S = {} => Highest(S) = NoIRQ
         /\ S # {} => Highest(S) \in S /\ \A j \in S : Rank(Highest(S)) <= Rank(j)
<1>1. S = {} => Highest(S) = NoIRQ
  BY DEF Highest
<1>2. ASSUME S # {}
      PROVE  \E i \in S : \A j \in S : Rank(i) <= Rank(j)
  <2> DEFINE ranks == {Rank(j) : j \in S}
  <2>1. ranks \subseteq Nat /\ ranks # {}
    BY <1>2, RankProperties
  <2>2. PICK r \in ranks : \A q \in ranks : ~ (<<q, r>> \in OpToRel(<, Nat))
    BY <2>1, WFMin, NatLessThanWellFounded
  <2>3. \A q \in ranks : ~ (q < r)
    BY <2>1, <2>2 DEF OpToRel
  <2>4. PICK i \in S : r = Rank(i)
    OBVIOUS
  <2>5. \A j \in S : Rank(i) <= Rank(j)
    BY <2>1, <2>3, <2>4
  <2>6. QED
    BY <2>4, <2>5
<1>3. ASSUME S # {}
      PROVE  Highest(S) \in S /\ \A j \in S : Rank(Highest(S)) <= Rank(j)
  BY <1>2, <1>3 DEF Highest
<1>4. QED
  BY <1>1, <1>3

-----------------------------------------------------------------------------
(* The inductive invariant *)

LEMMA InitIInv == Init => IInv
<1> SUFFICES ASSUME Init
             PROVE  IInv
  OBVIOUS
<1>1. TypeOK
  <2>1. masked \subseteq Lines /\ active \subseteq Lines /\ inservice \subseteq Lines
    BY DEF Init
  <2>2. IRQCheck \subseteq Lines /\ IRQActive \in Lines \cup {NoIRQ}
    BY DEF Init
  <2>3. /\ special \in [Pics -> BOOLEAN] /\ autoEoi \in [Pics -> BOOLEAN]
        /\ rotate \in [Pics -> BOOLEAN] /\ single \in [Pics -> BOOLEAN]
    BY DEF Init
  <2>4. icwIndex \in [Pics -> 0..3] /\ icwWords \in [Pics -> {0, 2, 3}]
    BY DEF Init
  <2>5. specialMode \in BOOLEAN /\ IF_flag \in BOOLEAN /\ exited \in BOOLEAN
    BY DEF Init
  <2>6. QED
    BY <2>1, <2>2, <2>3, <2>4, <2>5 DEF TypeOK
<1>2. CheckTracksLines
  BY DEF Init, CheckTracksLines
<1>3. ActiveInService /\ ActiveIsHighest
  BY DEF Init, ActiveInService, ActiveIsHighest
<1>4. NoSpecial
  BY DEF Init, NoSpecial
<1>5. QED
  BY <1>1, <1>2, <1>3, <1>4 DEF IInv

\* Raising and lowering a line.
LEMMA DevicePreserves ==
  ASSUME IInv, NEW i \in Lines, PIC_ActivateIRQ(i) \/ PIC_DeActivateIRQ(i)
  PROVE  IInv'
<1>1. CASE PIC_ActivateIRQ(i)
  BY <1>1, LinesAssumption
     DEF IInv, TypeOK, CheckTracksLines, ActiveInService, ActiveIsHighest, NoSpecial,
         PIC_ActivateIRQ, Unblocked, icwVars, modeVars
<1>2. CASE PIC_DeActivateIRQ(i)
  BY <1>2, LinesAssumption
     DEF IInv, TypeOK, CheckTracksLines, ActiveInService, ActiveIsHighest, NoSpecial,
         PIC_DeActivateIRQ, Unblocked, icwVars, modeVars
<1>3. QED
  BY <1>1, <1>2

\* Masking one line, the cascade among them.
LEMMA SetIRQMaskPreserves ==
  ASSUME IInv, NEW i \in Lines, NEW m \in BOOLEAN, PIC_SetIRQMask(i, m)
  PROVE  IInv'
<1> USE DEF IInv, PIC_SetIRQMask, icwVars, modeVars
<1>1. TypeOK'
  BY LinesAssumption DEF TypeOK, RecheckSecond
<1>2. CheckTracksLines'
  BY LinesAssumption DEF TypeOK, CheckTracksLines, RecheckSecond, Unblocked
<1>3. ActiveInService' /\ ActiveIsHighest' /\ NoSpecial'
  BY DEF ActiveInService, ActiveIsHighest, NoSpecial
<1>4. QED
  BY <1>1, <1>2, <1>3

\* Writing a mask register.
LEMMA WriteMaskPreserves ==
  ASSUME IInv, NEW p \in Pics, NEW M \in SUBSET {i \in Lines : PicOf(i) = p},
         WriteMask(p, M)
  PROVE  IInv'
<1> USE DEF IInv, WriteMask, icwVars, modeVars
<1>1. TypeOK'
  BY DEF TypeOK, RecheckSecond
<1>2. CheckTracksLines'
  BY LinesAssumption DEF TypeOK, CheckTracksLines, RecheckSecond, Unblocked, PicOf, Pics
<1>3. ActiveInService' /\ ActiveIsHighest' /\ NoSpecial'
  BY DEF ActiveInService, ActiveIsHighest, NoSpecial
<1>4. QED
  BY <1>1, <1>2, <1>3

\* Initialisation words, rotation and special mask leave the lines alone.
LEMMA ProgrammingPreserves ==
  ASSUME IInv, Programming
  PROVE  IInv'
<1> USE DEF IInv, icwVars, modeVars, irqVars, Pics
<1>1. ASSUME NEW p \in Reinit, NEW b \in BOOLEAN, NEW c \in BOOLEAN,
             \/ WriteICW1(p, b, c) \/ WriteICW2or3(p)
             \/ WriteICW4(p, b, c) \/ SetRotate(p, b)
      PROVE  IInv'
  <2>0. p \in Pics
    BY ReinitAssumption
  <2>1. TypeOK'
    <3>1. AfterICW(p) \in 0..3
      BY <2>0 DEF TypeOK, AfterICW
    <3>2. CASE WriteICW1(p, b, c)
      BY <2>0, <3>2 DEF TypeOK, WriteICW1
    <3>3. CASE WriteICW2or3(p)
      BY <2>0, <3>1, <3>3 DEF TypeOK, WriteICW2or3
    <3>4. CASE WriteICW4(p, b, c)
      BY <2>0, <3>1, <3>4 DEF TypeOK, WriteICW4
    <3>5. CASE SetRotate(p, b)
      BY <2>0, <3>5 DEF TypeOK, SetRotate
    <3>6. QED
      BY <1>1, <3>2, <3>3, <3>4, <3>5
  <2>2. CheckTracksLines' /\ ActiveInService' /\ ActiveIsHighest' /\ NoSpecial'
    BY <1>1 DEF CheckTracksLines, ActiveInService, ActiveIsHighest, NoSpecial, Unblocked,
                WriteICW1, WriteICW2or3, WriteICW4, SetRotate
  <2>3. QED
    BY <2>1, <2>2
<1>2. ASSUME NEW p \in Pics, NEW b \in BOOLEAN, SetSpecialMask(p, b)
      PROVE  IInv'
  BY <1>2 DEF TypeOK, CheckTracksLines, ActiveInService, ActiveIsHighest, NoSpecial,
              Unblocked, SetSpecialMask
<1>3. QED
  BY <1>1, <1>2 DEF Programming

\* An end of interrupt retires the active line and re-establishes the cache.
LEMMA RetireActivePreserves ==
  ASSUME IInv, IRQActive \in Lines, RetireActive
  PROVE  IInv'
<1>1. IRQActive' = Highest(inservice')
  BY DEF RetireActive
<1>2. inservice' = inservice \ {IRQActive} /\ inservice' \in SUBSET Lines
  BY DEF RetireActive, IInv, TypeOK
<1>3. /\ inservice' = {} => IRQActive' = NoIRQ
      /\ inservice' # {} => /\ IRQActive' \in inservice'
                            /\ \A j \in inservice' : Rank(IRQActive') <= Rank(j)
  BY <1>1, <1>2, HighestProperties
<1>4. TypeOK'
  BY <1>2, <1>3 DEF IInv, TypeOK, RetireActive, icwVars, modeVars
<1>5. ActiveInService' /\ ActiveIsHighest'
  BY <1>2, <1>3, RankProperties DEF ActiveInService, ActiveIsHighest
<1>6. CheckTracksLines' /\ NoSpecial'
  BY DEF IInv, CheckTracksLines, NoSpecial, Unblocked, RetireActive, icwVars, modeVars
<1>7. QED
  BY <1>4, <1>5, <1>6 DEF IInv

LEMMA RetiringPreserves ==
  ASSUME IInv, Retiring
  PROVE  IInv'
<1>1. IRQActive \in Lines /\ RetireActive
  BY DEF IInv, TypeOK, Retiring, NonspecificEOI, SpecificEOI, NoIRQ, BaseOf, Pics
<1>2. QED
  BY <1>1, RetireActivePreserves

\* Starting a line: the line started is more urgent than the active one, which
\* is at least as urgent as everything in service.
LEMMA RunIRQsPreserves ==
  ASSUME IInv, PIC_runIRQs
  PROVE  IInv'
<1>1. PICK i \in Lines : MayStart(i) /\ PIC_startIRQ(i)
  BY DEF PIC_runIRQs
<1> USE DEF IInv, PIC_startIRQ, icwVars, modeVars
<1>2. TypeOK'
  BY <1>1, LinesAssumption DEF TypeOK, PicOf, Pics
<1>3. CheckTracksLines'
  BY <1>1 DEF TypeOK, CheckTracksLines, Unblocked
<1>4. ActiveInService'
  BY <1>1, RankProperties DEF TypeOK, ActiveInService
<1>5. ActiveIsHighest'
  <2>1. ASSUME ~SpecialMaskUsed, NEW j \in inservice
        PROVE  Rank(i) < Rank(j)
    BY <1>1, <2>1, RankProperties
       DEF MayStart, NoSpecial, ActiveIsHighest, TypeOK
  <2>2. QED
    BY <1>1, <2>1, RankProperties DEF ActiveIsHighest, TypeOK
<1>6. NoSpecial'
  BY <1>1 DEF NoSpecial
<1>7. QED
  BY <1>2, <1>3, <1>4, <1>5, <1>6

LEMMA SetIFPreserves ==
  ASSUME IInv, NEW b \in BOOLEAN, CPU_SetIF(b)
  PROVE  IInv'
BY DEF IInv, TypeOK, CheckTracksLines, ActiveInService, ActiveIsHighest, NoSpecial,
       Unblocked, CPU_SetIF, irqVars, icwVars, modeVars

LEMMA NextPreserves == IInv /\ [Next]_vars => IInv'
<1> SUFFICES ASSUME IInv, [Next]_vars
             PROVE  IInv'
  OBVIOUS
<1>1. CASE Device
  BY <1>1, DevicePreserves DEF Device
<1>2. CASE Masking
  BY <1>2, SetIRQMaskPreserves, WriteMaskPreserves DEF Masking
<1>3. CASE Programming
  BY <1>3, ProgrammingPreserves
<1>4. CASE Retiring
  BY <1>4, RetiringPreserves
<1>5. CASE PIC_runIRQs
  BY <1>5, RunIRQsPreserves
<1>6. CASE \E b \in BOOLEAN : CPU_SetIF(b)
  BY <1>6, SetIFPreserves
<1>7. CASE UNCHANGED vars
  BY <1>7 DEF IInv, TypeOK, CheckTracksLines, ActiveInService, ActiveIsHighest, NoSpecial,
              Unblocked, vars, irqVars, icwVars, modeVars
<1>8. QED
  BY <1>1, <1>2, <1>3, <1>4, <1>5, <1>6, <1>7 DEF Next

\* Every reachable state satisfies the inductive invariant.
THEOREM Invariance == Spec => []IInv
<1>1. Init => IInv
  BY InitIInv
<1>2. IInv /\ [Next]_vars => IInv'
  BY NextPreserves
<1>3. QED
  BY <1>1, <1>2, PTL DEF Spec

-----------------------------------------------------------------------------
(* The theorems *)

\* The variables keep their types: the index of the initialisation words never
\* leaves 0..3, PIC_IRQActive always names a line or none.
THEOREM TypeCorrect == Spec => []TypeOK
BY Invariance, PTL DEF IInv

\* PIC_IRQCheck is exact: the CPU neither misses a deliverable line nor is told
\* of one that is blocked.
THEOREM CheckIsExact == Spec => []CheckTracksLines
BY Invariance, PTL DEF IInv

\* PIC_IRQActive never goes stale: it names a line in service whenever one is.
THEOREM ActiveNeverStale == Spec => []ActiveInService
BY Invariance, PTL DEF IInv

\* Without special mask mode it names the most urgent one.
THEOREM ActiveMostUrgent == Spec => []ActiveIsHighest
BY Invariance, PTL DEF IInv

\* Without special mask mode interrupt handlers nest by priority.
THEOREM Nesting == Spec => NestsByPriority
<1> DEFINE Nests == ~SpecialMaskUsed =>
              \A i \in inservice' \ inservice, j \in inservice : Rank(i) < Rank(j)
<1>1. IInv /\ [Next]_vars => [Nests]_vars
  <2> SUFFICES ASSUME IInv, Next, ~SpecialMaskUsed,
                      NEW i \in inservice' \ inservice, NEW j \in inservice
               PROVE  Rank(i) < Rank(j)
    BY DEF Nests
  <2>1. CASE PIC_runIRQs
    <3>1. PICK k \in Lines : MayStart(k) /\ PIC_startIRQ(k)
      BY <2>1 DEF PIC_runIRQs
    <3>2. i = k
      BY <3>1 DEF PIC_startIRQ, IInv, TypeOK
    <3>3. QED
      BY <3>1, <3>2, RankProperties DEF MayStart, IInv, NoSpecial, ActiveIsHighest, TypeOK
  <2>2. CASE Retiring
    BY <2>2 DEF Retiring, NonspecificEOI, SpecificEOI, RetireActive, IInv, TypeOK
  <2>3. CASE Device \/ Masking
    BY <2>3 DEF Device, Masking, PIC_ActivateIRQ, PIC_DeActivateIRQ, PIC_SetIRQMask, WriteMask
  <2>4. CASE Programming \/ \E b \in BOOLEAN : CPU_SetIF(b)
    BY <2>4 DEF Programming, WriteICW1, WriteICW2or3, WriteICW4, SetRotate, SetSpecialMask,
                CPU_SetIF, irqVars
  <2>5. QED
    BY <2>1, <2>2, <2>3, <2>4 DEF Next
<1>2. QED
  BY <1>1, Invariance, PTL DEF Spec, NestsByPriority

=============================================================================
