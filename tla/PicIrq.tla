------------------------------- MODULE PicIrq -------------------------------
(***************************************************************************)
(* The two cascaded 8259 interrupt controllers of src/hardware/pic.cpp:    *)
(* irqs[16], pics[2], PIC_IRQCheck, PIC_IRQActive and PIC_Special_Mode,    *)
(* driven by the devices (PIC_ActivateIRQ, PIC_DeActivateIRQ), by internal *)
(* callers (PIC_SetIRQMask), by the guest's writes to ports 20h/21h and    *)
(* A0h/A1h, and by the CPU loop (PIC_runIRQs).                             *)
(*                                                                         *)
(* Lines and bits keep the code's numbers: line i belongs to controller    *)
(* PicOf(i) and is bit i % 8 of its registers; line 2 is the cascade.      *)
(***************************************************************************)
EXTENDS Integers, FiniteSets

CONSTANTS
  Lines,            \* the interrupt lines modelled, a part of 0..15 with the cascade
  Pcjr,             \* machine == MCH_PCJR
  SpecialMaskUsed,  \* may the guest switch special mask mode on
  Reinit            \* the controllers the guest initialises anew (ICW1 to ICW4)

ASSUME LinesAssumption == Lines \subseteq 0..15 /\ 2 \in Lines
ASSUME FlagsAssumption == Pcjr \in BOOLEAN /\ SpecialMaskUsed \in BOOLEAN
ASSUME ReinitAssumption == Reinit \subseteq {0, 1}
ASSUME PcjrAssumption  == Pcjr => 6 \in Lines

NoIRQ == 255        \* PIC_NOIRQ
Pics  == {0, 1}

PicOf(i) == IF i < 8 THEN 0 ELSE 1
BaseOf(p) == 8 * p

\* IRQ_priority_lookup: the position of a line in the order
\* 0 1 2 8 9 10 11 12 13 14 15 3 4 5 6 7, and 16 for "no active line".
Rank(i) == IF i = NoIRQ THEN 16
           ELSE IF i <= 2 THEN i
           ELSE IF i <= 7 THEN i + 8
           ELSE i - 5

VARIABLES
  masked, active, inservice,   \* the lines with irqs[i].masked, .active, .inservice
  IRQCheck,                    \* PIC_IRQCheck, as the set of its one bits
  IRQActive,                   \* PIC_IRQActive
  special, autoEoi, rotate,    \* pics[p].special, .auto_eoi, .rotate_on_auto_eoi
  single, icwIndex, icwWords,  \* pics[p].single, .icw_index, .icw_words
  specialMode,                 \* PIC_Special_Mode
  IF_flag,                     \* the CPU's interrupt flag, read by PIC_runIRQs
  exited                       \* E_Exit has ended the emulator

irqVars  == <<masked, active, inservice, IRQCheck, IRQActive>>
icwVars  == <<autoEoi, single, icwIndex, icwWords>>
modeVars == <<special, specialMode, rotate>>
vars     == <<irqVars, icwVars, modeVars, IF_flag, exited>>

TypeOK ==
  /\ masked \subseteq Lines
  /\ active \subseteq Lines
  /\ inservice \subseteq Lines
  /\ IRQCheck \subseteq Lines
  /\ IRQActive \in Lines \cup {NoIRQ}
  /\ special \in [Pics -> BOOLEAN]
  /\ autoEoi \in [Pics -> BOOLEAN]
  /\ rotate \in [Pics -> BOOLEAN]
  /\ single \in [Pics -> BOOLEAN]
  /\ icwIndex \in [Pics -> 0..3]
  /\ icwWords \in [Pics -> {0, 2, 3}]
  /\ specialMode \in BOOLEAN
  /\ IF_flag \in BOOLEAN
  /\ exited \in BOOLEAN

-----------------------------------------------------------------------------
(* PIC::PIC *)
Init ==
  /\ masked = Lines \ ({0, 1, 2, 8} \cup (IF Pcjr THEN {6} ELSE {}))
  /\ active = {}
  /\ inservice = {}
  /\ IRQCheck = {}
  /\ IRQActive = NoIRQ
  /\ special = [p \in Pics |-> FALSE]
  /\ autoEoi = [p \in Pics |-> FALSE]
  /\ rotate = [p \in Pics |-> FALSE]
  /\ single = [p \in Pics |-> FALSE]
  /\ icwIndex = [p \in Pics |-> 0]
  /\ icwWords = [p \in Pics |-> 0]
  /\ specialMode = FALSE
  /\ IF_flag = FALSE
  /\ exited = FALSE

-----------------------------------------------------------------------------
(* Devices *)

\* Line i may be handed to the CPU under masks m: its own mask is open, and for
\* a line of the second controller so is the cascade's.
Unblocked(i, m) == i \notin m /\ (i > 7 => 2 \notin m)

PIC_ActivateIRQ(i) ==
  /\ active' = active \cup {i}
  /\ IRQCheck' = IF Unblocked(i, masked) THEN IRQCheck \cup {i} ELSE IRQCheck
  /\ UNCHANGED <<masked, inservice, IRQActive, icwVars, modeVars, IF_flag, exited>>

PIC_DeActivateIRQ(i) ==
  /\ active' = active \ {i}
  /\ IRQCheck' = IRQCheck \ {i}
  /\ UNCHANGED <<masked, inservice, IRQActive, icwVars, modeVars, IF_flag, exited>>

-----------------------------------------------------------------------------
(* Masks *)

\* Mutant: the cascade's own change is not propagated to the second controller.
RecheckSecondForgotten(m, chk) == chk

\* A changed cascade mask rechecks the whole second controller under the new
\* masks m; otherwise its bits stay as they are in chk.
RecheckSecond(m, chk) ==
  IF 2 \in m <=> 2 \in masked THEN chk
  ELSE {i \in chk : i < 8} \cup {i \in active : i > 7 /\ Unblocked(i, m)}

PIC_SetIRQMask(i, m) ==
  LET newMasked == IF m THEN masked \cup {i} ELSE masked \ {i}
      chk == IF i \in active /\ Unblocked(i, newMasked) THEN IRQCheck \cup {i}
                                                         ELSE IRQCheck \ {i}
  IN /\ masked # newMasked
     /\ masked' = newMasked
     /\ IRQCheck' = RecheckSecond(newMasked, chk)
     /\ UNCHANGED <<active, inservice, IRQActive, icwVars, modeVars, IF_flag, exited>>

\* write_data with icw_index 0: the mask register (OCW1) closes the set M of
\* the controller's lines and opens its others.
\* On a PCjr line 6 is opened again, after IRQCheck was computed.
WriteMask(p, M) ==
  LET written == {i \in masked : PicOf(i) # p} \cup M
      chk == {i \in IRQCheck : PicOf(i) # p}
               \cup {i \in active : PicOf(i) = p /\ Unblocked(i, written)}
  IN /\ icwIndex[p] = 0
     /\ masked' = IF Pcjr THEN written \ {6} ELSE written
     /\ IRQCheck' = RecheckSecond(written, chk)
     /\ UNCHANGED <<active, inservice, IRQActive, icwVars, modeVars, IF_flag, exited>>

-----------------------------------------------------------------------------
(* Initialisation words *)

\* write_command with bit 4: ICW1; the next data write is ICW2.
WriteICW1(p, isSingle, needICW4) ==
  /\ single' = [single EXCEPT ![p] = isSingle]
  /\ icwIndex' = [icwIndex EXCEPT ![p] = 1]
  /\ icwWords' = [icwWords EXCEPT ![p] = IF needICW4 THEN 3 ELSE 2]
  /\ UNCHANGED <<irqVars, autoEoi, modeVars, IF_flag, exited>>

\* Mutant: the end of the sequence is not noticed.
AfterICWEndless(p) == IF icwIndex[p] = 1 /\ single[p] THEN 3 ELSE icwIndex[p] + 1

\* icw_index++ >= icw_words ends the sequence; a single controller skips ICW3
\* after ICW2.
AfterICW(p) ==
  IF icwIndex[p] >= icwWords[p] THEN 0
  ELSE IF icwIndex[p] = 1 /\ single[p] THEN 3
  ELSE icwIndex[p] + 1

\* write_data with icw_index 1 or 2: the vector base and the cascade wiring,
\* neither of which this model keeps.
WriteICW2or3(p) ==
  /\ icwIndex[p] \in {1, 2}
  /\ icwIndex' = [icwIndex EXCEPT ![p] = AfterICW(p)]
  /\ UNCHANGED <<irqVars, autoEoi, single, icwWords, modeVars, IF_flag, exited>>

\* write_data with icw_index 3: automatic EOI is bit 1; without bit 0 (8086
\* mode) the emulator exits.
WriteICW4(p, auto, mode8086) ==
  /\ icwIndex[p] = 3
  /\ autoEoi' = [autoEoi EXCEPT ![p] = auto]
  /\ icwIndex' = IF mode8086 THEN [icwIndex EXCEPT ![p] = AfterICW(p)] ELSE icwIndex
  /\ exited' = ~mode8086
  /\ UNCHANGED <<irqVars, single, icwWords, modeVars, IF_flag>>

-----------------------------------------------------------------------------
(* Operation command words *)

\* Mutant: the priority table is forgotten and the lowest number wins.
HighestByNumber(S) == IF S = {} THEN NoIRQ
                      ELSE CHOOSE i \in S : \A j \in S : i <= j

\* The line of highest priority in S, or NoIRQ.
Highest(S) == IF S = {} THEN NoIRQ
              ELSE CHOOSE i \in S : \A j \in S : Rank(i) <= Rank(j)

\* Mutant: the search for the next line in service is left out.
RetireActiveNoSearch ==
  /\ inservice' = inservice \ {IRQActive}
  /\ IRQActive' = NoIRQ
  /\ UNCHANGED <<masked, active, IRQCheck, icwVars, modeVars, IF_flag, exited>>

\* Both EOI commands retire PIC_IRQActive and make the next line in service
\* the active one.
RetireActive ==
  /\ inservice' = inservice \ {IRQActive}
  /\ IRQActive' = Highest(inservice')
  /\ UNCHANGED <<masked, active, IRQCheck, icwVars, modeVars, IF_flag, exited>>

NonspecificEOI(p) ==
  /\ IRQActive < BaseOf(p) + 8
  /\ RetireActive

SpecificEOI(p, level) ==
  /\ IRQActive = BaseOf(p) + level
  /\ RetireActive

\* OCW2 without the EOI bit: rotation in automatic EOI mode on or off.
SetRotate(p, b) ==
  /\ rotate' = [rotate EXCEPT ![p] = b]
  /\ UNCHANGED <<irqVars, icwVars, special, specialMode, IF_flag, exited>>

\* OCW3 with bit 6. The summary flag is computed from pic[0] and pics[1], and
\* pic points at the controller written to.
SetSpecialMask(p, b) ==
  /\ SpecialMaskUsed \/ ~b
  /\ special' = [special EXCEPT ![p] = b]
  /\ specialMode' = (special'[p] \/ special'[1])
  /\ UNCHANGED <<irqVars, icwVars, rotate, IF_flag, exited>>

-----------------------------------------------------------------------------
(* The CPU *)

\* Mutant: the comparison with the active line is left out.
MayStartAnyRank(i) ==
  /\ i \in active /\ i \notin masked
  /\ i > 7 => 2 \notin masked

\* PIC_runIRQs' test of one line of rank Rank(i).
MayStart(i) ==
  /\ i \in active /\ i \notin masked
  /\ \/ Rank(i) < Rank(IRQActive)
     \/ specialMode /\ special[PicOf(i)]
  /\ i > 7 => 2 \notin masked             \* PIC_startIRQ refuses, the walk goes on

\* PIC_startIRQ, with CPU_HW_Interrupt's effect on the interrupt flag.
PIC_startIRQ(i) ==
  /\ active' = active \ {i}
  /\ IRQCheck' = IRQCheck \ {i}
  /\ IF_flag' = FALSE
  /\ IF autoEoi[PicOf(i)]
       THEN /\ exited' = rotate[PicOf(i)]
            /\ UNCHANGED <<IRQActive, inservice>>
       ELSE /\ IRQActive' = i
            /\ inservice' = inservice \cup {i}
            /\ UNCHANGED exited
  /\ UNCHANGED <<masked, icwVars, modeVars>>

\* PIC_runIRQs starts at most one line, the first of the walk that may start.
PIC_runIRQs ==
  /\ IF_flag /\ IRQCheck # {}
  /\ \E i \in Lines :
       /\ MayStart(i)
       /\ \A j \in Lines : MayStart(j) => Rank(i) <= Rank(j)
       /\ PIC_startIRQ(i)

\* STI, CLI, POPF, IRET: code outside the controller.
CPU_SetIF(b) ==
  /\ IF_flag # b
  /\ IF_flag' = b
  /\ UNCHANGED <<irqVars, icwVars, modeVars, exited>>

-----------------------------------------------------------------------------
Device == \E i \in Lines \ {2} : PIC_ActivateIRQ(i) \/ PIC_DeActivateIRQ(i)

Masking ==
  \/ \E i \in Lines, m \in BOOLEAN : PIC_SetIRQMask(i, m)
  \/ \E p \in Pics : \E M \in SUBSET {i \in Lines : PicOf(i) = p} :
       WriteMask(p, M)

Programming ==
  \/ \E p \in Reinit, b, c \in BOOLEAN :
       \/ WriteICW1(p, b, c)
       \/ WriteICW2or3(p)
       \/ WriteICW4(p, b, c)
       \/ SetRotate(p, b)
  \/ \E p \in Pics, b \in BOOLEAN : SetSpecialMask(p, b)

Retiring ==
  \E p \in Pics :
     \/ NonspecificEOI(p)
     \/ \E level \in 0..7 : SpecificEOI(p, level)

Next ==
  /\ ~exited
  /\ \/ Device \/ Masking \/ Programming \/ Retiring
     \/ PIC_runIRQs
     \/ \E b \in BOOLEAN : CPU_SetIF(b)

Spec == Init /\ [][Next]_vars

-----------------------------------------------------------------------------
(* Properties *)

\* PIC_IRQCheck is a cached answer to "is any line deliverable": the CPU cores
\* test it instead of the lines. Whatever the order of raising, lowering,
\* masking and cascade changes, it holds exactly the lines that are active and
\* unblocked. (On a PCjr a mask write opens line 6 after computing the set.)
CheckTracksLines ==
  ~Pcjr => \A i \in Lines : i \in IRQCheck <=> i \in active /\ Unblocked(i, masked)

\* PIC_IRQActive caches a line in service, and none is cached only when none is
\* in service: otherwise an EOI would retire nothing and the controller wedge.
ActiveInService ==
  /\ IRQActive # NoIRQ => IRQActive \in inservice
  /\ IRQActive = NoIRQ => inservice = {}

\* Without special mask mode PIC_IRQActive is the most urgent line in service,
\* so comparing with it alone compares with every handler still running.
ActiveIsHighest ==
  ~SpecialMaskUsed => \A i \in inservice : Rank(IRQActive) <= Rank(i)

\* Without special mask mode no step puts a line in service unless it is more
\* urgent than every line then in service: handlers nest by priority.
NestsByPriority ==
  [][~SpecialMaskUsed =>
       \A i \in inservice' \ inservice, j \in inservice : Rank(i) < Rank(j)]_vars

\* "If one of the pics is in special mode use a check that cares for that"
\* (the walk of PIC_runIRQs): the summary flag must be set whenever either
\* controller is in special mask mode.
SpecialModeTracksBoth == specialMode = (special[0] \/ special[1])

=============================================================================
