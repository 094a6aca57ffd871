--------------------------- MODULE BiosIrqProofs ----------------------------
(***************************************************************************)
(* Proofs about the BIOS's interrupt handlers over the controllers, for    *)
(* any depth of nesting and any of their lines: every EOI retires the line *)
(* of the handler that sends it, and handlers nest by priority, so that    *)
(* none is entered again before it has returned.                           *)
(***************************************************************************)
EXTENDS BiosIrq, PicIrqProofs

Steps == {"hook", "sti", "cli", "eoi0", "eoi1", "eoi9", "iret"}
Frame == [irq : Lines \ {2}, todo : Seq(Steps)]

\* Where a handler may be interrupted: before it has sent its first EOI.
Interruptible(f) ==
  \/ f.irq \in {0, 1} /\ f.todo = <<"cli", "eoi0", "iret">>
  \/ f.irq = 12 /\ f.todo = <<"hook", "cli", "eoi1", "eoi0", "iret">>
  \/ f.irq = 12 /\ f.todo = <<"cli", "eoi1", "eoi0", "iret">>

\* The other places before the EOI that retires its line.
Begun(f) ==
  \/ f.irq \in {0, 1} /\ f.todo = <<"hook", "cli", "eoi0", "iret">>
  \/ f.irq \in {0, 1} /\ f.todo = <<"eoi0", "iret">>
  \/ f.irq = 8 /\ f.todo = <<"eoi1", "eoi0", "iret">>
  \/ f.irq = 9 /\ f.todo = <<"eoi9", "eoi0", "cli", "iret">>
  \/ f.irq = 12 /\ f.todo = <<"sti", "hook", "cli", "eoi1", "eoi0", "iret">>
  \/ f.irq = 12 /\ f.todo = <<"eoi1", "eoi0", "iret">>

\* The places after it.
Retired(f) ==
  \/ f.irq \in {0, 1} /\ f.todo = <<"iret">>
  \/ f.irq \in {8, 12} /\ f.todo = <<"eoi0", "iret">>
  \/ f.irq \in {8, 12} /\ f.todo = <<"iret">>
  \/ f.irq = 9 /\ f.todo = <<"eoi0", "cli", "iret">>
  \/ f.irq = 9 /\ f.todo = <<"cli", "iret">>
  \/ f.irq = 9 /\ f.todo = <<"iret">>

\* The stack: the innermost handler is anywhere, with interrupts on only where it
\* may be interrupted; the others wait where they were.
Stack ==
  /\ frames \in Seq(Frame)
  /\ frames # <<>> =>
       \/ Interruptible(frames[1])
       \/ ~IF_flag /\ (Begun(frames[1]) \/ Retired(frames[1]))
  /\ \A k \in 2..Len(frames) : Interruptible(frames[k])

\* The controllers, which nobody programs here.
Control ==
  /\ active \subseteq Lines \ {2}
  /\ inservice \subseteq Lines
  /\ IRQActive \in inservice \cup {NoIRQ}
  /\ IRQActive = NoIRQ => inservice = {}
  /\ \A i \in inservice : Rank(IRQActive) <= Rank(i)
  /\ specialMode = FALSE /\ autoEoi = [p \in Pics |-> FALSE]
  /\ IF_flag \in BOOLEAN

\* The lines in service, without the innermost handler's and with it.
Under == {frames[k].irq : k \in 2..Len(frames)}
InService ==
  inservice = Under \cup (IF frames # <<>> /\ ~Retired(frames[1]) THEN {frames[1].irq} ELSE {})

\* The inductive invariant.
NestInv == Stack /\ Control /\ InService /\ HandlersNest

-----------------------------------------------------------------------------
(* Stages of a handler *)

LEMMA Stages ==
  ASSUME NEW f \in [irq : Lines, todo : Seq(Steps)]
  PROVE  /\ Interruptible(f) \/ Begun(f) => Unretired(f) /\ ~Retired(f)
         /\ Retired(f) => ~Unretired(f)
<1>1. ASSUME Interruptible(f) PROVE Unretired(f) /\ ~Retired(f)
  <2>1. \E k \in 1..3 : k <= Len(f.todo) /\ f.todo[k] = Retires(f.irq)
    BY <1>1 DEF Interruptible, Retires
  <2>2. \E k \in 1..Len(f.todo) : f.todo[k] = Retires(f.irq)
    BY <2>1
  <2> QED
    BY <1>1, <2>2 DEF Interruptible, Unretired, Retired
<1>2. ASSUME Begun(f) PROVE Unretired(f) /\ ~Retired(f)
  <2>1. \E k \in 1..4 : k <= Len(f.todo) /\ f.todo[k] = Retires(f.irq)
    <3>1. CASE f.irq \in {0, 1} /\ f.todo = <<"hook", "cli", "eoi0", "iret">>
      <4>1. f.todo[3] = "eoi0" /\ Len(f.todo) = 4 /\ Retires(f.irq) = "eoi0"
        BY <3>1 DEF Retires
      <4> QED
        BY <4>1
    <3>6. CASE f.irq \in {0, 1} /\ f.todo = <<"eoi0", "iret">>
      <4>1. f.todo[1] = "eoi0" /\ Len(f.todo) = 2 /\ Retires(f.irq) = "eoi0"
        BY <3>6 DEF Retires
      <4> QED
        BY <4>1
    <3>2. CASE f.irq = 8
      BY <1>2, <3>2 DEF Begun, Retires
    <3>5. CASE f.irq = 9 /\ f.todo = <<"eoi9", "eoi0", "cli", "iret">>
      <4>1. f.todo[1] = "eoi9" /\ Len(f.todo) = 4 /\ Retires(f.irq) = "eoi9"
        BY <3>5 DEF Retires
      <4> QED
        BY <4>1
    <3>3. CASE f.todo = <<"sti", "hook", "cli", "eoi1", "eoi0", "iret">> /\ f.irq = 12
      <4>1. f.todo[4] = "eoi1" /\ Len(f.todo) = 6 /\ Retires(f.irq) = "eoi1"
        BY <3>3 DEF Retires
      <4> QED
        BY <4>1
    <3>4. CASE f.todo = <<"eoi1", "eoi0", "iret">> /\ f.irq = 12
      BY <3>4 DEF Retires
    <3> QED
      BY <1>2, <3>1, <3>2, <3>3, <3>4, <3>5, <3>6 DEF Begun
  <2>2. \E k \in 1..Len(f.todo) : f.todo[k] = Retires(f.irq)
    BY <2>1
  <2> QED
    BY <1>2, <2>2 DEF Begun, Unretired, Retired
<1>3. ASSUME Retired(f) PROVE ~Unretired(f)
  BY <1>3 DEF Retired, Unretired, Retires
<1> QED
  BY <1>1, <1>2, <1>3

\* The steps that remain after the first of each sequence that occurs.
LEMMA Remaining ==
  ASSUME NEW t
  PROVE  /\ t = <<"sti", "hook", "cli", "eoi1", "eoi0", "iret">> => t # <<>> /\ Head(t) = "sti" /\ Tail(t) = <<"hook", "cli", "eoi1", "eoi0", "iret">>
         /\ t = <<"hook", "cli", "eoi1", "eoi0", "iret">> => t # <<>> /\ Head(t) = "hook" /\ Tail(t) = <<"cli", "eoi1", "eoi0", "iret">>
         /\ t = <<"cli", "eoi1", "eoi0", "iret">> => t # <<>> /\ Head(t) = "cli" /\ Tail(t) = <<"eoi1", "eoi0", "iret">>
         /\ t = <<"eoi1", "eoi0", "iret">> => t # <<>> /\ Head(t) = "eoi1" /\ Tail(t) = <<"eoi0", "iret">>
         /\ t = <<"eoi0", "iret">> => t # <<>> /\ Head(t) = "eoi0" /\ Tail(t) = <<"iret">>
         /\ t = <<"eoi9", "eoi0", "cli", "iret">> => t # <<>> /\ Head(t) = "eoi9" /\ Tail(t) = <<"eoi0", "cli", "iret">>
         /\ t = <<"eoi0", "cli", "iret">> => t # <<>> /\ Head(t) = "eoi0" /\ Tail(t) = <<"cli", "iret">>
         /\ t = <<"cli", "iret">> => t # <<>> /\ Head(t) = "cli" /\ Tail(t) = <<"iret">>
         /\ t = <<"hook", "cli", "eoi0", "iret">> => t # <<>> /\ Head(t) = "hook" /\ Tail(t) = <<"cli", "eoi0", "iret">>
         /\ t = <<"cli", "eoi0", "iret">> => t # <<>> /\ Head(t) = "cli" /\ Tail(t) = <<"eoi0", "iret">>
         /\ t = <<"iret">> => t # <<>> /\ Head(t) = "iret"
<1>1. t = <<"sti", "hook", "cli", "eoi1", "eoi0", "iret">> => t # <<>> /\ Head(t) = "sti" /\ Tail(t) = <<"hook", "cli", "eoi1", "eoi0", "iret">>
  OBVIOUS
<1>2. t = <<"hook", "cli", "eoi1", "eoi0", "iret">> => t # <<>> /\ Head(t) = "hook" /\ Tail(t) = <<"cli", "eoi1", "eoi0", "iret">>
  OBVIOUS
<1>3. t = <<"cli", "eoi1", "eoi0", "iret">> => t # <<>> /\ Head(t) = "cli" /\ Tail(t) = <<"eoi1", "eoi0", "iret">>
  OBVIOUS
<1>4. t = <<"eoi1", "eoi0", "iret">> => t # <<>> /\ Head(t) = "eoi1" /\ Tail(t) = <<"eoi0", "iret">>
  OBVIOUS
<1>5. t = <<"eoi0", "iret">> => t # <<>> /\ Head(t) = "eoi0" /\ Tail(t) = <<"iret">>
  OBVIOUS
<1>6. t = <<"eoi9", "eoi0", "cli", "iret">> => t # <<>> /\ Head(t) = "eoi9" /\ Tail(t) = <<"eoi0", "cli", "iret">>
  OBVIOUS
<1>7. t = <<"eoi0", "cli", "iret">> => t # <<>> /\ Head(t) = "eoi0" /\ Tail(t) = <<"cli", "iret">>
  OBVIOUS
<1>8. t = <<"cli", "iret">> => t # <<>> /\ Head(t) = "cli" /\ Tail(t) = <<"iret">>
  OBVIOUS
<1>9. t = <<"hook", "cli", "eoi0", "iret">> => t # <<>> /\ Head(t) = "hook" /\ Tail(t) = <<"cli", "eoi0", "iret">>
  OBVIOUS
<1>10. t = <<"cli", "eoi0", "iret">> => t # <<>> /\ Head(t) = "cli" /\ Tail(t) = <<"eoi0", "iret">>
  OBVIOUS
<1>11. t = <<"iret">> => t # <<>> /\ Head(t) = "iret"
  OBVIOUS
<1> QED
  BY <1>1, <1>2, <1>3, <1>4, <1>5, <1>6, <1>7, <1>8, <1>9, <1>10, <1>11

\* What each place leads to.
LEMMA NextStage ==
  ASSUME NEW f, NEW g, g.irq = f.irq, g.todo = Tail(f.todo)
  PROVE  /\ Interruptible(f) =>
              \/ Head(f.todo) = "hook" /\ Interruptible(g)
              \/ Head(f.todo) = "cli" /\ Begun(g)
         /\ Begun(f) =>
              \/ Head(f.todo) \in {"hook", "sti"} /\ Interruptible(g)
              \/ Head(f.todo) = Retires(f.irq) /\ Retired(g)
         /\ Retired(f) =>
              \/ Head(f.todo) = "iret"
              \/ Head(f.todo) \in {"eoi0", "cli"} /\ Retired(g)
         /\ Interruptible(f) \/ Begun(f) \/ Retired(f) => f.todo # <<>>
<1>1. Interruptible(f) =>
        \/ Head(f.todo) = "hook" /\ Interruptible(g)
        \/ Head(f.todo) = "cli" /\ Begun(g)
  BY Remaining, Zenon DEF Interruptible, Begun
<1>2. ASSUME Begun(f)
      PROVE  \/ Head(f.todo) \in {"hook", "sti"} /\ Interruptible(g)
             \/ Head(f.todo) = Retires(f.irq) /\ Retired(g)
  <2>1. Retires(0) = "eoi0" /\ Retires(1) = "eoi0" /\ Retires(8) = "eoi1"
        /\ Retires(12) = "eoi1" /\ Retires(9) = "eoi9"
    BY DEF Retires
  <2> QED
    BY <1>2, <2>1, Remaining, Zenon DEF Begun, Interruptible, Retired
<1>3. Retired(f) =>
        \/ Head(f.todo) = "iret"
        \/ Head(f.todo) \in {"eoi0", "cli"} /\ Retired(g)
  BY Remaining, Zenon DEF Retired
<1>4. Interruptible(f) \/ Begun(f) \/ Retired(f) => f.todo # <<>>
  BY Remaining, Zenon DEF Interruptible, Begun, Retired
<1> QED
  BY <1>1, <1>2, <1>3, <1>4

\* A handler is entered at its first step.
LEMMA Entered ==
  ASSUME NEW i \in Lines \ {2}, NEW t, t = Handler(i)
  PROVE  LET g == [irq |-> i, todo |-> t] IN g \in Frame /\ Begun(g)
<1>1. t \in Seq(Steps)
  <2>1. \/ t = <<"hook", "cli", "eoi0", "iret">> \/ t = <<"eoi1", "eoi0", "iret">>
        \/ t = <<"eoi9", "eoi0", "cli", "iret">>
        \/ t = <<"sti", "hook", "cli", "eoi1", "eoi0", "iret">>
    BY BiosLines DEF Handler, INT70_Handler
  <2>2. <<"hook", "cli", "eoi0", "iret">> \in Seq(Steps)
    BY DEF Steps
  <2>3. <<"eoi1", "eoi0", "iret">> \in Seq(Steps)
    BY DEF Steps
  <2>4. <<"eoi9", "eoi0", "cli", "iret">> \in Seq(Steps)
    BY DEF Steps
  <2>5. <<"sti", "hook", "cli", "eoi1", "eoi0", "iret">> \in Seq(Steps)
    BY DEF Steps
  <2> QED
    BY <2>1, <2>2, <2>3, <2>4, <2>5
<1>2. \/ i \in {0, 1} /\ t = <<"hook", "cli", "eoi0", "iret">>
      \/ i = 8 /\ t = <<"eoi1", "eoi0", "iret">>
      \/ i = 9 /\ t = <<"eoi9", "eoi0", "cli", "iret">>
      \/ i = 12 /\ t = <<"sti", "hook", "cli", "eoi1", "eoi0", "iret">>
  BY BiosLines DEF Handler, INT70_Handler
<1> QED
  BY <1>1, <1>2 DEF Frame, Begun

\* The invariant says what the properties say.
LEMMA InvImplies ==
  ASSUME NestInv
  PROVE  ServiceMatchesFrames
<1>1. /\ \A k \in 1..Len(frames) : frames[k] \in [irq : Lines, todo : Seq(Steps)]
      /\ Len(frames) \in Nat /\ (frames # <<>> <=> 1 \in 1..Len(frames))
  <2>1. frames \in Seq(Frame)
    BY DEF NestInv, Stack
  <2>2. Frame \subseteq [irq : Lines, todo : Seq(Steps)]
    BY DEF Frame
  <2>3. \A k \in 1..Len(frames) : frames[k] \in Frame
    BY <2>1
  <2> QED
    BY <2>1, <2>2, <2>3
<1>2. \A k \in 2..Len(frames) : Unretired(frames[k])
  <2>1. \A k \in 2..Len(frames) : k \in 1..Len(frames)
    BY <1>1
  <2> QED
    BY <2>1, <1>1, Stages DEF NestInv, Stack
<1>3. frames # <<>> => (Unretired(frames[1]) <=> ~Retired(frames[1]))
  BY <1>1, Stages DEF NestInv, Stack
<1> DEFINE U == {j \in 1..Len(frames) : Unretired(frames[j])}
<1>4. CASE frames # <<>> /\ ~Retired(frames[1])
  <2>1. U = {1} \cup 2..Len(frames)
    BY <1>4, <1>1, <1>2, <1>3
  <2> QED
    BY <1>4, <2>1 DEF NestInv, InService, Under, ServiceMatchesFrames
<1>5. CASE ~(frames # <<>> /\ ~Retired(frames[1]))
  <2>1. U = 2..Len(frames)
    BY <1>5, <1>1, <1>2, <1>3
  <2> QED
    BY <1>5, <2>1 DEF NestInv, InService, Under, ServiceMatchesFrames
<1> QED
  BY <1>4, <1>5

-----------------------------------------------------------------------------
(* The stack as a sequence *)

LEMMA Enter ==
  ASSUME frames \in Seq(Frame), NEW g \in Frame, frames' = <<g>> \o frames
  PROVE  /\ frames' \in Seq(Frame) /\ frames' # <<>> /\ Len(frames') = Len(frames) + 1
         /\ frames'[1] = g
         /\ \A k \in 2..Len(frames') : frames'[k] = frames[k - 1]
OBVIOUS

LEMMA Advance ==
  ASSUME frames \in Seq(Frame), frames # <<>>, NEW g \in Frame, frames' = <<g>> \o Tail(frames)
  PROVE  /\ frames' \in Seq(Frame) /\ frames' # <<>> /\ Len(frames') = Len(frames)
         /\ frames'[1] = g
         /\ \A k \in 2..Len(frames') : frames'[k] = frames[k]
OBVIOUS

LEMMA Return ==
  ASSUME frames \in Seq(Frame), frames # <<>>, frames' = Tail(frames)
  PROVE  /\ frames' \in Seq(Frame) /\ Len(frames') = Len(frames) - 1
         /\ (frames' # <<>> <=> 1 \in 1..Len(frames'))
         /\ \A k \in 1..Len(frames') : frames'[k] = frames[k + 1]
OBVIOUS

-----------------------------------------------------------------------------
(* The controllers while nobody programs them *)

\* What a step of the handlers, the program or the devices leaves alone.
LEMMA ControlKept ==
  ASSUME Control, UNCHANGED <<inservice, IRQActive, modeVars, icwVars>>,
         active' \subseteq Lines \ {2}, IF_flag' \in BOOLEAN
  PROVE  Control'
BY DEF Control, modeVars, icwVars

\* An EOI takes the most urgent line out of service and leaves the next.
LEMMA Retire ==
  ASSUME Control, RetireActive
  PROVE  /\ Control' /\ inservice' = inservice \ {IRQActive} /\ IF_flag' = IF_flag
<1>1. inservice' = inservice \ {IRQActive} /\ inservice' \subseteq Lines
  BY DEF RetireActive, Control
<1>2. IRQActive' = Highest(inservice')
  BY DEF RetireActive
<1>3. /\ inservice' = {} => IRQActive' = NoIRQ
      /\ inservice' # {} => IRQActive' \in inservice' /\ \A j \in inservice' : Rank(IRQActive') <= Rank(j)
  BY <1>1, <1>2, HighestProperties
<1>4. NoIRQ \notin Lines
  BY RankProperties
<1> QED
  BY <1>1, <1>3, <1>4 DEF RetireActive, Control, modeVars, icwVars

\* An interrupt is taken only when interrupts are on, and then for a line more
\* urgent than all in service.
LEMMA Taken ==
  ASSUME Control, PIC_runIRQs
  PROVE  \E i \in Lines \ {2} :
            /\ IF_flag /\ IF_flag' = FALSE
            /\ i \notin inservice /\ \A j \in inservice : Rank(i) < Rank(j)
            /\ inservice' = inservice \cup {i}
            /\ Control'
<1>1. PICK i \in Lines : MayStart(i) /\ PIC_startIRQ(i)
  BY DEF PIC_runIRQs
<1>2. i \in active /\ Rank(i) < Rank(IRQActive)
  BY <1>1 DEF MayStart, Control
<1>3. i \in Lines \ {2} /\ i \in 0..15
  BY <1>2, LinesAssumption DEF Control
<1>4. ~autoEoi[PicOf(i)]
  BY DEF Control, PicOf, Pics
<1>5. /\ active' = active \ {i} /\ IF_flag' = FALSE /\ IRQActive' = i
      /\ inservice' = inservice \cup {i} /\ UNCHANGED <<icwVars, modeVars>>
  BY <1>1, <1>4 DEF PIC_startIRQ
<1>6. \A j \in inservice : Rank(i) < Rank(j)
  <2>1. \A j \in inservice : Rank(j) \in Int /\ Rank(i) \in Int /\ Rank(IRQActive) \in Int /\ Rank(IRQActive) <= Rank(j)
    BY <1>3, RankProperties DEF Control
  <2> QED
    BY <1>2, <2>1
<1>7. i \notin inservice /\ Rank(i) <= Rank(i)
  BY <1>3, <1>6, RankProperties
<1>8. \A j \in inservice' : Rank(IRQActive') <= Rank(j)
  <2>1. \A j \in inservice : Rank(j) \in Int /\ Rank(i) \in Int
    BY <1>3, RankProperties DEF Control
  <2> QED
    BY <1>5, <1>6, <1>7, <2>1
<1>9. i # NoIRQ
  BY <1>3 DEF NoIRQ
<1>10. Control'
  BY <1>3, <1>5, <1>8, <1>9 DEF Control, icwVars, modeVars
<1> QED
  BY <1>3, <1>5, <1>6, <1>7, <1>10 DEF PIC_runIRQs

LEMMA FlagSet ==
  ASSUME Control, NEW b \in BOOLEAN, SetIF(b)
  PROVE  Control' /\ UNCHANGED inservice /\ IF_flag' = b
<1>1. CASE IF_flag = b
  <2>1. UNCHANGED vars
    BY <1>1 DEF SetIF
  <2> QED
    BY <1>1, <2>1 DEF Control, vars, irqVars, icwVars, modeVars
<1>2. CASE IF_flag # b
  BY <1>2 DEF SetIF, CPU_SetIF, Control, irqVars, icwVars, modeVars
<1> QED
  BY <1>1, <1>2

-----------------------------------------------------------------------------
(* The innermost handler *)

\* Until it is retired, the innermost handler's line is the active one, and it is
\* not among the lines of the handlers under it.
LEMMA TopIsActive ==
  ASSUME NestInv, frames # <<>>, ~Retired(frames[1])
  PROVE  IRQActive = frames[1].irq /\ frames[1].irq \notin Under
<1> DEFINE i == frames[1].irq
<1>1. i \in Lines /\ i \in inservice
  <2>1. frames[1] \in Frame
    BY DEF NestInv, Stack
  <2>2. i \in Lines
    BY <2>1 DEF Frame
  <2> QED
    BY <2>2 DEF NestInv, InService
<1>2. IRQActive \in inservice /\ Rank(IRQActive) <= Rank(i)
  BY <1>1 DEF NestInv, Control
<1>3. \A j \in Under : Rank(i) < Rank(j)
  BY DEF Under, NestInv, HandlersNest, Stack
<1>4. Rank(i) \in Int /\ Rank(IRQActive) \in Int
  BY <1>1, <1>2, RankProperties DEF NestInv, Control
<1>5. i \notin Under /\ IRQActive \notin Under
  BY <1>2, <1>3, <1>4
<1> QED
  BY <1>2, <1>5 DEF NestInv, InService

\* Once a handler of the second controller has retired its line, no line of the
\* first is in service: it has interrupted only lines that are less urgent.
LEMMA FirstIdle ==
  ASSUME NestInv, frames # <<>>, Retired(frames[1]), frames[1].irq \in {8, 9, 12}
  PROVE  ~(IRQActive < 8)
<1>1. CASE IRQActive = NoIRQ
  BY <1>1 DEF NoIRQ
<1>2. CASE IRQActive # NoIRQ
  <2>1. IRQActive \in Under
    BY <1>2 DEF NestInv, Control, InService
  <2>2. PICK k \in 2..Len(frames) : IRQActive = frames[k].irq
    BY <2>1 DEF Under
  <2>3. Rank(frames[1].irq) < Rank(IRQActive)
    BY <2>2 DEF NestInv, HandlersNest, Stack
  <2>4. IRQActive \in {0, 1, 12}
    BY <2>2 DEF NestInv, Stack, Interruptible
  <2> QED
    BY <2>3, <2>4 DEF Rank, NoIRQ
<1> QED
  BY <1>1, <1>2

\* What remains to be shown of a step that does not return.
LEMMA StepOn ==
  ASSUME NestInv, frames # <<>>, NEW g \in Frame, g.irq = frames[1].irq,
         frames' = <<g>> \o Tail(frames), Control',
         Interruptible(g) \/ (~IF_flag' /\ (Begun(g) \/ Retired(g))),
         inservice' = Under \cup (IF Retired(g) THEN {} ELSE {g.irq})
  PROVE  NestInv'
<1>1. /\ frames' \in Seq(Frame) /\ frames' # <<>> /\ Len(frames') = Len(frames)
      /\ frames'[1] = g
      /\ \A k \in 2..Len(frames') : frames'[k] = frames[k]
  BY Advance DEF NestInv, Stack
<1>2. \A k \in 1..Len(frames') : frames'[k].irq = frames[k].irq
  BY <1>1
<1>3. Stack'
  BY <1>1 DEF NestInv, Stack, Interruptible, Begun, Retired
<1>4. HandlersNest'
  BY <1>1, <1>2 DEF NestInv, HandlersNest
<1>5. Under' = Under
  BY <1>1 DEF Under
<1>6. InService'
  BY <1>1, <1>5 DEF InService, Retired
<1> QED
  BY <1>3, <1>4, <1>6 DEF NestInv

LEMMA StepCases ==
  ASSUME HandlerStep
  PROVE  LET f == frames[1]
             step == Head(f.todo)
         IN /\ frames # <<>>
            /\ step = "iret" => frames' = Tail(frames) /\ SetIF(TRUE)
            /\ step # "iret" => frames' = <<[f EXCEPT !.todo = Tail(@)]>> \o Tail(frames)
            /\ step = "hook" => \E b \in BOOLEAN : SetIF(b)
            /\ step = "sti" => SetIF(TRUE)
            /\ step = "cli" => SetIF(FALSE)
            /\ step = "eoi0" => NonspecificCommand(0)
            /\ step = "eoi1" => NonspecificCommand(1)
            /\ step = "eoi9" => SpecificCommand(1, 1)
<1>1. frames # <<>> /\ Head(frames) = frames[1]
  BY DEF HandlerStep
<1> QED
  BY <1>1 DEF HandlerStep

\* Before its EOI a handler only changes the interrupt flag.
LEMMA FlagStep ==
  ASSUME NestInv, HandlerStep, ~Retired(frames[1]),
         Head(frames[1].todo) \in {"hook", "sti", "cli"}
  PROVE  /\ Control' /\ UNCHANGED inservice
         /\ Head(frames[1].todo) = "cli" => ~IF_flag'
BY StepCases, FlagSet DEF NestInv

\* The EOI that a handler sends for its own line.
LEMMA OwnEOI ==
  ASSUME NestInv, HandlerStep, Begun(frames[1]),
         Head(frames[1].todo) = Retires(frames[1].irq)
  PROVE  Control' /\ inservice' = Under /\ ~IF_flag'
<1> DEFINE f == frames[1]
<1>1. frames # <<>> /\ f \in Frame
  BY StepCases DEF NestInv, Stack
<1>2. ~Retired(f) /\ ~Interruptible(f)
  BY DEF Begun, Retired, Interruptible
<1>3. IRQActive = f.irq /\ f.irq \notin Under
  BY <1>1, <1>2, TopIsActive
<1>4. RetireActive
  <2>1. CASE f.irq \in {0, 1}
    <3>1. NonspecificCommand(0)
      BY <2>1, StepCases DEF Retires
    <3> QED
      BY <2>1, <3>1, <1>3 DEF NonspecificCommand, NonspecificEOI, BaseOf
  <2>2. CASE f.irq \in {8, 12}
    <3>1. NonspecificCommand(1)
      BY <2>2, StepCases DEF Retires
    <3> QED
      BY <2>2, <3>1, <1>3 DEF NonspecificCommand, NonspecificEOI, BaseOf
  <2>3. CASE f.irq = 9
    <3>1. SpecificCommand(1, 1)
      BY <2>3, StepCases DEF Retires
    <3> QED
      BY <2>3, <3>1, <1>3 DEF SpecificCommand, SpecificEOI, BaseOf
  <2> QED
    BY <2>1, <2>2, <2>3 DEF Begun
<1>5. inservice = Under \cup {f.irq}
  BY <1>1, <1>2 DEF NestInv, InService
<1>6. ~IF_flag
  BY <1>1, <1>2 DEF NestInv, Stack
<1> QED
  BY <1>3, <1>4, <1>5, <1>6, Retire DEF NestInv

\* The commands of a handler whose line is retired change nothing but the flag.
LEMMA AfterEOI ==
  ASSUME NestInv, HandlerStep, Retired(frames[1]), Head(frames[1].todo) # "iret"
  PROVE  Control' /\ inservice' = Under /\ ~IF_flag'
<1> DEFINE f == frames[1]
<1>1. frames # <<>> /\ f \in Frame
  BY StepCases DEF NestInv, Stack
<1>2. f.irq \in {8, 9, 12} /\ Head(f.todo) \in {"eoi0", "cli"} /\ ~Interruptible(f)
  BY DEF Retired, Interruptible
<1>3. ~IF_flag /\ inservice = Under
  BY <1>1, <1>2 DEF NestInv, Stack, InService
<1>4. CASE Head(f.todo) = "eoi0"
  <2>1. NonspecificCommand(0)
    BY <1>4, StepCases
  <2>2. ~(IRQActive < BaseOf(0) + 8)
    BY <1>1, <1>2, FirstIdle DEF BaseOf
  <2>3. UNCHANGED vars
    BY <2>1, <2>2 DEF NonspecificCommand
  <2> QED
    BY <1>3, <2>3 DEF NestInv, Control, vars, irqVars, icwVars, modeVars
<1>5. CASE Head(f.todo) = "cli"
  <2>1. SetIF(FALSE)
    BY <1>5, StepCases
  <2> QED
    BY <1>3, <2>1, FlagSet DEF NestInv
<1> QED
  BY <1>2, <1>4, <1>5

\* Every step of the innermost handler preserves the invariant.
LEMMA HandlerStepPreserves ==
  ASSUME NestInv, HandlerStep
  PROVE  NestInv'
<1> DEFINE f == frames[1]
           g == [f EXCEPT !.todo = Tail(@)]
<1>1. frames # <<>> /\ f \in Frame
  BY StepCases DEF NestInv, Stack
<1>2. f.irq \in Lines \ {2} /\ f.todo \in Seq(Steps)
  BY <1>1 DEF Frame
<1>3. CASE Head(f.todo) = "iret"
  <2>1. Retired(f) /\ ~Interruptible(f)
    BY <1>1, <1>3 DEF NestInv, Stack, Interruptible, Begun, Retired
  <2>2. frames' = Tail(frames) /\ SetIF(TRUE)
    BY <1>3, StepCases
  <2>3. Control' /\ UNCHANGED inservice /\ IF_flag' = TRUE
    BY <2>2, FlagSet DEF NestInv
  <2>4. /\ frames' \in Seq(Frame) /\ Len(frames') = Len(frames) - 1
        /\ (frames' # <<>> <=> 1 \in 1..Len(frames'))
        /\ \A k \in 1..Len(frames') : frames'[k] = frames[k + 1]
    BY <1>1, <2>2, Return DEF NestInv, Stack
  <2>5. Len(frames) \in Nat /\ Len(frames') \in Nat
    BY <2>4 DEF NestInv, Stack
  <2>6. \A k \in 1..Len(frames') : Interruptible(frames'[k])
    BY <2>4, <2>5 DEF NestInv, Stack
  <2>7. Stack'
    BY <2>4, <2>5, <2>6 DEF Stack, Interruptible
  <2>8. HandlersNest'
    BY <2>4, <2>5 DEF NestInv, HandlersNest
  <2>9. InService'
    <3>1. Under = {frames'[k].irq : k \in 1..Len(frames')}
      <4>1. \A k \in 2..Len(frames) : k - 1 \in 1..Len(frames') /\ frames[k] = frames'[k - 1]
        BY <2>4, <2>5
      <4>2. \A k \in 1..Len(frames') : k + 1 \in 2..Len(frames) /\ frames'[k] = frames[k + 1]
        BY <2>4, <2>5
      <4>3. Under \subseteq {frames'[k].irq : k \in 1..Len(frames')}
        BY <4>1 DEF Under
      <4>4. {frames'[k].irq : k \in 1..Len(frames')} \subseteq Under
        BY <4>2 DEF Under
      <4> QED
        BY <4>3, <4>4
    <3>2. inservice' = Under
      BY <2>1, <2>3 DEF NestInv, InService
    <3>3. CASE frames' = <<>>
      BY <2>4, <2>5, <3>1, <3>2, <3>3 DEF InService, Under
    <3>4. CASE frames' # <<>>
      <4>1. ~Retired(frames'[1])
        BY <2>4, <2>6, <3>4 DEF Interruptible, Retired
      <4>2. 1..Len(frames') = {1} \cup 2..Len(frames')
        BY <2>4, <2>5, <3>4
      <4>3. {frames'[k].irq : k \in 1..Len(frames')} = {frames'[k].irq : k \in 2..Len(frames')} \cup {frames'[1].irq}
        BY <4>2
      <4> QED
        BY <3>1, <3>2, <3>4, <4>1, <4>3 DEF InService, Under, Retired
    <3> QED
      BY <3>3, <3>4
  <2> QED
    BY <2>3, <2>7, <2>8, <2>9 DEF NestInv
<1>4. CASE Head(f.todo) # "iret"
  <2>1. frames' = <<g>> \o Tail(frames)
    BY <1>4, StepCases
  <2>2. g.irq = f.irq /\ g.todo = Tail(f.todo)
    BY <1>2, <1>1 DEF Frame
  <2> HIDE DEF g
  <2>4. g \in Frame
    <3>1. f.todo # <<>>
      <4>1. Interruptible(f) \/ Begun(f) \/ Retired(f)
        BY <1>1 DEF NestInv, Stack
      <4> QED
        BY <2>2, <4>1, NextStage
    <3>2. Tail(f.todo) \in Seq(Steps)
      BY <1>2, <3>1
    <3> QED
      BY <1>1, <3>2 DEF Frame, g
  <2>3. /\ Interruptible(f) =>
             \/ Head(f.todo) = "hook" /\ Interruptible(g)
             \/ Head(f.todo) = "cli" /\ Begun(g)
        /\ Begun(f) =>
             \/ Head(f.todo) \in {"hook", "sti"} /\ Interruptible(g)
             \/ Head(f.todo) = Retires(f.irq) /\ Retired(g)
        /\ Retired(f) => Head(f.todo) \in {"eoi0", "cli"} /\ Retired(g)
    BY <1>4, <2>2, NextStage
  <2>5. CASE Retired(f)
    <3>1. Control' /\ inservice' = Under /\ ~IF_flag'
      BY <1>4, <2>5, AfterEOI
    <3> QED
      BY <1>1, <2>1, <2>2, <2>3, <2>4, <2>5, <3>1, StepOn
  <2>6. CASE Begun(f) /\ Head(f.todo) = Retires(f.irq) /\ Retired(g)
    <3>1. Control' /\ inservice' = Under /\ ~IF_flag'
      BY <2>6, OwnEOI
    <3> QED
      BY <1>1, <2>1, <2>2, <2>4, <2>6, <3>1, StepOn
  <2>7. CASE /\ Interruptible(f) \/ Begun(f)
             /\ Head(f.todo) \in {"hook", "sti", "cli"}
             /\ Interruptible(g) \/ (Head(f.todo) = "cli" /\ Begun(g))
    <3>1. ~Retired(f) /\ ~Retired(g)
      BY <2>7 DEF Interruptible, Begun, Retired
    <3>2. Control' /\ UNCHANGED inservice /\ (Head(f.todo) = "cli" => ~IF_flag')
      BY <2>7, <3>1, FlagStep
    <3>3. inservice' = Under \cup {g.irq}
      BY <1>1, <2>2, <3>1, <3>2 DEF NestInv, InService
    <3> QED
      BY <1>1, <2>1, <2>2, <2>4, <2>7, <3>1, <3>2, <3>3, StepOn
  <2>8. Retired(f) \/ Begun(f) \/ Interruptible(f)
    BY <1>1 DEF NestInv, Stack
  <2>9. CASE Interruptible(f)
    BY <2>3, <2>7, <2>9
  <2>10. CASE Begun(f)
    BY <2>3, <2>6, <2>7, <2>10
  <2> QED
    BY <2>5, <2>8, <2>9, <2>10
<1> QED
  BY <1>3, <1>4

-----------------------------------------------------------------------------
(* The other steps *)

\* With interrupts on no handler on the stack has sent its EOI.
LEMMA AllInService ==
  ASSUME NestInv, IF_flag
  PROVE  /\ \A k \in 1..Len(frames) : Interruptible(frames[k]) /\ frames[k].irq \in inservice
         /\ inservice = {frames[k].irq : k \in 1..Len(frames)}
<1>1. Len(frames) \in Nat /\ (frames # <<>> <=> 1 \in 1..Len(frames))
  BY DEF NestInv, Stack
<1>2. \A k \in 1..Len(frames) : Interruptible(frames[k])
  BY <1>1 DEF NestInv, Stack
<1>3. inservice = {frames[k].irq : k \in 1..Len(frames)}
  <2>1. CASE frames = <<>>
    BY <1>1, <2>1 DEF NestInv, InService, Under
  <2>2. CASE frames # <<>>
    <3>1. ~Retired(frames[1])
      BY <1>1, <1>2, <2>2 DEF Interruptible, Retired
    <3>2. 1..Len(frames) = {1} \cup 2..Len(frames)
      BY <1>1, <2>2
    <3>3. {frames[k].irq : k \in 1..Len(frames)} = {frames[k].irq : k \in 2..Len(frames)} \cup {frames[1].irq}
      BY <3>2
    <3> QED
      BY <2>2, <3>1, <3>3 DEF NestInv, InService, Under
  <2> QED
    BY <2>1, <2>2
<1> QED
  BY <1>2, <1>3

LEMMA InterruptPreserves ==
  ASSUME NestInv, Interrupt
  PROVE  NestInv'
<1>1. PICK i \in Lines \ {2} :
         /\ IF_flag /\ IF_flag' = FALSE
         /\ i \notin inservice /\ \A j \in inservice : Rank(i) < Rank(j)
         /\ inservice' = inservice \cup {i}
         /\ Control'
  BY Taken DEF NestInv, Interrupt
<1> DEFINE g == [irq |-> i, todo |-> Handler(i)]
<1>2. frames' = <<g>> \o frames
  BY <1>1 DEF Interrupt
<1>4. g \in Frame /\ Begun(g)
  BY Entered
<1>5. /\ \A k \in 1..Len(frames) : Interruptible(frames[k]) /\ frames[k].irq \in inservice
      /\ inservice = {frames[k].irq : k \in 1..Len(frames)}
  BY <1>1, AllInService
<1>6. /\ frames' \in Seq(Frame) /\ frames' # <<>> /\ Len(frames') = Len(frames) + 1
      /\ frames'[1] = g
      /\ \A k \in 2..Len(frames') : frames'[k] = frames[k - 1]
  BY <1>2, <1>4, Enter DEF NestInv, Stack
<1>7. Len(frames) \in Nat
  BY DEF NestInv, Stack
<1>8. \A k \in 2..Len(frames') : k - 1 \in 1..Len(frames)
  BY <1>6, <1>7
<1>9. Stack'
  <2>1. \A k \in 2..Len(frames') : Interruptible(frames'[k])
    BY <1>5, <1>6, <1>8
  <2> QED
    BY <1>1, <1>4, <1>6, <2>1 DEF Stack, Begun, Interruptible, Retired
<1>10. HandlersNest'
  <2> SUFFICES ASSUME NEW j \in 1..Len(frames'), NEW k \in 1..Len(frames'), j < k
               PROVE  Rank(frames'[j].irq) < Rank(frames'[k].irq)
    BY DEF HandlersNest, Rank, NoIRQ
  <2>1. k \in 2..Len(frames') /\ frames'[k] = frames[k - 1]
    BY <1>6, <1>7
  <2>2. CASE j = 1
    BY <1>1, <1>5, <1>6, <1>8, <2>1, <2>2
  <2>3. CASE j # 1
    <3>1. j \in 2..Len(frames') /\ frames'[j] = frames[j - 1]
      BY <1>6, <1>7, <2>3
    <3>2. j - 1 < k - 1
      OBVIOUS
    <3> QED
      BY <1>8, <2>1, <3>1, <3>2 DEF NestInv, HandlersNest
  <2> QED
    BY <2>2, <2>3
<1>11. InService'
  <2>1. {frames'[k].irq : k \in 2..Len(frames')} = {frames[k].irq : k \in 1..Len(frames)}
    <3>1. \A k \in 1..Len(frames) : k + 1 \in 2..Len(frames') /\ frames'[k + 1] = frames[k]
      BY <1>6, <1>7
    <3>2. \A k \in 2..Len(frames') : k - 1 \in 1..Len(frames) /\ frames'[k] = frames[k - 1]
      BY <1>6, <1>8
    <3>3. {frames'[k].irq : k \in 2..Len(frames')} \subseteq {frames[k].irq : k \in 1..Len(frames)}
      BY <3>2
    <3>4. {frames[k].irq : k \in 1..Len(frames)} \subseteq {frames'[k].irq : k \in 2..Len(frames')}
      BY <3>1
    <3> QED
      BY <3>3, <3>4
  <2>2. ~Retired(g)
    BY <1>4 DEF Begun, Retired
  <2>3. Under' = inservice
    BY <1>5, <2>1 DEF Under
  <2>4. frames'[1].irq = i /\ ~Retired(frames'[1])
    BY <1>6, <2>2
  <2>5. inservice' = Under' \cup (IF frames' # <<>> /\ ~Retired(frames'[1]) THEN {frames'[1].irq} ELSE {})
    BY <1>1, <1>6, <2>3, <2>4
  <2> QED
    BY <2>5 DEF InService, Retired
<1> QED
  BY <1>1, <1>9, <1>10, <1>11 DEF NestInv

\* The program, the devices and stuttering leave the handlers alone.
LEMMA OthersPreserve ==
  ASSUME NestInv, Program \/ Devices \/ UNCHANGED nestVars
  PROVE  NestInv'
<1>1. UNCHANGED <<frames, inservice, IRQActive, modeVars, icwVars>>
  BY DEF Program, Devices, Device, CPU_SetIF, PIC_SetIRQMask, PIC_ActivateIRQ,
         PIC_DeActivateIRQ, nestVars, vars, irqVars
<1>2. active' \subseteq Lines \ {2} /\ IF_flag' \in BOOLEAN
  BY DEF NestInv, Control, Program, Devices, Device, CPU_SetIF, PIC_SetIRQMask,
         PIC_ActivateIRQ, PIC_DeActivateIRQ, nestVars, vars, irqVars
<1>3. frames = <<>> \/ IF_flag' = IF_flag
  BY DEF Program, Devices, Device, PIC_ActivateIRQ, PIC_DeActivateIRQ, nestVars, vars
<1>4. Control'
  BY <1>1, <1>2, ControlKept DEF NestInv
<1>5. Stack'
  BY <1>1, <1>3 DEF NestInv, Stack, Interruptible, Begun, Retired
<1>6. InService' /\ HandlersNest'
  BY <1>1 DEF NestInv, InService, Under, Retired, HandlersNest
<1> QED
  BY <1>4, <1>5, <1>6 DEF NestInv

LEMMA NestInitInv == NestInit => NestInv
<1> SUFFICES ASSUME NestInit
             PROVE  NestInv
  OBVIOUS
<1>1. Stack /\ InService /\ HandlersNest
  BY DEF NestInit, Init, Stack, InService, Under, HandlersNest
<1>2. Control
  BY DEF NestInit, Init, Control
<1> QED
  BY <1>1, <1>2 DEF NestInv

-----------------------------------------------------------------------------
(* The theorems *)

\* The stack of handlers and the controllers agree in every reachable state
\* (NestInv), for any of the BIOS's lines.
THEOREM NestInvariance == NestSpec => []NestInv
<1>1. NestInit => NestInv
  BY NestInitInv
<1>2. NestInv /\ [NestNext]_nestVars => NestInv'
  BY HandlerStepPreserves, InterruptPreserves, OthersPreserve DEF NestNext
<1> QED
  BY <1>1, <1>2, PTL DEF NestSpec

\* A line is in service exactly while its handler has not sent the EOI that
\* retires it: no handler's EOI retires the line of another.
THEOREM EOIRetiresOwn == NestSpec => []ServiceMatchesFrames
<1>1. NestInv => ServiceMatchesFrames
  BY InvImplies
<1> QED
  BY <1>1, NestInvariance, PTL

\* A handler is interrupted only by lines more urgent than its own, so that none
\* is entered again before it has returned.
THEOREM NeverReentered == NestSpec => []HandlersNest
<1>1. NestInv => HandlersNest
  BY DEF NestInv
<1> QED
  BY <1>1, NestInvariance, PTL

=============================================================================
