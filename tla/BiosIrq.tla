------------------------------ MODULE BiosIrq ------------------------------
(***************************************************************************)
(* The interrupt controllers together with the BIOS's own interrupt        *)
(* handlers, which the emulator writes into guest memory as code           *)
(* (callback.cpp): IRQ 0, 1, 8, 9 and 12.  A handler is entered by         *)
(* PIC_startIRQ, may be interrupted wherever the interrupt flag is set,    *)
(* and retires its line with end-of-interrupt commands of its own.         *)
(*                                                                         *)
(* The steps of a handler that touch the flag or a controller are kept:    *)
(*   hook   a call that may return with interrupts enabled (INT 1Ch,       *)
(*          INT 15h, the PS/2 user routine)                                *)
(*   sti cli                                                               *)
(*   eoi0 eoi1 eoi9   the EOI commands 20h to port 20h, 20h to port A0h,   *)
(*          61h to port A0h                                                *)
(*   iret   returns to the interrupted code, which had interrupts enabled  *)
(***************************************************************************)
EXTENDS PicIrq, Sequences

ASSUME BiosLines == Lines \subseteq {0, 1, 2, 8, 9, 12}

VARIABLE frames    \* the handlers on the stack, the innermost first, as [irq, todo]

nestVars == <<vars, frames>>

\* The callback of INT 70h signals its EOI to both controllers and returns.
INT70_Handler == <<"eoi1", "eoi0", "iret">>

\* Mutant: the EOI commands of INT 74h are sent with interrupts enabled.
HandlerNoCli(irq) ==
  CASE irq \in {0, 1} -> <<"hook", "cli", "eoi0", "iret">>
    [] irq = 8        -> INT70_Handler
    [] irq = 9        -> <<"eoi9", "eoi0", "cli", "iret">>
    [] irq = 12       -> <<"sti", "hook", "eoi1", "eoi0", "iret">>

\* Mutant: INT 70h signals its EOI to the first controller only.
HandlerOneEOI(irq) ==
  CASE irq \in {0, 1} -> <<"hook", "cli", "eoi0", "iret">>
    [] irq = 8        -> <<"eoi0", "iret">>
    [] irq = 9        -> <<"eoi9", "eoi0", "cli", "iret">>
    [] irq = 12       -> <<"sti", "hook", "cli", "eoi1", "eoi0", "iret">>

\* The code of the handler of a line. INT 71h, for line 9, ends with INT 0Ah,
\* which sends the EOI to the first controller; it is taken to be the BIOS's own,
\* although a program can put another in its place.
Handler(irq) ==
  CASE irq \in {0, 1} -> <<"hook", "cli", "eoi0", "iret">>
    [] irq = 8        -> INT70_Handler
    [] irq = 9        -> <<"eoi9", "eoi0", "cli", "iret">>
    [] irq = 12       -> <<"sti", "hook", "cli", "eoi1", "eoi0", "iret">>

\* The step that retires the line.
Retires(irq) == CASE irq \in {0, 1} -> "eoi0" [] irq \in {8, 12} -> "eoi1" [] irq = 9 -> "eoi9"

\* A handler's line is in service until its code has sent that command.
Unretired(f) == \E k \in 1..Len(f.todo) : f.todo[k] = Retires(f.irq)

-----------------------------------------------------------------------------
NestInit == Init /\ frames = <<>>

\* An interrupt is taken: the CPU enters the handler of the line started.
Interrupt ==
  /\ PIC_runIRQs
  /\ \E i \in inservice' \ inservice :
       frames' = <<[irq |-> i, todo |-> Handler(i)]>> \o frames

\* Mutant: the command retires whatever line is active.
NonspecificCommandAny(p) == IF IRQActive # NoIRQ THEN RetireActive ELSE UNCHANGED vars

\* An EOI command that finds no line of its own active is ignored.
NonspecificCommand(p) == IF IRQActive < BaseOf(p) + 8 THEN NonspecificEOI(p) ELSE UNCHANGED vars
SpecificCommand(p, level) ==
  IF IRQActive = BaseOf(p) + level THEN SpecificEOI(p, level) ELSE UNCHANGED vars

SetIF(b) == IF IF_flag = b THEN UNCHANGED vars ELSE CPU_SetIF(b)

\* The innermost handler does its next step.
HandlerStep ==
  /\ frames # <<>>
  /\ LET f == Head(frames)
         step == Head(f.todo)
     IN /\ frames' = IF step = "iret" THEN Tail(frames)
                     ELSE <<[f EXCEPT !.todo = Tail(@)]>> \o Tail(frames)
        /\ CASE step = "hook" -> \E b \in BOOLEAN : SetIF(b)
             [] step = "sti"  -> SetIF(TRUE)
             [] step = "cli"  -> SetIF(FALSE)
             [] step = "eoi0" -> NonspecificCommand(0)
             [] step = "eoi1" -> NonspecificCommand(1)
             [] step = "eoi9" -> SpecificCommand(1, 1)
             [] step = "iret" -> SetIF(TRUE)

\* The interrupted program switches interrupts on and off and programs masks.
Program ==
  /\ frames = <<>>
  /\ \/ \E b \in BOOLEAN : CPU_SetIF(b)
     \/ \E i \in Lines, m \in BOOLEAN : PIC_SetIRQMask(i, m)
  /\ UNCHANGED frames

Devices == Device /\ UNCHANGED frames

NestNext == Interrupt \/ HandlerStep \/ Program \/ Devices

\* The handlers run on, and a pending interrupt that is time and again allowed
\* is taken: the CPU loop asks PIC_runIRQs after every slice, STI and IRET. The
\* program is one that opens its masks and does not keep interrupts off forever.
NestFairness ==
  /\ WF_nestVars(HandlerStep)
  /\ SF_nestVars(Interrupt)
  /\ WF_nestVars(Program /\ IF_flag')

NestSpec == NestInit /\ [][NestNext]_nestVars
NestFairSpec == NestSpec /\ NestFairness

-----------------------------------------------------------------------------
(* Properties *)

\* A line is in service exactly while its handler has not sent the command that
\* retires it: no EOI of a handler, sent to either controller, retires the line
\* of another, and none is left in service when its handler is gone.
ServiceMatchesFrames ==
  inservice = {frames[k].irq : k \in {j \in 1..Len(frames) : Unretired(frames[j])}}

\* A handler is interrupted only by lines more urgent than its own, even after
\* its line is retired: at its EOI interrupts are off. So no handler is entered
\* again before it has returned, and the guest's stack holds at most one frame
\* for each line.
HandlersNest ==
  \A j, k \in 1..Len(frames) : j < k => Rank(frames[j].irq) < Rank(frames[k].irq)

\* No line stays pending for ever while it may be delivered and is the most
\* urgent of those pending: whatever handlers are in progress finish, retire
\* their lines and let it in.
PendingServed ==
  \A i \in Lines :
    []<> ~(i \in active /\ Unblocked(i, masked) /\ \A j \in active : Rank(i) <= Rank(j))

=============================================================================
