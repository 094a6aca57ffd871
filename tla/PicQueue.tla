------------------------------ MODULE PicQueue ------------------------------
(***************************************************************************)
(* The timed event queue of src/hardware/pic.cpp and the loop that drives  *)
(* it: Normal_Loop (dosbox.cpp) calls PIC_RunQueue, which fires the events *)
(* that are due and cuts the millisecond into a slice of CPU cycles ending *)
(* at the next one; a CPU core burns the slice, the interpreter one        *)
(* instruction at a time or the recompiler a block at a time; TIMER_AddTick*)
(* starts the next millisecond.  Everything runs on one thread, but the    *)
(* guest code, the callbacks, the event handlers, the tick handlers and    *)
(* the input events all add and remove events, each at its own point of    *)
(* the loop, and some set the clock back to get cycles they need.          *)
(*                                                                         *)
(* Cycles are counted as in the code.  An event's index, a float fraction  *)
(* of the millisecond, is counted in parts of a cycle, Sub of them to a    *)
(* cycle, so that events fall between two cycles as well as on one.        *)
(***************************************************************************)
EXTENDS Integers, Sequences, FiniteSets

CONSTANTS
  CycleMax,    \* CPU_CycleMax: cycles in a millisecond
  Sub,         \* parts of a cycle that an index distinguishes
  Slots,       \* pic_queue.entries
  Handlers,    \* the event handlers
  Events,      \* the <<handler, value>> pairs that are scheduled
  Delays,      \* the delays asked for, in parts of a cycle
  Cores,       \* the cores that begin a slice: "cpu", "dynrec", or both (core=auto)
  Hack,        \* cycles enableCycleHack adds to the last slice, 0 when it is off
  Burst,       \* bound: cycles taken with no test of the slice's end in between
  Boost,       \* the most cycles that code gives itself (25)
  MaxBack,     \* bound: how far that code sets the clock before its millisecond
  MaxOps       \* bound: queue calls made by one handler, tick or input event

ASSUME CycleAssumption == CycleMax \in Nat \ {0} /\ Sub \in Nat \ {0}
ASSUME SlotAssumption  == IsFiniteSet(Slots)
ASSUME DelayAssumption == Delays \subseteq Nat \ {0}
ASSUME CoreAssumption  == Cores \subseteq {"cpu", "dynrec"} /\ Cores # {}
ASSUME BoundAssumption ==
  Hack \in Nat /\ Burst \in Nat \ {0} /\ Boost \in Nat /\ MaxBack \in Nat /\ MaxOps \in Nat
ASSUME EventAssumption == Events \subseteq Handlers \X Nat

VARIABLES
  queue,        \* the list at pic_queue.next_entry, as entries [slot, at, ev]
  free,         \* the list at pic_queue.free_entry
  current,      \* the entry whose handler runs, held by neither list; its at is srv_lag
  CPU_Cycles,   \* cycles left in the slice
  CPU_CycleLeft,\* cycles of the millisecond beyond the slice
  phase,        \* where the thread is in Normal_Loop
  fired,        \* eventCount: this PIC_RunQueue has fired an event
  ops           \* queue calls made so far in a phase MaxOps bounds

vars == <<queue, free, current, CPU_Cycles, CPU_CycleLeft, phase, fired, ops>>

Entry == [slot : Slots, at : Int, ev : Events]
None  == [slot |-> "none", at |-> 0]
Millisecond == CycleMax * Sub

\* loop: about to call PIC_RunQueue; service: in its dispatch loop; handler: in
\* an event handler; cpu: in the interpreter; dynrec: in the recompiling core,
\* between two blocks; block: in a block; native: in a callback of the emulator;
\* idle: PIC_RunQueue has returned false (GFX_Events); tick: in the handlers that
\* TIMER_AddTick calls.
Phases == {"loop", "service", "handler", "cpu", "dynrec", "block", "native", "idle", "tick"}

Elems(q) == {q[k] : k \in 1..Len(q)}

TypeOK ==
  /\ queue \in Seq(Entry) /\ free \in Seq(Slots)
  /\ current = None \/ current \in Entry
  /\ CPU_Cycles \in (-Burst - 1)..(CycleMax + MaxBack + Boost)
  /\ CPU_CycleLeft \in (-Hack - 2 * Burst)..(CycleMax + MaxBack)
  /\ phase \in Phases
  /\ fired \in BOOLEAN
  /\ ops \in 0..MaxOps

-----------------------------------------------------------------------------
(* Time *)

\* PIC_TickIndexND, and in parts of a cycle PIC_TickIndex.
TickIndexND == CycleMax - CPU_CycleLeft - CPU_Cycles

\* The time at which the slice ends.
SliceEnds == CycleMax - CPU_CycleLeft

\* (Bits): a conversion to an integer number of cycles drops the fraction.
WholeCycles(parts) == IF parts >= 0 THEN parts \div Sub ELSE -((-parts) \div Sub)

-----------------------------------------------------------------------------
(* The list operations *)

\* Mutant: a new entry goes before the entries that are due at the same time.
InsertBefore(q, e) ==
  LET n == Cardinality({k \in 1..Len(q) : q[k].at < e.at})
  IN SubSeq(q, 1, n) \o <<e>> \o SubSeq(q, n + 1, Len(q))

\* AddEntry: after every entry that is due no later.
Insert(q, e) ==
  LET n == Cardinality({k \in 1..Len(q) : q[k].at <= e.at})
  IN SubSeq(q, 1, n) \o <<e>> \o SubSeq(q, n + 1, Len(q))

\* PIC_AddEvent: an event is due its delay after now, and in an event handler
\* after the time the handler itself was due.  The event is dropped when the
\* free list is empty.
AddTo(q, f, ev, delay, now) ==
  IF f = <<>> THEN queue' = q /\ free' = f
  ELSE /\ queue' = Insert(q, [slot |-> Head(f), at |-> now + delay, ev |-> ev])
       /\ free' = Tail(f)

PIC_AddEvent(ev, delay, now) == AddTo(queue, free, ev, delay, now)

\* The entries of q for the events in evs, in their order.
Of(q, evs) ==
  LET of[k \in 0..Len(q)] ==
        IF k = 0 THEN <<>>
        ELSE IF q[k].ev \in evs THEN Append(of[k - 1], q[k]) ELSE of[k - 1]
  IN of[Len(q)]

\* The removals free the entries in the order in which they meet them.
Without(evs) == Of(queue, Events \ evs)

FreeAfter(evs) ==
  LET gone == Of(queue, evs)
  IN [k \in 1..Len(gone) |-> gone[Len(gone) + 1 - k].slot] \o free

Remove(evs) == queue' = Without(evs) /\ free' = FreeAfter(evs)

PIC_RemoveEvents(handler) == Remove({ev \in Events : ev[1] = handler})

PIC_RemoveSpecificEvents(handler, val) == Remove({<<handler, val>>})

QueueCall(now) ==
  \/ \E ev \in Events, d \in Delays : PIC_AddEvent(ev, d, now)
  \/ \E h \in Handlers : PIC_RemoveEvents(h)
  \/ \E ev \in Events : PIC_RemoveSpecificEvents(ev[1], ev[2])

-----------------------------------------------------------------------------
(* PIC::PIC, with the clock at the start of a millisecond *)
Init ==
  /\ queue = <<>>
  /\ free \in {f \in [1..Cardinality(Slots) -> Slots] : Elems(f) = Slots}
  /\ current = None
  /\ CPU_Cycles = 0
  /\ CPU_CycleLeft = CycleMax
  /\ phase = "loop"
  /\ fired = FALSE
  /\ ops = 0

-----------------------------------------------------------------------------
(* Code that runs within a slice: an instruction of the interpreter, one of a
   recompiled block, or a callback.  The interpreter counts an instruction when it
   begins, a block is counted when it ends, so that code in a block sees the time
   at which the block began. *)

\* What the code can reach of the queue.  Only REP SCAS and REP CMPS overrun the
\* slice within an instruction, and they make no calls.
Calls ==
  \/ phase \in {"block", "native"}
  \/ phase = "cpu" /\ CPU_Cycles >= 0

\* The interpreter's while (CPU_Cycles-- > 0) and what an instruction takes
\* besides: a cycle for each round of a string instruction, REP SCAS and REP CMPS
\* with no test for the end of the slice, the others up to it; the delay of a
\* port, up to it.
Spend ==
  /\ phase \in {"cpu", "block", "native"} /\ CPU_Cycles > 0
  /\ \E n \in 1..Burst : CPU_Cycles' = CPU_Cycles - n
  /\ phase # "cpu" => CPU_Cycles' >= 0
  /\ UNCHANGED <<queue, free, current, CPU_CycleLeft, phase, fired, ops>>

\* Mutant: the slice is never cut short.
CutSliceNever(q) == UNCHANGED <<CPU_Cycles, CPU_CycleLeft>>

\* AddEntry's end: a head that is due within the slice ends the slice.
CutSlice(q) ==
  IF WholeCycles(Head(q).at - TickIndexND * Sub) < CPU_Cycles
    THEN CPU_Cycles' = 0 /\ CPU_CycleLeft' = CPU_CycleLeft + CPU_Cycles
    ELSE UNCHANGED <<CPU_Cycles, CPU_CycleLeft>>

ScheduleEvent ==
  /\ Calls
  /\ \E ev \in Events, d \in Delays : PIC_AddEvent(ev, d, TickIndexND * Sub)
  /\ IF free = <<>> THEN UNCHANGED <<CPU_Cycles, CPU_CycleLeft>> ELSE CutSlice(queue')
  /\ UNCHANGED <<current, phase, fired, ops>>

CancelEvents ==
  /\ Calls
  /\ \/ \E h \in Handlers : PIC_RemoveEvents(h)
     \/ \E ev \in Events : PIC_RemoveSpecificEvents(ev[1], ev[2])
  /\ UNCHANGED <<current, CPU_Cycles, CPU_CycleLeft, phase, fired, ops>>

\* Mutant: the cycles kept for the next slice stay in this one.
WritePicKeeps ==
  /\ Calls
  /\ CPU_CycleLeft' = CPU_CycleLeft + CPU_Cycles
  /\ UNCHANGED <<queue, free, current, CPU_Cycles, phase, fired, ops>>

\* A write to the interrupt controllers while a line is deliverable ends the slice
\* and keeps its cycles for the next.
WritePic ==
  /\ Calls
  /\ CPU_CycleLeft' = CPU_CycleLeft + CPU_Cycles
  /\ CPU_Cycles' = 0
  /\ UNCHANGED <<queue, free, current, phase, fired, ops>>

\* Code that needs a few cycles before something happens sets CPU_Cycles: raised
\* (the interval timer, DOS, the CD extensions), it is taken from nowhere; lowered
\* (the MPU-401), the rest is kept for the next slice besides.  Both set the clock
\* back.
SetCycles ==
  /\ Calls
  /\ \E b \in 1..Boost :
       /\ CPU_Cycles' = b
       /\ \/ CPU_Cycles < b /\ UNCHANGED CPU_CycleLeft
          \/ CPU_Cycles > b /\ CPU_CycleLeft' = CPU_CycleLeft + CPU_Cycles
  /\ TickIndexND' >= -MaxBack
  /\ UNCHANGED <<queue, free, current, phase, fired, ops>>

\* The callback has returned to Normal_Loop.
Return ==
  /\ phase = "native"
  /\ phase' = "loop"
  /\ UNCHANGED <<queue, free, current, CPU_Cycles, CPU_CycleLeft, fired, ops>>

\* An instruction run with a slice of its own, of one cycle, may schedule an event:
\* it finds the clock at the end of the slice, and a cut of that cycle is undone.
UnderOwnSlice ==
  \/ \E ev \in Events, d \in Delays : PIC_AddEvent(ev, d, SliceEnds * Sub)
  \/ UNCHANGED <<queue, free>>

-----------------------------------------------------------------------------
(* The interpreter, and the cores that run one instruction of a program that has
   set the trap flag *)

\* The core is left after the instruction, for Normal_Loop or for a callback.
Trap ==
  /\ phase = "cpu" /\ CPU_Cycles > 0
  /\ UnderOwnSlice
  /\ CPU_Cycles' = CPU_Cycles - 1
  /\ phase' \in {"loop", "native"}
  /\ UNCHANGED <<current, CPU_CycleLeft, fired, ops>>

\* An instruction that leaves the core: for a callback, or for the loop with the
\* rest of the slice or, HLT, without it.
Leave ==
  /\ phase = "cpu" /\ CPU_Cycles > 0
  /\ \/ phase' \in {"loop", "native"} /\ CPU_Cycles' = CPU_Cycles - 1
     \/ phase' = "loop" /\ CPU_Cycles' = 0
  /\ UNCHANGED <<queue, free, current, CPU_CycleLeft, fired, ops>>

\* The slice is over; the test of the interpreter's loop has taken one cycle more.
SliceEnd ==
  /\ CPU_Cycles <= 0
  /\ \/ phase = "cpu" /\ CPU_Cycles' = CPU_Cycles - 1
     \/ phase = "dynrec" /\ UNCHANGED CPU_Cycles
  /\ phase' = "loop"
  /\ UNCHANGED <<queue, free, current, CPU_CycleLeft, fired, ops>>

-----------------------------------------------------------------------------
(* The recompiling core, which tests for the end of the slice where a block begins *)

\* An instruction of memory that is being rewritten is left to the interpreter,
\* with one cycle; with a callback, the rest of the slice is kept for the next.
\* Nothing tests for the slice's end here: Burst bounds how often in a row.
Detour ==
  /\ phase = "dynrec" /\ CPU_Cycles > -Burst
  /\ UnderOwnSlice
  /\ \/ CPU_Cycles' = CPU_Cycles - 1 /\ UNCHANGED <<CPU_CycleLeft, phase>>
     \/ CPU_Cycles' = 0 /\ CPU_CycleLeft' = CPU_CycleLeft + CPU_Cycles /\ phase' = "native"
  /\ UNCHANGED <<current, fired, ops>>

\* A page without code of its own: the interpreter goes on.
FallBack ==
  /\ phase = "dynrec"
  /\ phase' = "cpu"
  /\ UNCHANGED <<queue, free, current, CPU_Cycles, CPU_CycleLeft, fired, ops>>

EnterBlock ==
  /\ phase = "dynrec" /\ CPU_Cycles > 0
  /\ phase' = "block"
  /\ UNCHANGED <<queue, free, current, CPU_Cycles, CPU_CycleLeft, fired, ops>>

\* The block's instructions are taken from the slice all at once.
BlockEnd ==
  /\ phase = "block"
  /\ \E n \in 1..Burst : CPU_Cycles' = CPU_Cycles - n
  /\ phase' \in {"dynrec", "native", "loop"}
  /\ UNCHANGED <<queue, free, current, CPU_CycleLeft, fired, ops>>

\* An instruction that a block cannot hold ends it and is left to the interpreter,
\* with one cycle; the rest of the slice is kept for the next.
Handover ==
  /\ phase = "block"
  /\ \E n \in 1..Burst : CPU_CycleLeft' = CPU_CycleLeft + CPU_Cycles - n
  /\ CPU_Cycles' = 1
  /\ phase' = "cpu"
  /\ UNCHANGED <<queue, free, current, fired, ops>>

-----------------------------------------------------------------------------
(* PIC_RunQueue *)

\* Mutant: the cycles moved to CPU_CycleLeft stay in CPU_Cycles too.
RunQueueKeepsCycles ==
  /\ phase = "loop"
  /\ CPU_CycleLeft' = CPU_CycleLeft + CPU_Cycles
  /\ phase' = IF CPU_CycleLeft' <= 0 THEN "idle" ELSE "service"
  /\ fired' = FALSE
  /\ UNCHANGED <<queue, free, current, CPU_Cycles, ops>>

RunQueue ==
  /\ phase = "loop"
  /\ CPU_CycleLeft' = CPU_CycleLeft + CPU_Cycles
  /\ CPU_Cycles' = 0
  /\ phase' = IF CPU_CycleLeft' <= 0 THEN "idle" ELSE "service"
  /\ fired' = FALSE
  /\ UNCHANGED <<queue, free, current, ops>>

Due(q) == q # <<>> /\ Head(q).at <= TickIndexND * Sub

\* Mutant: the entry is freed before its handler runs, and again after it.
DispatchFreesFirst ==
  /\ phase = "service" /\ Due(queue)
  /\ current' = Head(queue)
  /\ queue' = Tail(queue)
  /\ free' = <<Head(queue).slot>> \o free
  /\ phase' = "handler"
  /\ fired' = TRUE
  /\ ops' = 0
  /\ UNCHANGED <<CPU_Cycles, CPU_CycleLeft>>

Dispatch ==
  /\ phase = "service" /\ Due(queue)
  /\ current' = Head(queue)
  /\ queue' = Tail(queue)
  /\ phase' = "handler"
  /\ fired' = TRUE
  /\ ops' = 0
  /\ UNCHANGED <<free, CPU_Cycles, CPU_CycleLeft>>

HandlerCall ==
  /\ phase = "handler" /\ ops < MaxOps
  /\ QueueCall(current.at)
  /\ ops' = ops + 1
  /\ UNCHANGED <<current, CPU_Cycles, CPU_CycleLeft, phase, fired>>

HandlerReturn ==
  /\ phase = "handler"
  /\ free' = <<current.slot>> \o free
  /\ current' = None
  /\ phase' = "service"
  /\ ops' = 0
  /\ UNCHANGED <<queue, CPU_Cycles, CPU_CycleLeft, fired>>

\* The cycles of the next slice.
SliceFor(q, left) ==
  IF q = <<>> THEN left
  ELSE LET whole  == WholeCycles(Head(q).at - TickIndexND * Sub)
           cycles == IF whole = 0 THEN 1 ELSE whole
           hacked == IF left + Hack > CycleMax THEN CycleMax ELSE left + Hack
       IN IF cycles < left THEN cycles
          ELSE IF Hack > 0 /\ fired THEN hacked
          ELSE left

EndService ==
  /\ phase = "service" /\ ~Due(queue)
  /\ CPU_Cycles' = SliceFor(queue, CPU_CycleLeft)
  /\ CPU_CycleLeft' = CPU_CycleLeft - CPU_Cycles'
  /\ phase' \in Cores
  /\ fired' = FALSE
  /\ UNCHANGED <<queue, free, current, ops>>

-----------------------------------------------------------------------------
(* Between milliseconds *)

\* GFX_Events and the tick handlers add and remove events too.
OutsideCall ==
  /\ phase \in {"idle", "tick"} /\ ops < MaxOps
  /\ QueueCall(TickIndexND * Sub)
  /\ ops' = ops + 1
  /\ UNCHANGED <<current, CPU_Cycles, CPU_CycleLeft, phase, fired>>

\* Mutant: the indices are not rebased.
TIMER_AddTickNoRebase ==
  /\ phase = "idle"
  /\ CPU_CycleLeft' = CycleMax
  /\ CPU_Cycles' = 0
  /\ phase' = "tick"
  /\ ops' = 0
  /\ UNCHANGED <<queue, free, current, fired>>

TIMER_AddTick ==
  /\ phase = "idle"
  /\ CPU_CycleLeft' = CycleMax
  /\ CPU_Cycles' = 0
  /\ queue' = [k \in 1..Len(queue) |-> [queue[k] EXCEPT !.at = @ - Millisecond]]
  /\ phase' = "tick"
  /\ ops' = 0
  /\ UNCHANGED <<free, current, fired>>

TickEnd ==
  /\ phase = "tick"
  /\ phase' = "loop"
  /\ ops' = 0
  /\ UNCHANGED <<queue, free, current, CPU_Cycles, CPU_CycleLeft, fired>>

-----------------------------------------------------------------------------
Code == ScheduleEvent \/ CancelEvents \/ WritePic
Interpreter == Trap \/ Leave
Recompiler == Detour \/ FallBack \/ EnterBlock \/ BlockEnd \/ Handover
Cpu == Spend \/ Code \/ Interpreter \/ Recompiler \/ Return \/ SliceEnd
Service == RunQueue \/ Dispatch \/ HandlerCall \/ HandlerReturn \/ EndService
Outside == OutsideCall \/ TIMER_AddTick \/ TickEnd

Next == Cpu \/ SetCycles \/ Service \/ Outside

Spec == Init /\ [][Next]_vars

-----------------------------------------------------------------------------
(* Properties *)

Queued == {queue[k].slot : k \in 1..Len(queue)}
InFlight == IF current = None THEN {} ELSE {current.slot}

\* Every entry of the array is in the queue, in the free list or with the
\* handler that runs, in one of them and once: no path of adding, cancelling
\* (a handler's own event too) and firing leaks an entry or frees one twice.
SlotsConserved ==
  /\ Queued \cup Elems(free) \cup InFlight = Slots
  /\ Len(queue) + Len(free) + Cardinality(InFlight) = Cardinality(Slots)

\* However an event was added, it fires late by less than what the cores take
\* with no test of the slice's end, and a cycle: the slice was cut for it, and only
\* the last instruction or block of the slice, the instruction that a block left to
\* the interpreter, and a slice of at least one cycle delay it.  Nor does the
\* millisecond end without it: what is left over when PIC_RunQueue gives up was due
\* within that of its end.  An event added under the trap flag counts from the
\* slice's end that it saw, later than the clock (core_normal.cpp:193).
FiresOnTime ==
  /\ phase = "service" => \A e \in Elems(queue) : TickIndexND * Sub - e.at < (2 * Burst + 1) * Sub
  /\ phase = "idle" => \A e \in Elems(queue) : e.at > Millisecond - (2 * Burst + 1) * Sub

=============================================================================
