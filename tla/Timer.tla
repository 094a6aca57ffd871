------------------------------- MODULE Timer -------------------------------
(***************************************************************************)
(* Counter 0 of the interval timer (src/hardware/timer.cpp) on the event   *)
(* queue.  The program reprograms it byte by byte through ports 43h and    *)
(* 40h while its event, PIT0_Event, sits in the queue among the events of  *)
(* other devices; the event raises IRQ 0 and adds itself again.            *)
(*                                                                         *)
(* The count written is a delay in the time unit of PicQueue.  start, an   *)
(* absolute time in the code, is kept relative to the millisecond that     *)
(* runs.  The latches that reading goes through are left out.              *)
(***************************************************************************)
EXTENDS PicQueue

CONSTANTS
  PIT0_EventId,   \* the entry <<PIT0_Event, 0>> of Events
  PitDelays,      \* the delays of the counts that are written
  Modes,          \* the modes written; 4 stands for 1 and 5 as well
  Accesses,       \* the access bits written: 1 or 2 for one byte, 3 for two
  MaxBoosts,      \* bound: how often code gives itself cycles in a millisecond
  MaxOthers       \* bound: events of other devices in the queue

ASSUME TimerAssumption ==
  /\ PIT0_EventId \in Events
  /\ PitDelays \subseteq Nat \ {0} /\ PitDelays # {}
  /\ Modes \subseteq {0, 2, 3, 4} /\ Accesses \subseteq {1, 2, 3}
  /\ MaxBoosts \in Nat /\ MaxOthers \in Nat

\* The queue (PIC_QUEUESIZE, 512) has room for the timer's event besides those of
\* the other devices and one whose handler runs.
ASSUME RoomAssumption == Cardinality(Slots) >= MaxOthers + 2

VARIABLES
  pit,      \* pit[0]
  start,    \* pit[0].start
  irq0,     \* the line of IRQ 0
  boosts    \* boosts in this millisecond

timerVars == <<vars, pit, start, irq0, boosts>>

PIT_Block == [mode : {0, 2, 3, 4}, new_mode : BOOLEAN, cntr : PitDelays, delay : PitDelays,
              update_count : BOOLEAN, write_state : 0..3]

\* The event will come again.
Running == ~pit.new_mode /\ pit.mode # 0

Now == TickIndexND * Sub

\* fmod.
Fmod(x, d) == IF x >= 0 THEN x % d ELSE -((-x) % d)

\* OUT of the counter in a given mode.
counter_output(mode, time) ==
  LET index == time - start
  IN CASE mode = 0 -> ~pit.new_mode /\ index > pit.delay
       [] mode = 2 -> pit.new_mode \/ Fmod(index, pit.delay) > 0
       [] mode = 3 -> pit.new_mode \/ Fmod(index, pit.delay) * 2 < pit.delay
       [] OTHER    -> TRUE

-----------------------------------------------------------------------------
(* TIMER::TIMER adds the first event *)
TimerInit ==
  /\ LET order == CHOOSE f \in [1..Cardinality(Slots) -> Slots] : Elems(f) = Slots
     IN free = Tail(order) /\ \E d \in PitDelays :
       /\ queue = <<[slot |-> Head(order), at |-> d, ev |-> PIT0_EventId]>>
       /\ pit = [mode |-> 3, new_mode |-> FALSE, cntr |-> d, delay |-> d,
                 update_count |-> FALSE, write_state |-> 3]
  /\ start = 0
  /\ current = None /\ phase = "loop" /\ fired = FALSE /\ ops = 0
  /\ CPU_Cycles = 0 /\ CPU_CycleLeft = CycleMax
  /\ irq0 = FALSE
  /\ boosts = 0

-----------------------------------------------------------------------------
(* The program writes to the ports *)

\* Mutant: the event of the old programming stays in the queue.
DisarmNot == UNCHANGED <<queue, free>>

\* A control word takes the event away.
Disarm == Remove({PIT0_EventId})

\* Not at once: the program goes on for Boost cycles at least, which are not
\* taken from those of the millisecond.
RaiseLater ==
  /\ boosts < MaxBoosts
  /\ irq0' = TRUE
  /\ CPU_Cycles' = IF CPU_Cycles < Boost THEN Boost ELSE CPU_Cycles
  /\ SliceEnds - CPU_Cycles' >= -MaxBack
  /\ boosts' = boosts + 1

\* write_p43 for counter 0.  The new mode takes effect before the line is
\* looked at if the old one was 0.
WriteControl(access, mode) ==
  /\ Calls
  /\ Disarm
  /\ pit' = [pit EXCEPT !.update_count = FALSE, !.write_state = access,
                        !.new_mode = TRUE, !.mode = mode]
  /\ IF mode # 0 /\ ~counter_output(IF pit.mode = 0 THEN mode ELSE pit.mode, Now)
       THEN RaiseLater
       ELSE /\ irq0' = (irq0 /\ mode # 0)
            /\ UNCHANGED <<CPU_Cycles, boosts>>
  /\ UNCHANGED <<current, CPU_CycleLeft, phase, fired, ops, start>>

\* write_latch, first byte of two.
WriteFirst ==
  /\ Calls /\ pit.write_state = 3
  /\ pit' = [pit EXCEPT !.write_state = 0]
  /\ UNCHANGED <<queue, free, current, CPU_Cycles, CPU_CycleLeft, phase, fired, ops, start, irq0, boosts>>

LastByte == Calls /\ pit.write_state # 3

Loaded(d) == [pit EXCEPT !.cntr = d, !.write_state = IF @ = 0 THEN 3 ELSE @]

\* In mode 2 a count without a control word waits for the old one to run out.
WriteLater(d) ==
  /\ LastByte /\ ~pit.new_mode /\ pit.mode = 2
  /\ pit' = [Loaded(d) EXCEPT !.update_count = TRUE]
  /\ UNCHANGED <<queue, free, current, CPU_Cycles, CPU_CycleLeft, phase, fired, ops, start, irq0, boosts>>

\* Mutant: a count in mode 0 adds an event to the one that is there.
ArmTwice(d) == PIC_AddEvent(PIT0_EventId, d, Now)

\* In mode 0 a new count replaces the event ("DoWhackaDo demo").
Arm(d) ==
  IF pit.mode = 0
  THEN AddTo(Without({PIT0_EventId}), FreeAfter({PIT0_EventId}), PIT0_EventId, d, Now)
  ELSE PIC_AddEvent(PIT0_EventId, d, Now)

\* A count after a control word, or in mode 0, starts the counter.
WriteStarts(d) ==
  /\ LastByte /\ (pit.new_mode \/ pit.mode = 0)
  /\ pit' = [Loaded(d) EXCEPT !.delay = d, !.new_mode = FALSE]
  /\ start' = Now
  /\ Arm(d)
  /\ CutSlice(queue')
  /\ UNCHANGED <<current, phase, fired, ops, irq0, boosts>>

\* "PIT 0 Timer set without new control word": the counter starts anew, but the
\* event stays where it was.
WriteRunning(d) ==
  /\ LastByte /\ ~pit.new_mode /\ pit.mode \in {3, 4}
  /\ pit' = [Loaded(d) EXCEPT !.delay = d]
  /\ start' = Now
  /\ UNCHANGED <<queue, free, current, CPU_Cycles, CPU_CycleLeft, phase, fired, ops, irq0, boosts>>

\* write_latch for port 40h.
WriteLatch ==
  \/ WriteFirst
  \/ \E d \in PitDelays : WriteLater(d) \/ WriteStarts(d) \/ WriteRunning(d)

-----------------------------------------------------------------------------
(* The event *)

\* Mutant: the counter's start does not follow the interrupts.
NextPeriodStuck == start

\* Where the next period starts.
NextPeriod == start + pit.delay

\* Mutant: mode 2 adds no event while a new count waits.
PIT0_EventForgets ==
  /\ phase = "handler" /\ current.ev = PIT0_EventId /\ ops = 0
  /\ irq0' = TRUE
  /\ IF pit.mode = 0 \/ pit.update_count THEN UNCHANGED <<pit, start, queue, free>>
     ELSE /\ start' = NextPeriod
          /\ PIC_AddEvent(PIT0_EventId, pit.delay, current.at)
          /\ UNCHANGED pit
  /\ ops' = 1
  /\ UNCHANGED <<current, CPU_Cycles, CPU_CycleLeft, phase, fired, boosts>>

PIT0_Event ==
  /\ phase = "handler" /\ current.ev = PIT0_EventId /\ ops = 0
  /\ irq0' = TRUE
  /\ IF pit.mode = 0 THEN UNCHANGED <<pit, start, queue, free>>
     ELSE /\ start' = NextPeriod
          /\ pit' = [pit EXCEPT !.delay = IF pit.update_count THEN pit.cntr ELSE @,
                                !.update_count = FALSE]
          /\ PIC_AddEvent(PIT0_EventId, pit'.delay, current.at)
  /\ ops' = 1
  /\ UNCHANGED <<current, CPU_Cycles, CPU_CycleLeft, phase, fired, boosts>>

\* The CPU takes the interrupt (PIC_runIRQs).
TakeIrq0 ==
  /\ phase \in {"cpu", "dynrec"} /\ irq0
  /\ irq0' = FALSE
  /\ UNCHANGED <<vars, pit, start, boosts>>

-----------------------------------------------------------------------------
(* The rest of the machine *)

IsPit(e) == e.ev = PIT0_EventId
PitQueue == Of(queue, {PIT0_EventId})
Others == Len(queue) - Len(PitQueue)

\* Code of other devices adds and removes events of its own only; their handlers
\* and the tick handlers, which PicQueue lets do so too, do nothing here.
OthersOnly == PitQueue' = PitQueue /\ Others' <= MaxOthers

Handling == phase = "handler" /\ current.ev = PIT0_EventId

Elsewhere ==
  /\ \/ Spend \/ WritePic \/ Leave \/ FallBack \/ EnterBlock \/ BlockEnd \/ Handover \/ Return \/ SliceEnd
     \/ (ScheduleEvent \/ CancelEvents \/ Trap \/ Detour) /\ OthersOnly
     \/ RunQueue \/ Dispatch \/ EndService \/ TickEnd
     \/ HandlerReturn /\ (Handling => ops = 1)
  /\ UNCHANGED <<pit, start, irq0, boosts>>

\* Other code gives itself cycles too.
OthersBoost ==
  /\ SetCycles /\ boosts < MaxBoosts
  /\ boosts' = boosts + 1
  /\ UNCHANGED <<pit, start, irq0>>

\* The start of a counter without an event falls back without end, but matters
\* only modulo the period, or as being further back than one.
Settled(s) == IF PitQueue # <<>> \/ -s <= 2 * pit.delay THEN s ELSE -(pit.delay + 1 + ((-s - 1) % pit.delay))

NewMillisecond ==
  /\ TIMER_AddTick
  /\ start' = Settled(start - Millisecond)
  /\ boosts' = 0
  /\ UNCHANGED <<pit, irq0>>

TimerNext ==
  \/ \E access \in Accesses, mode \in Modes : WriteControl(access, mode)
  \/ WriteLatch
  \/ PIT0_Event
  \/ TakeIrq0
  \/ Elsewhere
  \/ OthersBoost
  \/ NewMillisecond

TimerSpec == TimerInit /\ [][TimerNext]_timerVars

\* The thread keeps running: the cores end their slices, callbacks and handlers
\* return, and the host's clock lets the next millisecond start.  A callback that
\* the recompiler leaves to the interpreter takes no time, so that a program of
\* nothing but such callbacks would stop the clock: some block runs, too.
TimerFairness ==
  /\ WF_timerVars((Spend \/ Leave \/ FallBack \/ BlockEnd \/ Handover \/ Return \/ SliceEnd) /\ UNCHANGED <<pit, start, irq0, boosts>>)
  /\ SF_timerVars(EnterBlock /\ UNCHANGED <<pit, start, irq0, boosts>>)
  /\ WF_timerVars((RunQueue \/ Dispatch \/ EndService \/ TickEnd) /\ UNCHANGED <<pit, start, irq0, boosts>>)
  /\ WF_timerVars(PIT0_Event)
  /\ WF_timerVars(HandlerReturn /\ (Handling => ops = 1) /\ UNCHANGED <<pit, start, irq0, boosts>>)
  /\ WF_timerVars(NewMillisecond)

TimerFairSpec == TimerSpec /\ TimerFairness

-----------------------------------------------------------------------------
(* Properties *)

\* A counter that runs has its one event in the queue, or is about to add it in
\* its handler; a counter that waits for a count has none; one that has run out
\* in mode 0 has none until the next count.  No sequence of control words, half
\* written counts and reloads leaves the timer without its interrupt for good,
\* or with two.
OneEventPerCounter ==
  LET n == Len(PitQueue) + IF Handling /\ ops = 0 THEN 1 ELSE 0
  IN /\ Running => n = 1
     /\ pit.new_mode => n = 0
     /\ n <= 1

Armed == (Handling /\ ops = 0) \/ PitQueue # <<>>
Due0 == IF Handling /\ ops = 0 THEN current.at ELSE Head(PitQueue).at

\* What the event is off from the time the counter reaches its end.
Skew == Due0 - (start + pit.delay)

\* The interrupt comes when the counter that the program reads reaches its end,
\* over any number of periods, of milliseconds and of waiting counts: start,
\* which the handler advances by itself, follows the event's due time.  Only a
\* count written to a running counter without a control word moves them apart.
InterruptInPhase ==
  [][ Armed' => \/ Skew' = 0
                \/ Armed /\ Skew' = Skew
                \/ \E d \in PitDelays : WriteRunning(d) ]_timerVars

\* The clock, over the end of a millisecond.
NextNow == Now' + IF phase = "idle" /\ phase' = "tick" THEN Millisecond ELSE 0

\* The clock steps back where what was run past the end of a millisecond is dropped
\* (the cycles of enableCycleHack, the last instruction or block, what a block left
\* to the interpreter), when a control word raises the line, and where other code
\* gives itself cycles, and in the latter two by less than those and what a block
\* before had overrun.  Nothing else that a program does to the timer moves it.
ClockBacksteps ==
  [][ NextNow < Now =>
        \/ phase' = "tick" /\ NextNow >= Now - (Hack + 2 * Burst) * Sub
        \/ /\ \/ irq0' /\ pit'.new_mode
              \/ SetCycles
           /\ NextNow >= Now - (Boost + Burst) * Sub ]_timerVars

\* A counter that runs interrupts, unless the program stops it first.  This holds
\* of a program that gives itself cycles a bounded number of times in a millisecond
\* (MaxBoosts): one that does without end keeps the clock where it is.
TimerTicks == Running /\ ~irq0 ~> irq0 \/ ~Running

\* The events of other devices still leave the queue while the program
\* reprograms the timer, within the same bound.
OtherLeaves ==
  \A s \in Slots : (\E k \in 1..Len(queue) : queue[k].slot = s /\ ~IsPit(queue[k]))
                   ~> ~(\E k \in 1..Len(queue) : queue[k].slot = s /\ ~IsPit(queue[k]))

=============================================================================
