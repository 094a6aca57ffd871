---------------------------- MODULE PicQueueTime ----------------------------
(***************************************************************************)
(* PicQueue with the count of milliseconds, PIC_Ticks, and so with the     *)
(* emulated clock that devices read, PIC_FullIndex.  The event queue is    *)
(* shown to implement EventSchedule over that clock, although every index  *)
(* is rebased once a millisecond and the clock itself steps back, then and *)
(* where code gives itself cycles.                                         *)
(***************************************************************************)
EXTENDS PicQueue

CONSTANT MaxTicks    \* bound: milliseconds that are emulated

ASSUME TickAssumption == MaxTicks \in Nat

VARIABLES
  PIC_Ticks,   \* milliseconds begun so far
  horizon      \* history: the time at which the last event fired was due, or to
               \* which the clock was set back since

timeVars == <<vars, PIC_Ticks, horizon>>

\* A time of the current millisecond, on the clock that counts from the start.
FullTime(at) == PIC_Ticks * Millisecond + at

\* PIC_FullIndex, in parts of a cycle.
PIC_FullIndex == FullTime(TickIndexND * Sub)

TimeInit == Init /\ PIC_Ticks = 0 /\ horizon = 0

Earlier(t, u) == IF t < u THEN t ELSE u

Ticking == TIMER_AddTick /\ PIC_Ticks < MaxTicks

TimeNext ==
  \/ Ticking /\ PIC_Ticks' = PIC_Ticks + 1 /\ UNCHANGED horizon
  \/ Dispatch /\ horizon' = FullTime(Head(queue).at) /\ UNCHANGED PIC_Ticks
  \/ SetCycles /\ UNCHANGED PIC_Ticks /\ horizon' = Earlier(horizon, PIC_FullIndex')
  \/ (Cpu \/ RunQueue \/ HandlerCall \/ HandlerReturn \/ EndService \/ OutsideCall \/ TickEnd)
       /\ UNCHANGED <<PIC_Ticks, horizon>>

TimeSpec == TimeInit /\ [][TimeNext]_timeVars

-----------------------------------------------------------------------------
(* Properties *)

\* The times at which an event can be due: a delay after a time that the clock
\* can show, which the cores run past the last millisecond that is emulated.
Times ==
  {t + d : t \in (-MaxBack * Sub)..((MaxTicks + 1) * Millisecond + (Hack + 2 * Burst) * Sub),
           d \in Delays}

Pending == [k \in 1..Len(queue) |-> [due |-> FullTime(queue[k].at), ev |-> queue[k].ev]]

Schedule == INSTANCE EventSchedule WITH
  Capacity <- Cardinality(Slots),
  pending  <- Pending,
  firing   <- current # None

\* The queue of pointers and relative indices keeps the promises of
\* EventSchedule: nothing fires out of order, early in the list, twice or not
\* at all, across cancelling inside a handler, slices cut short, a clock that is
\* set back and the rebase of every index at the end of a millisecond.
ImplementsSchedule == Schedule!Spec

\* The clock steps back at the end of a millisecond, by what was run past it: the
\* cycles of enableCycleHack, the last instruction or block and what a block left to
\* the interpreter.  Inside a millisecond it steps back only where code sets
\* CPU_Cycles, and then by what the code gives itself and what a block before it
\* had overrun.  It is never moved by the cuts of a slice, by the cycles that are
\* put aside for the next, or by the trap flag.
ClockBackstep ==
  [][ PIC_FullIndex' < PIC_FullIndex =>
        \/ PIC_Ticks' = PIC_Ticks + 1 /\ PIC_FullIndex' >= PIC_FullIndex - (Hack + 2 * Burst) * Sub
        \/ SetCycles /\ PIC_FullIndex' >= PIC_FullIndex - (Boost + Burst) * Sub ]_timeVars

=============================================================================
