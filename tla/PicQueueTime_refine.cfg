CONSTANTS
  CycleMax = 6
  Sub = 2
  a = a
  b = b
  Slots = {s1, s2}
  Handlers = {a, b}
  Events <- TwoHandlers
  Delays = {1, 3}
  Hack = 1
  Cores = {"cpu", "dynrec"}
  Burst = 2
  Boost = 1
  MaxBack = 0
  MaxOps = 1
  MaxTicks = 1
SPECIFICATION TimeSpec
INVARIANTS TypeOK SlotsConserved FiresOnTime
SYMMETRY QueueSymmetry
PROPERTIES ImplementsSchedule ClockBackstep
CHECK_DEADLOCK FALSE
