CONSTANTS
  CycleMax = 2
  Sub = 1
  a = a
  b = b
  Slots = {s1, s2, s3}
  Handlers = {a, b}
  Events <- TwoHandlers
  Delays = {2}
  Hack = 0
  Burst = 2
  Cores = {"cpu"}
  Boost = 1
  MaxBack = 1
  MaxOps = 0
  PIT0_EventId <- PitEvent
  PitDelays = {1, 3}
  Modes = {0, 2}
  Accesses = {3}
  MaxBoosts = 1
  MaxOthers = 1
SPECIFICATION TimerFairSpec
INVARIANT OneEventPerCounter
PROPERTIES InterruptInPhase ClockBacksteps TimerTicks OtherLeaves
