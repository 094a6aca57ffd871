CONSTANTS
  N = 6
  XmsHandles = 1
  EmsHandles = 1
  PerEms = 2
  PerKb = 4
  NewSizes = {4, 5}
  Sizes = {0, 4, 9}
  EmsSizes = {0, 1, 2}
  SystemPages = 1
  MaxLock = 1
  MaxVcpi = 1
SPECIFICATION Spec
INVARIANTS TypeOK UsedIffHeld BlocksWhole ContentsKept BestMatchIsShortest
PROPERTIES ImplementsOwnership LockedStays
CHECK_DEADLOCK FALSE
