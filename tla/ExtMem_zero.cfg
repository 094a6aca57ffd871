CONSTANTS
  N = 6
  XmsHandles = 1
  EmsHandles = 1
  PerEms = 2
  PerKb = 4
  NewSizes = {0, 4}
  Sizes = {0, 5}
  EmsSizes = {0, 1, 2}
  SystemPages = 1
  MaxLock = 1
  MaxVcpi = 2
SPECIFICATION Spec
INVARIANT FreePagesUnheld
CHECK_DEADLOCK FALSE
