CONSTANTS
  Lines = {0, 2, 3, 8, 12}
  Pcjr = FALSE
  SpecialMaskUsed = FALSE
  Reinit = {1}
SPECIFICATION Spec
INVARIANTS TypeOK CheckTracksLines ActiveInService ActiveIsHighest
PROPERTY NestsByPriority
CHECK_DEADLOCK FALSE
