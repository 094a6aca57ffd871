CONSTANTS
  Lines = {0, 8, 2}
  Pcjr = FALSE
  SpecialMaskUsed = TRUE
  Reinit = {}
SPECIFICATION Spec
INVARIANT SpecialModeTracksBoth
CHECK_DEADLOCK FALSE
