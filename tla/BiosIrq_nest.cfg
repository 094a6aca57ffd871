CONSTANTS
  Lines = {0, 1, 2, 8, 9, 12}
  Pcjr = FALSE
  SpecialMaskUsed = FALSE
  Reinit = {}
SPECIFICATION NestFairSpec
INVARIANTS ServiceMatchesFrames HandlersNest
PROPERTY PendingServed
