CONSTANTS
  UMB_START_SEG = 107
  LastSeg = 110
  HasUmb = TRUE
  GapSize = 1
  LockSize = 0
  CoverSize = 0
  Wants = {1, 2}
  EnvSize = 1
  MinSizes = {1}
  MaxSizes = {1, 30}
  MaxDepth = 2
  MayTune = TRUE
SPECIFICATION Spec
INVARIANTS TypeOK ChainsTile SearchIsRight ExecutionNeverFails OwnersHoldTheirProgram
PROPERTIES OthersKeepBlocks
CHECK_DEADLOCK FALSE
