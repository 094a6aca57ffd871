CONSTANTS
  DOS_FILES = 5
  MaxFiles = 6
  FileNames = {"f"}
  Psps = {0, 1, 2}
  MaxDepth = 3
  Touched = {0, 5}
SPECIFICATION Spec
INVARIANT FcbFindsEntry
CHECK_DEADLOCK FALSE
