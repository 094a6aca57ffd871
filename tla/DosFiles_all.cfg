CONSTANTS
  DOS_FILES = 6
  MaxFiles = 6
  FileNames = {"f"}
  Psps = {0, 1, 2}
  MaxDepth = 3
  Touched = {0, 5}
SPECIFICATION Spec
INVARIANTS TypeOK CountsMatch HeldIsOpen RedirectReaches
PROPERTIES ShellKeepsEntries OthersKeepFiles
CHECK_DEADLOCK FALSE
