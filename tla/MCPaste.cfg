CONSTANTS
  Dirs = {1, 2}
  Names = {x, y}
  Full = {1, 2}
  Base = x
  MaxPastes = 2
  MaxItems = 2
  MaxCalls = 2
SPECIFICATION FairSpec
INVARIANTS TypeOK CutKept OnlyOthersReplaced
PROPERTIES PastesEnd
CHECK_DEADLOCK FALSE
