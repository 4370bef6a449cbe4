CONSTANTS
  Ids = {1}
  MaxGen = 2
  MaxActive = 1
  MaxScans = 1
  OutCap = 1
  MaxEvents = 1
  MaxReplies = 1
  MaxBursts = 0
SPECIFICATION FairSpec
PROPERTY StallExits
CHECK_DEADLOCK FALSE
