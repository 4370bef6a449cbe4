CONSTANTS
  Ids = {1, 2}
  MaxGen = 2
  MaxActive = 1
  MaxScans = 1
  OutCap = 1
  MaxEvents = 2
  MaxReplies = 1
  MaxBursts = 1
SPECIFICATION FairSpec
INVARIANTS TypeOK IdsOwned
PROPERTIES NewestOnly EveryTaskEnds EofExits
CHECK_DEADLOCK FALSE
