CONSTANTS
  MaxSearches = 2
  Totals = {1, 5}
  BATCH_SIZE = 2
  CHANNEL = 1
  MAX_SEARCH_RESULTS = 5
  DEFAULT_SEARCH_RESULTS = 3
  FilterMaxResults = 5
  MAX_CONCURRENT_SCANS = 1
  Capacity = 1
SPECIFICATION FairSpec
INVARIANTS TypeOK WalkersBounded FilterComplete
PROPERTIES QuickfixOfNewest CancelFreesPermit FilterEnds
CHECK_DEADLOCK FALSE
