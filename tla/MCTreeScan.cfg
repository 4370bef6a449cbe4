CONSTANTS
  Root = root
  Sub = sub
  MaxRequests = 3
  MaxChanges = 1
  MaxCalls = 2
SPECIFICATION FairSpec
INVARIANTS TypeOK ScansAnswerable CacheCurrent
PROPERTIES OnlyCurrentScan TreeSettles
CHECK_DEADLOCK FALSE
