CONSTANTS
  Repos = {1, 2}
  RootRepos <- MCRootRepos
  Flaky = {2}
  MaxRequests = 2
  MaxChanges = 1
  MaxCalls = 2
SPECIFICATION FairSpec
INVARIANTS TypeOK MarksOfOneAnswer CallbacksEnd
PROPERTY MarksSettle
CHECK_DEADLOCK FALSE
