CONSTANTS
  Dirs = {"p", "q"}
  Inside <- MCUnrelated
  NoDir = none
  Rules = rules
  RuleHome = "p"
  Views = {plain}
  Requests = {r1}
  Replaceable = {}
  MaxCached = 1
  MaxWatches = 2
  MaxChanges = 2
  MaxEpoch = 2
SPECIFICATION Spec
INVARIANT WatchedListingFresh
CHECK_DEADLOCK FALSE
