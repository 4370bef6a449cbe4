CONSTANTS
  Dirs = {"p", "p/c"}
  Inside <- MCNested
  NoDir = none
  Rules = rules
  RuleHome = "p"
  Views = {plain}
  Requests = {r1}
  Replaceable = {"p/c"}
  MaxCached = 1
  MaxWatches = 2
  MaxChanges = 2
  MaxEpoch = 1
SPECIFICATION Spec
INVARIANT NothingMissed
CHECK_DEADLOCK FALSE
