CONSTANTS
  Dirs = {"p", "p/c"}
  Inside <- MCNested
  NoDir = none
  Rules = rules
  RuleHome = "p"
  Views = {plain}
  Requests = {r1}
  Replaceable = {"p/c"}
  MaxCached = 1
  MaxWatches = 2
  MaxChanges = 2
  MaxEpoch = 1
SPECIFICATION FairSpec
INVARIANTS TypeOK StaleImpliesPending
PROPERTIES FreshSpec StaleDropped
CHECK_DEADLOCK FALSE
