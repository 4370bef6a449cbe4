CONSTANTS
  Ops = {o1}
  MaxRestarts = 1
  MaxStarts = 3
  MaxCalls = 3
SPECIFICATION FairSpec
INVARIANTS TypeOK OnlyNestedLost CapsOfCurrent BreakerHolds
PROPERTIES OnlyWantedStarts PromiseKept StopEnds OpsEnd
CHECK_DEADLOCK FALSE
