CONSTANTS
  Ops = {o1}
  MaxRestarts = 1
  MaxStarts = 3
  MaxCalls = 3
SPECIFICATION Spec
INVARIANT OneDaemon
CHECK_DEADLOCK FALSE
