SPECIFICATION Spec
CONSTANTS
  Bytes = 2
  Polls = 2
  Delay = 2
  MaxLoads = 2
INVARIANTS
  ResetMeansReady
CHECK_DEADLOCK FALSE
