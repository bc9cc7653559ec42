SPECIFICATION FairSpec
CONSTANTS
  rsize = 3
  asize = 4
  lowbits = 1
  Rates <- MCRates
  Loads = {}
  None = None
  PulseTimes = {1, 2}
  DirTimes = {0, 2}
INVARIANTS
  TypeOK
  StepIsSafe
  StepsFollowAccumulator
PROPERTIES
  HoldAndWidth
  KeepsStepping
