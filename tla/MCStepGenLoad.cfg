SPECIFICATION Spec
CONSTANTS
  rsize = 3
  asize = 4
  lowbits = 1
  Rates <- MCRates
  Loads = {0, 2, 5}
  None = None
  PulseTimes = {1, 2}
  DirTimes = {0, 2}
INVARIANTS
  NoStepOnLoad
