SPECIFICATION IOSpec
CONSTANTS
  MaxBoards = 2
  Ports = {p, q}
  None = None
  MaxCycles = 2
  MaxCalls = 3
  Words = 2
  Vals = {0, 1}
  Junk = Junk
  MaxQueue = 2
  MaxWire = 2
INVARIANTS
  IOTypeOK
  SuccessMeansAnswered
  WideOnlyIfProven
  ResetReachesCpld
  NothingLeft
  AllOrNothing
  CurrentUntilTimeout
  WritesApplied
  RefusedWhereMeant
CONSTRAINT InStep
