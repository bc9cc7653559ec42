SPECIFICATION RequestsSpec
CONSTANTS
  Addr = {r1, r2}
  Data = {z, w}
  Zero = z
  Setup = 4
  WriteWait = 2
  ReadWait = 2
  Hold = 2
  PwmReg = r1
  BissReg = r2
  MinFast = 1
INVARIANTS
  RequestsTypeOK
  WritesLand
  LoadTaken
  PopTaken
PROPERTY
  ReadsAreCurrent
