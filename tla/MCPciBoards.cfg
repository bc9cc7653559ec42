SPECIFICATION BoardsSpec
CONSTANTS
  a = a
  b = b
  c = c
  Devs = {a, b, c}
  None = None
  UnknownSubsystem = {c}
  UnknownDevice = {}
  HM2_PCI_MAX_BOARDS = 2
  Bridge <- MCBridge
  Bytes = 2
  Polls = 1
  Delay = 1
INVARIANTS
  BoardsTypeOK
  OwnSlot
  NothingLeft
  BoardsRun
PROPERTIES
  ProbesEnd
