SPECIFICATION Spec
CONSTANTS
  Half = 2
  Ports = {a, b}
  Pins = {p}
INVARIANTS
  TypeOK
  DrivenOnlyIfEnabled
PROPERTIES
  BiteOnTime
  NoEarlyBite
