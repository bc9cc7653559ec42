SPECIFICATION LinkSpec
CONSTANTS
  W = 2
  Depth = 4
  Slots = 2
  Delays = {0}
  Frames <- MCFrames
  Pad = "pad"
  Unread = 2
  Patient = FALSE
  MaxFrames = 3
  MaxClears = 1
INVARIANTS
  EnabledWhileData
