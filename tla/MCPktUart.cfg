SPECIFICATION LinkSpec
CONSTANTS
  W = 2
  Depth = 4
  Slots = 2
  Delays = {0, 1}
  Frames <- MCFrames
  Pad = "pad"
  Unread = 2
  Patient = TRUE
  MaxFrames = 3
  MaxClears = 1
INVARIANT
  HalvesAgree
PROPERTIES
  FramesArrive
  EveryFrameArrives
