SPECIFICATION DriverSpec
CONSTANTS
  Tasks = {t1}
  NoTask = NoTask
  SMP = TRUE
  OnePerEvent = FALSE
  Bridge = bridge
  Devs = {bridge, platform, broken}
  OF = {bridge}
  Misconfigured = {broken}
  MaxOpens = 2
INVARIANTS
  DepthTracksFlag
