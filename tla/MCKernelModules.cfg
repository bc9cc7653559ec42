SPECIFICATION KernelSpec
CONSTANTS
  Tasks = {t1, t2}
  NoTask = NoTask
  SMP = TRUE
  OnePerEvent = TRUE
  Bridge = bridge
  Devs = {bridge, platform, broken}
  OF = {bridge}
  Misconfigured = {broken}
  MaxOpens = 2
  Builds <- MCBuilds
  NoBuild = NoBuild
  Requested <- MCRequested
  Mapped <- MCMapped
  Base = 0
  NoPage = 4096
  Spans <- MCSpans
  Readers = {r1, r2}
INVARIANTS
  KernelTypeOK
  DepthTracksFlag
  QuietAfterDisable
  
  RemovalKillsNobody
PROPERTIES
  UnmaskedIsDelivered
