\* Two connections over both interfaces; round trips of half a second and a second.
SPECIFICATION Spec
CONSTANTS
  wifi = wifi
  lte = lte
  Conns = {c1, c2}
  Transfers = {t1, t2, t3}
  Interfaces <- MCInterfaces
  Paths <- MCPaths
  Sizes = {3, 14}
  Bandwidth <- MCBandwidth
  RTT <- MCRTT
  Second = 840
  Handshakes = {2}
  IdleTimeout = 1000
  InitialCwnd = 2
  OtherTimes = {1000}
INVARIANTS
  EventsToCome
  SharesAddUp
  DoneAtDeadline
  BytesConserved
  WithinBandwidth
PROPERTIES
  RefinesPipelines
  AllFlowsJoin
CHECK_DEADLOCK FALSE
