\* Three transfers on two connections; a round trip of half a second, a window of two bytes.
SPECIFICATION Spec
CONSTANTS
  Conns = {c1, c2}
  Transfers = {t1, t2, t3}
  Sizes = {3, 14}
  Bandwidth = 8
  Second = 840
  RTT = 420
  Handshakes = {2}
  IdleTimeout = 1000
  InitialCwnd = 2
  OtherTimes = {1000}
INVARIANTS
  EventToCome
  DoneAtDeadline
  BytesConserved
  WithinCapacity
  NeverOvershoots
PROPERTY RefinesPipelines
CHECK_DEADLOCK FALSE
