\* As TcpConnection.cfg; connections that leave slow start on an interface with bandwidth to spare.
SPECIFICATION Spec
CONSTANTS
  Conns = {c1, c2}
  Transfers = {t1, t2, t3}
  Sizes = {3, 14}
  Bandwidth = 8
  Second = 840
  RTT = 420
  Handshakes = {2}
  IdleTimeout = 1000
  InitialCwnd = 2
  OtherTimes = {1000}
PROPERTY LeavesSlowStartWhenFull
CHECK_DEADLOCK FALSE
