\* Two connections whose first windows carry a quarter of the bandwidth, with as many bytes to send
\* as half the bandwidth carries in a round trip.
SPECIFICATION Spec
CONSTANTS
  Conns = {c1, c2}
  Transfers = {t1, t2}
  Sizes = {4, 6}
  Bandwidth = 8
  Second = 840
  RTT = 840
  Handshakes = {2}
  IdleTimeout = 2000
  InitialCwnd = 2
  OtherTimes = {}
INVARIANT NeverOvershoots
CHECK_DEADLOCK FALSE
