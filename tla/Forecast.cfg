\* Decisions about three transfers on two connections at most.
SPECIFICATION ForecastSpec
CONSTANTS
  Conns = {c1, c2}
  Transfers = {t1, t2, t3}
  Sizes = {3, 14}
  Bandwidth = 8
  Second = 840
  RTT = 420
  Handshakes = {2}
  IdleTimeout = 1000
  InitialCwnd = 2
  OtherTimes = {}
PROPERTIES
  DecisionReached
  ForecastComesTrue
CHECK_DEADLOCK FALSE
