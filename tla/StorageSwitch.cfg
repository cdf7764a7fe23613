\* Two predictions before, between and after the steps of two transfers on two connections.
SPECIFICATION Spec
CONSTANTS
  Conns = {c1, c2}
  Transfers = {t1, t2}
  Iface = Iface
  None = None
  MaxEvents = 3
  MaxPredictions = 2
SYMMETRY Symmetry
INVARIANTS
  OneEvent
  ViewConsistent
  ResultReadable
PROPERTIES
  NoRelapse
  RefinesSnapshot
CHECK_DEADLOCK FALSE
