\* A connection can get more than its congestion window allows.
SPECIFICATION Spec
CONSTANTS
  Conns = {c1, c2, c3}
  Bandwidth = 6
  MaxDesired = 5
PROPERTY CappedByDesired
