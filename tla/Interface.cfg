\* Shares of three connections, in every order of the list.
SPECIFICATION Spec
CONSTANTS
  Conns = {c1, c2, c3}
  Bandwidth = 6
  MaxDesired = 5
INVARIANTS
  CapacityRespected
  RoundsBounded
PROPERTIES
  NoEnvy
  WorkConserving
  ReturnsShares
