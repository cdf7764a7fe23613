\* Two connections at a time to two hosts, over two interfaces.
SPECIFICATION Spec
CONSTANTS
  Conns = {c1, c2}
  Hosts = {h1, h2}
  NumInterfaces = 2
  Times = {1, 2}
  MaxTurns = 3
INVARIANTS
  BestTaken
  InTurn
CHECK_DEADLOCK FALSE
