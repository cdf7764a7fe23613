\* Every page of four transfers on two hosts; limits low enough to be reached.
SPECIFICATION FairSpec
CONSTANTS
  o1 = o1
  o2 = o2
  N = 4
  Origins <- MCOrigins
  Pages <- MCPages4
  GLOBAL_LIMIT = 2
  HOST_LIMIT = 2
INVARIANTS
  TypeOK
  BookkeepingConsistent
  PipelinesConsistent
  AssertionsHold
  HostLimit
  NoLostWakeup
  AllFinishedAtEnd
PROPERTIES
  EvictBeforeOpening
  NoOvertaking
  RefinesPageLoad
