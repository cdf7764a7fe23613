\* All recordings of four transfers with times up to 3.
SPECIFICATION Spec
CONSTANTS
  N = 4
  MaxTime = 3
INVARIANTS
  NeverPopsEmpty
  DependsOnLastFinished
  ParentsComeFirst
