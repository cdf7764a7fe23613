\* The global limit the README states does not hold.
SPECIFICATION Spec
CONSTANTS
  o1 = o1
  o2 = o2
  N = 4
  Origins <- MCOrigins
  Pages <- MCPages4
  GLOBAL_LIMIT = 2
  HOST_LIMIT = 2
INVARIANT GlobalLimit
