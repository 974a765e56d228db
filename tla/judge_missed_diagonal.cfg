SPECIFICATION Spec
CONSTANTS
  N = 4
  K = 3
  Laid = {1}
INVARIANTS EveryLineEnds
CHECK_DEADLOCK FALSE
