SPECIFICATION Spec
CONSTANTS
  N = 3
  K = 2
  Laid = {1, 2}
INVARIANTS NoFalseVerdict StraightLinesFound OnlyCarryHides
CHECK_DEADLOCK FALSE
