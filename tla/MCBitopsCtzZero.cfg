CONSTANTS
  Widths = {32, 64}
  Few = 2
SPECIFICATION Spec
CHECK_DEADLOCK FALSE
INVARIANTS
  CtzIsOfNonZero
