CONSTANTS
  Widths = {32, 64}
  Few = 2
  TableBits = {1, 8}
SPECIFICATION Spec
CHECK_DEADLOCK FALSE
INVARIANTS
  EmulationsAgree
  LoopsVisitEachBit
  HashesFitTheTable
  StringHashesAgree
