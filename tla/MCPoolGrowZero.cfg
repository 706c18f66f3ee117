CONSTANTS
  Blocks = {b1, b2}
  Offsets = {0, 1, 2, 3}
  GrowSizes = {0}
  Sizes = {1, 3}
  LinkSize = 2
  MaxObjects = 4
  TwoTo32 = 16
  TwoTo64 = 16
  list_available = list_available
  list_blocks = list_blocks
  NULL = NULL
  LIST_POISON1 = LIST_POISON1
  LIST_POISON2 = LIST_POISON2
SPECIFICATION Spec
INVARIANTS
  HeldAreObjects
