CONSTANTS
  Blocks = {b1, b2, b3}
  Offsets = {0, 1, 2, 3, 4, 6, 7, 8, 14}
  GrowSizes = {1, 2, 3}
  Sizes = {1, 3, 7, 8}
  LinkSize = 2
  MaxObjects = 4
  TwoTo32 = 16
  TwoTo64 = 16
  list_available = list_available
  list_blocks = list_blocks
  NULL = NULL
  LIST_POISON1 = LIST_POISON1
  LIST_POISON2 = LIST_POISON2
SPECIFICATION FairSpec
INVARIANTS
  TypeOK
  EveryObjectAccountedFor
  ListsAreLinked
  ObjectsDoNotOverlap
  DestroyTouchesLiveMemory
PROPERTIES
  HeldObjectsLeftAlone
  KeepsThePromise
  CallsReturn
