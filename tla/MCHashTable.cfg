CONSTANTS
  Nodes = {n1, n2, n3}
  Keys = {k1, k2}
  HASH_SIZE = 2
  NULL = NULL
  LIST_POISON1 = LIST_POISON1
  LIST_POISON2 = LIST_POISON2
SPECIFICATION FairSpec
INVARIANTS
  ObjectsAreInTheirBuckets
  LoopsMissNobody
PROPERTIES
  LoopsVisitOnce
  LoopsEnd
