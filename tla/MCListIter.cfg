CONSTANTS
  TheHead = TheHead
  Items = {n1, n2, n3, n4}
  NULL = NULL
  LIST_POISON1 = LIST_POISON1
  LIST_POISON2 = LIST_POISON2
SPECIFICATION IterFairSpec
INVARIANTS
  LoopsMissNobody
PROPERTIES
  TurnsTakeUpEntries
  LoopsEnd
