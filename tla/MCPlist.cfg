CONSTANTS
  Heads = {h1, h2}
  Nodes = {n1, n2, n3, n4, n5}
  Prios = {1, 2, 3}
  NULL = NULL
  LIST_POISON1 = LIST_POISON1
  LIST_POISON2 = LIST_POISON2
SYMMETRY Interchangeable
SPECIFICATION Spec
INVARIANTS
  PrioListJoinsTheLeaders
  QueuesAreLinked
PROPERTIES
  KeepsThePromise
  RequeueIsDelAndAdd
