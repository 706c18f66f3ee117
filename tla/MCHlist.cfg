CONSTANTS
  Heads = {h1, h2, h3}
  Nodes = {n1, n2, n3, n4, n5, n6}
  NULL = NULL
  LIST_POISON1 = LIST_POISON1
  LIST_POISON2 = LIST_POISON2
SYMMETRY Interchangeable
SPECIFICATION Spec
INVARIANTS
  Represents
  TestsAnswerForTheList
PROPERTIES
  FreeNodesLeftAlone
