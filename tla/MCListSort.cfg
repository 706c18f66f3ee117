CONSTANTS
  N = 12
  Keys = {1, 2}
  M = 7
  TwoTo8 = 3
  NULL = NULL
  LIST_POISON1 = LIST_POISON1
  LIST_POISON2 = LIST_POISON2
SPECIFICATION FairSpec
CHECK_DEADLOCK FALSE
INVARIANTS
  SortedAndStable
  PendingRunsAsDocumented
  MergesAreBalanced
  FirstInInputIsFirstArgument
PROPERTIES
  Returns
