CONSTANTS
  States = {s1, s2}
  Lengths = {0, 1, 5, 15, 31, 33}
  MaxLen = 2
  TwoTo32 = 31
SPECIFICATION Spec
INVARIANTS
  StatesFollowTheInput
  DigestsAgree
