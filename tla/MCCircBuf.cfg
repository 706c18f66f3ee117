CONSTANTS
  size = 4
  Items = {a, b}
SPECIFICATION BufFairSpec
INVARIANTS
  ClaimsAreApart
PROPERTIES
  KeepsThePromise
  NothingIsStuck
