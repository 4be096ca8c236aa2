SPECIFICATION Spec
CONSTANTS
  MaxId = 2
  MaxCalls = 2
  MaxRefreshes = 1
  Callers = {r1, r2}
  Keys = {k1, k2}
  NoUrl = NoUrl
  ResolvePlayURL = TRUE

SYMMETRY CallerSymmetry
INVARIANTS
  ServedAsListed
