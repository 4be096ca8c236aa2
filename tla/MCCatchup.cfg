SPECIFICATION FairSpec
CONSTANTS
  MaxId = 2
  MaxCalls = 2
  MaxRefreshes = 2
  Callers = {r1, r2}
  Keys = {k1, k2}
  NoUrl = NoUrl
  ResolvePlayURL = TRUE

INVARIANTS
  UrlsBelong
  AnswersBelong
  FallbackIsFresh
PROPERTIES
  RequestEnds
