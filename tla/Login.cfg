SPECIFICATION FairSpec
CONSTANTS
  Callers = {f1, f2}
  Pages = {p1, p2, e1, e2}
  Entries = {e1, e2}
  Fallbacks = {x1}
  Bases = {b1, b2}
  NoUrl = NoUrl
  NoBase = NoBase
  Free = Free
  MaxHops = 4
  Horizon = 2

INVARIANTS
  FirstEntryTaken
  RequestsBounded
PROPERTIES
  ImplementsSession
  LoginsReturn
