SPECIFICATION FairSpec
CONSTANTS
  Requests = {r1, r2}
  Refreshers = {f1}
  Bases = {b1, b2}
  NoBase = NoBase
  Free = Free
  TTL = 2
  Horizon = 3

INVARIANTS
  BaseSaved
  RetryOnNewSession
PROPERTIES
  NoHealthySessionDropped
  RequestsReturn
