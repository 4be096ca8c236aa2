SPECIFICATION Spec
CONSTANTS
  Requests = {r1, r2}
  Refreshers = {f1}
  Bases = {b1}
  NoBase = NoBase
  Free = Free
  TTL = 2
  Horizon = 2

SYMMETRY RequestSymmetry
INVARIANTS
  RetryAfterRelogin
