SPECIFICATION FairSpec
CONSTANTS
  Conns = {c1, c2}
  Https = {h1}
  Deadline = 2

INVARIANTS
  StoreOutlivesHandlers
  Answered
PROPERTIES
  Exits
\* the process stops
CHECK_DEADLOCK FALSE
