SPECIFICATION FairSpec
CONSTANTS
  N = 4
  Workers = {w1, w2, w3}

INVARIANTS
  NoSendOnClosed
PROPERTIES
  PromiseKept
  FetchEnds
\* a cancelled pool may hang, and a pool that is done has no step left
CHECK_DEADLOCK FALSE
