SPECIFICATION LogSpec
CONSTANTS
  Sizes = {1, 2}
  MaxAdded = 6

INVARIANTS
  NewestKept
