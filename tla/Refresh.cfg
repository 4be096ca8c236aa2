SPECIFICATION FairSpec
CONSTANTS
  Manuals = {m1, m2}
  Lineups = {l1}
  MaxPrograms = 3
  Protect = TRUE
  MaxRestarts = 1
  Scheduler = s
  NoLineup = NoLineup
  Free = Free
  RefreshHours = 2
  Hour = 1
  RetryDelay = 2
  BusyDelay = 1

INVARIANTS
  OneRefresh
  MemoryIsStored
  StatusErrorHonest
PROPERTIES
  GuideProtected
  FreshGuideKept
  StaleGuideTried
  ImplementsGuide
