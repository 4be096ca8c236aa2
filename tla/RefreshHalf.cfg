SPECIFICATION Spec
CONSTANTS
  Manuals = {m1}
  Lineups = {l1}
  MaxPrograms = 3
  Protect = TRUE
  MaxRestarts = 0
  Scheduler = s
  NoLineup = NoLineup
  Free = Free
  RefreshHours = 2
  Hour = 1
  RetryDelay = 2
  BusyDelay = 1

PROPERTIES
  GuideHalfKept
