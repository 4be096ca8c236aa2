SPECIFICATION SequentialSpec
CONSTANTS
  MaxTime = 4
  Offset = 2
  Tolerance = 1
  Length = 3
  Safety = 1
  Lead = 1
  MaxListed = 2
  Urls = {u1, u2, u3, u4, u5}
  MaxHops = 3
  Names <- MCNames
  Rank <- MCRank
  GroupRank <- MCGroupRank
  Ids = {1, 2, 3}
  Indexes <- MCIndexes
  Addresses = {a1, a2}
  Offered <- MCOffered
  MaxChannels = 3
  Sizes = {0, 1, 2, 3}
  MaxAdded = 7
  MaxLength = 6

INVARIANTS
  NearestProgram
  ClockRespected
  ForwardRange
  TimeshiftHolds
  AskedOnce
  AnswerConfirmed
  RestartKeepsList
  NamesTell
  LogIsRecent
  OnlyCommentsGo
\* each part has an end
CHECK_DEADLOCK FALSE
