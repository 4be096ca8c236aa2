SPECIFICATION FairSpec
CONSTANTS
  Streams = {s1, s2, s3}
  Slots = 1
  Buffer = 1
  MaxPackets = 3

INVARIANTS
  SlotsHeld
  SessionsBounded
  Answered
  DecodedDelivered
PROPERTIES
  SlotFreed
