SPECIFICATION FairSpec
CONSTANTS
  t1 = t1  t2 = t2  t3 = t3  t4 = t4  t5 = t5  None = None
  Producers = {t1, t2}
  Consumers = {t3}
  Lengths = {0, 1, 2}
  ArenaSize = 3
  QueueSize = 2
  SizeMod = 6
  NoHandle = None
  MaxMessages = 2
CHECK_DEADLOCK FALSE
INVARIANTS ObjectsPlacedOnce RegionsDisjoint MessagesIntact CrossedByOverlap NoUnderflow BestIsBooked AllProcessed 
PROPERTIES MessagesArrive SpreadBounds FinishedOnce
