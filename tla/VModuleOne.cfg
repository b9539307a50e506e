CONSTANTS
  NumConsumers = 1
  MaxPart = 2
  MaxPush = 2
  Skip = Skip
  Kinds = {0, Skip}
  CrashPoints = {"half"}
  MaxReaderDeath = 1
SPECIFICATION FairSpec
INVARIANTS TypeOK NothingSkipped PopsOwnRecord NoneBetweenConsumers
PROPERTIES EveryRecordRead
