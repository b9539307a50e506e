CONSTANTS
  NumConsumers = 2
  MaxPart = 2
  MaxPush = 2
  Skip = Skip
  Kinds = {0, 1}
  CrashPoints = {"idle"}
  MaxReaderDeath = 0
SPECIFICATION Spec
INVARIANTS NothingSkipped
