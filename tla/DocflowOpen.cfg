SPECIFICATION Spec
CONSTANTS
  Net <- SmallNets
  Inputs <- SmallInputs
  Users = {"ann", "bob"}
  Settings <- OnlyAsk
INVARIANT ProcessCompleted
CHECK_DEADLOCK FALSE
