SPECIFICATION FairSpec
CONSTANTS
  Net <- SmallNets
  Inputs <- SmallInputs
  Users = {"ann", "bob"}
  Settings <- SomeSettings
INVARIANTS TypeOK LeftByAll DecisionIsResult NextOnceIfCalm JoinFiresOnce StopLeavesNoForm
CHECK_DEADLOCK FALSE
PROPERTIES StopHolds FormEnds
