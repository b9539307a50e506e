SPECIFICATION Spec
CONSTANTS
  Net <- SmallNets
  Inputs <- SmallInputs
  Users = {"ann", "bob"}
  Settings <- OnlyPair
INVARIANT NextOnce
CHECK_DEADLOCK FALSE
