CONSTANTS
  s1 = s1
  s2 = s2
  d = d
  e = e
  VMs = {"main"}
  Uris = {d}
  Order <- TwoScripts
  Triggers <- Filters
  LowPriority = {}
  Unsafe = {}
  Settings <- OneFail
  UserPaths <- NoPath
  MaxLoops = 1
  MaxWrites = 1
  MaxUser = 1
  MaxRecords = 3
  MaxPart = 0
SPECIFICATION Spec
PROPERTIES WrittenIsStored
CHECK_DEADLOCK FALSE
