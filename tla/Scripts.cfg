CONSTANTS
  s1 = s1
  s2 = s2
  d = d
  e = e
  VMs = {"main", "lp"}
  Uris = {d}
  Order <- TwoScripts
  Triggers <- Filters
  LowPriority = {s2}
  Unsafe = {}
  Settings <- Both
  UserPaths <- AnyPath
  MaxLoops = 1
  MaxWrites = 1
  MaxUser = 1
  MaxRecords = 10
  MaxPart = 1
SPECIFICATION FairSpec
INVARIANTS TypeOK OneProcessRuns
PROPERTIES CascadeEnds
CHECK_DEADLOCK FALSE
