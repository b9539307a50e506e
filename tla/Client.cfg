SPECIFICATION Spec
CONSTANTS
  Tabs = {"t1", "t2"}
  Uris = {"a", "b"}
  Settings <- SomeSettings
INVARIANTS TypeOK SyncedIsStored TextKept ShownIsDraft
CHECK_DEADLOCK FALSE
