CONSTANTS
  u = u
  p = p
  Uris = {u, p}
  AclUris = {p}
  Settings <- AllSettings
  MaxCrash = 1
SPECIFICATION Spec
INVARIANTS TypeOK PartIsHistory AnswerIsOwn QueuedButLast TransactionIsRequest WaitedIsApplied
PROPERTIES NoLostUpdate StoreIsLog
