CONSTANTS
  Clients = {a}
  Uris = {u}
  Known = {u}
  Offline = TRUE
  MaxVersion = 2
  MaxShown = 2
  MaxMessages = 3
  MaxClose = 2
  MaxRestart = 1
SPECIFICATION FairSpec
INVARIANTS TypeOK BelievesWhatIsShown
PROPERTIES StaysFresh
