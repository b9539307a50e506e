CONSTANTS
  Docs = {d1, d2, d3}
  s1 = s1
  s2 = s2
  Scopes = {s1, s2}
  Ids = {i1, i2, i3, i4, i5, i6, i7, i8}
  FirstValue = 1
  Settings <- AllSettings
  MaxSave = 5
SPECIFICATION Spec
INVARIANTS TypeOK Apart SentIsSeen AllNumbered UniqueIfGentle
PROPERTIES ScopeIsSet
CHECK_DEADLOCK FALSE
