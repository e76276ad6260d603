CONSTANTS
  a = a
  b = b
  bad = bad
  Url = {a, b, bad}
  Malformed = {bad}
  NoUrl = NoUrl
  Unreadable = Unreadable
  Contents <- SomeContents
  MaxEdits = 4
SPECIFICATION FairSpec
INVARIANTS
  TypeOK
  OneTaskPerUrl
  NoReloadLost
PROPERTIES
  ReloadApplied
CHECK_DEADLOCK FALSE
