SPECIFICATION FairSpec
CONSTANTS
  u1 = u1
  hafez = hafez
  tarot = tarot
  e1 = e1
  k1 = k1
  NoUnlock = NoUnlock
  NoKey = NoKey
  Users = {u1}
  Fortunes = {hafez, tarot}
  Unlocks = {e1}
  Keys = {k1}
  Requests <- GatedRequests
  Allowance <- OneFree
  EnforceAccessLimits = TRUE
  Faults = {"count", "record"}
  Handlers = {h1, h2, h3}
  MaxReadings = 4
  MaxDay = 0
INVARIANTS
  UnlockAccounted
PROPERTIES
  ImplementsUnlock
