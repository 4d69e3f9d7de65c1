SPECIFICATION Spec
CONSTANTS
  u1 = u1
  hafez = hafez
  tarot = tarot
  e1 = e1
  k1 = k1
  NoUnlock = NoUnlock
  NoKey = NoKey
  Users = {u1}
  Fortunes = {hafez, tarot}
  Unlocks = {e1}
  Keys = {k1}
  Requests <- MixedRequests
  Allowance <- OneFree
  EnforceAccessLimits = TRUE
  Faults = {"crash", "restore", "count", "record", "lost_reply"}
  Handlers = {h1, h2}
  MaxReadings = 4
  MaxDay = 1
SYMMETRY Symmetry
INVARIANTS
  AnswersMatchRequests
  CountedAfterSuccess
  OvershootBounded
PROPERTIES
  RecordsAreFinal
