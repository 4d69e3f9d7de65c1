SPECIFICATION Spec
CONSTANTS
  Handlers = {h1, h2}
  h1 = h1
  h2 = h2
  Does <- MCDoes
  Ids = {1, 2, 3, 4}
  Fortunes = {"hafez", "tarot"}
  CatalogOrder <- MCOrder
  RangeDays <- MCRangeDays
  HoursPerDay = 2
  Parts <- MCParts
  Limit = 1
  Notes = {a, b}
  Reflected = {0, 1}
  StartNow = 4
  Stored <- MCStored
  StoredReflections <- MCStoredReflections
  MaxNow = 5
  MaxCalls = 2
  MaxChanges = 2
SYMMETRY NotesAlike
INVARIANTS TypeOK SummaryTellsItsNumbers WalkShowsEachOnce FailedSaveWasRaced
CHECK_DEADLOCK FALSE
