SPECIFICATION Spec
CONSTANTS
  NumUsers = 1
  Sweeps = {s1, s2}
  SweepBatch = 1
  BudgetMayEnd = TRUE
  Faults = TRUE
  HoursPerDay = 2
  MorningHour = 1
  Friday = 3
  Patches <- RacePatches
  InitialPrefs <- Everything
  StartNow = 5
  MaxNow = 7
INVARIANTS NoDuplicateMessage CapOvershootBounded
