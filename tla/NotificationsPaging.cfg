SPECIFICATION FairSpec
CONSTANTS
  NumUsers = 3
  Sweeps = {s1}
  SweepBatch = 2
  BudgetMayEnd = FALSE
  Faults = FALSE
  HoursPerDay = 2
  MorningHour = 1
  Friday = 3
  Patches <- OnlyEverything
  InitialPrefs <- Everything
  StartNow = 0
  MaxNow = 1
PROPERTIES EveryReaderConsidered
