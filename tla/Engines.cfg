SPECIFICATION Spec
CONSTANTS
  Digest <- MCDigest
  Handlers = {h1, h2}
  h1 = h1
  h2 = h2
  Requests <- MCRequests
  MaxRetries = 1
  Statuses = {429, 401}
  Completions <- MCCompletions
  Files <- MCFiles
  Edition = "edition"
  MaxBreakdownLetters = 2
  MaxCalls = 2
  MaxFaults = 1
  MaxDay = 1
  MaxRestarts = 1
INVARIANTS SameDraw OneCardThroughout OneLanguage DrawnGhazalIsStored
PROPERTIES ImportErrorsAreFresh EveryRequestEnds
CHECK_DEADLOCK FALSE
