SPECIFICATION Spec
CONSTANTS
  Handlers = {h1, h2}
  Instances = {i1, i2}
  h1 = h1
  h2 = h2
  i1 = i1
  i2 = i2
  Does <- MCDoes
  FlagRows = {Null, FALSE}
  InstanceOf <- MCInstanceOf
  Offset <- MCOffset
  Null = Null
  Telegrams <- MCTelegrams
  Devices <- MCDevices
  Edits <- MCEdits
  Clean <- MCClean
  Refused = "refused"
  NoMonth = "no month"
  TicksPerSecond = 2
  Ttl = 1
  Skew = 1
  FlagTtl = 2
  FlagDefault = TRUE
  MaxNow = 3
  MaxCalls = 3
  MaxFaults = 1
INVARIANTS OneUserPerIdentity FlagLagsByItsTtl TokenLivesAsTold
PROPERTY ConfirmedProfileKept
CHECK_DEADLOCK FALSE
