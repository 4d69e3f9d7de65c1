SPECIFICATION FairSpec
CONSTANTS
  adsgram = adsgram
  monetag = monetag
  NoProvider = NoProvider
  User = u1
  Fortune = tarot
  Providers = {adsgram, monetag}
  Orders <- TwoNetworks
  SidProviders = {monetag}
  RewardIdProviders = {}
  ClientRewardEnabled = TRUE
  DailyLimit = 2
  Allowance = 0
  EnforceAccessLimits = FALSE
  Faults = {"record"}
  ClientHandlers = {1, 2}
  NetworkHandler = network
  ReadingHandlers = {1, 2}
  MaxWatches = 2
  MaxKeys = 2
  MaxReadings = 2
  MaxLost = 1
INVARIANTS
  UnlockIsFresh
  NoSecondAdAfterReward
  ClaimIsHonest
  EachReadingShownOnce
PROPERTIES
  PageComesBack
