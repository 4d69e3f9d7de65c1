SPECIFICATION Spec
CONSTANTS
  adsgram = adsgram
  monetag = monetag
  NoProvider = NoProvider
  Users = {u1}
  Fortunes = {f1}
  Keys = {k1, k2}
  Providers = {adsgram, monetag}
  Orders <- AllOrders
  SidProviders = {monetag}
  RewardIdProviders = {monetag}
  ClientRewardEnabled = TRUE
  DailyLimit = 1
  SessionTtl = 1
  EntitlementTtl = 1
  DayLength = 2
  Reported = {"no_fill", "skipped", "cancelled", "verification_failed"}
  Handlers = {h1, h2}
  MaxSessions = 1
  MaxNow = 1
SYMMETRY Symmetry
INVARIANTS
  TypeOK
  AttemptsFollowOrder
  LateRewardEndsInTime
PROPERTIES
  EndedStaysEnded
