SPECIFICATION Spec
CONSTANTS
  adsgram = adsgram
  monetag = monetag
  NoProvider = NoProvider
  Users = {u1, u2}
  Fortunes = {f1}
  Keys = {k1, k2}
  Providers = {adsgram, monetag}
  Orders <- AdsgramOnly
  SidProviders = {adsgram, monetag}
  RewardIdProviders = {adsgram, monetag}
  ClientRewardEnabled = TRUE
  DailyLimit = 2
  SessionTtl = 1
  EntitlementTtl = 1
  DayLength = 2
  Reported = {"skipped"}
  Handlers = {h1, h2}
  MaxSessions = 2
  MaxNow = 0
SYMMETRY Symmetry
INVARIANTS
  OneUnlockPerAd
  NoDoubleReward
  RewardedHasEntitlement
