SPECIFICATION FairSpec
CONSTANTS
  ali = ali
  k1 = k1
  NoKey = NoKey
  Users = {ali}
  Keys = {k1}
  Debits <- AnyCost
  StarterCoins = 1
  Handlers = {h1, h2, h3}
  MaxLedger = 5
INVARIANTS
  LedgerIsTruth
  NeverOverdrawn
  MovedOncePerReason
  OneStarterPerUser
PROPERTIES
  EveryCallEnds
