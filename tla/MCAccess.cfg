SPECIFICATION PatientSpec
CONSTANTS
  t1 = t1
  t2 = t2
  d1 = d1
  d2 = d2
  r1 = r1
  Tokens <- TwoTokens
  Deliveries <- TwoDeliveries
  Requests <- OneRequest
  ChallengeLimit = 2
  RouteLimit = 1
  TokenLife = 1
  LockLife = 1
  Window = 2
  MaxRepeats = 1
  BrowserLife = 1
  WalletLife = 1
INVARIANTS TokenBuysOneSession
PROPERTIES GateOpens
