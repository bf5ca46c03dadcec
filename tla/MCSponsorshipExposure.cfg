SPECIFICATION Spec
CONSTANTS
  t1 = t1
  t2 = t2
  t3 = t3
  w1 = w1
  w2 = w2
  burn = burn
  claim = claim
  Transaction <- MCTransaction
  Wallet <- MCWallet
  Action <- MCAction
  WalletOf <- MCWalletOf
  ActionOf <- MCActionOf
  Cost <- MCCost
  GlobalCap = 3
  WalletCap = 3
  PerTransactionCap = 2
  Window = 3
  MaxTime = 8
CHECK_DEADLOCK FALSE
INVARIANTS TypeOK CapRespected NoPhantomExposure CountsItsOwn
