SPECIFICATION FairSpec
CONSTANTS
  Kinds <- AllKinds
  Wallets = {w1, w2}
  NoWallet = NoWallet
  Inputs = {i1, i2}
  NoInput = NoInput
  Batches = 2
  MaxQuotes = 2
  MaxMoves = 3
  MaxScans = 2
  MaxLosses = 1
INVARIANTS TypeOK OfferFitsForm NothingLeftPrepared
PROPERTIES ApprovalEnds
CHECK_DEADLOCK FALSE
