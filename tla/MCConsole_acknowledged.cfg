SPECIFICATION Spec
CONSTANTS
  Kinds <- OnlyBurn
  Wallets = {w1}
  NoWallet = NoWallet
  Inputs = {i1, i2}
  NoInput = NoInput
  Batches = 1
  MaxQuotes = 2
  MaxMoves = 3
  MaxScans = 1
  MaxLosses = 0
INVARIANTS SubmitsWhatWasAcknowledged
CHECK_DEADLOCK FALSE
