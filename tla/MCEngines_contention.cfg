SPECIFICATION Spec
CONSTANTS
  p1 = p1
  p2 = p2
  a1 = a1
  s1 = s1
  s2 = s2
  q1 = q1
  None = None
  Prepares <- OnePrepare
  Aborts <- NoAbort
  Submits <- TwoSubmits
  Polls <- OnePoll
  Disciplined = FALSE
  AccountLag = TRUE
  LastValid = 0
  PrepareMargin = 0
  SubmitMargin = 0
  MaxHeight = 1
  MaxFaults = 0
SYMMETRY Symmetry
VIEW View
CHECK_DEADLOCK FALSE
INVARIANTS PayerSignsOnce BroadcastIsPersisted ReconciledIsOnChain
