SPECIFICATION Spec
CONSTANTS
  p1 = p1
  a1 = a1
  s1 = s1
  s2 = s2
  q1 = q1
  None = None
  Prepares <- OnePrepare
  Aborts <- OneAbort
  Submits <- TwoSubmits
  Polls <- OnePoll
  Disciplined = FALSE
  SoundObservation = FALSE
  AccountLag = TRUE
  LastValid = 1
  PrepareMargin = 1
  SubmitMargin = 1
  MaxHeight = 2
  MaxFaults = 0
SYMMETRY SubmitSymmetry
VIEW View
CHECK_DEADLOCK FALSE
INVARIANTS PayerSignsOnce BroadcastIsPersisted ReconciledIsOnChain
