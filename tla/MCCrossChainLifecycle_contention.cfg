SPECIFICATION Spec
CONSTANTS
  b1 = b1
  b2 = b2
  s1 = s1
  s2 = s2
  p1 = p1
  p2 = p2
  c1 = c1
  None = None
  Client = p1
  Builds <- TwoBuilds
  Submits <- TwoSubmits
  Polls <- OnePoll
  Closers <- OneCloser
  Underway <- OtherPassage
  SoundProviders = FALSE
  LastValid = 0
  Margin = 0
  MaxHeight = 1
  MaxFaults = 0
CHECK_DEADLOCK FALSE
SYMMETRY RequestSymmetry
INVARIANTS PayerSignsOnce BroadcastOnce BroadcastIsOnRecord
