SPECIFICATION PollSpec
CONSTANTS
  b1 = b1
  b2 = b2
  s1 = s1
  s2 = s2
  p1 = p1
  p2 = p2
  c1 = c1
  None = None
  Client = p1
  Builds <- OneBuild
  Submits <- OneSubmit
  Polls <- TwoPolls
  Closers <- NoCloser
  Underway <- OnePassage
  SoundProviders = TRUE
  LastValid = 0
  Margin = 0
  MaxHeight = 1
  MaxFaults = 1
CHECK_DEADLOCK FALSE
INVARIANTS ReleasedIsSettled FailedNeverLeaves
PROPERTIES FailureOutlastsPolls CompletedIsReconciled
