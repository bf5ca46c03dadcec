SPECIFICATION PollSpec
CONSTANTS
  p1 = p1
  a1 = a1
  s1 = s1
  s2 = s2
  q1 = q1
  None = None
  Prepares <- OnePrepare
  Aborts <- OneAbort
  Submits <- OneSubmit
  Polls <- OnePoll
  Disciplined = TRUE
  SoundObservation = TRUE
  AccountLag = FALSE
  LastValid = 2
  PrepareMargin = 2
  SubmitMargin = 1
  MaxHeight = 3
  MaxFaults = 2
CHECK_DEADLOCK FALSE
INVARIANTS ReleasedIsSettled FailedNeverLands
PROPERTIES SettledIsFinal SubmittedIsSettled
