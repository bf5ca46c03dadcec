SPECIFICATION PollSpec
CONSTANTS
  p1 = p1
  p2 = p2
  a1 = a1
  s1 = s1
  s2 = s2
  q1 = q1
  None = None
  Prepares <- OnePrepare
  Aborts <- OneAbort
  Submits <- OneSubmit
  Polls <- OnePoll
  Disciplined = TRUE
  AccountLag = FALSE
  LastValid = 1
  PrepareMargin = 1
  SubmitMargin = 1
  MaxHeight = 2
  MaxFaults = 2
CHECK_DEADLOCK FALSE
INVARIANTS FailedNeverLands
PROPERTIES KeepsPromise SubmittedIsSettled
