SPECIFICATION Spec
CONSTANTS
  primary = primary
  fallback = fallback
  Provider <- MCProvider
  LastValid = 3
  Floor = 2
  MaxRounds = 2
  MaxHeight = 4
  MaxErrors = 1
CHECK_DEADLOCK FALSE
INVARIANTS SuccessSound ExpiredOnlyByRace
PROPERTIES ExpiredNeverLandsLater EventuallyDecided
