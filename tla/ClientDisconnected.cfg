CONSTANTS
  Builds = {TRUE}
  MaxAttempts = 1
  None <- NoAttempt
SPECIFICATION FairSpec
PROPERTIES DisconnectedStays
CHECK_DEADLOCK FALSE
