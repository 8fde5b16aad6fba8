CONSTANTS
  Builds = {TRUE, FALSE}
  MaxAttempts = 2
  None <- NoAttempt
SPECIFICATION FairSpec
INVARIANTS TypeOK ConnectedIsCurrent NoStalePayload EventsMakeSense
PROPERTIES LossIsNoticed ConnectingEnds AbandonedIsClosed
CHECK_DEADLOCK FALSE
