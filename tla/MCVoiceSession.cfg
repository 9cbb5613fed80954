SPECIFICATION Spec
CONSTANTS
  MaxSessions = 3
  MaxRequests = 2
  MaxFaults = 1
INVARIANTS TypeOK HeartbeatsEnd DeafOnlyBySecondAnswer
PROPERTY StopReturns
CHECK_DEADLOCK FALSE
