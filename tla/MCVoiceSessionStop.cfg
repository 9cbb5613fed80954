SPECIFICATION Spec
CONSTANTS
  MaxSessions = 2
  MaxRequests = 2
  MaxFaults = 1
PROPERTY Reconnects
CHECK_DEADLOCK FALSE
