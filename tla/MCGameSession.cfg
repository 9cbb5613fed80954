SPECIFICATION SessionSpec
CONSTANTS
  App = app
  Socket = socket
  Putters = {app, socket}
  Cap = 1
  MaxPuts = 4
  MaxBreaks = 2
  CanSpeak = TRUE
INVARIANTS SessionTypeOK OneVoiceSession NeverPopsEmpty
PROPERTIES ListIsFifo MicAsAsked  
CHECK_DEADLOCK FALSE
