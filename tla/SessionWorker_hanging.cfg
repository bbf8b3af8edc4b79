SPECIFICATION HangingSpec
CONSTANTS
  Clients = {"ui", "other"}
  Commands <- Mortal
  MaxMessages = 1
  MaxAsks = 2
  Faults = {"overflow"}
  MaxRepairs = 1
  MaxTurns = 2
  RetryCap = 0
PROPERTIES
  AbortPreempts
\* An idle session, or one whose worker is done, stops.
CHECK_DEADLOCK FALSE
