SPECIFICATION Spec
CONSTANTS
  Clients = {"ui", "other"}
  Commands <- TwoThreads
  MaxMessages = 2
  MaxAsks = 2
  Faults = {"agent", "stop"}
  MaxRepairs = 0
  MaxTurns = 1
  RetryCap = 0
PROPERTIES
  ImplementsLedger
  QueuedBeforeFate
\* An idle session, or one whose worker is done, stops.
CHECK_DEADLOCK FALSE
