SPECIFICATION AnsweringSpec
CONSTANTS
  Clients = {"ui"}
  Commands <- Closing
  MaxMessages = 1
  MaxAsks = 2
  Faults = {"persist", "overflow", "stop"}
  MaxRepairs = 1
  MaxTurns = 2
  RetryCap = 0
INVARIANTS
  TypeOK
  NoLostWakeup
  RunsAreTold
PROPERTIES
  Watermark
  CloseServesAndEnds
  MessagesGetTheirFate
  IntentIsServed
\* An idle session, or one whose worker is done, stops.
CHECK_DEADLOCK FALSE
