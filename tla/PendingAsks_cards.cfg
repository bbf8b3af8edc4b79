SPECIFICATION Spec
CONSTANTS
  Asks = {a1, a2}
  Frontends = {f1, f2}
INVARIANTS
  OneAnswerOneSettle
  PendingIsReachable
PROPERTIES
  CardsClose
\* Everything may be asked, answered and swept.
CHECK_DEADLOCK FALSE
