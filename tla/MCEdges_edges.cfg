SPECIFICATION Spec
INVARIANTS
  ChoiceIsExact ReplayTellsTheLog TerminalShowsFocus CardsStayAnswerable GateJudgesWhatRuns
PROPERTIES
  WorldFoldsByScan
\* A boot is over, a card answers, and the bounds are used up.
CHECK_DEADLOCK FALSE
