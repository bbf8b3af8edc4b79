SPECIFICATION CompactionSpec
CONSTANTS
  Windows = {8}
  Sizes = {2, 3}
  Outputs = {1}
  UrgentReserve = 4
  KeepTail = 2
  MinSupportedWindow = 8
  ViolationRetryCap = 0
  MaxPasses = 2
  MaxEntries = 4
  MaxDoors = 3
INVARIANT CutChildIsMet
CHECK_DEADLOCK FALSE
