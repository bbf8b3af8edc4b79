SPECIFICATION Spec
CONSTANTS
  Models = {m1}
  MaxNodes = 4
  MaxCalls = 2
  MaxRecords = 6
  AskOpenTargets = TRUE
  CrashCuts = {"boundary", "torn"}
  TruncateMayFail = FALSE
INVARIANTS
  TypeOK
  NoOrphan
  FileIsTheSession
  NoticeTracksDegraded
PROPERTIES
  DurableNeverLost
  ImplementsDurableLog
