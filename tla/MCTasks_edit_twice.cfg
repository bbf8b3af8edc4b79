SPECIFICATION Spec
CONSTANTS
  MaxLines = 2
  MaxEvents = 2
  Windows = {8, 12}
  Sizes = {4}
  Outputs = {1}
  UrgentReserve = 4
  KeepTail = 2
  MinSupportedWindow = 8
  ViolationRetryCap = 1
  MaxPasses = 3
  MaxEntries = 3
  MaxDoors = 2
  Exts = {1, 2}
  Items = {1}
  Owner <- OwnerOf
  Asking = {1}
  Faulty = {1}
  Procs = {1, 2, 3}
  Children = {3}
  MaxVersion = 2
  MaxBoots = 2
  MaxSpoils = 1
  Threads = {"main", "reader"}
  Main = "main"
  Files = {"boot", "stored"}
  BootFile = "boot"
  NewIds = {"n1", "n2"}
  Providers = {"p"}
  MaxCommands = 2
  Tasks = {"t1", "t2", "t3"}
  MaxClaims = 4
\* A tool call may be over, a boot may be over, a process down, an edge exit, the bounds be used up.
INVARIANT AlikeLandOnce
CHECK_DEADLOCK FALSE
