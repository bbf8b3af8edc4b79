SPECIFICATION Spec
CONSTANTS
  l1 = l1  l2 = l2
  Lanes = {l1, l2}
  Watchers = {l1}
  MaxMisses = 1
  Speaks <- MCSpeaks
  MaxFrames <- MCMaxFrames
  n1 = n1  n2 = n2  n3 = n3  n4 = n4
  Nodes = {n1, n2, n3, n4}
  Nets <- MCNets
  Budget = 4
  MaxLines = 3
  Children = {1}
  Wedged = {1}
  Calls = {k1, k2, k3}
  Ids = {id}
  MaxIdle = 1
  MaxAge = 2
  Invocations = {1, 2}
  Loads <- MCLoads
  MaxInbox = 1
INVARIANTS
  FramesReachOnce ChildrenAreOurs
PROPERTIES
  WireSettles
\* Every process may die, every boot and every call is over in the end.
CHECK_DEADLOCK FALSE
