CONSTANTS
  root = root
  child1 = child1
  child2 = child2
  Process = {root, child1, child2}
  Root = root
  NULL = NULL
  Params = {"default", "own", "off"}
  DisableForChild = {"off"}
  DefaultParams = "default"
  Images <- Programs
  OsBits = 64
  Vista = TRUE
  MaxFaults = 2
SPECIFICATION FairSpec
INVARIANTS TypeOK OpenKeyWorks PropagationIsComplete OptOutIsKept
PROPERTIES ChildWaits EveryChildStarts
CHECK_DEADLOCK FALSE
