CONSTANTS
  root = root
  child1 = child1
  child2 = child2
  Process = {root, child1, child2}
  Root = root
  NULL = NULL
  Params = {"default", "own", "off"}
  DisableForChild = {"off"}
  DefaultParams = "default"
  Images <- Programs
  OsBits = 64
  Vista = TRUE
  MaxFaults = 1
SPECIFICATION FairSpec
INVARIANT RemainsAreRemoved
CHECK_DEADLOCK FALSE
