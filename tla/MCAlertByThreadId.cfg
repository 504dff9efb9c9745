CONSTANTS
  o1 = o1
  o2 = o2
  o3 = o3
  Object = {o1, o2, o3}
  Foreign = {o3}
  Tid = {i1, i2, i3}
  NULL = NULL
SPECIFICATION FairSpec
INVARIANTS TypeOK StateNamesItsThread WaiterKeepsState
PROPERTIES AlertNotLost AlertReachesItsId AlertWakes DeadIdsAreReleased
