CONSTANTS
  a1 = a1
  a2 = a2
  b1 = b1
  Thread = {t1, t2, t3, t4}
  Address = {a1, a2}
  Value = {0, 1}
  Bucket = {b1}
  Hash <- OneBucket
  NULL = NULL
SPECIFICATION Spec
INVARIANTS TypeOK MemorySafe OffListIsSignalled RingIsWholeList
PROPERTIES WakeFindsWaiters ImplementsQueues
SYMMETRY ThreadSymmetry
CHECK_DEADLOCK FALSE
