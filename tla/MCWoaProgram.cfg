CONSTANTS
  a1 = a1
  a2 = a2
  b1 = b1
  w1 = w1
  w2 = w2
  s1 = s1
  s2 = s2
  Thread = {w1, w2, s1, s2}
  Waiter = {w1, w2}
  Setter = {s1, s2}
  Address = {a1, a2}
  Place <- Places
  Value = {0, 1}
  Bucket = {b1}
  Hash <- OneBucket
  NULL = NULL
SPECIFICATION ProgramSpec
PROPERTIES EveryWaiterPasses WakeTerminates
CHECK_DEADLOCK FALSE
