CONSTANTS
  a1 = a1
  a2 = a2
  b1 = b1
  Thread = {t1, t2, t3}
  Address = {a1, a2}
  Value = {0}
  Bucket = {b1}
  Hash <- OneBucket
  NULL = NULL
SPECIFICATION Spec
PROPERTY WakeAllWakesAll
SYMMETRY ThreadSymmetry
CHECK_DEADLOCK FALSE
