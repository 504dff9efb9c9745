CONSTANTS
  w1 = w1
  w2 = w2
  r1 = r1
  t1 = t1
  t2 = t2
  Writer = {w1, w2}
  Reader = {r1}
  Thread = {t1, t2}
  NoThread = NoThread
  NoReader = NoReader
  NoRecord = NoRecord
  Severity = {"error", "debug"}
  Name = {"cx", "cy", "f", "h", "hh"}
  Fits = {"cx", "cy", "f", "h"}
  NoName = "none"
  Truncated <- CutNames
  Place <- Places
  TableSize <- Sizes
  App = {"VxKex"}
  NoApp = NoApp
  Disposition = {"OPEN", "OVERWRITE_IF"}
  Filters <- AllOrSome
  ExactLimit = 3
  Stray <- AnEntry
  MaxWrites = 3
  MaxFaults = 1
SPECIFICATION ViewSpec
SYMMETRY Symmetric
INVARIANTS ViewTypeOK CountersAccount DirtyWhileWritten LookupIsExact
PROPERTIES ImplementsAppendLog OpenedLogIsWhole
CHECK_DEADLOCK FALSE
