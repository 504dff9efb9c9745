CONSTANTS
  Entry = {"", "kex", "a", "bb", "long", "b/", "a0bb"}
  Empty = ""
  KexDir = "kex"
  Torn = "torn"
  Cch <- Cchs
  Normal <- Normals
  SearchCch = 5
  Thread = {t1, t2}
  MainThread = t1
  Module <- Modules
  Exe = "exe"
  Kernel = "kernel32"
  Ntdll = "ntdll"
  KxNt = "kxnt"
  KxBase = "kxbase"
  Advapi = "advapi32"
  Imports <- ImportTables
  Origin <- Directory
  Special <- Known
  File <- Files32
  Own <- OwnFiles
  Redirects <- DllRedirects
  Requests <- Asked
  Loads <- AskedByDllMain
  Settings <- Processes
  MaxFaults = 1
SPECIFICATION Spec
CONSTRAINT FollowedToStart
INVARIANTS TypeOK LoadsAgree
PROPERTIES PathIsKept
CHECK_DEADLOCK FALSE
