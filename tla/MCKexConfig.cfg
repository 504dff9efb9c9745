CONSTANTS
  app = app
  tmpl = tmpl
  d1 = d1
  d2 = d2
  u1 = u1
  u2 = u2
  Key = {app, tmpl}
  Template = tmpl
  Tool = {u1, u2}
  Absent = Absent
  Data = {d1, d2}
  Dwords <- OneDword
  KexDll = KexDll
  Foreign = {vrfcore, vfbasics, prefixkexdll}
  Alike = {prefixkexdll}
  Lists = {{vrfcore}, {prefixkexdll}, {vrfcore, vfbasics}}
  Cut = Cut
  Room = 2
  Command = VistaRun
  Debugger = {ntsd, VxKexLdr}
  Legacy = VxKexLdr
  Configuration <- AskedFor
  NoConfiguration = NoConfiguration
  NoStore = NoStore
  MaxCalls = 2
  MaxEdits = 1
SPECIFICATION Spec
SYMMETRY Symmetric
INVARIANTS TypeOK LaunchCommandWorks
PROPERTIES OthersAreKept ImplementsProgramSettings
CHECK_DEADLOCK FALSE
