SPECIFICATION Spec
CONSTANTS
  Procs = {p1, p2, p3}
  NoProc = NoProc
  NumCores = 2
  Denied = {p3}
  MaxInstances = 3
  Settings <- MCSettings
INVARIANTS
  TypeOK
  InstancesCovered
  ProgrammedWhenSerial
  CountBelievable
PROPERTIES
  InitEnds
