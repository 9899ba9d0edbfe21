SPECIFICATION Spec
CONSTANTS
  Procs = {p1, p2}
  NoProc = NoProc
  NumCores = 2
  Denied = {}
  MaxInstances = 3
  Settings <- MCWindows
INVARIANTS
  ReadyMeansProgrammed
