SPECIFICATION FairSpec
CONSTANTS
  NoEvent = NoEvent
  FpIns = FpIns
  FpOps = FpOps
  TotIns = TotIns
  TotCyc = TotCyc
  RefCyc = RefCyc
  Typo = Typo
  Codes <- MCCodes
  Names <- MCNames
  Countable <- MCNoRefCyc
  NumCounters = 3
  Faults = {"init", "add", "start"}
  Uninit = FALSE
  Profilers = {"event"}
  EventRequests <- MCEvents
  EpcRequests <- MCEpcEvents
  Happens = {"error", "other", "catch", "nest"}
  MaxDepth = 3
  MaxWork = 3
INVARIANTS
  OneOwner
PROPERTIES
  CountersComeBack
