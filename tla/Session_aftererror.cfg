SPECIFICATION Spec
CONSTANTS
  NoEvent = NoEvent
  FpIns = FpIns
  FpOps = FpOps
  TotIns = TotIns
  TotCyc = TotCyc
  RefCyc = RefCyc
  Typo = Typo
  Codes <- MCCodes
  Names <- MCNames
  Countable <- MCCodes
  NumCounters = 3
  Faults = {}
  Uninit = FALSE
  Profilers = {"FLOP"}
  EventRequests <- MCFewEvents
  EpcRequests <- MCEpcEvents
  Happens = {"error"}
  MaxDepth = 1
  MaxWork = 3
INVARIANT CountersReleased
