SPECIFICATION Spec
CONSTANTS
  NoEvent = NoEvent
  FpIns = FpIns
  FpOps = FpOps
  TotIns = TotIns
  TotCyc = TotCyc
  RefCyc = RefCyc
  Codes <- MCCodes
  Countable <- MCCodes
  NumCounters = 3
  Faults = {"start"}
  Requests <- MCRequests
  Lengths <- MCLengths
  EpcChoices <- MCEpcChoices
  MaxWork = 2
PROPERTY StartCountsRequest
