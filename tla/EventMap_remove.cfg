SPECIFICATION Spec
CONSTANTS
  n1 = n1
  n2 = n2
  n3 = n3
  n4 = n4
  Sum = Sum
  Ratio = Ratio
  Missing = Missing
  Sets = {s1}
  NoSet = NoSet
  Natives = {n1, n2, n3, n4}
  NoNative = NoNative
  Presets <- MCPresets
  NumCounters = 2
  MaxNatives = 3
  Faults = {}
  Offered = {n1, n2}
  AnyOrder = TRUE
SYMMETRY MCSymmetry
INVARIANTS
  CountersServeEvents
