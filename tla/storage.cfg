SPECIFICATION Spec
CONSTANTS
  float64 = float64
  int = int
  chan = chan
  Absent = Absent
  Keys = {k1, k2}
  Values = {float64}
  GoValues = {int}
  BadValues = {chan}
  JsonOf <- GoToJson
  MaxCrashes = 2
  MaxErrors = 1
INVARIANTS OneIntactCopy DiskFollowsMemory
PROPERTIES RecoversUnlessCut
