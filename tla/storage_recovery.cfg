SPECIFICATION Spec
CONSTANTS
  float64 = float64
  int = int
  chan = chan
  Absent = Absent
  Keys = {k1}
  Values = {float64}
  GoValues = {int}
  BadValues = {chan}
  JsonOf <- GoToJson
  MaxCrashes = 1
  MaxErrors = 0
PROPERTIES RecoversSaved
