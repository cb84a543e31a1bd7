SPECIFICATION BusSpec
CONSTANTS
  Samples <- BusSample
  ResetOffsets <- BusOffsets
  Answers = {TRUE, FALSE}
  Stretches = {0, 50}
  ClkFreq = 20000000
  SclSpeed = 400000
  Pointed = {30, 51}
  Values = {12}
  MaxRestarts = 0
  AgeCap = 26
INVARIANTS
  LinesFramed
  BusNeverLost
PROPERTIES
  CallsAsPromised
  FastModeTiming
