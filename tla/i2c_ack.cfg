SPECIFICATION BusSpec
CONSTANTS
  Samples <- BusSample
  ResetOffsets <- BusOffsets
  Answers = {TRUE}
  Stretches = {0}
  ClkFreq = 10
  SclSpeed = 1
  Pointed = {51}
  Values = {12}
  MaxRestarts = 1
  AgeCap = 0
INVARIANT
  AckMeansHeard
