SPECIFICATION LabFairSpec
CONSTANTS
  Samples <- TwoSamples
  ResetOffsets <- PoweredUp
  Acks = {TRUE}
  CntMod = 4
  MsgLen = 1
  MaxWrite = 1
  RingCap = 1
  FifoCap = 1
  FifoLow = 0
  HostTimeout = 1
  PromptHost = TRUE
  HostActions = {"read"}
INVARIANTS
  StableReading
  LabelMatchesDisplay
PROPERTIES
  PressCountedOnce
  RefreshGoesOn
