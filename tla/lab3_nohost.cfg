SPECIFICATION LabFairSpec
CONSTANTS
  Samples <- OneSample
  ResetOffsets <- Leftovers
  Acks = {TRUE}
  CntMod = 1
  MsgLen = 1
  MaxWrite = 1
  RingCap = 1
  FifoCap = 1
  FifoLow = 0
  HostTimeout = 1
  PromptHost = FALSE
  HostActions = {}
PROPERTIES
  RefreshGoesOn
