SPECIFICATION LabFairSpec
CONSTANTS
  Samples <- OneSample
  ResetOffsets <- Leftovers
  Acks = {TRUE}
  CntMod = 1
  MsgLen = 2
  MaxWrite = 2
  RingCap = 2
  FifoCap = 2
  FifoLow = 1
  HostTimeout = 2
  PromptHost = FALSE
  HostActions = {"read", "ping", "plug"}
INVARIANTS
  EntryFindsWork
  NoStrandedBytes
PROPERTIES
  HangIsPermanent
  InterruptsServed
