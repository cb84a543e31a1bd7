SPECIFICATION LabSpec
CONSTANTS
  Samples <- AllOnes
  ResetOffsets <- Leftovers
  Acks = {TRUE, FALSE}
  CntMod = 1
  MsgLen = 1
  MaxWrite = 1
  RingCap = 1
  FifoCap = 1
  FifoLow = 0
  HostTimeout = 1
  PromptHost = TRUE
  HostActions = {"read"}
INVARIANTS
  AddressedRegister
  Calibrated
