SPECIFICATION MCSpec
CONSTANTS
  BufLen = 3
  FifoCap = 1
  FifoLow = 0
  MaxCount = 2
  DefaultTimeout = 2
  IntMax = 4
  Chars = 6
INVARIANTS
  SentInOrder
  ReceivedInOrder
  ReceiverArmed
PROPERTIES
  TransmitsAsConsole
  CallsReturn
