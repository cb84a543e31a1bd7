SPECIFICATION ServicesSpec
CONSTANTS
  Half = 4
  Period = 5
  MaxClocks = 17
  TickWord = 20
  ALT_US = 6
  Rates = {0, 1, 2, 3, 5}
  Times <- GivenTimes
  MaxTicks = 22
  INT_MAX = 7
  PerUs = 2
  Sleeps = {1, 2, 3, 5, 6, 10, 11}
  HeapLimit = 36
  Incrs <- Sizes
  Frames = {4, 12}
  Functions = {f1, f2}
  Callers = {c1}
  Size = 12
  MCOUNT_SLAB_INCREMENT = 24
  PCSAMPLE_BYTES_PER_BUCKET = 2
  TextSizes = {4, 5}
  MaxCalls = 2
  Nibbles = 3
  EchoLen = 3
  FlagLevels <- LogLevels
  LogFifo = 3
  Line = 2
  RingMax = 2
  Interval = 1
  MaxLogTicks = 4
INVARIANTS
  EveryReadingExact
  PrintersCorrect
  TimerExact
  TimeExact
  HeapSound
  
  LogSound
CHECK_DEADLOCK FALSE
