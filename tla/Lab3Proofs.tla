----------------------------- MODULE Lab3Proofs -----------------------------
(***************************************************************************)
(* Proofs about Lab3, for every set of samples, every size of the buffers  *)
(* and of the message, and every width of the counter.                     *)
(***************************************************************************)
EXTENDS Lab3, Arithmetic

----------------------------------------------------------------------------
(* Console, for every size of the ring, of the FIFO and of the writes.     *)

(* What the copy moves fits in the ring and comes from what was left.      *)
LEMMA CopyArithmetic ==
  ASSUME ConsoleTypeOK, WriteCopy
  PROVE  ring' \in 0..RingCap /\ left' \in 0..MaxWrite
<1>1. ring \in 0..RingCap /\ left \in 0..MaxWrite
  BY DEF ConsoleTypeOK
<1>2. CASE left = 0 \/ ring = RingCap
  BY <1>1, <1>2 DEF WriteCopy
<1>3. CASE ~(left = 0 \/ ring = RingCap)
  <2>1. PICK n \in 1..Least(left, RingCap - ring) :
          ring' = ring + n /\ left' = left - n
    BY <1>3 DEF WriteCopy
  <2>. QED BY <1>1, <2>1, ConsoleAssumption, SMT DEF Least
<1>. QED BY <1>2, <1>3

(* What the interrupt moves comes from the ring and fits in the FIFO; if   *)
(* anything stays behind, the FIFO is full.                                *)
LEMMA IrqArithmetic ==
  ASSUME ConsoleTypeOK, UartIrq
  PROVE  /\ ring' \in 0..RingCap /\ fifo' \in 0..FifoCap
         /\ ring' > 0 => we'
         /\ ring' < RingCap
         /\ we' \in BOOLEAN
<1>. DEFINE space == FifoCap - fifo
            n == Least(ring, space)
<1>1. /\ ring \in 0..RingCap /\ fifo \in 0..FifoCap /\ fifo <= FifoLow
      /\ ring' = ring - n /\ fifo' = fifo + n
      /\ we' = (n = space)
  BY DEF ConsoleTypeOK, UartIrq, TxIrq
<1>2. /\ ring' \in 0..RingCap /\ fifo' \in 0..FifoCap
      /\ ring' > 0 => n = space
      /\ ring' < RingCap
  BY <1>1, ConsoleAssumption, SMT DEF Least
<1>. QED BY <1>1, <1>2

(* The count of inactive seconds stays below its ceiling.                  *)
LEMMA TimeoutArithmetic ==
  ASSUME ConsoleTypeOK, UartTimeout
  PROVE  hostInactive' \in 0..HostTimeout
<1>. DEFINE more == IF hostInactive < HostTimeout THEN hostInactive + 1
                    ELSE hostInactive
<1>1. hostInactive \in 0..HostTimeout /\ hostInactive' \in {0, more}
  BY DEF ConsoleTypeOK, UartTimeout
<1>2. 0 \in 0..HostTimeout /\ more \in 0..HostTimeout
  BY <1>1, ConsoleAssumption, SMT
<1>. QED BY <1>1, <1>2

(* Every operation of the driver and of the host keeps the counts in range.*)
LEMMA ConsoleTypeStep ==
  ASSUME ConsoleTypeOK, ConsoleNext \/ UNCHANGED consoleVars
  PROVE  ConsoleTypeOK'
<1>1. ASSUME NEW count \in 1..MaxWrite, WriteCall(count) PROVE ConsoleTypeOK'
  <2>1. count \in 0..MaxWrite
    BY ConsoleAssumption, SMT
  <2>. QED BY <1>1, <2>1 DEF ConsoleTypeOK, WriteCall
<1>2. CASE WriteCopy
  BY <1>2, CopyArithmetic DEF ConsoleTypeOK, WriteCopy
<1>10. CASE WriteKick
  BY <1>10 DEF ConsoleTypeOK, WriteKick
<1>3. CASE WriteSpin
  BY <1>3 DEF ConsoleTypeOK, WriteSpin
<1>4. CASE UartIrq
  BY <1>4, IrqArithmetic DEF ConsoleTypeOK, UartIrq
<1>5. CASE UartTimeout
  BY <1>5, TimeoutArithmetic DEF ConsoleTypeOK, UartTimeout
<1>6. CASE HostRead
  <2>1. fifo \in 0..FifoCap /\ fifo > 0 /\ fifo' = fifo - 1
    BY <1>6 DEF ConsoleTypeOK, HostRead
  <2>2. fifo' \in 0..FifoCap
    BY <2>1, ConsoleAssumption, SMT
  <2>. QED BY <1>6, <2>2 DEF ConsoleTypeOK, HostRead
<1>7. CASE HostPing
  BY <1>7 DEF ConsoleTypeOK, HostPing
<1>8. CASE HostPlug
  BY <1>8 DEF ConsoleTypeOK, HostPlug
<1>9. CASE UNCHANGED consoleVars
  BY <1>9 DEF ConsoleTypeOK, consoleVars
<1>. QED
  BY <1>1, <1>2, <1>3, <1>4, <1>5, <1>6, <1>7, <1>8, <1>9, <1>10
  DEF ConsoleNext, Caller

ConsoleInv == ConsoleTypeOK /\ NoStrandedBytes

(* A call enables the transmit interrupt last; the interrupt routine       *)
(* disables it only over an empty ring.                                    *)
LEMMA ConsoleInvStep ==
  ASSUME ConsoleInv, ConsoleNext \/ UNCHANGED consoleVars
  PROVE  ConsoleInv'
<1>. USE DEF ConsoleInv, NoStrandedBytes
<1>0. ConsoleTypeOK'
  BY ConsoleTypeStep
<1>1. ASSUME NEW count \in 1..MaxWrite, WriteCall(count)
      PROVE  NoStrandedBytes'
  BY <1>1 DEF WriteCall
<1>2. CASE WriteCopy
  BY <1>0, <1>2 DEF WriteCopy
<1>10. CASE WriteKick
  BY <1>0, <1>10 DEF WriteKick
<1>3. CASE WriteSpin
  BY <1>0, <1>3 DEF WriteSpin
<1>4. CASE UartIrq
  BY <1>0, <1>4, IrqArithmetic DEF UartIrq
<1>5. CASE UartTimeout
  BY <1>0, <1>5 DEF UartTimeout
<1>6. CASE HostRead
  BY <1>0, <1>6 DEF HostRead
<1>7. CASE HostPing
  BY <1>0, <1>7 DEF HostPing
<1>8. CASE HostPlug
  BY <1>0, <1>8 DEF HostPlug
<1>9. CASE UNCHANGED consoleVars
  BY <1>0, <1>9 DEF consoleVars
<1>. QED
  BY <1>0, <1>1, <1>2, <1>3, <1>4, <1>5, <1>6, <1>7, <1>8, <1>9, <1>10
  DEF ConsoleNext, Caller

(* The UART driver never leaves characters in its ring without the         *)
(* interrupt that takes them out enabled.                                  *)
THEOREM ConsoleCorrect == ConsoleSpec => [](ConsoleTypeOK /\ NoStrandedBytes)
<1>1. ConsoleInit => ConsoleInv
  <2>1. 0 \in 0..RingCap /\ 0 \in 0..FifoCap /\ 0 \in 0..HostTimeout
        /\ 0 \in 0..MaxWrite /\ ~(0 > 0)
    BY ConsoleAssumption, SMT
  <2>. QED
    BY <2>1 DEF ConsoleInit, ConsoleInv, ConsoleTypeOK, NoStrandedBytes
<1>2. ConsoleInv /\ [ConsoleNext]_consoleVars => ConsoleInv'
  BY ConsoleInvStep
<1>3. ConsoleInv => ConsoleTypeOK /\ NoStrandedBytes
  BY DEF ConsoleInv
<1>. QED BY <1>1, <1>2, <1>3, PTL DEF ConsoleSpec

----------------------------------------------------------------------------
(* Types.                                                                  *)

(* main's six calls, one by one.                                           *)
LEMMA OffsetCallFacts ==
  /\ Len(OffsetCalls) = 6
  /\ \A i \in 1..6 : /\ OffsetCalls[i].reg \in OffsetRegs
                     /\ OffsetCalls[i].data \in Byte
  /\ OffsetCalls[4].reg = OFSX /\ OffsetCalls[4].data = 6
  /\ OffsetCalls[5].reg = OFSX + 1 /\ OffsetCalls[5].data = 6
  /\ OffsetCalls[6].reg = OFSX + 2 /\ OffsetCalls[6].data = 12
<1>1. /\ Len(OffsetCalls) = 6
      /\ OffsetCalls[1] = [reg |-> OFSX, data |-> 0]
      /\ OffsetCalls[2] = [reg |-> OFSX + 1, data |-> 0]
      /\ OffsetCalls[3] = [reg |-> OFSX + 2, data |-> 0]
      /\ OffsetCalls[4] = [reg |-> OFSX, data |-> 6]
      /\ OffsetCalls[5] = [reg |-> OFSX + 1, data |-> 6]
      /\ OffsetCalls[6] = [reg |-> OFSX + 2, data |-> 12]
  BY SMT DEF OffsetCalls
<1>2. OFSX \in OffsetRegs /\ OFSX + 1 \in OffsetRegs /\ OFSX + 2 \in OffsetRegs
  BY SMT DEF OffsetRegs, OFSX
<1>3. 0 \in Byte /\ 6 \in Byte /\ 12 \in Byte
  BY SMT DEF Byte
<1>. QED BY <1>1, <1>2, <1>3, SMT

(* The byte numbers of irq_timer and the registers they stand for.         *)
LEMMA DataRegFacts ==
  ASSUME NEW b \in 1..6
  PROVE  /\ DataReg(b) \in DataRegs
         /\ ByteAxis(b) \in Axes
         /\ (DataReg(b) - DATAX0) \div 2 = ByteAxis(b)
         /\ DataReg(b) % 2 = 0 <=> b % 2 = 1
         /\ b % 2 = 1 => b < 6 /\ ByteAxis(b + 1) = ByteAxis(b)
         /\ b % 2 = 0 => \A a \in Axes : a < ByteAxis(b + 1) <=> a <= ByteAxis(b)
BY SMT DEF DataReg, DataRegs, DATAX0, ByteAxis, Axes

LEMMA CntAxis ==
  ASSUME NEW c \in Nat
  PROVE  c % 3 \in Axes
BY SMT DEF Axes

(* Whatever is on the bus, a driver call reads a byte.                     *)
LEMMA ReadByteType ==
  ASSUME AccelTypeOK
  PROVE  ReadByte \in Byte
<1>0. 255 \in Byte
  BY SMT DEF Byte
<1>1. CASE sel = "read" /\ ptr \in DataRegs
  <2>. DEFINE axis == (ptr - DATAX0) \div 2
  <2>1. axis \in Axes
    BY <1>1, SMT DEF DataRegs, DATAX0, Axes
  <2>2. sample[axis] \in Word
    BY <2>1, SamplesAssumption DEF AccelTypeOK
  <2>3. ReadByte = IF ptr % 2 = 0 THEN sample[axis] % 256 ELSE sample[axis] \div 256
    <3>1. ptr \notin OffsetRegs
      BY <1>1, SMT DEF DataRegs, DATAX0, OffsetRegs, OFSX
    <3>. QED BY <1>1, <3>1 DEF ReadByte
  <2>. QED BY <2>2, <2>3, SplitCombine
<1>2. CASE sel = "read" /\ ptr \in OffsetRegs /\ ptr \notin DataRegs
  <2>1. ptr - OFSX \in Axes
    BY <1>2, SMT DEF OffsetRegs, OFSX, Axes
  <2>. QED BY <1>2, <2>1 DEF ReadByte, AccelTypeOK
<1>3. CASE ~(sel = "read" /\ ptr \in DataRegs \cup OffsetRegs)
  BY <1>0, <1>3 DEF ReadByte
<1>. QED BY <1>1, <1>2, <1>3

----------------------------------------------------------------------------
(* Types                                                                   *)

(* Every driver call and every new sample keep the registers in range.     *)
LEMMA AccelTypeStep ==
  ASSUME AccelTypeOK,
         \/ NewSample
         \/ \E read, ack \in BOOLEAN : I2C_start(read, ack)
         \/ \E b \in Byte, last \in BOOLEAN : I2C_write(b, last)
         \/ I2C_read_last
         \/ UNCHANGED accelVars
  PROVE  AccelTypeOK'
<1>0. \A r \in Byte : NextReg(r) \in Byte
  <2>1. \A r \in Registers : r \in Byte
    BY SMT DEF Registers, OffsetRegs, DataRegs, OFSX, DATAX0, OtherReg, Byte
  <2>. QED BY <2>1 DEF NextReg, Registers
<1>1. CASE NewSample
  BY <1>1 DEF AccelTypeOK, NewSample
<1>2. ASSUME NEW read \in BOOLEAN, NEW ack \in BOOLEAN, I2C_start(read, ack)
      PROVE  AccelTypeOK'
  BY <1>2 DEF AccelTypeOK, I2C_start, Selections
<1>3. ASSUME NEW b \in Byte, NEW last \in BOOLEAN, I2C_write(b, last)
      PROVE  AccelTypeOK'
  <2>1. ptr' \in Byte
    BY <1>0, <1>3 DEF AccelTypeOK, I2C_write
  <2>2. ofs' \in [Axes -> Byte]
    BY <1>3 DEF AccelTypeOK, I2C_write
  <2>. QED BY <1>3, <2>1, <2>2 DEF AccelTypeOK, I2C_write, Selections
<1>4. CASE I2C_read_last
  BY <1>0, <1>4 DEF AccelTypeOK, I2C_read_last, Selections
<1>5. CASE UNCHANGED accelVars
  BY <1>5 DEF AccelTypeOK, accelVars
<1>. QED BY <1>1, <1>2, <1>3, <1>4, <1>5

(* A step of the system is, for the console, one of its own steps.         *)
LEMMA ConsoleStepOfLab ==
  ASSUME ConsoleTypeOK, [LabNext]_vars
  PROVE  ConsoleNext \/ UNCHANGED consoleVars
<1>1. CASE PrintLine
  BY <1>1, Lab3Assumption DEF PrintLine, ConsoleNext, Caller
<1>2. CASE Writing
  <2>1. left > 0 => left \in 1..MaxWrite
    <3>1. left \in 0..MaxWrite
      BY DEF ConsoleTypeOK
    <3>. QED BY <3>1, ConsoleAssumption, SMT
  <2>. QED BY <1>2, <2>1 DEF Writing, ConsoleNext, Caller
<1>3. CASE ServeUart \/ ServeSystemClock \/ HostActs
  BY <1>3 DEF ServeUart, ServeSystemClock, HostActs, ConsoleNext
<1>4. CASE MainStep
  BY <1>4 DEF MainStep, InitDevices, SendStart, SendRegister, SendData,
              RegisterTimer, RegisterButton
<1>5. CASE TimerExpires \/ ButtonMoves \/ SampleChanges
  BY <1>5 DEF TimerExpires, ButtonMoves, SampleChanges
<1>6. CASE TakeIrq \/ ReturnFromIrq \/ CountPress \/ ClearEdge
           \/ BeginReading
  BY <1>6 DEF TakeIrq, ReturnFromIrq, CountPress, ClearEdge, BeginReading
<1>7. CASE \/ ReadStart("start", "reg", FALSE) \/ ReadRegister
           \/ ReadStart("restart", "read", TRUE) \/ ReadData
  BY <1>7 DEF ReadStart, ReadRegister, ReadData
<1>8. CASE Convert \/ PrintDone \/ Show \/ AckTimer
  BY <1>8 DEF Convert, PrintDone, Show, AckTimer
<1>9. CASE UNCHANGED vars
  BY <1>9 DEF vars
<1>. QED
  BY <1>1, <1>2, <1>3, <1>4, <1>5, <1>6, <1>7, <1>8, <1>9
  DEF LabNext, IrqStep, World

(* A step of the system is, for the chip, a driver call or a new sample.   *)
LEMMA AccelStepOfLab ==
  ASSUME LabTypeOK, [LabNext]_vars
  PROVE  AccelTypeOK'
<1>0. AccelTypeOK /\ call \in 1..6 /\ byte \in 1..6
  BY OffsetCallFacts DEF LabTypeOK
<1>1. CASE SendStart
  BY <1>0, <1>1, AccelTypeStep, Lab3Assumption DEF SendStart
<1>2. CASE SendRegister
  <2>1. OffsetCalls[call].reg \in Byte
    <3>1. \A r \in OffsetRegs : r \in Byte
      BY SMT DEF OffsetRegs, OFSX, Byte
    <3>. QED BY <1>0, <3>1, OffsetCallFacts
  <2>. QED BY <1>0, <1>2, <2>1, AccelTypeStep DEF SendRegister
<1>3. CASE SendData
  BY <1>0, <1>3, OffsetCallFacts, AccelTypeStep DEF SendData
<1>4. CASE ReadStart("start", "reg", FALSE) \/ ReadStart("restart", "read", TRUE)
  BY <1>0, <1>4, AccelTypeStep, Lab3Assumption DEF ReadStart
<1>5. CASE ReadRegister
  <2>1. DataReg(byte) \in Byte
    <3>1. \A r \in DataRegs : r \in Byte
      BY SMT DEF DataRegs, DATAX0, Byte
    <3>. QED BY <1>0, <3>1, DataRegFacts
  <2>. QED BY <1>0, <1>5, <2>1, AccelTypeStep DEF ReadRegister
<1>6. CASE ReadData
  BY <1>0, <1>6, AccelTypeStep DEF ReadData
<1>7. CASE SampleChanges
  BY <1>0, <1>7, AccelTypeStep DEF SampleChanges
<1>8. CASE InitDevices \/ RegisterTimer \/ RegisterButton
  BY <1>0, <1>8, AccelTypeStep DEF InitDevices, RegisterTimer, RegisterButton
<1>9. CASE TimerExpires \/ ButtonMoves \/ HostActs \/ UNCHANGED vars
  BY <1>0, <1>9, AccelTypeStep DEF TimerExpires, ButtonMoves, HostActs, vars
<1>10. CASE \/ TakeIrq \/ ReturnFromIrq \/ ServeUart \/ ServeSystemClock
            \/ CountPress \/ ClearEdge \/ BeginReading
  BY <1>0, <1>10, AccelTypeStep
  DEF TakeIrq, ReturnFromIrq, ServeUart, ServeSystemClock, CountPress,
      ClearEdge, BeginReading
<1>11. CASE Convert \/ PrintLine \/ Writing \/ PrintDone \/ Show \/ AckTimer
  BY <1>0, <1>11, AccelTypeStep
  DEF Convert, PrintLine, Writing, PrintDone, Show, AckTimer
<1>. QED
  BY <1>1, <1>2, <1>3, <1>4, <1>5, <1>6, <1>7, <1>8, <1>9, <1>10, <1>11
  DEF LabNext, MainStep, IrqStep, World

(* The rest of the state, the chip's and the console's left out.           *)
OwnTypeOK ==
  /\ mpc \in {"init", "start", "reg", "data", "regTimer", "regButton", "loop"}
  /\ call \in 1..6
  /\ ipc \in {"none", "entry", "next", "clear", "convert", "print", "write",
              "show", "ack"} \cup Reads
  /\ byte \in 1..6
  /\ ienable \subseteq {UART_IRQ, PIO_IRQ, TIMER_IRQ}
  /\ timerIsr \in {"alt_avalon_timer_sc_irq", "irq_timer"}
  /\ tmo \in BOOLEAN /\ irqMask \in BOOLEAN /\ edgeCap \in BOOLEAN
  /\ armed \in BOOLEAN
  /\ cnt \in 0..(CntMod - 1)
  /\ acc \in [Axes -> MilliG]
  /\ seg \in [Axes -> Shown]
  /\ pio \in Shown
  /\ label \in Axes
  /\ seen \subseteq Samples
  /\ nackMain \in BOOLEAN /\ nackIsr \in BOOLEAN /\ fresh \in BOOLEAN

LEMMA TypeParts == LabTypeOK <=> AccelTypeOK /\ ConsoleTypeOK /\ OwnTypeOK
BY OffsetCallFacts DEF LabTypeOK, OwnTypeOK

LEMMA NumberFacts ==
  /\ \A c \in 0..(CntMod - 1) : c \in Nat /\ c % 3 \in Axes
                                /\ (c + 1) % CntMod \in 0..(CntMod - 1)
  /\ \A w \in Word : w \in MilliG
  /\ \A b \in Byte : b \in Word
  /\ \A b \in 1..6 : b < 6 => b + 1 \in 1..6
<1>1. CntMod \in Nat \ {0}
  BY Lab3Assumption
<1>2. \A c \in 0..(CntMod - 1) : c \in Nat /\ c % 3 \in Axes
                                /\ (c + 1) % CntMod \in 0..(CntMod - 1)
  BY <1>1, SMT DEF Axes
<1>3. \A w \in Word : w \in MilliG
  BY SMT DEF Word, MilliG
<1>4. \A b \in Byte : b \in Word
  BY SMT DEF Byte, Word
<1>5. \A b \in 1..6 : b < 6 => b + 1 \in 1..6
  BY SMT
<1>. QED BY <1>2, <1>3, <1>4, <1>5

(* The words are assembled byte by byte, and only words are converted.     *)
LEMMA WordsStep ==
  ASSUME LabTypeOK, WordsAssembled, [LabNext]_vars
  PROVE  WordsAssembled'
<1>0. AccelTypeOK /\ OwnTypeOK
  BY TypeParts
<1>. USE DEF WordsAssembled
<1>1. CASE /\ UNCHANGED << acc, byte >>
           /\ ipc' \in Reads => ipc \in Reads
           /\ ipc' # "convert" \/ ipc = "convert"
  BY <1>1
<1>2. CASE ipc' \notin Reads \cup {"convert"}
  BY <1>2
<1>3. CASE BeginReading
  <2>1. \A a \in Axes : ~(a < ByteAxis(1))
    BY SMT DEF Axes, ByteAxis
  <2>2. 1 % 2 # 0
    BY SMT
  <2>. QED BY <1>3, <2>1, <2>2 DEF BeginReading
<1>4. CASE ReadData
  <2>. DEFINE a == ByteAxis(byte)
  <2>1. a \in Axes /\ ReadByte \in Byte /\ byte \in 1..6 /\ ipc = "read"
        /\ acc \in [Axes -> MilliG]
    BY <1>0, <1>4, DataRegFacts, ReadByteType DEF OwnTypeOK, ReadData, Isr
  <2>2. CASE byte % 2 = 1
    <3>1. /\ ipc' = "start" /\ byte' = byte + 1
          /\ acc' = [acc EXCEPT ![a] = ReadByte]
          /\ ByteAxis(byte + 1) = a
      BY <1>4, <2>1, <2>2, DataRegFacts DEF ReadData, Isr
    <3>2. ~(a < a)
      BY <2>1, SMT DEF Axes
    <3>. QED BY <2>1, <3>1, <3>2 DEF Reads
  <2>3. CASE byte % 2 = 0
    <3>1. /\ acc' = [acc EXCEPT ![a] = Combine(acc[a], ReadByte)]
          /\ IF byte < 6 THEN ipc' = "start" /\ byte' = byte + 1
                         ELSE ipc' = "convert"
          /\ \A c \in Axes : c < ByteAxis(byte + 1) <=> c <= a
      <4>1. ~(byte % 2 = 1)
        BY <2>3, SMT
      <4>. QED BY <1>4, <2>1, <2>3, <4>1, DataRegFacts DEF ReadData, Isr
    <3>2. /\ Combine(acc[a], ReadByte) \in Word
          /\ \A c \in Axes : c < a => acc[c] \in Word
      BY <2>1, <2>3, CombineType DEF Reads
    <3>3. \A c \in Axes : c <= a => acc'[c] \in Word
      <4>1. \A c \in Axes : c <= a => c = a \/ c < a
        BY <2>1, SMT DEF Axes
      <4>. QED BY <2>1, <3>1, <3>2, <4>1
    <3>4. CASE byte < 6
      <4>1. (byte + 1) % 2 # 0
        BY <2>1, <2>3, SMT
      <4>. QED BY <3>1, <3>3, <3>4, <4>1
    <3>5. CASE ~(byte < 6)
      <4>1. \A c \in Axes : c <= a
        BY <2>1, <3>5, SMT DEF Axes, ByteAxis
      <4>2. acc' \in [Axes -> Word]
        BY <2>1, <3>1, <3>3, <4>1
      <4>. QED BY <3>1, <3>5, <4>2 DEF Reads
    <3>. QED BY <3>4, <3>5
  <2>4. byte % 2 = 0 \/ byte % 2 = 1
    BY <2>1, SMT
  <2>. QED BY <2>2, <2>3, <2>4
<1>5. CASE MainStep
  BY <1>5, <1>1
  DEF MainStep, InitDevices, SendStart, SendRegister, SendData, RegisterTimer,
      RegisterButton, Main, irqVars, appVars
<1>6. CASE World
  BY <1>6, <1>1
  DEF World, TimerExpires, ButtonMoves, SampleChanges, HostActs, labVars,
      irqVars, appVars
<1>7. CASE \/ TakeIrq \/ ReturnFromIrq \/ ServeUart \/ ServeSystemClock
           \/ CountPress \/ ClearEdge
  BY <1>7, <1>2
  DEF TakeIrq, ReturnFromIrq, ServeUart, ServeSystemClock, CountPress,
      ClearEdge, Reads
<1>8. CASE \/ ReadStart("start", "reg", FALSE) \/ ReadRegister
           \/ ReadStart("restart", "read", TRUE)
  BY <1>8, <1>1 DEF ReadStart, ReadRegister, Isr, Reads, appVars
<1>9. CASE Convert \/ PrintLine \/ Writing \/ PrintDone \/ Show \/ AckTimer
  BY <1>9, <1>2
  DEF Convert, PrintLine, Writing, PrintDone, Show, AckTimer, Isr, Reads,
      irqVars
<1>10. CASE UNCHANGED vars
  BY <1>10, <1>1 DEF vars, irqVars, appVars
<1>. QED
  BY <1>3, <1>4, <1>5, <1>6, <1>7, <1>8, <1>9, <1>10 DEF LabNext, IrqStep

LEMMA ReadDataType ==
  ASSUME LabTypeOK, WordsAssembled, ReadData
  PROVE  acc' \in [Axes -> MilliG] /\ byte' \in 1..6
<1>. DEFINE a == ByteAxis(byte)
<1>1. /\ a \in Axes /\ ReadByte \in Byte /\ byte \in 1..6 /\ ipc = "read"
      /\ acc \in [Axes -> MilliG]
  BY TypeParts, DataRegFacts, ReadByteType DEF OwnTypeOK, ReadData, Isr
<1>2. byte' \in 1..6
  BY <1>1, NumberFacts DEF ReadData
<1>3. byte % 2 = 0 \/ byte % 2 = 1
  BY <1>1, SMT
<1>4. byte % 2 = 0 => Combine(acc[a], ReadByte) \in Word
  BY <1>1, CombineType DEF WordsAssembled, Reads
<1>5. acc'[a] \in MilliG
  BY <1>1, <1>3, <1>4, NumberFacts DEF ReadData
<1>. QED BY <1>1, <1>2, <1>5 DEF ReadData

LEMMA ConvertType ==
  ASSUME WordsAssembled, Convert
  PROVE  acc' \in [Axes -> MilliG]
BY ReadingType DEF WordsAssembled, Convert, Isr

LEMMA ShowType ==
  ASSUME LabTypeOK, Show
  PROVE  seg' \in [Axes -> Shown] /\ pio' \in Shown
<1>1. cnt % 3 \in Axes /\ acc[cnt % 3] \in MilliG /\ seg \in [Axes -> Shown]
  BY TypeParts, NumberFacts DEF OwnTypeOK
<1>2. Digits(acc[cnt % 3]) \in Shown
  BY <1>1, DigitsType
<1>. QED BY <1>1, <1>2 DEF Show

(* Every step of the program and of its devices keeps the state in range.  *)
LEMMA OwnTypeStep ==
  ASSUME LabTypeOK, WordsAssembled, [LabNext]_vars
  PROVE  OwnTypeOK'
<1>0. AccelTypeOK /\ OwnTypeOK
  BY TypeParts
<1>01. call < 6 => call + 1 \in 1..6
  BY <1>0, NumberFacts DEF OwnTypeOK
<1>02. 1 \in 1..6
  BY SMT
<1>. USE DEF OwnTypeOK, Reads
<1>1. CASE InitDevices
  BY <1>0, <1>1 DEF InitDevices, Main, irqVars, appVars, ghostVars
<1>2. CASE SendStart
  BY <1>0, <1>2, Lab3Assumption
  DEF SendStart, Main, irqVars, deviceVars, appVars
<1>3. CASE SendRegister
  BY <1>0, <1>3
  DEF SendRegister, Main, irqVars, deviceVars, appVars, ghostVars
<1>4. CASE SendData
  BY <1>0, <1>4, <1>01, OffsetCallFacts
  DEF SendData, Main, irqVars, deviceVars, appVars, ghostVars
<1>5. CASE RegisterTimer
  BY <1>0, <1>5
  DEF RegisterTimer, Main, irqVars, deviceVars, appVars, ghostVars
<1>6. CASE RegisterButton
  BY <1>0, <1>6
  DEF RegisterButton, Main, irqVars, deviceVars, appVars, ghostVars
<1>7. CASE TimerExpires
  BY <1>0, <1>7 DEF TimerExpires, mainVars, irqVars, appVars, ghostVars
<1>8. CASE ButtonMoves
  BY <1>0, <1>8 DEF ButtonMoves, mainVars, irqVars, appVars
<1>9. CASE SampleChanges
  BY <1>0, <1>9
  DEF SampleChanges, NewSample, mainVars, irqVars, deviceVars, appVars
<1>10. CASE HostActs
  BY <1>0, <1>10
  DEF HostActs, labVars, mainVars, irqVars, deviceVars, appVars,
      ghostVars
<1>11. CASE TakeIrq
  BY <1>0, <1>11 DEF TakeIrq, mainVars, deviceVars, appVars, ghostVars
<1>12. CASE ReturnFromIrq
  BY <1>0, <1>12 DEF ReturnFromIrq, mainVars, deviceVars, appVars, ghostVars
<1>13. CASE ServeUart
  BY <1>0, <1>13 DEF ServeUart, mainVars, deviceVars, appVars, ghostVars
<1>14. CASE ServeSystemClock
  BY <1>0, <1>14 DEF ServeSystemClock, mainVars, appVars, ghostVars
<1>15. CASE CountPress
  BY <1>0, <1>15, NumberFacts DEF CountPress, mainVars, deviceVars
<1>16. CASE ClearEdge
  BY <1>0, <1>16 DEF ClearEdge, mainVars, appVars, ghostVars
<1>17. CASE BeginReading
  BY <1>0, <1>17, <1>02
  DEF BeginReading, AccelTypeOK, mainVars, deviceVars, appVars
<1>18. CASE ReadStart("start", "reg", FALSE)
  BY <1>0, <1>18, Lab3Assumption
  DEF ReadStart, Isr, mainVars, deviceVars, appVars
<1>19. CASE ReadStart("restart", "read", TRUE)
  BY <1>0, <1>19, Lab3Assumption
  DEF ReadStart, Isr, mainVars, deviceVars, appVars
<1>20. CASE ReadRegister
  BY <1>0, <1>20
  DEF ReadRegister, Isr, mainVars, deviceVars, appVars, ghostVars
<1>21. CASE ReadData
  BY <1>0, <1>21, ReadDataType
  DEF ReadData, Isr, mainVars, deviceVars, ghostVars
<1>22. CASE Convert
  BY <1>0, <1>22, ConvertType
  DEF Convert, Isr, mainVars, deviceVars, ghostVars
<1>23. CASE PrintLine
  BY <1>0, <1>23, NumberFacts
  DEF PrintLine, Isr, mainVars, deviceVars, ghostVars
<1>24. CASE Writing
  BY <1>0, <1>24
  DEF Writing, mainVars, irqVars, deviceVars, appVars, ghostVars
<1>25. CASE PrintDone
  BY <1>0, <1>25 DEF PrintDone, Isr, mainVars, deviceVars, appVars, ghostVars
<1>26. CASE Show
  BY <1>0, <1>26, ShowType DEF Show, Isr, mainVars, deviceVars, ghostVars
<1>27. CASE AckTimer
  BY <1>0, <1>27 DEF AckTimer, Isr, mainVars, appVars, ghostVars
<1>28. CASE UNCHANGED vars
  BY <1>0, <1>28 DEF vars, mainVars, irqVars, deviceVars, appVars, ghostVars
<1>. QED
  BY <1>1, <1>2, <1>3, <1>4, <1>5, <1>6, <1>7, <1>8, <1>9, <1>10, <1>11,
     <1>12, <1>13, <1>14, <1>15, <1>16, <1>17, <1>18, <1>19, <1>20,
     <1>21, <1>22, <1>23, <1>24, <1>25, <1>26, <1>27, <1>28
  DEF LabNext, MainStep, IrqStep, World

TypeInv == LabTypeOK /\ WordsAssembled

LEMMA TypeInit == LabInit => TypeInv
<1>. SUFFICES ASSUME LabInit PROVE TypeInv
  OBVIOUS
<1>1. AccelTypeOK
  <2>1. 0 \in Byte
    BY SMT DEF Byte
  <2>. QED
    BY <2>1, SamplesAssumption
    DEF LabInit, AccelInit, AccelTypeOK, Selections, OtherReg
<1>2. ConsoleTypeOK
  <2>1. 0 \in 0..RingCap /\ 0 \in 0..FifoCap /\ 0 \in 0..HostTimeout
        /\ 0 \in 0..MaxWrite
    BY ConsoleAssumption, SMT
  <2>. QED BY <2>1 DEF LabInit, ConsoleInit, ConsoleTypeOK
<1>3. OwnTypeOK
  <2>1. 1 \in 1..6 /\ 0 \in MilliG /\ 0 \in Axes /\ 0 \in 0..(CntMod - 1)
    BY Lab3Assumption, SMT DEF MilliG, Axes
  <2>2. NoDigits \in Shown
    BY SMT DEF NoDigits, Shown
  <2>3. ResetPio \in Shown
    BY SMT DEF NoDigits, ResetPio, Shown
  <2>. QED BY <2>1, <2>2, <2>3 DEF LabInit, OwnTypeOK
<1>4. WordsAssembled
  BY DEF LabInit, WordsAssembled, Reads
<1>. QED BY <1>1, <1>2, <1>3, <1>4, TypeParts DEF TypeInv

LEMMA TypeStep == TypeInv /\ [LabNext]_vars => TypeInv'
<1>. SUFFICES ASSUME LabTypeOK, WordsAssembled, [LabNext]_vars
              PROVE  LabTypeOK' /\ WordsAssembled'
  BY DEF TypeInv
<1>1. AccelTypeOK'
  BY AccelStepOfLab
<1>2. ConsoleTypeOK'
  BY TypeParts, ConsoleStepOfLab, ConsoleTypeStep
<1>3. OwnTypeOK'
  BY OwnTypeStep
<1>4. WordsAssembled'
  BY WordsStep
<1>5. LabTypeOK' <=> AccelTypeOK' /\ ConsoleTypeOK' /\ OwnTypeOK'
  BY OffsetCallFacts DEF LabTypeOK, OwnTypeOK
<1>. QED BY <1>1, <1>2, <1>3, <1>4, <1>5

(* Every register, counter and variable stays within its width, the digits *)
(* shown and the five output registers among them.                         *)
THEOREM TypeCorrect == LabSpec => []LabTypeOK
<1>1. TypeInv => LabTypeOK
  BY DEF TypeInv
<1>. QED BY <1>1, TypeInit, TypeStep, PTL DEF LabSpec

----------------------------------------------------------------------------
(***************************************************************************)
(* The safety properties of Lab3, from its inductive invariant SafetyInv.  *)
(* Each part of the invariant has a lemma of its own; the frame lemmas say *)
(* once which steps leave which variables alone.                           *)
(***************************************************************************)
----------------------------------------------------------------------------
(* Frames                                                                  *)

(* main steps only between interrupts and touches nothing of theirs.       *)
LEMMA MainFrame ==
  ASSUME MainStep
  PROVE  /\ ipc = "none" /\ UNCHANGED << irqVars, appVars, consoleVars >>
         /\ UNCHANGED << seen, nackIsr, fresh, tmo, sample >>
<1>1. CASE InitDevices
  BY <1>1 DEF InitDevices, Main, ghostVars, accelVars
<1>2. CASE SendStart
  BY <1>2 DEF SendStart, Main, I2C_start, deviceVars
<1>3. CASE SendRegister
  BY <1>3 DEF SendRegister, Main, I2C_write, deviceVars, ghostVars
<1>4. CASE SendData
  BY <1>4 DEF SendData, Main, I2C_write, deviceVars, ghostVars
<1>5. CASE RegisterTimer
  BY <1>5 DEF RegisterTimer, Main, deviceVars, ghostVars, accelVars
<1>6. CASE RegisterButton
  BY <1>6 DEF RegisterButton, Main, deviceVars, ghostVars, accelVars
<1>. QED BY <1>1, <1>2, <1>3, <1>4, <1>5, <1>6 DEF MainStep

(* The interrupt handlers change none of main's variables.                 *)
LEMMA IrqFrame ==
  ASSUME IrqStep
  PROVE  UNCHANGED << mainVars, nackMain, sample, irqMask >>
<1>1. CASE TakeIrq \/ ReturnFromIrq
  BY <1>1 DEF TakeIrq, ReturnFromIrq, ghostVars, accelVars, deviceVars
<1>2. CASE ServeUart \/ ServeSystemClock
  BY <1>2 DEF ServeUart, ServeSystemClock, ghostVars, accelVars, deviceVars
<1>3. CASE CountPress \/ ClearEdge
  BY <1>3 DEF CountPress, ClearEdge, ghostVars, accelVars, deviceVars
<1>4. CASE BeginReading
  BY <1>4 DEF BeginReading, accelVars, deviceVars
<1>5. CASE ReadStart("start", "reg", FALSE) \/ ReadStart("restart", "read", TRUE)
  BY <1>5 DEF ReadStart, I2C_start, deviceVars
<1>6. CASE ReadRegister
  BY <1>6 DEF ReadRegister, I2C_write, ghostVars, deviceVars
<1>7. CASE ReadData
  BY <1>7 DEF ReadData, I2C_read_last, ghostVars, deviceVars
<1>8. CASE Convert \/ PrintLine \/ Writing
  BY <1>8 DEF Convert, PrintLine, Writing, ghostVars, accelVars, deviceVars
<1>9. CASE PrintDone \/ Show \/ AckTimer
  BY <1>9 DEF PrintDone, Show, AckTimer, ghostVars, accelVars, deviceVars
<1>. QED
  BY <1>1, <1>2, <1>3, <1>4, <1>5, <1>6, <1>7, <1>8, <1>9 DEF IrqStep

(* The world changes the devices only, and of the chip only the sample.    *)
LEMMA WorldFrame ==
  ASSUME World \/ UNCHANGED vars
  PROVE  UNCHANGED << mainVars, irqVars, appVars, nackMain, nackIsr, irqMask,
                      ofs, ptr, sel >>
<1>1. CASE TimerExpires
  BY <1>1 DEF TimerExpires, ghostVars, accelVars
<1>2. CASE ButtonMoves
  BY <1>2 DEF ButtonMoves, accelVars
<1>3. CASE SampleChanges
  BY <1>3 DEF SampleChanges, NewSample, deviceVars
<1>4. CASE HostActs
  BY <1>4 DEF HostActs, labVars, ghostVars, accelVars, deviceVars
<1>5. CASE UNCHANGED vars
  BY <1>5 DEF vars, ghostVars, accelVars, deviceVars
<1>. QED BY <1>1, <1>2, <1>3, <1>4, <1>5 DEF World

(* The steps of the handlers in which the bus is silent, and those in which*)
(* irq_timer is past its readings or has not begun them.                   *)
SilentStep ==
  \/ TakeIrq \/ ReturnFromIrq \/ ServeUart \/ ServeSystemClock
  \/ CountPress \/ ClearEdge \/ BeginReading
  \/ Convert \/ PrintLine \/ Writing \/ PrintDone \/ Show \/ AckTimer

LEMMA SilentFrame ==
  ASSUME SilentStep
  PROVE  /\ UNCHANGED accelVars
         /\ ipc \notin Reads
         /\ ipc' \in Reads => BeginReading
<1>1. CASE TakeIrq \/ ReturnFromIrq
  BY <1>1 DEF TakeIrq, ReturnFromIrq, Reads
<1>2. CASE ServeUart \/ ServeSystemClock
  BY <1>2 DEF ServeUart, ServeSystemClock, Serves, Reads
<1>3. CASE CountPress \/ ClearEdge
  BY <1>3 DEF CountPress, ClearEdge, Serves, Reads
<1>4. CASE BeginReading
  BY <1>4 DEF BeginReading, Serves, Reads
<1>5. CASE Convert \/ PrintLine \/ Writing
  BY <1>5 DEF Convert, PrintLine, Writing, Isr, Reads, irqVars
<1>6. CASE PrintDone \/ Show \/ AckTimer
  BY <1>6 DEF PrintDone, Show, AckTimer, Isr, Reads
<1>. QED BY <1>1, <1>2, <1>3, <1>4, <1>5, <1>6 DEF SilentStep

LEMMA IrqSplit ==
  ASSUME IrqStep
  PROVE  \/ SilentStep
         \/ ReadStart("start", "reg", FALSE) \/ ReadRegister
         \/ ReadStart("restart", "read", TRUE) \/ ReadData
BY DEF IrqStep, SilentStep

----------------------------------------------------------------------------
(* The order in which main registers its handlers                          *)

LEMMA HandlersStep ==
  ASSUME LabTypeOK, HandlersLast, [LabNext]_vars
  PROVE  HandlersLast'
<1>. USE DEF HandlersLast
<1>0. mpc \in {"init", "start", "reg", "data", "regTimer", "regButton", "loop"}
  BY DEF LabTypeOK
<1>1. CASE InitDevices \/ SendStart \/ SendRegister
  BY <1>0, <1>1
  DEF InitDevices, SendStart, SendRegister, Main, irqVars, TimerSteps
<1>2. CASE SendData
  BY <1>0, <1>2 DEF SendData, Main, irqVars, TimerSteps
<1>3. CASE RegisterTimer
  BY <1>0, <1>3
  DEF RegisterTimer, Main, irqVars, TimerSteps, UART_IRQ, PIO_IRQ, TIMER_IRQ
<1>4. CASE RegisterButton
  BY <1>0, <1>4
  DEF RegisterButton, Main, irqVars, TimerSteps, UART_IRQ, PIO_IRQ, TIMER_IRQ
<1>5. CASE IrqStep
  <2>1. UNCHANGED mainVars
    BY <1>5, IrqFrame
  <2>2. ipc' \in TimerSteps => ipc \in TimerSteps \/ BeginReading
    <3>1. CASE SilentStep
      BY <3>1
      DEF SilentStep, TakeIrq, ReturnFromIrq, ServeUart, ServeSystemClock,
          CountPress, ClearEdge, Convert, PrintLine, Writing, PrintDone, Show,
          AckTimer, Isr, TimerSteps, Reads, irqVars
    <3>2. CASE ~SilentStep
      BY <1>5, <3>2, IrqSplit
      DEF ReadStart, ReadRegister, ReadData, Isr, TimerSteps, Reads
    <3>. QED BY <3>1, <3>2
  <2>3. BeginReading => timerIsr = "irq_timer"
    BY DEF BeginReading
  <2>. QED BY <2>1, <2>2, <2>3 DEF mainVars
<1>6. CASE World \/ UNCHANGED vars
  BY <1>6, WorldFrame DEF mainVars, irqVars
<1>. QED BY <1>1, <1>2, <1>3, <1>4, <1>5, <1>6 DEF LabNext, MainStep

(* While main is inside a send_offset, irq_timer cannot be at work.        *)
LEMMA MainAlone ==
  ASSUME HandlersLast, mpc \in {"init", "start", "reg", "data"}
  PROVE  ipc \notin TimerSteps
BY DEF HandlersLast

----------------------------------------------------------------------------
(* The transactions on the bus                                             *)

LEMMA MainTransaction ==
  ASSUME LabTypeOK, HandlersLast, Transaction, AddressedRegister,
         [LabNext]_vars
  PROVE  /\ mpc' = "reg" => sel' \in {"pointer", "off"}
         /\ mpc' = "reg" /\ ~nackMain' => sel' = "pointer"
         /\ mpc' = "data" /\ ~nackMain' =>
              sel' = "data" /\ ptr' = OffsetCalls[call].reg /\ call' = call
<1>1. CASE SendStart
  BY <1>1 DEF SendStart, Main, I2C_start
<1>2. CASE SendRegister
  BY <1>2 DEF SendRegister, Main, I2C_write, Transaction, ghostVars
<1>3. CASE InitDevices \/ SendData \/ RegisterTimer \/ RegisterButton
  BY <1>3 DEF InitDevices, SendData, RegisterTimer, RegisterButton, Main
<1>4. CASE /\ UNCHANGED << mpc, call, nackMain >>
           /\ mpc \in {"reg", "data"} => UNCHANGED << sel, ptr >>
  BY <1>4 DEF Transaction, AddressedRegister
<1>5. CASE IrqStep
  <2>1. UNCHANGED << mpc, call, nackMain >>
    BY <1>5, IrqFrame DEF mainVars
  <2>2. ASSUME mpc \in {"reg", "data"} PROVE UNCHANGED << sel, ptr >>
    <3>1. ipc \notin Reads
      BY <2>2, MainAlone DEF TimerSteps
    <3>2. SilentStep
      BY <1>5, <3>1, IrqSplit DEF ReadStart, ReadRegister, ReadData, Isr, Reads
    <3>. QED BY <3>2, SilentFrame DEF accelVars
  <2>. QED BY <1>4, <2>1, <2>2
<1>6. CASE World \/ UNCHANGED vars
  BY <1>4, <1>6, WorldFrame DEF mainVars
<1>. QED BY <1>1, <1>2, <1>3, <1>5, <1>6 DEF LabNext, MainStep

LEMMA IsrTransaction ==
  ASSUME LabTypeOK, Transaction, AddressedRegister, [LabNext]_vars
  PROVE  /\ ipc' = "reg" => sel' \in {"pointer", "off"}
         /\ ipc' = "reg" /\ ~nackIsr' => sel' = "pointer"
         /\ ipc' = "restart" /\ ~nackIsr' => ptr' = DataReg(byte')
         /\ ipc' = "read" /\ ~nackIsr' =>
              sel' = "read" /\ ptr' = DataReg(byte')
<1>1. CASE ReadStart("start", "reg", FALSE)
  BY <1>1 DEF ReadStart, Isr, I2C_start
<1>2. CASE ReadRegister
  BY <1>2 DEF ReadRegister, Isr, I2C_write, Transaction, ghostVars
<1>3. CASE ReadStart("restart", "read", TRUE)
  BY <1>3 DEF ReadStart, Isr, I2C_start, Transaction
<1>4. CASE ReadData
  BY <1>4 DEF ReadData, Isr
<1>5. CASE SilentStep
  BY <1>5, SilentFrame DEF BeginReading, Reads
<1>6. CASE MainStep
  BY <1>6, MainFrame DEF irqVars
<1>7. CASE World \/ UNCHANGED vars
  BY <1>7, WorldFrame DEF Transaction, AddressedRegister, irqVars
<1>. QED
  BY <1>1, <1>2, <1>3, <1>4, <1>5, <1>6, <1>7, IrqSplit DEF LabNext

LEMMA TransactionStep ==
  ASSUME LabTypeOK, HandlersLast, Transaction, AddressedRegister,
         [LabNext]_vars
  PROVE  Transaction' /\ AddressedRegister'
BY MainTransaction, IsrTransaction DEF Transaction, AddressedRegister

----------------------------------------------------------------------------
(* The calibration                                                         *)

(* Only SendData reaches the offset registers.                             *)
LEMMA OffsetsFrame ==
  ASSUME Transaction, [LabNext]_vars, ~SendData
  PROVE  ofs' = ofs
<1>1. CASE InitDevices \/ RegisterTimer \/ RegisterButton
  BY <1>1 DEF InitDevices, RegisterTimer, RegisterButton, accelVars
<1>2. CASE SendStart
  BY <1>2 DEF SendStart, I2C_start
<1>3. CASE SendRegister
  BY <1>3 DEF SendRegister, Main, I2C_write, Transaction
<1>4. CASE SilentStep
  BY <1>4, SilentFrame DEF accelVars
<1>5. CASE ReadRegister
  BY <1>5 DEF ReadRegister, Isr, I2C_write, Transaction
<1>6. CASE \/ ReadStart("start", "reg", FALSE)
           \/ ReadStart("restart", "read", TRUE) \/ ReadData
  BY <1>6 DEF ReadStart, ReadData, I2C_start, I2C_read_last
<1>7. CASE World \/ UNCHANGED vars
  BY <1>7, WorldFrame
<1>. QED
  BY <1>1, <1>2, <1>3, <1>4, <1>5, <1>6, <1>7, IrqSplit
  DEF LabNext, MainStep

LEMMA OffsetsStep ==
  ASSUME LabTypeOK, HandlersLast, Transaction, AddressedRegister,
         OffsetsSoFar, [LabNext]_vars
  PROVE  OffsetsSoFar'
<1>0. call \in 1..6 /\ ofs \in [Axes -> Byte]
  BY OffsetCallFacts DEF LabTypeOK, AccelTypeOK
<1>1. CASE SendData
  <2>1. /\ mpc = "data" /\ nackMain' = nackMain
        /\ mpc' = (IF call < 6 THEN "start" ELSE "regTimer")
        /\ call' = (IF call < 6 THEN call + 1 ELSE call)
    BY <1>1, OffsetCallFacts DEF SendData, Main, ghostVars
  <2>2. CASE nackMain
    BY <2>1, <2>2 DEF OffsetsSoFar
  <2>3. CASE ~nackMain
    <3>1. /\ OffsetCalls[call].reg \in OffsetRegs
          /\ ofs' = [ofs EXCEPT ![OffsetCalls[call].reg - OFSX] =
                                    OffsetCalls[call].data]
      BY <1>0, <1>1, <2>1, <2>3, OffsetCallFacts
      DEF SendData, I2C_write, AddressedRegister
    <3>2. 0 \in Axes /\ 1 \in Axes /\ 2 \in Axes
      BY SMT DEF Axes
    <3>3. OFSX - OFSX = 0 /\ (OFSX + 1) - OFSX = 1 /\ (OFSX + 2) - OFSX = 2
      BY SMT DEF OFSX
    <3>4. CASE call \in 1..3
      <4>1. mpc' = "start" /\ ~(call' > 4) /\ ~(call' > 5)
        BY <2>1, <3>4, SMT
      <4>. QED BY <4>1 DEF OffsetsSoFar
    <3>5. CASE call = 4
      <4>1. mpc' = "start" /\ ~(call' > 5)
        BY <2>1, <3>5, SMT
      <4>2. ofs'[0] = 6
        BY <1>0, <3>1, <3>2, <3>3, <3>5, OffsetCallFacts
      <4>. QED BY <4>1, <4>2 DEF OffsetsSoFar
    <3>6. CASE call = 5
      <4>1. mpc' = "start" /\ call > 4
        BY <2>1, <3>6, SMT
      <4>2. ofs' = [ofs EXCEPT ![1] = 6]
        BY <3>1, <3>3, <3>6, OffsetCallFacts
      <4>3. ofs'[0] = 6 /\ ofs'[1] = 6
        <5>1. ofs[0] = 6
          BY <2>1, <2>3, <4>1 DEF OffsetsSoFar
        <5>. QED BY <1>0, <3>2, <4>2, <5>1
      <4>. QED BY <4>1, <4>3 DEF OffsetsSoFar
    <3>7. CASE call = 6
      <4>1. mpc' = "regTimer" /\ call > 4 /\ call > 5
        BY <2>1, <3>7, SMT
      <4>2. ofs' = [ofs EXCEPT ![2] = 12]
        BY <3>1, <3>3, <3>7, OffsetCallFacts
      <4>3. ofs[0] = 6 /\ ofs[1] = 6
        BY <2>1, <2>3, <4>1 DEF OffsetsSoFar
      <4>4. \A a \in Axes : a = 0 \/ a = 1 \/ a = 2
        BY SMT DEF Axes
      <4>5. ofs' = [a \in Axes |-> IF a = 2 THEN 12 ELSE 6]
        BY <1>0, <3>2, <4>2, <4>3, <4>4
      <4>. QED BY <4>1, <4>5 DEF OffsetsSoFar, Calibration
    <3>8. call \in 1..3 \/ call = 4 \/ call = 5 \/ call = 6
      BY <1>0, SMT
    <3>. QED BY <3>4, <3>5, <3>6, <3>7, <3>8
  <2>. QED BY <2>2, <2>3
<1>2. CASE ~SendData
  <2>1. ofs' = ofs
    BY <1>2, OffsetsFrame
  <2>2. CASE InitDevices
    <3>1. mpc' = "start" /\ call' = 1 /\ ~(1 > 4) /\ ~(1 > 5)
      BY <2>2, SMT DEF InitDevices, Main, OffsetsSoFar
    <3>. QED BY <3>1 DEF OffsetsSoFar
  <2>3. CASE SendStart
    BY <2>1, <2>3 DEF SendStart, Main, OffsetsSoFar
  <2>4. CASE SendRegister \/ RegisterTimer \/ RegisterButton
    BY <2>1, <2>4
    DEF SendRegister, RegisterTimer, RegisterButton, Main, OffsetsSoFar,
        ghostVars
  <2>5. CASE IrqStep
    BY <2>1, <2>5, IrqFrame DEF mainVars, OffsetsSoFar
  <2>6. CASE World \/ UNCHANGED vars
    BY <2>1, <2>6, WorldFrame DEF mainVars, OffsetsSoFar
  <2>. QED
    BY <1>2, <2>2, <2>3, <2>4, <2>5, <2>6 DEF LabNext, MainStep
<1>. QED BY <1>1, <1>2

----------------------------------------------------------------------------
(* From the sample to the display                                          *)

(* What one ReadData adds, when the chip holds the sample s.               *)
LEMMA ReadDataSample ==
  ASSUME LabTypeOK, AddressedRegister, SampleSoFar, ReadData, ~nackIsr,
         NEW s \in Samples, seen = {s}
  PROVE  /\ ipc' \in Reads =>
              /\ \A a \in Axes : a < ByteAxis(byte') => acc'[a] = s[a]
              /\ byte' % 2 = 0 =>
                   acc'[ByteAxis(byte')] = s[ByteAxis(byte')] % 256
         /\ ipc' = "convert" => acc' = s
<1>. DEFINE a == ByteAxis(byte)
<1>1. /\ ipc = "read" /\ byte \in 1..6 /\ a \in Axes
      /\ acc \in [Axes -> MilliG] /\ s \in [Axes -> Word]
  BY TypeParts, DataRegFacts, SamplesAssumption DEF OwnTypeOK, ReadData, Isr
<1>2. sample = s /\ sel = "read" /\ ptr = DataReg(byte)
  BY <1>1 DEF SampleSoFar, AddressedRegister, Reads
<1>3. /\ ReadByte = IF byte % 2 = 1 THEN s[a] % 256 ELSE s[a] \div 256
      /\ byte % 2 = 0 \/ byte % 2 = 1
  <2>1. ptr \in DataRegs /\ (ptr - DATAX0) \div 2 = a
        /\ (ptr % 2 = 0 <=> byte % 2 = 1)
    BY <1>1, <1>2, DataRegFacts
  <2>2. byte % 2 = 0 \/ byte % 2 = 1
    BY <1>1, SMT
  <2>3. ReadByte = IF ptr % 2 = 0 THEN sample[a] % 256 ELSE sample[a] \div 256
    <3>1. ptr \notin OffsetRegs
      BY <2>1, SMT DEF DataRegs, DATAX0, OffsetRegs, OFSX
    <3>. QED BY <1>2, <2>1, <3>1 DEF ReadByte
  <2>. QED BY <1>2, <2>1, <2>2, <2>3
<1>4. CASE byte % 2 = 1
  <2>1. /\ ipc' = "start" /\ byte' = byte + 1
        /\ acc' = [acc EXCEPT ![a] = s[a] % 256]
        /\ ByteAxis(byte') = a
    BY <1>1, <1>3, <1>4, DataRegFacts DEF ReadData, Isr
  <2>2. \A c \in Axes : c < a => acc[c] = s[c] /\ c # a
    <3>1. \A c \in Axes : c < a => c # a
      BY <1>1, SMT DEF Axes
    <3>. QED BY <1>1, <3>1 DEF SampleSoFar, Reads
  <2>. QED BY <1>1, <2>1, <2>2
<1>5. CASE byte % 2 = 0
  <2>0. ~(byte % 2 = 1)
    BY <1>5, SMT
  <2>1. /\ acc[a] = s[a] % 256
        /\ \A c \in Axes : c < a => acc[c] = s[c]
    BY <1>1, <1>5 DEF SampleSoFar, Reads
  <2>2. Combine(s[a] % 256, s[a] \div 256) = s[a]
    BY <1>1, SplitCombine
  <2>3. acc' = [acc EXCEPT ![a] = s[a]]
    BY <1>1, <1>3, <2>0, <2>1, <2>2 DEF ReadData
  <2>4. \A c \in Axes : c <= a => acc'[c] = s[c]
    <3>1. \A c \in Axes : c <= a => c = a \/ c < a
      BY <1>1, SMT DEF Axes
    <3>. QED BY <1>1, <2>1, <2>3, <3>1
  <2>5. CASE byte < 6
    <3>1. /\ ipc' = "start" /\ byte' = byte + 1
          /\ \A c \in Axes : c < ByteAxis(byte') <=> c <= a
      BY <1>1, <1>5, <2>5, DataRegFacts DEF ReadData, Isr
    <3>2. byte' % 2 # 0
      BY <1>1, <1>5, <3>1, SMT
    <3>. QED BY <2>4, <3>1, <3>2
  <2>6. CASE ~(byte < 6)
    <3>1. \A c \in Axes : c <= a
      BY <1>1, <2>6, SMT DEF Axes, ByteAxis
    <3>2. acc' = s
      BY <1>1, <2>3, <2>4, <3>1
    <3>3. ipc' = "convert"
      BY <2>6 DEF ReadData, Isr
    <3>. QED BY <3>2, <3>3 DEF Reads
  <2>. QED BY <2>5, <2>6
<1>. QED BY <1>3, <1>4, <1>5

(* A step that moves no data and goes no further than the invariant looks. *)
LEMMA SampleFrame ==
  ASSUME SampleSoFar,
         UNCHANGED << byte, acc, seen, sample >>,
         nackIsr => nackIsr',
         ipc' \in Reads => ipc \in Reads,
         ipc' = "convert" => ipc = "convert",
         ipc' \in {"print", "write", "show"} => ipc \in {"print", "write", "show"}
  PROVE  SampleSoFar'
<1>1. ipc' \in Reads => sample' \in seen'
  BY DEF SampleSoFar
<1>2. ASSUME ~nackIsr', NEW s \in Samples, seen' = {s}
      PROVE  /\ ipc' \in Reads =>
                  /\ \A a \in Axes : a < ByteAxis(byte') => acc'[a] = s[a]
                  /\ byte' % 2 = 0 =>
                       acc'[ByteAxis(byte')] = s[ByteAxis(byte')] % 256
             /\ ipc' = "convert" => acc' = s
             /\ ipc' \in {"print", "write", "show"} =>
                  acc' = [a \in Axes |-> Scaled(Signed(s[a]))]
  <2>1. ~nackIsr /\ seen = {s}
    BY <1>2
  <2>. QED BY <2>1 DEF SampleSoFar
<1>. QED BY <1>1, <1>2 DEF SampleSoFar

LEMMA SampleStep ==
  ASSUME LabTypeOK, AddressedRegister, SampleSoFar, [LabNext]_vars
  PROVE  SampleSoFar'
<1>1. CASE BeginReading
  <2>1. \A a \in Axes : ~(a < ByteAxis(1))
    BY SMT DEF Axes, ByteAxis
  <2>2. 1 % 2 # 0
    BY SMT
  <2>. QED
    BY <1>1, <2>1, <2>2 DEF SampleSoFar, BeginReading, Reads, accelVars
<1>2. CASE ReadData
  <2>1. /\ ipc = "read" /\ UNCHANGED << seen, nackIsr, sample >>
        /\ ipc' \in {"start", "convert"}
    BY <1>2 DEF ReadData, Isr, ghostVars, I2C_read_last
  <2>2. sample' \in seen'
    BY <2>1 DEF SampleSoFar, Reads
  <2>3. ASSUME ~nackIsr', NEW s \in Samples, seen' = {s}
        PROVE  /\ ipc' \in Reads =>
                    /\ \A a \in Axes : a < ByteAxis(byte') => acc'[a] = s[a]
                    /\ byte' % 2 = 0 =>
                         acc'[ByteAxis(byte')] = s[ByteAxis(byte')] % 256
               /\ ipc' = "convert" => acc' = s
    BY <1>2, <2>1, <2>3, ReadDataSample
  <2>4. ipc' \notin {"print", "write", "show"}
    BY <2>1
  <2>. QED BY <2>2, <2>3, <2>4 DEF SampleSoFar
<1>3. CASE ReadStart("start", "reg", FALSE) \/ ReadStart("restart", "read", TRUE)
  <2>1. /\ UNCHANGED << byte, acc, seen, sample >>
        /\ nackIsr => nackIsr'
        /\ ipc \in {"start", "restart"} /\ ipc' \in {"reg", "read"}
    BY <1>3 DEF ReadStart, Isr, I2C_start, appVars
  <2>. QED BY <2>1, SampleFrame DEF Reads
<1>4. CASE ReadRegister
  <2>1. /\ UNCHANGED << byte, acc, seen, sample, nackIsr >>
        /\ ipc = "reg" /\ ipc' = "restart"
    BY <1>4 DEF ReadRegister, Isr, I2C_write, appVars, ghostVars
  <2>. QED BY <2>1, SampleFrame DEF Reads
<1>5. CASE Convert
  <2>1. /\ ipc = "convert" /\ ipc' = "print" /\ UNCHANGED << seen, nackIsr >>
        /\ acc' = [a \in Axes |-> Scaled(Signed(acc[a]))]
    BY <1>5 DEF Convert, Isr, ghostVars
  <2>2. ASSUME ~nackIsr, NEW s \in Samples, seen = {s}
        PROVE  acc' = [a \in Axes |-> Scaled(Signed(s[a]))]
    BY <2>1, <2>2 DEF SampleSoFar
  <2>. QED BY <2>1, <2>2 DEF SampleSoFar, Reads
<1>6. CASE PrintLine \/ Writing \/ PrintDone
  <2>1. /\ UNCHANGED << byte, acc, seen, sample, nackIsr >>
        /\ ipc \in {"print", "write"} /\ ipc' \in {"write", "show"}
    BY <1>6
    DEF PrintLine, Writing, PrintDone, Isr, appVars, ghostVars, irqVars,
        accelVars
  <2>. QED BY <2>1, SampleFrame DEF Reads
<1>7. CASE \/ TakeIrq \/ ReturnFromIrq \/ ServeUart \/ ServeSystemClock
           \/ CountPress \/ ClearEdge \/ Show \/ AckTimer
  <2>1. ipc' \notin Reads \cup {"convert", "print", "write", "show"}
    BY <1>7
    DEF TakeIrq, ReturnFromIrq, ServeUart, ServeSystemClock, CountPress,
        ClearEdge, Show, AckTimer, Isr, Reads
  <2>. QED BY <2>1 DEF SampleSoFar
<1>8. CASE MainStep
  <2>1. ipc' \notin Reads \cup {"convert", "print", "write", "show"}
    BY <1>8, MainFrame DEF irqVars, Reads
  <2>. QED BY <2>1 DEF SampleSoFar
<1>9. CASE SampleChanges
  <2>1. /\ UNCHANGED << ipc, byte, acc, nackIsr >>
        /\ sample' # sample
        /\ seen' = IF ipc \in Reads THEN seen \cup {sample'} ELSE seen
    BY <1>9 DEF SampleChanges, NewSample, irqVars, appVars
  <2>2. CASE ipc \in Reads
    <3>1. \A s \in Samples : seen' # {s}
      BY <2>1, <2>2 DEF SampleSoFar
    <3>2. sample' \in seen'
      BY <2>1, <2>2
    <3>. QED BY <3>1, <3>2 DEF SampleSoFar
  <2>3. CASE ipc \notin Reads
    BY <2>1, <2>3 DEF SampleSoFar
  <2>. QED BY <2>2, <2>3
<1>10. CASE TimerExpires \/ ButtonMoves \/ HostActs \/ UNCHANGED vars
  <2>1. UNCHANGED << ipc, byte, acc, seen, sample, nackIsr >>
    BY <1>10
    DEF TimerExpires, ButtonMoves, HostActs, labVars, vars, irqVars, appVars,
        ghostVars, accelVars
  <2>. QED BY <2>1, SampleFrame
<1>. QED
  BY <1>1, <1>2, <1>3, <1>4, <1>5, <1>6, <1>7, <1>8, <1>9, <1>10
  DEF LabNext, IrqStep, World

(* What Show puts on the display is what the handler carried until then.   *)
LEMMA DisplayStep ==
  ASSUME LabTypeOK, SampleSoFar, StableReading, LabelSoFar,
         LabelMatchesDisplay, [LabNext]_vars
  PROVE  StableReading' /\ LabelMatchesDisplay'
<1>1. CASE Show
  <2>1. /\ ipc = "show" /\ UNCHANGED << cnt, label, seen, nackIsr >>
        /\ cnt % 3 \in Axes /\ seg \in [Axes -> Shown]
        /\ seg' = [seg EXCEPT ![cnt % 3] = Digits(acc[cnt % 3])]
        /\ pio' = seg'[cnt % 3]
    BY <1>1, TypeParts, NumberFacts DEF OwnTypeOK, Show, Isr, ghostVars
  <2>2. pio' = Digits(acc[cnt % 3])
    BY <2>1
  <2>3. ASSUME ~nackIsr, NEW s \in Samples, seen = {s}
        PROVE  pio' = Reading(s[cnt % 3])
    <3>1. acc = [a \in Axes |-> Scaled(Signed(s[a]))]
      BY <2>1, <2>3 DEF SampleSoFar
    <3>. QED BY <2>1, <2>2, <3>1 DEF Reading
  <2>. QED BY <2>1, <2>3 DEF StableReading, LabelMatchesDisplay, LabelSoFar
<1>2. CASE \/ /\ UNCHANGED << ipc, cnt, label, seg, pio, nackIsr >>
              /\ ipc = "ack" => seen' = seen
           \/ ipc' # "ack"
  BY <1>2 DEF StableReading, LabelMatchesDisplay
<1>3. CASE IrqStep /\ ~Show
  <2>1. ipc' # "ack" \/ Writing
    <3>1. CASE SilentStep
      BY <1>3, <3>1
      DEF SilentStep, TakeIrq, ReturnFromIrq, ServeUart, ServeSystemClock,
          CountPress, ClearEdge, BeginReading, Convert, PrintLine, PrintDone,
          AckTimer, Isr
    <3>2. CASE ~SilentStep
      BY <1>3, <3>2, IrqSplit DEF ReadStart, ReadRegister, ReadData, Isr
    <3>. QED BY <3>1, <3>2
  <2>2. Writing => ipc' = "write"
    BY DEF Writing, irqVars
  <2>. QED BY <1>2, <2>1, <2>2
<1>4. CASE MainStep
  BY <1>2, <1>4, MainFrame DEF irqVars
<1>5. CASE World \/ UNCHANGED vars
  <2>1. ipc = "ack" => seen' = seen
    BY <1>5
    DEF World, TimerExpires, ButtonMoves, SampleChanges, HostActs, Reads,
        labVars, vars, ghostVars
  <2>. QED BY <1>2, <1>5, <2>1, WorldFrame DEF irqVars, appVars
<1>. QED BY <1>1, <1>3, <1>4, <1>5 DEF LabNext

LEMMA LabelStep ==
  ASSUME LabelSoFar, [LabNext]_vars
  PROVE  LabelSoFar'
<1>. USE DEF LabelSoFar
<1>1. CASE PrintLine
  BY <1>1 DEF PrintLine
<1>2. CASE Writing \/ PrintDone
  BY <1>2 DEF Writing, PrintDone, Isr, irqVars, appVars
<1>3. CASE SilentStep /\ ~PrintLine /\ ~Writing /\ ~PrintDone
  <2>1. ipc' \notin {"write", "show"}
    BY <1>3
    DEF SilentStep, TakeIrq, ReturnFromIrq, ServeUart, ServeSystemClock,
        CountPress, ClearEdge, BeginReading, Convert, Show, AckTimer, Isr
  <2>. QED BY <2>1
<1>4. CASE \/ ReadStart("start", "reg", FALSE) \/ ReadRegister
           \/ ReadStart("restart", "read", TRUE) \/ ReadData
  BY <1>4 DEF ReadStart, ReadRegister, ReadData, Isr
<1>5. CASE MainStep
  BY <1>5, MainFrame DEF irqVars
<1>6. CASE World \/ UNCHANGED vars
  BY <1>6, WorldFrame DEF irqVars, appVars
<1>. QED
  BY <1>1, <1>2, <1>3, <1>4, <1>5, <1>6, IrqSplit DEF LabNext

----------------------------------------------------------------------------
(* Interrupts and edges                                                    *)

(* Nothing the world does takes a pending interrupt back.                  *)
LEMMA PendingStays ==
  ASSUME LabTypeOK, World \/ UNCHANGED vars
  PROVE  \A i \in Pending : i \in Pending'
<1>0. fifo \in 0..FifoCap /\ FifoLow \in Nat /\ FifoCap \in Nat
  BY ConsoleAssumption DEF LabTypeOK, ConsoleTypeOK
<1>1. UNCHANGED << ienable, irqMask >>
  BY WorldFrame DEF mainVars
<1>2. (tmo => tmo') /\ (edgeCap => edgeCap')
  BY DEF World, TimerExpires, ButtonMoves, SampleChanges, HostActs, vars,
         labVars, deviceVars
<1>3. TxIrq => TxIrq'
  <2>1. CASE HostRead
    <3>1. fifo <= FifoLow => fifo - 1 <= FifoLow
      BY <1>0, SMT
    <3>. QED BY <2>1, <3>1 DEF HostRead, TxIrq
  <2>2. CASE HostPing \/ HostPlug
    BY <2>2 DEF HostPing, HostPlug, TxIrq
  <2>3. CASE TimerExpires \/ ButtonMoves \/ SampleChanges \/ UNCHANGED vars
    BY <2>3
    DEF TimerExpires, ButtonMoves, SampleChanges, vars, consoleVars, TxIrq
  <2>. QED BY <2>1, <2>2, <2>3 DEF World, HostActs
<1>. QED BY <1>1, <1>2, <1>3 DEF Pending, Line

LEMMA EntryStep ==
  ASSUME LabTypeOK, EntryFindsWork, [LabNext]_vars
  PROVE  EntryFindsWork'
<1>1. CASE TakeIrq
  BY <1>1
  DEF TakeIrq, EntryFindsWork, Pending, Line, TxIrq, mainVars, deviceVars,
      consoleVars
<1>2. CASE IrqStep /\ ~TakeIrq
  <2>1. CASE SilentStep
    BY <1>2, <2>1
    DEF SilentStep, ReturnFromIrq, ServeUart, ServeSystemClock, CountPress,
        ClearEdge, BeginReading, Convert, PrintLine, Writing, PrintDone, Show,
        AckTimer, Isr, irqVars, EntryFindsWork
  <2>2. CASE ~SilentStep
    BY <1>2, <2>2, IrqSplit
    DEF ReadStart, ReadRegister, ReadData, Isr, EntryFindsWork
  <2>. QED BY <2>1, <2>2
<1>3. CASE MainStep
  BY <1>3, MainFrame DEF irqVars, EntryFindsWork
<1>4. CASE World \/ UNCHANGED vars
  BY <1>4, WorldFrame, PendingStays DEF irqVars, EntryFindsWork
<1>. QED BY <1>1, <1>2, <1>3, <1>4 DEF LabNext

LEMMA EdgeStep ==
  ASSUME EdgeUncounted, [LabNext]_vars
  PROVE  EdgeUncounted'
<1>. USE DEF EdgeUncounted
<1>1. CASE InitDevices
  BY <1>1 DEF InitDevices
<1>2. CASE \/ SendStart \/ SendRegister \/ SendData \/ RegisterTimer
           \/ RegisterButton
  BY <1>2
  DEF SendStart, SendRegister, SendData, RegisterTimer, RegisterButton, Main,
      irqVars, deviceVars, ghostVars
<1>3. CASE CountPress
  BY <1>3 DEF CountPress
<1>4. CASE ClearEdge
  BY <1>4 DEF ClearEdge
<1>5. CASE SilentStep /\ ~CountPress /\ ~ClearEdge
  <2>1. CASE TakeIrq \/ ReturnFromIrq \/ ServeUart \/ ServeSystemClock
    BY <2>1
    DEF TakeIrq, ReturnFromIrq, ServeUart, ServeSystemClock, Serves,
        deviceVars, ghostVars
  <2>2. CASE BeginReading \/ Convert \/ PrintLine \/ Writing
    BY <2>2
    DEF BeginReading, Convert, PrintLine, Writing, Serves, Isr, irqVars,
        deviceVars, ghostVars
  <2>3. CASE PrintDone \/ Show \/ AckTimer
    BY <2>3 DEF PrintDone, Show, AckTimer, Isr, deviceVars, ghostVars
  <2>. QED BY <1>5, <2>1, <2>2, <2>3 DEF SilentStep
<1>6. CASE \/ ReadStart("start", "reg", FALSE) \/ ReadRegister
           \/ ReadStart("restart", "read", TRUE) \/ ReadData
  BY <1>6 DEF ReadStart, ReadRegister, ReadData, Isr, deviceVars, ghostVars
<1>7. CASE World \/ UNCHANGED vars
  BY <1>7
  DEF World, TimerExpires, ButtonMoves, SampleChanges, HostActs, vars, labVars,
      irqVars, deviceVars, ghostVars
<1>. QED
  BY <1>1, <1>2, <1>3, <1>4, <1>5, <1>6, <1>7, IrqSplit DEF LabNext, MainStep

----------------------------------------------------------------------------
(* The invariant and the properties it implies                             *)

LEMMA SafetyInit == LabInit => SafetyInv
<1>. SUFFICES ASSUME LabInit PROVE SafetyInv
  OBVIOUS
<1>1. LabTypeOK /\ WordsAssembled
  BY TypeInit DEF TypeInv
<1>2. HandlersLast
  BY DEF LabInit, HandlersLast, TimerSteps, Reads, UART_IRQ, PIO_IRQ, TIMER_IRQ
<1>3. Transaction /\ AddressedRegister /\ OffsetsSoFar
  BY DEF LabInit, Transaction, AddressedRegister, OffsetsSoFar
<1>4. SampleSoFar /\ StableReading /\ LabelSoFar /\ LabelMatchesDisplay
  BY DEF LabInit, SampleSoFar, StableReading, LabelSoFar, LabelMatchesDisplay,
         Reads
<1>5. EntryFindsWork /\ EdgeUncounted
  BY DEF LabInit, EntryFindsWork, EdgeUncounted
<1>. QED BY <1>1, <1>2, <1>3, <1>4, <1>5 DEF SafetyInv

LEMMA SafetyStep == SafetyInv /\ [LabNext]_vars => SafetyInv'
<1>. SUFFICES ASSUME SafetyInv, [LabNext]_vars PROVE SafetyInv'
  OBVIOUS
<1>. USE DEF SafetyInv
<1>1. LabTypeOK' /\ WordsAssembled'
  BY TypeStep DEF TypeInv
<1>2. HandlersLast'
  BY HandlersStep
<1>3. Transaction' /\ AddressedRegister'
  BY TransactionStep
<1>4. OffsetsSoFar'
  BY OffsetsStep
<1>5. SampleSoFar'
  BY SampleStep
<1>6. StableReading' /\ LabelMatchesDisplay'
  BY DisplayStep
<1>7. LabelSoFar'
  BY LabelStep
<1>8. EntryFindsWork' /\ EdgeUncounted'
  BY EntryStep, EdgeStep
<1>. QED BY <1>1, <1>2, <1>3, <1>4, <1>5, <1>6, <1>7, <1>8

LEMMA SafetyInvariant == LabSpec => []SafetyInv
BY SafetyInit, SafetyStep, PTL DEF LabSpec

(* main and irq_timer share the I2C controller without a lock, and yet a   *)
(* driver call always finds the transaction its own caller began.          *)
THEOREM BusIsNeverShared == LabSpec => []AddressedRegister
<1>1. SafetyInv => AddressedRegister
  BY DEF SafetyInv
<1>. QED BY <1>1, SafetyInvariant, PTL

(* The offsets are in the chip before the handlers are registered, unless  *)
(* the chip refused its address.                                           *)
THEOREM CalibratedFirst == LabSpec => []Calibrated
<1>1. SafetyInv => Calibrated
  BY DEF SafetyInv, OffsetsSoFar, Calibrated
<1>. QED BY <1>1, SafetyInvariant, PTL

(* A sample that stays while it is read is shown digit for digit.          *)
THEOREM DisplayCorrect == LabSpec => []StableReading
<1>1. SafetyInv => StableReading
  BY DEF SafetyInv
<1>. QED BY <1>1, SafetyInvariant, PTL

(* The line printed and the display show the same axis: no press comes     *)
(* between the uses irq_timer makes of cnt.                                *)
THEOREM LabelCorrect == LabSpec => []LabelMatchesDisplay
<1>1. SafetyInv => LabelMatchesDisplay
  BY DEF SafetyInv
<1>. QED BY <1>1, SafetyInvariant, PTL

(* The dispatcher's unguarded search always ends.                          *)
THEOREM DispatchFindsWork == LabSpec => []EntryFindsWork
<1>1. SafetyInv => EntryFindsWork
  BY DEF SafetyInv
<1>. QED BY <1>1, SafetyInvariant, PTL

(* irq_button counts no movement of the button twice.                      *)
THEOREM NoPressTwice == LabSpec => PressCountedOnce
<1>1. SafetyInv /\ [LabNext]_vars => [cnt' # cnt => fresh]_vars
  <2>. SUFFICES ASSUME SafetyInv, LabNext, cnt' # cnt PROVE fresh
    OBVIOUS
  <2>1. CountPress
    <3>1. CASE IrqStep /\ ~CountPress
      <4>1. CASE SilentStep
        BY <3>1, <4>1
        DEF SilentStep, TakeIrq, ReturnFromIrq, ServeUart, ServeSystemClock,
            ClearEdge, BeginReading, Convert, PrintLine, Writing, PrintDone,
            Show, AckTimer, appVars
      <4>2. CASE ~SilentStep
        BY <3>1, <4>2, IrqSplit DEF ReadStart, ReadRegister, ReadData, appVars
      <4>. QED BY <4>1, <4>2
    <3>2. CASE MainStep
      BY <3>2, MainFrame DEF appVars
    <3>3. CASE World
      BY <3>3, WorldFrame DEF appVars
    <3>. QED BY <3>1, <3>2, <3>3 DEF LabNext
  <2>2. edgeCap /\ ipc # "clear"
    BY <2>1 DEF CountPress, Serves, Pending, Line, UART_IRQ, PIO_IRQ
  <2>. QED BY <2>2 DEF SafetyInv, EdgeUncounted
<1>. QED BY <1>1, SafetyInvariant, PTL DEF LabSpec, PressCountedOnce

(* Interrupts are lost between the two statements of irq_button and at the *)
(* end of irq_timer, and nowhere else once main has prepared the button.   *)
THEOREM KeptElsewhere == LabSpec => EdgeKept /\ ExpiryKept
<1>1. [LabNext]_vars => [Dropped' /\ ~Dropped => mpc = "init" \/ ipc = "clear"]_vars
  <2>. SUFFICES ASSUME LabNext, mpc # "init", ipc # "clear", Dropped'
                PROVE  Dropped
    OBVIOUS
  <2>1. \/ UNCHANGED << fresh, edgeCap >>
        \/ CountPress \/ ButtonMoves
    <3>1. CASE MainStep
      BY <3>1 DEF MainStep, InitDevices, SendStart, SendRegister, SendData,
                  RegisterTimer, RegisterButton, Main, ghostVars, deviceVars
    <3>2. CASE IrqStep
      BY <3>2
      DEF IrqStep, TakeIrq, ReturnFromIrq, ServeUart, ServeSystemClock, ClearEdge,
          BeginReading, ReadStart, ReadRegister, ReadData, Convert, PrintLine,
          Writing, PrintDone, Show, AckTimer, ghostVars, deviceVars
    <3>3. CASE World
      BY <3>3 DEF World, TimerExpires, SampleChanges, HostActs, labVars, ghostVars,
                  deviceVars
    <3>. QED BY <3>1, <3>2, <3>3 DEF LabNext
  <2>2. CASE UNCHANGED << fresh, edgeCap >>
    BY <2>2 DEF Dropped
  <2>3. CASE CountPress
    BY <2>3 DEF CountPress, Dropped
  <2>4. CASE ButtonMoves
    BY <2>4 DEF ButtonMoves, Dropped
  <2>. QED BY <2>1, <2>2, <2>3, <2>4
<1>2. [LabNext]_vars =>
        [tmo /\ ~tmo' => ipc = "ack" \/ timerIsr = "alt_avalon_timer_sc_irq"]_vars
  <2>. SUFFICES ASSUME LabNext, tmo, ~tmo'
                PROVE  ipc = "ack" \/ timerIsr = "alt_avalon_timer_sc_irq"
    OBVIOUS
  <2>1. ~MainStep
    BY MainFrame
  <2>2. CASE IrqStep
    BY <2>2
    DEF IrqStep, TakeIrq, ReturnFromIrq, ServeUart, ServeSystemClock, CountPress,
        ClearEdge, BeginReading, ReadStart, ReadRegister, ReadData, Convert,
        PrintLine, Writing, PrintDone, Show, AckTimer, Isr, deviceVars
  <2>3. CASE World
    BY <2>3 DEF World, TimerExpires, ButtonMoves, SampleChanges, HostActs,
                labVars, deviceVars
  <2>. QED BY <2>1, <2>2, <2>3 DEF LabNext
<1>. QED BY <1>1, <1>2, PTL DEF LabSpec, EdgeKept, ExpiryKept

(* The wait for room in the console's ring, once entered with interrupts   *)
(* disabled, never ends.                                                   *)
THEOREM HangForever == LabSpec => HangIsPermanent
<1>1. [LabNext]_vars => [Hung => Hung']_vars
  <2>. SUFFICES ASSUME LabNext, Hung PROVE Hung'
    OBVIOUS
  <2>. USE DEF Hung, SpinOver
  <2>1. CASE MainStep
    BY <2>1, MainFrame
  <2>2. CASE IrqStep
    BY <2>2
    DEF IrqStep, TakeIrq, ReturnFromIrq, ServeUart, ServeSystemClock,
        CountPress, ClearEdge, BeginReading, ReadStart, ReadRegister, ReadData,
        Convert, PrintLine, Writing, WriteCopy, WriteKick, WriteSpin,
        WriteCall, PrintDone, Show, AckTimer, Serves, Isr
  <2>3. CASE World
    <3>1. UNCHANGED << wpc, ring, hostInactive >>
      BY <2>3
      DEF World, TimerExpires, ButtonMoves, SampleChanges, HostActs, HostRead,
          HostPing, HostPlug, consoleVars
    <3>. QED BY <2>3, <3>1, WorldFrame DEF irqVars
  <2>. QED BY <2>1, <2>2, <2>3 DEF LabNext
<1>. QED BY <1>1, PTL DEF LabSpec, HangIsPermanent
=============================================================================
