-------------------------------- MODULE Lab3 --------------------------------
(***************************************************************************)
(* The application of main.c on its Nios II system: main, its two          *)
(* interrupt handlers, the dispatcher of the HAL that calls them, and the  *)
(* devices they share (interval timer, push-button PIO, I2C accelerometer, *)
(* display PIOs, JTAG UART console).                                       *)
(*                                                                         *)
(* The processor runs main until it takes an interrupt; handlers run with  *)
(* interrupts disabled, one after the other, until none is pending.  The   *)
(* devices, the user and the host run all the time.                        *)
(***************************************************************************)
EXTENDS Accelerometer, Console, Sequences

CONSTANTS
  Acks,           \* the answers the chip may give to its address
  CntMod,         \* cnt is an 8-bit counter: 256 in the code
  MsgLen,         \* characters irq_timer prints: 14 in the code
  PromptHost      \* the host empties the console within a timer period

ASSUME Lab3Assumption ==
  /\ TRUE \in Acks /\ Acks \subseteq BOOLEAN
  /\ CntMod \in Nat \ {0}
  /\ MsgLen \in 1..MaxWrite
  /\ PromptHost \in BOOLEAN

VARIABLES
  mpc, call,      \* where main is, and in which of its send_offset calls
  ipc, byte,      \* where the interrupt side is; the data byte irq_timer reads
  ienable,        \* alt_irq_active: the enabled interrupt lines
  timerIsr,       \* the handler in alt_irq[TIMER_0_IRQ]
  tmo,            \* timeout_occurred in the timer
  irqMask, edgeCap,   \* irq_mask and edge_capture in PIO_0
  armed,          \* the system clock has ticked once: the host alarm is due
  cnt,            \* the axis counter
  acc,            \* x_data, y_data and z_data
  seg,            \* seg1[] .. seg4[] and sign[]
  pio,            \* PIO_1 .. PIO_5
  label           \* the axis named on the last line printed

(* History the program does not keep.                                      *)
VARIABLES
  seen,           \* samples the chip held while irq_timer read it
  nackMain, nackIsr,  \* an address of main's, of this irq_timer's, was refused
  fresh           \* the button moved since cnt last did

mainVars == << mpc, call, ienable, timerIsr >>
irqVars == << ipc, byte >>
deviceVars == << tmo, irqMask, edgeCap >>
appVars == << cnt, acc, seg, pio, label >>
ghostVars == << seen, nackMain, nackIsr, fresh >>
labVars == << mainVars, irqVars, deviceVars, armed, appVars, ghostVars >>
vars == << accelVars, consoleVars, mainVars, irqVars, deviceVars, armed,
           appVars, ghostVars >>

UART_IRQ == 0      \* JTAG_UART_0_IRQ
PIO_IRQ == 2       \* PIO_0_IRQ
TIMER_IRQ == 3     \* TIMER_0_IRQ

(* A faulty OffsetCalls: the reset comes after the calibration.            *)
OffsetCallsSwapped ==
  << [reg |-> OFSX, data |-> 6], [reg |-> OFSX + 1, data |-> 6],
     [reg |-> OFSX + 2, data |-> 12], [reg |-> OFSX, data |-> 0],
     [reg |-> OFSX + 1, data |-> 0], [reg |-> OFSX + 2, data |-> 0] >>

(* main's six send_offset calls: the offsets reset, then set.              *)
OffsetCalls ==
  << [reg |-> OFSX, data |-> 0], [reg |-> OFSX + 1, data |-> 0],
     [reg |-> OFSX + 2, data |-> 0], [reg |-> OFSX, data |-> 6],
     [reg |-> OFSX + 1, data |-> 6], [reg |-> OFSX + 2, data |-> 12] >>

Calibration == [a \in Axes |-> IF a = 2 THEN 12 ELSE 6]

(* A faulty DataReg: the byte numbers taken to start at zero.              *)
DataRegNext(b) == DATAX0 + b

DataReg(b) == DATAX0 + b - 1
ByteAxis(b) == (b - 1) \div 2

Reads == {"start", "reg", "restart", "read"}

LabInit ==
  /\ AccelInit /\ ConsoleInit
  /\ mpc = "init" /\ call = 1
  /\ ipc = "none" /\ byte = 1
  /\ ienable = {UART_IRQ, TIMER_IRQ}
  /\ timerIsr = "alt_avalon_timer_sc_irq"
  /\ tmo = FALSE /\ irqMask = FALSE /\ edgeCap \in BOOLEAN
  /\ armed = FALSE
  /\ cnt = 0
  /\ acc = [a \in Axes |-> 0]
  /\ seg = [a \in Axes |-> NoDigits]
  /\ pio = ResetPio
  /\ label = 0
  /\ seen = {} /\ nackMain = FALSE /\ nackIsr = FALSE
  /\ fresh = edgeCap

----------------------------------------------------------------------------
(* main                                                                    *)

Main(from, to) == ipc = "none" /\ mpc = from /\ mpc' = to

(* A faulty InitDevices: irq_timer is registered with the other set-up.    *)
InitDevicesWithTimer ==
  /\ Main("init", "start")
  /\ irqMask' = TRUE /\ edgeCap' = FALSE /\ timerIsr' = "irq_timer"
  /\ UNCHANGED << accelVars, consoleVars, call, ienable, irqVars, tmo, armed,
                  appVars, ghostVars >>

(* The interrupt mask, the edge capture register, the timer's control      *)
(* register (running and interrupting since alt_sys_init) and I2C_init.    *)
InitDevices ==
  /\ Main("init", "start")
  /\ irqMask' = TRUE
  /\ edgeCap' = FALSE
  /\ UNCHANGED << accelVars, consoleVars, call, ienable, timerIsr, irqVars, tmo,
                  armed, appVars, ghostVars >>

(* send_offset: its three driver calls, their results ignored.             *)
SendStart ==
  /\ Main("start", "reg")
  /\ \E ack \in Acks : /\ I2C_start(FALSE, ack)
                       /\ nackMain' = (nackMain \/ ~ack)
  /\ UNCHANGED << consoleVars, call, ienable, timerIsr, irqVars, deviceVars,
                  armed, appVars, seen, nackIsr, fresh >>

SendRegister ==
  /\ Main("reg", "data")
  /\ I2C_write(OffsetCalls[call].reg, FALSE)
  /\ UNCHANGED << consoleVars, call, ienable, timerIsr, irqVars, deviceVars,
                  armed, appVars, ghostVars >>

SendData ==
  /\ Main("data", IF call < Len(OffsetCalls) THEN "start" ELSE "regTimer")
  /\ I2C_write(OffsetCalls[call].data, TRUE)
  /\ call' = IF call < Len(OffsetCalls) THEN call + 1 ELSE call
  /\ UNCHANGED << consoleVars, ienable, timerIsr, irqVars, deviceVars, armed,
                  appVars, ghostVars >>

(* A faulty RegisterTimer: the handler is not entered in the table.        *)
RegisterTimerElsewhere ==
  /\ Main("regTimer", "regButton")
  /\ UNCHANGED << accelVars, consoleVars, call, ienable, timerIsr, irqVars,
                  deviceVars, armed, appVars, ghostVars >>

(* alt_irq_register: the table entry and the enable bit change together,   *)
(* interrupts being disabled meanwhile.                                    *)
RegisterTimer ==
  /\ Main("regTimer", "regButton")
  /\ timerIsr' = "irq_timer"
  /\ ienable' = ienable \cup {TIMER_IRQ}
  /\ UNCHANGED << accelVars, consoleVars, call, irqVars, deviceVars, armed,
                  appVars, ghostVars >>

RegisterButton ==
  /\ Main("regButton", "loop")
  /\ ienable' = ienable \cup {PIO_IRQ}
  /\ UNCHANGED << accelVars, consoleVars, call, timerIsr, irqVars, deviceVars,
                  armed, appVars, ghostVars >>

MainStep ==
  \/ InitDevices \/ SendStart \/ SendRegister \/ SendData
  \/ RegisterTimer \/ RegisterButton

----------------------------------------------------------------------------
(* Interrupts                                                              *)

Line(i) == CASE i = UART_IRQ -> TxIrq
             [] i = PIO_IRQ -> edgeCap /\ irqMask
             [] OTHER -> tmo

Pending == {i \in ienable : Line(i)}

(* A faulty TakeIrq: the entry is reached with nothing pending.            *)
TakeIrqSpurious ==
  /\ ipc = "none" /\ ipc' = "entry"
  /\ UNCHANGED << accelVars, consoleVars, mainVars, byte, deviceVars, armed,
                  appVars, ghostVars >>

(* The exception entry: an interrupt is pending while main runs.           *)
TakeIrq ==
  /\ ipc = "none" /\ Pending # {}
  /\ ipc' = "entry"
  /\ UNCHANGED << accelVars, consoleVars, mainVars, byte, deviceVars, armed,
                  appVars, ghostVars >>

(* A faulty Serves: the UART may interrupt irq_timer while it writes.      *)
ServesNested(i) ==
  /\ ipc \in {"entry", "next"} \/ (ipc = "write" /\ i = UART_IRQ)
  /\ i \in Pending /\ \A j \in Pending : i <= j

(* alt_irq_handler calls the handler of the lowest pending line.  Its first*)
(* pass ("entry") searches without testing that there is one; the following*)
(* passes ("next") return when there is none.                              *)
Serves(i) ==
  /\ ipc \in {"entry", "next"}
  /\ i \in Pending
  /\ \A j \in Pending : i <= j

ReturnFromIrq ==
  /\ ipc = "next" /\ Pending = {}
  /\ ipc' = "none"
  /\ UNCHANGED << accelVars, consoleVars, mainVars, byte, deviceVars, armed,
                  appVars, ghostVars >>

(* altera_avalon_jtag_uart_irq                                             *)
ServeUart ==
  /\ Serves(UART_IRQ)
  /\ UartIrq
  /\ ipc' = "next"
  /\ UNCHANGED << accelVars, mainVars, byte, deviceVars, armed, appVars,
                  ghostVars >>

(* alt_avalon_timer_sc_irq: the tick runs the host alarm, which was set to *)
(* the second tick and then to every tick (one tick per second).           *)
ServeSystemClock ==
  /\ Serves(TIMER_IRQ) /\ timerIsr = "alt_avalon_timer_sc_irq"
  /\ tmo' = FALSE
  /\ IF armed THEN UartTimeout ELSE UNCHANGED consoleVars
  /\ armed' = TRUE
  /\ ipc' = "next"
  /\ UNCHANGED << accelVars, mainVars, byte, irqMask, edgeCap, appVars,
                  ghostVars >>

----------------------------------------------------------------------------
(* irq_button: the counter, then the edge capture register.                *)

CountPress ==
  /\ Serves(PIO_IRQ)
  /\ cnt' = (cnt + 1) % CntMod
  /\ fresh' = FALSE
  /\ ipc' = "clear"
  /\ UNCHANGED << accelVars, consoleVars, mainVars, byte, deviceVars, armed,
                  acc, seg, pio, label, seen, nackMain, nackIsr >>

(* A faulty ClearEdge: the edge capture register keeps the edge.           *)
KeepEdge ==
  /\ ipc = "clear" /\ ipc' = "next"
  /\ UNCHANGED << accelVars, consoleVars, mainVars, byte, deviceVars, armed,
                  appVars, ghostVars >>

ClearEdge ==
  /\ ipc = "clear"
  /\ edgeCap' = FALSE
  /\ ipc' = "next"
  /\ UNCHANGED << accelVars, consoleVars, mainVars, byte, tmo, irqMask, armed,
                  appVars, ghostVars >>

----------------------------------------------------------------------------
(* irq_timer: six extracted_data calls, the conversion, a line on the      *)
(* console, the display, the timer status.                                 *)

Isr(from, to) == ipc = from /\ ipc' = to

BeginReading ==
  /\ Serves(TIMER_IRQ) /\ timerIsr = "irq_timer"
  /\ ipc' = "start" /\ byte' = 1
  /\ seen' = {sample} /\ nackIsr' = FALSE
  /\ UNCHANGED << accelVars, consoleVars, mainVars, deviceVars, armed, appVars,
                  nackMain, fresh >>

(* extracted_data(DataReg(byte)), results ignored but for the byte read.   *)
ReadStart(from, to, read) ==
  /\ Isr(from, to)
  /\ \E ack \in Acks : /\ I2C_start(read, ack)
                       /\ nackIsr' = (nackIsr \/ ~ack)
  /\ UNCHANGED << consoleVars, mainVars, byte, deviceVars, armed, appVars,
                  seen, nackMain, fresh >>

ReadRegister ==
  /\ Isr("reg", "restart")
  /\ I2C_write(DataReg(byte), FALSE)
  /\ UNCHANGED << consoleVars, mainVars, byte, deviceVars, armed, appVars,
                  ghostVars >>

ReadData ==
  LET a == ByteAxis(byte)
  IN  /\ Isr("read", IF byte < 6 THEN "start" ELSE "convert")
      /\ I2C_read_last
      /\ acc' = [acc EXCEPT ![a] = IF byte % 2 = 1 THEN ReadByte
                                   ELSE Combine(acc[a], ReadByte)]
      /\ byte' = IF byte < 6 THEN byte + 1 ELSE byte
      /\ UNCHANGED << consoleVars, mainVars, deviceVars, armed, cnt, seg, pio,
                      label, ghostVars >>

Convert ==
  /\ Isr("convert", "print")
  /\ acc' = [a \in Axes |-> Scaled(Signed(acc[a]))]
  /\ UNCHANGED << accelVars, consoleVars, mainVars, byte, deviceVars, armed,
                  cnt, seg, pio, label, ghostVars >>

(* alt_printf through the C library to the UART driver.  The library hands *)
(* a line over at its newlines: its calls are counted as one of MsgLen     *)
(* characters.  It calls again for the rest of a short write and gives up  *)
(* on -EIO.                                                                *)
PrintLine ==
  /\ Isr("print", "write")
  /\ label' = cnt % 3
  /\ WriteCall(MsgLen)
  /\ UNCHANGED << accelVars, mainVars, byte, deviceVars, armed, cnt, acc, seg,
                  pio, ghostVars >>

Writing ==
  /\ ipc = "write"
  /\ \/ WriteCopy
     \/ WriteKick
     \/ WriteSpin
     \/ left > 0 /\ moved /\ WriteCall(left)
  /\ UNCHANGED << accelVars, mainVars, irqVars, deviceVars, armed, appVars,
                  ghostVars >>

PrintDone ==
  /\ Isr("write", "show")
  /\ wpc = "idle" /\ (left = 0 \/ ~moved)
  /\ UNCHANGED << accelVars, consoleVars, mainVars, byte, deviceVars, armed,
                  appVars, ghostVars >>

(* A faulty Show: the PIOs are written before seg_afficher runs.           *)
ShowBefore ==
  /\ Isr("show", "ack")
  /\ seg' = [seg EXCEPT ![cnt % 3] = Digits(acc[cnt % 3])]
  /\ pio' = seg[cnt % 3]
  /\ UNCHANGED << accelVars, consoleVars, mainVars, byte, deviceVars, armed,
                  cnt, acc, label, ghostVars >>

(* seg_afficher, then the five PIO writes.                                 *)
Show ==
  /\ Isr("show", "ack")
  /\ seg' = [seg EXCEPT ![cnt % 3] = Digits(acc[cnt % 3])]
  /\ pio' = seg'[cnt % 3]
  /\ UNCHANGED << accelVars, consoleVars, mainVars, byte, deviceVars, armed,
                  cnt, acc, label, ghostVars >>

(* A faulty AckTimer: the button is cleared with the timer.                *)
AckTimerDebounced ==
  /\ Isr("ack", "next")
  /\ tmo' = FALSE /\ edgeCap' = FALSE
  /\ UNCHANGED << accelVars, consoleVars, mainVars, byte, irqMask, armed,
                  appVars, ghostVars >>

AckTimer ==
  /\ Isr("ack", "next")
  /\ tmo' = FALSE
  /\ UNCHANGED << accelVars, consoleVars, mainVars, byte, irqMask, edgeCap,
                  armed, appVars, ghostVars >>

IrqStep ==
  \/ TakeIrq \/ ReturnFromIrq \/ ServeUart \/ ServeSystemClock
  \/ CountPress \/ ClearEdge
  \/ BeginReading
  \/ ReadStart("start", "reg", FALSE) \/ ReadRegister
  \/ ReadStart("restart", "read", TRUE) \/ ReadData
  \/ Convert \/ PrintLine \/ Writing \/ PrintDone \/ Show \/ AckTimer

----------------------------------------------------------------------------
(* The devices and the world                                               *)

(* The timer reaches zero.  With PromptHost, not before the host has read  *)
(* everything printed until then.                                          *)
TimerExpires ==
  /\ ~tmo
  /\ PromptHost => ring = 0 /\ fifo = 0
  /\ tmo' = TRUE
  /\ UNCHANGED << accelVars, consoleVars, mainVars, irqVars, irqMask, edgeCap,
                  armed, appVars, ghostVars >>

(* PIO_0 captures both edges of the button: a press, then a release.       *)
ButtonMoves ==
  /\ edgeCap' = TRUE
  /\ fresh' = TRUE
  /\ UNCHANGED << accelVars, consoleVars, mainVars, irqVars, tmo, irqMask,
                  armed, appVars, seen, nackMain, nackIsr >>

SampleChanges ==
  /\ NewSample
  /\ seen' = IF ipc \in Reads THEN seen \cup {sample'} ELSE seen
  /\ UNCHANGED << consoleVars, mainVars, irqVars, deviceVars, armed, appVars,
                  nackMain, nackIsr, fresh >>

HostActs ==
  /\ HostRead \/ HostPing \/ HostPlug
  /\ UNCHANGED << accelVars, labVars >>

World == TimerExpires \/ ButtonMoves \/ SampleChanges \/ HostActs

LabNext == MainStep \/ IrqStep \/ World

LabSpec == LabInit /\ [][LabNext]_vars

(* The processor keeps executing and the timer keeps running; an attached  *)
(* host keeps reading.  Nothing is assumed of the button or of the cable.  *)
LabFairSpec ==
  /\ LabSpec
  /\ WF_vars(MainStep \/ IrqStep)
  /\ WF_vars(TimerExpires)
  /\ WF_vars(HostRead /\ UNCHANGED << accelVars, labVars >>)

----------------------------------------------------------------------------
(* Properties                                                              *)

LabTypeOK ==
  /\ AccelTypeOK /\ ConsoleTypeOK
  /\ mpc \in {"init", "start", "reg", "data", "regTimer", "regButton", "loop"}
  /\ call \in 1..Len(OffsetCalls)
  /\ ipc \in {"none", "entry", "next", "clear", "convert", "print", "write",
              "show", "ack"} \cup Reads
  /\ byte \in 1..6
  /\ ienable \subseteq {UART_IRQ, PIO_IRQ, TIMER_IRQ}
  /\ timerIsr \in {"alt_avalon_timer_sc_irq", "irq_timer"}
  /\ tmo \in BOOLEAN /\ irqMask \in BOOLEAN /\ edgeCap \in BOOLEAN
  /\ armed \in BOOLEAN
  /\ cnt \in 0..(CntMod - 1)
  /\ acc \in [Axes -> MilliG]
  /\ seg \in [Axes -> Shown]
  /\ pio \in Shown
  /\ label \in Axes
  /\ seen \subseteq Samples
  /\ nackMain \in BOOLEAN /\ nackIsr \in BOOLEAN /\ fresh \in BOOLEAN

(* A driver call made by main or by irq_timer finds the bus as its own     *)
(* previous call left it: the two never mix their transactions, although   *)
(* both use the one controller without a lock.                             *)
AddressedRegister ==
  /\ ipc = "read" /\ ~nackIsr => sel = "read" /\ ptr = DataReg(byte)
  /\ mpc = "data" /\ ~nackMain => sel = "data" /\ ptr = OffsetCalls[call].reg

(* Once main has registered its handlers, and however the interrupts fell  *)
(* until then, the chip holds the calibration, unless it refused its       *)
(* address to a send_offset that never looks at the answer.                *)
Calibrated == mpc = "loop" /\ ~nackMain => ofs = Calibration

(* A refresh during which the chip did not change its sample shows that    *)
(* sample on the selected axis, digit for digit.                           *)
StableReading ==
  ipc = "ack" /\ ~nackIsr =>
    \A s \in Samples : seen = {s} => pio = Reading(s[cnt % 3])

(* The line printed names the axis the digits belong to: no button         *)
(* interrupt comes between the two uses of cnt.                            *)
LabelMatchesDisplay == ipc = "ack" => label = cnt % 3 /\ pio = seg[label]

(* alt_irq_handler is never entered with nothing pending: its first pass   *)
(* would search for a set bit forever.                                     *)
EntryFindsWork == ipc = "entry" => Pending # {}

(* The counter moves only for a movement of the button it has not counted. *)
PressCountedOnce == [][cnt' # cnt => fresh]_vars

(* irq_timer waits for room in the ring with every interrupt disabled.     *)
Hung == ipc = "write" /\ wpc = "spin" /\ ~SpinOver

(* Nothing any device or the host does ends that wait: the interrupt that  *)
(* would make room and the alarm that would give up cannot run.            *)
HangIsPermanent == [][Hung => Hung']_vars

(* Button interrupts have a higher priority than the timer's and are left  *)
(* out of what the timer can wait for: the user stops at some point.       *)
ButtonRests == <>[][~ButtonMoves]_vars

(* Where irq_timer is once it has begun.                                   *)
TimerSteps ==
  Reads \cup {"convert", "print", "write", "show", "ack"}

(* An expiry leads to a whole refresh of the display or to the hang.  One  *)
(* that comes while a refresh runs does not count: the status is cleared   *)
(* at its end, for both (main.c:192).                                      *)
TimeoutServed ==
  ButtonRests => (tmo /\ ipc \notin TimerSteps /\ mpc = "loop" ~> ipc = "ack" \/ Hung)

(* An edge captured while irq_button is not between its two statements is  *)
(* counted, unless the processor hangs first.  Nothing is said of one that *)
(* comes between them: the code drops it (main.c:198-200).                 *)
EdgeServed ==
  edgeCap /\ ipc # "clear" /\ mpc = "loop" ~> ~fresh \/ Hung

(* An uncounted movement of the button disappears from the register there  *)
(* and where main prepares the button, nowhere else.                       *)
Dropped == fresh /\ ~edgeCap
EdgeKept == [][Dropped' /\ ~Dropped => mpc = "init" \/ ipc = "clear"]_vars

(* A pending expiry is taken back by the handler that serves it alone.     *)
ExpiryKept ==
  [][tmo /\ ~tmo' => ipc = "ack" \/ timerIsr = "alt_avalon_timer_sc_irq"]_vars

(* Interrupts are lost in two places only, the end of irq_button and the   *)
(* end of irq_timer; one that comes elsewhere is served, unless the console*)
(* hangs (alt_irq_handler.c:114, main.c:192, :200).                        *)
InterruptsServed == TimeoutServed /\ EdgeServed /\ EdgeKept /\ ExpiryKept

(* The display is refreshed again and again.                               *)
RefreshGoesOn ==
  ButtonRests => (<>(mpc = "loop") => []<>(ipc = "ack"))

----------------------------------------------------------------------------
(* The inductive invariant behind the safety properties, part by part.     *)

(* While irq_timer reads, the words are assembled byte by byte.            *)
WordsAssembled ==
  /\ ipc \in Reads =>
       /\ \A a \in Axes : a < ByteAxis(byte) => acc[a] \in Word
       /\ byte % 2 = 0 => acc[ByteAxis(byte)] \in Byte
  /\ ipc = "convert" => acc \in [Axes -> Word]

(* The handlers are registered last, and irq_timer runs only registered.   *)
HandlersLast ==
  /\ timerIsr = "irq_timer" <=> mpc \in {"regButton", "loop"}
  /\ {UART_IRQ, TIMER_IRQ} \subseteq ienable
  /\ PIO_IRQ \in ienable <=> mpc = "loop"
  /\ ipc \in TimerSteps => timerIsr = "irq_timer"

(* How far the transaction under way is.                                   *)
Transaction ==
  /\ mpc = "reg" => sel \in {"pointer", "off"}
  /\ ipc = "reg" => sel \in {"pointer", "off"}
  /\ mpc = "reg" /\ ~nackMain => sel = "pointer"
  /\ ipc = "reg" /\ ~nackIsr => sel = "pointer"
  /\ ipc = "restart" /\ ~nackIsr => ptr = DataReg(byte)

(* What send_offset has put in the chip so far.                            *)
OffsetsSoFar ==
  /\ mpc = "init" => call = 1
  /\ ~nackMain =>
    /\ mpc \in {"start", "reg", "data"} /\ call > 4 => ofs[0] = 6
    /\ mpc \in {"start", "reg", "data"} /\ call > 5 => ofs[1] = 6
    /\ mpc \in {"regTimer", "regButton", "loop"} => ofs = Calibration

(* How far a sample that did not change has come on its way to the digits. *)
SampleSoFar ==
  /\ ipc \in Reads => sample \in seen
  /\ ~nackIsr => \A s \in Samples : seen = {s} =>
       /\ ipc \in Reads =>
            /\ \A a \in Axes : a < ByteAxis(byte) => acc[a] = s[a]
            /\ byte % 2 = 0 => acc[ByteAxis(byte)] = s[ByteAxis(byte)] % 256
       /\ ipc = "convert" => acc = s
       /\ ipc \in {"print", "write", "show"} =>
            acc = [a \in Axes |-> Scaled(Signed(s[a]))]

(* The line is printed and the digits shown for the same axis.             *)
LabelSoFar == ipc \in {"write", "show"} => label = cnt % 3

(* An edge in the capture register has not been counted, save between the  *)
(* two statements of irq_button.                                           *)
EdgeUncounted == edgeCap /\ ipc # "clear" => fresh

SafetyInv ==
  /\ LabTypeOK /\ WordsAssembled /\ HandlersLast
  /\ Transaction /\ AddressedRegister /\ OffsetsSoFar
  /\ SampleSoFar /\ StableReading
  /\ LabelSoFar /\ LabelMatchesDisplay
  /\ EntryFindsWork /\ EdgeUncounted
=============================================================================
