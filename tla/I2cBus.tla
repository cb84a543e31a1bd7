------------------------------- MODULE I2cBus -------------------------------
(***************************************************************************)
(* The driver of opencores_i2c.c, called as main.c calls it, the master    *)
(* I2cCore and the chip I2cChip on the two lines.  A step is a clock.  The *)
(* driver is a list of register accesses per call, each of two clocks, the *)
(* poll of TIP repeated; between accesses the processor may take any time. *)
(***************************************************************************)
EXTENDS I2cCore, I2cChip, Sequences

CONSTANTS
  ClkFreq,        \* TIMER_0_FREQ, the clk argument of I2C_init
  SclSpeed,       \* SCL_speed
  Pointed,        \* the registers main.c reads and sets
  Values,         \* the values it sets them to
  MaxRestarts,    \* times the program may be started again
  AgeCap          \* the ages of the lines are counted up to here

ASSUME BusAssumption ==
  /\ ClkFreq \in Nat /\ SclSpeed \in Nat \ {0}
  /\ 2 <= ClkFreq \div (5 * SclSpeed) /\ ClkFreq \div (5 * SclSpeed) <= 65536
  /\ Pointed \subseteq Byte /\ Values \subseteq Byte
  /\ MaxRestarts \in Nat /\ AgeCap \in Nat

VARIABLES
  call,           \* the call in progress, or the last one
  dpc,            \* the access it has come to; 0 outside a call
  answer,         \* its result
  todo,           \* where the caller is: the next call it makes
  restarts,
  sclAge, sdaAge, \* clocks the level of each line is old
  stretched,      \* history: the chip holds, or has held, this period of SCL
  before          \* history: the chip and the answer when the call began

I2C_ACK == 0
I2C_NOACK == 1

Now == [ofs |-> ofs, ptr |-> ptr, sel |-> sel, call |-> call, answer |-> answer]

driverVars == << call, dpc, answer, todo >>
vars == << coreVars, chipVars, driverVars, restarts, sclAge, sdaAge, stretched, before >>

----------------------------------------------------------------------------
(* opencores_i2c.c                                                         *)

(* A faulty Prescale: six phases to a period of SCL.                       *)
PrescaleOfSix == ClkFreq \div (6 * SclSpeed) - 1

Prescale == ClkFreq \div (5 * SclSpeed) - 1

Call(op, arg, last) == [op |-> op, arg |-> arg, last |-> last]
InitCall == Call("init", 0, FALSE)

WriteCommand(last) == IF last THEN {"wr", "sto"} ELSE {"wr"}

ReadCommand(last) == IF last THEN {"rd", "ack", "sto"} ELSE {"rd"}

(* The register accesses of I2C_init, I2C_start, I2C_write and I2C_read;   *)
(* in the last three the access before the last is the poll.               *)
Accesses(c) ==
  CASE c.op = "init" ->
         << WriteOf("CTR", FALSE), WriteOf("CR", {"iack"}),
            WriteOf("PRERLO", Prescale % 256), WriteOf("PRERHI", Prescale \div 256),
            WriteOf("CTR", TRUE) >>
    [] c.op = "start" ->
         << WriteOf("TXR", 2 * I2C_add + c.arg), WriteOf("CR", {"sta", "wr"}),
            ReadOf("SR"), ReadOf("SR") >>
    [] c.op = "write" ->
         << WriteOf("TXR", c.arg), WriteOf("CR", WriteCommand(c.last)),
            ReadOf("SR"), ReadOf("SR") >>
    [] c.op = "read" ->
         << WriteOf("CR", ReadCommand(c.last)), ReadOf("SR"), ReadOf("RXR") >>

Length(c) == Len(Accesses(c))

(* while(IORD_OPENCORES_I2C_SR(base) & OPENCORES_I2C_SR_TIP_MSK);          *)
Polling == dpc > 0 /\ call.op # "init" /\ dpc = Length(call) - 1

TipRead == (wb_dat \div 2) % 2 = 1

Result ==
  CASE call.op = "init" -> 0
    [] call.op = "read" -> wb_dat
    [] OTHER -> IF wb_dat \div 128 = 1 THEN I2C_NOACK ELSE I2C_ACK

----------------------------------------------------------------------------
(* Steps of the driver.                                                    *)

(* I2C_init, then send_offset and extracted_data, in any order.            *)
Calls ==
  CASE todo = "init" -> { << InitCall, "open" >> }
    [] todo = "open" -> { << Call("start", 0, FALSE), "point" >> }
    [] todo = "point" -> { << Call("write", r, FALSE), "go on" >> : r \in Pointed }
    [] todo = "go on" -> { << Call("write", v, TRUE), "open" >> : v \in Values }
                         \cup { << Call("start", 1, FALSE), "fetch" >> }
    [] todo = "fetch" -> { << Call("read", 0, TRUE), "open" >> }

(* Loading the program and the C start-up take longer than any transfer.   *)
Settled == byte_state = "idle" /\ cr \cap {"rd", "wr"} = {}

Invoke ==
  /\ dpc = 0
  /\ todo = "init" => Settled
  /\ \E c \in Calls : call' = c[1] /\ todo' = c[2]
  /\ dpc' = 1
  /\ before' = Now
  /\ UNCHANGED answer

Begun == dpc > 0 /\ ~wb_ack /\ UNCHANGED << driverVars, before >>

Ended ==
  /\ dpc > 0 /\ wb_ack
  /\ dpc' = CASE Polling /\ TipRead -> dpc
              [] dpc = Length(call) -> 0
              [] OTHER -> dpc + 1
  /\ answer' = IF dpc' = 0 THEN Result ELSE answer
  /\ UNCHANGED << call, todo, before >>

----------------------------------------------------------------------------
(* The board.  Each line is low when anyone pulls it low.                  *)

Scl == IF scl_oen = 1 /\ ChipScl = 1 THEN 1 ELSE 0
Sda == IF sda_oen = 1 /\ csda = 1 THEN 1 ELSE 0

Older(age) == IF age < AgeCap THEN age + 1 ELSE AgeCap

Board(acc) ==
  /\ CoreClock(acc, Scl, Sda)
  /\ ChipClock(Scl, Sda)
  /\ sclAge' = IF Scl' = Scl THEN Older(sclAge) ELSE 0
  /\ sdaAge' = IF Sda' = Sda THEN Older(sdaAge) ELSE 0
  /\ stretched' = (scl_oen = 1 /\ (ChipScl = 0 \/ stretched))

ProgramClock ==
  /\ \/ Invoke /\ Board(NoAccess)
     \/ (Begun \/ Ended) /\ Board(Accesses(call)[dpc])
  /\ UNCHANGED restarts

OtherClock ==
  /\ ~(dpc > 0 /\ wb_ack)
  /\ UNCHANGED << driverVars, before, restarts >>
  /\ Board(NoAccess)

(* The program is loaded again by the debugger: lab3.v leaves the debug    *)
(* reset of the processor unconnected, so the peripherals go on.           *)
Restart ==
  /\ restarts < MaxRestarts
  /\ restarts' = restarts + 1
  /\ dpc' = 0 /\ todo' = "init" /\ call' = InitCall /\ answer' = 0
  /\ UNCHANGED before
  /\ Board(NoAccess)

BusInit ==
  /\ CoreInit /\ ChipInit
  /\ call = InitCall /\ dpc = 0 /\ answer = 0 /\ todo = "init"
  /\ restarts = 0 /\ sclAge = AgeCap /\ sdaAge = AgeCap /\ stretched = FALSE
  /\ before = Now

BusNext == ProgramClock \/ OtherClock \/ Restart

BusSpec == BusInit /\ [][BusNext]_vars /\ WF_vars(ProgramClock)

----------------------------------------------------------------------------
Done(op) == dpc = 0 /\ call.op = op

(* An acknowledge that I2C_start or I2C_write reports was one the chip     *)
(* gave: it is listening, to what it was asked.                            *)
AckMeansHeard ==
  /\ Done("start") /\ answer = I2C_ACK =>
       sel = IF call.arg = 1 THEN "read" ELSE "pointer"
  /\ Done("write") /\ answer = I2C_ACK /\ ~call.last => sel = "data" /\ ptr = call.arg

(* Each call is one step of I2cCalls, taken when it returns.               *)
Promised ==
  INSTANCE I2cCalls WITH
    ofs <- IF dpc = 0 THEN ofs ELSE before.ofs,
    ptr <- IF dpc = 0 THEN ptr ELSE before.ptr,
    sel <- IF dpc = 0 THEN sel ELSE before.sel,
    call <- IF dpc = 0 THEN call ELSE before.call,
    answer <- IF dpc = 0 THEN answer ELSE before.answer,
    Arguments <- Pointed \cup Values

CallsAsPromised == Promised!CallsSpec

(* A call with the stop bit returns when the stop is over: controller and  *)
(* chip are at rest and both lines are high.                               *)
LastReleasesBus ==
  dpc = 0 /\ call.last =>
    /\ byte_state = "idle" /\ c_state = "idle" /\ ~done
    /\ Scl = 1 /\ Sda = 1
    /\ phase = "off"

(* The chip sees a start or a stop condition only in a call that asked for *)
(* one: no data bit moves while the clock is high.                         *)
FramedAsAsked ==
  /\ StartSeen(Scl, Sda) => call.op = "start" /\ dpc > 0
  /\ StopSeen(Scl, Sda) => call.last /\ dpc > 0

(* What the two lines carry is the calls, one after the other              *)
(* (opencores_i2c.c:45-183).                                               *)
LinesFramed == FramedAsAsked /\ LastReleasesBus

(* With one master on the bus it is never lost: what the core reads back   *)
(* of its own line, clocks later, never looks like another master.         *)
BusNeverLost == ~i2c_al /\ ~al

(* The table of the bit controller for fast mode, which SclSpeed asks for: *)
(* both periods of the clock, the setup time of a stop condition and the   *)
(* time between a stop and the next start.  After a stretched low period   *)
(* the divider has run down and the high one may be shorter; the setup     *)
(* time of a repeated start is one phase, shorter than the table's.        *)
Clocks(ns) == ((ClkFreq \div 1000000) * ns) \div 1000

SclMoves(from) == Scl = from /\ Scl' = 1 - from
SdaMoves(from) == Scl = 1 /\ Scl' = 1 /\ Sda = from /\ Sda' = 1 - from

FastModeTiming ==
  [][ /\ SclMoves(1) /\ ~stretched => sclAge + 1 >= Clocks(600)
      /\ SclMoves(0) => sclAge + 1 >= Clocks(1300)
      /\ SdaMoves(0) /\ ~stretched => sclAge + 1 >= Clocks(600)
      /\ SdaMoves(1) /\ phase = "off" => sdaAge + 1 >= Clocks(1300) ]_vars

(* However a restart finds the chip, false acknowledges end: the calls that*)
(* fail clock it out of the byte it was sending.                           *)
Recovers == <>[]AckMeansHeard

(* Every call returns: the unbounded polls end.                            *)
CallsReturn == dpc > 0 ~> dpc = 0
=============================================================================
