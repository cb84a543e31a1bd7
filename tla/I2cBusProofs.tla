---------------------------- MODULE I2cBusProofs ----------------------------
(***************************************************************************)
(* The driver, the master and the chip, clock by clock: the bus is never   *)
(* lost, the lines carry what the calls ask for, and each call is a step   *)
(* of I2cCalls.  For every prescale of 2 or more, a chip that answers or   *)
(* not and stretches the clock as long as it likes, and a program that is  *)
(* not loaded again.                                                       *)
(***************************************************************************)
EXTENDS I2cBus, Arithmetic

Bits == {0, 1}

----------------------------------------------------------------------------
(* The driver.                                                             *)

(* The caller goes on from a call as main.c does.                          *)
NextCall ==
  CASE call.op = "init" -> todo \in {"init", "open"}
    [] call.op = "start" -> todo = IF call.arg = 0 THEN "point" ELSE "fetch"
    [] call.op = "write" -> todo = IF call.last THEN "open" ELSE "go on"
    [] call.op = "read" -> todo = "open"

(* The access that gives the command; the poll is the next one.            *)
Issue == IF call.op = "read" THEN 1 ELSE 2
Poll == Issue + 1

CallInv ==
  /\ call = Call(call.op, call.arg, call.last)
  /\ call.op \in {"init", "start", "write", "read"}
  /\ call.arg \in Byte /\ call.last \in BOOLEAN
  /\ call.op = "init" => call.arg = 0 /\ ~call.last
  /\ call.op = "start" => call.arg \in Bits /\ ~call.last
  /\ call.op = "read" => call.arg = 0 /\ call.last
  /\ NextCall

DriverInv ==
  /\ dpc \in 0 .. (IF call.op = "init" THEN 5 ELSE Issue + 2)
  /\ wb_ack \in BOOLEAN
  /\ dpc = 0 => ~wb_ack
  /\ todo = "init" => dpc = 0 /\ call.op = "init"
  /\ restarts = 0 /\ MaxRestarts = 0

----------------------------------------------------------------------------
(* The registers.  The divider runs from the end of I2C_init on.           *)
Enabled == todo # "init" /\ (call.op = "init" => dpc = 0 \/ (dpc = 5 /\ wb_ack))

Written(k) == dpc > k \/ (dpc = k /\ wb_ack)

Unset == todo = "init" \/ (call.op = "init" /\ dpc > 0 /\ ~Written(3))
HalfSet == call.op = "init" /\ Written(3) /\ ~Written(4)
Set == todo # "init" /\ (call.op = "init" => dpc = 0 \/ Written(4))

PrescaleInv ==
  /\ Prescale \in Nat /\ 2 <= Prescale /\ Prescale <= 65535
  /\ ctr \in BOOLEAN /\ (ctr <=> Enabled)
  /\ Unset => prer = 65535
  /\ HalfSet => prer = 65280 + (Prescale % 256)
  /\ Set => prer = Prescale

Command ==
  CASE call.op = "start" -> {"sta", "wr"}
    [] call.op = "write" -> WriteCommand(call.last)
    [] call.op = "read" -> ReadCommand(call.last)

Commanded == call.op # "init" /\ cr = Command

(* Before a command and after it, the core is at rest.                     *)
Cleared == cr \subseteq {"ack"}
Resting == Cleared /\ byte_state = "idle" /\ ~done

AtPoll == call.op # "init" /\ dpc = Poll
AtIssue == call.op # "init" /\ dpc = Issue /\ wb_ack

CommandInv ==
  /\ tip \in BOOLEAN /\ done \in BOOLEAN
  /\ AtIssue => Commanded /\ byte_state = "idle" /\ ~done /\ ~tip
  /\ AtPoll => Resting \/ (Commanded /\ tip /\ (done <=> byte_state = "idle"))
  /\ AtPoll /\ wb_ack /\ ~TipRead => Resting /\ ~tip
  /\ ~AtPoll /\ ~AtIssue => Resting /\ ~tip
  /\ byte_state # "idle" => AtPoll /\ Commanded

TransmitInv ==
  call.op \in {"start", "write"} /\ Written(1) =>
    txr = IF call.op = "start" THEN 2 * I2C_add + call.arg ELSE call.arg

RegisterTypes ==
  /\ txr \in Byte /\ sr \in Byte /\ dcnt \in 0 .. 7
  /\ rxack \in Bits /\ ack_out \in Bits /\ core_rxd \in Bits /\ core_txd \in Bits
  /\ busy \in BOOLEAN /\ irq_flag \in BOOLEAN /\ ld \in BOOLEAN /\ shift \in BOOLEAN

----------------------------------------------------------------------------
(* The byte controller works for the command of the call.                  *)
Works(ops, cmd) == call.op \in ops /\ core_cmd = cmd

ByteInv ==
  /\ byte_state \in {"idle", "start", "write", "read", "ack", "stop"}
  /\ byte_state = "idle" => core_cmd = "nop" /\ ~ld /\ ~shift
  /\ byte_state = "start" => Works({"start"}, "start")
  /\ byte_state = "write" => Works({"start", "write"}, "write")
  /\ byte_state = "read" => Works({"read"}, "read")
  /\ byte_state = "ack" =>
       Works({"start", "write"}, "read") \/ (Works({"read"}, "write") /\ core_txd = 1)
  /\ byte_state = "stop" => Works({"write", "read"}, "stop") /\ call.last

ShiftInv ==
  /\ ld \/ shift => c_state = "idle" /\ ~core_ack
  /\ ld => ~shift /\ byte_state \in {"start", "write", "read"}

----------------------------------------------------------------------------
(* The bit controller: four or five states to a command.                   *)
Starts == {"start_a", "start_b", "start_c", "start_d", "start_e"}
Stops == {"stop_a", "stop_b", "stop_c", "stop_d"}
Reads == {"rd_a", "rd_b", "rd_c", "rd_d"}
Writings == {"wr_a", "wr_b", "wr_c", "wr_d"}

StateInv ==
  /\ c_state \in {"idle"} \cup Starts \cup Stops \cup Reads \cup Writings
  /\ c_state \in Starts => core_cmd = "start"
  /\ c_state \in Stops => core_cmd = "stop"
  /\ c_state \in Reads => core_cmd = "read"
  /\ c_state \in Writings => core_cmd = "write"
  /\ core_ack \in BOOLEAN
  /\ core_ack => c_state = "idle" /\ core_cmd # "nop"

(* The first two clocks of a phase; it lasts three at least.               *)
First == ~clk_en /\ cnt = prer - 1
Second == ~clk_en /\ cnt = prer - 2

DividerInv ==
  /\ clk_en \in BOOLEAN
  /\ ~ctr => clk_en /\ c_state = "idle"
  /\ ctr => cnt \in 0 .. prer /\ clk_en = (cnt = prer)
  /\ core_ack => First

----------------------------------------------------------------------------
(* What the core gives the lines.                                          *)
Low == scl_oen = 0
Gives(scl, sda) == scl_oen = scl /\ sda_oen = sda

(* Between bits the clock is low, between transfers both lines are free.   *)
Freed ==
  \/ call.op = "init"
  \/ (dpc = 0 \/ dpc >= Poll) /\ call.last
  \/ 0 < dpc /\ dpc <= Issue /\ call.op = "start" /\ call.arg = 0

RestInv ==
  /\ scl_oen \in Bits /\ sda_oen \in Bits
  /\ c_state = "idle" /\ ~Low => sda_oen = 1
  /\ byte_state = "idle" => (Low <=> ~Freed)
  /\ byte_state \in {"write", "read", "ack"} /\ c_state = "idle" => Low
  /\ byte_state = "stop" /\ c_state = "idle" => (Low <=> ~core_ack)
  /\ byte_state = "start" /\ core_ack => Low
  /\ core_ack /\ core_cmd = "start" => Gives(0, 0)
  /\ core_ack /\ core_cmd = "read" => Gives(0, 1)
  /\ core_ack /\ core_cmd = "stop" => Gives(1, 1)

PhaseInv ==
  /\ c_state \in {"wr_c", "wr_d"} => sda_chk = TRUE
  /\ c_state \notin {"wr_c", "wr_d"} => sda_chk = FALSE
  /\ c_state \in {"stop_a", "rd_a", "wr_a"} => Low
  /\ c_state = "start_a" => Low \/ sda_oen = 1
  /\ c_state = "start_b" => sda_oen = 1
  /\ c_state = "start_c" => Gives(1, 1)
  /\ c_state \in {"start_d", "start_e", "stop_c", "stop_d"} => Gives(1, 0)
  /\ c_state = "stop_b" => Gives(0, 0)
  /\ c_state = "rd_b" => Gives(0, 1)
  /\ c_state \in {"rd_c", "rd_d"} => Gives(1, 1)
  /\ c_state = "wr_b" => Gives(0, core_txd)
  /\ c_state \in {"wr_c", "wr_d"} => Gives(1, core_txd)

(* The bit to write is there before the line takes it, and stays.          *)
BitReady == core_txd = sr \div 128

WriteInv ==
  byte_state = "write" =>
    /\ c_state = "wr_a" => First \/ BitReady
    /\ c_state \in {"wr_b", "wr_c", "wr_d"} => BitReady

----------------------------------------------------------------------------
(* What the lines show, and when it reaches core and chip.                 *)
Rising == {"start_c", "stop_c", "rd_c", "wr_c"}
Setting == {"start_b", "stop_b", "rd_b", "wr_b"}

SamplesInv ==
  /\ sSCL = pscl /\ sSDA = psda
  /\ sSCL \in Bits /\ sSDA \in Bits /\ dSCL \in Bits /\ dSDA \in Bits
  /\ dscl_oen \in Bits /\ hold \in Nat
  /\ sSCL = 1 => hold = 0
  /\ sSCL = 1 /\ sSDA = 1 => csda = 1

ClockInv ==
  /\ Low /\ core_ack => sSCL = 1
  /\ Low /\ ~core_ack => sSCL = 0 /\ dscl_oen = 0
  /\ Low /\ ~core_ack /\ dSCL = 1 => c_state = "idle" /\ Second
  /\ ~Low /\ c_state \notin Rising => sSCL = 1 /\ dSCL = 1 /\ dscl_oen = 1
  /\ c_state \in Rising => /\ First \/ dscl_oen = 1
                           /\ sSCL = 0 => dSCL = 0
                           /\ clk_en => sSCL = 1 /\ dSCL = 1

(* SDA is as it will stay a phase before the clock rises.                  *)
DataInv ==
  /\ c_state \in Setting => /\ First \/ sSDA = Sda
                            /\ First \/ Second \/ dSDA = sSDA
  /\ c_state \in Rising \cup {"stop_d", "rd_d", "wr_d"} => sSDA = Sda /\ dSDA = sSDA
  /\ c_state = "start_d" => (First <=> sSDA = 1) /\ (sSDA = 1 => dSDA = 1)
  /\ c_state = "start_e" => sSDA = 0
  /\ core_ack => sSDA = 0 \/ (sSDA = dSDA /\ core_cmd # "stop")
  /\ ~Low /\ ~core_ack /\ c_state = "idle" =>
       sSDA = 1 /\ (dSDA = 1 \/ core_cmd = "nop")
  /\ ~Low /\ c_state \in {"start_a", "start_b"} => sSDA = 1 /\ dSDA = 1

NotLost ==
  /\ sto_condition \in BOOLEAN /\ sta_condition \in BOOLEAN
  /\ sto_condition => c_state = "idle"
  /\ i2c_al = FALSE /\ al = FALSE

----------------------------------------------------------------------------
(* The chip.                                                               *)
ChipInv ==
  /\ AccelTypeOK
  /\ phase \in {"off", "address", "receive", "ack", "send", "wait"}
  /\ bits \in Byte /\ nbits \in 0 .. 8 /\ csda \in Bits
  /\ csda = 0 => phase \in {"ack", "send"}
  /\ phase \in {"address", "receive"} /\ nbits = 0 => bits = 0

(* The bits a byte has left, and those of the shift register, once the     *)
(* load or the shift that is ordered is done.                              *)
Left == IF ld THEN 7 ELSE IF shift THEN (dcnt + 7) % 8 ELSE dcnt
Shifted == IF ld THEN txr ELSE IF shift THEN (2 * sr + core_rxd) % 256 ELSE sr

(* The bits the chip has seen, and what they are: the first ones of txr.   *)
Rose == core_ack \/ (c_state \in {"wr_c", "wr_d"} /\ sSCL = 1)
Seen == (7 - Left) + Bit(Rose)
Top(k) == IF k = 0 THEN 0 ELSE txr \div Weight[k]

(* A byte with q bits to go is the byte to transmit from there on.         *)
Matches(q, s) == s \div Weight[q + 1] = txr % (2 * Weight[8 - q])

Fresh == phase = "receive" /\ nbits = 0
Listens == sel \in {"pointer", "data"}
Selected ==
  sel = CASE call.op = "write" -> "data"
          [] call.op = "start" -> IF call.arg = 1 THEN "read" ELSE "pointer"

(* Between bytes the chip waits for one, gives one, or is not there.       *)
Asked == call.op = "read" \/ (call.op = "start" /\ call.arg = 1 /\ (dpc = 0 \/ dpc >= Poll))

BetweenInv ==
  byte_state = "idle" /\ phase # "off" =>
    /\ ~Freed
    /\ Asked => phase = "send" /\ nbits = 1 /\ sel = "read"
    /\ ~Asked => Fresh /\ Listens

(* A start condition, again: the clock's rise is taken for a first bit.    *)
StartInv ==
  byte_state = "start" =>
    /\ Left = 7
    /\ phase \in {"off", "address", "receive"}
    /\ phase = "receive" => ~core_ack /\ (nbits = 0 \/ (nbits = 1 /\ c_state \in {"start_c", "start_d"} /\ sSCL = 1))
    /\ phase = "address" => nbits = 0
    /\ phase = "address" <=> core_ack \/ c_state = "start_e" \/ (c_state = "start_d" /\ ~First)

SendInv ==
  byte_state = "write" =>
    /\ Matches(Left, Shifted)
    /\ phase # "off" =>
         /\ phase = (IF call.op = "start" THEN "address" ELSE "receive")
         /\ nbits = Seen /\ bits = Top(nbits)
         /\ call.op = "write" => Listens

FetchInv ==
  byte_state = "read" /\ phase # "off" =>
    phase = "send" /\ nbits = 8 - Left /\ sel = "read"

AnswerInv ==
  /\ byte_state = "ack" /\ core_cmd = "read" /\ phase # "off" => phase = "ack" /\ Selected
  /\ byte_state = "ack" /\ core_cmd = "write" =>
       /\ phase \in {"off", "wait"}
       /\ core_ack \/ c_state = "wr_d" \/ (c_state = "wr_c" /\ sSCL = 1) => phase = "off"

EndInv ==
  byte_state = "stop" /\ phase # "off" =>
    phase = "receive" /\ (nbits = 0 \/ (nbits = 1 /\ sSCL = 1))

SyncInv == BetweenInv /\ StartInv /\ SendInv /\ FetchInv /\ AnswerInv /\ EndInv

BusInv ==
  /\ CallInv /\ DriverInv /\ PrescaleInv /\ CommandInv /\ TransmitInv /\ RegisterTypes
  /\ ByteInv /\ ShiftInv /\ StateInv /\ DividerInv /\ RestInv /\ PhaseInv /\ WriteInv
  /\ SamplesInv /\ ClockInv /\ DataInv /\ NotLost /\ ChipInv /\ SyncInv

----------------------------------------------------------------------------
(* The driver and its accesses.                                            *)

(* The accesses of the four calls, one by one.                             *)
LEMMA AccessTable ==
  ASSUME CallInv
  PROVE  /\ call.op = "init" =>
              /\ Length(call) = 5
              /\ Accesses(call)[1] = WriteOf("CTR", FALSE)
              /\ Accesses(call)[2] = WriteOf("CR", {"iack"})
              /\ Accesses(call)[3] = WriteOf("PRERLO", Prescale % 256)
              /\ Accesses(call)[4] = WriteOf("PRERHI", Prescale \div 256)
              /\ Accesses(call)[5] = WriteOf("CTR", TRUE)
         /\ call.op \in {"start", "write"} =>
              /\ Length(call) = 4
              /\ Accesses(call)[1] = WriteOf("TXR", IF call.op = "start"
                                                   THEN 2 * I2C_add + call.arg ELSE call.arg)
              /\ Accesses(call)[2] = WriteOf("CR", Command)
              /\ Accesses(call)[3] = ReadOf("SR") /\ Accesses(call)[4] = ReadOf("SR")
         /\ call.op = "read" =>
              /\ Length(call) = 3
              /\ Accesses(call)[1] = WriteOf("CR", Command)
              /\ Accesses(call)[2] = ReadOf("SR") /\ Accesses(call)[3] = ReadOf("RXR")
<1>1. CASE call.op = "init"
  <2>1. Accesses(call) = << WriteOf("CTR", FALSE), WriteOf("CR", {"iack"}),
            WriteOf("PRERLO", Prescale % 256), WriteOf("PRERHI", Prescale \div 256),
            WriteOf("CTR", TRUE) >>
    BY <1>1 DEF Accesses
  <2>. QED
    BY <1>1, <2>1 DEF Length
<1>2. CASE call.op = "start"
  <2>1. Accesses(call) = << WriteOf("TXR", 2 * I2C_add + call.arg), WriteOf("CR", Command),
            ReadOf("SR"), ReadOf("SR") >>
    BY <1>2 DEF Accesses, Command
  <2>. QED
    BY <1>2, <2>1 DEF Length
<1>3. CASE call.op = "write"
  <2>1. Accesses(call) = << WriteOf("TXR", call.arg), WriteOf("CR", Command),
            ReadOf("SR"), ReadOf("SR") >>
    BY <1>3 DEF Accesses, Command
  <2>. QED
    BY <1>3, <2>1 DEF Length
<1>4. CASE call.op = "read"
  <2>1. Accesses(call) = << WriteOf("CR", Command), ReadOf("SR"), ReadOf("RXR") >>
    BY <1>4 DEF Accesses, Command
  <2>. QED
    BY <1>4, <2>1 DEF Length
<1>. QED
  BY <1>1, <1>2, <1>3, <1>4 DEF CallInv

(* The command set and what the controllers look for in it.                *)
LEMMA CommandTable ==
  ASSUME CallInv
  PROVE  /\ Commanded =>
              /\ "sta" \in cr <=> call.op = "start"
              /\ "rd" \in cr <=> call.op = "read"
              /\ "wr" \in cr <=> call.op # "read"
              /\ "sto" \in cr <=> call.last
              /\ "ack" \in cr <=> call.op = "read"
              /\ cr \cap {"rd", "wr"} # {} /\ cr \cap {"rd", "wr", "sto"} # {}
              /\ cr \ {"iack"} = cr
              /\ (cr \ {"sta", "sto", "rd", "wr"}) \ {"iack"} \subseteq {"ack"}
         /\ Cleared =>
              /\ cr \cap {"rd", "wr"} = {} /\ cr \cap {"rd", "wr", "sto"} = {}
              /\ cr \ {"iack"} \subseteq {"ack"}
              /\ (cr \ {"sta", "sto", "rd", "wr"}) \ {"iack"} \subseteq {"ack"}
<1>1. ASSUME Commanded
      PROVE  cr = IF call.op = "start" THEN {"sta", "wr"}
                  ELSE IF call.op = "write" THEN (IF call.last THEN {"wr", "sto"} ELSE {"wr"})
                  ELSE {"rd", "ack", "sto"}
  BY <1>1 DEF Commanded, Command, WriteCommand, ReadCommand, CallInv
<1>2. CASE Commanded
  <2>1. CASE call.op = "start"
    BY <1>1, <1>2, <2>1 DEF CallInv, Cleared
  <2>2. CASE call.op = "write" /\ call.last
    BY <1>1, <1>2, <2>2 DEF CallInv, Cleared
  <2>3. CASE call.op = "write" /\ ~call.last
    BY <1>1, <1>2, <2>3 DEF CallInv, Cleared
  <2>4. CASE call.op = "read"
    BY <1>1, <1>2, <2>4 DEF CallInv, Cleared
  <2>. QED
    BY <1>2, <2>1, <2>2, <2>3, <2>4 DEF CallInv, Commanded
<1>3. CASE Cleared
  <2>1. "rd" \notin cr /\ "wr" \notin cr /\ "sto" \notin cr /\ "sta" \notin cr
    BY <1>3 DEF Cleared
  <2>2. ~Commanded
    BY <1>1, <2>1
  <2>. QED
    BY <1>3, <2>1, <2>2 DEF Cleared
<1>. QED
  BY <1>2, <1>3

(* What the processor does in a clock, and the access it makes.            *)
Drives(acc) ==
  \/ Invoke /\ acc = NoAccess
  \/ (Begun \/ Ended) /\ acc = Accesses(call)[dpc]
  \/ ~(dpc > 0 /\ wb_ack) /\ UNCHANGED << driverVars, before >> /\ acc = NoAccess

Clock(acc) == Drives(acc) /\ Board(acc) /\ UNCHANGED restarts

(* A step is a clock.                                                      *)
LEMMA NextIsClock ==
  ASSUME DriverInv, BusNext
  PROVE  \E acc : Clock(acc)
<1>1. ~Restart
  BY SMT DEF DriverInv, Restart
<1>. QED
  BY <1>1 DEF BusNext, ProgramClock, OtherClock, Clock, Drives

(* It waits, goes on to the next access, or makes the next call.           *)
Stays == UNCHANGED << call, todo, dpc >>

Advances ==
  /\ dpc > 0 /\ wb_ack /\ UNCHANGED << call, todo >>
  /\ dpc' = IF dpc = Length(call) THEN 0 ELSE dpc + 1
  /\ AtPoll => ~TipRead

Invokes ==
  /\ dpc = 0 /\ dpc' = 1 /\ CallInv'
  /\ todo = "init" => call' = InitCall
  /\ todo = "open" => call' = Call("start", 0, FALSE)
  /\ call'.op = "init" => todo = "init"
  /\ todo' # "init"
  /\ todo \in {"point", "go on", "fetch"} =>
       call'.op # "init" /\ ~(call'.op = "start" /\ call'.arg = 0)
  /\ todo = "point" => call'.op = "write" /\ ~call'.last
  /\ todo = "go on" => \/ call'.op = "write" /\ call'.last
                       \/ call'.op = "start" /\ call'.arg = 1
  /\ todo = "fetch" => call'.op = "read"

(* How long a call is, and where its poll is.                              *)
LEMMA CallLength ==
  ASSUME CallInv
  PROVE  /\ Length(call) = (IF call.op = "init" THEN 5 ELSE Issue + 2)
         /\ Polling <=> AtPoll
         /\ call.op = "init" \/ Issue \in 1 .. 2
<1>1. call.op \in {"init", "start", "write", "read"}
  BY DEF CallInv
<1>2. Length(call) = IF call.op = "init" THEN 5 ELSE Issue + 2
  <2>1. /\ call.op = "init" => Length(call) = 5
        /\ call.op \in {"start", "write"} => Length(call) = 4
        /\ call.op = "read" => Length(call) = 3
    BY AccessTable
  <2>2. 1 + 2 = 3 /\ 2 + 2 = 4
    BY SMT
  <2>. QED
    BY <1>1, <2>1, <2>2 DEF Issue
<1>3. call.op = "init" \/ Issue \in 1 .. 2
  BY DEF Issue
<1>4. call.op # "init" => Length(call) - 1 = Poll
  BY <1>2, <1>3, SMT DEF Poll
<1>5. call.op # "init" => Poll > 0
  BY <1>3, SMT DEF Poll
<1>. QED
  BY <1>2, <1>3, <1>4, <1>5 DEF Polling, AtPoll

(* The fields of a call.                                                   *)
LEMMA CallFields ==
  ASSUME NEW o, NEW a, NEW l
  PROVE  Call(o, a, l).op = o /\ Call(o, a, l).arg = a /\ Call(o, a, l).last = l
BY DEF Call

(* The elements of a pair.                                                 *)
LEMMA Pair ==
  ASSUME NEW x, NEW y
  PROVE  << x, y >>[1] = x /\ << x, y >>[2] = y
OBVIOUS

(* A record of a call that is as it should be.                             *)
LEMMA CallsWell ==
  ASSUME NEW o \in {"init", "start", "write", "read"}, NEW a \in Byte, NEW l \in BOOLEAN,
         call' = Call(o, a, l),
         o = "init" => a = 0 /\ ~l /\ todo' = "open",
         o = "start" => a \in Bits /\ ~l /\ todo' = (IF a = 0 THEN "point" ELSE "fetch"),
         o = "write" => todo' = (IF l THEN "open" ELSE "go on"),
         o = "read" => a = 0 /\ l /\ todo' = "open"
  PROVE  CallInv' /\ call'.op = o /\ call'.arg = a /\ call'.last = l
<1>1. call'.op = o /\ call'.arg = a /\ call'.last = l
  BY DEF Call
<1>2. call' = Call(call'.op, call'.arg, call'.last)
  BY <1>1
<1>3. NextCall'
  BY <1>1 DEF NextCall
<1>. QED
  BY <1>1, <1>2, <1>3 DEF CallInv

(* The two levels.                                                         *)
LEMMA ZeroOne == 1 # 0 /\ 0 \in Byte /\ 1 \in Byte /\ 0 \in Bits /\ 1 \in Bits
BY SMT DEF Byte, Bits

(* A call that the caller makes is one it should make.                     *)
LEMMA InvokeMoves ==
  ASSUME CallInv, Invoke
  PROVE  Invokes
<1>1. PICK c \in Calls : call' = c[1] /\ todo' = c[2]
  BY DEF Invoke
<1>2. Pointed \subseteq Byte /\ Values \subseteq Byte
  BY BusAssumption
<1>3. dpc = 0 /\ dpc' = 1
  BY DEF Invoke
<1>4. CASE todo = "init"
  <2>1. Calls = { << Call("init", 0, FALSE), "open" >> }
    BY <1>4 DEF Calls, InitCall
  <2>2. call' = Call("init", 0, FALSE) /\ todo' = "open"
    <3>1. c = << Call("init", 0, FALSE), "open" >>
      BY <2>1
    <3>. QED
      BY <1>1, <3>1, Pair, Zenon
  <2>3. CallInv' /\ call'.op = "init"
    BY <2>2, CallsWell, ZeroOne
  <2>. QED
    BY <1>3, <1>4, <2>2, <2>3 DEF Invokes, InitCall
<1>5. CASE todo = "open"
  <2>1. Calls = { << Call("start", 0, FALSE), "point" >> }
    BY <1>5 DEF Calls
  <2>2. call' = Call("start", 0, FALSE) /\ todo' = "point"
    <3>1. c = << Call("start", 0, FALSE), "point" >>
      BY <2>1
    <3>. QED
      BY <1>1, <3>1, Pair, Zenon
  <2>3. CallInv' /\ call'.op = "start"
    BY <2>2, CallsWell, ZeroOne
  <2>. QED
    BY <1>3, <1>5, <2>2, <2>3 DEF Invokes
<1>6. CASE todo = "point"
  <2>1. Calls = { << Call("write", r, FALSE), "go on" >> : r \in Pointed }
    BY <1>6 DEF Calls
  <2>2. PICK r \in Byte : call' = Call("write", r, FALSE) /\ todo' = "go on"
    <3>1. PICK r \in Pointed : c = << Call("write", r, FALSE), "go on" >>
      BY <2>1
    <3>2. call' = Call("write", r, FALSE) /\ todo' = "go on"
      BY <1>1, <3>1, Pair, Zenon
    <3>. QED
      BY <1>2, <3>2
  <2>3. CallInv' /\ call'.op = "write" /\ call'.last = FALSE
    BY <2>2, CallsWell
  <2>. QED
    BY <1>3, <1>6, <2>2, <2>3 DEF Invokes
<1>7. CASE todo = "go on"
  <2>1. Calls = { << Call("write", v, TRUE), "open" >> : v \in Values }
                \cup { << Call("start", 1, FALSE), "fetch" >> }
    BY <1>7 DEF Calls
  <2>2. CASE c \in { << Call("write", v, TRUE), "open" >> : v \in Values }
    <3>1. PICK v \in Byte : call' = Call("write", v, TRUE) /\ todo' = "open"
      <4>1. PICK v \in Values : c = << Call("write", v, TRUE), "open" >>
        BY <2>2
      <4>2. call' = Call("write", v, TRUE) /\ todo' = "open"
        BY <1>1, <4>1, Pair, Zenon
      <4>. QED
        BY <1>2, <4>2
    <3>2. CallInv' /\ call'.op = "write" /\ call'.last = TRUE
      BY <3>1, CallsWell
    <3>. QED
      BY <1>3, <1>7, <3>1, <3>2 DEF Invokes
  <2>3. CASE c = << Call("start", 1, FALSE), "fetch" >>
    <3>1. call' = Call("start", 1, FALSE) /\ todo' = "fetch"
      BY <1>1, <2>3, Pair, Zenon
    <3>2. CallInv' /\ call'.op = "start" /\ call'.arg = 1
      BY <3>1, CallsWell, ZeroOne
    <3>. QED
      BY <1>3, <1>7, <3>1, <3>2, ZeroOne DEF Invokes
  <2>. QED
    BY <1>1, <2>1, <2>2, <2>3
<1>8. CASE todo = "fetch"
  <2>1. Calls = { << Call("read", 0, TRUE), "open" >> }
    BY <1>8 DEF Calls
  <2>2. call' = Call("read", 0, TRUE) /\ todo' = "open"
    <3>1. c = << Call("read", 0, TRUE), "open" >>
      BY <2>1
    <3>. QED
      BY <1>1, <3>1, Pair, Zenon
  <2>3. CallInv' /\ call'.op = "read"
    BY <2>2, CallsWell, ZeroOne
  <2>. QED
    BY <1>3, <1>8, <2>2, <2>3 DEF Invokes
<1>9. todo \in {"init", "open", "point", "go on", "fetch"}
  BY DEF CallInv, NextCall
<1>. QED
  BY <1>4, <1>5, <1>6, <1>7, <1>8, <1>9

(* Waiting, the processor makes no access, begins one or repeats the poll. *)
Waits(acc) ==
  /\ Stays
  /\ \/ acc = NoAccess /\ ~(dpc > 0 /\ wb_ack)
     \/ dpc > 0 /\ ~wb_ack /\ acc = Accesses(call)[dpc]
     \/ AtPoll /\ wb_ack /\ TipRead /\ acc = ReadOf("SR")

(* The driver makes a call, goes on in it, or waits.                       *)
LEMMA DriverMoves ==
  ASSUME CallInv, DriverInv, NEW acc, Drives(acc)
  PROVE  \/ Invokes /\ acc = NoAccess
         \/ Advances /\ acc = Accesses(call)[dpc]
         \/ Waits(acc)
<1>1. CASE Invoke /\ acc = NoAccess
  BY <1>1, InvokeMoves
<1>2. CASE Begun /\ acc = Accesses(call)[dpc]
  BY <1>2 DEF Begun, driverVars, Stays, Waits
<1>3. CASE Ended /\ acc = Accesses(call)[dpc]
  <2>1. CASE AtPoll /\ TipRead
    <3>1. call.op \in {"start", "write", "read"} /\ dpc = Issue + 1
      BY <2>1 DEF AtPoll, CallInv, Poll
    <3>2. dpc = IF call.op = "read" THEN 2 ELSE 3
      BY <3>1, SMT DEF Issue
    <3>3. acc = ReadOf("SR")
      BY <1>3, <3>1, <3>2, AccessTable
    <3>4. Polling /\ TipRead /\ dpc # Length(call)
      BY <2>1, <3>1, CallLength, SMT
    <3>5. dpc' = dpc
      BY <1>3, <3>4 DEF Ended
    <3>. QED
      BY <1>3, <2>1, <3>3, <3>5 DEF Ended, Stays, Waits
  <2>2. CASE ~(AtPoll /\ TipRead)
    <3>1. ~(Polling /\ TipRead)
      BY <2>2, CallLength
    <3>. QED
      BY <1>3, <2>2, <3>1 DEF Ended, Advances
  <2>. QED
    BY <2>1, <2>2
<1>4. CASE ~(dpc > 0 /\ wb_ack) /\ UNCHANGED << driverVars, before >> /\ acc = NoAccess
  BY <1>4 DEF driverVars, Stays, Waits
<1>. QED
  BY <1>1, <1>2, <1>3, <1>4 DEF Drives

Sends(acc, reg, dat) == acc.do = "write" /\ acc.reg = reg /\ acc.dat = dat

(* The accesses by kind.                                                   *)
Silent(acc) == acc = NoAccess /\ acc.do = "none"
Looks(acc) == acc.do = "read" /\ call.op # "init" /\ dpc >= Poll
              /\ (dpc = Poll => acc = ReadOf("SR"))
              /\ (dpc > Poll /\ call.op = "read" => acc = ReadOf("RXR"))
              /\ (dpc > Poll /\ call.op # "read" => acc = ReadOf("SR"))
Commands(acc) == call.op # "init" /\ dpc = Issue /\ Sends(acc, "CR", Command)
Loads(acc) ==
  /\ call.op \in {"start", "write"} /\ dpc = 1 /\ dpc < Issue
  /\ Sends(acc, "TXR", IF call.op = "start" THEN 2 * I2C_add + call.arg ELSE call.arg)
Sets(acc) ==
  /\ call.op = "init"
  /\ \/ dpc = 1 /\ Sends(acc, "CTR", FALSE)
     \/ dpc = 2 /\ Sends(acc, "CR", {"iack"})
     \/ dpc = 3 /\ Sends(acc, "PRERLO", Prescale % 256)
     \/ dpc = 4 /\ Sends(acc, "PRERHI", Prescale \div 256)
     \/ dpc = 5 /\ Sends(acc, "CTR", TRUE)

(* The fields of an access.                                                *)
LEMMA Shapes ==
  /\ \A reg, dat : Sends(WriteOf(reg, dat), reg, dat)
  /\ \A reg : ReadOf(reg).do = "read" /\ ReadOf(reg).reg = reg
  /\ NoAccess.do = "none"
BY DEF Sends, WriteOf, ReadOf, NoAccess

(* An access of a call is of one of four kinds.                            *)
LEMMA AccessKinds ==
  ASSUME CallInv, DriverInv, dpc > 0
  PROVE  LET acc == Accesses(call)[dpc]
         IN  Looks(acc) \/ Commands(acc) \/ Loads(acc) \/ Sets(acc)
<1>. DEFINE acc == Accesses(call)[dpc]
<1>0. call.op \in {"init", "start", "write", "read"}
  BY DEF CallInv
<1>1. CASE call.op = "init"
  <2>1. dpc = 1 \/ dpc = 2 \/ dpc = 3 \/ dpc = 4 \/ dpc = 5
    BY <1>1, SMT DEF DriverInv
  <2>2. /\ dpc = 1 => Sends(acc, "CTR", FALSE)
        /\ dpc = 2 => Sends(acc, "CR", {"iack"})
        /\ dpc = 3 => Sends(acc, "PRERLO", Prescale % 256)
        /\ dpc = 4 => Sends(acc, "PRERHI", Prescale \div 256)
        /\ dpc = 5 => Sends(acc, "CTR", TRUE)
    <3>1. /\ Accesses(call)[1] = WriteOf("CTR", FALSE)
          /\ Accesses(call)[2] = WriteOf("CR", {"iack"})
          /\ Accesses(call)[3] = WriteOf("PRERLO", Prescale % 256)
          /\ Accesses(call)[4] = WriteOf("PRERHI", Prescale \div 256)
          /\ Accesses(call)[5] = WriteOf("CTR", TRUE)
      BY <1>1, AccessTable
    <3>. HIDE DEF acc
    <3>2. dpc = 1 => acc = WriteOf("CTR", FALSE)
      BY <3>1 DEF acc
    <3>3. dpc = 2 => acc = WriteOf("CR", {"iack"})
      BY <3>1 DEF acc
    <3>4. dpc = 3 => acc = WriteOf("PRERLO", Prescale % 256)
      BY <3>1 DEF acc
    <3>5. dpc = 4 => acc = WriteOf("PRERHI", Prescale \div 256)
      BY <3>1 DEF acc
    <3>6. dpc = 5 => acc = WriteOf("CTR", TRUE)
      BY <3>1 DEF acc
    <3>. QED
      BY <3>2, <3>3, <3>4, <3>5, <3>6 DEF Sends, WriteOf
  <2>3. Sets(acc)
    BY <1>1, <2>1, <2>2 DEF Sets
  <2>. QED
    BY <2>3
<1>2. CASE call.op \in {"start", "write"}
  <2>1. Issue = 2 /\ Poll = 3
    BY <1>2, SMT DEF Issue, Poll
  <2>2. dpc = 1 \/ dpc = 2 \/ dpc = 3 \/ dpc = 4
    BY <1>2, <2>1, SMT DEF DriverInv
  <2>3. CASE dpc = 1
    <3>1. Loads(acc)
      BY <1>2, <2>1, <2>3, AccessTable, Shapes DEF Loads
    <3>. QED
      BY <3>1
  <2>4. CASE dpc = 2
    <3>1. Commands(acc)
      BY <1>2, <2>1, <2>4, AccessTable, Shapes DEF Commands
    <3>. QED
      BY <3>1
  <2>5. CASE dpc = 3 \/ dpc = 4
    <3>1. acc = ReadOf("SR") /\ call.op # "read" /\ call.op # "init"
      BY <1>2, <2>5, AccessTable
    <3>2. Looks(acc)
      BY <2>1, <2>5, <3>1, Shapes DEF Looks
    <3>. QED
      BY <3>2
  <2>. QED
    BY <2>2, <2>3, <2>4, <2>5
<1>3. CASE call.op = "read"
  <2>1. Issue = 1 /\ Poll = 2
    BY <1>3, SMT DEF Issue, Poll
  <2>2. dpc = 1 \/ dpc = 2 \/ dpc = 3
    BY <1>3, <2>1, SMT DEF DriverInv
  <2>3. CASE dpc = 1
    <3>1. Commands(acc)
      BY <1>3, <2>1, <2>3, AccessTable, Shapes DEF Commands
    <3>. QED
      BY <3>1
  <2>4. CASE dpc = 2 \/ dpc = 3
    <3>1. acc = (IF dpc = 2 THEN ReadOf("SR") ELSE ReadOf("RXR"))
      BY <1>3, <2>4, AccessTable
    <3>2. Looks(acc)
      BY <1>3, <2>1, <2>4, <3>1, Shapes DEF Looks
    <3>. QED
      BY <3>2
  <2>. QED
    BY <2>2, <2>3, <2>4
<1>. QED
  BY <1>0, <1>1, <1>2, <1>3

(* The access of a step of the driver.                                     *)
LEMMA DriverAccess ==
  ASSUME CallInv, DriverInv, NEW acc, Drives(acc)
  PROVE  \/ Silent(acc) /\ ~(dpc > 0 /\ wb_ack)
         \/ dpc > 0 /\ (Looks(acc) \/ Commands(acc) \/ Loads(acc) \/ Sets(acc))
<1>1. CASE Invokes /\ acc = NoAccess
  <2>1. ~(0 > 0)
    BY SMT
  <2>. QED
    BY <1>1, <2>1, Shapes DEF Invokes, Silent
<1>2. CASE Advances /\ acc = Accesses(call)[dpc]
  BY <1>2, AccessKinds DEF Advances
<1>3. CASE Waits(acc)
  <2>1. CASE acc = NoAccess /\ ~(dpc > 0 /\ wb_ack)
    BY <2>1, Shapes DEF Silent
  <2>2. CASE dpc > 0 /\ ~wb_ack /\ acc = Accesses(call)[dpc]
    BY <2>2, AccessKinds
  <2>3. CASE AtPoll /\ wb_ack /\ TipRead /\ acc = ReadOf("SR")
    <3>1. Issue \in 1 .. 2
      BY <2>3, CallLength DEF AtPoll
    <3>2. dpc > 0 /\ dpc >= Poll /\ ~(dpc > Poll)
      BY <2>3, <3>1, SMT DEF AtPoll, Poll
    <3>3. Looks(acc)
      BY <2>3, <3>2, Shapes DEF Looks, AtPoll
    <3>. QED
      BY <3>2, <3>3
  <2>. QED
    BY <1>3, <2>1, <2>2, <2>3 DEF Waits
<1>. QED
  BY <1>1, <1>2, <1>3, DriverMoves

(* An access is acknowledged in its second clock, and the driver goes on.  *)
LEMMA Acknowledged ==
  ASSUME CallInv, DriverInv, NEW acc, Drives(acc), Acknowledge(acc)
  PROVE  /\ wb_ack' = (acc.do # "none" /\ ~wb_ack)
         /\ wb_ack' => Stays /\ dpc > 0 /\ ~wb_ack
         /\ dpc > 0 /\ wb_ack /\ ~(AtPoll /\ TipRead) => Advances
         /\ Advances => dpc > 0 /\ wb_ack /\ ~wb_ack'
<1>1. wb_ack' = (acc.do # "none" /\ ~wb_ack)
  BY DEF Acknowledge
<1>2. CASE Invokes /\ acc = NoAccess
  <2>1. dpc = 0 /\ ~(0 > 0)
    <3>1. dpc = 0
      BY <1>2 DEF Invokes
    <3>2. ~(0 > 0)
      BY SMT
    <3>. QED
      BY <3>1, <3>2
  <2>. QED
    BY <1>1, <1>2, <2>1, Shapes DEF Advances
<1>3. CASE Advances /\ acc = Accesses(call)[dpc]
  BY <1>1, <1>3 DEF Advances
<1>4. CASE Waits(acc)
  BY <1>1, <1>4, Shapes DEF Waits, Advances
<1>. QED
  BY <1>2, <1>3, <1>4, DriverMoves

(* The driver follows its calls.                                           *)
LEMMA DriverKeeps ==
  ASSUME CallInv, DriverInv, NEW acc, Clock(acc)
  PROVE  CallInv' /\ DriverInv'
<1>1. Drives(acc) /\ Acknowledge(acc) /\ restarts' = restarts
  BY DEF Clock, Board, CoreClock
<1>2. CASE Invokes /\ acc = NoAccess
  <2>1. CallInv' /\ dpc' = 1 /\ todo' # "init"
    BY <1>2 DEF Invokes
  <2>2. dpc' \in 0 .. (IF call'.op = "init" THEN 5 ELSE Issue' + 2)
    BY <2>1, SMT DEF Issue
  <2>3. wb_ack' \in BOOLEAN
    BY <1>1, Acknowledged
  <2>. QED
    BY <1>1, <2>1, <2>2, <2>3, SMT DEF DriverInv
<1>3. CASE Advances /\ acc = Accesses(call)[dpc]
  <2>1. call' = call /\ todo' = todo /\ dpc > 0 /\ dpc' = (IF dpc = Length(call) THEN 0 ELSE dpc + 1)
    BY <1>3 DEF Advances
  <2>2. CallInv' /\ Issue' = Issue
    BY <2>1 DEF CallInv, NextCall, Issue
  <2>3. dpc \in Nat
    BY SMT DEF DriverInv, Issue
  <2>4. dpc' \in 0 .. (IF call'.op = "init" THEN 5 ELSE Issue' + 2)
    BY <2>1, <2>2, <2>3, CallLength, SMT DEF DriverInv
  <2>5. todo # "init"
    BY <2>1, SMT DEF DriverInv
  <2>6. ~wb_ack' /\ wb_ack' \in BOOLEAN
    BY <1>1, <1>3, Acknowledged
  <2>. QED
    BY <1>1, <2>1, <2>2, <2>4, <2>5, <2>6 DEF DriverInv
<1>4. CASE Waits(acc)
  <2>1. call' = call /\ todo' = todo /\ dpc' = dpc
    BY <1>4 DEF Waits, Stays
  <2>2. CallInv' /\ Issue' = Issue
    BY <2>1 DEF CallInv, NextCall, Issue
  <2>3. wb_ack' \in BOOLEAN /\ (wb_ack' => dpc > 0)
    BY <1>1, Acknowledged
  <2>4. ~(0 > 0)
    BY SMT
  <2>. QED
    BY <1>1, <2>1, <2>2, <2>3, <2>4 DEF DriverInv
<1>. QED
  BY <1>1, <1>2, <1>3, <1>4, DriverMoves

(* What is written in a clock, register by register.                       *)
LEMMA RegistersWritten ==
  ASSUME CallInv, DriverInv, NEW acc, Drives(acc), WriteRegisters(acc)
  PROVE  /\ call.op # "init" \/ dpc = 0 => prer' = prer /\ ctr' = ctr
         /\ Silent(acc) => prer' = prer /\ ctr' = ctr /\ txr' = txr
         /\ call.op = "init" /\ ~Silent(acc) =>
              /\ dpc = 1 => ctr' = FALSE
              /\ dpc = 5 => ctr' = TRUE
              /\ dpc # 1 /\ dpc # 5 => ctr' = ctr
              /\ prer' = IF dpc = 3 THEN 256 * (prer \div 256) + (Prescale % 256)
                         ELSE IF dpc = 4 THEN 256 * (Prescale \div 256) + (prer % 256)
                         ELSE prer
         /\ Loads(acc) => txr' = IF call.op = "start" THEN 2 * I2C_add + call.arg ELSE call.arg
         /\ ~Loads(acc) => txr' = txr
<1>1. CASE Silent(acc)
  BY <1>1 DEF Silent, WriteRegisters, Writes, Loads, Sends
<1>2. CASE dpc > 0 /\ Looks(acc)
  BY <1>2 DEF Looks, Silent, WriteRegisters, Writes, Loads, Sends
<1>3. CASE dpc > 0 /\ Commands(acc)
  BY <1>3 DEF Commands, Silent, WriteRegisters, Writes, Loads, Sends
<1>4. CASE dpc > 0 /\ Loads(acc)
  BY <1>4 DEF Silent, WriteRegisters, Writes, Loads, Sends
<1>5. CASE dpc > 0 /\ Sets(acc)
  <2>1. CASE dpc = 1
    <3>1. acc.do = "write" /\ acc.reg = "CTR" /\ acc.dat = FALSE /\ call.op = "init"
      BY <1>5, <2>1 DEF Sets, Sends
    <3>2. ctr' = FALSE /\ prer' = prer /\ txr' = txr
      BY <3>1 DEF WriteRegisters, Writes
    <3>3. ~Loads(acc) /\ ~Silent(acc)
      BY <3>1 DEF Silent, Loads
    <3>4. dpc # 0 /\ dpc # 5 /\ dpc # 3 /\ dpc # 4
      BY <2>1, SMT
    <3>. QED
      BY <2>1, <3>1, <3>2, <3>3, <3>4
  <2>2. CASE dpc = 2
    <3>1. acc.do = "write" /\ acc.reg = "CR" /\ call.op = "init"
      BY <1>5, <2>2 DEF Sets, Sends
    <3>. QED
      BY <2>2, <3>1 DEF Silent, WriteRegisters, Writes, Loads
  <2>3. CASE dpc = 3
    BY <1>5, <2>3 DEF Sets, Silent, WriteRegisters, Writes, Loads, Sends
  <2>4. CASE dpc = 4
    BY <1>5, <2>4 DEF Sets, Silent, WriteRegisters, Writes, Loads, Sends
  <2>5. CASE dpc = 5
    <3>1. acc.do = "write" /\ acc.reg = "CTR" /\ acc.dat = TRUE /\ call.op = "init"
      BY <1>5, <2>5 DEF Sets, Sends
    <3>2. ctr' = TRUE /\ prer' = prer /\ txr' = txr
      BY <3>1 DEF WriteRegisters, Writes
    <3>3. ~Loads(acc) /\ ~Silent(acc)
      BY <3>1 DEF Silent, Loads
    <3>4. dpc # 0 /\ dpc # 1 /\ dpc # 3 /\ dpc # 4
      BY <2>5, SMT
    <3>. QED
      BY <2>5, <3>1, <3>2, <3>3, <3>4
  <2>6. dpc = 1 \/ dpc = 2 \/ dpc = 3 \/ dpc = 4 \/ dpc = 5
    BY <1>5 DEF Sets
  <2>. QED
    BY <2>1, <2>2, <2>3, <2>4, <2>5, <2>6
<1>6. \/ Silent(acc)
      \/ dpc > 0 /\ (Looks(acc) \/ Commands(acc) \/ Loads(acc) \/ Sets(acc))
  BY DriverAccess
<1>. QED
  BY <1>1, <1>2, <1>3, <1>4, <1>5, <1>6

(* The prescale, a byte at a time.                                         *)
LEMMA TwoBytes ==
  ASSUME NEW p \in Nat, p <= 65535
  PROVE  /\ 256 * (65535 \div 256) + (p % 256) = 65280 + (p % 256)
         /\ 256 * ((65280 + (p % 256)) \div 256) + (p % 256) = 65280 + (p % 256)
         /\ 256 * (p \div 256) + ((65280 + (p % 256)) % 256) = p
         /\ 256 * (p \div 256) + (p % 256) = p
BY SMT

(* The steps of I2C_init: where it is, and where the next clock takes it.  *)
LEMMA InitSteps ==
  ASSUME CallInv, DriverInv, NEW acc, Drives(acc), Acknowledge(acc),
         call.op = "init", dpc > 0
  PROVE  /\ dpc \in 1 .. 5 /\ call' = call /\ todo' = todo /\ todo # "init"
         /\ ~wb_ack => dpc' = dpc /\ (wb_ack' <=> ~Silent(acc))
         /\ wb_ack => /\ ~wb_ack' /\ ~Silent(acc)
                      /\ dpc' = IF dpc = 5 THEN 0 ELSE dpc + 1
<1>1. dpc \in 1 .. 5 /\ todo # "init" /\ dpc # 0
  BY SMT DEF DriverInv
<1>2. ~Invokes
  BY <1>1 DEF Invokes
<1>3. ~AtPoll
  BY DEF AtPoll
<1>4. Length(call) = 5
  BY CallLength
<1>5. Silent(acc) => acc.do = "none"
  BY DEF Silent
<1>6. ~Silent(acc) => acc.do # "none"
  <2>1. Sets(acc) => acc.do = "write"
    BY DEF Sets, Sends
  <2>. QED
    BY <2>1, DriverAccess DEF Looks, Commands, Loads
<1>7. wb_ack' = (acc.do # "none" /\ ~wb_ack)
  BY Acknowledged
<1>8. CASE wb_ack
  <2>1. Advances
    BY <1>3, <1>8, Acknowledged
  <2>2. ~Silent(acc)
    <3>1. dpc > 0 /\ wb_ack
      BY <1>8
    <3>2. ~(Looks(acc) /\ Silent(acc)) /\ ~(Sets(acc) /\ Silent(acc))
      BY <1>5 DEF Looks, Sets, Sends
    <3>3. ~Commands(acc) /\ ~Loads(acc)
      BY DEF Commands, Loads
    <3>. QED
      BY <3>1, <3>2, <3>3, DriverAccess
  <2>. QED
    BY <1>1, <1>4, <1>7, <1>8, <2>1, <2>2 DEF Advances
<1>9. CASE ~wb_ack
  <2>1. Stays
    BY <1>2, <1>9, DriverMoves DEF Advances, Waits
  <2>2. call' = call /\ todo' = todo /\ dpc' = dpc
    BY <2>1 DEF Stays
  <2>3. wb_ack' <=> ~Silent(acc)
    BY <1>5, <1>6, <1>7, <1>9
  <2>. QED
    BY <1>1, <1>9, <2>2, <2>3
<1>. QED
  BY <1>8, <1>9

(* The prescale is set by I2C_init and stays.                              *)
LEMMA PrescaleKeeps ==
  ASSUME CallInv, DriverInv, PrescaleInv, NEW acc, Clock(acc)
  PROVE  PrescaleInv'
<1>1. Drives(acc) /\ Acknowledge(acc) /\ WriteRegisters(acc)
  BY DEF Clock, Board, CoreClock
<1>2. Prescale' = Prescale /\ Prescale \in Nat /\ 2 <= Prescale /\ Prescale <= 65535
  BY DEF PrescaleInv, Prescale
<1>3. CASE call.op = "init" /\ dpc > 0
  <2>1. /\ dpc = 1 \/ dpc = 2 \/ dpc = 3 \/ dpc = 4 \/ dpc = 5
        /\ call' = call /\ todo' = todo /\ todo # "init"
        /\ ~wb_ack => dpc' = dpc /\ (wb_ack' <=> ~Silent(acc))
        /\ wb_ack => /\ ~wb_ack' /\ ~Silent(acc)
                     /\ dpc' = IF dpc = 5 THEN 0 ELSE dpc + 1
    <3>1. dpc \in 1 .. 5
      BY <1>1, <1>3, InitSteps
    <3>2. dpc = 1 \/ dpc = 2 \/ dpc = 3 \/ dpc = 4 \/ dpc = 5
      BY <3>1, SMT
    <3>. QED
      BY <1>1, <1>3, <3>2, InitSteps
  <2>2. wb_ack \in BOOLEAN
    BY DEF DriverInv
  <2>3. ASSUME Silent(acc) PROVE PrescaleInv'
    <3>1. /\ prer' = prer /\ ctr' = ctr /\ UNCHANGED << dpc, call, todo >>
          /\ ~wb_ack /\ ~wb_ack'
      BY <1>1, <2>1, <2>2, <2>3, RegistersWritten
    <3>. QED
      BY <1>2, <3>1 DEF PrescaleInv, Unset, HalfSet, Set, Written, Enabled
  <2>4. ASSUME ~Silent(acc)
        PROVE  /\ dpc = 1 => ctr' = FALSE
               /\ dpc = 5 => ctr' = TRUE
               /\ dpc # 1 /\ dpc # 5 => ctr' = ctr
               /\ prer' = IF dpc = 3 THEN 256 * (prer \div 256) + (Prescale % 256)
                          ELSE IF dpc = 4 THEN 256 * (Prescale \div 256) + (prer % 256)
                          ELSE prer
    BY <1>1, <1>3, <2>4, RegistersWritten
  <2>5. ASSUME ~Silent(acc) PROVE PrescaleInv'
    <3>1. CASE dpc = 1 \/ dpc = 2
      <4>1. (dpc' = 1 /\ wb_ack') \/ dpc' = 2 \/ (dpc' = 3 /\ ~wb_ack')
        BY <2>1, <2>2, <2>5, <3>1, SMT
      <4>2. Unset' /\ ~Set' /\ ~HalfSet' /\ ~Enabled'
        BY <1>3, <2>1, <4>1, SMT DEF Set, Unset, HalfSet, Written, Enabled
      <4>3. Unset /\ ~Enabled
        BY <1>3, <2>1, <3>1, SMT DEF Unset, Written, Enabled
      <4>4. ~ctr /\ ctr \in BOOLEAN /\ prer = 65535
        BY <4>3 DEF PrescaleInv
      <4>5. dpc # 3 /\ dpc # 4 /\ dpc # 5
        BY <3>1, SMT
      <4>6. prer' = 65535 /\ ~ctr' /\ ctr' \in BOOLEAN
        <5>1. prer' = prer /\ (dpc = 1 => ctr' = FALSE) /\ (dpc # 1 => ctr' = ctr)
          BY <2>4, <2>5, <4>5
        <5>2. ctr = FALSE
          BY <4>4
        <5>3. ctr' = FALSE
          BY <5>1, <5>2
        <5>4. prer' = 65535
          BY <4>4, <5>1
        <5>5. ~ctr' /\ ctr' \in BOOLEAN
          BY <5>3
        <5>. QED
          BY <5>4, <5>5
      <4>. QED
        BY <1>2, <4>2, <4>6 DEF PrescaleInv
    <3>2. CASE dpc = 3
      <4>1. prer' = 65280 + (Prescale % 256) /\ ~ctr' /\ ctr' \in BOOLEAN
        <5>1. prer = 65535 \/ prer = 65280 + (Prescale % 256)
          BY <1>3, <2>1, <2>2, <3>2, SMT DEF PrescaleInv, Unset, HalfSet, Written
        <5>2. ~ctr /\ ctr \in BOOLEAN
          BY <1>3, <3>2, SMT DEF PrescaleInv, Enabled
        <5>3. prer' = 256 * (prer \div 256) + (Prescale % 256) /\ ctr' = ctr
          BY <2>4, <2>5, <3>2, SMT
        <5>. QED
          BY <1>2, <5>1, <5>2, <5>3, TwoBytes
      <4>2. (dpc' = 3 /\ wb_ack') \/ (dpc' = 4 /\ ~wb_ack')
        BY <2>1, <2>2, <2>5, <3>2, SMT
      <4>3. ~Set' /\ ~Enabled' /\ HalfSet'
        BY <1>3, <2>1, <4>2, SMT DEF Set, HalfSet, Written, Enabled
      <4>4. ~Unset'
        BY <1>3, <2>1, <4>2, SMT DEF Unset, Written
      <4>. QED
        BY <1>2, <4>1, <4>3, <4>4 DEF PrescaleInv, Enabled
    <3>3. CASE dpc = 4
      <4>1. prer' = Prescale /\ ~ctr' /\ ctr' \in BOOLEAN
        <5>1. prer = Prescale \/ prer = 65280 + (Prescale % 256)
          BY <1>3, <2>1, <2>2, <3>3, SMT DEF PrescaleInv, Set, HalfSet, Written
        <5>2. ~ctr /\ ctr \in BOOLEAN
          BY <1>3, <3>3, SMT DEF PrescaleInv, Enabled
        <5>3. prer' = 256 * (Prescale \div 256) + (prer % 256) /\ ctr' = ctr
          BY <2>4, <2>5, <3>3, SMT
        <5>. QED
          BY <1>2, <5>1, <5>2, <5>3, TwoBytes
      <4>3. (dpc' = 4 /\ wb_ack') \/ (dpc' = 5 /\ ~wb_ack')
        BY <2>1, <2>2, <2>5, <3>3, SMT
      <4>2. Set' /\ ~Unset' /\ ~HalfSet' /\ ~Enabled'
        BY <1>3, <2>1, <4>3, SMT DEF Set, Unset, HalfSet, Written, Enabled
      <4>. QED
        BY <1>2, <4>1, <4>2 DEF PrescaleInv, Enabled
    <3>4. CASE dpc = 5
      <4>1. prer' = Prescale /\ ctr' /\ ctr' \in BOOLEAN
        BY <1>3, <2>1, <2>4, <2>5, <3>4, SMT DEF PrescaleInv, Set, Written
      <4>3. (dpc' = 5 /\ wb_ack') \/ (dpc' = 0 /\ ~wb_ack')
        BY <2>1, <2>2, <2>5, <3>4, SMT
      <4>2. Set' /\ ~Unset' /\ ~HalfSet' /\ Enabled'
        BY <1>3, <2>1, <4>3, SMT DEF Set, Unset, HalfSet, Written, Enabled
      <4>. QED
        BY <1>2, <4>1, <4>2 DEF PrescaleInv, Enabled
    <3>. QED
      BY <2>1, <3>1, <3>2, <3>3, <3>4
  <2>. QED
    BY <2>3, <2>5
<1>4. CASE ~(call.op = "init" /\ dpc > 0)
  <2>0. dpc \in Nat
    BY SMT DEF DriverInv, Issue
  <2>1. prer' = prer /\ ctr' = ctr
    <3>1. call.op # "init" \/ dpc = 0
      BY <1>4, <2>0, SMT
    <3>. QED
      BY <1>1, <3>1, RegistersWritten
  <2>2. CASE Invokes /\ acc = NoAccess
    <3>1. ~wb_ack' /\ dpc' = 1 /\ todo' # "init" /\ dpc = 0
      BY <1>1, <2>2, Acknowledged, Shapes DEF Invokes
    <3>2. CASE todo = "init"
      <4>1. call'.op = "init"
        BY <2>2, <3>2 DEF Invokes, InitCall, Call
      <4>2. Unset' /\ ~HalfSet' /\ ~Set' /\ ~Enabled'
        BY <3>1, <4>1, SMT DEF Set, Unset, HalfSet, Written, Enabled
      <4>3. Unset /\ ~Enabled
        BY <3>2 DEF Unset, Enabled
      <4>. QED
        BY <1>2, <2>1, <4>2, <4>3 DEF PrescaleInv, Enabled
    <3>3. CASE todo # "init"
      <4>1. call'.op # "init"
        BY <2>2, <3>3 DEF Invokes
      <4>2. Set' /\ ~HalfSet' /\ ~Unset' /\ Enabled'
        BY <3>1, <4>1, SMT DEF Set, Unset, HalfSet, Written, Enabled
      <4>3. Set /\ Enabled
        BY <3>1, <3>3 DEF Set, Enabled
      <4>. QED
        BY <1>2, <2>1, <4>2, <4>3 DEF PrescaleInv, Enabled
    <3>. QED
      BY <3>2, <3>3
  <2>3. CASE call' = call /\ todo' = todo /\ (call.op = "init" => dpc' = 0 /\ dpc = 0)
    <3>1. /\ Set' = Set /\ Unset' = Unset /\ Enabled' = Enabled
          /\ ~HalfSet' /\ ~HalfSet
      BY <1>4, <2>0, <2>3, SMT DEF Set, Unset, HalfSet, Written, Enabled
    <3>. QED
      BY <1>2, <2>1, <3>1 DEF PrescaleInv
  <2>4. CASE Advances
    <3>1. call' = call /\ todo' = todo /\ dpc > 0
      BY <2>4 DEF Advances
    <3>. QED
      BY <1>4, <2>3, <3>1
  <2>5. CASE Waits(acc)
    <3>1. call' = call /\ todo' = todo /\ dpc' = dpc
      BY <2>5 DEF Waits, Stays
    <3>. QED
      BY <1>4, <2>0, <2>3, <3>1, SMT
  <2>. QED
    BY <1>1, <2>2, <2>4, <2>5, DriverMoves
<1>. QED
  BY <1>3, <1>4

(* The byte of the call is in the transmit register from its access on.    *)
LEMMA TransmitKeeps ==
  ASSUME CallInv, DriverInv, TransmitInv, NEW acc, Clock(acc)
  PROVE  TransmitInv'
<1>1. Drives(acc) /\ Acknowledge(acc) /\ WriteRegisters(acc)
  BY DEF Clock, Board, CoreClock
<1>. DEFINE Value == IF call.op = "start" THEN 2 * I2C_add + call.arg ELSE call.arg
<1>2. SUFFICES ASSUME call'.op \in {"start", "write"}, Written(1)'
               PROVE  txr' = Value'
  BY DEF TransmitInv
<1>3. wb_ack' \in BOOLEAN /\ wb_ack \in BOOLEAN
  BY <1>1, Acknowledged DEF DriverInv
<1>4. ~Invokes
  <2>1. ASSUME Invokes PROVE FALSE
    <3>1. dpc' = 1 /\ dpc = 0
      BY <2>1 DEF Invokes
    <3>2. ~wb_ack'
      <4>1. ~(0 > 0)
        BY SMT
      <4>. QED
        BY <1>1, <3>1, <4>1, Acknowledged
    <3>. QED
      BY <1>2, <3>1, <3>2, SMT DEF Written
  <2>. QED
    BY <2>1
<1>5. call' = call
  BY <1>1, <1>4, DriverMoves DEF Advances, Waits, Stays
<1>6. CASE Loads(acc)
  BY <1>1, <1>5, <1>6, RegistersWritten
<1>7. CASE ~Loads(acc)
  <2>1. txr' = txr
    BY <1>1, <1>7, RegistersWritten
  <2>2. dpc \in Nat
    BY SMT DEF DriverInv, Issue
  <2>3. Written(1)
    <3>1. CASE Advances
      <4>1. dpc > 0 /\ wb_ack
        BY <3>1 DEF Advances
      <4>. QED
        BY <2>2, <4>1, SMT DEF Written
    <3>2. CASE Waits(acc)
      <4>1. dpc' = dpc
        BY <3>2 DEF Waits, Stays
      <4>2. CASE ~wb_ack'
        BY <1>2, <2>2, <4>1, <4>2, SMT DEF Written
      <4>3. CASE wb_ack'
        <5>1. dpc > 0 /\ acc.do # "none"
          BY <1>1, <4>3, Acknowledged
        <5>2. ~Silent(acc)
          BY <5>1 DEF Silent
        <5>3. Looks(acc) \/ Commands(acc)
          <6>1. ~Sets(acc)
            BY <1>2, <1>5 DEF Sets
          <6>. QED
            BY <1>1, <1>7, <5>2, <6>1, DriverAccess
        <5>4. dpc >= 2
          <6>1. call.op # "read"
            BY <1>2, <1>5
          <6>2. Issue = 2
            BY <6>1 DEF Issue
          <6>3. dpc >= 3 \/ dpc = 2
            BY <5>3, <6>2 DEF Looks, Commands, Poll
          <6>. QED
            BY <2>2, <6>3, SMT
        <5>. QED
          BY <2>2, <5>4, SMT DEF Written
      <4>. QED
        BY <1>3, <4>2, <4>3
    <3>. QED
      BY <1>1, <1>4, <3>1, <3>2, DriverMoves
  <2>. QED
    BY <1>2, <1>5, <2>1, <2>3 DEF TransmitInv
<1>. QED
  BY <1>6, <1>7

----------------------------------------------------------------------------
(* What a clock does to the command register.                              *)
LEMMA CommandMoves ==
  ASSUME CallInv, DriverInv, PrescaleInv, i2c_al = FALSE, done \in BOOLEAN,
         NEW acc, Drives(acc), CommandRegister(acc)
  PROVE  /\ Commands(acc) => cr' = Command
         /\ ~Commands(acc) /\ Cleared => Cleared'
         /\ AtPoll /\ Commanded /\ done => Cleared'
         /\ AtPoll /\ ~done => cr' = cr \ {"iack"}
<1>1. CASE Commands(acc)
  <2>1. call.op # "init" /\ todo # "init"
    <3>1. dpc # 0
      BY <1>1, SMT DEF Commands, Issue
    <3>. QED
      BY <1>1, <3>1 DEF Commands, DriverInv
  <2>2. ctr
    BY <2>1 DEF PrescaleInv, Enabled
  <2>3. cr' = Command
    BY <1>1, <2>2 DEF Commands, Sends, CommandRegister
  <2>4. ~AtPoll
    BY <1>1, SMT DEF Commands, AtPoll, Poll, Issue
  <2>. QED
    BY <1>1, <2>3, <2>4
<1>2. CASE Silent(acc) \/ Looks(acc)
  <2>1. acc.do # "write"
    BY <1>2 DEF Silent, Looks
  <2>2. cr' = (IF done THEN cr \ {"sta", "sto", "rd", "wr"} ELSE cr) \ {"iack"}
    BY <2>1 DEF CommandRegister
  <2>3. ~Commands(acc)
    BY <2>1 DEF Commands, Sends
  <2>4. Cleared => Cleared'
    BY <2>2, CommandTable DEF Cleared
  <2>5. AtPoll /\ Commanded /\ done => Cleared'
    BY <2>2, CommandTable DEF Cleared
  <2>. QED
    BY <2>2, <2>3, <2>4, <2>5
<1>3. CASE Loads(acc)
  <2>1. acc.do = "write" /\ acc.reg = "TXR"
    BY <1>3 DEF Loads, Sends
  <2>2. cr' = cr
    BY <2>1 DEF CommandRegister
  <2>3. ~AtPoll
    BY <1>3, SMT DEF Loads, AtPoll, Poll, Issue
  <2>4. ~Commands(acc)
    BY <2>1 DEF Commands, Sends
  <2>. QED
    BY <2>2, <2>3, <2>4 DEF Cleared
<1>4. CASE Sets(acc)
  <2>1. acc.do = "write" /\ (acc.reg # "CR" \/ dpc = 2) /\ call.op = "init"
    BY <1>4 DEF Sets, Sends
  <2>2. dpc = 2 => ~ctr
    BY <2>1, SMT DEF PrescaleInv, Enabled
  <2>3. cr' = cr
    BY <2>1, <2>2 DEF CommandRegister
  <2>4. ~AtPoll /\ ~Commands(acc)
    BY <2>1 DEF AtPoll, Commands
  <2>. QED
    BY <2>3, <2>4 DEF Cleared
<1>. QED
  BY <1>1, <1>2, <1>3, <1>4, DriverAccess

(* The status word as the poll and the last access see it.                 *)
LEMMA StatusBits ==
  ASSUME rxack \in Bits, busy \in BOOLEAN, al \in BOOLEAN, tip \in BOOLEAN,
         irq_flag \in BOOLEAN
  PROVE  /\ ((StatusWord \div 2) % 2 = 1) <=> tip
         /\ StatusWord \div 128 = rxack
<1>1. PICK b \in 0 .. 1, a \in 0 .. 1, t \in 0 .. 1, i \in 0 .. 1 :
         b = Bit(busy) /\ a = Bit(al) /\ t = Bit(tip) /\ i = Bit(irq_flag)
  BY DEF Bit
<1>2. StatusWord = 128 * rxack + 64 * b + 32 * a + 2 * t + i
  BY <1>1 DEF StatusWord
<1>3. rxack = 0 \/ rxack = 1
  BY DEF Bits
<1>4. (StatusWord \div 2) % 2 = t /\ StatusWord \div 128 = rxack
  <2>. DEFINE h == 32 * rxack + 16 * b + 8 * a
              l == 64 * b + 32 * a + 2 * t + i
  <2>0. (b = 0 \/ b = 1) /\ (a = 0 \/ a = 1) /\ (t = 0 \/ t = 1) /\ (i = 0 \/ i = 1)
    OBVIOUS
  <2>1. h \in Int /\ StatusWord = 2 * (2 * h + t) + i
    BY <1>2, <1>3, <2>0, SMT
  <2>2. l \in Int /\ 0 <= l /\ l <= 127 /\ StatusWord = 128 * rxack + l
    BY <1>2, <1>3, <2>0, SMT
  <2>. HIDE DEF h, l
  <2>3. i = 0 \/ i = 1
    BY <1>1, SMT
  <2>4. t = 0 \/ t = 1
    BY <1>1, SMT
  <2>5. StatusWord \div 2 = 2 * h + t
    BY <2>1, <2>3, <2>4, SMT
  <2>6. (2 * h + t) % 2 = t
    BY <2>1, <2>4, SMT
  <2>7. StatusWord \div 128 = rxack
    BY <2>2, <1>3, SMT
  <2>. QED
    BY <2>5, <2>6, <2>7
<1>5. (t = 1) <=> tip
  BY <1>1 DEF Bit
<1>. QED
  BY <1>4, <1>5

----------------------------------------------------------------------------
(* What a clock does to the byte controller, while the bus is not lost.    *)
ByteHolds ==
  /\ UNCHANGED << byte_state, core_cmd, ack_out >>
  /\ ld' = FALSE /\ shift' = FALSE /\ done' = FALSE
  /\ core_txd' = IF byte_state = "ack" THEN Bit("ack" \in cr) ELSE sr \div 128

Begins == byte_state = "idle" /\ Commanded /\ ~done

Goes(state, cmd, l, s) ==
  byte_state' = state /\ core_cmd' = cmd /\ ld' = l /\ shift' = s

(* The byte controller, state by state.                                    *)
LEMMA ByteMoves ==
  ASSUME CallInv, CommandInv, ByteInv, i2c_al = FALSE, ByteStep
  PROVE  /\ byte_state = "idle" /\ ~Begins => ByteHolds
         /\ byte_state # "idle" /\ ~core_ack => ByteHolds
         /\ Begins =>
              /\ call.op = "start" => Goes("start", "start", TRUE, FALSE)
              /\ call.op = "write" => Goes("write", "write", TRUE, FALSE)
              /\ call.op = "read" => Goes("read", "read", TRUE, FALSE)
              /\ core_txd' = sr \div 128 /\ done' = FALSE /\ ack_out' = ack_out
         /\ byte_state = "start" /\ core_ack =>
              /\ Goes("write", "write", TRUE, FALSE)
              /\ core_txd' = sr \div 128 /\ done' = FALSE /\ ack_out' = ack_out
         /\ byte_state = "write" /\ core_ack =>
              /\ dcnt = 0 => Goes("ack", "read", FALSE, FALSE)
              /\ dcnt # 0 => Goes("write", "write", FALSE, TRUE)
              /\ core_txd' = sr \div 128 /\ done' = FALSE /\ ack_out' = ack_out
         /\ byte_state = "read" /\ core_ack =>
              /\ dcnt = 0 => Goes("ack", "write", FALSE, TRUE)
              /\ dcnt # 0 => Goes("read", "read", FALSE, TRUE)
              /\ core_txd' = 1 /\ done' = FALSE /\ ack_out' = ack_out
         /\ byte_state = "ack" /\ core_ack =>
              /\ call.last => Goes("stop", "stop", FALSE, FALSE) /\ done' = FALSE
              /\ ~call.last => Goes("idle", "nop", FALSE, FALSE) /\ done' = TRUE
              /\ core_txd' = 1 /\ ack_out' = core_rxd
         /\ byte_state = "stop" /\ core_ack =>
              /\ Goes("idle", "nop", FALSE, FALSE)
              /\ core_txd' = sr \div 128 /\ done' = TRUE /\ ack_out' = ack_out
<1>1. byte_state # "idle" => Commanded
  BY DEF CommandInv
<1>2. byte_state = "idle" => Cleared \/ Commanded
  BY DEF CommandInv, Resting
<1>3. Go <=> cr \cap {"rd", "wr", "sto"} # {} /\ ~done
  BY DEF Go
<1>4. CASE byte_state = "idle" /\ ~Begins
  <2>1. ~Go
    BY <1>2, <1>3, <1>4, CommandTable DEF Begins
  <2>. QED
    BY <1>4, <2>1 DEF ByteStep, ByteHolds, Begins, Shifts
<1>5. CASE byte_state # "idle" /\ ~core_ack
  BY <1>5 DEF ByteStep, ByteHolds, Begins, Shifts
<1>6. CASE Begins
  <2>1. Go /\ byte_state = "idle" /\ Commanded
    BY <1>3, <1>6, CommandTable DEF Begins
  <2>2. /\ "sta" \in cr <=> call.op = "start"
        /\ "rd" \in cr <=> call.op = "read"
        /\ "wr" \in cr <=> call.op # "read"
        /\ call.op \in {"start", "write", "read"}
    BY <2>1, CommandTable DEF Commanded, CallInv
  <2>. QED
    BY <1>6, <2>1, <2>2 DEF ByteStep, Goes, Order, Shifts
<1>7. CASE byte_state = "start" /\ core_ack
  <2>1. "rd" \notin cr
    BY <1>1, <1>7, CommandTable DEF ByteInv, Works
  <2>. QED
    BY <1>7, <2>1 DEF ByteStep, Goes, Order, Shifts, Begins
<1>8. CASE byte_state = "write" /\ core_ack
  BY <1>8 DEF ByteStep, Goes, Order, Shifts, Begins
<1>9. CASE byte_state = "read" /\ core_ack
  <2>1. "ack" \in cr
    BY <1>1, <1>9, CommandTable DEF ByteInv, Works
  <2>. QED
    BY <1>9, <2>1 DEF ByteStep, Goes, Order, Shifts, Begins, Bit
<1>10. CASE byte_state = "ack" /\ core_ack
  <2>1. "sto" \in cr <=> call.last
    BY <1>1, <1>10, CommandTable
  <2>. QED
    BY <1>10, <2>1 DEF ByteStep, Goes, Order, Shifts, Begins
<1>11. CASE byte_state = "stop" /\ core_ack
  BY <1>11 DEF ByteStep, Goes, Order, Shifts, Begins
<1>12. byte_state \in {"idle", "start", "write", "read", "ack", "stop"}
  BY DEF ByteInv
<1>. QED
  BY <1>4, <1>5, <1>6, <1>7, <1>8, <1>9, <1>10, <1>11, <1>12

(* Where the driver is, a clock later.                                     *)
LEMMA PollSteps ==
  ASSUME CallInv, DriverInv, NEW acc, Drives(acc), Acknowledge(acc)
  PROVE  /\ AtPoll => ~AtIssue
         /\ AtIssue => /\ call' = call /\ todo' = todo /\ AtPoll' /\ ~wb_ack'
                       /\ Commands(acc)
         /\ AtPoll => /\ call' = call /\ todo' = todo /\ ~AtIssue'
                      /\ Silent(acc) \/ acc = ReadOf("SR")
                      /\ ~Commands(acc) /\ ~Loads(acc) /\ ~Sets(acc)
                      /\ ~(wb_ack /\ ~TipRead) => dpc' = dpc /\ AtPoll'
                      /\ wb_ack' => AtPoll' /\ acc = ReadOf("SR")
         /\ ~AtPoll /\ ~AtIssue => ~AtPoll' /\ (AtIssue' => call' = call /\ Commands(acc))
         /\ AtPoll /\ wb_ack /\ ~TipRead => ~AtPoll'
<1>0. wb_ack' = (acc.do # "none" /\ ~wb_ack) /\ dpc \in Nat
  <2>1. dpc \in Nat
    BY SMT DEF DriverInv, Issue
  <2>. QED
    BY <2>1, Acknowledged
<1>1. call.op = "init" \/ (Issue \in 1 .. 2 /\ Poll = Issue + 1 /\ Length(call) = Poll + 1)
  <2>1. CASE call.op # "init"
    <3>1. Issue \in 1 .. 2 /\ Length(call) = Issue + 2
      BY <2>1, CallLength
    <3>. QED
      BY <3>1, SMT DEF Poll
  <2>. QED
    BY <2>1
<1>7. /\ Looks(acc) => dpc >= Poll
      /\ Commands(acc) => dpc = Issue
      /\ Loads(acc) => dpc < Issue
      /\ Sets(acc) => call.op = "init"
  BY DEF Looks, Commands, Loads, Sets
<1>2. AtPoll => ~AtIssue
  BY <1>1, SMT DEF AtPoll, AtIssue
<1>3. ASSUME call' = call PROVE Issue' = Issue /\ Poll' = Poll
  BY <1>3 DEF Issue, Poll
<1>4. CASE Invokes /\ acc = NoAccess
  <2>1. dpc = 0 /\ dpc' = 1 /\ ~wb_ack'
    BY <1>0, <1>4, Shapes DEF Invokes
  <2>2. ~AtPoll /\ ~AtIssue
    BY <1>1, <2>1, SMT DEF AtPoll, AtIssue
  <2>3. ~AtIssue'
    BY <2>1 DEF AtIssue
  <2>4. ~AtPoll'
    BY <2>1, SMT DEF AtPoll, Poll, Issue
  <2>. QED
    BY <2>2, <2>3, <2>4
<1>5. CASE Advances /\ acc = Accesses(call)[dpc]
  <2>1. /\ call' = call /\ todo' = todo /\ dpc > 0 /\ wb_ack /\ ~wb_ack'
        /\ dpc' = IF dpc = Length(call) THEN 0 ELSE dpc + 1
    BY <1>5, Acknowledged DEF Advances
  <2>2. ~AtIssue'
    BY <2>1 DEF AtIssue
  <2>3. Issue' = Issue /\ Poll' = Poll
    BY <1>3, <2>1
  <2>4. ASSUME AtPoll
        PROVE  ~AtPoll' /\ wb_ack /\ ~TipRead /\ acc = ReadOf("SR") /\ ~Commands(acc) /\ ~Loads(acc) /\ ~Sets(acc)
    <3>1. ~TipRead
      BY <1>5, <2>4 DEF Advances
    <3>2. dpc' # Poll
      BY <1>0, <1>1, <2>1, <2>4, SMT DEF AtPoll
    <3>3. Looks(acc)
      <4>1. ~Commands(acc) /\ ~Loads(acc) /\ ~Sets(acc)
        BY <1>1, <1>7, <2>4, SMT DEF AtPoll
      <4>. QED
        BY <1>5, <2>1, <4>1, AccessKinds
    <3>4. acc = ReadOf("SR") /\ acc.do = "read"
      BY <2>4, <3>3 DEF Looks, AtPoll
    <3>. QED
      BY <2>1, <2>3, <3>1, <3>2, <3>4 DEF AtPoll, Commands, Loads, Sets, Sends
  <2>5. ASSUME AtIssue PROVE AtPoll' /\ Commands(acc)
    <3>1. dpc' = Poll /\ call.op # "init"
      BY <1>0, <1>1, <2>1, <2>5, SMT DEF AtIssue
    <3>2. ~Looks(acc) /\ ~Loads(acc) /\ ~Sets(acc)
      BY <1>1, <1>7, <2>5, SMT DEF AtIssue
    <3>3. Commands(acc)
      BY <1>5, <2>1, <3>2, AccessKinds
    <3>. QED
      BY <2>1, <2>3, <3>1, <3>3 DEF AtPoll
  <2>6. ASSUME ~AtPoll, ~AtIssue PROVE ~AtPoll'
    <3>1. CASE call.op = "init"
      BY <2>1, <3>1 DEF AtPoll
    <3>2. CASE call.op # "init"
      <4>1. dpc # Issue /\ dpc # Poll
        BY <2>1, <2>6, <3>2 DEF AtPoll, AtIssue
      <4>2. dpc' # Poll
        BY <1>0, <1>1, <2>1, <3>2, <4>1, SMT
      <4>. QED
        BY <2>3, <4>2 DEF AtPoll
    <3>. QED
      BY <3>1, <3>2
  <2>. QED
    BY <1>2, <2>1, <2>2, <2>4, <2>5, <2>6
<1>6. CASE Waits(acc)
  <2>1. call' = call /\ todo' = todo /\ dpc' = dpc
    BY <1>6 DEF Waits, Stays
  <2>2. Issue' = Issue /\ Poll' = Poll /\ (AtPoll' <=> AtPoll)
    BY <1>3, <2>1 DEF AtPoll
  <2>3. ~AtIssue
    <3>1. ASSUME AtIssue PROVE FALSE
      <4>1. dpc > 0 /\ wb_ack /\ ~AtPoll
        BY <1>1, <1>2, <3>1, SMT DEF AtIssue
      <4>. QED
        BY <1>6, <4>1 DEF Waits
    <3>. QED
      BY <3>1
  <2>4. ASSUME AtPoll
        PROVE  /\ ~AtIssue' /\ (Silent(acc) \/ acc = ReadOf("SR"))
               /\ ~Commands(acc) /\ ~Loads(acc) /\ ~Sets(acc)
               /\ wb_ack' => acc = ReadOf("SR")
               /\ ~(wb_ack /\ ~TipRead)
    <3>1. ~AtIssue'
      BY <1>1, <2>1, <2>2, <2>4, SMT DEF AtPoll, AtIssue
    <3>2. dpc > 0 /\ ~Commands(acc) /\ ~Loads(acc) /\ ~Sets(acc)
      BY <1>1, <1>7, <2>4, SMT DEF AtPoll
    <3>3. Silent(acc) \/ acc = ReadOf("SR")
      <4>1. Looks(acc) => acc = ReadOf("SR")
        BY <2>4 DEF Looks, AtPoll
      <4>. QED
        BY <3>2, <4>1, DriverAccess
    <3>4. wb_ack' => ~Silent(acc)
      BY <1>0 DEF Silent
    <3>5. ~(wb_ack /\ ~TipRead)
      BY <1>6, <3>2 DEF Waits
    <3>. QED
      BY <3>1, <3>2, <3>3, <3>4, <3>5
  <2>5. ASSUME ~AtPoll, AtIssue' PROVE Commands(acc)
    <3>1. dpc = Issue /\ call.op # "init" /\ wb_ack'
      BY <2>1, <2>2, <2>5 DEF AtIssue
    <3>2. ~Looks(acc) /\ ~Loads(acc) /\ ~Sets(acc)
      BY <1>1, <1>7, <3>1, SMT
    <3>3. ~Silent(acc)
      BY <1>0, <3>1 DEF Silent
    <3>. QED
      BY <3>2, <3>3, DriverAccess
  <2>. QED
    BY <1>2, <2>1, <2>2, <2>3, <2>4, <2>5
<1>. QED
  BY <1>4, <1>5, <1>6, DriverMoves

(* The byte controller is done, at rest or at work, a clock later.         *)
LEMMA ByteDone ==
  ASSUME CallInv, CommandInv, ByteInv, i2c_al = FALSE, ByteStep
  PROVE  /\ done' \in BOOLEAN
         /\ Begins => byte_state' # "idle" /\ ~done'
         /\ byte_state = "idle" /\ ~Begins => byte_state' = "idle" /\ ~done'
         /\ byte_state # "idle" => (done' <=> byte_state' = "idle")
<1>1. byte_state # "idle" => call.op \in {"start", "write", "read"}
  BY DEF CommandInv, AtPoll, CallInv
<1>2. CASE byte_state = "idle" /\ ~Begins
  BY <1>2, ByteMoves DEF ByteHolds, Begins
<1>3. CASE byte_state # "idle" /\ ~core_ack
  BY <1>3, ByteMoves DEF ByteHolds, Begins
<1>4. CASE Begins
  <2>1. call.op \in {"start", "write", "read"}
    BY <1>4 DEF Begins, Commanded, CallInv
  <2>. QED
    BY <1>4, <2>1, ByteMoves DEF Goes, Begins
<1>5. CASE byte_state \in {"start", "write", "read", "stop"} /\ core_ack
  BY <1>5, ByteMoves DEF Goes, Begins
<1>6. CASE byte_state = "ack" /\ core_ack
  <2>1. call.last \in BOOLEAN
    BY DEF CallInv
  <2>. QED
    BY <1>6, <2>1, ByteMoves DEF Goes, Begins
<1>7. byte_state \in {"idle", "start", "write", "read", "ack", "stop"}
  BY DEF ByteInv
<1>. QED
  BY <1>2, <1>3, <1>4, <1>5, <1>6, <1>7

(* A command is at work from its access to the end of the poll.            *)
LEMMA CommandKeeps ==
  ASSUME CallInv, DriverInv, PrescaleInv, CommandInv, ByteInv, RegisterTypes, NotLost,
         NEW acc, Clock(acc)
  PROVE  CommandInv'
<1>1. Drives(acc) /\ Acknowledge(acc) /\ CommandRegister(acc) /\ StatusRegister /\ ByteStep
  BY DEF Clock, Board, CoreClock
<1>2. i2c_al = FALSE /\ al \in BOOLEAN /\ done \in BOOLEAN /\ tip \in BOOLEAN
  BY DEF NotLost, CommandInv
<1>3. tip' \in BOOLEAN /\ (tip' <=> cr \cap {"rd", "wr"} # {})
  BY <1>1 DEF StatusRegister
<1>4. /\ Commanded => tip'
      /\ Cleared => ~tip'
  BY <1>3, CommandTable
<1>5. ~(Commanded /\ Cleared)
  BY CommandTable
<1>6. /\ done' \in BOOLEAN
      /\ Begins => byte_state' # "idle" /\ ~done'
      /\ byte_state = "idle" /\ ~Begins => byte_state' = "idle" /\ ~done'
      /\ byte_state # "idle" => (done' <=> byte_state' = "idle")
  BY <1>1, <1>2, ByteDone
<1>7. ASSUME Resting
      PROVE  ~tip' /\ byte_state' = "idle" /\ ~done' /\ (~Commands(acc) => Resting')
  <2>1. Cleared /\ byte_state = "idle" /\ ~Begins
    BY <1>5, <1>7 DEF Resting, Begins
  <2>. QED
    BY <1>1, <1>2, <1>4, <1>6, <2>1, CommandMoves DEF Resting
<1>8. CASE AtIssue
  <2>1. Commanded /\ byte_state = "idle" /\ ~done
    BY <1>8 DEF CommandInv
  <2>2. call' = call /\ AtPoll' /\ ~wb_ack' /\ Commands(acc)
    BY <1>1, <1>8, PollSteps
  <2>3. Commanded'
    <3>1. cr' = Command
      BY <1>1, <1>2, <2>2, CommandMoves
    <3>. QED
      BY <2>2, <3>1 DEF Commanded, Command, AtPoll
  <2>4. tip' /\ byte_state' # "idle" /\ ~done'
    BY <1>4, <1>6, <2>1 DEF Begins
  <2>5. ~AtIssue'
    BY <2>2 DEF AtIssue
  <2>. QED
    BY <1>3, <1>6, <2>2, <2>3, <2>4, <2>5 DEF CommandInv
<1>9. CASE ~AtIssue /\ ~AtPoll
  <2>1. Resting /\ ~tip
    BY <1>9 DEF CommandInv
  <2>2. ~AtPoll' /\ (AtIssue' => call' = call /\ Commands(acc))
    BY <1>1, <1>9, PollSteps
  <2>3. AtIssue' => Commanded'
    <3>1. Commands(acc) => cr' = Command
      BY <1>1, <1>2, CommandMoves
    <3>. QED
      BY <2>2, <3>1 DEF Commanded, Command, AtIssue
  <2>4. ~AtIssue' => Resting'
    <3>1. CASE ~Commands(acc)
      BY <1>7, <2>1, <3>1
    <3>2. CASE Commands(acc) /\ ~AtIssue'
      <4>1. call.op # "init" /\ dpc = Issue /\ acc.do = "write" /\ dpc > 0
        BY <3>2, SMT DEF Commands, Sends, Issue
      <4>2. ~wb_ack
        BY <1>9, <4>1 DEF AtIssue
      <4>3. wb_ack'
        BY <1>1, <4>1, <4>2, Acknowledged
      <4>4. Stays
        BY <1>1, <4>3, Acknowledged
      <4>5. AtIssue'
        BY <4>1, <4>3, <4>4 DEF AtIssue, Stays, Issue
      <4>. QED
        BY <3>2, <4>5
    <3>. QED
      BY <3>1, <3>2
  <2>. QED
    BY <1>3, <1>6, <1>7, <2>1, <2>2, <2>3, <2>4 DEF CommandInv
<1>10. CASE AtPoll
  <2>1. /\ call' = call /\ ~AtIssue' /\ ~Commands(acc)
        /\ ~(wb_ack /\ ~TipRead) => AtPoll'
        /\ wb_ack' => AtPoll' /\ acc = ReadOf("SR")
    BY <1>1, <1>10, PollSteps
  <2>2. CASE Resting
    <3>1. Resting' /\ ~tip'
      BY <1>7, <2>1, <2>2
    <3>. QED
      BY <1>3, <1>6, <2>1, <3>1 DEF CommandInv, Resting
  <2>3. CASE ~Resting
    <3>1. Commanded /\ tip /\ (done <=> byte_state = "idle")
      BY <1>10, <2>3 DEF CommandInv
    <3>2. AtPoll'
      BY <1>10, <2>1, <2>3 DEF CommandInv
    <3>3. wb_ack' => TipRead'
      <4>1. ASSUME wb_ack' PROVE wb_dat' = StatusWord
        <5>1. acc = ReadOf("SR")
          BY <2>1, <4>1
        <5>2. ReadOf("SR") # ReadOf("RXR")
          BY DEF ReadOf
        <5>. QED
          BY <1>1, <5>1, <5>2 DEF Acknowledge
      <4>2. ((StatusWord \div 2) % 2 = 1) <=> tip
        BY <1>2, StatusBits DEF RegisterTypes
      <4>. QED
        BY <3>1, <4>1, <4>2 DEF TipRead
    <3>4. CASE done
      <4>1. byte_state' = "idle" /\ ~done'
        BY <1>6, <3>1, <3>4 DEF Begins
      <4>2. Cleared'
        BY <1>1, <1>2, <1>10, <3>1, <3>4, CommandMoves
      <4>. QED
        BY <1>3, <1>6, <2>1, <3>2, <3>3, <4>1, <4>2 DEF CommandInv, Resting
    <3>5. CASE ~done
      <4>1. cr' = cr
        <5>1. cr' = cr \ {"iack"}
          BY <1>1, <1>2, <1>10, <3>5, CommandMoves
        <5>2. cr \ {"iack"} = cr
          BY <3>1, CommandTable
        <5>. QED
          BY <5>1, <5>2
      <4>2. Commanded'
        BY <2>1, <3>1, <4>1 DEF Commanded, Command
      <4>3. tip' /\ (done' <=> byte_state' = "idle")
        BY <1>4, <1>6, <3>1, <3>5
      <4>. QED
        BY <1>3, <1>6, <2>1, <3>2, <3>3, <4>2, <4>3 DEF CommandInv
    <3>. QED
      BY <1>2, <3>4, <3>5
  <2>. QED
    BY <2>2, <2>3
<1>. QED
  BY <1>8, <1>9, <1>10

(* The byte controller works for the command of the call.                  *)
LEMMA ByteKeeps ==
  ASSUME CallInv, DriverInv, CommandInv, ByteInv, NotLost, NEW acc, Clock(acc)
  PROVE  ByteInv'
<1>1. Drives(acc) /\ Acknowledge(acc) /\ ByteStep /\ i2c_al = FALSE
  BY DEF Clock, Board, CoreClock, NotLost
<1>2. byte_state # "idle" \/ Begins => call' = call
  <2>1. byte_state # "idle" \/ Begins => AtPoll \/ AtIssue
    BY <1>1, CommandTable DEF CommandInv, Begins, Resting
  <2>. QED
    BY <1>1, <2>1, PollSteps
<1>3. byte_state # "idle" => "ack" \in cr \/ call.op # "read"
  BY CommandTable DEF CommandInv
<1>4. CASE byte_state = "idle" /\ ~Begins
  BY <1>1, <1>4, ByteMoves DEF ByteInv, ByteHolds
<1>5. CASE byte_state # "idle" /\ ~core_ack
  <2>1. ByteHolds
    BY <1>1, <1>5, ByteMoves
  <2>2. byte_state = "ack" /\ call.op = "read" => core_txd' = 1
    BY <1>3, <1>5, <2>1 DEF ByteHolds, Bit
  <2>. QED
    BY <1>2, <1>5, <2>1, <2>2 DEF ByteInv, ByteHolds, Works
<1>6. CASE Begins
  <2>1. call.op \in {"start", "write", "read"}
    BY <1>6 DEF Begins, Commanded, CallInv
  <2>. QED
    BY <1>1, <1>2, <1>6, <2>1, ByteMoves DEF ByteInv, Goes, Works, Begins
<1>7. CASE byte_state = "start" /\ core_ack
  BY <1>1, <1>2, <1>7, ByteMoves DEF ByteInv, Goes, Works
<1>8. CASE byte_state = "write" /\ core_ack
  BY <1>1, <1>2, <1>8, ByteMoves DEF ByteInv, Goes, Works
<1>9. CASE byte_state = "read" /\ core_ack
  BY <1>1, <1>2, <1>9, ByteMoves DEF ByteInv, Goes, Works
<1>10. CASE byte_state = "ack" /\ core_ack
  <2>1. call.last => call.op \in {"write", "read"}
    BY <1>10 DEF CallInv, ByteInv, Works
  <2>. QED
    BY <1>1, <1>2, <1>10, <2>1, ByteMoves DEF ByteInv, Goes, Works, CallInv
<1>11. CASE byte_state = "stop" /\ core_ack
  BY <1>1, <1>2, <1>11, ByteMoves DEF ByteInv, Goes, Works
<1>12. byte_state \in {"idle", "start", "write", "read", "ack", "stop"}
  BY DEF ByteInv
<1>. QED
  BY <1>4, <1>5, <1>6, <1>7, <1>8, <1>9, <1>10, <1>11, <1>12

----------------------------------------------------------------------------
(* What a clock does to the bit controller, while the bus is not lost.     *)
BitHolds == core_ack' = FALSE /\ UNCHANGED << c_state, scl_oen, sda_oen, sda_chk >>

Moves(from, to, scl, sda) ==
  c_state = from =>
    /\ c_state' = to /\ scl_oen' = scl /\ sda_oen' = sda
    /\ to = "idle" => core_ack' = TRUE
    /\ to # "idle" => core_ack' = FALSE
    /\ from \in {"wr_b", "wr_c"} => sda_chk' = TRUE
    /\ from \notin {"wr_b", "wr_c"} => sda_chk' = FALSE

BitLeaves(cmd, to) ==
  c_state = "idle" /\ core_cmd = cmd =>
    c_state' = to /\ core_ack' = FALSE /\ sda_chk' = FALSE /\ UNCHANGED << scl_oen, sda_oen >>

(* The bit controller, state by state.                                     *)
LEMMA BitMoves ==
  ASSUME StateInv, i2c_al = FALSE, BitStep, clk_en \in BOOLEAN
  PROVE  /\ ~clk_en => BitHolds
         /\ clk_en =>
              /\ BitLeaves("nop", "idle") /\ BitLeaves("start", "start_a")
              /\ BitLeaves("stop", "stop_a") /\ BitLeaves("write", "wr_a")
              /\ BitLeaves("read", "rd_a")
              /\ Moves("start_a", "start_b", scl_oen, 1) /\ Moves("start_b", "start_c", 1, 1)
              /\ Moves("start_c", "start_d", 1, 0) /\ Moves("start_d", "start_e", 1, 0)
              /\ Moves("start_e", "idle", 0, 0)
              /\ Moves("stop_a", "stop_b", 0, 0) /\ Moves("stop_b", "stop_c", 1, 0)
              /\ Moves("stop_c", "stop_d", 1, 0) /\ Moves("stop_d", "idle", 1, 1)
              /\ Moves("rd_a", "rd_b", 0, 1) /\ Moves("rd_b", "rd_c", 1, 1)
              /\ Moves("rd_c", "rd_d", 1, 1) /\ Moves("rd_d", "idle", 0, 1)
              /\ Moves("wr_a", "wr_b", 0, core_txd) /\ Moves("wr_b", "wr_c", 1, core_txd)
              /\ Moves("wr_c", "wr_d", 1, core_txd) /\ Moves("wr_d", "idle", 0, core_txd)
<1>1. CASE ~clk_en
  BY <1>1 DEF BitStep, BitHolds
<1>2. CASE clk_en
  <2>1. /\ BitLeaves("nop", "idle") /\ BitLeaves("start", "start_a")
        /\ BitLeaves("stop", "stop_a") /\ BitLeaves("write", "wr_a")
        /\ BitLeaves("read", "rd_a")
    <3>1. c_state = "idle" =>
            /\ c_state' = FirstState[core_cmd]
            /\ core_ack' = FALSE /\ sda_chk' = FALSE
            /\ UNCHANGED << scl_oen, sda_oen >>
      BY <1>2 DEF BitStep
    <3>. QED
      BY <3>1 DEF BitLeaves, FirstState
  <2>2. c_state # "idle" =>
          /\ c_state' = Wave[c_state].next
          /\ Wave[c_state].next = "idle" => core_ack' = TRUE
          /\ Wave[c_state].next # "idle" => core_ack' = FALSE
          /\ scl_oen' = Wave[c_state].scl /\ sda_oen' = Wave[c_state].sda
          /\ c_state \in {"wr_b", "wr_c"} => sda_chk' = TRUE
          /\ c_state \notin {"wr_b", "wr_c"} => sda_chk' = FALSE
    <3>1. c_state # "idle" =>
            /\ c_state' = Wave[c_state].next
            /\ core_ack' = (Wave[c_state].next = "idle")
            /\ scl_oen' = Wave[c_state].scl /\ sda_oen' = Wave[c_state].sda
            /\ sda_chk' = Checked(c_state)
      BY <1>2 DEF BitStep
    <3>2. /\ c_state \in {"wr_b", "wr_c"} => Checked(c_state) = TRUE
          /\ c_state \notin {"wr_b", "wr_c"} => Checked(c_state) = FALSE
      <4>1. CASE c_state = "wr_b" \/ c_state = "wr_c"
        BY <4>1 DEF Checked
      <4>2. CASE ~(c_state = "wr_b" \/ c_state = "wr_c")
        BY <4>2 DEF Checked
      <4>. QED
        BY <4>1, <4>2
    <3>. QED
      BY <3>1, <3>2
  <2>3. /\ Wave["start_a"] = [next |-> "start_b", scl |-> scl_oen, sda |-> 1]
        /\ Wave["start_b"] = [next |-> "start_c", scl |-> 1, sda |-> 1]
        /\ Wave["start_c"] = [next |-> "start_d", scl |-> 1, sda |-> 0]
        /\ Wave["start_d"] = [next |-> "start_e", scl |-> 1, sda |-> 0]
        /\ Wave["start_e"] = [next |-> "idle", scl |-> 0, sda |-> 0]
    BY DEF Wave
  <2>4. /\ Wave["stop_a"] = [next |-> "stop_b", scl |-> 0, sda |-> 0]
        /\ Wave["stop_b"] = [next |-> "stop_c", scl |-> 1, sda |-> 0]
        /\ Wave["stop_c"] = [next |-> "stop_d", scl |-> 1, sda |-> 0]
        /\ Wave["stop_d"] = [next |-> "idle", scl |-> 1, sda |-> 1]
    BY DEF Wave
  <2>5. /\ Wave["rd_a"] = [next |-> "rd_b", scl |-> 0, sda |-> 1]
        /\ Wave["rd_b"] = [next |-> "rd_c", scl |-> 1, sda |-> 1]
        /\ Wave["rd_c"] = [next |-> "rd_d", scl |-> 1, sda |-> 1]
        /\ Wave["rd_d"] = [next |-> "idle", scl |-> 0, sda |-> 1]
    BY DEF Wave
  <2>6. /\ Wave["wr_a"] = [next |-> "wr_b", scl |-> 0, sda |-> core_txd]
        /\ Wave["wr_b"] = [next |-> "wr_c", scl |-> 1, sda |-> core_txd]
        /\ Wave["wr_c"] = [next |-> "wr_d", scl |-> 1, sda |-> core_txd]
        /\ Wave["wr_d"] = [next |-> "idle", scl |-> 0, sda |-> core_txd]
    BY DEF Wave
  <2>7. /\ Moves("start_a", "start_b", scl_oen, 1) /\ Moves("start_b", "start_c", 1, 1)
        /\ Moves("start_c", "start_d", 1, 0) /\ Moves("start_d", "start_e", 1, 0)
        /\ Moves("start_e", "idle", 0, 0)
    BY <2>2, <2>3 DEF Moves
  <2>8. /\ Moves("stop_a", "stop_b", 0, 0) /\ Moves("stop_b", "stop_c", 1, 0)
        /\ Moves("stop_c", "stop_d", 1, 0) /\ Moves("stop_d", "idle", 1, 1)
    BY <2>2, <2>4 DEF Moves
  <2>9. /\ Moves("rd_a", "rd_b", 0, 1) /\ Moves("rd_b", "rd_c", 1, 1)
        /\ Moves("rd_c", "rd_d", 1, 1) /\ Moves("rd_d", "idle", 0, 1)
    BY <2>2, <2>5 DEF Moves
  <2>10. /\ Moves("wr_a", "wr_b", 0, core_txd) /\ Moves("wr_b", "wr_c", 1, core_txd)
         /\ Moves("wr_c", "wr_d", 1, core_txd) /\ Moves("wr_d", "idle", 0, core_txd)
    BY <2>2, <2>6 DEF Moves
  <2>. QED
    BY <1>2, <2>1, <2>7, <2>8, <2>9, <2>10
<1>. QED
  BY <1>1, <1>2

----------------------------------------------------------------------------
(* The divider and the bit controller.                                     *)

(* Before I2C_init is over, nothing is at work.                            *)
LEMMA Disabled ==
  ASSUME CallInv, DriverInv, PrescaleInv, CommandInv, ByteInv, StateInv, DividerInv, RestInv,
         ClockInv, ~ctr
  PROVE  /\ call.op = "init" /\ byte_state = "idle" /\ core_cmd = "nop" /\ c_state = "idle"
         /\ ~core_ack /\ ~Low /\ sda_oen = 1 /\ clk_en /\ ~ld /\ ~shift
         /\ sSCL = 1 /\ dSCL = 1 /\ dscl_oen = 1
<1>1. call.op = "init"
  BY DEF PrescaleInv, Enabled, DriverInv
<1>2. byte_state = "idle"
  BY <1>1 DEF CommandInv, AtPoll
<1>3. core_cmd = "nop" /\ ~ld /\ ~shift
  BY <1>2 DEF ByteInv
<1>4. c_state = "idle" /\ clk_en
  BY DEF DividerInv
<1>5. ~core_ack
  BY <1>3 DEF StateInv
<1>6. ~Low
  BY <1>1, <1>2 DEF RestInv, Freed
<1>7. sda_oen = 1
  BY <1>4, <1>6 DEF RestInv
<1>8. sSCL = 1 /\ dSCL = 1 /\ dscl_oen = 1
  BY <1>4, <1>6 DEF ClockInv, Rising
<1>. QED
  BY <1>1, <1>2, <1>3, <1>4, <1>5, <1>6, <1>7, <1>8

(* Once on, the divider stays on, and its prescale is the board's.         *)
LEMMA EnabledStays ==
  ASSUME CallInv, DriverInv, PrescaleInv, ctr, NEW acc, Clock(acc)
  PROVE  prer = Prescale /\ prer' = prer /\ ctr'
<1>1. Drives(acc) /\ WriteRegisters(acc)
  BY DEF Clock, Board, CoreClock
<1>2. dpc \in Nat
  BY SMT DEF DriverInv, Issue
<1>3. Enabled
  BY DEF PrescaleInv
<1>4. prer = Prescale
  BY <1>2, <1>3, SMT DEF PrescaleInv, Set, Enabled, Written
<1>5. CASE call.op # "init" \/ dpc = 0
  BY <1>1, <1>4, <1>5, RegistersWritten
<1>6. CASE ~(call.op # "init" \/ dpc = 0)
  <2>1. dpc = 5
    BY <1>3, <1>6 DEF Enabled
  <2>2. dpc # 3 /\ dpc # 4
    BY <2>1, SMT
  <2>3. CASE Silent(acc)
    BY <1>1, <1>4, <2>3, RegistersWritten
  <2>4. CASE ~Silent(acc)
    BY <1>1, <1>4, <1>6, <2>1, <2>2, <2>4, RegistersWritten
  <2>. QED
    BY <2>3, <2>4
<1>. QED
  BY <1>5, <1>6

(* A phase of the divider: its first clock, its second, and its last.      *)
LEMMA Phases ==
  ASSUME DividerInv, PrescaleInv, ctr, prer = Prescale, prer' = prer, Divider
  PROVE  /\ clk_en' \in BOOLEAN
         /\ First' <=> clk_en
         /\ First => Second'
         /\ clk_en' => ~clk_en /\ ~First /\ ~SlaveWait
         /\ cnt' \in 0 .. prer' /\ (clk_en' <=> cnt' = prer')
         /\ ~(First /\ clk_en) /\ ~(Second /\ clk_en) /\ ~(First /\ Second)
<1>1. prer \in Nat /\ 2 <= prer
  BY DEF PrescaleInv
<1>2. cnt \in 0 .. prer /\ clk_en \in BOOLEAN /\ (clk_en <=> cnt = prer)
  BY DEF DividerInv
<1>3. CASE cnt = 0
  <2>1. ~clk_en /\ ~First
    BY <1>1, <1>2, <1>3, SMT DEF First
  <2>4. ~(Second /\ clk_en) /\ ~(First /\ Second)
    BY <2>1
  <2>2. CASE SlaveWait
    <3>1. cnt' = cnt /\ clk_en' = FALSE
      BY <1>3, <2>2 DEF Divider
    <3>2. cnt' \in 0 .. prer' /\ cnt' # prer' /\ cnt' # prer' - 1
      BY <1>1, <1>3, <3>1, SMT
    <3>. QED
      BY <2>1, <3>1, <3>2, <2>4 DEF First
  <2>3. CASE ~SlaveWait
    <3>1. cnt' = prer /\ clk_en' = TRUE
      BY <1>3, <2>3 DEF Divider
    <3>2. cnt' \in 0 .. prer' /\ cnt' = prer'
      BY <1>1, <3>1, SMT
    <3>4. ~First'
      BY <3>1 DEF First
    <3>. QED
      BY <2>1, <2>3, <3>1, <3>2, <3>4, <2>4 DEF Second
  <2>. QED
    BY <2>2, <2>3
<1>4. CASE cnt # 0
  <2>1. cnt' = cnt - 1 /\ clk_en' = FALSE
    BY <1>4 DEF Divider
  <2>2. cnt' \in 0 .. prer' /\ cnt' # prer'
    BY <1>1, <1>2, <1>4, <2>1, SMT
  <2>3. cnt' = prer' - 1 <=> cnt = prer
    BY <1>1, <1>2, <2>1, SMT
  <2>4. First' <=> clk_en
    BY <1>2, <2>1, <2>3 DEF First
  <2>5. cnt = prer - 1 => cnt' = prer' - 2
    BY <1>1, <1>2, <2>1, SMT
  <2>6. First => Second'
    BY <2>1, <2>5 DEF First, Second
  <2>7. ~(First /\ Second)
    BY <1>1, <1>2, SMT DEF First, Second
  <2>8. ~(First /\ clk_en) /\ ~(Second /\ clk_en)
    BY DEF First, Second
  <2>. QED
    BY <2>1, <2>2, <2>4, <2>6, <2>7, <2>8
<1>. QED
  BY <1>3, <1>4

(* The divider runs, and a bit is done in the first clock of a phase.      *)
LEMMA DividerKeeps ==
  ASSUME CallInv, DriverInv, PrescaleInv, CommandInv, ByteInv, StateInv, DividerInv, RestInv,
         SamplesInv, ClockInv, NotLost, NEW acc, Clock(acc)
  PROVE  DividerInv'
<1>1. /\ Drives(acc) /\ WriteRegisters(acc) /\ Divider /\ BitStep /\ i2c_al = FALSE
      /\ clk_en \in BOOLEAN /\ core_ack \in BOOLEAN
  BY DEF Clock, Board, CoreClock, NotLost, DividerInv, StateInv
<1>2. CASE ctr
  <2>1. prer = Prescale /\ prer' = prer /\ ctr'
    BY <1>2, EnabledStays
  <2>2. /\ clk_en' \in BOOLEAN /\ (First' <=> clk_en)
        /\ cnt' \in 0 .. prer' /\ (clk_en' <=> cnt' = prer')
    BY <1>1, <1>2, <2>1, Phases
  <2>3. core_ack' => clk_en
    BY <1>1, BitMoves DEF BitHolds
  <2>. QED
    BY <2>1, <2>2, <2>3 DEF DividerInv
<1>3. CASE ~ctr
  <2>1. /\ call.op = "init" /\ core_cmd = "nop" /\ c_state = "idle" /\ clk_en
        /\ sSCL = 1
    BY <1>3, Disabled
  <2>2. ~SlaveWait
    BY <2>1 DEF SlaveWait
  <2>3. cnt' = prer /\ clk_en' = TRUE
    BY <1>1, <1>3, <2>2 DEF Divider
  <2>4. c_state' = "idle" /\ core_ack' = FALSE
    BY <1>1, <2>1, BitMoves DEF BitLeaves
  <2>5. ctr' => prer' = prer /\ prer = Prescale
    <3>1. ctr \in BOOLEAN /\ dpc \in Nat
      BY SMT DEF PrescaleInv, DriverInv, Issue
    <3>2. CASE Silent(acc) \/ dpc = 0
      BY <1>1, <1>3, <3>1, <3>2, RegistersWritten
    <3>3. CASE ~Silent(acc) /\ dpc # 5
      BY <1>1, <1>3, <2>1, <3>1, <3>3, RegistersWritten
    <3>4. CASE ~Silent(acc) /\ dpc = 5
      <4>1. dpc # 3 /\ dpc # 4
        BY <3>4, SMT
      <4>2. prer' = prer
        BY <1>1, <2>1, <3>4, <4>1, RegistersWritten
      <4>3. Set
        BY <1>3, <3>4, SMT DEF Set, Written, DriverInv
      <4>. QED
        BY <4>2, <4>3 DEF PrescaleInv
    <3>. QED
      BY <3>2, <3>3, <3>4
  <2>6. ctr' => cnt' \in 0 .. prer' /\ cnt' = prer'
    BY <2>3, <2>5, SMT DEF PrescaleInv
  <2>. QED
    BY <2>3, <2>4, <2>6 DEF DividerInv
<1>. QED
  BY <1>2, <1>3

(* A clock turns the bit controller in one of three ways: nothing is to be *)
(* done, a bit has just been done, or one is in progress.                  *)
Still == c_state = "idle" /\ c_state' = "idle" /\ core_ack' = FALSE /\ sda_chk' = FALSE
         /\ scl_oen' = scl_oen /\ sda_oen' = sda_oen

IdleTurn == byte_state = "idle" /\ core_cmd = "nop" /\ core_ack = FALSE /\ Still

AckTurn == /\ byte_state # "idle" /\ core_cmd # "nop" /\ core_ack = TRUE /\ Still
           /\ clk_en = FALSE /\ First

WorkTurn ==
  /\ byte_state # "idle" /\ core_ack = FALSE /\ ByteHolds
  /\ byte_state' = byte_state /\ core_cmd' = core_cmd

(* The clocks at which the bit controller does not move, or leaves idle, or*)
(* goes on from the state it is in.                                        *)
Runs ==
  /\ clk_en = FALSE => BitHolds
  /\ clk_en = TRUE =>
       /\ BitLeaves("nop", "idle") /\ BitLeaves("start", "start_a")
       /\ BitLeaves("stop", "stop_a") /\ BitLeaves("write", "wr_a")
       /\ BitLeaves("read", "rd_a")
       /\ Moves("start_a", "start_b", scl_oen, 1) /\ Moves("start_b", "start_c", 1, 1)
       /\ Moves("start_c", "start_d", 1, 0) /\ Moves("start_d", "start_e", 1, 0)
       /\ Moves("start_e", "idle", 0, 0)
       /\ Moves("stop_a", "stop_b", 0, 0) /\ Moves("stop_b", "stop_c", 1, 0)
       /\ Moves("stop_c", "stop_d", 1, 0) /\ Moves("stop_d", "idle", 1, 1)
       /\ Moves("rd_a", "rd_b", 0, 1) /\ Moves("rd_b", "rd_c", 1, 1)
       /\ Moves("rd_c", "rd_d", 1, 1) /\ Moves("rd_d", "idle", 0, 1)
       /\ Moves("wr_a", "wr_b", 0, core_txd) /\ Moves("wr_b", "wr_c", 1, core_txd)
       /\ Moves("wr_c", "wr_d", 1, core_txd) /\ Moves("wr_d", "idle", 0, core_txd)

(* The phases of the divider, once it is on.                               *)
Ticks ==
  /\ ctr' = TRUE /\ clk_en \in BOOLEAN /\ clk_en' \in BOOLEAN
  /\ First' <=> clk_en = TRUE
  /\ First => Second'
  /\ clk_en' = TRUE => clk_en = FALSE /\ ~First /\ ~SlaveWait
  /\ clk_en = TRUE => ~First /\ ~Second
  /\ First => ~Second

(* Each clock is one of the three.                                         *)
LEMMA Turns ==
  ASSUME BusInv, NEW acc, Clock(acc)
  PROVE  /\ IdleTurn \/ AckTurn \/ WorkTurn
         /\ Runs /\ clk_en \in BOOLEAN /\ core_ack \in BOOLEAN
         /\ ctr = TRUE => Ticks
         /\ byte_state # "idle" => ctr = TRUE /\ call' = call
         /\ ctr = FALSE => /\ IdleTurn /\ ~Low /\ sda_oen = 1 /\ sSCL = 1 /\ dSCL = 1
                           /\ dscl_oen = 1 /\ clk_en = TRUE
<1>1. /\ CallInv /\ DriverInv /\ PrescaleInv /\ CommandInv /\ ByteInv /\ StateInv
      /\ DividerInv /\ RestInv /\ PhaseInv /\ ClockInv /\ NotLost
  BY DEF BusInv
<1>2. /\ Drives(acc) /\ Acknowledge(acc) /\ BitStep /\ ByteStep /\ Divider
      /\ i2c_al = FALSE /\ clk_en \in BOOLEAN /\ core_ack \in BOOLEAN /\ ctr \in BOOLEAN
  BY <1>1 DEF Clock, Board, CoreClock, NotLost, DividerInv, StateInv, PrescaleInv
<1>3. Runs
  BY <1>1, <1>2, BitMoves DEF Runs
<1>4. ctr = TRUE => Ticks
  <2>1. SUFFICES ASSUME ctr PROVE Ticks
    BY <1>2
  <2>2. prer = Prescale /\ prer' = prer /\ ctr'
    BY <1>1, <2>1, EnabledStays
  <2>3. ctr' \in BOOLEAN
    BY <1>1, PrescaleKeeps DEF PrescaleInv
  <2>4. /\ clk_en' \in BOOLEAN /\ (First' <=> clk_en) /\ (First => Second')
        /\ clk_en' => ~clk_en /\ ~First /\ ~SlaveWait
        /\ ~(First /\ clk_en) /\ ~(Second /\ clk_en) /\ ~(First /\ Second)
    BY <1>1, <1>2, <2>1, <2>2, Phases
  <2>. QED
    BY <1>2, <2>2, <2>3, <2>4 DEF Ticks
<1>5. ctr = FALSE => /\ byte_state = "idle" /\ ~Low /\ sda_oen = 1 /\ sSCL = 1 /\ dSCL = 1
                     /\ dscl_oen = 1 /\ clk_en = TRUE
  BY <1>1, <1>2, Disabled
<1>10. c_state = "idle" => sda_chk = FALSE
  BY <1>1 DEF PhaseInv
<1>6. byte_state = "idle" => IdleTurn
  <2>1. SUFFICES ASSUME byte_state = "idle" PROVE IdleTurn
    OBVIOUS
  <2>2. core_cmd = "nop" /\ core_ack = FALSE
    BY <1>1, <1>2, <2>1 DEF ByteInv, StateInv
  <2>3. c_state = "idle"
    BY <1>1, <2>2 DEF StateInv, Starts, Stops, Reads, Writings
  <2>4. sda_chk = FALSE
    BY <1>10, <2>3
  <2>5. Still
    BY <1>2, <1>3, <2>2, <2>3, <2>4 DEF Runs, BitLeaves, BitHolds, Still
  <2>. QED
    BY <2>1, <2>2, <2>5 DEF IdleTurn
<1>7. byte_state # "idle" /\ core_ack => AckTurn
  <2>1. SUFFICES ASSUME byte_state # "idle", core_ack PROVE AckTurn
    OBVIOUS
  <2>2. c_state = "idle" /\ core_cmd # "nop" /\ First /\ clk_en = FALSE
    BY <1>1, <1>2, <2>1 DEF StateInv, DividerInv, First
  <2>3. sda_chk = FALSE
    BY <1>10, <2>2
  <2>4. Still
    BY <1>3, <2>2, <2>3 DEF Runs, BitHolds, Still
  <2>. QED
    BY <1>2, <2>1, <2>2, <2>4 DEF AckTurn
<1>8. byte_state # "idle" /\ ~core_ack => WorkTurn
  <2>1. SUFFICES ASSUME byte_state # "idle", ~core_ack PROVE WorkTurn
    OBVIOUS
  <2>2. ByteHolds
    BY <1>1, <1>2, <2>1, ByteMoves
  <2>. QED
    BY <1>2, <2>1, <2>2 DEF WorkTurn, ByteHolds
<1>9. byte_state # "idle" => ctr = TRUE /\ call' = call
  <2>1. byte_state # "idle" => AtPoll
    BY <1>1 DEF CommandInv
  <2>. QED
    BY <1>1, <1>2, <1>5, <2>1, PollSteps
<1>. QED
  BY <1>2, <1>3, <1>4, <1>5, <1>6, <1>7, <1>8, <1>9

(* The commands to the bit controller.                                     *)
LEMMA ByteCommands ==
  ASSUME ByteInv
  PROVE  core_cmd \in {"nop", "start", "stop", "write", "read"}
BY DEF ByteInv, Works

(* The bit controller works for the command it has.                        *)
LEMMA StateKeeps ==
  ASSUME BusInv, NEW acc, Clock(acc)
  PROVE  StateInv'
<1>1. StateInv /\ ByteInv
  BY DEF BusInv
<1>2. CASE Still
  <2>1. c_state' = "idle" /\ core_ack' = FALSE
    BY <1>2 DEF Still
  <2>. QED
    BY <2>1 DEF StateInv, Starts, Stops, Reads, Writings
<1>3. CASE WorkTurn
  <2>1. core_cmd' = core_cmd /\ core_ack = FALSE
    BY <1>3 DEF WorkTurn
  <2>2. CASE clk_en = FALSE
    <3>1. BitHolds
      BY <2>2, Turns DEF Runs
    <3>. QED
      BY <1>1, <2>1, <3>1 DEF StateInv, BitHolds
  <2>3. CASE clk_en = TRUE
    <3>1. Runs
      BY Turns
    <3>2. CASE c_state = "idle"
      <4>1. core_ack' = FALSE
        BY <1>1, <2>1, <2>3, <3>1, <3>2, ByteCommands DEF Runs, BitLeaves
      <4>2. /\ core_cmd = "nop" => c_state' = "idle"
            /\ core_cmd = "start" => c_state' = "start_a"
            /\ core_cmd = "stop" => c_state' = "stop_a"
            /\ core_cmd = "read" => c_state' = "rd_a"
            /\ core_cmd = "write" => c_state' = "wr_a"
        BY <2>3, <3>1, <3>2 DEF Runs, BitLeaves
      <4>. QED
        BY <1>1, <2>1, <4>1, <4>2, ByteCommands DEF StateInv, Starts, Stops, Reads, Writings
    <3>3. CASE c_state \in Starts
      BY <1>1, <2>1, <2>3, <3>1, <3>3 DEF Runs, Moves, StateInv, Starts, Stops, Reads, Writings
    <3>4. CASE c_state \in Stops
      BY <1>1, <2>1, <2>3, <3>1, <3>4 DEF Runs, Moves, StateInv, Starts, Stops, Reads, Writings
    <3>5. CASE c_state \in Reads
      BY <1>1, <2>1, <2>3, <3>1, <3>5 DEF Runs, Moves, StateInv, Starts, Stops, Reads, Writings
    <3>6. CASE c_state \in Writings
      BY <1>1, <2>1, <2>3, <3>1, <3>6 DEF Runs, Moves, StateInv, Starts, Stops, Reads, Writings
    <3>. QED
      BY <1>1, <3>2, <3>3, <3>4, <3>5, <3>6 DEF StateInv
  <2>. QED
    BY <2>2, <2>3, Turns
<1>. QED
  BY <1>2, <1>3, Turns DEF IdleTurn, AckTurn

(* Loading and shifting.                                                   *)
LEMMA ByteTypes ==
  ASSUME i2c_al = FALSE, ByteStep
  PROVE  ld' \in BOOLEAN /\ shift' \in BOOLEAN
BY DEF ByteStep, Shifts

(* The register is loaded or shifted while no bit is in progress.          *)
LEMMA ShiftKeeps ==
  ASSUME BusInv, NEW acc, Clock(acc)
  PROVE  ShiftInv'
<1>1. CallInv /\ CommandInv /\ ByteInv /\ ByteStep /\ i2c_al = FALSE
  BY DEF BusInv, Clock, Board, CoreClock, NotLost
<1>2. CASE WorkTurn
  BY <1>2 DEF WorkTurn, ByteHolds, ShiftInv
<1>3. CASE Still
  <2>1. c_state' = "idle" /\ core_ack' = FALSE
    BY <1>3 DEF Still
  <2>2. ld' = TRUE => shift' = FALSE /\ byte_state' \in {"start", "write", "read"}
    <3>1. CASE byte_state = "idle" /\ ~Begins
      BY <1>1, <3>1, ByteMoves DEF ByteHolds
    <3>2. CASE byte_state # "idle" /\ ~core_ack
      BY <1>1, <3>2, ByteMoves DEF ByteHolds
    <3>3. CASE Begins
      <4>1. call.op \in {"start", "write", "read"}
        BY <1>1, <3>3 DEF Begins, Commanded, CallInv
      <4>. QED
        BY <1>1, <3>3, <4>1, ByteMoves DEF Goes
    <3>4. CASE byte_state # "idle" /\ core_ack
      <4>1. byte_state \in {"start", "write", "read", "ack", "stop"}
        BY <1>1, <3>4 DEF ByteInv
      <4>. QED
        BY <1>1, <3>4, <4>1, ByteMoves DEF Goes
    <3>. QED
      BY <3>1, <3>2, <3>3, <3>4 DEF Begins
  <2>3. ld' \in BOOLEAN
    BY <1>1, ByteTypes
  <2>. QED
    BY <2>1, <2>2, <2>3 DEF ShiftInv
<1>. QED
  BY <1>2, <1>3, Turns DEF IdleTurn, AckTurn

(* The wave forms leave the lines free, or not, as long as a call does not *)
(* give its command.                                                       *)
LEMMA FreedStays ==
  ASSUME CallInv, DriverInv, NEW acc, Drives(acc), Acknowledge(acc), ~AtIssue
  PROVE  Freed' <=> Freed
<1>1. dpc \in Nat /\ wb_ack \in BOOLEAN
  BY SMT DEF DriverInv, Issue
<1>2. call.op = "init" \/ (Issue \in 1 .. 2 /\ dpc <= Issue + 2)
  BY CallLength, SMT DEF DriverInv
<1>3. CASE Invokes
  <2>1. dpc = 0 /\ dpc' = 1 /\ CallInv'
    BY <1>3 DEF Invokes
  <2>2. call'.op # "init" => Issue' \in 1 .. 2 /\ ~(dpc' = 0) /\ ~(dpc' >= Poll') /\ 0 < dpc' /\ dpc' <= Issue'
    BY <2>1, SMT DEF Poll, Issue
  <2>3. Freed' <=> call'.op = "init" \/ (call'.op = "start" /\ call'.arg = 0)
    BY <2>2 DEF Freed
  <2>4. ~(0 < dpc)
    BY <2>1, SMT
  <2>5. Freed <=> call.op = "init" \/ call.last
    BY <2>1, <2>4 DEF Freed
  <2>6. call.op = "init" \/ call.last <=> todo \in {"init", "open"}
    BY DEF CallInv, NextCall, Bits
  <2>7. todo \in {"init", "open", "point", "go on", "fetch"}
    BY DEF CallInv, NextCall
  <2>8. /\ todo = "init" => call'.op = "init"
        /\ todo = "open" => call'.op = "start" /\ call'.arg = 0
    <3>1. /\ todo = "init" => call' = Call("init", 0, FALSE)
          /\ todo = "open" => call' = Call("start", 0, FALSE)
      BY <1>3 DEF Invokes, InitCall
    <3>2. todo = "init" => call'.op = "init"
      BY <3>1 DEF Call
    <3>3. todo = "open" => call'.op = "start" /\ call'.arg = 0
      BY <3>1 DEF Call
    <3>. QED
      BY <3>2, <3>3
  <2>9. todo \in {"point", "go on", "fetch"} =>
          call'.op # "init" /\ ~(call'.op = "start" /\ call'.arg = 0)
    BY <1>3 DEF Invokes
  <2>. QED
    BY <2>3, <2>5, <2>6, <2>7, <2>8, <2>9
<1>4. CASE Stays
  <2>1. call' = call /\ dpc' = dpc
    BY <1>4 DEF Stays
  <2>2. Freed' <=> Freed
    BY <2>1 DEF Freed, Poll, Issue
  <2>. QED
    BY <2>2
<1>5. CASE Advances
  <2>1. call' = call /\ dpc' = (IF dpc = Length(call) THEN 0 ELSE dpc + 1) /\ dpc > 0 /\ wb_ack
    BY <1>5 DEF Advances
  <2>2. CASE call.op = "init"
    BY <2>1, <2>2 DEF Freed
  <2>3. CASE call.op # "init"
    <3>1. dpc # Issue
      BY <2>1, <2>3 DEF AtIssue
    <3>2. Issue' = Issue /\ Poll' = Poll
      BY <2>1 DEF Issue, Poll
    <3>3. Length(call) = Issue + 2
      BY <2>3, CallLength
    <3>4. dpc' = 0 \/ dpc' >= Poll <=> dpc = 0 \/ dpc >= Poll
      BY <1>1, <1>2, <2>1, <2>3, <3>1, <3>3, SMT DEF Poll
    <3>5. 0 < dpc' /\ dpc' <= Issue <=> 0 < dpc /\ dpc <= Issue
      BY <1>1, <1>2, <2>1, <2>3, <3>1, <3>3, SMT
    <3>6. Freed' <=> \/ call.op = "init"
                     \/ (dpc' = 0 \/ dpc' >= Poll) /\ call.last
                     \/ 0 < dpc' /\ dpc' <= Issue /\ call.op = "start" /\ call.arg = 0
      BY <2>1, <3>2 DEF Freed
    <3>. QED
      BY <3>4, <3>5, <3>6 DEF Freed
  <2>. QED
    BY <2>2, <2>3
<1>. QED
  BY <1>3, <1>4, <1>5, DriverMoves DEF Waits

(* The levels the core gives.                                              *)
LEMMA LevelsKeep ==
  ASSUME BusInv, NEW acc, Clock(acc)
  PROVE  /\ scl_oen' \in Bits /\ sda_oen' \in Bits
         /\ c_state' = "idle" /\ ~Low' => sda_oen' = 1
<1>1. RestInv /\ StateInv /\ RegisterTypes /\ ByteInv
  BY DEF BusInv
<1>2. core_txd \in Bits /\ 0 \in Bits /\ 1 \in Bits
  BY <1>1 DEF RegisterTypes, Bits
<1>3. CASE c_state' = c_state /\ UNCHANGED << scl_oen, sda_oen >>
  BY <1>1, <1>3 DEF RestInv, Low
<1>4. CASE clk_en = TRUE /\ c_state = "idle"
  <2>1. UNCHANGED << scl_oen, sda_oen >>
    BY <1>1, <1>4, Turns, ByteCommands DEF Runs, BitLeaves
  <2>. QED
    BY <1>1, <1>4, <2>1 DEF RestInv, Low
<1>5. CASE clk_en = TRUE /\ c_state # "idle"
  <2>1. Runs /\ ~(1 = 0)
    BY Turns, ZeroOne
  <2>2. scl_oen \in Bits
    BY <1>1 DEF RestInv
  <2>3. CASE c_state \in Starts
    BY <1>2, <1>5, <2>1, <2>2, <2>3 DEF Runs, Moves, Starts, Low
  <2>4. CASE c_state \in Stops
    BY <1>2, <1>5, <2>1, <2>4 DEF Runs, Moves, Stops, Low
  <2>5. CASE c_state \in Reads
    BY <1>2, <1>5, <2>1, <2>5 DEF Runs, Moves, Reads, Low
  <2>6. CASE c_state \in Writings
    BY <1>2, <1>5, <2>1, <2>6 DEF Runs, Moves, Writings, Low
  <2>. QED
    BY <1>1, <1>5, <2>3, <2>4, <2>5, <2>6 DEF StateInv
<1>. QED
  BY <1>3, <1>4, <1>5, Turns DEF Runs, BitHolds

(* Between bits the clock is low, between transfers both lines are free.   *)
LEMMA RestKeeps ==
  ASSUME BusInv, NEW acc, Clock(acc)
  PROVE  RestInv'
<1>1. /\ CallInv /\ DriverInv /\ CommandInv /\ ByteInv /\ StateInv /\ RestInv
      /\ ByteStep /\ i2c_al = FALSE /\ Drives(acc) /\ Acknowledge(acc)
  BY DEF BusInv, Clock, Board, CoreClock, NotLost
<1>2. /\ scl_oen' \in Bits /\ sda_oen' \in Bits
      /\ c_state' = "idle" /\ ~Low' => sda_oen' = 1
  BY LevelsKeep
<1>3. CASE IdleTurn /\ ~Begins
  <2>1. byte_state = "idle" /\ byte_state' = "idle" /\ core_ack' = FALSE
    BY <1>1, <1>3, ByteMoves DEF IdleTurn, Still, ByteHolds
  <2>2. Low' <=> Low
    BY <1>3 DEF IdleTurn, Still, Low
  <2>3. ~AtIssue
    BY <1>1, <1>3, <2>1 DEF CommandInv, Begins
  <2>4. Freed' <=> Freed
    BY <1>1, <2>3, FreedStays
  <2>5. Low' <=> ~Freed'
    BY <1>1, <2>1, <2>2, <2>4 DEF RestInv
  <2>. QED
    BY <1>2, <2>1, <2>5 DEF RestInv
<1>4. CASE IdleTurn /\ Begins
  <2>1. core_ack' = FALSE /\ (Low' <=> Low)
    BY <1>4 DEF IdleTurn, Still, Low
  <2>2. byte_state = "idle" /\ call.op \in {"start", "write", "read"}
    BY <1>1, <1>4 DEF Begins, Commanded, CallInv
  <2>3. byte_state' \in {"start", "write", "read"} /\ (call.op = "start" => byte_state' = "start")
    BY <1>1, <1>4, <2>2, ByteMoves DEF Goes
  <2>4. byte_state' # "start" => Low'
    <3>1. AtIssue \/ AtPoll
      BY <1>1, <1>4, CommandTable DEF CommandInv, Begins, Resting
    <3>2. AtPoll => ~AtIssue /\ dpc # 0
      BY CallLength, <1>1, SMT DEF AtPoll, AtIssue, Poll
    <3>3. SUFFICES ASSUME call.op # "start" PROVE Low
      BY <2>1, <2>3
    <3>4. CASE AtIssue
      <4>1. dpc # 0 /\ ~(dpc >= Poll)
        BY <1>1, <3>4, CallLength, SMT DEF AtIssue, Poll
      <4>2. ~Freed
        BY <2>2, <3>3, <4>1 DEF Freed
      <4>. QED
        BY <1>1, <2>2, <4>2 DEF RestInv
    <3>5. CASE AtPoll
      <4>. QED
        BY <1>1, <1>4, <3>5, CommandTable DEF CommandInv, Begins, Resting
    <3>. QED
      BY <3>1, <3>4, <3>5
  <2>. QED
    BY <1>2, <2>1, <2>3, <2>4 DEF RestInv
<1>5. CASE AckTurn
  <2>1. /\ core_ack' = FALSE /\ (Low' <=> Low) /\ call' = call
        /\ byte_state # "idle" /\ core_ack = TRUE /\ c_state = "idle"
    BY <1>5, Turns DEF AckTurn, Still, Low
  <2>2. CASE byte_state = "start"
    <3>1. byte_state' = "write" /\ Low
      BY <1>1, <2>1, <2>2, ByteMoves DEF Goes, RestInv
    <3>. QED
      BY <1>2, <2>1, <3>1 DEF RestInv
  <2>3. CASE byte_state \in {"write", "read"}
    <3>1. byte_state' \in {"write", "read", "ack"} /\ Low
      BY <1>1, <2>1, <2>3, ByteMoves DEF Goes, RestInv
    <3>. QED
      BY <1>2, <2>1, <3>1 DEF RestInv
  <2>4. CASE byte_state \in {"ack", "stop"}
    <3>1. /\ byte_state' = "idle" \/ byte_state' = "stop"
          /\ byte_state' = "stop" => Low
          /\ byte_state' = "idle" => (Low <=> ~call.last)
      BY <1>1, <2>1, <2>4, ByteMoves DEF Goes, RestInv, ByteInv, Works
    <3>2. byte_state' = "idle" => (Freed' <=> call.last)
      <4>1. AtPoll /\ ~AtIssue /\ Issue \in 1 .. 2
        BY <1>1, <2>1, PollSteps, CallLength DEF CommandInv, AtPoll
      <4>2. Freed' <=> Freed
        BY <1>1, <4>1, FreedStays
      <4>3. dpc >= Poll /\ ~(dpc <= Issue) /\ call.op # "init"
        BY <4>1, SMT DEF AtPoll, Poll
      <4>4. Freed <=> call.last
        BY <4>3 DEF Freed
      <4>. QED
        BY <4>2, <4>4
    <3>. QED
      BY <1>2, <2>1, <3>1, <3>2 DEF RestInv
  <2>. QED
    BY <1>1, <2>1, <2>2, <2>3, <2>4 DEF ByteInv
<1>6. CASE WorkTurn
  <2>1. /\ core_ack = FALSE /\ byte_state' = byte_state /\ core_cmd' = core_cmd
        /\ byte_state # "idle" /\ core_cmd # "nop"
    <3>1. core_cmd # "nop"
      BY <1>1, <1>6 DEF ByteInv, Works, WorkTurn
    <3>. QED
      BY <1>6, <3>1 DEF WorkTurn
  <2>2. CASE clk_en = FALSE
    <3>1. core_ack' = FALSE /\ c_state' = c_state /\ (Low' <=> Low)
      BY <2>2, Turns DEF Runs, BitHolds, Low
    <3>. QED
      BY <1>1, <1>2, <2>1, <3>1 DEF RestInv
  <2>3. CASE clk_en = TRUE /\ c_state = "idle"
    <3>1. core_ack' = FALSE /\ c_state' # "idle"
      BY <1>1, <2>1, <2>3, Turns, ByteCommands DEF Runs, BitLeaves
    <3>. QED
      BY <1>2, <2>1, <3>1 DEF RestInv
  <2>4. CASE clk_en = TRUE /\ c_state # "idle"
    <3>1. /\ core_ack' = TRUE => c_state' = "idle"
          /\ c_state' = "idle" => core_ack' = TRUE
          /\ core_ack' \in BOOLEAN
      BY <1>1, StateKeeps, <2>4, Turns DEF StateInv, Runs, Moves, Starts, Stops, Reads, Writings
    <3>2. c_state' = "idle" => \/ core_cmd = "start" /\ Gives(0, 0)'
                               \/ core_cmd = "stop" /\ Gives(1, 1)'
                               \/ core_cmd = "read" /\ Gives(0, 1)'
                               \/ core_cmd = "write" /\ scl_oen' = 0
      <4>1. c_state' = "idle" => c_state \in {"start_e", "stop_d", "rd_d", "wr_d"}
        BY <1>1, <2>4, Turns DEF StateInv, Runs, Moves, Starts, Stops, Reads, Writings
      <4>. QED
        BY <1>1, <2>4, <4>1, Turns DEF StateInv, Runs, Moves, Starts, Stops, Reads, Writings, Gives
    <3>3. /\ byte_state \in {"write", "read", "ack"} => core_cmd \in {"write", "read"}
          /\ byte_state = "stop" => core_cmd = "stop"
          /\ byte_state = "start" => core_cmd = "start"
      BY <1>1 DEF ByteInv, Works
    <3>. QED
      BY <1>2, <2>1, <3>1, <3>2, <3>3, ZeroOne DEF RestInv, Gives, Low
  <2>. QED
    BY <2>2, <2>3, <2>4, Turns
<1>. QED
  BY <1>3, <1>4, <1>5, <1>6, Turns

(* The first bit of a byte.                                                *)
LEMMA FirstBit ==
  ASSUME NEW s \in Byte
  PROVE  s \div 128 \in Bits
BY SMT DEF Byte, Bits

(* The bit to write stays where it is until the next one is ordered.       *)
LEMMA BitStays ==
  ASSUME BusInv, NEW acc, Clock(acc), WorkTurn, c_state \in Writings
  PROVE  /\ sr' = sr
         /\ byte_state = "write" => core_txd' = sr \div 128
         /\ c_state # "wr_a" \/ clk_en = TRUE => core_txd' = core_txd
<1>1. /\ CallInv /\ CommandInv /\ ByteInv /\ ShiftInv /\ StateInv /\ WriteInv /\ ShiftRegister
      /\ ByteHolds /\ byte_state # "idle"
  BY DEF BusInv, Clock, Board, CoreClock, WorkTurn
<1>2. c_state # "idle" /\ core_cmd = "write"
  BY <1>1 DEF StateInv, Writings
<1>3. sr' = sr
  BY <1>1, <1>2 DEF ShiftInv, ShiftRegister
<1>4. byte_state = "write" \/ (byte_state = "ack" /\ call.op = "read" /\ core_txd = 1)
  BY <1>1, <1>2 DEF ByteInv, Works
<1>5. CASE byte_state = "write"
  <2>1. core_txd' = sr \div 128
    BY <1>1, <1>5 DEF ByteHolds
  <2>2. c_state = "wr_a" /\ clk_en = TRUE => ~First
    BY DEF First
  <2>3. c_state # "wr_a" \/ clk_en = TRUE => BitReady
    BY <1>1, <1>5, <2>2 DEF WriteInv, Writings
  <2>. QED
    BY <1>3, <2>1, <2>3 DEF BitReady
<1>6. CASE byte_state = "ack" /\ call.op = "read" /\ core_txd = 1
  <2>1. "ack" \in cr
    BY <1>1, <1>6, CommandTable DEF CommandInv
  <2>2. core_txd' = 1
    BY <1>1, <1>6, <2>1 DEF ByteHolds, Bit
  <2>. QED
    BY <1>3, <1>6, <2>2
<1>. QED
  BY <1>4, <1>5, <1>6

(* The bit to write is there in time.                                      *)
LEMMA WriteKeeps ==
  ASSUME BusInv, NEW acc, Clock(acc)
  PROVE  WriteInv'
<1>1. CASE Still
  <2>1. c_state' = "idle"
    BY <1>1 DEF Still
  <2>. QED
    BY <2>1 DEF WriteInv
<1>2. CASE WorkTurn
  <2>1. /\ StateInv /\ ByteInv /\ byte_state' = byte_state /\ core_cmd \in {"nop", "start", "stop", "write", "read"}
    BY <1>2, ByteCommands DEF WorkTurn, BusInv
  <2>2. CASE c_state \in Writings
    BY <1>2, <2>1, <2>2, BitStays DEF WriteInv, BitReady
  <2>3. CASE c_state = "idle"
    <3>1. c_state' = "wr_a" => clk_en = TRUE /\ c_state' = "wr_a"
      BY <2>3, Turns DEF Runs, BitHolds
    <3>2. c_state' \notin {"wr_b", "wr_c", "wr_d"}
      BY <2>1, <2>3, Turns DEF Runs, BitHolds, BitLeaves
    <3>3. byte_state # "idle" => Ticks
      BY Turns
    <3>4. clk_en = TRUE /\ byte_state # "idle" => First'
      BY <3>3 DEF Ticks
    <3>. QED
      BY <1>2, <2>1, <3>1, <3>2, <3>4 DEF WriteInv
  <2>4. CASE c_state \in Starts \cup Stops \cup Reads
    <3>1. c_state' \notin Writings
      BY <2>1, <2>4, Turns DEF Runs, BitHolds, Moves, Starts, Stops, Reads, Writings
    <3>. QED
      BY <3>1 DEF WriteInv, Writings
  <2>. QED
    BY <2>1, <2>2, <2>3, <2>4 DEF StateInv
<1>. QED
  BY <1>1, <1>2, Turns DEF IdleTurn, AckTurn

(* The registers stay in range.                                            *)
LEMMA RegistersKeep ==
  ASSUME BusInv, NEW acc, Clock(acc)
  PROVE  RegisterTypes'
<1>1. /\ CallInv /\ DriverInv /\ RegisterTypes /\ SamplesInv
      /\ Drives(acc) /\ WriteRegisters(acc) /\ StatusRegister /\ ShiftRegister /\ ByteStep
      /\ DataOut /\ BusStatus /\ i2c_al = FALSE
  BY DEF BusInv, Clock, Board, CoreClock, NotLost
<1>2. txr' \in Byte
  <2>1. Loads(acc) => txr' = IF call.op = "start" THEN 2 * I2C_add + call.arg ELSE call.arg
    BY <1>1, RegistersWritten
  <2>2. ~Loads(acc) => txr' = txr
    BY <1>1, RegistersWritten
  <2>3. call.op = "start" => 2 * I2C_add + call.arg \in Byte
    <3>1. call.op = "start" => call.arg \in Bits
      BY <1>1 DEF CallInv
    <3>. QED
      BY <3>1, SMT DEF I2C_add, Bits, Byte
  <2>4. call.arg \in Byte /\ txr \in Byte
    BY <1>1 DEF CallInv, RegisterTypes
  <2>. QED
    BY <2>1, <2>2, <2>3, <2>4
<1>3. sr' \in Byte
  <2>1. txr \in Byte /\ sr \in Byte /\ core_rxd \in Bits
    BY <1>1 DEF RegisterTypes
  <2>2. (2 * sr + core_rxd) % 256 \in Byte
    BY <2>1, SMT DEF Byte, Bits
  <2>. QED
    BY <1>1, <2>1, <2>2 DEF ShiftRegister
<1>4. dcnt' \in 0 .. 7
  <2>1. dcnt \in 0 .. 7
    BY <1>1 DEF RegisterTypes
  <2>2. (dcnt + 7) % 8 \in 0 .. 7 /\ 7 \in 0 .. 7
    BY <2>1, SMT
  <2>. QED
    BY <1>1, <2>1, <2>2 DEF ShiftRegister
<1>5. core_rxd' \in Bits /\ rxack' \in Bits
  BY <1>1 DEF RegisterTypes, SamplesInv, DataOut, StatusRegister
<1>6. ack_out' \in Bits
  BY <1>1 DEF RegisterTypes, ByteStep
<1>7. core_txd' \in Bits
  <2>1. sr \div 128 \in Bits
    BY <1>1, FirstBit DEF RegisterTypes
  <2>2. Bit("ack" \in cr) \in Bits /\ 1 \in Bits
    BY ZeroOne DEF Bit
  <2>. QED
    BY <1>1, <2>1, <2>2 DEF ByteStep
<1>8. busy' \in BOOLEAN /\ irq_flag' \in BOOLEAN
  BY <1>1 DEF BusStatus, StatusRegister
<1>9. ld' \in BOOLEAN /\ shift' \in BOOLEAN
  BY <1>1, ByteTypes
<1>. QED
  BY <1>2, <1>3, <1>4, <1>5, <1>6, <1>7, <1>8, <1>9 DEF RegisterTypes

(* From each state of a wave form: the next state, and what goes with it.  *)
Waves4(from, to, ack, scl, sda, chk) ==
  c_state = from /\ c_state' = to /\ core_ack' = ack
  /\ scl_oen' = scl /\ sda_oen' = sda /\ sda_chk' = chk

(* The wave forms.                                                         *)
LEMMA Waves ==
  ASSUME Runs, clk_en = TRUE
  PROVE  /\ c_state \in Starts =>
              \/ Waves4("start_a", "start_b", FALSE, scl_oen, 1, FALSE)
              \/ Waves4("start_b", "start_c", FALSE, 1, 1, FALSE)
              \/ Waves4("start_c", "start_d", FALSE, 1, 0, FALSE)
              \/ Waves4("start_d", "start_e", FALSE, 1, 0, FALSE)
              \/ Waves4("start_e", "idle", TRUE, 0, 0, FALSE)
         /\ c_state \in Stops =>
              \/ Waves4("stop_a", "stop_b", FALSE, 0, 0, FALSE)
              \/ Waves4("stop_b", "stop_c", FALSE, 1, 0, FALSE)
              \/ Waves4("stop_c", "stop_d", FALSE, 1, 0, FALSE)
              \/ Waves4("stop_d", "idle", TRUE, 1, 1, FALSE)
         /\ c_state \in Reads =>
              \/ Waves4("rd_a", "rd_b", FALSE, 0, 1, FALSE)
              \/ Waves4("rd_b", "rd_c", FALSE, 1, 1, FALSE)
              \/ Waves4("rd_c", "rd_d", FALSE, 1, 1, FALSE)
              \/ Waves4("rd_d", "idle", TRUE, 0, 1, FALSE)
         /\ c_state \in Writings =>
              \/ Waves4("wr_a", "wr_b", FALSE, 0, core_txd, FALSE)
              \/ Waves4("wr_b", "wr_c", FALSE, 1, core_txd, TRUE)
              \/ Waves4("wr_c", "wr_d", FALSE, 1, core_txd, TRUE)
              \/ Waves4("wr_d", "idle", TRUE, 0, core_txd, FALSE)
<1>1. ASSUME c_state \in Starts
      PROVE  \/ Waves4("start_a", "start_b", FALSE, scl_oen, 1, FALSE)
             \/ Waves4("start_b", "start_c", FALSE, 1, 1, FALSE)
             \/ Waves4("start_c", "start_d", FALSE, 1, 0, FALSE)
             \/ Waves4("start_d", "start_e", FALSE, 1, 0, FALSE)
             \/ Waves4("start_e", "idle", TRUE, 0, 0, FALSE)
  <2>1. c_state = "start_a" => Waves4("start_a", "start_b", FALSE, scl_oen, 1, FALSE)
    <3>1. Moves("start_a", "start_b", scl_oen, 1)
      BY DEF Runs
    <3>. QED
      BY <3>1 DEF Moves, Waves4
  <2>2. c_state = "start_b" => Waves4("start_b", "start_c", FALSE, 1, 1, FALSE)
    <3>1. Moves("start_b", "start_c", 1, 1)
      BY DEF Runs
    <3>. QED
      BY <3>1 DEF Moves, Waves4
  <2>3. c_state = "start_c" => Waves4("start_c", "start_d", FALSE, 1, 0, FALSE)
    <3>1. Moves("start_c", "start_d", 1, 0)
      BY DEF Runs
    <3>. QED
      BY <3>1 DEF Moves, Waves4
  <2>4. c_state = "start_d" => Waves4("start_d", "start_e", FALSE, 1, 0, FALSE)
    <3>1. Moves("start_d", "start_e", 1, 0)
      BY DEF Runs
    <3>. QED
      BY <3>1 DEF Moves, Waves4
  <2>5. c_state = "start_e" => Waves4("start_e", "idle", TRUE, 0, 0, FALSE)
    <3>1. Moves("start_e", "idle", 0, 0)
      BY DEF Runs
    <3>. QED
      BY <3>1 DEF Moves, Waves4
  <2>. QED
    BY <1>1, <2>1, <2>2, <2>3, <2>4, <2>5 DEF Starts
<1>2. ASSUME c_state \in Stops
      PROVE  \/ Waves4("stop_a", "stop_b", FALSE, 0, 0, FALSE)
             \/ Waves4("stop_b", "stop_c", FALSE, 1, 0, FALSE)
             \/ Waves4("stop_c", "stop_d", FALSE, 1, 0, FALSE)
             \/ Waves4("stop_d", "idle", TRUE, 1, 1, FALSE)
  <2>1. c_state = "stop_a" => Waves4("stop_a", "stop_b", FALSE, 0, 0, FALSE)
    <3>1. Moves("stop_a", "stop_b", 0, 0)
      BY DEF Runs
    <3>. QED
      BY <3>1 DEF Moves, Waves4
  <2>2. c_state = "stop_b" => Waves4("stop_b", "stop_c", FALSE, 1, 0, FALSE)
    <3>1. Moves("stop_b", "stop_c", 1, 0)
      BY DEF Runs
    <3>. QED
      BY <3>1 DEF Moves, Waves4
  <2>3. c_state = "stop_c" => Waves4("stop_c", "stop_d", FALSE, 1, 0, FALSE)
    <3>1. Moves("stop_c", "stop_d", 1, 0)
      BY DEF Runs
    <3>. QED
      BY <3>1 DEF Moves, Waves4
  <2>4. c_state = "stop_d" => Waves4("stop_d", "idle", TRUE, 1, 1, FALSE)
    <3>1. Moves("stop_d", "idle", 1, 1)
      BY DEF Runs
    <3>. QED
      BY <3>1 DEF Moves, Waves4
  <2>. QED
    BY <1>2, <2>1, <2>2, <2>3, <2>4 DEF Stops
<1>3. ASSUME c_state \in Reads
      PROVE  \/ Waves4("rd_a", "rd_b", FALSE, 0, 1, FALSE)
             \/ Waves4("rd_b", "rd_c", FALSE, 1, 1, FALSE)
             \/ Waves4("rd_c", "rd_d", FALSE, 1, 1, FALSE)
             \/ Waves4("rd_d", "idle", TRUE, 0, 1, FALSE)
  <2>1. c_state = "rd_a" => Waves4("rd_a", "rd_b", FALSE, 0, 1, FALSE)
    <3>1. Moves("rd_a", "rd_b", 0, 1)
      BY DEF Runs
    <3>. QED
      BY <3>1 DEF Moves, Waves4
  <2>2. c_state = "rd_b" => Waves4("rd_b", "rd_c", FALSE, 1, 1, FALSE)
    <3>1. Moves("rd_b", "rd_c", 1, 1)
      BY DEF Runs
    <3>. QED
      BY <3>1 DEF Moves, Waves4
  <2>3. c_state = "rd_c" => Waves4("rd_c", "rd_d", FALSE, 1, 1, FALSE)
    <3>1. Moves("rd_c", "rd_d", 1, 1)
      BY DEF Runs
    <3>. QED
      BY <3>1 DEF Moves, Waves4
  <2>4. c_state = "rd_d" => Waves4("rd_d", "idle", TRUE, 0, 1, FALSE)
    <3>1. Moves("rd_d", "idle", 0, 1)
      BY DEF Runs
    <3>. QED
      BY <3>1 DEF Moves, Waves4
  <2>. QED
    BY <1>3, <2>1, <2>2, <2>3, <2>4 DEF Reads
<1>4. ASSUME c_state \in Writings
      PROVE  \/ Waves4("wr_a", "wr_b", FALSE, 0, core_txd, FALSE)
             \/ Waves4("wr_b", "wr_c", FALSE, 1, core_txd, TRUE)
             \/ Waves4("wr_c", "wr_d", FALSE, 1, core_txd, TRUE)
             \/ Waves4("wr_d", "idle", TRUE, 0, core_txd, FALSE)
  <2>1. c_state = "wr_a" => Waves4("wr_a", "wr_b", FALSE, 0, core_txd, FALSE)
    <3>1. Moves("wr_a", "wr_b", 0, core_txd)
      BY DEF Runs
    <3>. QED
      BY <3>1 DEF Moves, Waves4
  <2>2. c_state = "wr_b" => Waves4("wr_b", "wr_c", FALSE, 1, core_txd, TRUE)
    <3>1. Moves("wr_b", "wr_c", 1, core_txd)
      BY DEF Runs
    <3>. QED
      BY <3>1 DEF Moves, Waves4
  <2>3. c_state = "wr_c" => Waves4("wr_c", "wr_d", FALSE, 1, core_txd, TRUE)
    <3>1. Moves("wr_c", "wr_d", 1, core_txd)
      BY DEF Runs
    <3>. QED
      BY <3>1 DEF Moves, Waves4
  <2>4. c_state = "wr_d" => Waves4("wr_d", "idle", TRUE, 0, core_txd, FALSE)
    <3>1. Moves("wr_d", "idle", 0, core_txd)
      BY DEF Runs
    <3>. QED
      BY <3>1 DEF Moves, Waves4
  <2>. QED
    BY <1>4, <2>1, <2>2, <2>3, <2>4 DEF Writings
<1>. QED
  BY <1>1, <1>2, <1>3, <1>4

(* The levels of each state.                                               *)
LEMMA PhaseKeeps ==
  ASSUME BusInv, NEW acc, Clock(acc)
  PROVE  PhaseInv'
<1>1. /\ ByteInv /\ StateInv /\ RestInv /\ PhaseInv
  BY DEF BusInv
<1>2. CASE Still
  <2>1. c_state' = "idle" /\ sda_chk' = FALSE
    BY <1>2 DEF Still
  <2>. QED
    BY <2>1 DEF PhaseInv
<1>3. CASE WorkTurn
  <2>1. core_ack = FALSE /\ byte_state # "idle"
    BY <1>3 DEF WorkTurn
  <2>2. CASE clk_en = FALSE
    <3>1. c_state' = c_state /\ UNCHANGED << scl_oen, sda_oen, sda_chk >>
      BY <2>2, Turns DEF Runs, BitHolds
    <3>2. CASE c_state \in {"wr_b", "wr_c", "wr_d"}
      <4>1. core_txd' = core_txd
        BY <1>3, <3>2, BitStays DEF Writings
      <4>. QED
        BY <1>1, <3>1, <4>1 DEF PhaseInv, Gives, Low
    <3>3. CASE c_state \notin {"wr_b", "wr_c", "wr_d"}
      BY <1>1, <3>1, <3>3 DEF PhaseInv, Gives, Low
    <3>. QED
      BY <3>2, <3>3
  <2>3. CASE clk_en = TRUE /\ c_state = "idle"
    <3>1. /\ sda_chk' = FALSE /\ UNCHANGED << scl_oen, sda_oen >>
          /\ c_state' \in {"idle", "start_a", "stop_a", "wr_a", "rd_a"}
          /\ c_state' = "stop_a" => core_cmd = "stop"
          /\ c_state' = "wr_a" => core_cmd = "write"
          /\ c_state' = "rd_a" => core_cmd = "read"
      BY <1>1, <2>3, Turns, ByteCommands DEF Runs, BitLeaves
    <3>2. c_state' \in {"stop_a", "wr_a", "rd_a"} =>
            byte_state \in {"write", "read", "ack", "stop"}
      BY <1>1, <2>1, <3>1 DEF ByteInv, Works
    <3>3. c_state' \in {"stop_a", "wr_a", "rd_a"} => Low
      BY <1>1, <2>1, <2>3, <3>2 DEF RestInv
    <3>4. Low \/ sda_oen = 1
      BY <1>1, <2>3 DEF RestInv
    <3>. QED
      BY <3>1, <3>3, <3>4 DEF PhaseInv, Low
  <2>4. CASE clk_en = TRUE /\ c_state # "idle"
    <3>0. Runs
      BY Turns
    <3>1. CASE c_state \in Starts
      BY <2>4, <3>0, <3>1, Waves DEF Waves4, PhaseInv, Gives, Low
    <3>2. CASE c_state \in Stops
      BY <2>4, <3>0, <3>2, Waves DEF Waves4, PhaseInv, Gives, Low
    <3>3. CASE c_state \in Reads
      BY <2>4, <3>0, <3>3, Waves DEF Waves4, PhaseInv, Gives, Low
    <3>4. CASE c_state \in Writings
      <4>1. core_txd' = core_txd
        BY <1>3, <2>4, <3>4, BitStays
      <4>. QED
        BY <2>4, <3>0, <3>4, <4>1, Waves DEF Waves4, PhaseInv, Gives, Low
    <3>. QED
      BY <1>1, <2>4, <3>1, <3>2, <3>3, <3>4 DEF StateInv
  <2>. QED
    BY <2>2, <2>3, <2>4, Turns
<1>. QED
  BY <1>2, <1>3, Turns DEF IdleTurn, AckTurn

----------------------------------------------------------------------------
(* The chip and the lines.                                                 *)
LEMMA Lines ==
  ASSUME BusInv
  PROVE  /\ Scl \in Bits /\ Sda \in Bits
         /\ scl_oen = 0 => Scl = 0
         /\ scl_oen = 1 /\ sSCL = 1 => Scl = 1
         /\ Scl = 1 => hold = 0 /\ scl_oen = 1
         /\ sda_oen = 0 => Sda = 0
         /\ Sda = 1 => csda = 1 /\ sda_oen = 1
         /\ csda = 1 => Sda = sda_oen
<1>1. RestInv /\ SamplesInv /\ ChipInv
  BY DEF BusInv
<1>2. Scl \in Bits /\ Sda \in Bits
  BY ZeroOne DEF Scl, Sda
<1>3. hold \in Nat /\ (sSCL = 1 => hold = 0) /\ csda \in Bits /\ sda_oen \in Bits /\ scl_oen \in Bits
  BY <1>1 DEF SamplesInv, ChipInv, RestInv
<1>4. (ChipScl = 1 <=> hold = 0) /\ ~(1 = 0)
  BY <1>3, SMT DEF ChipScl
<1>5. /\ scl_oen = 0 => Scl = 0
      /\ scl_oen = 1 /\ sSCL = 1 => Scl = 1
      /\ Scl = 1 => hold = 0 /\ scl_oen = 1
  BY <1>3, <1>4 DEF Scl
<1>6. /\ sda_oen = 0 => Sda = 0
      /\ Sda = 1 => csda = 1 /\ sda_oen = 1
      /\ csda = 1 => Sda = sda_oen
  BY <1>3, <1>4 DEF Sda, Bits
<1>. QED
  BY <1>2, <1>5, <1>6

ChipHolds == UNCHANGED << phase, bits, nbits, csda, accelVars >>

(* What the chip does with each pair of levels, the last clock's and this  *)
(* one's.                                                                  *)
LEMMA ChipMoves ==
  ASSUME BusInv, ChipClock(Scl, Sda)
  PROVE  /\ Scl = 1 /\ sSCL = 1 /\ sSDA = 1 /\ Sda = 0 => Begin
         /\ Scl = 1 /\ sSCL = 1 /\ sSDA = 0 /\ Sda = 1 => End
         /\ Scl = 1 /\ sSCL = 1 /\ Sda = sSDA => ChipHolds
         /\ Scl = 0 /\ sSCL = 0 => ChipHolds
         /\ Scl = 1 /\ sSCL = 0 =>
              TakeBit(Sda) \/ TakeAck(Sda)
                \/ (phase \notin {"address", "receive", "wait"} /\ ChipHolds)
         /\ Scl = 0 /\ sSCL = 1 =>
              \/ TakeAddress \/ TakeByte \/ NextByte \/ SendBit
              \/ /\ \/ phase = "off" \/ phase = "wait"
                    \/ phase \in {"address", "receive"} /\ nbits # 8
                 /\ ChipHolds
<1>1. SamplesInv /\ ChipInv /\ Scl \in Bits /\ Sda \in Bits
  BY Lines DEF BusInv
<1>2. pscl = sSCL /\ psda = sSDA
  BY <1>1 DEF SamplesInv
<1>3. ~(1 = 0)
  BY ZeroOne
<1>4. CASE Scl = 1 /\ sSCL = 1 /\ sSDA = 1 /\ Sda = 0
  BY <1>2, <1>3, <1>4 DEF ChipClock, StartSeen, StopSeen, Steady, Rises, Falls, Indifferent
<1>5. CASE Scl = 1 /\ sSCL = 1 /\ sSDA = 0 /\ Sda = 1
  BY <1>2, <1>3, <1>5 DEF ChipClock, StartSeen, StopSeen, Steady, Rises, Falls, Indifferent
<1>6. CASE (Scl = 1 /\ sSCL = 1 /\ Sda = sSDA) \/ (Scl = 0 /\ sSCL = 0)
  BY <1>2, <1>3, <1>6 DEF ChipClock, StartSeen, StopSeen, Steady, Rises, Falls, Indifferent, ChipHolds
<1>7. CASE Scl = 1 /\ sSCL = 0
  BY <1>2, <1>3, <1>7 DEF ChipClock, StartSeen, StopSeen, Steady, Rises, Falls, Indifferent, ChipHolds
<1>8. CASE Scl = 0 /\ sSCL = 1
  <2>1. \/ TakeAddress \/ TakeByte \/ NextByte \/ SendBit
        \/ Indifferent(Scl, Sda)
    BY <1>2, <1>3, <1>8 DEF ChipClock, StartSeen, StopSeen, Steady, Rises
  <2>2. nbits < 8 => nbits # 8
    BY SMT
  <2>3. Indifferent(Scl, Sda) =>
          /\ \/ phase = "off" \/ phase = "wait"
             \/ phase \in {"address", "receive"} /\ nbits # 8
          /\ ChipHolds
    BY <1>2, <1>8, <2>2 DEF Indifferent, Falls, ChipHolds
  <2>. QED
    BY <1>3, <1>8, <2>1, <2>3
<1>9. sSCL \in Bits /\ sSDA \in Bits
  BY <1>1 DEF SamplesInv
<1>. QED
  BY <1>1, <1>3, <1>4, <1>5, <1>6, <1>7, <1>8, <1>9 DEF Bits

(* What the two sides saw last.                                            *)
LEMMA SamplesKeep ==
  ASSUME BusInv, NEW acc, Clock(acc)
  PROVE  SamplesInv'
<1>1. /\ SamplesInv /\ RestInv /\ ChipInv /\ ChipClock(Scl, Sda) /\ Synchronise(Scl, Sda) /\ Divider
  BY DEF BusInv, Clock, Board, CoreClock
<1>2. sSCL' = pscl' /\ sSDA' = psda'
  BY <1>1 DEF ChipClock, Synchronise
<1>3. sSCL' \in Bits /\ sSDA' \in Bits /\ dSCL' \in Bits /\ dSDA' \in Bits
  BY <1>1, Lines DEF SamplesInv, Synchronise
<1>4. dscl_oen' \in Bits
  BY <1>1 DEF RestInv, Divider
<1>5. hold \in Nat /\ Stretches \subseteq Nat
  BY <1>1, ChipAssumption DEF SamplesInv
<1>6. hold' \in Nat
  <2>1. hold' \in Stretches \/ hold' = (IF hold = 0 THEN 0 ELSE hold - 1)
    BY <1>1 DEF ChipClock
  <2>2. (IF hold = 0 THEN 0 ELSE hold - 1) \in Nat
    BY <1>5, SMT
  <2>. QED
    BY <1>5, <2>1, <2>2
<1>7. sSCL' = 1 => hold' = 0
  <2>1. SUFFICES ASSUME Scl = 1 PROVE hold' = 0
    BY <1>1 DEF Synchronise
  <2>2. hold = 0
    BY <2>1, Lines
  <2>3. ~Falls(Scl)
    BY <2>1, ZeroOne DEF Falls
  <2>. QED
    BY <1>1, <2>2, <2>3 DEF ChipClock
<1>8. sSCL' = 1 /\ sSDA' = 1 => csda' = 1
  <2>1. SUFFICES ASSUME Scl = 1, Sda = 1 PROVE csda' = 1
    BY <1>1 DEF Synchronise
  <2>2. csda = 1
    BY <2>1, Lines
  <2>3. ~Falls(Scl)
    BY <2>1, ZeroOne DEF Falls
  <2>. QED
    BY <1>1, <2>2, <2>3 DEF ChipClock, Begin, End, TakeBit, TakeAck, Indifferent
<1>. QED
  BY <1>2, <1>3, <1>4, <1>6, <1>7, <1>8 DEF SamplesInv

(* A driver call reads a byte, and the chip's registers stay in range.     *)
LEMMA ReadByteType ==
  ASSUME AccelTypeOK
  PROVE  ReadByte \in Byte
<1>0. 255 \in Byte
  BY SMT DEF Byte
<1>1. CASE sel = "read" /\ ptr \in DataRegs
  <2>. DEFINE axis == (ptr - DATAX0) \div 2
  <2>1. axis \in Axes
    BY <1>1, SMT DEF DataRegs, DATAX0, Axes
  <2>2. sample[axis] \in Word
    BY <2>1, SamplesAssumption DEF AccelTypeOK
  <2>3. ReadByte = IF ptr % 2 = 0 THEN sample[axis] % 256 ELSE sample[axis] \div 256
    <3>1. ptr \notin OffsetRegs
      BY <1>1, SMT DEF DataRegs, DATAX0, OffsetRegs, OFSX
    <3>. QED BY <1>1, <3>1 DEF ReadByte
  <2>. QED BY <2>2, <2>3, SplitCombine
<1>2. CASE sel = "read" /\ ptr \in OffsetRegs /\ ptr \notin DataRegs
  <2>1. ptr - OFSX \in Axes
    BY <1>2, SMT DEF OffsetRegs, OFSX, Axes
  <2>. QED BY <1>2, <2>1 DEF ReadByte, AccelTypeOK
<1>3. CASE ~(sel = "read" /\ ptr \in DataRegs \cup OffsetRegs)
  BY <1>0, <1>3 DEF ReadByte
<1>. QED BY <1>1, <1>2, <1>3

(* The next register is one.                                               *)
LEMMA NextRegType ==
  ASSUME NEW r \in Byte
  PROVE  NextReg(r) \in Byte
<1>1. \A q \in Registers : q \in Byte
  BY SMT DEF Registers, OffsetRegs, DataRegs, OFSX, DATAX0, OtherReg, Byte
<1>. QED
  BY <1>1 DEF NextReg, Registers

(* The i-th bit of a byte is one.                                          *)
LEMMA NthType ==
  ASSUME NEW v \in Byte, NEW i \in 1 .. 8
  PROVE  Nth(v, i) \in Bits
<1>1. Weight[i] \in {128, 64, 32, 16, 8, 4, 2, 1}
  BY SMT DEF Weight
<1>2. \A w \in {128, 64, 32, 16, 8, 4, 2, 1} : (v \div w) % 2 \in Bits
  BY SMT DEF Byte, Bits
<1>. QED
  BY <1>1, <1>2 DEF Nth

(* Each event leaves the chip well.                                        *)
LEMMA ChipEvents ==
  ASSUME ChipInv, NEW level \in Bits,
         Begin \/ End \/ TakeBit(level) \/ TakeAck(level) \/ TakeAddress \/ TakeByte
               \/ NextByte \/ SendBit \/ ChipHolds
  PROVE  ChipInv'
<1>1. /\ AccelTypeOK /\ phase \in {"off", "address", "receive", "ack", "send", "wait"}
      /\ bits \in Byte /\ nbits \in 0 .. 8 /\ csda \in Bits
      /\ csda = 0 => phase \in {"ack", "send"}
      /\ phase \in {"address", "receive"} /\ nbits = 0 => bits = 0
      /\ 0 \in Bits /\ 1 \in Bits /\ ~(1 = 0) /\ 0 \in Byte
  BY ZeroOne DEF ChipInv
<1>2. 0 \in 0 .. 8 /\ 1 \in 0 .. 8 /\ 1 \in 1 .. 8
  BY SMT
<1>3. CASE Begin
  BY <1>1, <1>2, <1>3 DEF Begin, accelVars, ChipInv, AccelTypeOK
<1>4. CASE End
  BY <1>1, <1>2, <1>4 DEF End, ChipInv, AccelTypeOK, Selections
<1>5. CASE TakeBit(level)
  <2>1. /\ (2 * bits + level) % 256 \in Byte
        /\ nbits < 8 => nbits + 1 \in 0 .. 8 /\ nbits + 1 # 0
    BY <1>1, SMT DEF Byte, Bits
  <2>2. /\ bits' \in Byte /\ nbits' \in 0 .. 8 /\ nbits' # 0
        /\ UNCHANGED << phase, csda, accelVars >>
    BY <1>5, <2>1 DEF TakeBit
  <2>. QED
    BY <1>1, <2>2 DEF ChipInv, AccelTypeOK, accelVars
<1>6. CASE TakeAck(level)
  <2>1. NextReg(ptr) \in Byte
    BY <1>1, NextRegType DEF AccelTypeOK
  <2>2. phase' \in {"ack", "off"} /\ UNCHANGED << bits, nbits, csda >> /\ csda # 0
    BY <1>1, <1>6 DEF TakeAck
  <2>3. AccelTypeOK'
    BY <1>1, <1>6, <2>1 DEF TakeAck, AccelTypeOK
  <2>. QED
    BY <1>1, <2>2, <2>3 DEF ChipInv
<1>7. CASE TakeAddress
  <2>1. PICK ack \in Answers : LET mine == ack /\ bits \div 2 = I2C_add
                               IN  /\ I2C_start(bits % 2 = 1, mine)
                                   /\ phase' = IF mine THEN "ack" ELSE "off"
                                   /\ csda' = IF mine THEN 0 ELSE 1
    BY <1>7 DEF TakeAddress
  <2>2. UNCHANGED << bits, nbits, sample, ofs, ptr >> /\ sel' \in {"off", "read", "pointer"}
    BY <1>7, <2>1 DEF TakeAddress, I2C_start
  <2>3. phase' \in {"ack", "off"} /\ csda' \in Bits /\ (csda' = 0 => phase' = "ack")
    BY <1>1, <2>1
  <2>. QED
    BY <1>1, <2>2, <2>3 DEF ChipInv, AccelTypeOK, Selections
<1>8. CASE TakeByte
  <2>1. AccelTypeOK'
    <3>1. ptr' \in Byte
      BY <1>1, <1>8, NextRegType DEF TakeByte, AccelTypeOK, I2C_write
    <3>2. ofs' \in [Axes -> Byte]
      BY <1>1, <1>8 DEF TakeByte, AccelTypeOK, I2C_write
    <3>. QED
      BY <1>1, <1>8, <3>1, <3>2 DEF TakeByte, AccelTypeOK, I2C_write, Selections
  <2>. QED
    BY <1>1, <1>8, <2>1 DEF TakeByte, ChipInv
<1>9. CASE NextByte
  <2>1. AccelTypeOK'
    BY <1>1, <1>9 DEF NextByte, AccelTypeOK, accelVars
  <2>2. CASE sel = "read"
    <3>1. ReadByte \in Byte
      BY <1>1, ReadByteType
    <3>2. phase' = "send" /\ bits' = ReadByte /\ nbits' = 1 /\ csda' = Nth(ReadByte, 1)
      BY <1>9, <2>2 DEF NextByte
    <3>3. csda' \in Bits
      BY <1>2, <3>1, <3>2, NthType
    <3>. QED
      BY <1>2, <2>1, <3>1, <3>2, <3>3 DEF ChipInv
  <2>3. CASE sel # "read"
    BY <1>1, <1>2, <1>9, <2>1, <2>3 DEF NextByte, ChipInv
  <2>. QED
    BY <2>2, <2>3
<1>10. CASE SendBit
  <2>1. AccelTypeOK'
    BY <1>1, <1>10 DEF SendBit, AccelTypeOK, accelVars
  <2>2. CASE nbits = 8
    BY <1>1, <1>10, <2>1, <2>2 DEF SendBit, ChipInv
  <2>3. CASE nbits # 8
    <3>1. nbits' \in 1 .. 8 /\ nbits' \in 0 .. 8
      BY <1>1, <1>10, <2>3, SMT DEF SendBit
    <3>2. csda' \in Bits
      BY <1>1, <1>10, <2>3, <3>1, NthType DEF SendBit
    <3>. QED
      BY <1>1, <1>10, <2>1, <2>3, <3>1, <3>2 DEF SendBit, ChipInv
  <2>. QED
    BY <2>2, <2>3
<1>11. CASE ChipHolds
  BY <1>1, <1>11 DEF ChipHolds, ChipInv, AccelTypeOK, accelVars
<1>. QED
  BY <1>3, <1>4, <1>5, <1>6, <1>7, <1>8, <1>9, <1>10, <1>11

(* The chip stays well.                                                    *)
LEMMA ChipKeeps ==
  ASSUME BusInv, NEW acc, Clock(acc)
  PROVE  ChipInv'
<1>1. ChipInv /\ SamplesInv /\ ChipClock(Scl, Sda) /\ Scl \in Bits /\ Sda \in Bits
  BY Lines DEF BusInv, Clock, Board
<1>2. Begin \/ End \/ TakeBit(Sda) \/ TakeAck(Sda) \/ TakeAddress \/ TakeByte
            \/ NextByte \/ SendBit \/ ChipHolds
  BY <1>1 DEF ChipClock, Indifferent, ChipHolds
<1>. QED
  BY <1>1, <1>2, ChipEvents

(* What core and chip see of the lines at the end of a clock.              *)
LEMMA LinesSeen ==
  ASSUME BusInv, NEW acc, Clock(acc)
  PROVE  /\ sSCL' = Scl /\ sSDA' = Sda /\ dSCL' = sSCL /\ dSDA' = sSDA
         /\ dscl_oen' = scl_oen
         /\ Low /\ core_ack = FALSE => sSCL = 0 /\ sSCL' = 0 /\ dSCL' = 0 /\ dscl_oen' = 0
         /\ ~Low /\ (c_state \notin Rising \/ clk_en = TRUE) =>
              sSCL = 1 /\ sSCL' = 1 /\ dSCL' = 1 /\ dscl_oen' = 1
         /\ Low \/ scl_oen = 1
<1>1. /\ ClockInv /\ RestInv /\ Synchronise(Scl, Sda) /\ Divider
  BY DEF BusInv, Clock, Board, CoreClock
<1>2. sSCL' = Scl /\ sSDA' = Sda /\ dSCL' = sSCL /\ dSDA' = sSDA /\ dscl_oen' = scl_oen
  BY <1>1 DEF Synchronise, Divider
<1>3. Low \/ scl_oen = 1
  BY <1>1 DEF RestInv, Low, Bits
<1>4. Low /\ core_ack = FALSE => sSCL = 0 /\ sSCL' = 0 /\ dSCL' = 0 /\ dscl_oen' = 0
  BY <1>1, <1>2, Lines DEF ClockInv, Low
<1>5. ~Low /\ (c_state \notin Rising \/ clk_en = TRUE) => sSCL = 1
  BY <1>1 DEF ClockInv
<1>6. ~Low /\ sSCL = 1 => sSCL' = 1 /\ dSCL' = 1 /\ dscl_oen' = 1
  BY <1>2, <1>3, Lines
<1>. QED
  BY <1>2, <1>3, <1>4, <1>5, <1>6

(* Idle is not a state that waits for the clock.                           *)
LEMMA IdleNotRising == "idle" \notin Rising
BY DEF Rising

(* The clock reaches both sides when it should.                            *)
LEMMA ClockKeeps ==
  ASSUME BusInv, NEW acc, Clock(acc)
  PROVE  ClockInv'
<1>1. /\ ClockInv /\ StateInv /\ PhaseInv /\ ByteInv
  BY DEF BusInv
<1>2. CASE IdleTurn \/ AckTurn
  <2>1. c_state = "idle" /\ c_state' = "idle" /\ core_ack' = FALSE /\ (Low' <=> Low)
    BY <1>2 DEF IdleTurn, AckTurn, Still, Low
  <2>2. Low => sSCL' = 0 /\ dscl_oen' = 0
    BY LinesSeen, Lines DEF Low
  <2>3. Low /\ dSCL' = 1 => Second'
    <3>1. CASE IdleTurn
      BY <3>1, LinesSeen, ZeroOne DEF IdleTurn
    <3>2. CASE AckTurn
      BY <3>2, Turns DEF AckTurn, Ticks
    <3>. QED
      BY <1>2, <3>1, <3>2
  <2>4. ~Low => sSCL' = 1 /\ dSCL' = 1 /\ dscl_oen' = 1
    BY <2>1, LinesSeen, IdleNotRising
  <2>. QED
    BY <2>1, <2>2, <2>3, <2>4, IdleNotRising DEF ClockInv
<1>3. CASE WorkTurn
  <2>1. core_ack = FALSE /\ Ticks /\ Runs
    BY <1>3, Turns DEF WorkTurn
  <2>2. CASE clk_en = FALSE
    <3>1. c_state' = c_state /\ core_ack' = FALSE /\ (Low' <=> Low)
      BY <2>1, <2>2 DEF Runs, BitHolds, Low
    <3>2. CASE Low
      <4>1. c_state \notin Rising
        BY <1>1, <3>2, ZeroOne DEF PhaseInv, Rising, Low, Gives
      <4>. QED
        BY <2>1, <3>1, <3>2, <4>1, LinesSeen, ZeroOne DEF ClockInv
    <3>3. CASE ~Low /\ c_state \notin Rising
      BY <3>1, <3>3, LinesSeen DEF ClockInv
    <3>4. CASE ~Low /\ c_state \in Rising
      <4>1. dscl_oen' = 1 /\ (sSCL = 1 => sSCL' = 1) /\ dSCL' = sSCL
        BY <3>4, LinesSeen, Lines
      <4>2. sSCL \in Bits /\ (First \/ dscl_oen = 1)
        BY <1>1, <3>4 DEF ClockInv, BusInv, SamplesInv
      <4>3. sSCL' = 0 => dSCL' = 0
        BY <4>1, <4>2, ZeroOne DEF Bits
      <4>4. clk_en' = TRUE => sSCL = 1
        BY <2>1, <4>2 DEF Ticks, SlaveWait, Bits
      <4>5. clk_en' \in BOOLEAN
        BY <2>1 DEF Ticks
      <4>. QED
        BY <3>1, <3>4, <4>1, <4>3, <4>4, <4>5 DEF ClockInv
    <3>. QED
      BY <3>2, <3>3, <3>4
  <2>3. CASE clk_en = TRUE /\ c_state = "idle"
    <3>1. core_ack' = FALSE /\ (Low' <=> Low) /\ c_state' \notin Rising
      BY <1>1, <2>1, <2>3, ByteCommands DEF Runs, BitLeaves, Rising, Low
    <3>. QED
      BY <2>1, <2>3, <3>1, LinesSeen, ZeroOne, IdleNotRising DEF ClockInv
  <2>4. CASE clk_en = TRUE /\ c_state # "idle"
    <3>1. /\ Low => sSCL' = 0 /\ dSCL' = 0 /\ dscl_oen' = 0
          /\ ~Low => sSCL' = 1 /\ dSCL' = 1 /\ dscl_oen' = 1
          /\ First' /\ ~(1 = 0)
      BY <2>1, <2>4, LinesSeen, ZeroOne DEF Ticks
    <3>2. clk_en' = FALSE
      BY <2>1, <2>4 DEF Ticks
    <3>3. \/ c_state' \in Rising /\ core_ack' = FALSE /\ ~Low'
          \/ c_state' \notin Rising /\ core_ack' = TRUE /\ ~Low
          \/ c_state' \notin Rising /\ core_ack' = FALSE /\ (Low' <=> Low)
      <4>1. CASE c_state \in Starts
        BY <1>1, <2>1, <2>4, <4>1, Waves, ZeroOne DEF Waves4, PhaseInv, Gives, Low, Rising
      <4>2. CASE c_state \in Stops
        <5>1. \/ c_state = "stop_a" /\ c_state' = "stop_b" /\ core_ack' = FALSE /\ scl_oen = 0 /\ scl_oen' = 0
              \/ c_state = "stop_b" /\ c_state' = "stop_c" /\ core_ack' = FALSE /\ scl_oen' = 1
              \/ c_state = "stop_c" /\ c_state' = "stop_d" /\ core_ack' = FALSE /\ scl_oen = 1 /\ scl_oen' = 1
              \/ c_state = "stop_d" /\ c_state' = "idle" /\ core_ack' = TRUE /\ scl_oen = 1
          BY <1>1, <2>1, <2>4, <4>2, Waves DEF Waves4, PhaseInv, Gives, Low
        <5>. QED
          BY <5>1, ZeroOne DEF Low, Rising
      <4>3. CASE c_state \in Reads
        BY <1>1, <2>1, <2>4, <4>3, Waves, ZeroOne DEF Waves4, PhaseInv, Gives, Low, Rising
      <4>4. CASE c_state \in Writings
        BY <1>1, <2>1, <2>4, <4>4, Waves, ZeroOne DEF Waves4, PhaseInv, Gives, Low, Rising
      <4>. QED
        BY <1>1, <2>4, <4>1, <4>2, <4>3, <4>4 DEF StateInv
    <3>. QED
      BY <3>1, <3>2, <3>3 DEF ClockInv
  <2>. QED
    BY <2>2, <2>3, <2>4, Turns
<1>. QED
  BY <1>2, <1>3, Turns

(* The chip moves SDA only where it sees the clock fall, and lets it go    *)
(* where it sees a start or a stop condition.                              *)
LEMMA ChipSda ==
  ASSUME BusInv, ChipClock(Scl, Sda),
         Scl = 1 /\ sSCL = 1 => Sda = sSDA,
         Scl = 0 => sSCL = 0
  PROVE  csda' = csda
<1>1. Scl \in Bits /\ sSCL \in Bits
  BY Lines DEF BusInv, SamplesInv
<1>2. \/ Scl = 1 /\ sSCL = 1 /\ Sda = sSDA
      \/ Scl = 0 /\ sSCL = 0
      \/ Scl = 1 /\ sSCL = 0
  BY <1>1 DEF Bits
<1>3. ChipHolds \/ TakeBit(Sda) \/ TakeAck(Sda)
  BY <1>2, ChipMoves
<1>. QED
  BY <1>3 DEF ChipHolds, TakeBit, TakeAck

(* Where the core does not touch SDA, SDA stays and is seen.               *)
LEMMA SdaStays ==
  ASSUME BusInv, NEW acc, Clock(acc), WorkTurn,
         c_state \in Setting \cup Rising \cup {"stop_d", "rd_d", "wr_d"}
  PROVE  /\ csda' = csda
         /\ sda_oen' = sda_oen => Sda' = Sda
<1>1. /\ DataInv /\ ClockInv /\ PhaseInv /\ SamplesInv /\ ChipInv /\ RestInv /\ ChipClock(Scl, Sda)
      /\ core_ack = FALSE
  BY DEF BusInv, Clock, Board, WorkTurn
<1>2. Scl = 1 /\ sSCL = 1 => Sda = sSDA
  <2>1. SUFFICES ASSUME Scl = 1, sSCL = 1 PROVE Sda = sSDA
    OBVIOUS
  <2>2. ~Low
    BY <2>1, Lines, ZeroOne DEF Low
  <2>3. CASE c_state = "start_b"
    <3>1. sSDA = 1 /\ sda_oen = 1
      BY <1>1, <2>2, <2>3 DEF DataInv, PhaseInv
    <3>2. csda = 1
      BY <1>1, <2>1, <3>1 DEF SamplesInv
    <3>. QED
      BY <3>1, <3>2, Lines
  <2>4. CASE c_state \in Rising \cup {"stop_d", "rd_d", "wr_d"}
    BY <1>1, <2>4 DEF DataInv
  <2>5. CASE c_state \in {"stop_b", "rd_b", "wr_b"}
    BY <1>1, <2>2, <2>5 DEF PhaseInv, Gives, Low
  <2>. QED
    BY <2>3, <2>4, <2>5 DEF Setting
<1>3. Scl = 0 => sSCL = 0
  <2>1. SUFFICES ASSUME Scl = 0, sSCL = 1 PROVE FALSE
    BY <1>1 DEF SamplesInv, Bits
  <2>2. Low
    BY <2>1, Lines, ZeroOne, LinesSeen
  <2>. QED
    BY <1>1, <2>1, <2>2, ZeroOne DEF ClockInv
<1>4. csda' = csda
  BY <1>1, <1>2, <1>3, ChipSda
<1>5. sda_oen' = sda_oen => Sda' = Sda
  BY <1>4 DEF Sda
<1>. QED
  BY <1>4, <1>5

(* While the chip does not give SDA, it is as the core gives it.           *)
LEMMA Free ==
  ASSUME BusInv, phase \notin {"ack", "send"}
  PROVE  Sda = sda_oen
<1>1. csda = 1
  BY DEF BusInv, ChipInv, Bits
<1>. QED
  BY <1>1, Lines

(* Between transfers the data line is high.                                *)
LEMMA StillData ==
  ASSUME BusInv, NEW acc, Clock(acc), Still, IdleTurn \/ AckTurn
  PROVE  ~Low' => sSDA' = 1 /\ (dSDA' = 1 \/ core_cmd' = "nop")
<1>1. /\ CallInv /\ CommandInv /\ DataInv /\ ClockInv /\ RestInv /\ SamplesInv /\ StateInv /\ ByteInv /\ SyncInv
      /\ ByteStep /\ i2c_al = FALSE
  BY DEF BusInv, Clock, Board, CoreClock, NotLost
<1>2. SUFFICES ASSUME ~Low PROVE sSDA' = 1 /\ (dSDA' = 1 \/ core_cmd' = "nop")
  BY DEF Still, Low
<1>3. c_state = "idle" /\ sda_oen = 1
  BY <1>1, <1>2 DEF Still, RestInv
<1>4. CASE IdleTurn
  <2>1. sSDA = 1 /\ sSCL = 1
    BY <1>1, <1>2, <1>3, <1>4, IdleNotRising DEF IdleTurn, DataInv, ClockInv
  <2>2. csda = 1
    BY <1>1, <2>1 DEF SamplesInv
  <2>3. Sda = 1
    BY <1>3, <2>2, Lines
  <2>. QED
    BY <2>1, <2>3, LinesSeen
<1>5. CASE AckTurn
  <2>1. byte_state = "stop" /\ core_ack
    <3>1. core_ack /\ byte_state # "idle"
      BY <1>5 DEF AckTurn
    <3>2. byte_state # "start" /\ byte_state \notin {"write", "read", "ack"}
      BY <1>1, <1>2, <1>3, <3>1 DEF RestInv
    <3>. QED
      BY <1>1, <3>1, <3>2 DEF ByteInv
  <2>2. core_cmd' = "nop"
    BY <1>1, <2>1, ByteMoves DEF Goes
  <2>3. phase \notin {"ack", "send"}
    BY <1>1, <2>1 DEF SyncInv, EndInv
  <2>4. Sda = 1
    BY <1>3, <2>3, Free
  <2>. QED
    BY <2>2, <2>4, LinesSeen
<1>. QED
  BY <1>4, <1>5

(* DataInv by the state of the bit controller.                             *)
LEMMA WorkHoldsData ==
  ASSUME BusInv, NEW acc, Clock(acc), WorkTurn, clk_en = FALSE
  PROVE  DataInv'
<1>1. /\ CallInv /\ DataInv /\ ClockInv /\ RestInv /\ PhaseInv /\ SamplesInv /\ StateInv /\ ByteInv /\ Runs
  BY Turns DEF BusInv
<1>2. /\ c_state' = c_state /\ core_ack' = FALSE /\ sda_oen' = sda_oen /\ (Low' <=> Low)
      /\ core_ack = FALSE /\ core_cmd' = core_cmd /\ core_cmd # "nop"
  BY <1>1 DEF Runs, BitHolds, Low, WorkTurn, ByteInv, Works
<1>3. Ticks
  BY Turns DEF WorkTurn
<1>4. sSDA' = Sda /\ dSDA' = sSDA
  BY LinesSeen
<1>5. CASE c_state \in Setting
  <2>1. Sda' = Sda
    BY <1>2, <1>5, SdaStays
  <2>2. First \/ sSDA = Sda
    BY <1>1, <1>5 DEF DataInv
  <2>3. First => Second'
    BY <1>3 DEF Ticks
  <2>4. c_state' \notin Rising \cup {"stop_d", "rd_d", "wr_d"} /\ c_state' \notin {"start_d", "start_e", "idle"}
    BY <1>2, <1>5 DEF Setting, Rising
  <2>5. ~Low => sSDA' = 1 /\ dSDA' = 1
    <3>1. SUFFICES ASSUME ~Low PROVE sSDA' = 1 /\ dSDA' = 1
      OBVIOUS
    <3>2. c_state = "start_b"
      BY <1>1, <1>5, <3>1 DEF PhaseInv, Setting, Gives, Low
    <3>3. sSDA = 1 /\ sda_oen = 1
      BY <1>1, <3>1, <3>2 DEF DataInv, PhaseInv
    <3>4. sSCL = 1
      BY <1>1, <3>1, <3>2 DEF ClockInv, Rising
    <3>5. csda = 1
      BY <1>1, <3>3, <3>4 DEF SamplesInv
    <3>6. Sda = 1
      BY <3>3, <3>5, Lines
    <3>. QED
      BY <1>4, <3>3, <3>6
  <2>. QED
    BY <1>2, <1>4, <1>5, <2>1, <2>2, <2>3, <2>4, <2>5 DEF DataInv
<1>6. CASE c_state \in Rising \cup {"stop_d", "rd_d", "wr_d"}
  <2>1. Sda' = Sda /\ sSDA = Sda
    BY <1>1, <1>2, <1>6, SdaStays DEF DataInv
  <2>2. c_state' \notin Setting /\ c_state' \notin {"start_d", "start_e", "idle", "start_a", "start_b"}
    BY <1>2, <1>6 DEF Setting, Rising
  <2>. QED
    BY <1>2, <1>4, <2>1, <2>2 DEF DataInv
<1>7. CASE c_state \in {"start_d", "start_e"}
  <2>1. Sda = 0 /\ ~(1 = 0)
    BY <1>1, <1>7, Lines, ZeroOne DEF PhaseInv, Gives
  <2>2. ~First'
    BY <1>3 DEF Ticks
  <2>3. c_state' \notin Setting /\ c_state' \notin Rising \cup {"stop_d", "rd_d", "wr_d"}
        /\ c_state' \notin {"idle", "start_a", "start_b"}
    BY <1>2, <1>7 DEF Setting, Rising
  <2>. QED
    BY <1>2, <1>4, <2>1, <2>2, <2>3 DEF DataInv
<1>8. CASE c_state \in {"idle", "start_a"}
  <2>1. c_state' \notin Setting /\ c_state' \notin Rising \cup {"stop_d", "rd_d", "wr_d"}
        /\ c_state' \notin {"start_d", "start_e"}
    BY <1>2, <1>8 DEF Setting, Rising
  <2>2. ~Low => sSDA = 1 /\ Sda = 1
    <3>1. SUFFICES ASSUME ~Low PROVE sSDA = 1 /\ Sda = 1
      OBVIOUS
    <3>2. sSDA = 1 /\ sda_oen = 1
      BY <1>1, <1>2, <1>8, <3>1 DEF DataInv, PhaseInv, RestInv
    <3>3. sSCL = 1
      BY <1>1, <1>8, <3>1 DEF ClockInv, Rising
    <3>4. csda = 1
      BY <1>1, <3>2, <3>3 DEF SamplesInv
    <3>. QED
      BY <3>2, <3>4, Lines
  <2>. QED
    BY <1>2, <1>4, <2>1, <2>2 DEF DataInv
<1>9. CASE c_state \in {"stop_a", "rd_a", "wr_a"}
  <2>1. c_state' \notin Setting /\ c_state' \notin Rising \cup {"stop_d", "rd_d", "wr_d"}
        /\ c_state' \notin {"start_d", "start_e", "idle", "start_a", "start_b"}
    BY <1>2, <1>9 DEF Setting, Rising
  <2>. QED
    BY <1>2, <2>1 DEF DataInv
<1>. QED
  BY <1>1, <1>5, <1>6, <1>7, <1>8, <1>9
    DEF StateInv, Starts, Stops, Reads, Writings, Setting, Rising

(* The data line, when the bit controller works.                           *)
LEMMA WorkMovesData ==
  ASSUME BusInv, NEW acc, Clock(acc), WorkTurn, clk_en = TRUE
  PROVE  DataInv'
<1>1. /\ CallInv /\ DataInv /\ ClockInv /\ RestInv /\ PhaseInv /\ SamplesInv /\ StateInv /\ ByteInv
      /\ Runs /\ SyncInv
  BY Turns DEF BusInv
<1>2. core_ack = FALSE /\ core_cmd' = core_cmd /\ core_cmd # "nop" /\ byte_state # "idle"
  BY <1>1 DEF WorkTurn, ByteInv, Works
<1>3. First' /\ ~First /\ ~Second
  BY Turns DEF WorkTurn, Ticks
<1>4. sSDA' = Sda /\ dSDA' = sSDA /\ ~(1 = 0)
  BY LinesSeen, ZeroOne
<1>5. ~Low /\ c_state \in {"idle", "start_a"} => sSDA = 1 /\ Sda = 1
  <2>1. SUFFICES ASSUME ~Low, c_state \in {"idle", "start_a"} PROVE sSDA = 1 /\ Sda = 1
    OBVIOUS
  <2>2. sSDA = 1 /\ sda_oen = 1
    BY <1>1, <1>2, <2>1 DEF DataInv, PhaseInv, RestInv
  <2>3. sSCL = 1
    BY <1>1, <2>1 DEF ClockInv, Rising
  <2>4. csda = 1
    BY <1>1, <2>2, <2>3 DEF SamplesInv
  <2>. QED
    BY <2>2, <2>4, Lines
<1>6. CASE c_state = "idle"
  <2>1. /\ c_state' \in {"start_a", "stop_a", "wr_a", "rd_a"} /\ core_ack' = FALSE
        /\ (Low' <=> Low)
    BY <1>1, <1>2, <1>6, ByteCommands DEF Runs, BitLeaves, Low
  <2>. QED
    BY <1>4, <1>5, <1>6, <2>1 DEF DataInv, Setting, Rising
<1>7. CASE c_state \in {"start_a", "stop_a", "rd_a", "wr_a"}
  <2>1. /\ c_state' \in Setting /\ core_ack' = FALSE
        /\ c_state' = "start_b" => c_state = "start_a" /\ (Low' <=> Low)
        /\ c_state' # "start_b" => Low'
    BY <1>1, <1>7 DEF Runs, Moves, Setting, Low
  <2>2. c_state' \notin Rising \cup {"stop_d", "rd_d", "wr_d"}
        /\ c_state' \notin {"start_d", "start_e", "idle", "start_a"}
    BY <2>1 DEF Setting, Rising
  <2>. QED
    BY <1>3, <1>4, <1>5, <2>1, <2>2 DEF DataInv
<1>8. CASE c_state \in Setting \/ c_state \in {"stop_c", "rd_c", "wr_c"}
  <2>1. /\ c_state' \in Rising \cup {"stop_d", "rd_d", "wr_d"} /\ core_ack' = FALSE
        /\ sda_oen' = sda_oen
    BY <1>1, <1>8 DEF Runs, Moves, Setting, Rising, PhaseInv, Gives
  <2>2. c_state' \notin Setting /\ c_state' \notin {"start_d", "start_e", "idle", "start_a", "start_b"}
    BY <2>1 DEF Setting, Rising
  <2>3. Sda' = Sda
    BY <1>8, <2>1, SdaStays DEF Rising
  <2>4. sSDA = Sda
    BY <1>1, <1>3, <1>8 DEF DataInv, Rising
  <2>. QED
    BY <1>4, <2>1, <2>2, <2>3, <2>4 DEF DataInv
<1>9. CASE c_state = "start_c"
  <2>1. c_state' = "start_d" /\ core_ack' = FALSE
    BY <1>1, <1>9 DEF Runs, Moves
  <2>2. sda_oen = 1 /\ byte_state = "start"
    BY <1>1, <1>2, <1>9 DEF PhaseInv, Gives, ByteInv, StateInv, Starts, Works
  <2>3. phase \notin {"ack", "send"}
    BY <1>1, <2>2 DEF SyncInv, StartInv
  <2>4. Sda = 1 /\ sSDA = Sda
    BY <1>1, <1>9, <2>2, <2>3, Free DEF DataInv, Rising
  <2>. QED
    BY <1>3, <1>4, <2>1, <2>4 DEF DataInv, Setting, Rising
<1>10. CASE c_state = "start_d"
  <2>1. c_state' = "start_e" /\ core_ack' = FALSE /\ Sda = 0
    BY <1>1, <1>10, Lines DEF Runs, Moves, PhaseInv, Gives
  <2>. QED
    BY <1>4, <2>1 DEF DataInv, Setting, Rising
<1>11. CASE c_state \in {"start_e", "stop_d"}
  <2>1. c_state' = "idle" /\ core_ack' = TRUE /\ Sda = 0
    BY <1>1, <1>11, Lines DEF Runs, Moves, PhaseInv, Gives
  <2>. QED
    BY <1>4, <2>1 DEF DataInv, Setting, Rising
<1>12. CASE c_state \in {"rd_d", "wr_d"}
  <2>1. c_state' = "idle" /\ core_ack' = TRUE /\ sSDA = Sda
    BY <1>1, <1>12 DEF Runs, Moves, DataInv
  <2>2. core_cmd \in {"read", "write"}
    BY <1>1, <1>12 DEF StateInv, Reads, Writings
  <2>. QED
    BY <1>2, <1>4, <2>1, <2>2 DEF DataInv, Setting, Rising
<1>. QED
  BY <1>1, <1>6, <1>7, <1>8, <1>9, <1>10, <1>11, <1>12
    DEF StateInv, Starts, Stops, Reads, Writings, Setting

(* The data line is as it will stay before the clock rises.                *)
LEMMA DataKeeps ==
  ASSUME BusInv, NEW acc, Clock(acc)
  PROVE  DataInv'
<1>1. CASE IdleTurn \/ AckTurn
  <2>1. c_state' = "idle" /\ core_ack' = FALSE /\ Still
    BY <1>1 DEF IdleTurn, AckTurn, Still
  <2>2. ~Low' => sSDA' = 1 /\ (dSDA' = 1 \/ core_cmd' = "nop")
    BY <1>1, <2>1, StillData
  <2>. QED
    BY <2>1, <2>2 DEF DataInv, Setting, Rising
<1>2. CASE WorkTurn
  BY <1>2, Turns, WorkHoldsData, WorkMovesData
<1>. QED
  BY <1>1, <1>2, Turns

(* The bus is not lost.                                                    *)
LEMMA LostKeeps ==
  ASSUME BusInv, NEW acc, Clock(acc)
  PROVE  NotLost'
<1>1. /\ DataInv /\ ClockInv /\ RestInv /\ PhaseInv /\ SamplesInv /\ StateInv /\ ByteInv /\ SyncInv
      /\ NotLost /\ BusStatus /\ Arbitration /\ StatusRegister
  BY DEF BusInv, Clock, Board, CoreClock
<1>2. sto_condition' \in BOOLEAN /\ sta_condition' \in BOOLEAN
  BY <1>1 DEF BusStatus
<1>3. ~(sda_chk /\ sSDA = 0 /\ sda_oen = 1)
  <2>1. SUFFICES ASSUME sda_chk, sSDA = 0, sda_oen = 1 PROVE FALSE
    OBVIOUS
  <2>2. c_state \in {"wr_c", "wr_d"}
    BY <1>1, <2>1 DEF PhaseInv
  <2>3. sSDA = Sda /\ core_cmd = "write"
    BY <1>1, <2>2 DEF DataInv, Rising, StateInv, Writings
  <2>4. phase \notin {"ack", "send"}
    BY <1>1, <2>3 DEF ByteInv, Works, SyncInv, SendInv, AnswerInv
  <2>. QED
    BY <2>1, <2>3, <2>4, Free, ZeroOne
<1>4. i2c_al' = FALSE
  BY <1>1, <1>3 DEF Arbitration, NotLost
<1>5. al' = FALSE
  BY <1>1 DEF StatusRegister, NotLost
<1>6. sto_condition' => c_state' = "idle"
  <2>1. SUFFICES ASSUME sSDA = 1, dSDA = 0, sSCL = 1 PROVE c_state' = "idle"
    BY <1>1 DEF BusStatus
  <2>2. CASE IdleTurn \/ AckTurn
    BY <2>2 DEF IdleTurn, AckTurn, Still
  <2>3. CASE WorkTurn
    <3>1. core_ack = FALSE /\ core_cmd # "nop" /\ ~(1 = 0)
      BY <1>1, <2>3, ZeroOne DEF WorkTurn, ByteInv, Works
    <3>2. ~Low
      BY <1>1, <2>1, <3>1 DEF ClockInv
    <3>3. c_state \notin {"idle", "start_a", "start_b", "start_d", "start_e"}
      BY <1>1, <2>1, <3>1, <3>2 DEF DataInv
    <3>4. c_state \notin Rising \cup {"stop_d", "rd_d", "wr_d"}
      BY <1>1, <2>1, <3>1 DEF DataInv
    <3>5. c_state \notin {"stop_a", "rd_a", "wr_a", "stop_b", "rd_b", "wr_b"}
      BY <1>1, <3>2 DEF PhaseInv, Gives, Low
    <3>. QED
      BY <1>1, <3>3, <3>4, <3>5 DEF StateInv, Starts, Stops, Reads, Writings, Rising
  <2>. QED
    BY <2>2, <2>3, Turns
<1>. QED
  BY <1>2, <1>4, <1>5, <1>6 DEF NotLost

----------------------------------------------------------------------------
(* The chip and the byte.                                                  *)

(* A byte begins in the clock after its command.                           *)
LEMMA BeginsAtIssue ==
  ASSUME BusInv, Begins
  PROVE  AtIssue /\ dpc # 0 /\ ~(dpc >= Poll) /\ 0 < dpc /\ dpc <= Issue
<1>1. CallInv /\ DriverInv /\ CommandInv
  BY DEF BusInv
<1>2. AtIssue \/ AtPoll
  BY <1>1, CommandTable DEF CommandInv, Begins, Resting
<1>3. ~AtPoll
  BY <1>1, CommandTable DEF CommandInv, Begins, Resting
<1>4. AtIssue => dpc = Issue /\ Issue \in 1 .. 2
  BY <1>1, CallLength DEF AtIssue
<1>5. dpc # 0 /\ ~(dpc >= Poll) /\ 0 < dpc /\ dpc <= Issue
  BY <1>2, <1>3, <1>4, SMT DEF Poll
<1>. QED
  BY <1>2, <1>3, <1>5

(* Between bytes nothing happens to the chip.                              *)
LEMMA IdleHolds ==
  ASSUME BusInv, NEW acc, Clock(acc), IdleTurn
  PROVE  ChipHolds /\ (Low => sSCL = 0) /\ (~Low => sSCL = 1)
<1>1. /\ DataInv /\ ClockInv /\ RestInv /\ SamplesInv /\ ChipClock(Scl, Sda)
      /\ c_state = "idle" /\ core_ack = FALSE
  BY DEF BusInv, Clock, Board, IdleTurn, Still
<1>2. CASE Low
  <2>1. sSCL = 0 /\ Scl = 0
    BY <1>1, <1>2, Lines DEF ClockInv, Low
  <2>. QED
    BY <1>1, <1>2, <2>1, ChipMoves
<1>3. CASE ~Low
  <2>1. sSDA = 1 /\ sSCL = 1 /\ sda_oen = 1 /\ scl_oen = 1
    BY <1>1, <1>3, IdleNotRising, LinesSeen DEF DataInv, ClockInv, RestInv
  <2>2. csda = 1
    BY <1>1, <2>1 DEF SamplesInv
  <2>3. Sda = 1 /\ Scl = 1
    BY <2>1, <2>2, Lines
  <2>. QED
    BY <1>1, <1>3, <2>1, <2>3, ChipMoves
<1>. QED
  BY <1>2, <1>3

(* After a bit the chip sees the clock fall.                               *)
LEMMA AckFalls ==
  ASSUME BusInv, NEW acc, Clock(acc), AckTurn, Low
  PROVE  \/ TakeAddress \/ TakeByte \/ NextByte \/ SendBit
         \/ /\ \/ phase = "off" \/ phase = "wait"
               \/ phase \in {"address", "receive"} /\ nbits # 8
            /\ ChipHolds
<1>1. ClockInv /\ ChipClock(Scl, Sda) /\ core_ack
  BY DEF BusInv, Clock, Board, AckTurn
<1>2. sSCL = 1 /\ Scl = 0
  BY <1>1, Lines DEF ClockInv, Low
<1>. QED
  BY <1>1, <1>2, ChipMoves

(* Within a bit it sees the clock rise once, or a start or stop condition. *)
LEMMA WorkBit ==
  ASSUME BusInv, NEW acc, Clock(acc), WorkTurn
  PROVE  /\ Low => ChipHolds /\ sSCL = 0 /\ sSCL' = 0
         /\ c_state \in Rising =>
              \/ ChipHolds /\ sSCL' = sSCL
              \/ /\ sSCL = 0 /\ sSCL' = 1
                 /\ \/ TakeBit(Sda) \/ TakeAck(Sda)
                    \/ phase \notin {"address", "receive", "wait"} /\ ChipHolds
         /\ ~Low /\ c_state \notin Rising \cup {"start_d"} =>
              ChipHolds /\ sSCL = 1 /\ sSCL' = 1
         /\ c_state = "start_d" => /\ sSCL = 1 /\ sSCL' = 1
                                   /\ First => Begin
                                   /\ ~First => ChipHolds
<1>1. /\ DataInv /\ ClockInv /\ RestInv /\ PhaseInv /\ SamplesInv /\ StateInv /\ ByteInv
      /\ ChipClock(Scl, Sda) /\ core_ack = FALSE /\ ~(1 = 0)
  BY ZeroOne DEF BusInv, Clock, Board, WorkTurn
<1>2. sSCL' = Scl
  BY LinesSeen
<1>3. Low => ChipHolds /\ sSCL = 0 /\ sSCL' = 0
  <2>1. Low => sSCL = 0 /\ Scl = 0
    BY <1>1, Lines DEF ClockInv, Low
  <2>. QED
    BY <1>1, <1>2, <2>1, ChipMoves
<1>4. ASSUME c_state \in Rising
      PROVE  \/ ChipHolds /\ sSCL' = sSCL
             \/ /\ sSCL = 0 /\ sSCL' = 1
                /\ \/ TakeBit(Sda) \/ TakeAck(Sda)
                   \/ phase \notin {"address", "receive", "wait"} /\ ChipHolds
  <2>1. Sda = sSDA /\ scl_oen = 1
    BY <1>1, <1>4 DEF DataInv, PhaseInv, Rising, Gives
  <2>2. sSCL = 1 => Scl = 1
    BY <2>1, Lines
  <2>3. sSCL \in Bits /\ Scl \in Bits
    BY <1>1, Lines DEF SamplesInv
  <2>4. \/ Scl = 1 /\ sSCL = 1
        \/ Scl = 0 /\ sSCL = 0
        \/ Scl = 1 /\ sSCL = 0
    BY <2>2, <2>3 DEF Bits
  <2>. QED
    BY <1>1, <1>2, <2>1, <2>4, ChipMoves
<1>5. ASSUME ~Low, c_state \notin Rising \cup {"start_d"}
      PROVE  ChipHolds /\ sSCL = 1 /\ sSCL' = 1
  <2>1. sSCL = 1 /\ Scl = 1
    BY <1>2, <1>5, LinesSeen
  <2>2. Sda = sSDA
    <3>1. CASE c_state \in {"stop_d", "rd_d", "wr_d"}
      BY <1>1, <3>1 DEF DataInv
    <3>2. CASE c_state = "start_e"
      BY <1>1, <3>2, Lines DEF DataInv, PhaseInv, Gives
    <3>3. CASE c_state \in {"idle", "start_a", "start_b"}
      <4>1. sSDA = 1 /\ sda_oen = 1
        BY <1>1, <1>5, <3>3 DEF DataInv, RestInv, PhaseInv
      <4>2. csda = 1
        BY <1>1, <2>1, <4>1 DEF SamplesInv
      <4>. QED
        BY <4>1, <4>2, Lines
    <3>4. c_state \notin {"stop_a", "rd_a", "wr_a", "stop_b", "rd_b", "wr_b"}
      BY <1>1, <1>5 DEF PhaseInv, Gives, Low
    <3>. QED
      BY <1>1, <1>5, <3>1, <3>2, <3>3, <3>4
        DEF StateInv, Starts, Stops, Reads, Writings, Rising
  <2>. QED
    BY <1>1, <1>2, <2>1, <2>2, ChipMoves
<1>6. ASSUME c_state = "start_d"
      PROVE  /\ sSCL = 1 /\ sSCL' = 1
             /\ First => Begin
             /\ ~First => ChipHolds
  <2>1. Sda = 0 /\ ~Low /\ c_state \notin Rising
    BY <1>1, <1>6, Lines DEF PhaseInv, Gives, Low, Rising
  <2>2. sSCL = 1 /\ Scl = 1
    BY <1>2, <2>1, LinesSeen
  <2>3. (First => sSDA = 1) /\ (~First => sSDA = 0)
    BY <1>1, <1>6 DEF DataInv, SamplesInv, Bits
  <2>. QED
    BY <1>1, <1>2, <2>1, <2>2, <2>3, ChipMoves
<1>. QED
  BY <1>3, <1>4, <1>5, <1>6

(* The shift register, and the bits that are left.                         *)
LEMMA Shifting ==
  ASSUME BusInv, NEW acc, Clock(acc)
  PROVE  /\ dcnt' = Left /\ sr' = Shifted
         /\ ld' = FALSE /\ shift' = FALSE => Left' = Left /\ Shifted' = Shifted
         /\ ld' = TRUE => Left' = 7 /\ Shifted' = txr'
         /\ core_ack => Left = dcnt /\ Shifted = sr
         /\ c_state # "idle" => Left = dcnt /\ Shifted = sr
         /\ core_ack /\ ld' = FALSE /\ shift' = TRUE =>
              /\ Left' = (dcnt + 7) % 8
              /\ Shifted' = (2 * sr + core_rxd') % 256
         /\ core_rxd' \in Bits /\ Left \in 0 .. 7
<1>1. /\ ShiftRegister /\ ShiftInv /\ RegisterTypes' /\ RegisterTypes
  BY RegistersKeep DEF BusInv, Clock, Board, CoreClock
<1>2. dcnt' = Left /\ sr' = Shifted
  BY <1>1 DEF ShiftRegister, Left, Shifted
<1>3. core_ack \/ c_state # "idle" => Left = dcnt /\ Shifted = sr
  BY <1>1 DEF ShiftInv, Left, Shifted
<1>4. /\ ld' = FALSE /\ shift' = FALSE => Left' = Left /\ Shifted' = Shifted
      /\ ld' = TRUE => Left' = 7 /\ Shifted' = txr'
  BY <1>2 DEF Left, Shifted
<1>5. core_ack /\ ld' = FALSE /\ shift' = TRUE =>
        /\ Left' = (dcnt + 7) % 8
        /\ Shifted' = (2 * sr + core_rxd') % 256
  BY <1>2, <1>3 DEF Left, Shifted
<1>6. core_rxd' \in Bits /\ Left \in 0 .. 7
  BY <1>1, <1>2 DEF RegisterTypes
<1>. QED
  BY <1>2, <1>3, <1>4, <1>5, <1>6

(* The byte to transmit stays while a call waits for its command.          *)
LEMMA TransmitStays ==
  ASSUME BusInv, NEW acc, Clock(acc), byte_state # "idle" \/ Begins
  PROVE  txr' = txr /\ call' = call
<1>1. /\ CallInv /\ DriverInv /\ CommandInv /\ Drives(acc) /\ Acknowledge(acc) /\ WriteRegisters(acc)
  BY DEF BusInv, Clock, Board, CoreClock
<1>2. AtIssue \/ AtPoll
  BY <1>1, BeginsAtIssue DEF CommandInv
<1>3. ~Loads(acc)
  BY <1>1, <1>2, PollSteps DEF Commands, Loads, Sends
<1>. QED
  BY <1>1, <1>2, <1>3, PollSteps, RegistersWritten

(* The weights of the bits.                                                *)
LEMMA Weights ==
  /\ Weight[1] = 128 /\ Weight[2] = 64 /\ Weight[3] = 32 /\ Weight[4] = 16
  /\ Weight[5] = 8 /\ Weight[6] = 4 /\ Weight[7] = 2 /\ Weight[8] = 1
BY DEF Weight

(* Of a byte just loaded all is to go.                                     *)
LEMMA TopLoaded ==
  ASSUME txr \in Byte
  PROVE  /\ txr \div Weight[7 + 1] = txr % (2 * Weight[8 - 7])
         /\ Top(8) = txr /\ Top(0) = 0
<1>1. txr \div 1 = txr % 256 /\ txr \div 1 = txr
  BY SMT DEF Byte
<1>2. 7 + 1 = 8 /\ 8 - 7 = 1 /\ 2 * 128 = 256 /\ 8 # 0
  BY SMT
<1>. QED
  BY <1>1, <1>2, Weights DEF Top

(* The first bit of s and the first bits of t, taken apart.                *)
LEMMA FirstOf ==
  ASSUME NEW s \in 0 .. 255
  PROVE  /\ s \div 128 = (s \div 64) \div 2
         /\ s \div 128 = (s \div 32) \div 4
         /\ s \div 128 = (s \div 16) \div 8
         /\ s \div 128 = (s \div 8) \div 16
         /\ s \div 128 = (s \div 4) \div 32
         /\ s \div 128 = (s \div 2) \div 64
BY SMT

(* The register after some bits have gone.                                 *)
LEMMA HeadOf ==
  ASSUME NEW t \in 0 .. 255
  PROVE  /\ (2 * (t \div 4) + (t % 4) \div 2) % 256 = t \div 2
         /\ (2 * (t \div 8) + (t % 8) \div 4) % 256 = t \div 4
         /\ (2 * (t \div 16) + (t % 16) \div 8) % 256 = t \div 8
         /\ (2 * (t \div 32) + (t % 32) \div 16) % 256 = t \div 16
         /\ (2 * (t \div 64) + (t % 64) \div 32) % 256 = t \div 32
         /\ (2 * (t \div 128) + (t % 128) \div 64) % 256 = t \div 64
<1>1. (2 * (t \div 4) + (t % 4) \div 2) % 256 = t \div 2
  <2>1. 2 * (t \div 4) + (t % 4) \div 2 = t \div 2
    BY SMT
  <2>2. t \div 2 \in 0 .. 255
    BY SMT
  <2>. QED BY <2>1, <2>2, SMT
<1>2. (2 * (t \div 8) + (t % 8) \div 4) % 256 = t \div 4
  <2>1. 2 * (t \div 8) + (t % 8) \div 4 = t \div 4
    BY SMT
  <2>2. t \div 4 \in 0 .. 255
    BY SMT
  <2>. QED BY <2>1, <2>2, SMT
<1>3. (2 * (t \div 16) + (t % 16) \div 8) % 256 = t \div 8
  <2>1. 2 * (t \div 16) + (t % 16) \div 8 = t \div 8
    BY SMT
  <2>2. t \div 8 \in 0 .. 255
    BY SMT
  <2>. QED BY <2>1, <2>2, SMT
<1>4. (2 * (t \div 32) + (t % 32) \div 16) % 256 = t \div 16
  <2>1. 2 * (t \div 32) + (t % 32) \div 16 = t \div 16
    BY SMT
  <2>2. t \div 16 \in 0 .. 255
    BY SMT
  <2>. QED BY <2>1, <2>2, SMT
<1>5. (2 * (t \div 64) + (t % 64) \div 32) % 256 = t \div 32
  <2>1. 2 * (t \div 64) + (t % 64) \div 32 = t \div 32
    BY SMT
  <2>2. t \div 32 \in 0 .. 255
    BY SMT
  <2>. QED BY <2>1, <2>2, SMT
<1>6. (2 * (t \div 128) + (t % 128) \div 64) % 256 = t \div 64
  <2>1. 2 * (t \div 128) + (t % 128) \div 64 = t \div 64
    BY SMT
  <2>2. t \div 64 \in 0 .. 255
    BY SMT
  <2>. QED BY <2>1, <2>2, SMT
<1>. QED BY <1>1, <1>2, <1>3, <1>4, <1>5, <1>6

(* One bit more at the chip.                                               *)
LEMMA TopNext ==
  ASSUME txr \in Byte, NEW s \in Byte, NEW q \in 0 .. 7, Matches(q, s)
  PROVE  (2 * Top(7 - q) + s \div 128) % 256 = Top(8 - q)
<1>1. txr \in 0 .. 255 /\ s \in 0 .. 255
  BY DEF Byte
<1>0. /\ (2 * (txr \div 4) + (txr % 4) \div 2) % 256 = txr \div 2
      /\ (2 * (txr \div 8) + (txr % 8) \div 4) % 256 = txr \div 4
      /\ (2 * (txr \div 16) + (txr % 16) \div 8) % 256 = txr \div 8
      /\ (2 * (txr \div 32) + (txr % 32) \div 16) % 256 = txr \div 16
      /\ (2 * (txr \div 64) + (txr % 64) \div 32) % 256 = txr \div 32
      /\ (2 * (txr \div 128) + (txr % 128) \div 64) % 256 = txr \div 64
  BY <1>1, HeadOf, Zenon
<1>2. CASE q = 0
  <2>1. s \div 128 = txr % 2
    BY <1>1, <1>2, Weights, SMT DEF Matches
  <2>2. Top(7 - q) = txr \div 2 /\ Top(8 - q) = txr
    BY <1>1, <1>2, Weights, SMT DEF Top
  <2>. QED BY <1>1, <2>1, <2>2, SMT
<1>3. CASE q = 1
  <2>1. s \div 64 = txr % 4
    BY <1>1, <1>3, Weights, SMT DEF Matches
  <2>2. Top(7 - q) = txr \div 4 /\ Top(8 - q) = txr \div 2
    BY <1>1, <1>3, Weights, SMT DEF Top
  <2>3. s \div 128 = (txr % 4) \div 2
    BY <1>1, <2>1, FirstOf
  <2>. QED BY <1>0, <2>2, <2>3, Zenon
<1>4. CASE q = 2
  <2>1. s \div 32 = txr % 8
    BY <1>1, <1>4, Weights, SMT DEF Matches
  <2>2. Top(7 - q) = txr \div 8 /\ Top(8 - q) = txr \div 4
    BY <1>1, <1>4, Weights, SMT DEF Top
  <2>3. s \div 128 = (txr % 8) \div 4
    BY <1>1, <2>1, FirstOf
  <2>. QED BY <1>0, <2>2, <2>3, Zenon
<1>5. CASE q = 3
  <2>1. s \div 16 = txr % 16
    BY <1>1, <1>5, Weights, SMT DEF Matches
  <2>2. Top(7 - q) = txr \div 16 /\ Top(8 - q) = txr \div 8
    BY <1>1, <1>5, Weights, SMT DEF Top
  <2>3. s \div 128 = (txr % 16) \div 8
    BY <1>1, <2>1, FirstOf
  <2>. QED BY <1>0, <2>2, <2>3, Zenon
<1>6. CASE q = 4
  <2>1. s \div 8 = txr % 32
    BY <1>1, <1>6, Weights, SMT DEF Matches
  <2>2. Top(7 - q) = txr \div 32 /\ Top(8 - q) = txr \div 16
    BY <1>1, <1>6, Weights, SMT DEF Top
  <2>3. s \div 128 = (txr % 32) \div 16
    BY <1>1, <2>1, FirstOf
  <2>. QED BY <1>0, <2>2, <2>3, Zenon
<1>7. CASE q = 5
  <2>1. s \div 4 = txr % 64
    BY <1>1, <1>7, Weights, SMT DEF Matches
  <2>2. Top(7 - q) = txr \div 64 /\ Top(8 - q) = txr \div 32
    BY <1>1, <1>7, Weights, SMT DEF Top
  <2>3. s \div 128 = (txr % 64) \div 32
    BY <1>1, <2>1, FirstOf
  <2>. QED BY <1>0, <2>2, <2>3, Zenon
<1>8. CASE q = 6
  <2>1. s \div 2 = txr % 128
    BY <1>1, <1>8, Weights, SMT DEF Matches
  <2>2. Top(7 - q) = txr \div 128 /\ Top(8 - q) = txr \div 64
    BY <1>1, <1>8, Weights, SMT DEF Top
  <2>3. s \div 128 = (txr % 128) \div 64
    BY <1>1, <2>1, FirstOf
  <2>. QED BY <1>0, <2>2, <2>3, Zenon
<1>9. CASE q = 7
  <2>1. s = txr % 256
    BY <1>1, <1>9, Weights, SMT DEF Matches
  <2>2. Top(7 - q) = 0 /\ Top(8 - q) = txr \div 128
    BY <1>1, <1>9, Weights, SMT DEF Top
  <2>. QED BY <1>1, <2>1, <2>2, SMT
<1>. QED BY <1>2, <1>3, <1>4, <1>5, <1>6, <1>7, <1>8, <1>9, SMT

(* The register s, when r is shifted into it, holds one bit less of t.     *)
TailNext(s, t, r) ==
  /\ s \div 64 = t % 4 => ((2 * s + r) % 256) \div 128 = t % 2
  /\ s \div 32 = t % 8 => ((2 * s + r) % 256) \div 64 = t % 4
  /\ s \div 16 = t % 16 => ((2 * s + r) % 256) \div 32 = t % 8
  /\ s \div 8 = t % 32 => ((2 * s + r) % 256) \div 16 = t % 16
  /\ s \div 4 = t % 64 => ((2 * s + r) % 256) \div 8 = t % 32
  /\ s \div 2 = t % 128 => ((2 * s + r) % 256) \div 4 = t % 64

(* One bit less in the register.                                           *)
LEMMA TailOf ==
  ASSUME NEW s \in 0 .. 255, NEW t \in 0 .. 255, NEW r \in 0 .. 1
  PROVE  TailNext(s, t, r)
<1>1. ASSUME s \div 64 = t % 4 PROVE ((2 * s + r) % 256) \div 128 = t % 2
  <2>1. (t % 4) % 2 = t % 2
    BY SMT
  <2>2. ((2 * s + r) % 256) \div 128 = (s \div 64) % 2
    BY SMT
  <2>. QED BY <1>1, <2>1, <2>2
<1>2. ASSUME s \div 32 = t % 8 PROVE ((2 * s + r) % 256) \div 64 = t % 4
  <2>1. (t % 8) % 4 = t % 4
    BY SMT
  <2>2. ((2 * s + r) % 256) \div 64 = (s \div 32) % 4
    BY SMT
  <2>. QED BY <1>2, <2>1, <2>2
<1>3. ASSUME s \div 16 = t % 16 PROVE ((2 * s + r) % 256) \div 32 = t % 8
  <2>1. (t % 16) % 8 = t % 8
    BY SMT
  <2>2. ((2 * s + r) % 256) \div 32 = (s \div 16) % 8
    BY SMT
  <2>. QED BY <1>3, <2>1, <2>2
<1>4. ASSUME s \div 8 = t % 32 PROVE ((2 * s + r) % 256) \div 16 = t % 16
  <2>1. (t % 32) % 16 = t % 16
    BY SMT
  <2>2. ((2 * s + r) % 256) \div 16 = (s \div 8) % 16
    BY SMT
  <2>. QED BY <1>4, <2>1, <2>2
<1>5. ASSUME s \div 4 = t % 64 PROVE ((2 * s + r) % 256) \div 8 = t % 32
  <2>1. (t % 64) % 32 = t % 32
    BY SMT
  <2>2. ((2 * s + r) % 256) \div 8 = (s \div 4) % 32
    BY SMT
  <2>. QED BY <1>5, <2>1, <2>2
<1>6. ASSUME s \div 2 = t % 128 PROVE ((2 * s + r) % 256) \div 4 = t % 64
  <2>1. (t % 128) % 64 = t % 64
    BY SMT
  <2>2. ((2 * s + r) % 256) \div 4 = (s \div 2) % 64
    BY SMT
  <2>. QED BY <1>6, <2>1, <2>2
<1>. QED BY <1>1, <1>2, <1>3, <1>4, <1>5, <1>6 DEF TailNext

(* The register after a shift.                                             *)
LEMMA MatchesNext ==
  ASSUME txr \in Byte, NEW s \in Byte, NEW q \in 1 .. 7, NEW r \in Bits, Matches(q, s)
  PROVE  Matches(q - 1, (2 * s + r) % 256)
<1>1. txr \in 0 .. 255 /\ s \in 0 .. 255 /\ r \in 0 .. 1
  BY SMT DEF Byte, Bits
<1>0. TailNext(s, txr, r)
  BY <1>1, TailOf, Zenon
<1>2. CASE q = 1
  <2>1. s \div 64 = txr % 4
    BY <1>2, Weights, SMT DEF Matches
  <2>2. ((2 * s + r) % 256) \div 128 = txr % 2
    BY <1>0, <2>1, Zenon DEF TailNext
  <2>. QED BY <1>2, <2>2, Weights, SMT DEF Matches
<1>3. CASE q = 2
  <2>1. s \div 32 = txr % 8
    BY <1>3, Weights, SMT DEF Matches
  <2>2. ((2 * s + r) % 256) \div 64 = txr % 4
    BY <1>0, <2>1, Zenon DEF TailNext
  <2>. QED BY <1>3, <2>2, Weights, SMT DEF Matches
<1>4. CASE q = 3
  <2>1. s \div 16 = txr % 16
    BY <1>4, Weights, SMT DEF Matches
  <2>2. ((2 * s + r) % 256) \div 32 = txr % 8
    BY <1>0, <2>1, Zenon DEF TailNext
  <2>. QED BY <1>4, <2>2, Weights, SMT DEF Matches
<1>5. CASE q = 4
  <2>1. s \div 8 = txr % 32
    BY <1>5, Weights, SMT DEF Matches
  <2>2. ((2 * s + r) % 256) \div 16 = txr % 16
    BY <1>0, <2>1, Zenon DEF TailNext
  <2>. QED BY <1>5, <2>2, Weights, SMT DEF Matches
<1>6. CASE q = 5
  <2>1. s \div 4 = txr % 64
    BY <1>6, Weights, SMT DEF Matches
  <2>2. ((2 * s + r) % 256) \div 8 = txr % 32
    BY <1>0, <2>1, Zenon DEF TailNext
  <2>. QED BY <1>6, <2>2, Weights, SMT DEF Matches
<1>7. CASE q = 6
  <2>1. s \div 2 = txr % 128
    BY <1>7, Weights, SMT DEF Matches
  <2>2. ((2 * s + r) % 256) \div 4 = txr % 64
    BY <1>0, <2>1, Zenon DEF TailNext
  <2>. QED BY <1>7, <2>2, Weights, SMT DEF Matches
<1>8. CASE q = 7
  <2>1. s \div 1 = txr % 256
    BY <1>8, Weights, SMT DEF Matches
  <2>3. s = txr
    BY <1>1, <2>1, SMT
  <2>2. ((2 * s + r) % 256) \div 2 = txr % 128
    BY <1>1, <2>3, SMT
  <2>. QED BY <1>8, <2>2, Weights, SMT DEF Matches
<1>. QED BY <1>2, <1>3, <1>4, <1>5, <1>6, <1>7, <1>8, SMT

(* How the byte controller comes to each of its states.                    *)
LEMMA Comes ==
  ASSUME BusInv, NEW acc, Clock(acc)
  PROVE  /\ byte_state' = "idle" =>
              \/ IdleTurn /\ ~Begins
              \/ AckTurn /\ byte_state = "ack" /\ ~call.last
              \/ AckTurn /\ byte_state = "stop"
         /\ byte_state' = "start" =>
              \/ IdleTurn /\ Begins /\ call.op = "start" /\ ld' = TRUE
              \/ WorkTurn /\ byte_state = "start"
         /\ byte_state' = "write" =>
              \/ IdleTurn /\ Begins /\ call.op = "write" /\ ld' = TRUE
              \/ AckTurn /\ byte_state = "start" /\ ld' = TRUE
              \/ AckTurn /\ byte_state = "write" /\ dcnt # 0 /\ ld' = FALSE /\ shift' = TRUE
              \/ WorkTurn /\ byte_state = "write"
         /\ byte_state' = "read" =>
              \/ IdleTurn /\ Begins /\ call.op = "read" /\ ld' = TRUE
              \/ AckTurn /\ byte_state = "read" /\ dcnt # 0 /\ ld' = FALSE /\ shift' = TRUE
              \/ WorkTurn /\ byte_state = "read"
         /\ byte_state' = "ack" =>
              \/ AckTurn /\ byte_state = "write" /\ dcnt = 0 /\ core_cmd' = "read"
              \/ AckTurn /\ byte_state = "read" /\ dcnt = 0 /\ core_cmd' = "write"
              \/ WorkTurn /\ byte_state = "ack" /\ core_cmd' = core_cmd
         /\ byte_state' = "stop" =>
              \/ AckTurn /\ byte_state = "ack" /\ call.last
              \/ WorkTurn /\ byte_state = "stop"
         /\ WorkTurn => ld' = FALSE /\ shift' = FALSE
<1>1. CallInv /\ CommandInv /\ ByteInv /\ ByteStep /\ i2c_al = FALSE
  BY DEF BusInv, Clock, Board, CoreClock, NotLost
<1>2. CASE IdleTurn /\ ~Begins
  <2>1. byte_state' = "idle"
    BY <1>1, <1>2, ByteMoves DEF IdleTurn, ByteHolds
  <2>2. ~WorkTurn
    BY <1>2 DEF IdleTurn, WorkTurn
  <2>. QED
    BY <1>2, <2>1, <2>2
<1>3. CASE IdleTurn /\ Begins
  <2>1. call.op \in {"start", "write", "read"}
    BY <1>1, <1>3 DEF Begins, Commanded, CallInv
  <2>2. ~WorkTurn
    BY <1>3 DEF IdleTurn, WorkTurn
  <2>. QED
    BY <1>1, <1>3, <2>1, <2>2, ByteMoves DEF Goes
<1>4. CASE AckTurn
  <2>1. /\ byte_state \in {"start", "write", "read", "ack", "stop"} /\ core_ack /\ call.last \in BOOLEAN
        /\ ~WorkTurn
    BY <1>1, <1>4 DEF ByteInv, AckTurn, CallInv, WorkTurn
  <2>2. CASE byte_state = "start"
    BY <1>1, <1>4, <2>1, <2>2, ByteMoves DEF Goes
  <2>3. CASE byte_state = "write"
    BY <1>1, <1>4, <2>1, <2>3, ByteMoves DEF Goes
  <2>4. CASE byte_state = "read"
    BY <1>1, <1>4, <2>1, <2>4, ByteMoves DEF Goes
  <2>5. CASE byte_state = "ack"
    BY <1>1, <1>4, <2>1, <2>5, ByteMoves DEF Goes
  <2>6. CASE byte_state = "stop"
    BY <1>1, <1>4, <2>1, <2>6, ByteMoves DEF Goes
  <2>. QED
    BY <2>1, <2>2, <2>3, <2>4, <2>5, <2>6
<1>5. CASE WorkTurn
  <2>1. /\ byte_state' = byte_state /\ byte_state # "idle" /\ core_cmd' = core_cmd
        /\ ld' = FALSE /\ shift' = FALSE
    BY <1>5 DEF WorkTurn, ByteHolds
  <2>. QED
    BY <1>5, <2>1
<1>. QED
  BY <1>2, <1>3, <1>4, <1>5, Turns

(* A call that begins a byte, or is at one, goes on.                       *)
LEMMA CallStays ==
  ASSUME BusInv, NEW acc, Clock(acc), AckTurn \/ WorkTurn \/ Begins
  PROVE  call' = call /\ txr' = txr
<1>1. byte_state # "idle" \/ Begins
  BY DEF AckTurn, WorkTurn
<1>. QED
  BY <1>1, TransmitStays

(* Nor does who is asked for a byte change before the command is given.    *)
LEMMA AskedStays ==
  ASSUME CallInv, DriverInv, NEW acc, Drives(acc), Acknowledge(acc), ~AtIssue, ~Freed
  PROVE  Asked' <=> Asked
<1>1. dpc \in Nat /\ wb_ack \in BOOLEAN
  BY SMT DEF DriverInv, Issue
<1>2. call.op = "init" \/ (Issue \in 1 .. 2 /\ dpc <= Issue + 2)
  BY CallLength, SMT DEF DriverInv
<1>3. CASE Invokes
  <2>1. dpc = 0 /\ dpc' = 1 /\ CallInv'
    BY <1>3 DEF Invokes
  <2>2. ~(dpc' = 0) /\ (call'.op # "init" => ~(dpc' >= Poll'))
    BY <2>1, SMT DEF Poll, Issue
  <2>3. Asked' <=> call'.op = "read"
    BY <2>1, <2>2 DEF Asked, CallInv
  <2>4. call.op # "init" /\ ~call.last
    BY <2>1 DEF Freed
  <2>5. Asked <=> call.op = "start" /\ call.arg = 1
    BY <2>1, <2>4 DEF Asked, CallInv
  <2>6. (call.op = "start" /\ call.arg = 1) <=> todo = "fetch"
    BY <2>4, ZeroOne DEF CallInv, NextCall, Bits
  <2>7. todo \in {"point", "go on", "fetch"}
    BY <2>4 DEF CallInv, NextCall, Bits
  <2>8. call'.op = "read" <=> todo = "fetch"
    BY <1>3, <2>7 DEF Invokes
  <2>. QED
    BY <2>3, <2>5, <2>6, <2>8
<1>4. CASE Stays
  BY <1>4 DEF Stays, Asked, Poll, Issue
<1>5. CASE Advances
  <2>1. call' = call /\ dpc' = (IF dpc = Length(call) THEN 0 ELSE dpc + 1) /\ dpc > 0 /\ wb_ack
    BY <1>5 DEF Advances
  <2>2. CASE call.op # "start"
    BY <2>1, <2>2 DEF Asked
  <2>3. CASE call.op = "start"
    <3>1. dpc # Issue
      BY <2>1, <2>3 DEF AtIssue
    <3>2. Issue' = Issue /\ Poll' = Poll
      BY <2>1 DEF Issue, Poll
    <3>3. Length(call) = Issue + 2
      BY <2>3, CallLength
    <3>4. dpc' = 0 \/ dpc' >= Poll <=> dpc = 0 \/ dpc >= Poll
      BY <1>1, <1>2, <2>1, <2>3, <3>1, <3>3, SMT DEF Poll
    <3>5. Asked' <=> call.arg = 1 /\ (dpc' = 0 \/ dpc' >= Poll)
      BY <2>1, <2>3, <3>2 DEF Asked
    <3>. QED
      BY <2>3, <3>4, <3>5 DEF Asked
  <2>. QED
    BY <2>2, <2>3
<1>. QED
  BY <1>3, <1>4, <1>5, DriverMoves DEF Waits

(* The byte controller is at work at the poll only.                        *)
LEMMA WorksAtPoll ==
  ASSUME BusInv, byte_state # "idle"
  PROVE  /\ AtPoll /\ Commanded /\ dpc # 0 /\ dpc >= Poll /\ ~(0 < dpc /\ dpc <= Issue)
         /\ (Freed <=> call.last)
         /\ (Asked <=> call.op = "read" \/ (call.op = "start" /\ call.arg = 1))
         /\ call.op \in {"start", "write", "read"}
<1>1. CallInv /\ AtPoll /\ Commanded
  BY DEF BusInv, CommandInv
<1>2. dpc = Issue + 1 /\ Issue \in 1 .. 2 /\ call.op # "init"
  BY <1>1, CallLength DEF AtPoll, Poll
<1>3. dpc # 0 /\ dpc >= Poll /\ ~(0 < dpc /\ dpc <= Issue)
  BY <1>2, SMT DEF Poll
<1>4. call.op \in {"start", "write", "read"}
  BY <1>1, <1>2 DEF CallInv
<1>. QED
  BY <1>1, <1>2, <1>3, <1>4 DEF Freed, Asked

(* Between bytes the chip waits for one, gives one, or is not there.       *)
LEMMA BetweenKeeps ==
  ASSUME BusInv, NEW acc, Clock(acc)
  PROVE  BetweenInv'
<1>1. /\ CallInv /\ DriverInv /\ CommandInv /\ Drives(acc) /\ Acknowledge(acc) /\ SyncInv
      /\ ByteInv /\ RestInv /\ ClockInv /\ DataInv /\ PhaseInv /\ ChipInv
      /\ ChipClock(Scl, Sda)
  BY DEF BusInv, Clock, Board, CoreClock
<1>2. ~AtIssue => /\ Freed' <=> Freed
                  /\ ~Freed => (Asked' <=> Asked)
  BY <1>1, FreedStays, AskedStays
<1>3. CASE IdleTurn /\ ~Begins
  <2>1. ~AtIssue /\ byte_state = "idle"
    BY <1>1, <1>3 DEF CommandInv, Begins, IdleTurn
  <2>2. UNCHANGED << phase, nbits, sel >>
    BY <1>3, IdleHolds DEF ChipHolds, accelVars
  <2>. QED
    BY <1>1, <1>2, <2>1, <2>2 DEF SyncInv, BetweenInv, Fresh, Listens
<1>4. CASE AckTurn /\ byte_state \in {"ack", "stop"}
  <2>1. ~AtIssue /\ byte_state # "idle" /\ core_ack
    BY <1>1, <1>4, WorksAtPoll, PollSteps DEF AckTurn
  <2>2. /\ Freed <=> call.last
        /\ Asked <=> call.op = "read" \/ (call.op = "start" /\ call.arg = 1)
    BY <2>1, WorksAtPoll
  <2>3. CASE byte_state = "stop"
    <3>1. core_cmd = "stop" /\ ~Low /\ sda_oen = 1 /\ c_state = "idle"
      <4>1. core_cmd = "stop"
        BY <1>1, <2>3 DEF ByteInv, Works
      <4>2. scl_oen = 1 /\ sda_oen = 1
        BY <1>1, <2>1, <4>1 DEF RestInv, Gives
      <4>. QED
        BY <1>4, <4>1, <4>2, ZeroOne DEF AckTurn, Still, Low
    <3>2. sSCL = 1 /\ sSDA = 0
      BY <1>1, <2>1, <3>1, IdleNotRising DEF ClockInv, DataInv
    <3>3. phase \notin {"ack", "send"}
      BY <1>1, <2>3 DEF SyncInv, EndInv
    <3>4. Sda = 1 /\ scl_oen = 1
      BY <3>1, <3>3, Free, LinesSeen DEF Low
    <3>5. Scl = 1
      BY <3>2, <3>4, Lines
    <3>6. End
      BY <1>1, <3>2, <3>4, <3>5, ChipMoves
    <3>. QED
      BY <3>6 DEF End, BetweenInv
  <2>4. CASE byte_state = "ack" /\ ~call.last
    <3>1. core_cmd = "read" /\ call.op # "read" /\ Low
      <4>1. core_cmd = "read" /\ call.op # "read"
        BY <1>1, <2>4 DEF ByteInv, Works, CallInv
      <4>. QED
        BY <1>1, <1>4, <2>4, <4>1 DEF RestInv, AckTurn, Still
    <3>2. phase = "off" \/ (phase = "ack" /\ Selected)
      BY <1>1, <2>4, <3>1 DEF SyncInv, AnswerInv
    <3>3. CASE phase = "off"
      <4>1. phase' = "off"
        BY <1>4, <3>1, <3>3, AckFalls DEF ChipHolds, TakeAddress, TakeByte, NextByte, SendBit
      <4>. QED
        BY <4>1 DEF BetweenInv
    <3>4. CASE phase = "ack" /\ Selected
      <4>1. NextByte
        BY <1>4, <3>1, <3>4, AckFalls DEF TakeAddress, TakeByte, SendBit
      <4>2. UNCHANGED sel /\ (sel = "read" => phase' = "send" /\ nbits' = 1)
            /\ (sel # "read" => phase' = "receive" /\ nbits' = 0)
        BY <4>1 DEF NextByte, accelVars
      <4>3. call.op \in {"start", "write"}
        BY <2>1, <3>1, WorksAtPoll
      <4>4. (sel = "read" <=> Asked) /\ (sel # "read" => Listens)
        BY <2>2, <3>4, <4>3 DEF Selected, Listens
      <4>5. ~Freed' /\ (Asked' <=> Asked)
        BY <1>2, <2>1, <2>2, <2>4
      <4>. QED
        BY <4>2, <4>4, <4>5 DEF BetweenInv, Fresh, Listens
    <3>. QED
      BY <3>2, <3>3, <3>4
  <2>5. CASE byte_state = "ack" /\ call.last
    <3>1. byte_state' # "idle"
      BY <1>1, <2>1, <2>5, ByteMoves DEF Goes, BusInv, NotLost, Clock, Board, CoreClock
    <3>. QED
      BY <3>1 DEF BetweenInv
  <2>. QED
    BY <1>4, <2>3, <2>4, <2>5
<1>5. CASE byte_state' # "idle"
  BY <1>5 DEF BetweenInv
<1>. QED
  BY <1>3, <1>4, <1>5, Comes

(* Where a wave form goes on to.                                           *)
GoesOn(from, to) == c_state' = to /\ core_ack' = FALSE /\ c_state = from /\ clk_en = TRUE
Stands(from) == c_state' = from /\ core_ack' = FALSE /\ c_state = from /\ clk_en = FALSE

(* In a wave form the bit controller stands or goes on to the next state.  *)
LEMMA WaveSteps ==
  ASSUME BusInv, NEW acc, Clock(acc)
  PROVE  /\ c_state \in Starts =>
              \/ Stands(c_state)
              \/ GoesOn("start_a", "start_b") \/ GoesOn("start_b", "start_c")
              \/ GoesOn("start_c", "start_d") \/ GoesOn("start_d", "start_e")
              \/ c_state = "start_e" /\ c_state' = "idle" /\ core_ack' = TRUE
         /\ c_state \in Stops =>
              \/ Stands(c_state)
              \/ GoesOn("stop_a", "stop_b") \/ GoesOn("stop_b", "stop_c")
              \/ GoesOn("stop_c", "stop_d")
              \/ c_state = "stop_d" /\ c_state' = "idle" /\ core_ack' = TRUE
         /\ c_state \in Reads =>
              \/ Stands(c_state)
              \/ GoesOn("rd_a", "rd_b") \/ GoesOn("rd_b", "rd_c") \/ GoesOn("rd_c", "rd_d")
              \/ c_state = "rd_d" /\ c_state' = "idle" /\ core_ack' = TRUE
         /\ c_state \in Writings =>
              \/ Stands(c_state)
              \/ GoesOn("wr_a", "wr_b") \/ GoesOn("wr_b", "wr_c") \/ GoesOn("wr_c", "wr_d")
              \/ c_state = "wr_d" /\ c_state' = "idle" /\ core_ack' = TRUE
         /\ c_state = "idle" =>
              /\ core_ack' = FALSE
              /\ core_cmd = "start" => c_state' \in {"idle", "start_a"}
              /\ core_cmd = "stop" => c_state' \in {"idle", "stop_a"}
              /\ core_cmd = "read" => c_state' \in {"idle", "rd_a"}
              /\ core_cmd = "write" => c_state' \in {"idle", "wr_a"}
              /\ core_cmd = "nop" => c_state' = "idle"
<1>0. /\ Runs /\ clk_en \in BOOLEAN
      /\ core_cmd \in {"nop", "start", "stop", "write", "read"}
  BY Turns, ByteCommands DEF BusInv
<1>1. CASE clk_en = FALSE
  <2>1. core_ack' = FALSE /\ c_state' = c_state
    BY <1>0, <1>1 DEF Runs, BitHolds
  <2>. QED
    BY <1>1, <2>1 DEF Stands
<1>2. CASE clk_en = TRUE
  <2>1. c_state = "idle" =>
              /\ core_cmd = "start" => c_state' = "start_a" /\ core_ack' = FALSE
              /\ core_cmd = "stop" => c_state' = "stop_a" /\ core_ack' = FALSE
              /\ core_cmd = "read" => c_state' = "rd_a" /\ core_ack' = FALSE
              /\ core_cmd = "write" => c_state' = "wr_a" /\ core_ack' = FALSE
              /\ core_cmd = "nop" => c_state' = "idle" /\ core_ack' = FALSE
    BY <1>0, <1>2 DEF Runs, BitLeaves
  <2>2. c_state = "idle" => c_state \notin Starts \cup Stops \cup Reads \cup Writings
    BY DEF Starts, Stops, Reads, Writings
  <2>3. c_state \in Starts =>
              \/ GoesOn("start_a", "start_b") \/ GoesOn("start_b", "start_c")
              \/ GoesOn("start_c", "start_d") \/ GoesOn("start_d", "start_e")
              \/ c_state = "start_e" /\ c_state' = "idle" /\ core_ack' = TRUE
    BY <1>0, <1>2, Waves DEF Waves4, GoesOn
  <2>4. c_state \in Stops =>
              \/ GoesOn("stop_a", "stop_b") \/ GoesOn("stop_b", "stop_c")
              \/ GoesOn("stop_c", "stop_d")
              \/ c_state = "stop_d" /\ c_state' = "idle" /\ core_ack' = TRUE
    BY <1>0, <1>2, Waves DEF Waves4, GoesOn
  <2>5. c_state \in Reads =>
              \/ GoesOn("rd_a", "rd_b") \/ GoesOn("rd_b", "rd_c") \/ GoesOn("rd_c", "rd_d")
              \/ c_state = "rd_d" /\ c_state' = "idle" /\ core_ack' = TRUE
    BY <1>0, <1>2, Waves DEF Waves4, GoesOn
  <2>6. c_state \in Writings =>
              \/ GoesOn("wr_a", "wr_b") \/ GoesOn("wr_b", "wr_c") \/ GoesOn("wr_c", "wr_d")
              \/ c_state = "wr_d" /\ c_state' = "idle" /\ core_ack' = TRUE
    BY <1>0, <1>2, Waves DEF Waves4, GoesOn
  <2>. QED
    BY <1>0, <2>1, <2>2, <2>3, <2>4, <2>5, <2>6
<1>. QED
  BY <1>0, <1>1, <1>2

(* A start condition finds the chip as it should.                          *)
LEMMA StartKeeps ==
  ASSUME BusInv, NEW acc, Clock(acc)
  PROVE  StartInv'
<1>1. /\ CallInv /\ DriverInv /\ CommandInv /\ SyncInv /\ ByteInv /\ StateInv /\ ChipInv
      /\ SamplesInv /\ DividerInv /\ ~(1 = 0)
  BY ZeroOne DEF BusInv
<1>2. CASE IdleTurn /\ Begins /\ call.op = "start" /\ ld' = TRUE
  <2>1. Left' = 7 /\ c_state' = "idle" /\ core_ack' = FALSE
    BY <1>2, Shifting DEF IdleTurn, Still
  <2>2. UNCHANGED << phase, nbits >>
    BY <1>2, IdleHolds DEF ChipHolds
  <2>3. phase = "off" \/ (phase = "receive" /\ nbits = 0)
    <3>1. ~Asked
      BY <1>2, BeginsAtIssue DEF Asked
    <3>. QED
      BY <1>1, <1>2, <3>1 DEF SyncInv, BetweenInv, Fresh, IdleTurn
  <2>. QED
    BY <2>1, <2>2, <2>3 DEF StartInv
<1>3. CASE WorkTurn /\ byte_state = "start"
  <2>1. /\ Left = 7 /\ core_cmd = "start" /\ core_ack = FALSE
        /\ phase \in {"off", "address", "receive"}
        /\ phase = "receive" =>
             nbits = 0 \/ (nbits = 1 /\ c_state \in {"start_c", "start_d"} /\ sSCL = 1)
        /\ phase = "address" => nbits = 0
        /\ phase = "address" <=> c_state = "start_e" \/ (c_state = "start_d" /\ ~First)
    BY <1>1, <1>3 DEF SyncInv, StartInv, ByteInv, Works, WorkTurn
  <2>2. Left' = 7
    BY <1>3, <2>1, Comes, Shifting
  <2>3. ctr = TRUE
    BY <1>3, Turns
  <2>4. First' <=> clk_en = TRUE
    BY <2>3, Turns DEF Ticks
  <2>5. clk_en = TRUE => ~First
    BY <2>3, Turns DEF Ticks
  <2>6. c_state \in {"idle", "start_a", "start_b", "start_c", "start_d", "start_e"}
    BY <1>1, <2>1 DEF StateInv, Starts, Stops, Reads, Writings
  <2>7. CASE c_state \in {"idle", "start_a", "start_b", "start_e"}
    <3>1. c_state \notin Rising \cup {"start_d"}
      BY <2>7 DEF Rising
    <3>2. ChipHolds
      BY <1>3, <3>1, WorkBit
    <3>3. UNCHANGED << phase, nbits >>
      BY <3>2 DEF ChipHolds
    <3>4. CASE c_state = "idle"
      <4>1. c_state' \in {"idle", "start_a"} /\ core_ack' = FALSE
        BY <2>1, <3>4, WaveSteps
      <4>. QED
        BY <2>1, <2>2, <3>3, <3>4, <4>1 DEF StartInv
    <3>5. CASE c_state \in {"start_a", "start_b"}
      <4>1. c_state' \in {"start_a", "start_b", "start_c"} /\ core_ack' = FALSE
        BY <3>5, WaveSteps DEF Starts, Stands, GoesOn
      <4>. QED
        BY <2>1, <2>2, <3>3, <3>5, <4>1 DEF StartInv
    <3>6. CASE c_state = "start_e"
      <4>1. \/ c_state' = "start_e" /\ core_ack' = FALSE
            \/ c_state' = "idle" /\ core_ack' = TRUE
        BY <3>6, WaveSteps DEF Starts, Stands, GoesOn
      <4>. QED
        BY <2>1, <2>2, <3>3, <3>6, <4>1 DEF StartInv
    <3>. QED
      BY <2>7, <3>4, <3>5, <3>6
  <2>8. CASE c_state = "start_c"
    <3>1. /\ c_state' \in {"start_c", "start_d"} /\ core_ack' = FALSE
          /\ c_state' = "start_d" => First'
      BY <2>4, <2>8, WaveSteps DEF Starts, Stands, GoesOn
    <3>2. phase \in {"off", "receive"}
      BY <2>1, <2>8
    <3>3. CASE ChipHolds /\ sSCL' = sSCL
      <4>1. UNCHANGED << phase, nbits >>
        BY <3>3 DEF ChipHolds
      <4>. QED
        BY <2>1, <2>2, <3>1, <3>2, <3>3, <4>1 DEF StartInv
    <3>4. CASE sSCL = 0 /\ sSCL' = 1 /\ TakeBit(Sda)
      <4>1. phase = "receive" /\ nbits = 0 /\ phase' = "receive"
        BY <1>1, <2>1, <3>2, <3>4 DEF TakeBit
      <4>2. nbits' = 1
        BY <3>4, <4>1, SMT DEF TakeBit
      <4>. QED
        BY <2>2, <3>1, <3>4, <4>1, <4>2 DEF StartInv
    <3>5. CASE phase = "off" /\ ChipHolds
      <4>1. phase' = "off"
        BY <3>5 DEF ChipHolds
      <4>. QED
        BY <2>2, <3>1, <4>1 DEF StartInv
    <3>6. \/ ChipHolds /\ sSCL' = sSCL
          \/ /\ sSCL = 0 /\ sSCL' = 1
             /\ \/ TakeBit(Sda) \/ TakeAck(Sda)
                \/ phase \notin {"address", "receive", "wait"} /\ ChipHolds
      BY <1>3, <2>8, WorkBit DEF Rising
    <3>7. ~TakeAck(Sda)
      BY <3>2 DEF TakeAck
    <3>. QED
      BY <3>2, <3>3, <3>4, <3>5, <3>6, <3>7
  <2>9. CASE c_state = "start_d"
    <3>1. /\ sSCL' = 1 /\ (First => Begin) /\ (~First => ChipHolds)
      BY <1>3, <2>9, WorkBit
    <3>2. /\ c_state' \in {"start_d", "start_e"} /\ core_ack' = FALSE
          /\ c_state' = "start_d" => clk_en = FALSE
          /\ c_state' = "start_e" => clk_en = TRUE
      BY <2>9, WaveSteps DEF Starts, Stands, GoesOn
    <3>3. ~(c_state' = "start_d" /\ First')
      BY <1>1, <2>4, <3>2
    <3>4. phase' = "address" /\ nbits' = 0
      <4>1. CASE First
        BY <3>1, <4>1 DEF Begin
      <4>2. CASE ~First
        BY <2>1, <2>9, <3>1, <4>2 DEF ChipHolds
      <4>. QED
        BY <4>1, <4>2
    <3>. QED
      BY <2>2, <3>2, <3>3, <3>4 DEF StartInv
  <2>. QED
    BY <2>6, <2>7, <2>8, <2>9
<1>4. CASE byte_state' # "start"
  BY <1>4 DEF StartInv
<1>. QED
  BY <1>2, <1>3, <1>4, Comes

(* The bits of a byte that the chip has.                                   *)
LEMMA SeenBits ==
  ASSUME Left \in 0 .. 7
  PROVE  /\ Rose => Seen = 8 - Left
         /\ ~Rose => Seen = 7 - Left
BY SMT DEF Seen, Bit

(* A byte that is loaded: the chip has none of it.                         *)
LEMMA SendLoaded ==
  ASSUME BusInv, NEW acc, Clock(acc), txr' = txr, ld' = TRUE, c_state' = "idle",
         core_ack' = FALSE,
         phase' # "off" => /\ phase' = (IF call'.op = "start" THEN "address" ELSE "receive")
                           /\ nbits' = 0 /\ bits' = 0
                           /\ call'.op = "write" => Listens'
  PROVE  SendInv'
<1>1. txr \in Byte /\ Left' = 7 /\ Shifted' = txr /\ Left' \in 0 .. 7
  BY Shifting, SMT DEF BusInv, RegisterTypes
<1>2. Matches(Left, Shifted)'
  BY <1>1, TopLoaded DEF Matches
<1>3. ~Rose'
  BY DEF Rose
<1>4. Seen' = 0
  BY <1>1, <1>3, SMT DEF Seen, Bit
<1>5. Top(0)' = 0
  BY DEF Top
<1>. QED
  BY <1>2, <1>4, <1>5 DEF SendInv, Top

(* A bit that is shifted out: the chip has it.                             *)
LEMMA SendShifted ==
  ASSUME BusInv, NEW acc, Clock(acc), AckTurn, byte_state = "write", dcnt # 0,
         ld' = FALSE, shift' = TRUE
  PROVE  SendInv'
<1>1. /\ SyncInv /\ RegisterTypes /\ RestInv /\ core_ack /\ c_state' = "idle" /\ core_ack' = FALSE
      /\ byte_state # "idle"
  BY DEF BusInv, AckTurn, Still
<1>2. call' = call /\ txr' = txr
  BY CallStays
<1>3. /\ Left = dcnt /\ Shifted = sr /\ Left' = (dcnt + 7) % 8
      /\ Shifted' = (2 * sr + core_rxd') % 256 /\ core_rxd' \in Bits
  BY <1>1, Shifting
<1>4. dcnt \in 1 .. 7 /\ dcnt \in 0 .. 7
  BY <1>1, SMT DEF RegisterTypes
<1>5. (dcnt + 7) % 8 = dcnt - 1 /\ dcnt - 1 \in 0 .. 7 /\ 7 - (dcnt - 1) = 8 - dcnt /\ 8 - dcnt # 8
  BY <1>4, SMT
<1>6. Matches(Left, Shifted)'
  <2>1. Matches(dcnt, sr)
    BY <1>1, <1>3 DEF SyncInv, SendInv
  <2>2. Matches(dcnt - 1, (2 * sr + core_rxd') % 256)
    BY <1>1, <1>3, <1>4, <2>1, MatchesNext DEF RegisterTypes
  <2>3. Matches(dcnt - 1, (2 * sr + core_rxd') % 256)
          <=> ((2 * sr + core_rxd') % 256) \div Weight[(dcnt - 1) + 1] = txr % (2 * Weight[8 - (dcnt - 1)])
    BY DEF Matches
  <2>4. Matches(Left, Shifted)' <=> Shifted' \div Weight[Left' + 1] = txr' % (2 * Weight[8 - Left'])
    BY DEF Matches
  <2>. QED
    BY <1>2, <1>3, <1>5, <2>2, <2>3, <2>4, Zenon
<1>7. Seen = 8 - dcnt
  BY <1>1, <1>3, <1>4, SeenBits DEF Rose
<1>8. Seen' = 8 - dcnt
  <2>1. ~Rose' /\ Left' \in 0 .. 7
    BY <1>1, <1>3, <1>5 DEF Rose
  <2>2. Seen' = 7 - Left'
    BY <2>1, SMT DEF Seen, Bit
  <2>. QED
    BY <1>3, <1>5, <2>2
<1>9. phase # "off" =>
        /\ phase = (IF call.op = "start" THEN "address" ELSE "receive")
        /\ nbits = 8 - dcnt /\ bits = Top(nbits)
        /\ call.op = "write" => Listens
  BY <1>1, <1>7 DEF SyncInv, SendInv
<1>10. UNCHANGED << phase, nbits, bits, sel >>
  <2>1. Low
    BY <1>1 DEF RestInv, AckTurn, Still
  <2>2. phase = "off" \/ (phase \in {"address", "receive"} /\ nbits # 8)
    BY <1>5, <1>9
  <2>3. ChipHolds
    BY <2>1, <2>2, AckFalls DEF TakeAddress, TakeByte, NextByte, SendBit
  <2>. QED
    BY <2>3 DEF ChipHolds, accelVars
<1>. QED
  BY <1>2, <1>6, <1>8, <1>9, <1>10 DEF SendInv, Top, Listens

(* Where the clock rises, the chip takes the bit the core gives.           *)
LEMMA SendTaken ==
  ASSUME BusInv, byte_state = "write", c_state = "wr_c", sSCL = 0, core_ack = FALSE,
         TakeBit(Sda)
  PROVE  /\ phase' = phase /\ nbits' = 8 - Left /\ nbits' # 0
         /\ bits' = Top(8 - Left) /\ sel' = sel
<1>1. SyncInv /\ RegisterTypes /\ PhaseInv /\ WriteInv /\ ShiftInv /\ ~(1 = 0)
  BY ZeroOne DEF BusInv
<1>2. phase \in {"address", "receive"} /\ phase # "off" /\ phase \notin {"ack", "send"}
  BY DEF TakeBit
<1>3. Left = dcnt /\ Shifted = sr /\ Left \in 0 .. 7
  BY <1>1 DEF ShiftInv, Left, Shifted, RegisterTypes
<1>4. nbits = 7 - Left /\ bits = Top(7 - Left)
  <2>1. ~Rose
    BY <1>1 DEF Rose
  <2>2. Seen = 7 - Left
    BY <1>3, <2>1, SeenBits
  <2>. QED
    BY <1>1, <1>2, <2>2 DEF SyncInv, SendInv
<1>5. Sda = sr \div 128
  <2>1. Sda = sda_oen
    BY <1>2, Free
  <2>2. sda_oen = core_txd
    BY <1>1 DEF PhaseInv, Gives
  <2>3. core_txd = sr \div 128
    BY <1>1 DEF WriteInv, BitReady
  <2>. QED
    BY <2>1, <2>2, <2>3
<1>6. (2 * Top(7 - Left) + sr \div 128) % 256 = Top(8 - Left)
  <2>1. Matches(Left, sr)
    BY <1>1, <1>3 DEF SyncInv, SendInv
  <2>. QED
    BY <1>1, <1>3, <2>1, TopNext DEF RegisterTypes
<1>7. bits' = Top(8 - Left)
  <2>1. bits' = (2 * bits + Sda) % 256
    BY DEF TakeBit
  <2>. QED
    BY <1>4, <1>5, <1>6, <2>1, Zenon
<1>8. nbits' = 8 - Left /\ nbits' # 0
  <2>1. nbits' = nbits + 1
    BY DEF TakeBit
  <2>. QED
    BY <1>3, <1>4, <2>1, SMT
<1>. QED
  BY <1>7, <1>8 DEF TakeBit, accelVars

(* While a bit is on the line.                                             *)
LEMMA SendWorks ==
  ASSUME BusInv, NEW acc, Clock(acc), WorkTurn, byte_state = "write"
  PROVE  SendInv'
<1>1. /\ SyncInv /\ RegisterTypes /\ PhaseInv /\ RestInv /\ StateInv /\ ChipInv /\ core_ack = FALSE
      /\ core_cmd = "write" /\ ~(1 = 0)
  BY ZeroOne DEF BusInv, ByteInv, Works, WorkTurn
<1>2. call' = call /\ txr' = txr
  BY CallStays
<1>3. Left' = Left /\ Shifted' = Shifted /\ Left \in 0 .. 7
  BY Comes, Shifting
<1>4. Matches(Left, Shifted)'
  <2>1. Matches(Left, Shifted)
    BY <1>1 DEF SyncInv, SendInv
  <2>. QED
    BY <1>2, <1>3, <2>1 DEF Matches
<1>5. (Rose' => Seen' = 8 - Left) /\ (~Rose' => Seen' = 7 - Left)
  <2>1. /\ Rose' => Seen' = 8 - Left'
        /\ ~Rose' => Seen' = 7 - Left'
    BY <1>3, SMT DEF Seen, Bit
  <2>. QED
    BY <1>3, <2>1
<1>6. (Rose => Seen = 8 - Left) /\ (~Rose => Seen = 7 - Left)
  BY <1>3, SeenBits
<1>7. phase # "off" =>
        /\ phase = (IF call.op = "start" THEN "address" ELSE "receive")
        /\ nbits = Seen /\ bits = Top(nbits)
        /\ call.op = "write" => Listens
  BY <1>1 DEF SyncInv, SendInv
<1>8. ASSUME ChipHolds, Rose' <=> Rose
      PROVE  SendInv'
  <2>1. UNCHANGED << phase, nbits, bits, sel >>
    BY <1>8 DEF ChipHolds, accelVars
  <2>2. Seen' = Seen
    BY <1>5, <1>6, <1>8
  <2>. QED
    BY <1>2, <1>4, <1>7, <2>1, <2>2 DEF SendInv, Top, Listens
<1>9. c_state \in {"idle", "wr_a", "wr_b", "wr_c", "wr_d"}
  BY <1>1 DEF StateInv, Starts, Stops, Reads, Writings
<1>10. CASE c_state \in {"idle", "wr_a", "wr_b"}
  <2>1. Low
    BY <1>1, <1>10 DEF RestInv, PhaseInv, Gives, Low
  <2>2. ChipHolds /\ sSCL' = 0
    BY <2>1, WorkBit
  <2>3. core_ack' = FALSE
    BY <1>1, <1>10, WaveSteps DEF Writings, Stands, GoesOn
  <2>4. ~Rose' /\ ~Rose
    BY <1>1, <1>10, <2>2, <2>3 DEF Rose
  <2>. QED
    BY <1>8, <2>2, <2>4
<1>11. CASE c_state = "wr_c"
  <2>1. c_state' \in {"wr_c", "wr_d"} /\ core_ack' = FALSE
    BY <1>11, WaveSteps DEF Writings, Stands, GoesOn
  <2>2. (Rose <=> sSCL = 1) /\ (Rose' <=> sSCL' = 1)
    BY <1>1, <1>11, <2>1 DEF Rose
  <2>3. CASE ChipHolds /\ sSCL' = sSCL
    BY <1>8, <2>2, <2>3
  <2>4. CASE sSCL = 0 /\ sSCL' = 1 /\ TakeBit(Sda)
    <3>1. /\ phase' = phase /\ nbits' = 8 - Left /\ nbits' # 0
          /\ bits' = Top(8 - Left) /\ sel' = sel
      BY <1>1, <1>11, <2>4, SendTaken
    <3>2. Seen' = 8 - Left
      BY <1>5, <2>2, <2>4
    <3>3. bits' = Top(nbits)'
      BY <1>2, <3>1 DEF Top
    <3>. QED
      BY <1>2, <1>4, <1>7, <3>1, <3>2, <3>3 DEF SendInv, Listens
  <2>5. CASE phase = "off" /\ ChipHolds
    <3>1. phase' = "off"
      BY <2>5 DEF ChipHolds
    <3>. QED
      BY <1>4, <3>1 DEF SendInv
  <2>6. \/ ChipHolds /\ sSCL' = sSCL
        \/ /\ sSCL = 0 /\ sSCL' = 1
           /\ \/ TakeBit(Sda) \/ TakeAck(Sda)
              \/ phase \notin {"address", "receive", "wait"} /\ ChipHolds
    BY <1>11, WorkBit DEF Rising
  <2>7. ~TakeAck(Sda)
    BY <1>7 DEF TakeAck
  <2>. QED
    BY <1>7, <2>3, <2>4, <2>5, <2>6, <2>7
<1>12. CASE c_state = "wr_d"
  <2>1. ~Low /\ c_state \notin Rising \cup {"start_d"}
    BY <1>1, <1>12 DEF PhaseInv, Gives, Low, Rising
  <2>2. ChipHolds /\ sSCL = 1 /\ sSCL' = 1
    BY <2>1, WorkBit
  <2>3. c_state' = "wr_d" \/ core_ack' = TRUE
    BY <1>12, WaveSteps DEF Writings, Stands, GoesOn
  <2>4. Rose /\ Rose'
    BY <1>12, <2>2, <2>3 DEF Rose
  <2>. QED
    BY <1>8, <2>2, <2>4
<1>. QED
  BY <1>9, <1>10, <1>11, <1>12

(* The chip has the bits that have gone.                                   *)
LEMMA SendKeeps ==
  ASSUME BusInv, NEW acc, Clock(acc)
  PROVE  SendInv'
<1>1. CallInv /\ SyncInv /\ ByteInv /\ RestInv /\ ChipInv
  BY DEF BusInv
<1>2. 0 # 8
  BY SMT
<1>3. CASE IdleTurn /\ Begins /\ call.op = "write" /\ ld' = TRUE
  <2>1. call' = call /\ txr' = txr /\ c_state' = "idle" /\ core_ack' = FALSE /\ byte_state = "idle"
    BY <1>3, CallStays DEF IdleTurn, Still
  <2>2. UNCHANGED << phase, nbits, bits, sel >>
    BY <1>3, IdleHolds DEF ChipHolds, accelVars
  <2>3. phase # "off" => Fresh /\ Listens
    BY <1>1, <1>3, <2>1 DEF SyncInv, BetweenInv, Asked
  <2>4. phase # "off" => phase = "receive" /\ nbits = 0 /\ bits = 0
    BY <1>1, <2>3 DEF Fresh, ChipInv
  <2>. QED
    BY <1>3, <2>1, <2>2, <2>3, <2>4, SendLoaded DEF Listens
<1>4. CASE AckTurn /\ byte_state = "start" /\ ld' = TRUE
  <2>1. /\ call' = call /\ txr' = txr /\ c_state' = "idle" /\ core_ack' = FALSE /\ core_ack
        /\ call.op = "start"
    BY <1>1, <1>4, CallStays DEF AckTurn, Still, ByteInv, Works
  <2>2. phase = "off" \/ (phase = "address" /\ nbits = 0 /\ bits = 0)
    BY <1>1, <1>4, <2>1 DEF SyncInv, StartInv, ChipInv
  <2>3. Low
    BY <1>1, <1>4, <2>1 DEF RestInv
  <2>4. ChipHolds
    BY <1>2, <1>4, <2>2, <2>3, AckFalls DEF TakeAddress, TakeByte, NextByte, SendBit
  <2>5. UNCHANGED << phase, nbits, bits >>
    BY <2>4 DEF ChipHolds
  <2>. QED
    BY <1>4, <2>1, <2>2, <2>5, SendLoaded
<1>5. CASE AckTurn /\ byte_state = "write" /\ dcnt # 0 /\ ld' = FALSE /\ shift' = TRUE
  BY <1>5, SendShifted
<1>6. CASE WorkTurn /\ byte_state = "write"
  BY <1>6, SendWorks
<1>7. CASE byte_state' # "write"
  BY <1>7 DEF SendInv
<1>. QED
  BY <1>3, <1>4, <1>5, <1>6, <1>7, Comes

(* Within a bit the chip does nothing when it gives the data, or is off.   *)
LEMMA WorkHolds ==
  ASSUME BusInv, NEW acc, Clock(acc), WorkTurn, c_state # "start_d",
         phase \notin {"address", "receive", "wait"}
  PROVE  UNCHANGED << phase, nbits, bits, sel >>
<1>1. ~TakeBit(Sda) /\ ~TakeAck(Sda)
  BY DEF TakeBit, TakeAck
<1>2. ChipHolds
  <2>1. CASE Low
    BY <2>1, WorkBit
  <2>2. CASE c_state \in Rising
    BY <1>1, <2>2, WorkBit
  <2>3. CASE ~Low /\ c_state \notin Rising
    BY <2>3, WorkBit
  <2>. QED
    BY <2>1, <2>2, <2>3
<1>. QED
  BY <1>2 DEF ChipHolds, accelVars

(* The chip gives the bit that is asked for.                               *)
LEMMA FetchKeeps ==
  ASSUME BusInv, NEW acc, Clock(acc)
  PROVE  FetchInv'
<1>1. CallInv /\ SyncInv /\ ByteInv /\ RestInv /\ RegisterTypes /\ StateInv
  BY DEF BusInv
<1>2. CASE IdleTurn /\ Begins /\ call.op = "read" /\ ld' = TRUE
  <2>1. UNCHANGED << phase, nbits, sel >> /\ byte_state = "idle"
    BY <1>2, IdleHolds DEF ChipHolds, accelVars, IdleTurn
  <2>2. phase # "off" => phase = "send" /\ nbits = 1 /\ sel = "read"
    BY <1>1, <1>2, <2>1 DEF SyncInv, BetweenInv, Asked
  <2>3. 8 - Left' = 1
    BY <1>2, Shifting, SMT
  <2>. QED
    BY <2>1, <2>2, <2>3 DEF FetchInv
<1>3. CASE AckTurn /\ byte_state = "read" /\ dcnt # 0 /\ ld' = FALSE /\ shift' = TRUE
  <2>1. core_ack /\ c_state = "idle" /\ Low
    BY <1>1, <1>3 DEF AckTurn, Still, RestInv
  <2>2. Left = dcnt /\ Left' = (dcnt + 7) % 8
    BY <1>3, <2>1, Shifting
  <2>3. dcnt \in 1 .. 7
    BY <1>1, <1>3, SMT DEF RegisterTypes
  <2>4. 8 - Left' = (8 - dcnt) + 1 /\ 8 - dcnt # 8
    BY <2>2, <2>3, SMT
  <2>5. phase # "off" => phase = "send" /\ nbits = 8 - dcnt /\ sel = "read"
    BY <1>1, <1>3, <2>2 DEF SyncInv, FetchInv
  <2>6. CASE phase = "off"
    <3>1. phase' = "off"
      BY <1>3, <2>1, <2>6, AckFalls DEF ChipHolds, TakeAddress, TakeByte, NextByte, SendBit
    <3>. QED
      BY <3>1 DEF FetchInv
  <2>7. CASE phase = "send"
    <3>1. SendBit
      BY <1>3, <2>1, <2>7, AckFalls DEF TakeAddress, TakeByte, NextByte
    <3>2. phase' = "send" /\ nbits' = nbits + 1 /\ sel' = sel
      BY <2>4, <2>5, <2>7, <3>1 DEF SendBit, accelVars
    <3>. QED
      BY <2>4, <2>5, <2>7, <3>2 DEF FetchInv
  <2>. QED
    BY <2>5, <2>6, <2>7
<1>4. CASE WorkTurn /\ byte_state = "read"
  <2>1. phase # "off" => phase = "send" /\ nbits = 8 - Left /\ sel = "read"
    BY <1>1, <1>4 DEF SyncInv, FetchInv
  <2>2. c_state # "start_d"
    BY <1>1, <1>4 DEF ByteInv, Works, StateInv, Starts
  <2>3. UNCHANGED << phase, nbits, sel >>
    BY <1>4, <2>1, <2>2, WorkHolds
  <2>4. Left' = Left
    BY <1>4, Comes, Shifting
  <2>. QED
    BY <2>1, <2>3, <2>4 DEF FetchInv
<1>5. CASE byte_state' # "read"
  BY <1>5 DEF FetchInv
<1>. QED
  BY <1>2, <1>3, <1>4, <1>5, Comes

(* The chip has a whole byte, and answers.                                 *)
LEMMA AnswerWritten ==
  ASSUME BusInv, NEW acc, Clock(acc), AckTurn, byte_state = "write", dcnt = 0
  PROVE  phase' # "off" => phase' = "ack" /\ Selected'
<1>1. /\ CallInv /\ SyncInv /\ ByteInv /\ RestInv /\ RegisterTypes /\ TransmitInv
      /\ core_ack /\ c_state = "idle" /\ byte_state # "idle"
  BY DEF BusInv, AckTurn, Still
<1>2. Low
  BY <1>1 DEF RestInv
<1>3. call' = call
  BY CallStays
<1>4. call.op \in {"start", "write"}
  BY <1>1 DEF ByteInv, Works
<1>5. phase # "off" =>
        /\ phase = (IF call.op = "start" THEN "address" ELSE "receive")
        /\ nbits = 8 /\ bits = txr
        /\ call.op = "write" => Listens
  <2>1. Left = 0 /\ Left \in 0 .. 7 /\ Rose
    BY <1>1, Shifting DEF Rose
  <2>2. Seen = 8
    BY <2>1, SeenBits, SMT
  <2>3. Top(8) = txr
    BY <1>1, TopLoaded DEF RegisterTypes
  <2>. QED
    BY <1>1, <2>2, <2>3 DEF SyncInv, SendInv
<1>6. CASE phase = "off"
  <2>1. phase' = "off"
    BY <1>2, <1>6, AckFalls DEF ChipHolds, TakeAddress, TakeByte, NextByte, SendBit
  <2>. QED
    BY <2>1
<1>7. CASE phase = "address"
  <2>1. call.op = "start" /\ call.arg \in Bits
    BY <1>1, <1>4, <1>5, <1>7 DEF CallInv
  <2>2. TakeAddress
    BY <1>2, <1>5, <1>7, AckFalls DEF TakeByte, NextByte, SendBit
  <2>3. bits = 2 * I2C_add + call.arg
    <3>1. Written(1)
      <4>1. dpc = Poll
        BY <1>1, WorksAtPoll DEF AtPoll
      <4>. QED
        BY <2>1, <4>1, SMT DEF Written, Poll, Issue
    <3>. QED
      BY <1>1, <1>5, <1>7, <2>1, <3>1 DEF TransmitInv
  <2>4. bits % 2 = call.arg /\ (bits % 2 = 1 => call.arg = 1) /\ (bits % 2 # 1 => call.arg # 1)
    BY <2>1, <2>3, SMT DEF I2C_add, Bits
  <2>5. phase' = "off" \/ (phase' = "ack" /\ I2C_start(bits % 2 = 1, TRUE))
    BY <2>2 DEF TakeAddress
  <2>6. I2C_start(bits % 2 = 1, TRUE) => Selected'
    BY <1>3, <2>1, <2>4 DEF I2C_start, Selected
  <2>. QED
    BY <2>5, <2>6
<1>8. CASE phase = "receive"
  <2>1. call.op = "write" /\ Listens
    BY <1>4, <1>5, <1>8
  <2>2. TakeByte
    BY <1>2, <1>5, <1>8, AckFalls DEF TakeAddress, NextByte, SendBit
  <2>3. phase' = "ack" /\ sel' = "data"
    BY <2>1, <2>2 DEF TakeByte, I2C_write, Listens
  <2>. QED
    BY <1>3, <2>1, <2>3 DEF Selected
<1>. QED
  BY <1>4, <1>5, <1>6, <1>7, <1>8

(* Its acknowledge is on the line while the core reads it.                 *)
LEMMA AnswerReadKeeps ==
  ASSUME BusInv, NEW acc, Clock(acc), byte_state' = "ack", core_cmd' = "read"
  PROVE  phase' # "off" => phase' = "ack" /\ Selected'
<1>1. SyncInv /\ ByteInv /\ StateInv
  BY DEF BusInv
<1>2. CASE AckTurn /\ byte_state = "write" /\ dcnt = 0
  BY <1>2, AnswerWritten
<1>3. CASE WorkTurn /\ byte_state = "ack" /\ core_cmd' = core_cmd
  <2>1. phase # "off" => phase = "ack" /\ Selected
    BY <1>1, <1>3 DEF SyncInv, AnswerInv
  <2>2. c_state # "start_d"
    BY <1>1, <1>3 DEF StateInv, Starts
  <2>3. UNCHANGED << phase, sel >>
    BY <1>3, <2>1, <2>2, WorkHolds
  <2>4. call' = call
    BY <1>3, CallStays
  <2>. QED
    BY <2>1, <2>3, <2>4 DEF Selected
<1>. QED
  BY <1>2, <1>3, Comes

(* It hears that the byte it gave was the last one.                        *)
LEMMA AnswerGivenKeeps ==
  ASSUME BusInv, NEW acc, Clock(acc), byte_state' = "ack", core_cmd' = "write"
  PROVE  /\ phase' \in {"off", "wait"}
         /\ core_ack' \/ c_state' = "wr_d" \/ (c_state' = "wr_c" /\ sSCL' = 1) => phase' = "off"
<1>1. /\ CallInv /\ SyncInv /\ ByteInv /\ StateInv /\ RestInv /\ PhaseInv /\ ClockInv /\ RegisterTypes
      /\ ~(1 = 0)
  BY ZeroOne DEF BusInv
<1>2. CASE AckTurn /\ byte_state = "read" /\ dcnt = 0
  <2>1. core_ack /\ c_state = "idle" /\ Low /\ c_state' = "idle" /\ core_ack' = FALSE
    BY <1>1, <1>2 DEF AckTurn, Still, RestInv
  <2>2. Left = 0
    BY <1>2, <2>1, Shifting
  <2>3. 8 - Left = 8
    BY <2>2, SMT
  <2>4. phase = "off" \/ (phase = "send" /\ nbits = 8)
    BY <1>1, <1>2, <2>3 DEF SyncInv, FetchInv
  <2>5. CASE phase = "off"
    <3>1. phase' = "off"
      BY <1>2, <2>1, <2>5, AckFalls DEF ChipHolds, TakeAddress, TakeByte, NextByte, SendBit
    <3>. QED
      BY <3>1
  <2>6. CASE phase = "send" /\ nbits = 8
    <3>1. SendBit
      BY <1>2, <2>1, <2>6, AckFalls DEF TakeAddress, TakeByte, NextByte
    <3>2. phase' = "wait"
      BY <2>6, <3>1 DEF SendBit
    <3>. QED
      BY <2>1, <3>2
  <2>. QED
    BY <2>4, <2>5, <2>6
<1>3. CASE WorkTurn /\ byte_state = "ack" /\ core_cmd' = core_cmd
  <2>1. /\ phase \in {"off", "wait"} /\ core_txd = 1 /\ core_cmd = "write"
        /\ c_state = "wr_d" \/ (c_state = "wr_c" /\ sSCL = 1) => phase = "off"
    BY <1>1, <1>3 DEF SyncInv, AnswerInv, ByteInv, Works
  <2>2. c_state \in {"idle", "wr_a", "wr_b", "wr_c", "wr_d"}
    BY <1>1, <2>1 DEF StateInv, Starts, Stops, Reads, Writings
  <2>3. CASE c_state \in {"idle", "wr_a", "wr_b"}
    <3>1. Low
      BY <1>1, <1>3, <2>3 DEF RestInv, PhaseInv, Gives, Low
    <3>2. ChipHolds /\ sSCL' = 0
      BY <1>3, <3>1, WorkBit
    <3>3. phase' = phase
      BY <3>2 DEF ChipHolds
    <3>4. core_ack' = FALSE /\ c_state' # "wr_d"
      BY <2>1, <2>3, WaveSteps DEF Writings, Stands, GoesOn
    <3>. QED
      BY <1>1, <2>1, <3>2, <3>3, <3>4
  <2>4. CASE c_state = "wr_c"
    <3>1. /\ c_state' \in {"wr_c", "wr_d"} /\ core_ack' = FALSE
          /\ c_state' = "wr_d" => clk_en = TRUE
      BY <2>4, WaveSteps DEF Writings, Stands, GoesOn
    <3>2. CASE ChipHolds /\ sSCL' = sSCL
      <4>1. phase' = phase
        BY <3>2 DEF ChipHolds
      <4>2. c_state' = "wr_d" => sSCL = 1
        BY <1>1, <2>4, <3>1 DEF ClockInv, Rising
      <4>. QED
        BY <2>1, <2>4, <3>1, <3>2, <4>1, <4>2
    <3>3. CASE TakeAck(Sda)
      <4>1. phase = "wait" /\ phase \notin {"ack", "send"}
        BY <3>3 DEF TakeAck
      <4>2. Sda = sda_oen /\ sda_oen = core_txd
        BY <1>1, <2>4, <4>1, Free DEF PhaseInv, Gives
      <4>3. phase' = "off"
        BY <1>1, <2>1, <3>3, <4>2 DEF TakeAck
      <4>. QED
        BY <4>3
    <3>4. CASE phase = "off" /\ ChipHolds
      <4>1. phase' = "off"
        BY <3>4 DEF ChipHolds
      <4>. QED
        BY <4>1
    <3>5. \/ ChipHolds /\ sSCL' = sSCL
          \/ TakeBit(Sda) \/ TakeAck(Sda)
          \/ phase \notin {"address", "receive", "wait"} /\ ChipHolds
      BY <1>3, <2>4, WorkBit DEF Rising
    <3>6. ~TakeBit(Sda)
      BY <2>1 DEF TakeBit
    <3>. QED
      BY <2>1, <3>2, <3>3, <3>4, <3>5, <3>6
  <2>5. CASE c_state = "wr_d"
    <3>1. UNCHANGED phase
      BY <1>3, <2>1, <2>5, WorkHolds
    <3>. QED
      BY <2>1, <2>5, <3>1
  <2>. QED
    BY <2>2, <2>3, <2>4, <2>5
<1>. QED
  BY <1>2, <1>3, Comes

(* The answer to a byte.                                                   *)
LEMMA AnswerKeeps ==
  ASSUME BusInv, NEW acc, Clock(acc)
  PROVE  AnswerInv'
BY AnswerReadKeeps, AnswerGivenKeeps DEF AnswerInv

(* A stop condition finds the chip without a bit of its own.               *)
LEMMA EndKeeps ==
  ASSUME BusInv, NEW acc, Clock(acc)
  PROVE  EndInv'
<1>1. /\ CallInv /\ SyncInv /\ ByteInv /\ StateInv /\ RestInv /\ PhaseInv /\ ~(1 = 0)
  BY ZeroOne DEF BusInv
<1>2. CASE AckTurn /\ byte_state = "ack" /\ call.last
  <2>1. core_ack /\ Low
    BY <1>1, <1>2 DEF AckTurn, Still, RestInv
  <2>2. \/ phase = "off"
        \/ phase = "ack" /\ sel = "data"
    <3>1. \/ call.op = "write" /\ core_cmd = "read"
          \/ core_cmd = "write"
      BY <1>1, <1>2 DEF ByteInv, Works, CallInv
    <3>. QED
      BY <1>1, <1>2, <2>1, <3>1 DEF SyncInv, AnswerInv, Selected
  <2>3. CASE phase = "off"
    <3>1. phase' = "off"
      BY <1>2, <2>1, <2>3, AckFalls DEF ChipHolds, TakeAddress, TakeByte, NextByte, SendBit
    <3>. QED
      BY <3>1 DEF EndInv
  <2>4. CASE phase = "ack" /\ sel = "data"
    <3>1. NextByte
      BY <1>2, <2>1, <2>4, AckFalls DEF TakeAddress, TakeByte, SendBit
    <3>2. phase' = "receive" /\ nbits' = 0
      BY <2>4, <3>1 DEF NextByte
    <3>. QED
      BY <3>2 DEF EndInv
  <2>. QED
    BY <2>2, <2>3, <2>4
<1>3. CASE WorkTurn /\ byte_state = "stop"
  <2>1. /\ core_cmd = "stop"
        /\ phase # "off" => phase = "receive" /\ (nbits = 0 \/ (nbits = 1 /\ sSCL = 1))
    BY <1>1, <1>3 DEF SyncInv, EndInv, ByteInv, Works
  <2>2. c_state \in {"idle", "stop_a", "stop_b", "stop_c", "stop_d"}
    BY <1>1, <2>1 DEF StateInv, Starts, Stops, Reads, Writings
  <2>3. ASSUME ChipHolds, sSCL' = sSCL
        PROVE  EndInv'
    BY <2>1, <2>3 DEF ChipHolds, EndInv
  <2>4. CASE c_state \in {"idle", "stop_a", "stop_b"}
    <3>1. Low
      BY <1>1, <1>3, <2>4 DEF RestInv, PhaseInv, Gives, Low, WorkTurn
    <3>. QED
      BY <1>3, <2>3, <3>1, WorkBit
  <2>5. CASE c_state = "stop_c"
    <3>1. CASE sSCL = 0 /\ sSCL' = 1 /\ TakeBit(Sda)
      <4>1. phase = "receive" /\ nbits = 0 /\ phase' = "receive"
        BY <1>1, <2>1, <3>1 DEF TakeBit
      <4>2. nbits' = 1
        BY <3>1, <4>1, SMT DEF TakeBit
      <4>. QED
        BY <3>1, <4>1, <4>2 DEF EndInv
    <3>2. CASE phase = "off" /\ ChipHolds
      <4>1. phase' = "off"
        BY <3>2 DEF ChipHolds
      <4>. QED
        BY <4>1 DEF EndInv
    <3>3. \/ ChipHolds /\ sSCL' = sSCL
          \/ /\ sSCL = 0 /\ sSCL' = 1
             /\ \/ TakeBit(Sda) \/ TakeAck(Sda)
                \/ phase \notin {"address", "receive", "wait"} /\ ChipHolds
      BY <1>3, <2>5, WorkBit DEF Rising
    <3>4. ~TakeAck(Sda)
      BY <2>1 DEF TakeAck
    <3>. QED
      BY <2>1, <2>3, <3>1, <3>2, <3>3, <3>4
  <2>6. CASE c_state = "stop_d"
    <3>1. ~Low /\ c_state \notin Rising \cup {"start_d"}
      BY <1>1, <2>6 DEF PhaseInv, Gives, Low, Rising
    <3>. QED
      BY <1>3, <2>3, <3>1, WorkBit
  <2>. QED
    BY <2>2, <2>4, <2>5, <2>6
<1>4. CASE byte_state' # "stop"
  BY <1>4 DEF EndInv
<1>. QED
  BY <1>2, <1>3, <1>4, Comes

(* Core and chip keep in step.                                             *)
LEMMA SyncKeeps ==
  ASSUME BusInv, NEW acc, Clock(acc)
  PROVE  SyncInv'
BY BetweenKeeps, StartKeeps, SendKeeps, FetchKeeps, AnswerKeeps, EndKeeps DEF SyncInv

----------------------------------------------------------------------------
(* Together.                                                               *)

(* Every step keeps the invariant.                                         *)
LEMMA BusKeeps ==
  ASSUME BusInv, BusNext
  PROVE  BusInv'
<1>1. /\ CallInv /\ DriverInv /\ PrescaleInv /\ CommandInv /\ TransmitInv /\ RegisterTypes
      /\ ByteInv /\ ShiftInv /\ StateInv /\ DividerInv /\ RestInv /\ PhaseInv /\ WriteInv
      /\ SamplesInv /\ ClockInv /\ DataInv /\ NotLost /\ ChipInv /\ SyncInv
  BY DEF BusInv
<1>2. PICK acc : Clock(acc)
  BY <1>1, NextIsClock
<1>3. CallInv' /\ DriverInv' /\ PrescaleInv' /\ TransmitInv'
  BY <1>1, <1>2, DriverKeeps, PrescaleKeeps, TransmitKeeps
<1>4. CommandInv' /\ ByteInv'
  BY <1>1, <1>2, CommandKeeps, ByteKeeps
<1>5. RegisterTypes' /\ ShiftInv' /\ StateInv' /\ RestInv' /\ PhaseInv' /\ WriteInv'
  BY <1>2, RegistersKeep, ShiftKeeps, StateKeeps, RestKeeps, PhaseKeeps, WriteKeeps
<1>6. DividerInv'
  BY <1>1, <1>2, DividerKeeps
<1>7. SamplesInv' /\ ClockInv' /\ DataInv' /\ NotLost' /\ ChipInv' /\ SyncInv'
  BY <1>2, SamplesKeep, ClockKeeps, DataKeeps, LostKeeps, ChipKeeps, SyncKeeps
<1>. QED
  BY <1>3, <1>4, <1>5, <1>6, <1>7 DEF BusInv

(* So does a step that changes nothing.                                    *)
LEMMA BusRests ==
  ASSUME BusInv, UNCHANGED vars
  PROVE  BusInv'
<1>0. UNCHANGED << call, dpc, answer, todo, restarts >>
  BY DEF vars, driverVars
<1>1. UNCHANGED << prer, ctr, txr, cr, wb_ack, wb_dat, rxack, tip, al, irq_flag >>
  BY DEF vars, coreVars, topVars
<1>2. UNCHANGED << byte_state, core_cmd, core_txd, shift, ld, done, ack_out, sr, dcnt >>
  BY DEF vars, coreVars, byteVars
<1>3. UNCHANGED << c_state, core_ack, scl_oen, sda_oen, sda_chk, core_rxd, cmd_stop,
                   dscl_oen, cnt, clk_en, sSCL, sSDA, dSCL, dSDA,
                   sta_condition, sto_condition, busy, i2c_al >>
  BY DEF vars, coreVars, bitVars
<1>4. UNCHANGED << phase, bits, nbits, csda, hold, pscl, psda, sample, ofs, ptr, sel >>
  BY DEF vars, chipVars, accelVars
<1>5. CallInv' /\ DriverInv' /\ TransmitInv' /\ RegisterTypes'
  BY <1>0, <1>1, <1>2, <1>3
    DEF BusInv, CallInv, NextCall, DriverInv, Issue, TransmitInv, Written, RegisterTypes
<1>6. PrescaleInv'
  BY <1>0, <1>1 DEF BusInv, PrescaleInv, Enabled, Written, Unset, HalfSet, Set, Prescale
<1>7. CommandInv'
  BY <1>0, <1>1, <1>2
    DEF BusInv, CommandInv, AtPoll, AtIssue, Poll, Issue, Commanded, Command, Cleared, Resting, TipRead
<1>8. ByteInv' /\ ShiftInv' /\ StateInv'
  BY <1>0, <1>1, <1>2, <1>3 DEF BusInv, ByteInv, Works, ShiftInv, StateInv
<1>9. DividerInv' /\ PhaseInv' /\ WriteInv'
  BY <1>1, <1>2, <1>3
    DEF BusInv, DividerInv, First, PhaseInv, Gives, Low, WriteInv, BitReady
<1>10. RestInv'
  BY <1>0, <1>1, <1>2, <1>3 DEF BusInv, RestInv, Gives, Low, Freed, Poll, Issue
<1>11. SamplesInv' /\ ClockInv' /\ NotLost'
  BY <1>1, <1>2, <1>3, <1>4 DEF BusInv, SamplesInv, ClockInv, First, Second, Low, NotLost
<1>12. DataInv'
  BY <1>1, <1>2, <1>3, <1>4 DEF BusInv, DataInv, First, Second, Low, Sda
<1>13. ChipInv'
  BY <1>4 DEF BusInv, ChipInv, AccelTypeOK
<1>14. SyncInv'
  <2>1. BetweenInv'
    BY <1>0, <1>2, <1>4 DEF BusInv, SyncInv, BetweenInv, Freed, Asked, Fresh, Listens, Poll, Issue
  <2>2. Left' = Left /\ Shifted' = Shifted /\ Rose' = Rose
    BY <1>1, <1>2, <1>3 DEF Left, Shifted, Rose
  <2>3. Seen' = Seen /\ Top(nbits)' = Top(nbits) /\ (Matches(Left, Shifted)' <=> Matches(Left, Shifted))
    BY <1>1, <1>4, <2>2 DEF Seen, Top, Matches
  <2>4. StartInv' /\ FetchInv' /\ EndInv'
    BY <1>1, <1>2, <1>3, <1>4, <2>2 DEF BusInv, SyncInv, StartInv, FetchInv, EndInv, First
  <2>5. SendInv'
    BY <1>0, <1>1, <1>2, <1>3, <1>4, <2>2, <2>3 DEF BusInv, SyncInv, SendInv, Listens
  <2>6. AnswerInv'
    BY <1>0, <1>2, <1>3, <1>4 DEF BusInv, SyncInv, AnswerInv, Selected
  <2>. QED
    BY <2>1, <2>4, <2>5, <2>6 DEF SyncInv
<1>. QED
  BY <1>5, <1>6, <1>7, <1>8, <1>9, <1>10, <1>11, <1>12, <1>13, <1>14 DEF BusInv

(* It holds when the board is switched on.                                 *)
LEMMA BusBegins ==
  ASSUME Prescale >= 2, MaxRestarts = 0, BusInit
  PROVE  BusInv
<1>1. /\ CoreInit /\ ChipInit /\ AccelInit
      /\ call = InitCall /\ dpc = 0 /\ todo = "init" /\ restarts = 0
  BY DEF BusInit, ChipInit
<1>2. /\ 0 \in Bits /\ 1 \in Bits /\ 0 \in Byte /\ ~(1 = 0) /\ 0 \in 0 .. 7 /\ 0 \in 0 .. 8 /\ 0 \in Nat
      /\ 0 \in 0 .. 5 /\ ~(0 > 0) /\ ~(0 < 0) /\ 0 \in 0 .. 65535
  BY ZeroOne, SMT
<1>3. call.op = "init" /\ call.arg = 0 /\ call.last = FALSE /\ call = Call(call.op, call.arg, call.last)
  BY <1>1 DEF InitCall, Call
<1>20. wb_ack = FALSE /\ ctr = FALSE /\ cr = {} /\ tip = FALSE /\ done = FALSE
  BY <1>1 DEF CoreInit
<1>21. byte_state = "idle" /\ core_cmd = "nop" /\ ld = FALSE /\ shift = FALSE
  BY <1>1 DEF CoreInit
<1>22. c_state = "idle" /\ core_ack = FALSE /\ clk_en = TRUE
  BY <1>1 DEF CoreInit
<1>23. sto_condition = FALSE /\ sta_condition = FALSE /\ i2c_al = FALSE /\ al = FALSE
  BY <1>1 DEF CoreInit
<1>4. CallInv
  <2>1. NextCall
    BY <1>1, <1>3 DEF NextCall
  <2>2. call.last \in BOOLEAN /\ ~call.last
    BY <1>3, Zenon
  <2>. QED
    BY <1>2, <1>3, <2>1, <2>2 DEF CallInv
<1>5. DriverInv
  <2>1. wb_ack \in BOOLEAN /\ ~wb_ack
    BY <1>20, Zenon
  <2>. QED
    BY <1>1, <1>2, <1>3, <2>1 DEF DriverInv
<1>6. PrescaleInv
  <2>1. Prescale \in Nat /\ 2 <= Prescale /\ Prescale <= 65535
    BY BusAssumption, SMT DEF Prescale
  <2>2. prer = 65535 /\ ctr = FALSE
    BY <1>1 DEF CoreInit
  <2>3. ~Enabled /\ ~HalfSet /\ ~Set
    BY <1>1, <1>2, <1>20 DEF Enabled, HalfSet, Set, Written
  <2>4. ctr \in BOOLEAN /\ ~ctr
    BY <1>20, Zenon
  <2>. QED
    BY <2>1, <2>2, <2>3, <2>4 DEF PrescaleInv
<1>7. CommandInv
  <2>1. tip \in BOOLEAN /\ ~tip /\ done \in BOOLEAN /\ ~done
    BY <1>20, Zenon
  <2>2. ~AtPoll /\ ~AtIssue
    BY <1>3 DEF AtPoll, AtIssue
  <2>3. Resting
    BY <1>20, <1>21, <2>1 DEF Resting, Cleared
  <2>. QED
    BY <1>21, <2>1, <2>2, <2>3 DEF CommandInv
<1>8. TransmitInv /\ RegisterTypes
  <2>1. TransmitInv
    BY <1>3 DEF TransmitInv
  <2>2. ld \in BOOLEAN /\ shift \in BOOLEAN
    BY <1>21, Zenon
  <2>3. busy = FALSE /\ irq_flag = FALSE
    BY <1>1 DEF CoreInit
  <2>4. busy \in BOOLEAN /\ irq_flag \in BOOLEAN
    BY <2>3, Zenon
  <2>5. txr = 0 /\ sr = 0 /\ dcnt = 0 /\ rxack = 0 /\ ack_out = 0 /\ core_rxd = 0 /\ core_txd = 0
    BY <1>1 DEF CoreInit
  <2>. QED
    BY <1>2, <2>1, <2>2, <2>4, <2>5 DEF RegisterTypes
<1>9. ByteInv /\ ShiftInv /\ StateInv /\ WriteInv
  <2>1. ~ld /\ ~shift /\ ~core_ack /\ core_ack \in BOOLEAN
    BY <1>21, <1>22, Zenon
  <2>. QED
    BY <1>21, <1>22, <2>1
      DEF ByteInv, ShiftInv, StateInv, WriteInv, Starts, Stops, Reads, Writings
<1>10. DividerInv
  <2>1. clk_en \in BOOLEAN /\ clk_en /\ ~ctr /\ ~core_ack
    BY <1>20, <1>22, Zenon
  <2>. QED
    BY <1>22, <2>1 DEF DividerInv
<1>11. RestInv
  BY <1>1, <1>2, <1>3 DEF RestInv, CoreInit, Low, Freed
<1>12. PhaseInv
  BY <1>1 DEF PhaseInv, CoreInit
<1>13. SamplesInv
  BY <1>1, <1>2 DEF SamplesInv, CoreInit, ChipInit
<1>14. ClockInv
  BY <1>1, <1>2 DEF ClockInv, CoreInit, Low, Rising
<1>15. DataInv
  BY <1>1, <1>2 DEF DataInv, CoreInit, Low, Rising, Setting
<1>16. NotLost
  <2>1. /\ sto_condition \in BOOLEAN /\ ~sto_condition
        /\ sta_condition \in BOOLEAN
    BY <1>23, Zenon
  <2>. QED
    BY <1>23, <2>1 DEF NotLost
<1>17. ChipInv
  <2>1. AccelTypeOK
    <3>1. OtherReg \in Byte
      BY SMT DEF OtherReg, Byte
    <3>. QED
      BY <1>1, <3>1, SamplesAssumption DEF AccelInit, AccelTypeOK, Selections
  <2>. QED
    BY <1>1, <1>2, <2>1 DEF ChipInv, ChipInit
<1>18. SyncInv
  BY <1>1 DEF SyncInv, BetweenInv, StartInv, SendInv, FetchInv, AnswerInv, EndInv, CoreInit, ChipInit
<1>. QED
  BY <1>4, <1>5, <1>6, <1>7, <1>8, <1>9, <1>10, <1>11, <1>12, <1>13, <1>14, <1>15, <1>16, <1>17, <1>18
    DEF BusInv

(* And so always.                                                          *)
LEMMA BusSafe ==
  ASSUME Prescale >= 2, MaxRestarts = 0
  PROVE  BusSpec => []BusInv
<1>1. BusInit => BusInv
  BY BusBegins
<1>2. BusInv /\ [BusNext]_vars => BusInv'
  BY BusKeeps, BusRests
<1>. QED
  BY <1>1, <1>2, PTL DEF BusSpec

(* The two synchronising registers, a stretched clock and an acknowledge   *)
(* never make the core believe that another master has the bus.            *)
THEOREM BusIsNeverLost ==
  ASSUME Prescale >= 2, MaxRestarts = 0
  PROVE  BusSpec => []BusNeverLost
<1>1. BusInv => BusNeverLost
  BY DEF BusInv, NotLost, BusNeverLost
<1>. QED
  BY <1>1, BusSafe, PTL

(* A last call leaves the bus free.                                        *)
LEMMA LastReleases ==
  ASSUME BusInv
  PROVE  LastReleasesBus
<1>1. /\ CallInv /\ DriverInv /\ CommandInv /\ ByteInv /\ StateInv /\ RestInv /\ ClockInv /\ DataInv
      /\ SamplesInv /\ SyncInv /\ ~(1 = 0)
  BY ZeroOne DEF BusInv
<1>2. SUFFICES ASSUME dpc = 0, call.last
               PROVE  /\ byte_state = "idle" /\ c_state = "idle" /\ ~done
                      /\ Scl = 1 /\ Sda = 1
                      /\ phase = "off"
  BY DEF LastReleasesBus
<1>3. ~AtPoll /\ ~AtIssue
  BY <1>1, <1>2, CallLength, SMT DEF AtPoll, AtIssue, Poll
<1>4. byte_state = "idle" /\ ~done
  BY <1>1, <1>3 DEF CommandInv, Resting
<1>5. c_state = "idle" /\ core_ack = FALSE
  <2>1. core_cmd = "nop"
    BY <1>1, <1>4 DEF ByteInv
  <2>. QED
    BY <1>1, <2>1 DEF StateInv, Starts, Stops, Reads, Writings
<1>6. Freed
  BY <1>2 DEF Freed
<1>7. ~Low /\ sda_oen = 1 /\ scl_oen = 1
  BY <1>1, <1>4, <1>5, <1>6 DEF RestInv, Low, Bits
<1>8. sSCL = 1 /\ sSDA = 1
  BY <1>1, <1>5, <1>7, IdleNotRising DEF ClockInv, DataInv
<1>9. csda = 1
  BY <1>1, <1>8 DEF SamplesInv
<1>10. Scl = 1 /\ Sda = 1
  BY <1>7, <1>8, <1>9, Lines
<1>11. phase = "off"
  BY <1>1, <1>4, <1>6 DEF SyncInv, BetweenInv
<1>. QED
  BY <1>4, <1>5, <1>10, <1>11

(* What the chip takes for a start or a stop condition is one.             *)
LEMMA Framed ==
  ASSUME BusInv
  PROVE  FramedAsAsked
<1>1. /\ CallInv /\ DriverInv /\ CommandInv /\ ByteInv /\ StateInv /\ RestInv /\ PhaseInv /\ ClockInv
      /\ DataInv /\ SamplesInv /\ SyncInv /\ ~(1 = 0)
  BY ZeroOne DEF BusInv
<1>2. core_ack \in BOOLEAN /\ sSCL \in Bits /\ sSDA \in Bits
  BY <1>1 DEF StateInv, SamplesInv
<1>3. pscl = sSCL /\ psda = sSDA
  BY <1>1 DEF SamplesInv
<1>4. SUFFICES ASSUME Scl = 1, sSCL = 1, Sda # sSDA
               PROVE  /\ sSDA = 1 /\ Sda = 0 => call.op = "start" /\ dpc > 0
                      /\ sSDA = 0 /\ Sda = 1 => call.last /\ dpc > 0
  BY <1>1, <1>3 DEF FramedAsAsked, StartSeen, StopSeen, Steady
<1>5. ~Low
  BY <1>1, <1>4, Lines DEF Low
<1>6. ASSUME sSDA = 1, sda_oen = 1
      PROVE  FALSE
  <2>1. csda = 1
    BY <1>1, <1>4, <1>6 DEF SamplesInv
  <2>. QED
    BY <1>4, <1>6, <2>1, Lines
<1>7. c_state \notin Rising \cup {"stop_d", "rd_d", "wr_d"}
  BY <1>1, <1>4 DEF DataInv
<1>8. c_state \notin {"stop_a", "rd_a", "wr_a", "stop_b", "rd_b", "wr_b"}
  BY <1>1, <1>5 DEF PhaseInv, Gives, Low
<1>9. c_state \notin {"start_a", "start_b"}
  BY <1>1, <1>5, <1>6 DEF PhaseInv, DataInv
<1>10. c_state # "start_e"
  <2>1. c_state = "start_e" => sSDA = 0 /\ Sda = 0
    BY <1>1, Lines DEF DataInv, PhaseInv, Gives
  <2>. QED
    BY <1>4, <2>1
<1>11. (dpc > 0 /\ dpc \in Nat) \/ byte_state = "idle"
  <2>1. byte_state # "idle" => AtPoll
    BY <1>1, WorksAtPoll
  <2>2. AtPoll => dpc > 0 /\ dpc \in Nat
    BY <1>1, CallLength, SMT DEF AtPoll, Poll
  <2>. QED
    BY <2>1, <2>2
<1>12. CASE c_state = "start_d"
  <2>1. core_cmd = "start" /\ Sda = 0
    BY <1>1, <1>12, Lines DEF StateInv, Starts, PhaseInv, Gives
  <2>2. byte_state = "start"
    BY <1>1, <2>1 DEF ByteInv, Works
  <2>3. call.op = "start" /\ dpc > 0
    BY <1>1, <1>11, <2>2 DEF ByteInv, Works
  <2>. QED
    BY <1>1, <2>1, <2>3
<1>13. CASE c_state = "idle"
  <2>1. sda_oen = 1
    BY <1>1, <1>5, <1>13 DEF RestInv
  <2>2. core_ack = TRUE
    BY <1>1, <1>2, <1>5, <1>6, <1>13, <2>1 DEF DataInv
  <2>3. byte_state # "idle" /\ byte_state \notin {"write", "read", "ack", "start"}
    BY <1>1, <1>5, <1>13, <2>2 DEF RestInv, StateInv, ByteInv
  <2>4. byte_state = "stop"
    BY <1>1, <2>3 DEF ByteInv
  <2>5. call.last /\ dpc > 0
    BY <1>1, <1>11, <2>4 DEF ByteInv
  <2>. QED
    BY <1>6, <2>1, <2>5
<1>. QED
  BY <1>1, <1>7, <1>8, <1>9, <1>10, <1>12, <1>13
    DEF StateInv, Starts, Stops, Reads, Writings, Rising

(* The chip sees a start or a stop condition in the calls that ask for     *)
(* one, and                                                                *)
(* only there; a call with the stop bit leaves core, chip and lines at     *)
(* rest.                                                                   *)
THEOREM LinesAreFramed ==
  ASSUME Prescale >= 2, MaxRestarts = 0
  PROVE  BusSpec => []LinesFramed
<1>1. BusInv => LinesFramed
  BY LastReleases, Framed DEF LinesFramed
<1>. QED
  BY <1>1, BusSafe, PTL

----------------------------------------------------------------------------
(* Each call is a step of I2cCalls.                                        *)

(* What the caller asks for, and that I2C_init leaves no trace.            *)
AskInv ==
  /\ call.op = "write" => call.arg \in Pointed \cup Values
  /\ call.op = "init" => answer = 0
  /\ call.op = "init" /\ dpc > 0 => before.call = InitCall /\ before.answer = 0

(* The chip's answer to a read, bit by bit.                                *)
SourceInv ==
  /\ phase \in {"send", "wait"} => sel = "read" /\ bits = ReadByte
  /\ phase = "send" => nbits \in 1 .. 8 /\ csda = Nth(bits, nbits)

(* A chip that is off is in no transaction, or has given its byte.         *)
OffInv ==
  phase = "off" => sel = "off" \/ (call.op = "read" /\ byte_state \in {"ack", "stop"})

(* SDA is sampled while the clock is high.                                 *)
SampledInv ==
  /\ Low /\ core_ack => dSCL = 1
  /\ core_cmd = "read" =>
       (c_state = "rd_d" \/ core_ack \/ (c_state = "rd_c" /\ dSCL = 1) => core_rxd = csda)

(* The byte of the call is still to come, or it has come.                  *)
Before ==
  \/ byte_state \in {"start", "write", "read"}
  \/ byte_state = "idle" /\ (call.op = "init" \/ dpc <= Issue)
After ==
  \/ byte_state \in {"ack", "stop"}
  \/ byte_state = "idle" /\ call.op # "init" /\ dpc >= Poll
Stopped == call.last /\ byte_state = "idle"

(* The chip is as it was when the call began, or as the call leaves it.    *)
Was == ofs = before.ofs /\ ptr = before.ptr /\ sel = before.sel

StartDone ==
  /\ ofs = before.ofs /\ ptr = before.ptr
  /\ sel \in {"off", IF call.arg = 1 THEN "read" ELSE "pointer"}

WriteDone ==
  /\ ptr = CASE before.sel = "pointer" -> call.arg
             [] before.sel = "data" -> NextReg(before.ptr)
             [] OTHER -> before.ptr
  /\ ofs = IF before.sel = "data" /\ before.ptr \in OffsetRegs
           THEN [before.ofs EXCEPT ![before.ptr - OFSX] = call.arg] ELSE before.ofs
  /\ sel = IF Stopped \/ before.sel = "off" THEN "off" ELSE "data"

ReadDone ==
  /\ phase \in {"off", "wait"}
  /\ ptr = IF phase = "off" /\ before.sel = "read" THEN NextReg(before.ptr) ELSE before.ptr
  /\ ofs = before.ofs
  /\ sel = IF Stopped THEN "off" ELSE before.sel

Effect ==
  /\ call.op = "start" => StartDone
  /\ call.op = "write" => WriteDone
  /\ call.op = "read" => ReadDone

EffectInv == dpc > 0 => (Before => Was) /\ (After => Effect)

(* Whether the chip heard the byte, which is what I2C_ACK means.           *)
Heard == IF call.op = "start" THEN sel # "off" ELSE before.sel # "off"

HeardInv ==
  /\ byte_state = "ack" /\ core_cmd = "read" => (csda = 0 <=> phase # "off")
  /\ dpc > 0 /\ After /\ byte_state # "ack" /\ call.op # "read" => (ack_out = 0 <=> Heard)
  /\ byte_state = "idle" /\ ~done => rxack = ack_out

(* The byte read comes in bit by bit.                                      *)
ByteAsked == Promised!ReadByte

(* Of the byte v all but q + 1 bits are in the register s.                 *)
Received(q, s, v) == s % Weight[q + 1] = v \div (2 * Weight[8 - q])

ReceiveInv ==
  /\ byte_state = "read" => Received(Left, Shifted, ReadByte)
  /\ dpc > 0 /\ After /\ call.op = "read" => Shifted = ByteAsked

(* The last access of a call takes the result.                             *)
ReplyInv ==
  call.op # "init" /\ dpc = Issue + 2 /\ wb_ack =>
    IF call.op = "read" THEN wb_dat = sr ELSE wb_dat \div 128 = ack_out

CallsInv ==
  /\ AskInv /\ SourceInv /\ OffInv /\ SampledInv /\ EffectInv /\ HeardInv
  /\ ReceiveInv /\ ReplyInv

(* Within a bit the chip begins, takes a bit, or hears that it is done.    *)
LEMMA WorkEvents ==
  ASSUME BusInv, NEW acc, Clock(acc), WorkTurn
  PROVE  \/ ChipHolds
         \/ Begin /\ byte_state = "start"
         \/ TakeBit(Sda)
         \/ TakeAck(Sda) /\ byte_state = "ack" /\ core_cmd = "write" /\ phase' = "off"
<1>1. CallInv /\ SyncInv /\ ByteInv /\ StateInv
  BY DEF BusInv
<1>2. CASE Low
  BY <1>2, WorkBit
<1>3. CASE c_state \in Rising /\ TakeAck(Sda)
  <2>1. phase = "wait" /\ phase # "off" /\ phase \notin {"address", "receive", "ack", "send"}
    BY <1>3 DEF TakeAck
  <2>2. byte_state = "ack" /\ core_cmd = "write"
    <3>1. byte_state \notin {"start", "write", "read", "stop", "idle"}
      BY <1>1, <1>3, <2>1 DEF SyncInv, StartInv, SendInv, FetchInv, EndInv, WorkTurn
    <3>2. byte_state = "ack" /\ core_cmd \in {"read", "write"}
      BY <1>1, <3>1 DEF ByteInv, Works
    <3>. QED
      BY <1>1, <2>1, <3>2 DEF SyncInv, AnswerInv
  <2>3. byte_state' = "ack" /\ core_cmd' = "write"
    BY <2>2 DEF WorkTurn
  <2>4. phase' \in {"off", "wait"}
    BY <2>3, AnswerGivenKeeps
  <2>5. phase' # "wait"
    BY <1>3 DEF TakeAck
  <2>. QED
    BY <1>3, <2>2, <2>4, <2>5
<1>4. CASE c_state \in Rising /\ ~TakeAck(Sda)
  BY <1>4, WorkBit
<1>5. CASE c_state = "start_d"
  <2>1. core_cmd = "start"
    BY <1>1, <1>5 DEF StateInv, Starts
  <2>2. byte_state = "start"
    BY <1>1, <2>1 DEF ByteInv, Works
  <2>. QED
    BY <1>5, <2>2, WorkBit
<1>6. CASE ~Low /\ c_state \notin Rising \cup {"start_d"}
  BY <1>6, WorkBit
<1>. QED
  BY <1>2, <1>3, <1>4, <1>5, <1>6

(* The last bit of a byte written.                                         *)
LEMMA ByteHeard ==
  ASSUME BusInv, NEW acc, Clock(acc), AckTurn, byte_state = "write", dcnt = 0
  PROVE  \/ phase = "off" /\ ChipHolds
         \/ /\ call.op = "start" /\ phase = "address" /\ TakeAddress
            /\ bits = 2 * I2C_add + call.arg
         \/ call.op = "write" /\ phase = "receive" /\ TakeByte /\ bits = call.arg /\ Listens
<1>1. /\ CallInv /\ SyncInv /\ ByteInv /\ RestInv /\ RegisterTypes /\ TransmitInv
      /\ core_ack /\ c_state = "idle" /\ byte_state # "idle"
  BY DEF BusInv, AckTurn, Still
<1>2. Low
  BY <1>1 DEF RestInv
<1>3. call.op \in {"start", "write"}
  BY <1>1 DEF ByteInv, Works
<1>4. phase # "off" =>
        /\ phase = (IF call.op = "start" THEN "address" ELSE "receive")
        /\ nbits = 8 /\ bits = txr
        /\ call.op = "write" => Listens
  <2>1. Left = 0 /\ Left \in 0 .. 7 /\ Rose
    BY <1>1, Shifting DEF Rose
  <2>2. Seen = 8
    BY <2>1, SeenBits, SMT
  <2>3. Top(8) = txr
    BY <1>1, TopLoaded DEF RegisterTypes
  <2>. QED
    BY <1>1, <2>2, <2>3 DEF SyncInv, SendInv
<1>5. txr = IF call.op = "start" THEN 2 * I2C_add + call.arg ELSE call.arg
  <2>1. dpc = Poll
    BY <1>1, WorksAtPoll DEF AtPoll
  <2>2. Written(1)
    BY <1>3, <2>1, SMT DEF Written, Poll, Issue
  <2>. QED
    BY <1>1, <1>3, <2>2 DEF TransmitInv
<1>6. CASE phase = "off"
  BY <1>2, <1>6, AckFalls DEF TakeAddress, TakeByte, NextByte, SendBit
<1>7. CASE phase # "off" /\ call.op = "start"
  <2>1. phase = "address" /\ nbits = 8 /\ bits = txr
    BY <1>4, <1>7
  <2>2. TakeAddress
    BY <1>2, <2>1, AckFalls DEF TakeByte, NextByte, SendBit
  <2>. QED
    BY <1>5, <1>7, <2>1, <2>2
<1>8. CASE phase # "off" /\ call.op = "write"
  <2>1. phase = "receive" /\ nbits = 8 /\ bits = txr /\ Listens
    BY <1>4, <1>8
  <2>2. TakeByte
    BY <1>2, <2>1, AckFalls DEF TakeAddress, NextByte, SendBit
  <2>. QED
    BY <1>5, <1>8, <2>1, <2>2
<1>. QED
  BY <1>3, <1>6, <1>7, <1>8

(* What the chip does when a bit is done.                                  *)
LEMMA AckEvents ==
  ASSUME BusInv, NEW acc, Clock(acc), AckTurn
  PROVE  /\ byte_state = "start" => ChipHolds
         /\ byte_state = "write" /\ dcnt # 0 => ChipHolds
         /\ byte_state = "read" =>
              (phase = "off" /\ ChipHolds) \/ (phase = "send" /\ nbits = 8 - dcnt /\ SendBit)
         /\ byte_state = "ack" /\ core_cmd = "read" =>
              (phase = "off" /\ ChipHolds) \/ (phase = "ack" /\ NextByte)
         /\ byte_state = "ack" /\ core_cmd = "write" => phase = "off" /\ ChipHolds
         /\ byte_state = "stop" => End
<1>1. /\ CallInv /\ SyncInv /\ ByteInv /\ RestInv /\ RegisterTypes /\ StateInv /\ DataInv /\ ChipInv
      /\ SamplesInv /\ core_ack /\ core_ack = TRUE /\ c_state = "idle" /\ byte_state # "idle"
      /\ ~(1 = 0)
  BY ZeroOne DEF BusInv, AckTurn, Still
<1>2. Left = dcnt /\ Left \in 0 .. 7 /\ Rose
  BY <1>1, Shifting DEF Rose
<1>3. CASE byte_state = "start"
  <2>1. Low /\ phase = "address" /\ nbits = 0 /\ ~(0 = 8)
    BY <1>1, <1>3, SMT DEF RestInv, SyncInv, StartInv
  <2>. QED
    BY <1>3, <2>1, AckFalls DEF TakeAddress, TakeByte, NextByte, SendBit
<1>4. CASE byte_state = "write" /\ dcnt # 0
  <2>1. Low
    BY <1>1, <1>4 DEF RestInv
  <2>2. Seen # 8
    <3>1. Seen = 8 - Left
      BY <1>2, SeenBits
    <3>. QED
      BY <1>2, <1>4, <3>1, SMT
  <2>3. phase # "off" => phase \in {"address", "receive"} /\ nbits # 8
    BY <1>1, <1>4, <2>2 DEF SyncInv, SendInv
  <2>. QED
    BY <1>4, <2>1, <2>3, AckFalls DEF TakeAddress, TakeByte, NextByte, SendBit
<1>5. CASE byte_state = "read"
  <2>1. Low
    BY <1>1, <1>5 DEF RestInv
  <2>2. phase = "off" \/ (phase = "send" /\ nbits = 8 - dcnt)
    BY <1>1, <1>2, <1>5 DEF SyncInv, FetchInv
  <2>. QED
    BY <1>5, <2>1, <2>2, AckFalls DEF TakeAddress, TakeByte, NextByte, SendBit
<1>6. CASE byte_state = "ack" /\ core_cmd = "read"
  <2>1. Low
    BY <1>1, <1>6 DEF RestInv
  <2>2. phase = "off" \/ phase = "ack"
    BY <1>1, <1>6 DEF SyncInv, AnswerInv
  <2>. QED
    BY <1>6, <2>1, <2>2, AckFalls DEF TakeAddress, TakeByte, NextByte, SendBit
<1>7. CASE byte_state = "ack" /\ core_cmd = "write"
  <2>1. Low
    BY <1>1, <1>7 DEF RestInv
  <2>2. phase = "off"
    BY <1>1, <1>7 DEF SyncInv, AnswerInv
  <2>. QED
    BY <1>7, <2>1, <2>2, AckFalls DEF TakeAddress, TakeByte, NextByte, SendBit
<1>8. CASE byte_state = "stop"
  <2>1. core_cmd = "stop" /\ scl_oen = 1 /\ sda_oen = 1 /\ ~Low
    BY <1>1, <1>8 DEF ByteInv, Works, RestInv, Gives, Low
  <2>2. sSDA = 0
    BY <1>1, <2>1 DEF DataInv
  <2>3. csda = 1
    BY <1>1, <1>8 DEF SyncInv, EndInv, ChipInv, Bits
  <2>4. Sda = 1
    BY <2>1, <2>3 DEF Sda
  <2>5. sSCL = 1 /\ Scl = 1
    BY <1>1, <2>1, IdleNotRising, LinesSeen
  <2>6. ChipClock(Scl, Sda)
    BY DEF Clock, Board
  <2>. QED
    BY <1>8, <2>2, <2>4, <2>5, <2>6, ChipMoves
<1>. QED
  BY <1>3, <1>4, <1>5, <1>6, <1>7, <1>8

(* The chip sends the byte at its pointer, and keeps its sample.           *)
LEMMA SourceKeeps ==
  ASSUME BusInv, SourceInv, NEW acc, Clock(acc)
  PROVE  SourceInv' /\ sample' = sample
<1>1. ChipInv /\ ChipClock(Scl, Sda) /\ Sda \in Bits
  BY Lines DEF BusInv, Clock, Board
<1>2. Begin \/ End \/ TakeBit(Sda) \/ TakeAck(Sda) \/ TakeAddress \/ TakeByte
            \/ NextByte \/ SendBit \/ ChipHolds
  BY <1>1 DEF ChipClock, Indifferent, ChipHolds
<1>3. ASSUME UNCHANGED accelVars
      PROVE  ReadByte' = ReadByte /\ sample' = sample /\ sel' = sel
  BY <1>3 DEF ReadByte, accelVars
<1>4. CASE Begin
  BY <1>3, <1>4 DEF Begin, SourceInv
<1>5. CASE End
  BY <1>5 DEF End, SourceInv
<1>6. CASE TakeBit(Sda)
  <2>1. phase' \in {"address", "receive"} /\ phase' \notin {"send", "wait"} /\ phase' # "send"
    BY <1>6 DEF TakeBit
  <2>. QED
    BY <1>3, <1>6, <2>1 DEF TakeBit, SourceInv
<1>7. CASE TakeAck(Sda)
  BY <1>7 DEF TakeAck, SourceInv
<1>8. CASE TakeAddress
  BY <1>8 DEF TakeAddress, I2C_start, SourceInv
<1>9. CASE TakeByte
  BY <1>9 DEF TakeByte, I2C_write, SourceInv
<1>10. CASE NextByte /\ sel = "read"
  <2>1. 1 \in 1 .. 8
    BY SMT
  <2>. QED
    BY <1>3, <1>10, <2>1 DEF NextByte, SourceInv
<1>11. CASE NextByte /\ sel # "read"
  BY <1>3, <1>11 DEF NextByte, SourceInv
<1>12. CASE SendBit /\ nbits = 8
  BY <1>3, <1>12 DEF SendBit, SourceInv
<1>13. CASE SendBit /\ nbits # 8
  <2>1. nbits \in 1 .. 8 /\ sel = "read" /\ bits = ReadByte
    BY <1>13 DEF SendBit, SourceInv
  <2>2. nbits + 1 \in 1 .. 8
    BY <1>13, <2>1, SMT
  <2>. QED
    BY <1>3, <1>13, <2>1, <2>2 DEF SendBit, SourceInv
<1>14. CASE ChipHolds
  BY <1>3, <1>14 DEF ChipHolds, SourceInv
<1>. QED
  BY <1>2, <1>4, <1>5, <1>6, <1>7, <1>8, <1>9, <1>10, <1>11, <1>12, <1>13, <1>14

(* Only the end of a byte, and a stop condition, change what the chip is   *)
(* about.                                                                  *)
LEMMA Quiet ==
  ASSUME BusInv, NEW acc, Clock(acc)
  PROVE  /\ IdleTurn => ChipHolds
         /\ byte_state \in {"start", "read"} => UNCHANGED accelVars
         /\ byte_state = "write" /\ ~(AckTurn /\ dcnt = 0) => UNCHANGED accelVars
         /\ byte_state = "ack" /\ core_cmd = "read" => UNCHANGED accelVars
         /\ byte_state = "stop" /\ ~AckTurn => UNCHANGED accelVars
<1>1. IdleTurn \/ AckTurn \/ WorkTurn
  BY Turns
<1>2. ASSUME ChipHolds \/ Begin \/ TakeBit(Sda) \/ SendBit \/ NextByte
      PROVE  UNCHANGED accelVars
  BY <1>2 DEF ChipHolds, Begin, TakeBit, SendBit, NextByte
<1>3. CASE IdleTurn
  <2>1. byte_state = "idle"
    BY <1>3 DEF IdleTurn
  <2>. QED
    BY <1>2, <1>3, <2>1, IdleHolds
<1>4. CASE WorkTurn
  <2>1. ~IdleTurn
    BY <1>4 DEF WorkTurn, IdleTurn
  <2>. QED
    BY <1>2, <1>4, <2>1, WorkEvents
<1>5. CASE AckTurn
  <2>1. ~IdleTurn
    BY <1>5 DEF AckTurn, IdleTurn
  <2>. QED
    BY <1>2, <1>5, <2>1, AckEvents
<1>. QED
  BY <1>1, <1>3, <1>4, <1>5

(* The driver stays at its poll while a byte is at work, and what the      *)
(* call found is kept.                                                     *)
LEMMA WorkStays ==
  ASSUME BusInv, NEW acc, Clock(acc), byte_state # "idle" \/ Begins
  PROVE  /\ call' = call /\ before' = before
         /\ dpc' > 0 /\ dpc > 0
         /\ call.op # "init"
         /\ byte_state # "idle" => dpc' = dpc
<1>1. CallInv /\ DriverInv /\ CommandInv /\ Drives(acc) /\ Acknowledge(acc)
  BY DEF BusInv, Clock, Board, CoreClock
<1>2. call' = call
  BY TransmitStays
<1>3. dpc # 0 /\ 0 < dpc /\ call.op # "init"
  <2>1. CASE byte_state # "idle"
    <3>1. dpc >= Poll /\ call.op \in {"start", "write", "read"}
      BY <2>1, WorksAtPoll
    <3>2. Issue \in 1 .. 2
      BY <1>1, <3>1, CallLength
    <3>3. dpc \in Nat
      BY <1>1, SMT DEF DriverInv, Issue
    <3>. QED
      BY <3>1, <3>2, <3>3, SMT DEF Poll
  <2>2. CASE Begins
    BY <1>1, <2>2, BeginsAtIssue DEF AtIssue
  <2>. QED
    BY <2>1, <2>2
<1>4. ~Invoke
  BY <1>3 DEF Invoke
<1>5. before' = before
  BY <1>1, <1>4 DEF Drives, Begun, Ended
<1>6. byte_state # "idle" => dpc' = dpc
  <2>1. byte_state # "idle" => AtPoll /\ (wb_ack => TipRead)
    BY <1>1 DEF CommandInv, Resting
  <2>2. AtPoll /\ wb_ack /\ TipRead => Polling
    BY <1>1, CallLength
  <2>3. Begun \/ Ended \/ UNCHANGED driverVars
    BY <1>1, <1>4 DEF Drives
  <2>4. CASE Begun \/ UNCHANGED driverVars
    BY <2>4 DEF Begun, driverVars
  <2>5. CASE Ended
    <3>1. byte_state # "idle" => Polling /\ TipRead
      BY <2>1, <2>2, <2>5 DEF Ended
    <3>2. byte_state # "idle" => dpc # Length(call)
      <4>1. byte_state # "idle" => dpc = Issue + 1 /\ Issue \in 1 .. 2
        BY <1>1, <1>3, <2>1, CallLength DEF AtPoll, Poll
      <4>2. Issue \in 1 .. 2 => Issue + 1 # Issue + 2
        BY SMT
      <4>. QED
        BY <1>1, <1>3, <4>1, <4>2, CallLength
    <3>. QED
      BY <2>5, <3>1, <3>2 DEF Ended
  <2>. QED
    BY <2>3, <2>4, <2>5
<1>7. Begins => dpc' > 0
  <2>1. ASSUME Begins PROVE dpc' = dpc \/ dpc' = dpc + 1
    <3>1. AtIssue /\ ~(dpc = Length(call)) /\ ~Polling
      <4>1. AtIssue /\ dpc = Issue /\ call.op # "init" /\ Issue \in 1 .. 2
        BY <1>1, <2>1, BeginsAtIssue, CallLength DEF AtIssue
      <4>2. Issue # Issue + 2 /\ Issue # Issue + 1
        BY <4>1, SMT
      <4>. QED
        BY <1>1, <4>1, <4>2, CallLength DEF AtPoll, Poll
    <3>. QED
      BY <1>1, <1>4, <3>1 DEF Drives, Begun, Ended, driverVars
  <2>2. dpc \in Nat
    BY <1>1, SMT DEF DriverInv, Issue
  <2>. QED
    BY <1>3, <2>1, <2>2, SMT
<1>. QED
  BY <1>2, <1>3, <1>5, <1>6, <1>7, SMT

(* Where the byte controller goes when a bit is done.                      *)
LEMMA ByteGoes ==
  ASSUME BusInv, NEW acc, Clock(acc)
  PROVE  /\ IdleTurn /\ ~Begins => ByteHolds /\ byte_state' = "idle"
         /\ Begins => byte_state' \in {"start", "write", "read"} /\ ack_out' = ack_out
         /\ WorkTurn => byte_state' = byte_state /\ core_cmd' = core_cmd /\ ack_out' = ack_out
                        /\ done' = FALSE
         /\ AckTurn /\ byte_state = "start" => byte_state' = "write" /\ ack_out' = ack_out
         /\ AckTurn /\ byte_state = "write" =>
              /\ dcnt = 0 => byte_state' = "ack" /\ core_cmd' = "read"
              /\ dcnt # 0 => byte_state' = "write"
              /\ ack_out' = ack_out
         /\ AckTurn /\ byte_state = "read" =>
              /\ dcnt = 0 => byte_state' = "ack" /\ core_cmd' = "write" /\ ld' = FALSE /\ shift' = TRUE
              /\ dcnt # 0 => byte_state' = "read" /\ core_cmd' = "read" /\ ld' = FALSE /\ shift' = TRUE
              /\ ack_out' = ack_out
         /\ AckTurn /\ byte_state = "ack" =>
              /\ call.last => byte_state' = "stop" /\ done' = FALSE
              /\ ~call.last => byte_state' = "idle" /\ done' = TRUE
              /\ ld' = FALSE /\ shift' = FALSE /\ ack_out' = core_rxd
         /\ AckTurn /\ byte_state = "stop" =>
              /\ byte_state' = "idle" /\ done' = TRUE
              /\ ld' = FALSE /\ shift' = FALSE /\ ack_out' = ack_out
<1>1. CallInv /\ CommandInv /\ ByteInv /\ ByteStep /\ i2c_al = FALSE
  BY DEF BusInv, Clock, Board, CoreClock, NotLost
<1>2. AckTurn => core_ack
  BY DEF AckTurn
<1>3. WorkTurn => ByteHolds
  BY DEF WorkTurn
<1>4. IdleTurn => byte_state = "idle"
  BY DEF IdleTurn
<1>5. Begins => call.op \in {"start", "write", "read"}
  BY <1>1 DEF Begins, Commanded, CallInv
<1>6. call.last \in BOOLEAN
  BY <1>1 DEF CallInv
<1>7. ByteHolds => byte_state' = byte_state /\ core_cmd' = core_cmd /\ ack_out' = ack_out
                   /\ done' = FALSE
  BY DEF ByteHolds
<1>8. IdleTurn /\ ~Begins => ByteHolds
  BY <1>1, <1>4, ByteMoves
<1>9. Begins => byte_state' \in {"start", "write", "read"} /\ ack_out' = ack_out
  BY <1>1, <1>5, ByteMoves DEF Goes
<1>10. CASE AckTurn
  <2>1. /\ byte_state \in {"start", "write", "read", "ack", "stop"} /\ ~IdleTurn /\ ~Begins /\ ~WorkTurn
        /\ core_ack
    BY <1>1, <1>10 DEF ByteInv, AckTurn, IdleTurn, Begins, WorkTurn
  <2>2. CASE byte_state = "start"
    BY <1>1, <2>1, <2>2, ByteMoves DEF Goes
  <2>3. CASE byte_state = "write"
    BY <1>1, <2>1, <2>3, ByteMoves DEF Goes
  <2>4. CASE byte_state = "read"
    BY <1>1, <2>1, <2>4, ByteMoves DEF Goes
  <2>5. CASE byte_state = "ack"
    BY <1>1, <1>6, <2>1, <2>5, ByteMoves DEF Goes
  <2>6. CASE byte_state = "stop"
    BY <1>1, <2>1, <2>6, ByteMoves DEF Goes
  <2>. QED
    BY <2>1, <2>2, <2>3, <2>4, <2>5, <2>6
<1>. QED
  BY <1>3, <1>4, <1>7, <1>8, <1>9, <1>10

(* A call that is made, and what goes with it.                             *)
LEMMA AskKeeps ==
  ASSUME BusInv, AskInv, NEW acc, Clock(acc)
  PROVE  AskInv'
<1>1. CallInv /\ DriverInv /\ Drives(acc)
  BY DEF BusInv, Clock
<1>2. CASE Invoke
  <2>1. PICK c \in Calls : call' = c[1] /\ todo' = c[2]
    BY <1>2 DEF Invoke
  <2>2. call'.op = "write" => call'.arg \in Pointed \cup Values
    <3>1. CASE todo = "init"
      <4>1. c = << InitCall, "open" >>
        BY <2>1, <3>1 DEF Calls
      <4>2. call' = Call("init", 0, FALSE)
        BY <2>1, <4>1, Pair DEF InitCall
      <4>. QED
        BY <4>2 DEF Call
    <3>2. CASE todo = "open"
      <4>1. c = << Call("start", 0, FALSE), "point" >>
        BY <2>1, <3>2 DEF Calls
      <4>2. call' = Call("start", 0, FALSE)
        BY <2>1, <4>1, Pair
      <4>. QED
        BY <4>2 DEF Call
    <3>3. CASE todo = "point"
      <4>1. PICK r \in Pointed : c = << Call("write", r, FALSE), "go on" >>
        BY <2>1, <3>3 DEF Calls
      <4>2. call' = Call("write", r, FALSE)
        BY <2>1, <4>1, Pair
      <4>. QED
        BY <4>2 DEF Call
    <3>4. CASE todo = "go on"
      <4>1. \/ \E v \in Values : c = << Call("write", v, TRUE), "open" >>
            \/ c = << Call("start", 1, FALSE), "fetch" >>
        BY <2>1, <3>4 DEF Calls
      <4>2. ASSUME NEW v \in Values, c = << Call("write", v, TRUE), "open" >>
            PROVE  call'.arg \in Values
        <5>1. call' = Call("write", v, TRUE)
          BY <2>1, <4>2, Pair
        <5>. QED
          BY <5>1 DEF Call
      <4>3. ASSUME c = << Call("start", 1, FALSE), "fetch" >>
            PROVE  call'.op # "write"
        <5>1. call' = Call("start", 1, FALSE)
          BY <2>1, <4>3, Pair
        <5>. QED
          BY <5>1 DEF Call
      <4>. QED
        BY <4>1, <4>2, <4>3
    <3>5. CASE todo = "fetch"
      <4>1. c = << Call("read", 0, TRUE), "open" >>
        BY <2>1, <3>5 DEF Calls
      <4>2. call' = Call("read", 0, TRUE)
        BY <2>1, <4>1, Pair
      <4>. QED
        BY <4>2 DEF Call
    <3>6. todo \in {"init", "open", "point", "go on", "fetch"}
      <4>1. call.op \in {"init", "start", "write", "read"} /\ NextCall
        BY <1>1 DEF CallInv
      <4>. QED
        BY <4>1 DEF NextCall
    <3>. QED
      BY <3>1, <3>2, <3>3, <3>4, <3>5, <3>6
  <2>3. call'.op = "init" => call.op = "init"
    BY <1>1, <1>2, InvokeMoves DEF Invokes, DriverInv
  <2>4. answer' = answer /\ before' = Now
    BY <1>2 DEF Invoke
  <2>5. call.op = "init" => call = InitCall
    BY <1>1 DEF CallInv, InitCall
  <2>6. before'.call = call /\ before'.answer = answer
    BY <2>4 DEF Now
  <2>. QED
    BY <2>2, <2>3, <2>4, <2>5, <2>6 DEF AskInv
<1>3. CASE Ended
  <2>1. call' = call /\ before' = before /\ answer' = (IF dpc' = 0 THEN Result ELSE answer) /\ dpc > 0
    BY <1>3 DEF Ended
  <2>2. call.op = "init" => Result = 0
    BY DEF Result
  <2>. QED
    BY <2>1, <2>2 DEF AskInv
<1>4. CASE UNCHANGED << driverVars, before >>
  BY <1>4 DEF driverVars, AskInv
<1>. QED
  BY <1>1, <1>2, <1>3, <1>4 DEF Drives, Begun

(* A chip that is off is in no transaction.                                *)
LEMMA OffKeeps ==
  ASSUME BusInv, OffInv, NEW acc, Clock(acc)
  PROVE  OffInv'
<1>1. IdleTurn \/ AckTurn \/ WorkTurn
  BY Turns
<1>2. CallInv /\ ByteInv /\ SyncInv
  BY DEF BusInv
<1>3. ASSUME ChipHolds, ~(byte_state = "stop" /\ AckTurn)
      PROVE  OffInv'
  <2>1. phase' = phase /\ sel' = sel
    BY <1>3 DEF ChipHolds, accelVars
  <2>2. byte_state \in {"ack", "stop"} /\ call.op = "read" =>
          call'.op = "read" /\ byte_state' \in {"ack", "stop"}
    <3>1. byte_state # "idle" => call' = call
      BY Turns
    <3>2. CASE byte_state = "ack" /\ call.op = "read" /\ AckTurn
      <4>1. call.last
        BY <1>2, <3>2 DEF CallInv
      <4>2. byte_state' = "stop"
        BY <1>2, <3>2, <4>1, ByteGoes
      <4>. QED
        BY <3>1, <3>2, <4>2
    <3>3. CASE WorkTurn
      BY <3>1, <3>3 DEF WorkTurn
    <3>4. CASE IdleTurn
      BY <3>4 DEF IdleTurn
    <3>. QED
      BY <1>1, <1>3, <3>1, <3>2, <3>3, <3>4
  <2>. QED
    BY <2>1, <2>2 DEF OffInv
<1>4. CASE IdleTurn
  <2>1. ~AckTurn
    BY <1>4 DEF IdleTurn, AckTurn
  <2>. QED
    BY <1>3, <1>4, <2>1, IdleHolds
<1>5. CASE WorkTurn
  <2>1. ~AckTurn
    BY <1>5 DEF WorkTurn, AckTurn
  <2>2. CASE Begin \/ TakeBit(Sda)
    <3>1. phase' # "off"
      BY <2>2 DEF Begin, TakeBit
    <3>. QED
      BY <3>1 DEF OffInv
  <2>3. CASE byte_state = "ack" /\ core_cmd = "write"
    <3>1. call'.op = "read" /\ byte_state' = "ack"
      <4>1. call.op = "read"
        BY <1>2, <2>3 DEF ByteInv, Works
      <4>2. call' = call /\ byte_state' = byte_state
        BY <1>5, <2>3, Turns DEF WorkTurn
      <4>. QED
        BY <2>3, <4>1, <4>2
    <3>. QED
      BY <3>1 DEF OffInv
  <2>. QED
    BY <1>3, <1>5, <2>1, <2>2, <2>3, WorkEvents
<1>6. CASE AckTurn
  <2>1. byte_state \in {"start", "write", "read", "ack", "stop"}
    BY <1>2, <1>6 DEF AckTurn, ByteInv
  <2>2. CASE SendBit \/ NextByte \/ TakeByte
    <3>1. phase' # "off"
      BY <2>2 DEF SendBit, NextByte, TakeByte
    <3>. QED
      BY <3>1 DEF OffInv
  <2>3. CASE TakeAddress
    <3>1. phase' = "off" => sel' = "off"
      BY <2>3 DEF TakeAddress, I2C_start
    <3>. QED
      BY <3>1 DEF OffInv
  <2>4. CASE End
    BY <2>4 DEF End, OffInv
  <2>5. \/ ChipHolds /\ byte_state # "stop"
        \/ SendBit \/ NextByte \/ TakeByte \/ TakeAddress \/ End
    <3>1. byte_state = "ack" => core_cmd \in {"read", "write"}
      BY <1>2 DEF ByteInv, Works
    <3>. QED
      BY <1>6, <2>1, <3>1, AckEvents, ByteHeard
  <2>. QED
    BY <1>3, <2>2, <2>3, <2>4, <2>5
<1>. QED
  BY <1>1, <1>4, <1>5, <1>6

(* Where the core's sample of SDA is taken, it is the chip's level.        *)
LEMMA SampleTaken ==
  ASSUME BusInv, SampledInv, NEW acc, Clock(acc), WorkTurn, core_cmd = "read"
  PROVE  c_state' = "rd_d" \/ core_ack' \/ (c_state' = "rd_c" /\ dSCL' = 1) => core_rxd' = csda'
<1>1. /\ StateInv /\ PhaseInv /\ ClockInv /\ DataInv /\ SamplesInv /\ ChipInv /\ core_ack = FALSE
      /\ core_rxd' = IF sSCL = 1 /\ dSCL = 0 THEN sSDA ELSE core_rxd
  BY DEF BusInv, WorkTurn, Clock, Board, CoreClock, DataOut
<1>2. c_state \in {"idle", "rd_a", "rd_b", "rd_c", "rd_d"}
  BY <1>1 DEF StateInv, Starts, Stops, Reads, Writings
<1>3. c_state = "rd_d" \/ (c_state = "rd_c" /\ dSCL = 1) => core_rxd = csda
  BY DEF SampledInv
<1>4. c_state \in {"rd_b", "rd_c", "rd_d"} => csda' = csda
  BY SdaStays DEF Setting, Rising
<1>5. CASE c_state \in {"idle", "rd_a"}
  <2>1. c_state' \in {"idle", "rd_a", "rd_b"} /\ core_ack' = FALSE
    BY <1>5, WaveSteps DEF Reads, Stands, GoesOn
  <2>. QED
    BY <2>1
<1>6. CASE c_state = "rd_b"
  <2>1. c_state' \in {"rd_b", "rd_c"} /\ core_ack' = FALSE
    BY <1>6, WaveSteps DEF Reads, Stands, GoesOn
  <2>2. dSCL' = 0
    BY <1>1, <1>6, LinesSeen DEF PhaseInv, Gives, Low
  <2>. QED
    BY <2>1, <2>2
<1>7. CASE c_state = "rd_c"
  <2>1. c_state' \in {"rd_c", "rd_d"} /\ core_ack' = FALSE /\ (c_state' = "rd_d" => clk_en = TRUE)
    BY <1>7, WaveSteps DEF Reads, Stands, GoesOn
  <2>2. clk_en = TRUE => dSCL = 1
    BY <1>1, <1>7 DEF ClockInv, Rising
  <2>3. dSCL' = sSCL
    BY LinesSeen
  <2>4. sSDA = csda
    <3>1. sda_oen = 1 /\ sSDA = Sda /\ csda \in Bits
      BY <1>1, <1>7 DEF PhaseInv, Gives, DataInv, Rising, ChipInv
    <3>. QED
      BY <3>1 DEF Sda, Bits
  <2>5. dSCL \in Bits
    BY <1>1 DEF SamplesInv
  <2>. QED
    BY <1>1, <1>3, <1>4, <1>7, <2>1, <2>2, <2>3, <2>4, <2>5 DEF Bits
<1>8. CASE c_state = "rd_d"
  <2>1. dSCL = 1
    BY <1>1, <1>8 DEF PhaseInv, Gives, Low, ClockInv, Rising
  <2>. QED
    BY <1>1, <1>3, <1>4, <1>8, <2>1
<1>. QED
  BY <1>2, <1>5, <1>6, <1>7, <1>8

(* The core reads what the chip gives.                                     *)
LEMMA SampledKeeps ==
  ASSUME BusInv, SampledInv, NEW acc, Clock(acc)
  PROVE  SampledInv'
<1>1. IdleTurn \/ AckTurn \/ WorkTurn
  BY Turns
<1>2. StateInv /\ PhaseInv
  BY DEF BusInv
<1>3. CASE IdleTurn \/ AckTurn
  BY <1>3 DEF IdleTurn, AckTurn, Still, SampledInv
<1>4. CASE WorkTurn
  <2>1. ASSUME core_ack' PROVE dSCL' = 1
    <3>1. c_state \in {"start_e", "stop_d", "rd_d", "wr_d"}
      <4>1. c_state \in {"idle"} \cup Starts \cup Stops \cup Reads \cup Writings
        BY <1>2 DEF StateInv
      <4>. QED
        BY <2>1, <4>1, WaveSteps DEF Stands, GoesOn
    <3>2. ~Low /\ c_state \notin Rising
      BY <1>2, <3>1 DEF PhaseInv, Gives, Low, Rising
    <3>. QED
      BY <3>2, LinesSeen
  <2>2. core_cmd' = core_cmd
    BY <1>4 DEF WorkTurn
  <2>. QED
    BY <1>4, <2>1, <2>2, SampleTaken DEF SampledInv
<1>. QED
  BY <1>1, <1>3, <1>4

(* What a call has done stays, while chip and call do.                     *)
LEMMA EffectStays ==
  ASSUME UNCHANGED << ofs, ptr, sel, before, call >>,
         byte_state' = "idle" /\ call.last <=> byte_state = "idle" /\ call.last
  PROVE  /\ Was => Was'
         /\ call.op # "read" \/ phase' = phase => (Effect => Effect')
<1>1. Stopped' <=> Stopped
  BY DEF Stopped
<1>2. Was => Was'
  BY DEF Was
<1>3. StartDone => StartDone'
  BY DEF StartDone
<1>4. WriteDone => WriteDone'
  BY <1>1 DEF WriteDone
<1>5. phase' = phase => (ReadDone => ReadDone')
  BY <1>1 DEF ReadDone
<1>. QED
  BY <1>2, <1>3, <1>4, <1>5 DEF Effect

(* The driver between bytes: it makes a call, returns from one, or goes on *)
(* without a command.                                                      *)
LEMMA IdleGoes ==
  ASSUME BusInv, NEW acc, Clock(acc), IdleTurn, ~Begins
  PROVE  \/ Invoke /\ before' = Now /\ ~After'
         \/ dpc' = 0
         \/ /\ dpc' > 0 /\ dpc > 0 /\ before' = before /\ call' = call
            /\ (Before' => Before) /\ (After' => After)
<1>1. CallInv /\ DriverInv /\ CommandInv /\ Drives(acc) /\ byte_state = "idle"
  BY DEF BusInv, Clock, IdleTurn
<1>2. byte_state' = "idle"
  BY ByteGoes
<1>3. CASE Invoke
  <2>1. before' = Now /\ dpc' = 1
    BY <1>3 DEF Invoke
  <2>2. ~(1 >= Poll')
    BY SMT DEF Poll, Issue
  <2>. QED
    BY <1>2, <1>3, <2>1, <2>2 DEF After
<1>4. CASE ~Invoke /\ dpc' # 0
  <2>1. before' = before /\ call' = call
    BY <1>1, <1>4 DEF Drives, Begun, Ended, driverVars
  <2>2. (dpc' = dpc \/ (dpc' = dpc + 1 /\ wb_ack)) /\ dpc > 0 /\ dpc' > 0
    <3>1. dpc \in Nat
      BY <1>1, SMT DEF DriverInv, Issue
    <3>2. CASE Ended
      BY <1>4, <3>1, <3>2, SMT DEF Ended
    <3>3. CASE ~Ended
      <4>1. dpc' = dpc
        BY <1>1, <1>4, <3>3 DEF Drives, Begun, driverVars
      <4>. QED
        BY <1>4, <3>1, <4>1, SMT
    <3>. QED
      BY <3>2, <3>3
  <2>3. AtIssue => Begins
    BY <1>1 DEF CommandInv, Begins
  <2>4. dpc \in Nat /\ Issue \in Nat /\ Issue' = Issue
    BY <1>1, <2>1, SMT DEF DriverInv, Issue
  <2>5. Before' => Before
    <3>1. dpc' <= Issue => dpc <= Issue
      BY <2>2, <2>4, SMT
    <3>. QED
      BY <1>1, <1>2, <2>1, <2>4, <3>1 DEF Before
  <2>6. After' => After
    <3>1. call.op # "init" /\ dpc' >= Issue + 1 => dpc >= Issue + 1
      <4>1. dpc' = dpc + 1 /\ call.op # "init" => dpc # Issue
        BY <2>2, <2>3, <2>4, SMT DEF AtIssue
      <4>. QED
        BY <2>2, <2>4, <4>1, SMT
    <3>. QED
      BY <1>1, <1>2, <2>1, <2>4, <3>1 DEF After, Poll
  <2>. QED
    BY <2>1, <2>2, <2>5, <2>6
<1>. QED
  BY <1>3, <1>4

(* The effect of a call, between bytes.                                    *)
LEMMA EffectIdle ==
  ASSUME BusInv, EffectInv, NEW acc, Clock(acc), IdleTurn, ~Begins
  PROVE  EffectInv'
<1>1. byte_state = "idle" /\ byte_state' = "idle"
  BY ByteGoes DEF IdleTurn
<1>2. UNCHANGED << ofs, ptr, sel, phase >>
  BY IdleHolds DEF ChipHolds, accelVars
<1>3. CASE Invoke /\ before' = Now /\ ~After'
  <2>1. Was'
    BY <1>2, <1>3 DEF Was, Now
  <2>. QED
    BY <1>3, <2>1 DEF EffectInv
<1>4. CASE dpc' = 0
  <2>1. ~(dpc' > 0)
    BY <1>4, SMT
  <2>. QED
    BY <2>1 DEF EffectInv
<1>5. CASE /\ dpc > 0 /\ before' = before /\ call' = call
           /\ (Before' => Before) /\ (After' => After)
  <2>1. (Was => Was') /\ (Effect => Effect')
    BY <1>1, <1>2, <1>5, EffectStays
  <2>. QED
    BY <1>5, <2>1 DEF EffectInv
<1>. QED
  BY <1>3, <1>4, <1>5, IdleGoes

(* Before the byte, and within a bit.                                      *)
LEMMA EffectWork ==
  ASSUME BusInv, SourceInv, EffectInv, NEW acc, Clock(acc), WorkTurn
  PROVE  EffectInv'
<1>1. /\ byte_state # "idle" /\ byte_state' = byte_state
      /\ call' = call /\ before' = before /\ dpc' = dpc /\ dpc > 0
  BY WorkStays DEF WorkTurn
<1>2. (Before' <=> Before) /\ (After' <=> After)
  BY <1>1 DEF Before, After
<1>3. ByteInv
  BY DEF BusInv
<1>4. CASE ChipHolds \/ TakeBit(Sda)
  <2>1. UNCHANGED << ofs, ptr, sel, phase >>
    BY <1>4 DEF ChipHolds, TakeBit, accelVars
  <2>2. (Was => Was') /\ (Effect => Effect')
    BY <1>1, <2>1, EffectStays
  <2>. QED
    BY <1>1, <1>2, <2>2 DEF EffectInv
<1>5. CASE Begin /\ byte_state = "start"
  <2>1. UNCHANGED << ofs, ptr, sel >>
    BY <1>5 DEF Begin, accelVars
  <2>2. Was => Was'
    BY <1>1, <2>1, EffectStays
  <2>3. ~After
    BY <1>5 DEF After
  <2>. QED
    BY <1>1, <1>2, <2>2, <2>3 DEF EffectInv
<1>6. CASE TakeAck(Sda) /\ byte_state = "ack" /\ core_cmd = "write" /\ phase' = "off"
  <2>1. call.op = "read" /\ ~Before /\ After /\ ~Stopped /\ ~Stopped'
    BY <1>1, <1>3, <1>6 DEF ByteInv, Works, Before, After, Stopped
  <2>2. ReadDone
    BY <1>1, <2>1 DEF EffectInv, Effect
  <2>3. phase = "wait" /\ ptr' = NextReg(ptr) /\ UNCHANGED << ofs, sel >>
    BY <1>6 DEF TakeAck
  <2>4. sel = "read"
    BY <2>3 DEF SourceInv
  <2>5. ReadDone'
    BY <1>1, <1>6, <2>1, <2>2, <2>3, <2>4 DEF ReadDone
  <2>. QED
    BY <1>1, <1>2, <2>1, <2>5 DEF EffectInv, Effect
<1>. QED
  BY <1>4, <1>5, <1>6, WorkEvents

(* The chip has the byte: it is addressed, pointed, set or not there.      *)
LEMMA EffectHeard ==
  ASSUME BusInv, OffInv, EffectInv, NEW acc, Clock(acc), AckTurn, byte_state = "write", dcnt = 0
  PROVE  EffectInv'
<1>1. call' = call /\ before' = before /\ dpc > 0
  BY WorkStays
<1>2. byte_state' = "ack" /\ call.op \in {"start", "write"}
  BY ByteGoes DEF BusInv, ByteInv, Works
<1>3. ~Before' /\ ~Stopped'
  BY <1>2 DEF Before, Stopped
<1>4. ofs = before.ofs /\ ptr = before.ptr /\ sel = before.sel
  BY <1>1 DEF EffectInv, Before, Was
<1>5. CASE phase = "off" /\ ChipHolds
  <2>1. sel = "off" /\ UNCHANGED << ofs, ptr, sel >>
    BY <1>5 DEF OffInv, ChipHolds, accelVars
  <2>2. StartDone' /\ WriteDone'
    BY <1>1, <1>3, <1>4, <2>1 DEF StartDone, WriteDone
  <2>. QED
    BY <1>1, <1>2, <1>3, <2>2 DEF EffectInv, Effect
<1>6. CASE call.op = "start" /\ TakeAddress /\ bits = 2 * I2C_add + call.arg
  <2>1. PICK ack \in Answers :
          I2C_start(bits % 2 = 1, ack /\ bits \div 2 = I2C_add)
    BY <1>6 DEF TakeAddress
  <2>2. bits % 2 = 1 <=> call.arg = 1
    <3>1. call.arg \in {0, 1}
      BY <1>6 DEF BusInv, CallInv, Bits
    <3>. QED
      BY <1>6, <3>1, SMT DEF I2C_add
  <2>3. UNCHANGED << ofs, ptr >> /\ sel' \in {"off", IF call.arg = 1 THEN "read" ELSE "pointer"}
    BY <2>1, <2>2 DEF I2C_start
  <2>4. StartDone'
    BY <1>1, <1>4, <2>3 DEF StartDone
  <2>. QED
    BY <1>1, <1>3, <1>6, <2>4 DEF EffectInv, Effect
<1>7. CASE call.op = "write" /\ TakeByte /\ bits = call.arg /\ Listens
  <2>1. I2C_write(call.arg, FALSE) /\ sel # "off"
    BY <1>7 DEF TakeByte, Listens
  <2>2. WriteDone'
    BY <1>1, <1>3, <1>4, <2>1 DEF WriteDone, I2C_write
  <2>. QED
    BY <1>1, <1>3, <1>7, <2>2 DEF EffectInv, Effect
<1>. QED
  BY <1>5, <1>6, <1>7, ByteHeard

(* The last bit of a byte read: the chip waits for the answer.             *)
LEMMA EffectFetched ==
  ASSUME BusInv, OffInv, EffectInv, NEW acc, Clock(acc), AckTurn, byte_state = "read", dcnt = 0
  PROVE  EffectInv'
<1>1. call' = call /\ before' = before /\ dpc > 0
  BY WorkStays
<1>2. byte_state' = "ack" /\ core_cmd' = "write" /\ call.op = "read"
  BY ByteGoes DEF BusInv, ByteInv, Works
<1>3. ~Before' /\ ~Stopped'
  BY <1>2 DEF Before, Stopped
<1>4. ofs = before.ofs /\ ptr = before.ptr /\ sel = before.sel
  BY <1>1 DEF EffectInv, Before, Was
<1>5. UNCHANGED << ofs, ptr, sel >>
  BY Quiet DEF accelVars
<1>6. phase' \in {"off", "wait"}
  BY <1>2, AnswerGivenKeeps
<1>7. phase' = "off" => sel # "read"
  <2>1. CASE phase = "off" /\ ChipHolds
    BY <2>1 DEF OffInv
  <2>2. CASE SendBit
    BY <2>2 DEF SendBit
  <2>. QED
    BY <2>1, <2>2, AckEvents
<1>8. ReadDone'
  BY <1>1, <1>3, <1>4, <1>5, <1>6, <1>7 DEF ReadDone
<1>. QED
  BY <1>1, <1>2, <1>3, <1>8 DEF EffectInv, Effect

(* A bit is done.                                                          *)
LEMMA EffectAck ==
  ASSUME BusInv, OffInv, EffectInv, NEW acc, Clock(acc), AckTurn
  PROVE  EffectInv'
<1>1. /\ byte_state # "idle" /\ call' = call /\ before' = before /\ dpc > 0
      /\ dpc' = dpc
  BY WorkStays DEF AckTurn
<1>2. ByteInv /\ SyncInv /\ byte_state \in {"start", "write", "read", "ack", "stop"}
  BY <1>1 DEF BusInv, ByteInv
<1>3. CASE byte_state = "start" \/ (byte_state \in {"write", "read"} /\ dcnt # 0)
  <2>1. byte_state' \in {"write", "read"}
    BY <1>3, ByteGoes
  <2>2. UNCHANGED << ofs, ptr, sel >>
    BY <1>3, Quiet DEF accelVars
  <2>3. Before /\ ~After'
    BY <1>3, <2>1 DEF Before, After
  <2>4. Was => Was'
    BY <1>1, <2>2 DEF Was
  <2>. QED
    BY <1>1, <2>3, <2>4 DEF EffectInv
<1>4. CASE byte_state = "ack"
  <2>1. After /\ ~Stopped
    BY <1>4 DEF After, Stopped
  <2>2. byte_state' = (IF call.last THEN "stop" ELSE "idle") /\ call.last \in BOOLEAN
    BY <1>4, ByteGoes DEF BusInv, CallInv
  <2>3. ~Before'
    <3>1. dpc >= Poll /\ call.op # "init" /\ dpc \in Nat /\ Issue \in Nat
      BY <1>1, WorksAtPoll, SMT DEF BusInv, DriverInv, AtPoll, Issue
    <3>2. ~(dpc <= Issue)
      BY <3>1, SMT DEF Poll
    <3>. QED
      BY <1>1, <2>2, <3>1, <3>2 DEF Before, Issue
  <2>4. ~(byte_state' = "idle" /\ call.last)
    BY <2>2
  <2>5. CASE core_cmd = "read"
    <3>1. UNCHANGED << ofs, ptr, sel >>
      BY <1>4, <2>5, Quiet DEF accelVars
    <3>2. call.op # "read"
      BY <1>2, <1>4, <2>5 DEF ByteInv, Works
    <3>3. Effect => Effect'
      BY <1>1, <1>4, <2>4, <3>1, <3>2, EffectStays
    <3>. QED
      BY <1>1, <2>1, <2>3, <3>3 DEF EffectInv
  <2>6. CASE core_cmd = "write"
    <3>1. UNCHANGED << ofs, ptr, sel, phase >>
      BY <1>4, <2>6, AckEvents DEF ChipHolds, accelVars
    <3>2. Effect => Effect'
      BY <1>1, <1>4, <2>4, <3>1, EffectStays
    <3>. QED
      BY <1>1, <2>1, <2>3, <3>2 DEF EffectInv
  <2>. QED
    BY <1>2, <1>4, <2>5, <2>6 DEF ByteInv, Works
<1>5. CASE byte_state = "stop"
  <2>1. /\ byte_state' = "idle" /\ call.last /\ call.op \in {"write", "read"}
        /\ ~Stopped /\ After
    BY <1>2, <1>5, ByteGoes DEF ByteInv, Works, Stopped, After
  <2>2. Stopped'
    BY <1>1, <2>1 DEF Stopped
  <2>3. phase' = "off" /\ sel' = "off" /\ UNCHANGED << ofs, ptr >>
    BY <1>5, AckEvents DEF End
  <2>4. ~Before'
    <3>1. dpc >= Poll /\ call.op # "init" /\ dpc \in Nat /\ Issue \in Nat
      BY <1>1, WorksAtPoll, SMT DEF BusInv, DriverInv, AtPoll, Issue
    <3>2. ~(dpc <= Issue)
      BY <3>1, SMT DEF Poll
    <3>. QED
      BY <1>1, <2>1, <3>1, <3>2 DEF Before, Issue
  <2>5. Effect
    BY <1>1, <2>1 DEF EffectInv
  <2>6. CASE call.op = "write"
    <3>1. WriteDone'
      BY <1>1, <2>2, <2>3, <2>5, <2>6 DEF Effect, WriteDone
    <3>. QED
      BY <1>1, <2>4, <2>6, <3>1 DEF EffectInv, Effect
  <2>7. CASE call.op = "read"
    <3>1. phase = "off"
      <4>1. phase # "off" => phase = "receive"
        BY <1>2, <1>5 DEF SyncInv, EndInv
      <4>. QED
        BY <2>5, <2>7, <4>1 DEF Effect, ReadDone
    <3>2. ReadDone'
      BY <1>1, <2>2, <2>3, <2>5, <2>7, <3>1 DEF Effect, ReadDone
    <3>. QED
      BY <1>1, <2>4, <2>7, <3>2 DEF EffectInv, Effect
  <2>. QED
    BY <2>1, <2>6, <2>7
<1>. QED
  BY <1>2, <1>3, <1>4, <1>5, EffectHeard, EffectFetched

(* A byte begins.                                                          *)
LEMMA EffectBegins ==
  ASSUME BusInv, EffectInv, NEW acc, Clock(acc), Begins, IdleTurn
  PROVE  EffectInv'
<1>1. call' = call /\ before' = before /\ dpc > 0
  BY WorkStays
<1>2. byte_state = "idle" /\ byte_state' \in {"start", "write", "read"} /\ dpc <= Issue
  BY ByteGoes, BeginsAtIssue DEF Begins
<1>3. UNCHANGED << ofs, ptr, sel >>
  BY Quiet DEF ChipHolds, accelVars
<1>4. Was /\ ~After'
  BY <1>1, <1>2 DEF EffectInv, Before, After
<1>5. Was'
  BY <1>1, <1>3, <1>4 DEF Was
<1>. QED
  BY <1>4, <1>5 DEF EffectInv

(* A call does to the chip what I2cCalls says.                             *)
LEMMA EffectKeeps ==
  ASSUME BusInv, SourceInv, OffInv, EffectInv, NEW acc, Clock(acc)
  PROVE  EffectInv'
BY Turns, EffectIdle, EffectBegins, EffectWork, EffectAck

(* The chip holds SDA low for the acknowledge, if it is there.             *)
LEMMA AckGiven ==
  ASSUME BusInv, HeardInv, NEW acc, Clock(acc), byte_state' = "ack", core_cmd' = "read"
  PROVE  csda' = 0 <=> phase' # "off"
<1>1. ChipInv
  BY DEF BusInv
<1>2. \/ AckTurn /\ byte_state = "write" /\ dcnt = 0
      \/ WorkTurn /\ byte_state = "ack" /\ core_cmd = "read"
  BY Comes
<1>3. CASE AckTurn /\ byte_state = "write" /\ dcnt = 0
  <2>1. CASE phase = "off" /\ ChipHolds
    BY <1>1, <2>1 DEF ChipInv, ChipHolds
  <2>2. CASE TakeAddress
    BY <2>2 DEF TakeAddress
  <2>3. CASE TakeByte
    BY <2>3 DEF TakeByte
  <2>. QED
    BY <1>3, <2>1, <2>2, <2>3, ByteHeard
<1>4. CASE WorkTurn /\ byte_state = "ack" /\ core_cmd = "read"
  <2>1. ChipHolds \/ TakeBit(Sda)
    BY <1>4, WorkEvents
  <2>2. csda' = csda /\ phase' = phase
    BY <2>1 DEF ChipHolds, TakeBit
  <2>. QED
    BY <1>4, <2>2 DEF HeardInv
<1>. QED
  BY <1>2, <1>3, <1>4

(* The chip's acknowledge means that it heard the call.                    *)
LEMMA AckTaken ==
  ASSUME BusInv, OffInv, SampledInv, EffectInv, HeardInv, dpc > 0,
         byte_state = "ack", core_ack, call.op # "read"
  PROVE  core_rxd = 0 <=> Heard
<1>1. SyncInv /\ ByteInv /\ CallInv
  BY DEF BusInv
<1>2. core_cmd = "read" /\ call.op \in {"start", "write"}
  BY <1>1 DEF ByteInv, Works
<1>3. core_rxd = 0 <=> phase # "off"
  BY <1>2 DEF SampledInv, HeardInv
<1>4. phase # "off" => Selected
  BY <1>1, <1>2 DEF SyncInv, AnswerInv
<1>5. phase = "off" => sel = "off"
  BY DEF OffInv
<1>6. CASE call.op = "start"
  BY <1>3, <1>4, <1>5, <1>6 DEF Heard, Selected
<1>7. CASE call.op = "write"
  <2>1. sel = IF before.sel = "off" THEN "off" ELSE "data"
    BY <1>7 DEF EffectInv, Effect, WriteDone, After, Stopped
  <2>2. phase # "off" => sel = "data"
    BY <1>4, <1>7 DEF Selected
  <2>. QED
    BY <1>3, <1>5, <1>7, <2>1, <2>2 DEF Heard
<1>. QED
  BY <1>2, <1>6, <1>7

(* What I2C_ACK means, once the answer is there.                           *)
LEMMA AckMeant ==
  ASSUME BusInv, OffInv, SampledInv, EffectInv, HeardInv, NEW acc, Clock(acc),
         dpc' > 0, After', byte_state' # "ack", call'.op # "read"
  PROVE  ack_out' = 0 <=> Heard'
<1>1. ByteInv /\ CallInv
  BY DEF BusInv
<1>2. ASSUME UNCHANGED << call, before, sel, ack_out >>, After, byte_state # "ack", dpc > 0
      PROVE  ack_out' = 0 <=> Heard'
  BY <1>2 DEF HeardInv, Heard
<1>3. byte_state' \in {"stop", "idle"}
  BY DEF After
<1>4. CASE IdleTurn /\ ~Begins
  <2>1. dpc' # 0
    BY SMT
  <2>2. dpc > 0 /\ before' = before /\ call' = call /\ After
    BY <1>4, <2>1, IdleGoes
  <2>3. sel' = sel /\ ack_out' = ack_out /\ byte_state # "ack"
    BY <1>4, Quiet, ByteGoes DEF ChipHolds, accelVars, ByteHolds, IdleTurn
  <2>. QED
    BY <1>2, <2>2, <2>3
<1>5. CASE AckTurn /\ byte_state = "ack"
  <2>1. call' = call /\ before' = before /\ dpc > 0 /\ core_ack
    BY <1>5, WorkStays DEF AckTurn
  <2>2. core_cmd = "read"
    BY <1>1, <1>5, <2>1 DEF ByteInv, Works
  <2>3. sel' = sel
    BY <1>5, <2>2, Quiet DEF accelVars
  <2>4. ack_out' = core_rxd
    BY <1>5, ByteGoes
  <2>5. core_rxd = 0 <=> Heard
    BY <1>5, <2>1, AckTaken
  <2>. QED
    BY <2>1, <2>3, <2>4, <2>5 DEF Heard
<1>6. CASE AckTurn /\ byte_state = "stop"
  <2>1. call' = call /\ before' = before /\ dpc > 0
    BY <1>6, WorkStays
  <2>2. ack_out' = ack_out
    BY <1>6, ByteGoes
  <2>3. After /\ call.op \in {"write", "read"}
    BY <1>1, <1>6 DEF ByteInv, Works, After
  <2>4. Heard' <=> Heard
    BY <2>1, <2>3 DEF Heard
  <2>. QED
    BY <1>6, <2>1, <2>2, <2>3, <2>4 DEF HeardInv
<1>7. CASE WorkTurn /\ byte_state = "stop"
  <2>1. call' = call /\ before' = before /\ dpc > 0 /\ ~AckTurn
    BY <1>7, WorkStays DEF WorkTurn, AckTurn
  <2>2. ack_out' = ack_out /\ sel' = sel
    BY <1>7, <2>1, ByteGoes, Quiet DEF accelVars
  <2>. QED
    BY <1>2, <1>7, <2>1, <2>2 DEF After
<1>. QED
  BY <1>3, <1>4, <1>5, <1>6, <1>7, Comes

(* The acknowledge reaches the driver.                                     *)
LEMMA HeardKeeps ==
  ASSUME BusInv, OffInv, SampledInv, EffectInv, HeardInv, NEW acc, Clock(acc)
  PROVE  HeardInv'
<1>1. rxack' = ack_out
  BY DEF Clock, Board, CoreClock, StatusRegister
<1>2. ASSUME byte_state' = "idle", ~done'
      PROVE  rxack' = ack_out'
  <2>1. IdleTurn /\ ~Begins
    BY <1>2, Comes, ByteGoes
  <2>. QED
    BY <1>1, <2>1, ByteGoes DEF ByteHolds
<1>. QED
  BY <1>2, AckGiven, AckMeant DEF HeardInv

(* The register s, when the next bit of v is shifted into it.              *)
HeadNext(s, v) ==
  /\ s % 128 = v \div 2 => (2 * s + (v % 2)) % 256 = v
  /\ s % 64 = v \div 4 => ((2 * s + ((v \div 2) % 2)) % 256) % 128 = v \div 2
  /\ s % 32 = v \div 8 => ((2 * s + ((v \div 4) % 2)) % 256) % 64 = v \div 4
  /\ s % 16 = v \div 16 => ((2 * s + ((v \div 8) % 2)) % 256) % 32 = v \div 8
  /\ s % 8 = v \div 32 => ((2 * s + ((v \div 16) % 2)) % 256) % 16 = v \div 16
  /\ s % 4 = v \div 64 => ((2 * s + ((v \div 32) % 2)) % 256) % 8 = v \div 32
  /\ s % 2 = v \div 128 => ((2 * s + ((v \div 64) % 2)) % 256) % 4 = v \div 64
  /\ ((2 * s + ((v \div 128) % 2)) % 256) % 2 = v \div 128

(* A step of a shift register.                                             *)
LEMMA HeadNextOf ==
  ASSUME NEW s \in 0 .. 255, NEW v \in 0 .. 255
  PROVE  HeadNext(s, v)
<1>1. s % 128 = v \div 2 => (2 * s + (v % 2)) % 256 = v
  BY SMT
<1>2. s % 64 = v \div 4 => ((2 * s + ((v \div 2) % 2)) % 256) % 128 = v \div 2
  BY SMT
<1>3. s % 32 = v \div 8 => ((2 * s + ((v \div 4) % 2)) % 256) % 64 = v \div 4
  BY SMT
<1>4. s % 16 = v \div 16 => ((2 * s + ((v \div 8) % 2)) % 256) % 32 = v \div 8
  BY SMT
<1>5. s % 8 = v \div 32 => ((2 * s + ((v \div 16) % 2)) % 256) % 16 = v \div 16
  BY SMT
<1>6. s % 4 = v \div 64 => ((2 * s + ((v \div 32) % 2)) % 256) % 8 = v \div 32
  BY SMT
<1>7. s % 2 = v \div 128 => ((2 * s + ((v \div 64) % 2)) % 256) % 4 = v \div 64
  BY SMT
<1>8. ((2 * s + ((v \div 128) % 2)) % 256) % 2 = v \div 128
  BY SMT
<1>. QED
  BY <1>1, <1>2, <1>3, <1>4, <1>5, <1>6, <1>7, <1>8 DEF HeadNext

(* One bit more of a byte read.                                            *)
LEMMA ReceivedNext ==
  ASSUME NEW s \in Byte, NEW v \in Byte, NEW q \in 0 .. 7, Received(q, s, v)
  PROVE  /\ q # 0 => Received(q - 1, (2 * s + Nth(v, 8 - q)) % 256, v)
         /\ q = 0 => (2 * s + Nth(v, 8 - q)) % 256 = v
<1>1. HeadNext(s, v)
  BY HeadNextOf DEF Byte
<1>2. /\ s % Weight[q + 1] = v \div (2 * Weight[8 - q])
      /\ v \div 1 = v
  BY SMT DEF Received, Byte
<1>3. CASE q = 0
  <2>1. q + 1 = 1 /\ 8 - q = 8 /\ 2 * 1 = 2
    BY <1>3, SMT
  <2>. QED
    BY <1>1, <1>2, <1>3, <2>1, Weights DEF HeadNext, Nth
<1>4. CASE q = 1
  <2>1. q + 1 = 2 /\ 8 - q = 7 /\ q - 1 = 0 /\ 0 + 1 = 1 /\ 8 - 0 = 8 /\ 2 * 2 = 4 /\ 2 * 1 = 2 /\ q # 0
    BY <1>4, SMT
  <2>. QED
    BY <1>1, <1>2, <2>1, Weights DEF HeadNext, Nth, Received
<1>5. CASE q = 2
  <2>1. q + 1 = 3 /\ 8 - q = 6 /\ q - 1 = 1 /\ 1 + 1 = 2 /\ 8 - 1 = 7 /\ 2 * 4 = 8 /\ 2 * 2 = 4 /\ q # 0
    BY <1>5, SMT
  <2>. QED
    BY <1>1, <1>2, <2>1, Weights DEF HeadNext, Nth, Received
<1>6. CASE q = 3
  <2>1. q + 1 = 4 /\ 8 - q = 5 /\ q - 1 = 2 /\ 2 + 1 = 3 /\ 8 - 2 = 6 /\ 2 * 8 = 16 /\ 2 * 4 = 8 /\ q # 0
    BY <1>6, SMT
  <2>. QED
    BY <1>1, <1>2, <2>1, Weights DEF HeadNext, Nth, Received
<1>7. CASE q = 4
  <2>1. q + 1 = 5 /\ 8 - q = 4 /\ q - 1 = 3 /\ 3 + 1 = 4 /\ 8 - 3 = 5 /\ 2 * 16 = 32 /\ 2 * 8 = 16 /\ q # 0
    BY <1>7, SMT
  <2>. QED
    BY <1>1, <1>2, <2>1, Weights DEF HeadNext, Nth, Received
<1>8. CASE q = 5
  <2>1. q + 1 = 6 /\ 8 - q = 3 /\ q - 1 = 4 /\ 4 + 1 = 5 /\ 8 - 4 = 4 /\ 2 * 32 = 64 /\ 2 * 16 = 32 /\ q # 0
    BY <1>8, SMT
  <2>. QED
    BY <1>1, <1>2, <2>1, Weights DEF HeadNext, Nth, Received
<1>9. CASE q = 6
  <2>1. q + 1 = 7 /\ 8 - q = 2 /\ q - 1 = 5 /\ 5 + 1 = 6 /\ 8 - 5 = 3 /\ 2 * 64 = 128 /\ 2 * 32 = 64 /\ q # 0
    BY <1>9, SMT
  <2>. QED
    BY <1>1, <1>2, <2>1, Weights DEF HeadNext, Nth, Received
<1>10. CASE q = 7
  <2>1. q + 1 = 8 /\ 8 - q = 1 /\ q - 1 = 6 /\ 6 + 1 = 7 /\ 8 - 6 = 2 /\ 2 * 64 = 128 /\ q # 0
    BY <1>10, SMT
  <2>. QED
    BY <1>1, <2>1, Weights DEF HeadNext, Nth, Received
<1>. QED
  BY <1>3, <1>4, <1>5, <1>6, <1>7, <1>8, <1>9, <1>10, SMT

(* Before the first bit there is nothing of it.                            *)
LEMMA ReceivedNone ==
  ASSUME NEW s \in Byte, NEW v \in Byte
  PROVE  Received(7, s, v)
<1>1. s % 1 = v \div (2 * 128)
  BY SMT DEF Byte
<1>2. 7 + 1 = 8 /\ 8 - 7 = 1
  BY SMT
<1>. QED
  BY <1>1, <1>2, Weights DEF Received

(* All bits of 255 are set.                                                *)
LEMMA AllOnes ==
  ASSUME NEW i \in 1 .. 8
  PROVE  Nth(255, i) = 1
<1>1. /\ (255 \div 128) % 2 = 1 /\ (255 \div 64) % 2 = 1 /\ (255 \div 32) % 2 = 1
      /\ (255 \div 16) % 2 = 1 /\ (255 \div 8) % 2 = 1 /\ (255 \div 4) % 2 = 1
      /\ (255 \div 2) % 2 = 1 /\ (255 \div 1) % 2 = 1
  BY SMT
<1>2. i = 1 \/ i = 2 \/ i = 3 \/ i = 4 \/ i = 5 \/ i = 6 \/ i = 7 \/ i = 8
  BY SMT
<1>. QED
  BY <1>1, <1>2, Weights DEF Nth

(* The bit that the core is to read, of the byte the chip sends.           *)
LEMMA ReadBit ==
  ASSUME BusInv, SourceInv, OffInv, Left \in 0 .. 7, byte_state = "read"
  PROVE  csda = Nth(ReadByte, 8 - Left)
<1>1. SyncInv /\ ChipInv
  BY DEF BusInv
<1>2. CASE phase = "off"
  <2>1. csda = 1
    BY <1>1, <1>2 DEF ChipInv, Bits
  <2>2. ReadByte = 255
    BY <1>2 DEF OffInv, ReadByte
  <2>3. 8 - Left \in 1 .. 8
    BY SMT
  <2>. QED
    BY <2>1, <2>2, <2>3, AllOnes
<1>3. CASE phase # "off"
  BY <1>1, <1>3 DEF SyncInv, FetchInv, SourceInv
<1>. QED
  BY <1>2, <1>3

(* The byte promised is the one at the chip's pointer when the call began. *)
LEMMA AskedRead ==
  ASSUME dpc > 0, Was
  PROVE  ByteAsked = ReadByte
<1>1. dpc # 0
  BY SMT
<1>. QED
  BY <1>1 DEF Was, ByteAsked, ReadByte, DataRegs, OffsetRegs, DATAX0, OFSX, Promised!ReadByte,
              Promised!DataRegs, Promised!OffsetRegs, Promised!DATAX0, Promised!OFSX

(* It stays the same until the call returns.                               *)
LEMMA AskedByteStays ==
  ASSUME dpc > 0, dpc' > 0, before' = before, sample' = sample
  PROVE  ByteAsked' = ByteAsked
<1>1. dpc # 0 /\ dpc' # 0
  BY SMT
<1>. QED
  BY <1>1 DEF ByteAsked, Promised!ReadByte

(* The bits of a byte come in one after the other.                         *)
LEMMA BitReceived ==
  ASSUME BusInv, SourceInv, OffInv, SampledInv, ReceiveInv, NEW acc, Clock(acc),
         AckTurn, byte_state = "read"
  PROVE  /\ dcnt # 0 => Received(Left', Shifted', ReadByte')
         /\ dcnt = 0 => Shifted' = ReadByte
<1>1. /\ RegisterTypes /\ ChipInv /\ RestInv /\ ByteInv /\ core_ack /\ c_state = "idle"
      /\ core_rxd' = (IF sSCL = 1 /\ dSCL = 0 THEN sSDA ELSE core_rxd)
  BY DEF BusInv, AckTurn, Still, Clock, Board, CoreClock, DataOut
<1>2. core_rxd' = csda
  <2>1. dSCL = 1
    BY <1>1 DEF RestInv, SampledInv
  <2>2. core_cmd = "read"
    BY <1>1 DEF ByteInv, Works
  <2>. QED
    BY <1>1, <2>1, <2>2 DEF SampledInv
<1>3. Left = dcnt /\ Shifted = sr /\ dcnt \in 0 .. 7 /\ ld' = FALSE /\ shift' = TRUE
  BY <1>1, Shifting, ByteGoes DEF RegisterTypes
<1>4. Left' = (dcnt + 7) % 8 /\ Shifted' = (2 * sr + core_rxd') % 256
  BY <1>1, <1>3, Shifting
<1>5. csda = Nth(ReadByte, 8 - dcnt)
  BY <1>3, ReadBit
<1>6. ReadByte \in Byte /\ sr \in Byte
  BY <1>1, ReadByteType DEF ChipInv, RegisterTypes
<1>7. Received(dcnt, sr, ReadByte)
  BY <1>3 DEF ReceiveInv
<1>8. ReadByte' = ReadByte
  BY Quiet DEF accelVars, ReadByte
<1>9. dcnt # 0 => Left' = dcnt - 1
  BY <1>3, <1>4, SMT
<1>10. Shifted' = (2 * sr + Nth(ReadByte, 8 - dcnt)) % 256
  BY <1>2, <1>4, <1>5
<1>. QED
  BY <1>3, <1>6, <1>7, <1>8, <1>9, <1>10, ReceivedNext

(* The byte as far as it has come.                                         *)
LEMMA ReadKeeps ==
  ASSUME BusInv, BusInv', SourceInv, OffInv, SampledInv, ReceiveInv, NEW acc, Clock(acc),
         byte_state' = "read"
  PROVE  Received(Left', Shifted', ReadByte')
<1>1. \/ IdleTurn /\ Begins /\ ld' = TRUE
      \/ AckTurn /\ byte_state = "read" /\ dcnt # 0
      \/ WorkTurn /\ byte_state = "read" /\ ld' = FALSE /\ shift' = FALSE
  BY Comes
<1>2. CASE IdleTurn /\ ld' = TRUE
  <2>1. Left' = 7 /\ Shifted' = txr'
    BY <1>2, Shifting
  <2>2. txr' \in Byte /\ ReadByte' \in Byte
    <3>1. txr' \in Byte
      BY DEF BusInv, RegisterTypes
    <3>2. ReadByte \in Byte
      BY ReadByteType DEF BusInv, ChipInv
    <3>3. ReadByte' = ReadByte
      BY <1>2, Quiet DEF ChipHolds, accelVars, ReadByte
    <3>. QED
      BY <3>1, <3>2, <3>3
  <2>. QED
    BY <2>1, <2>2, ReceivedNone
<1>3. CASE WorkTurn /\ byte_state = "read" /\ ld' = FALSE /\ shift' = FALSE
  <2>1. Left' = Left /\ Shifted' = Shifted
    BY <1>3, Shifting
  <2>2. ReadByte' = ReadByte
    BY <1>3, Quiet DEF accelVars, ReadByte
  <2>. QED
    BY <1>3, <2>1, <2>2 DEF ReceiveInv
<1>. QED
  BY <1>1, <1>2, <1>3, BitReceived

(* The byte when it has come.                                              *)
LEMMA ReceiveKeeps ==
  ASSUME BusInv, BusInv', SourceInv, OffInv, SampledInv, EffectInv, ReceiveInv,
         NEW acc, Clock(acc)
  PROVE  ReceiveInv'
<1>1. sample' = sample /\ ByteInv
  BY SourceKeeps DEF BusInv
<1>2. ASSUME dpc' > 0, After', call'.op = "read"
      PROVE  Shifted' = ByteAsked'
  <2>1. ASSUME After, dpc > 0, before' = before, call' = call, ld' = FALSE, shift' = FALSE
        PROVE  Shifted' = ByteAsked'
    BY <1>1, <1>2, <2>1, AskedByteStays, Shifting DEF ReceiveInv
  <2>2. byte_state' \in {"ack", "stop", "idle"}
    BY <1>2 DEF After
  <2>3. CASE IdleTurn /\ ~Begins
    <3>1. dpc' # 0
      BY <1>2, SMT
    <3>2. ld' = FALSE /\ shift' = FALSE
      BY <2>3, ByteGoes DEF ByteHolds
    <3>. QED
      BY <1>2, <2>1, <2>3, <3>1, <3>2, IdleGoes
  <2>4. CASE WorkTurn /\ byte_state \in {"ack", "stop"}
    BY <2>1, <2>4, WorkStays, Comes DEF After, WorkTurn
  <2>5. CASE AckTurn /\ byte_state \in {"ack", "stop"}
    BY <2>1, <2>5, WorkStays, ByteGoes DEF After, AckTurn, BusInv, CallInv
  <2>6. CASE AckTurn /\ byte_state = "read" /\ dcnt = 0
    <3>1. dpc > 0 /\ before' = before
      BY <2>6, WorkStays
    <3>2. ByteAsked = ReadByte
      BY <2>6, <3>1, AskedRead DEF EffectInv, Before
    <3>. QED
      BY <1>1, <1>2, <2>6, <3>1, <3>2, AskedByteStays, BitReceived
  <2>7. CASE AckTurn /\ byte_state = "write"
    BY <1>1, <1>2, <2>7, WorkStays DEF ByteInv, Works
  <2>. QED
    BY <2>2, <2>3, <2>4, <2>5, <2>6, <2>7, Comes
<1>. QED
  BY <1>2, ReadKeeps DEF ReceiveInv

(* The access that gives the driver the result of its call.                *)
LEMMA LastAccess ==
  ASSUME BusInv, NEW acc, Clock(acc), wb_ack', call'.op # "init", dpc' = Issue' + 2
  PROVE  /\ call' = call /\ call.op # "init" /\ dpc = Issue + 2
         /\ acc = IF call.op = "read" THEN ReadOf("RXR") ELSE ReadOf("SR")
<1>1. CallInv /\ DriverInv /\ Drives(acc) /\ Acknowledge(acc)
  BY DEF BusInv, Clock, Board, CoreClock
<1>2. Stays /\ dpc > 0 /\ acc.do # "none"
  BY <1>1, Acknowledged
<1>3. call' = call /\ dpc' = dpc /\ Issue' = Issue
  BY <1>2 DEF Stays, Issue
<1>4. Issue \in 1 .. 2 /\ dpc = Issue + 2
  BY <1>1, <1>3, CallLength
<1>5. ~(dpc = Issue) /\ ~(dpc = 1) /\ dpc > Poll
  BY <1>4, SMT DEF Poll
<1>6. Looks(acc)
  <2>1. Looks(acc) \/ Commands(acc) \/ Loads(acc) \/ Sets(acc)
    BY <1>1, <1>2, DriverAccess DEF Silent
  <2>. QED
    BY <1>3, <1>5, <2>1 DEF Commands, Loads, Sets
<1>. QED
  BY <1>3, <1>4, <1>5, <1>6 DEF Looks

(* The result the driver reads is the one of its call.                     *)
LEMMA ReplyKeeps ==
  ASSUME BusInv, HeardInv, NEW acc, Clock(acc)
  PROVE  ReplyInv'
<1>1. CallInv /\ CommandInv /\ ByteInv /\ RegisterTypes /\ Acknowledge(acc)
  BY DEF BusInv, Clock, Board, CoreClock
<1>2. ASSUME wb_ack', call'.op # "init", dpc' = Issue' + 2
      PROVE  IF call'.op = "read" THEN wb_dat' = sr' ELSE wb_dat' \div 128 = ack_out'
  <2>1. /\ call' = call /\ call.op # "init" /\ dpc = Issue + 2
        /\ acc = IF call.op = "read" THEN ReadOf("RXR") ELSE ReadOf("SR")
    BY <1>2, LastAccess
  <2>2. Resting
    <3>1. Issue \in 1 .. 2
      BY <1>1, <2>1, CallLength
    <3>2. dpc # Issue /\ dpc # Poll
      BY <2>1, <3>1, SMT DEF Poll
    <3>. QED
      BY <1>1, <3>2 DEF CommandInv, AtPoll, AtIssue
  <2>3. byte_state = "idle" /\ ~done /\ ~Begins
    BY <1>1, <2>2, CommandTable DEF Resting, Begins
  <2>4. IdleTurn
    BY <2>3, Turns DEF AckTurn, WorkTurn
  <2>5. ack_out' = ack_out /\ rxack = ack_out
    BY <2>3, <2>4, ByteGoes DEF ByteHolds, HeardInv
  <2>6. sr' = sr
    <3>1. Shifted = sr
      BY <1>1, <2>3 DEF ByteInv, Shifted
    <3>. QED
      BY <3>1, Shifting
  <2>7. CASE call.op = "read"
    <3>1. acc # ReadOf("SR") /\ acc = ReadOf("RXR")
      BY <2>1, <2>7 DEF ReadOf
    <3>2. wb_dat' = sr
      BY <1>1, <3>1 DEF Acknowledge
    <3>. QED
      BY <2>1, <2>6, <2>7, <3>2
  <2>8. CASE call.op # "read"
    <3>1. wb_dat' = StatusWord
      <4>1. acc = ReadOf("SR") /\ acc # ReadOf("RXR")
        BY <2>1, <2>8 DEF ReadOf
      <4>. QED
        BY <1>1, <4>1 DEF Acknowledge
    <3>2. tip \in BOOLEAN /\ al \in BOOLEAN
      BY <1>1 DEF BusInv, CommandInv, NotLost
    <3>3. StatusWord \div 128 = rxack
      BY <1>1, <3>2, StatusBits DEF RegisterTypes
    <3>. QED
      BY <2>1, <2>5, <2>8, <3>1, <3>3
  <2>. QED
    BY <2>7, <2>8
<1>. QED
  BY <1>2 DEF ReplyInv

----------------------------------------------------------------------------
(* Every step keeps what a call has done.                                  *)
LEMMA CallsKeep ==
  ASSUME BusInv, CallsInv, BusNext
  PROVE  CallsInv'
<1>1. PICK acc : Clock(acc)
  BY NextIsClock DEF BusInv
<1>2. BusInv'
  BY BusKeeps
<1>3. AskInv /\ SourceInv /\ OffInv /\ SampledInv /\ EffectInv /\ HeardInv /\ ReceiveInv /\ ReplyInv
  BY DEF CallsInv
<1>4. AskInv' /\ SourceInv' /\ OffInv' /\ SampledInv'
  BY <1>1, <1>3, AskKeeps, SourceKeeps, OffKeeps, SampledKeeps
<1>5. EffectInv' /\ HeardInv'
  BY <1>1, <1>3, EffectKeeps, HeardKeeps
<1>6. ReceiveInv' /\ ReplyInv'
  BY <1>1, <1>2, <1>3, ReceiveKeeps, ReplyKeeps
<1>. QED
  BY <1>4, <1>5, <1>6 DEF CallsInv

(* So does a step that changes nothing.                                    *)
LEMMA CallsRest ==
  ASSUME CallsInv, UNCHANGED vars
  PROVE  CallsInv'
<1>1. UNCHANGED << coreVars, chipVars, driverVars, before >>
  BY DEF vars
<1>2. UNCHANGED << topVars, byteVars, bitVars, accelVars >>
  BY <1>1 DEF coreVars, chipVars
<1>3. UNCHANGED << call, dpc, answer, before >> /\ UNCHANGED << phase, bits, nbits, csda >>
  BY <1>1 DEF driverVars, chipVars
<1>4. UNCHANGED << sample, ofs, ptr, sel >> /\ UNCHANGED << wb_ack, wb_dat, txr, rxack >>
  BY <1>2 DEF accelVars, topVars
<1>5. UNCHANGED << byte_state, core_cmd, shift, ld, done, ack_out, sr, dcnt >>
  BY <1>2 DEF byteVars
<1>6. UNCHANGED << c_state, core_ack, scl_oen, core_rxd, dSCL >>
  BY <1>2 DEF bitVars
<1>7. ReadByte' = ReadByte /\ ByteAsked' = ByteAsked /\ Issue' = Issue
  BY <1>3, <1>4 DEF ReadByte, ByteAsked, Promised!ReadByte, Issue
<1>8. AskInv' /\ SourceInv' /\ OffInv'
  BY <1>3, <1>4, <1>5, <1>7 DEF CallsInv, AskInv, SourceInv, OffInv
<1>9. SampledInv'
  BY <1>3, <1>5, <1>6 DEF CallsInv, SampledInv, Low
<1>10. (Before' <=> Before) /\ (After' <=> After) /\ (Stopped' <=> Stopped)
  BY <1>3, <1>5, <1>7 DEF Before, After, Stopped, Poll
<1>11. EffectInv'
  BY <1>3, <1>4, <1>10 DEF CallsInv, EffectInv, Was, Effect, StartDone, WriteDone, ReadDone
<1>12. HeardInv'
  BY <1>3, <1>4, <1>5, <1>10 DEF CallsInv, HeardInv, Heard
<1>13. ReceiveInv'
  <2>1. Left' = Left /\ Shifted' = Shifted
    BY <1>4, <1>5, <1>6 DEF Left, Shifted
  <2>. QED
    BY <1>3, <1>5, <1>7, <1>10, <2>1 DEF CallsInv, ReceiveInv
<1>14. ReplyInv'
  BY <1>3, <1>4, <1>5, <1>7 DEF CallsInv, ReplyInv
<1>. QED
  BY <1>8, <1>9, <1>11, <1>12, <1>13, <1>14 DEF CallsInv

(* It holds when the board is switched on.                                 *)
LEMMA CallsBegin ==
  ASSUME BusInit
  PROVE  CallsInv
<1>1. /\ phase = "off" /\ sel = "off" /\ csda = 1 /\ byte_state = "idle" /\ core_cmd = "nop"
      /\ core_ack = FALSE /\ dpc = 0 /\ answer = 0 /\ call = InitCall /\ wb_ack = FALSE
      /\ rxack = 0 /\ ack_out = 0 /\ ~(0 > 0)
  BY SMT DEF BusInit, CoreInit, ChipInit, AccelInit
<1>2. call.op = "init"
  BY <1>1 DEF InitCall, Call
<1>. QED
  BY <1>1, <1>2 DEF CallsInv, AskInv, SourceInv, OffInv, SampledInv, EffectInv, HeardInv,
                    ReceiveInv, ReplyInv

(* And so always.                                                          *)
LEMMA CallsSafe ==
  ASSUME Prescale >= 2, MaxRestarts = 0
  PROVE  BusSpec => [](BusInv /\ CallsInv)
<1>1. BusInit => BusInv /\ CallsInv
  BY BusBegins, CallsBegin
<1>2. BusInv /\ CallsInv /\ [BusNext]_vars => BusInv' /\ CallsInv'
  BY BusKeeps, BusRests, CallsKeep, CallsRest
<1>. QED
  BY <1>1, <1>2, PTL DEF BusSpec

(* A call returns when chip and core are at rest.                          *)
LEMMA Returns ==
  ASSUME BusInv, CallsInv, NEW acc, Clock(acc), dpc > 0, dpc' = 0
  PROVE  /\ call' = call /\ answer' = Result /\ wb_ack /\ byte_state = "idle"
         /\ UNCHANGED << sample, ofs, ptr, sel >>
         /\ call.op = "init" => Was
         /\ call.op # "init" => After /\ Effect /\ dpc = Issue + 2 /\ dpc >= Poll
<1>1. CallInv /\ DriverInv /\ CommandInv /\ Drives(acc) /\ dpc # 0
  BY SMT DEF BusInv, Clock
<1>2. Ended
  BY <1>1 DEF Drives, Invoke, Begun, driverVars
<1>3. call' = call /\ answer' = Result /\ wb_ack
  BY <1>2 DEF Ended
<1>4. dpc = Length(call)
  <2>1. dpc + 1 # 0
    BY <1>1, SMT DEF DriverInv, Issue
  <2>. QED
    BY <1>1, <1>2, <2>1 DEF Ended
<1>5. call.op # "init" => dpc = Issue + 2 /\ dpc # Issue /\ dpc # Poll /\ dpc >= Poll
  <2>1. call.op # "init" => dpc = Issue + 2 /\ Issue \in 1 .. 2
    BY <1>1, <1>4, CallLength
  <2>. QED
    BY <2>1, SMT DEF Poll
<1>6. Resting
  BY <1>1, <1>5 DEF CommandInv, AtPoll, AtIssue
<1>7. byte_state = "idle" /\ ~Begins
  BY <1>1, <1>6, CommandTable DEF Resting, Begins
<1>8. UNCHANGED << sample, ofs, ptr, sel >>
  <2>1. IdleTurn
    BY <1>7, Turns DEF AckTurn, WorkTurn
  <2>. QED
    BY <2>1, IdleHolds DEF ChipHolds, accelVars
<1>9. call.op = "init" => Before
  BY <1>7 DEF Before
<1>10. call.op # "init" => After
  BY <1>5, <1>7 DEF After
<1>. QED
  BY <1>3, <1>5, <1>7, <1>8, <1>9, <1>10 DEF CallsInv, EffectInv

(* What the driver makes of the acknowledge.                               *)
LEMMA ResultOf ==
  ASSUME BusInv, CallsInv, dpc > 0, wb_ack, byte_state = "idle", call.op # "init", After,
         dpc = Issue + 2
  PROVE  /\ call.op = "read" => Result = ByteAsked
         /\ call.op # "read" => Result = IF Heard THEN I2C_ACK ELSE I2C_NOACK
<1>1. RegisterTypes /\ ByteInv
  BY DEF BusInv
<1>2. CASE call.op = "read"
  <2>1. wb_dat = sr
    BY <1>2 DEF CallsInv, ReplyInv
  <2>2. Shifted = sr
    BY <1>1 DEF ByteInv, Shifted
  <2>3. Shifted = ByteAsked
    BY <1>2 DEF CallsInv, ReceiveInv
  <2>. QED
    BY <1>2, <2>1, <2>2, <2>3 DEF Result
<1>3. CASE call.op # "read"
  <2>1. wb_dat \div 128 = ack_out /\ ack_out \in {0, 1}
    BY <1>1, <1>3 DEF CallsInv, ReplyInv, RegisterTypes, Bits
  <2>2. ack_out = 0 <=> Heard
    BY <1>3 DEF CallsInv, HeardInv
  <2>3. Result = IF wb_dat \div 128 = 1 THEN I2C_NOACK ELSE I2C_ACK
    BY <1>3 DEF Result
  <2>. QED
    BY <1>3, <2>1, <2>2, <2>3
<1>. QED
  BY <1>2, <1>3

(* The return of each call is the step of I2cCalls for it.                 *)
LEMMA StartReturns ==
  ASSUME BusInv, CallsInv, NEW acc, Clock(acc), dpc > 0, dpc' = 0, call.op = "start"
  PROVE  Promised!Start
<1>1. /\ call' = call /\ answer' = Result /\ wb_ack /\ byte_state = "idle"
      /\ UNCHANGED << sample, ofs, ptr, sel >> /\ After /\ StartDone /\ dpc = Issue + 2
  BY Returns DEF Effect
<1>2. Result = IF sel # "off" THEN I2C_ACK ELSE I2C_NOACK
  BY <1>1, ResultOf DEF Heard
<1>3. call = Call("start", call.arg, FALSE) /\ call.arg \in 0 .. 1
  <2>1. call = Call(call.op, call.arg, call.last) /\ call.arg \in Bits /\ ~call.last
        /\ call.last \in BOOLEAN
    BY DEF BusInv, CallInv
  <2>2. call.last = FALSE
    BY <2>1
  <2>3. call.arg \in 0 .. 1
    BY <2>1, SMT DEF Bits
  <2>. QED
    BY <2>1, <2>2, <2>3
<1>4. dpc # 0
  BY SMT
<1>5. Promised!I2C_start(call.arg = 1, sel # "off")
  BY <1>1, <1>4 DEF StartDone, Promised!I2C_start
<1>. QED
  BY <1>1, <1>2, <1>3, <1>4, <1>5 DEF Promised!Start, Promised!Call, Call

(* A byte written.                                                         *)
LEMMA WriteReturns ==
  ASSUME BusInv, CallsInv, NEW acc, Clock(acc), dpc > 0, dpc' = 0, call.op = "write"
  PROVE  Promised!Write
<1>1. /\ call' = call /\ answer' = Result /\ wb_ack /\ byte_state = "idle"
      /\ UNCHANGED << sample, ofs, ptr, sel >> /\ After /\ WriteDone /\ dpc = Issue + 2
  BY Returns DEF Effect
<1>2. Result = IF before.sel = "off" THEN I2C_NOACK ELSE I2C_ACK
  BY <1>1, ResultOf DEF Heard
<1>3. call = Call("write", call.arg, call.last) /\ call.last \in BOOLEAN
      /\ call.arg \in Pointed \cup Values
  BY DEF BusInv, CallInv, CallsInv, AskInv
<1>4. dpc # 0 /\ (Stopped <=> call.last)
  <2>1. dpc # 0
    BY SMT
  <2>. QED
    BY <1>1, <2>1 DEF Stopped
<1>5. Promised!I2C_write(call.arg, call.last)
  BY <1>1, <1>4 DEF WriteDone, Promised!I2C_write, Promised!NextReg, NextReg, Promised!OffsetRegs,
                    OffsetRegs, Promised!OFSX, OFSX, Promised!Registers, Registers,
                    Promised!DataRegs, DataRegs, Promised!DATAX0, DATAX0, Promised!OtherReg, OtherReg
<1>. QED
  BY <1>1, <1>2, <1>3, <1>4, <1>5 DEF Promised!Write, Promised!Call, Call

(* A byte read.                                                            *)
LEMMA ReadReturns ==
  ASSUME BusInv, CallsInv, NEW acc, Clock(acc), dpc > 0, dpc' = 0, call.op = "read"
  PROVE  Promised!ReadLast
<1>1. /\ call' = call /\ answer' = Result /\ wb_ack /\ byte_state = "idle"
      /\ UNCHANGED << sample, ofs, ptr, sel >> /\ After /\ ReadDone /\ dpc = Issue + 2
      /\ dpc >= Poll
  BY Returns DEF Effect
<1>2. Result = ByteAsked
  BY <1>1, ResultOf
<1>3. call = Call("read", 0, TRUE) /\ call.last
  <2>1. call = Call(call.op, call.arg, call.last) /\ call.arg = 0 /\ call.last
        /\ call.last \in BOOLEAN
    BY DEF BusInv, CallInv
  <2>2. call.last = TRUE
    BY <2>1
  <2>. QED
    BY <2>1, <2>2
<1>4. dpc # 0 /\ Stopped
  <2>1. dpc # 0
    BY SMT
  <2>. QED
    BY <1>1, <1>3, <2>1 DEF Stopped
<1>5. phase = "off"
  BY <1>1, <1>3 DEF BusInv, SyncInv, BetweenInv, Freed
<1>6. Promised!I2C_read_last
  BY <1>1, <1>4, <1>5 DEF ReadDone, Promised!I2C_read_last, Promised!NextReg, NextReg,
                    Promised!OffsetRegs, OffsetRegs, Promised!OFSX, OFSX, Promised!Registers,
                    Registers, Promised!DataRegs, DataRegs, Promised!DATAX0, DATAX0,
                    Promised!OtherReg, OtherReg
<1>. QED
  BY <1>1, <1>2, <1>3, <1>4, <1>6 DEF Promised!ReadLast, Promised!Call, Call, ByteAsked

(* What I2cCalls sees of the board.                                        *)
OfCalls ==
  << Promised!accelVars, IF dpc = 0 THEN call ELSE before.call,
     IF dpc = 0 THEN answer ELSE before.answer >>

(* The return of I2C_init, and every other step, it does not see.          *)
LEMMA InitReturns ==
  ASSUME BusInv, CallsInv, NEW acc, Clock(acc), dpc > 0, dpc' = 0, call.op = "init"
  PROVE  UNCHANGED OfCalls
<1>1. /\ call' = call /\ answer' = Result /\ UNCHANGED << sample, ofs, ptr, sel >> /\ Was
  BY Returns
<1>2. dpc # 0
  BY SMT
<1>3. before.call = InitCall /\ before.answer = 0
  BY DEF CallsInv, AskInv
<1>4. call = InitCall /\ Result = 0
  <2>1. call = Call(call.op, call.arg, call.last) /\ call.arg = 0 /\ ~call.last
        /\ call.last \in BOOLEAN
    BY DEF BusInv, CallInv
  <2>2. call.last = FALSE
    BY <2>1
  <2>. QED
    BY <2>1, <2>2 DEF InitCall, Result
<1>. QED
  BY <1>1, <1>2, <1>3, <1>4 DEF Was, OfCalls, Promised!accelVars

(* Nor does it see a call that is made, or goes on, or is yet to come.     *)
LEMMA OtherSteps ==
  ASSUME BusInv, SourceInv, NEW acc, Clock(acc), dpc = 0 \/ dpc' # 0
  PROVE  UNCHANGED OfCalls
<1>1. sample' = sample /\ Drives(acc) /\ dpc \in Nat
  BY SourceKeeps, SMT DEF Clock, BusInv, DriverInv, Issue
<1>2. CASE dpc # 0 /\ dpc' # 0
  <2>1. before' = before
    BY <1>1, <1>2 DEF Drives, Invoke, Begun, Ended
  <2>. QED
    BY <1>1, <1>2, <2>1 DEF OfCalls, Promised!accelVars
<1>3. CASE dpc = 0 /\ Invoke
  <2>1. before' = Now /\ dpc' # 0
    BY <1>3, SMT DEF Invoke
  <2>. QED
    BY <1>1, <1>3, <2>1 DEF Now, OfCalls, Promised!accelVars
<1>4. CASE dpc = 0 /\ ~Invoke
  <2>1. UNCHANGED << call, dpc, answer >>
    BY <1>1, <1>4, SMT DEF Drives, Begun, Ended, driverVars
  <2>2. ~(dpc > 0)
    BY <1>4, SMT
  <2>3. UNCHANGED << ofs, ptr, sel >>
    <3>1. byte_state = "idle" /\ ~Begins
      BY <1>4, WorksAtPoll, BeginsAtIssue
    <3>2. IdleTurn
      BY <3>1, Turns DEF AckTurn, WorkTurn
    <3>. QED
      BY <3>2, IdleHolds DEF ChipHolds, accelVars
  <2>. QED
    BY <1>1, <1>4, <2>1, <2>3 DEF OfCalls, Promised!accelVars
<1>. QED
  BY <1>2, <1>3, <1>4

(* A step of the board is one of I2cCalls, or none.                        *)
LEMMA CallsStep ==
  ASSUME BusInv, CallsInv, BusNext
  PROVE  \/ Promised!CallsNext
         \/ UNCHANGED OfCalls
<1>1. PICK acc : Clock(acc)
  BY NextIsClock DEF BusInv
<1>2. call.op \in {"init", "start", "write", "read"} /\ dpc \in Nat /\ SourceInv
  BY SMT DEF BusInv, CallInv, DriverInv, Issue, CallsInv
<1>3. CASE dpc = 0 \/ dpc' # 0
  BY <1>1, <1>2, <1>3, OtherSteps
<1>4. CASE dpc # 0 /\ dpc' = 0
  <2>1. dpc > 0
    BY <1>2, <1>4, SMT
  <2>. QED
    BY <1>1, <1>2, <1>4, <2>1, InitReturns, StartReturns, WriteReturns, ReadReturns
       DEF Promised!CallsNext
<1>. QED
  BY <1>3, <1>4

(* Nor a step that changes nothing.                                        *)
LEMMA CallsStutter ==
  ASSUME UNCHANGED vars
  PROVE  UNCHANGED OfCalls
<1>1. UNCHANGED << chipVars, driverVars, before >>
  BY DEF vars
<1>2. UNCHANGED << accelVars, call, dpc, answer, before >>
  BY <1>1 DEF chipVars, driverVars
<1>3. UNCHANGED << sample, ofs, ptr, sel >>
  BY <1>2 DEF accelVars
<1>. QED
  BY <1>2, <1>3 DEF OfCalls, Promised!accelVars

(* The board is switched on.                                               *)
LEMMA CallsStart ==
  ASSUME BusInit
  PROVE  Promised!CallsInit
BY DEF BusInit, ChipInit, AccelInit, Promised!CallsInit, Promised!AccelInit, Promised!OtherReg, OtherReg,
       Promised!InitCall, InitCall, Promised!Call, Call

(* Every call of opencores_i2c.c takes effect on the chip as a whole when  *)
(* it returns, and returns what happened: driver, controller and the two   *)
(* lines implement I2cCalls.                                               *)
THEOREM CallsImplemented ==
  ASSUME Prescale >= 2, MaxRestarts = 0
  PROVE  BusSpec => CallsAsPromised
<1>1. BusInit => Promised!CallsInit
  BY CallsStart
<1>2. BusInv /\ CallsInv /\ [BusNext]_vars => [Promised!CallsNext]_OfCalls
  BY CallsStep, CallsStutter
<1>. QED
  BY <1>1, <1>2, CallsSafe, PTL DEF BusSpec, CallsAsPromised, Promised!CallsSpec, OfCalls

----------------------------------------------------------------------------
(* The times on the lines.                                                 *)

(* The clocks of a phase, and those of the phase in progress.              *)
PhaseLength == Prescale + 1
Elapsed == IF clk_en THEN prer ELSE prer - 1 - cnt

Lasts(age, phases) == age >= phases * PhaseLength + Elapsed \/ age >= AgeCap

AgeTypes == sclAge \in 0 .. AgeCap /\ sdaAge \in 0 .. AgeCap /\ stretched \in BOOLEAN

Opening == {"start_a", "stop_a", "rd_a", "wr_a"}

LowLasts ==
  /\ Low /\ c_state = "idle" => Lasts(sclAge, 0)
  /\ Low /\ c_state \in Opening => Lasts(sclAge, 1)
  /\ Low /\ c_state \in Setting => Lasts(sclAge, 2)
  /\ ~Low /\ Scl = 0 => sclAge >= 3 * PhaseLength \/ sclAge >= AgeCap

HighLasts ==
  ~stretched =>
    /\ Scl = 1 /\ c_state \in Rising => Lasts(sclAge, 0)
    /\ c_state \in {"start_d", "stop_d", "rd_d", "wr_d"} => Lasts(sclAge, 1)
    /\ c_state = "start_e" => Lasts(sclAge, 2)

(* Before a start condition SDA is not held low by the core.               *)
ReleasedInv ==
  byte_state = "idle" \/ (byte_state = "start" /\ c_state \in {"idle", "start_a"} /\ ~core_ack) =>
    sda_oen = 1

FreeLasts ==
  phase = "off" =>
    /\ c_state = "start_a" => Lasts(sdaAge, 0)
    /\ c_state = "start_b" => Lasts(sdaAge, 1)
    /\ c_state = "start_c" => Lasts(sdaAge, 2)

TimeInv == AgeTypes /\ LowLasts /\ HighLasts /\ ReleasedInv /\ FreeLasts

(* The elapsed part of a phase, from one clock to the next.                *)
LEMMA ElapsedMoves ==
  ASSUME BusInv, NEW acc, Clock(acc), ctr = TRUE
  PROVE  /\ Prescale \in Nat /\ Elapsed \in 0 .. Prescale /\ Elapsed' \in 0 .. Prescale
         /\ clk_en = TRUE => Elapsed = Prescale /\ Elapsed' = 0
         /\ clk_en = FALSE => Elapsed' <= Elapsed + 1
<1>1. CallInv /\ DriverInv /\ PrescaleInv /\ DividerInv /\ Divider
  BY DEF BusInv, Clock, Board, CoreClock
<1>2. prer = Prescale /\ prer' = prer
  BY <1>1, EnabledStays
<1>3. Prescale \in Nat /\ 2 <= Prescale
  BY <1>1 DEF PrescaleInv
<1>4. cnt \in 0 .. prer /\ clk_en \in BOOLEAN /\ clk_en = (cnt = prer)
  BY <1>1 DEF DividerInv
<1>5. Elapsed = (IF clk_en THEN Prescale ELSE Prescale - 1 - cnt)
  BY <1>2 DEF Elapsed
<1>6. Elapsed' = (IF clk_en' THEN Prescale ELSE Prescale - 1 - cnt')
  BY <1>2 DEF Elapsed
<1>7. CASE clk_en = TRUE
  <2>1. cnt = Prescale
    BY <1>2, <1>4, <1>7
  <2>2. cnt' = Prescale - 1 /\ clk_en' = FALSE
    BY <1>1, <1>3, <2>1, SMT DEF Divider
  <2>3. Elapsed' = 0
    BY <1>3, <1>6, <2>2, SMT
  <2>4. Elapsed = Prescale
    BY <1>5, <1>7
  <2>. QED
    BY <1>3, <1>7, <2>3, <2>4, SMT
<1>8. CASE clk_en = FALSE
  <2>0. cnt # prer
    BY <1>4, <1>8
  <2>1. cnt \in 0 .. Prescale - 1
    BY <1>2, <1>3, <1>4, <2>0, SMT
  <2>2. Elapsed = Prescale - 1 - cnt
    BY <1>5, <1>8
  <2>3. CASE cnt # 0
    <3>1. cnt' = cnt - 1 /\ clk_en' = FALSE
      BY <1>1, <2>3 DEF Divider
    <3>2. Elapsed' = Prescale - 1 - cnt'
      BY <1>6, <3>1
    <3>. QED
      BY <1>3, <1>8, <2>1, <2>2, <2>3, <3>1, <3>2, SMT
  <2>4. CASE cnt = 0 /\ SlaveWait
    <3>1. cnt' = cnt /\ clk_en' = FALSE
      BY <1>1, <2>4 DEF Divider
    <3>2. Elapsed' = Prescale - 1 - cnt'
      BY <1>6, <3>1
    <3>. QED
      BY <1>3, <1>8, <2>1, <2>2, <3>1, <3>2, SMT
  <2>5. CASE cnt = 0 /\ ~SlaveWait
    <3>1. clk_en' = TRUE
      BY <1>1, <2>5 DEF Divider
    <3>2. Elapsed' = Prescale
      BY <1>6, <3>1
    <3>. QED
      BY <1>3, <1>8, <2>1, <2>2, <2>5, <3>2, SMT
  <2>. QED
    BY <2>3, <2>4, <2>5
<1>. QED
  BY <1>4, <1>7, <1>8

(* The age of a line that keeps its level, from one clock to the next.     *)
Aged(age, phases) == age >= phases * PhaseLength + Elapsed' \/ age >= AgeCap

LEMMA AgeMoves ==
  ASSUME BusInv, NEW acc, Clock(acc), ctr = TRUE, NEW age \in 0 .. AgeCap, NEW n \in 0 .. 3,
         Lasts(age, n)
  PROVE  /\ clk_en = FALSE => Aged(Older(age), n)
         /\ clk_en = TRUE => Aged(Older(age), n) /\ Aged(Older(age), n + 1)
         /\ clk_en = TRUE => Older(age) >= (n + 1) * PhaseLength \/ Older(age) >= AgeCap
         /\ clk_en = TRUE => age + 1 >= (n + 1) * PhaseLength \/ age >= AgeCap
<1>1. /\ Prescale \in Nat /\ Elapsed \in 0 .. Prescale /\ Elapsed' \in 0 .. Prescale
      /\ clk_en = TRUE => Elapsed = Prescale /\ Elapsed' = 0
      /\ clk_en = FALSE => Elapsed' <= Elapsed + 1
  BY ElapsedMoves
<1>2. AgeCap \in Nat
  BY BusAssumption
<1>3. age >= n * PhaseLength + Elapsed \/ age >= AgeCap
  BY DEF Lasts
<1>4. n = 0 \/ n = 1 \/ n = 2 \/ n = 3
  BY SMT
<1>5. n * PhaseLength \in Nat /\ (n + 1) * PhaseLength = n * PhaseLength + Prescale + 1
  BY <1>1, <1>4, SMT DEF PhaseLength
<1>6. Older(age) \in Nat /\ (Older(age) = age + 1 \/ Older(age) = AgeCap)
  BY <1>2, SMT DEF Older
<1>7. clk_en = FALSE => Aged(Older(age), n)
  <2>1. SUFFICES ASSUME clk_en = FALSE PROVE Aged(Older(age), n)
    OBVIOUS
  <2>2. Elapsed' <= Elapsed + 1
    BY <1>1, <2>1
  <2>3. Older(age) >= n * PhaseLength + Elapsed' \/ Older(age) >= AgeCap
    <3> DEFINE np == n * PhaseLength
               o == Older(age)
               e == Elapsed
               f == Elapsed'
    <3>1. /\ np \in Nat /\ o \in Nat /\ (o = age + 1 \/ o = AgeCap)
          /\ age >= np + e \/ age >= AgeCap
          /\ e \in Int /\ f \in Int /\ f <= e + 1
      BY <1>1, <1>3, <1>5, <1>6, <2>2
    <3>. HIDE DEF np, o, e, f
    <3>2. o >= np + f \/ o >= AgeCap
      BY <1>2, <3>1, SMT
    <3>. QED
      BY <3>2 DEF np, o, f
  <2>. QED
    BY <2>3 DEF Aged
<1>8. ASSUME clk_en = TRUE
      PROVE  /\ Aged(Older(age), n) /\ Aged(Older(age), n + 1)
             /\ Older(age) >= (n + 1) * PhaseLength \/ Older(age) >= AgeCap
             /\ age + 1 >= (n + 1) * PhaseLength \/ age >= AgeCap
  <2>1. Elapsed = Prescale /\ Elapsed' = 0
    BY <1>1, <1>8
  <2> DEFINE np == n * PhaseLength
             mp == (n + 1) * PhaseLength
             o == Older(age)
  <2>2. /\ np \in Nat /\ mp = np + Prescale + 1 /\ o \in Nat /\ (o = age + 1 \/ o = AgeCap)
        /\ age >= np + Elapsed \/ age >= AgeCap
    BY <1>3, <1>5, <1>6
  <2>. HIDE DEF np, mp, o
  <2>3. /\ o >= np + Elapsed' \/ o >= AgeCap
        /\ o >= mp + Elapsed' \/ o >= AgeCap
        /\ o >= mp \/ o >= AgeCap
        /\ age + 1 >= mp \/ age >= AgeCap
    BY <1>1, <1>2, <2>1, <2>2, SMT
  <2>. QED
    BY <2>3 DEF np, mp, o, Aged
<1>. QED
  BY <1>7, <1>8

(* The strides of the bit controller, and what they do to the clock line.  *)
Middle == {"start_d", "stop_d", "rd_d", "wr_d"}
Falling == {"start_e", "rd_d", "wr_d"}

Strides(from, to, scl) ==
  clk_en = TRUE /\ c_state \in from /\ c_state' \in to /\ scl_oen' = scl

Pauses == /\ c_state' = c_state /\ scl_oen' = scl_oen /\ sda_oen' = sda_oen
          /\ clk_en = FALSE \/ c_state = "idle"

LEMMA BitStrides ==
  ASSUME BusInv, NEW acc, Clock(acc)
  PROVE  \/ Pauses
         \/ Strides({"idle"}, Opening, scl_oen) /\ sda_oen' = sda_oen
         \/ Strides(Opening, Setting, scl_oen)
         \/ Strides(Setting, Rising, 1)
         \/ Strides(Rising, Middle, 1)
         \/ Strides({"start_d"}, {"start_e"}, 1)
         \/ Strides({"stop_d"}, {"idle"}, 1)
         \/ Strides(Falling, {"idle"}, 0)
<1>1. Runs /\ clk_en \in BOOLEAN /\ core_cmd \in {"nop", "start", "stop", "write", "read"}
  BY Turns, ByteCommands DEF BusInv
<1>2. /\ c_state \in {"idle"} \cup Starts \cup Stops \cup Reads \cup Writings
      /\ c_state \in {"stop_a", "rd_a", "wr_a"} => scl_oen = 0
  BY DEF BusInv, StateInv, PhaseInv, Low
<1>3. CASE clk_en = FALSE
  BY <1>1, <1>3 DEF Runs, BitHolds, Pauses
<1>4. CASE clk_en = TRUE /\ c_state = "idle"
  <2>1. \/ c_state' = "idle" /\ scl_oen' = scl_oen /\ sda_oen' = sda_oen
        \/ c_state' \in Opening /\ scl_oen' = scl_oen /\ sda_oen' = sda_oen
    BY <1>1, <1>4 DEF Runs, BitLeaves, Opening
  <2>. QED
    BY <1>4, <2>1 DEF Pauses, Strides
<1>5. CASE clk_en = TRUE /\ c_state \in Starts
  <2>1. \/ c_state = "start_a" /\ c_state' = "start_b" /\ scl_oen' = scl_oen
        \/ c_state = "start_b" /\ c_state' = "start_c" /\ scl_oen' = 1
        \/ c_state = "start_c" /\ c_state' = "start_d" /\ scl_oen' = 1
        \/ c_state = "start_d" /\ c_state' = "start_e" /\ scl_oen' = 1
        \/ c_state = "start_e" /\ c_state' = "idle" /\ scl_oen' = 0
    BY <1>1, <1>5, Waves DEF Waves4
  <2>. QED
    BY <1>5, <2>1 DEF Strides, Opening, Setting, Rising, Middle, Falling
<1>6. CASE clk_en = TRUE /\ c_state \in Stops
  <2>1. \/ c_state = "stop_a" /\ c_state' = "stop_b" /\ scl_oen' = 0
        \/ c_state = "stop_b" /\ c_state' = "stop_c" /\ scl_oen' = 1
        \/ c_state = "stop_c" /\ c_state' = "stop_d" /\ scl_oen' = 1
        \/ c_state = "stop_d" /\ c_state' = "idle" /\ scl_oen' = 1
    BY <1>1, <1>6, Waves DEF Waves4
  <2>. QED
    BY <1>2, <1>6, <2>1 DEF Strides, Opening, Setting, Rising, Middle, Falling
<1>7. CASE clk_en = TRUE /\ c_state \in Reads
  <2>1. \/ c_state = "rd_a" /\ c_state' = "rd_b" /\ scl_oen' = 0
        \/ c_state = "rd_b" /\ c_state' = "rd_c" /\ scl_oen' = 1
        \/ c_state = "rd_c" /\ c_state' = "rd_d" /\ scl_oen' = 1
        \/ c_state = "rd_d" /\ c_state' = "idle" /\ scl_oen' = 0
    BY <1>1, <1>7, Waves DEF Waves4
  <2>. QED
    BY <1>2, <1>7, <2>1 DEF Strides, Opening, Setting, Rising, Middle, Falling
<1>8. CASE clk_en = TRUE /\ c_state \in Writings
  <2>1. \/ c_state = "wr_a" /\ c_state' = "wr_b" /\ scl_oen' = 0
        \/ c_state = "wr_b" /\ c_state' = "wr_c" /\ scl_oen' = 1
        \/ c_state = "wr_c" /\ c_state' = "wr_d" /\ scl_oen' = 1
        \/ c_state = "wr_d" /\ c_state' = "idle" /\ scl_oen' = 0
    BY <1>1, <1>8, Waves DEF Waves4
  <2>. QED
    BY <1>2, <1>8, <2>1 DEF Strides, Opening, Setting, Rising, Middle, Falling
<1>. QED
  BY <1>1, <1>2, <1>3, <1>4, <1>5, <1>6, <1>7, <1>8

(* In the second half of a wave form the core leaves the clock to rise.    *)
LEMMA HighStates ==
  ASSUME BusInv
  PROVE  /\ c_state \in Rising \cup Middle \cup {"start_e"} => scl_oen = 1
         /\ c_state \in Middle \cup {"start_e"} => c_state \notin Rising
         /\ Middle \cup {"start_e"} = {"stop_d", "start_d"} \cup Falling
         /\ c_state = "idle" => c_state \notin Opening \cup Setting \cup Rising \cup Middle \cup Falling
         /\ c_state \in Opening => c_state \notin Setting \cup Rising \cup Middle \cup Falling
         /\ c_state \in Setting => c_state \notin Rising \cup Middle \cup Falling
<1>1. c_state \in Rising \cup Middle \cup {"start_e"} => scl_oen = 1
  BY DEF BusInv, PhaseInv, Gives, Rising, Middle
<1>. QED
  BY <1>1 DEF Opening, Setting, Rising, Middle, Falling

(* The clock line, from one clock to the next.                             *)
LEMMA ClockLine ==
  ASSUME BusInv, NEW acc, Clock(acc)
  PROVE  /\ scl_oen = 0 => ctr = TRUE /\ Scl = 0
         /\ scl_oen \in Bits /\ Scl \in Bits /\ Scl' \in Bits
         /\ scl_oen' = 0 => Scl' = 0
         /\ Scl = 1 /\ scl_oen' = 1 => Scl' = 1
         /\ scl_oen = 1 /\ (c_state \notin Rising \/ clk_en = TRUE) => Scl = 1
         /\ scl_oen = 1 /\ stretched' = FALSE => stretched # TRUE /\ Scl = 1
<1>1. RestInv /\ SamplesInv /\ ChipClock(Scl, Sda) /\ stretched' = (scl_oen = 1 /\ (ChipScl = 0 \/ stretched))
  BY DEF BusInv, Clock, Board
<1>2. scl_oen \in Bits /\ ~(1 = 0)
  BY <1>1, ZeroOne DEF RestInv
<1>3. scl_oen = 0 => ctr = TRUE /\ Scl = 0
  <2>1. ctr \in BOOLEAN
    BY DEF BusInv, PrescaleInv
  <2>. QED
    BY <2>1, Turns, Lines DEF Low
<1>4. scl_oen' = 0 => Scl' = 0
  BY <1>2 DEF Scl
<1>5. Scl = 1 /\ scl_oen' = 1 => Scl' = 1
  <2>1. SUFFICES ASSUME Scl = 1, scl_oen' = 1 PROVE Scl' = 1
    OBVIOUS
  <2>2. hold = 0
    BY <2>1, Lines
  <2>3. ~Falls(Scl)
    BY <1>2, <2>1 DEF Falls
  <2>4. hold' = 0
    BY <1>1, <2>2, <2>3 DEF ChipClock
  <2>5. ChipScl' = 1
    BY <2>4, SMT DEF ChipScl
  <2>. QED
    BY <2>1, <2>5 DEF Scl
<1>6. scl_oen = 1 /\ (c_state \notin Rising \/ clk_en = TRUE) => Scl = 1
  BY <1>2, LinesSeen DEF Low
<1>7. scl_oen = 1 /\ stretched' = FALSE => stretched # TRUE /\ Scl = 1
  <2>1. ChipScl = 0 \/ ChipScl = 1
    BY DEF ChipScl
  <2>. QED
    BY <1>1, <2>1 DEF Scl
<1>8. Scl \in Bits /\ Scl' \in Bits
  BY ZeroOne DEF Scl
<1>. QED
  BY <1>2, <1>3, <1>4, <1>5, <1>6, <1>7, <1>8

(* The ages of the lines, from one clock to the next.                      *)
LEMMA AgesMove ==
  ASSUME BusInv, AgeTypes, NEW acc, Clock(acc)
  PROVE  /\ AgeTypes'
         /\ Scl' = Scl => sclAge' = Older(sclAge)
         /\ Sda' = Sda => sdaAge' = Older(sdaAge)
<1>1. /\ sclAge' = IF Scl' = Scl THEN Older(sclAge) ELSE 0
      /\ sdaAge' = IF Sda' = Sda THEN Older(sdaAge) ELSE 0
      /\ stretched' = (scl_oen = 1 /\ (ChipScl = 0 \/ stretched))
  BY DEF Clock, Board
<1>2. AgeCap \in Nat
  BY BusAssumption
<1>3. Older(sclAge) \in 0 .. AgeCap /\ Older(sdaAge) \in 0 .. AgeCap /\ 0 \in 0 .. AgeCap
  BY <1>2, SMT DEF AgeTypes, Older
<1>4. sclAge' \in 0 .. AgeCap /\ sdaAge' \in 0 .. AgeCap
  BY <1>1, <1>3
<1>5. stretched' \in BOOLEAN
  BY <1>1
<1>. QED
  BY <1>1, <1>4, <1>5 DEF AgeTypes

(* The low level of the clock line lasts.                                  *)
LEMMA LowKeeps ==
  ASSUME BusInv, AgeTypes, LowLasts, NEW acc, Clock(acc)
  PROVE  LowLasts'
<1>1. /\ scl_oen = 0 => ctr = TRUE /\ Scl = 0
      /\ scl_oen \in Bits /\ Scl \in Bits /\ Scl' \in Bits
      /\ scl_oen' = 0 => Scl' = 0
      /\ Scl = 1 /\ scl_oen' = 1 => Scl' = 1
      /\ scl_oen' \in Bits /\ ~(1 = 0)
  BY ClockLine, LevelsKeep, ZeroOne
<1>2. /\ sclAge \in 0 .. AgeCap /\ sclAge' \in 0 .. AgeCap
      /\ Scl' = Scl => sclAge' = Older(sclAge)
      /\ clk_en \in BOOLEAN
  BY AgesMove, Turns DEF AgeTypes
<1>3. CASE scl_oen' = 0 /\ scl_oen = 0
  <2>1. ctr = TRUE /\ sclAge' = Older(sclAge)
    BY <1>1, <1>2, <1>3
  <2>2. /\ c_state = "idle" => Lasts(sclAge, 0)
        /\ c_state \in Opening => Lasts(sclAge, 1)
        /\ c_state \in Setting => Lasts(sclAge, 2)
    BY <1>3 DEF LowLasts, Low
  <2>3. 0 \in 0 .. 3 /\ 1 \in 0 .. 3 /\ 2 \in 0 .. 3 /\ 0 + 1 = 1 /\ 1 + 1 = 2
    BY SMT
  <2>4. /\ c_state = "idle" => Aged(sclAge', 0) /\ (clk_en = TRUE => Aged(sclAge', 1))
        /\ c_state \in Opening => (clk_en = FALSE => Aged(sclAge', 1)) /\ (clk_en = TRUE => Aged(sclAge', 2))
        /\ c_state \in Setting => (clk_en = FALSE => Aged(sclAge', 2))
    <3>1. c_state = "idle" => Aged(sclAge', 0) /\ (clk_en = TRUE => Aged(sclAge', 1))
      <4>1. SUFFICES ASSUME c_state = "idle" PROVE Aged(sclAge', 0) /\ (clk_en = TRUE => Aged(sclAge', 1))
        OBVIOUS
      <4>2. Lasts(sclAge, 0)
        BY <2>2, <4>1
      <4>3. /\ clk_en = FALSE => Aged(Older(sclAge), 0)
            /\ clk_en = TRUE => Aged(Older(sclAge), 0) /\ Aged(Older(sclAge), 0 + 1)
        BY <1>2, <2>1, <2>3, <4>2, AgeMoves
      <4>. QED
        BY <1>2, <2>1, <2>3, <4>3
    <3>2. c_state \in Opening => (clk_en = FALSE => Aged(sclAge', 1)) /\ (clk_en = TRUE => Aged(sclAge', 2))
      <4>1. SUFFICES ASSUME c_state \in Opening
                     PROVE (clk_en = FALSE => Aged(sclAge', 1)) /\ (clk_en = TRUE => Aged(sclAge', 2))
        OBVIOUS
      <4>2. Lasts(sclAge, 1)
        BY <2>2, <4>1
      <4>3. /\ clk_en = FALSE => Aged(Older(sclAge), 1)
            /\ clk_en = TRUE => Aged(Older(sclAge), 1 + 1)
        BY <1>2, <2>1, <2>3, <4>2, AgeMoves
      <4>. QED
        BY <1>2, <2>1, <2>3, <4>3
    <3>3. c_state \in Setting => (clk_en = FALSE => Aged(sclAge', 2))
      <4>1. SUFFICES ASSUME c_state \in Setting, clk_en = FALSE PROVE Aged(sclAge', 2)
        OBVIOUS
      <4>2. Lasts(sclAge, 2)
        BY <2>2, <4>1
      <4>. QED
        BY <1>2, <2>1, <2>3, <4>1, <4>2, AgeMoves
    <3>. QED
      BY <3>1, <3>2, <3>3
  <2>5. /\ c_state' = "idle" => Aged(sclAge', 0)
        /\ c_state' \in Opening => Aged(sclAge', 1)
        /\ c_state' \in Setting => Aged(sclAge', 2)
    <3>1. CASE Pauses
      BY <2>4, <3>1, HighStates DEF Pauses, Opening, Setting
    <3>2. CASE Strides({"idle"}, Opening, scl_oen)
      BY <2>4, <3>2 DEF Strides, Opening, Setting
    <3>3. CASE Strides(Opening, Setting, scl_oen)
      BY <2>4, <3>3 DEF Strides, Opening, Setting
    <3>4. CASE Strides(Falling, {"idle"}, 0)
      BY <1>1, <1>3, <3>4, HighStates DEF Strides, Falling
    <3>. QED
      BY <1>1, <1>3, <3>1, <3>2, <3>3, <3>4, BitStrides DEF Strides
  <2>. QED
    BY <1>1, <1>3, <2>5 DEF LowLasts, Low, Aged, Lasts
<1>4. CASE scl_oen' = 0 /\ scl_oen = 1
  <2>1. Strides(Falling, {"idle"}, 0)
    <3>1. ~Strides(Opening, Setting, scl_oen) /\ ~Pauses /\ ~Strides({"idle"}, Opening, scl_oen)
      BY <1>1, <1>4 DEF Strides, Pauses
    <3>. QED
      BY <1>1, <1>4, <3>1, BitStrides DEF Strides
  <2>2. c_state' = "idle" /\ clk_en = TRUE /\ ctr = TRUE
    <3>1. c_state' = "idle" /\ clk_en = TRUE /\ c_state # "idle"
      BY <2>1 DEF Strides, Falling
    <3>2. byte_state # "idle"
      BY <3>1, Turns DEF IdleTurn, AckTurn, WorkTurn, Still
    <3>. QED
      BY <3>1, <3>2, Turns
  <2>3. Elapsed' = 0
    BY <2>2, ElapsedMoves
  <2>4. sclAge' >= 0 * PhaseLength + Elapsed'
    <3>1. Prescale \in Nat
      BY <2>2, ElapsedMoves
    <3>. QED
      BY <1>2, <2>3, <3>1, SMT DEF PhaseLength
  <2>5. c_state' \notin Opening \cup Setting
    BY <2>2 DEF Opening, Setting
  <2>. QED
    BY <1>1, <1>4, <2>4, <2>5 DEF LowLasts, Low, Lasts
<1>5. CASE scl_oen' = 1
  <2>1. SUFFICES ASSUME Scl' = 0 PROVE sclAge' >= 3 * PhaseLength \/ sclAge' >= AgeCap
    BY <1>1, <1>5 DEF LowLasts, Low, PhaseLength
  <2>2. Scl = 0 /\ sclAge' = Older(sclAge)
    BY <1>1, <1>2, <1>5, <2>1 DEF Bits
  <2>3. CASE scl_oen = 1
    <3>1. sclAge >= 3 * PhaseLength \/ sclAge >= AgeCap
      BY <1>1, <2>2, <2>3 DEF LowLasts, Low
    <3>2. Prescale \in Nat /\ AgeCap \in Nat
      BY BusAssumption DEF BusInv, PrescaleInv
    <3>. QED
      BY <1>2, <2>2, <3>1, <3>2, SMT DEF Older, PhaseLength
  <2>4. CASE scl_oen = 0
    <3>1. Strides(Setting, Rising, 1)
      <4>1. c_state \notin Rising \cup Middle \cup {"start_e"}
        BY <1>1, <2>4, HighStates
      <4>2. ~Pauses /\ ~Strides({"idle"}, Opening, scl_oen) /\ ~Strides(Opening, Setting, scl_oen)
        BY <1>1, <1>5, <2>4 DEF Pauses, Strides
      <4>3. /\ ~Strides(Rising, Middle, 1) /\ ~Strides({"start_d"}, {"start_e"}, 1)
            /\ ~Strides({"stop_d"}, {"idle"}, 1) /\ ~Strides(Falling, {"idle"}, 0)
        BY <4>1, HighStates DEF Strides
      <4>. QED
        BY <4>2, <4>3, BitStrides
    <3>2. Lasts(sclAge, 2) /\ ctr = TRUE /\ clk_en = TRUE
      BY <1>1, <2>4, <3>1 DEF LowLasts, Low, Strides
    <3>3. 2 \in 0 .. 3 /\ 2 + 1 = 3
      BY SMT
    <3>4. Older(sclAge) >= (2 + 1) * PhaseLength \/ Older(sclAge) >= AgeCap
      BY <1>2, <3>2, <3>3, AgeMoves
    <3>. QED
      BY <2>2, <3>3, <3>4
  <2>. QED
    BY <1>1, <2>3, <2>4 DEF Bits
<1>. QED
  BY <1>1, <1>3, <1>4, <1>5 DEF Bits

(* The bit controller is not at rest: the divider runs.                    *)
LEMMA StridesRun ==
  ASSUME BusInv, NEW acc, Clock(acc), c_state # "idle" \/ c_state' # "idle"
  PROVE  ctr = TRUE /\ WorkTurn
<1>1. WorkTurn
  BY Turns DEF IdleTurn, AckTurn, Still
<1>2. byte_state # "idle"
  BY <1>1 DEF WorkTurn
<1>. QED
  BY <1>1, <1>2, Turns

(* So does its high level, unless the chip has stretched it.               *)
LEMMA HighKeeps ==
  ASSUME BusInv, AgeTypes, HighLasts, NEW acc, Clock(acc)
  PROVE  HighLasts'
<1>1. /\ scl_oen = 0 => ctr = TRUE /\ Scl = 0
      /\ scl_oen \in Bits /\ Scl \in Bits /\ Scl' \in Bits
      /\ Scl = 1 /\ scl_oen' = 1 => Scl' = 1
      /\ scl_oen = 1 /\ (c_state \notin Rising \/ clk_en = TRUE) => Scl = 1
      /\ scl_oen = 1 /\ stretched' = FALSE => stretched # TRUE /\ Scl = 1
      /\ ~(1 = 0)
  BY ClockLine, ZeroOne
<1>2. /\ sclAge \in 0 .. AgeCap /\ sclAge' \in 0 .. AgeCap
      /\ Scl' = Scl => sclAge' = Older(sclAge)
      /\ clk_en \in BOOLEAN
      /\ stretched \in BOOLEAN /\ stretched' \in BOOLEAN
  BY AgesMove, Turns DEF AgeTypes
<1>3. /\ c_state \in Rising \cup Middle \cup {"start_e"} => scl_oen = 1
      /\ Middle \cup {"start_e"} = {"stop_d", "start_d"} \cup Falling
      /\ c_state = "idle" => c_state \notin Opening \cup Setting \cup Rising \cup Middle \cup Falling
      /\ c_state \in Opening => c_state \notin Setting \cup Rising \cup Middle \cup Falling
      /\ c_state \in Setting => c_state \notin Rising \cup Middle \cup Falling
  BY HighStates
<1>4. 0 \in 0 .. 3 /\ 1 \in 0 .. 3 /\ 2 \in 0 .. 3 /\ 0 + 1 = 1 /\ 1 + 1 = 2
  BY SMT
<1>5. ASSUME stretched' = FALSE, c_state \in Rising \cup Middle \cup {"start_e"}, scl_oen' = 1
      PROVE  /\ ctr = TRUE /\ sclAge' = Older(sclAge)
             /\ c_state \in Rising => Lasts(sclAge, 0)
             /\ c_state \in Middle => Lasts(sclAge, 1)
             /\ c_state = "start_e" => Lasts(sclAge, 2)
  <2>1. c_state # "idle"
    BY <1>5 DEF Rising, Middle
  <2>2. ctr = TRUE
    BY <2>1, StridesRun
  <2>3. Scl = 1 /\ Scl' = 1 /\ stretched = FALSE
    BY <1>1, <1>2, <1>3, <1>5
  <2>. QED
    BY <1>2, <2>2, <2>3 DEF HighLasts, Middle
<1>6. ASSUME stretched' = FALSE, Scl' = 1, c_state' \in Rising
      PROVE  Lasts(sclAge, 0)'
  <2>1. c_state' # "idle"
    BY <1>6 DEF Rising
  <2>2. ctr = TRUE
    BY <2>1, StridesRun
  <2>3. CASE Pauses
    <3>1. c_state \in Rising /\ clk_en = FALSE /\ scl_oen' = 1
      BY <1>3, <1>6, <2>1, <2>3 DEF Pauses
    <3>2. Lasts(sclAge, 0) /\ sclAge' = Older(sclAge)
      BY <1>5, <1>6, <3>1
    <3>3. Aged(Older(sclAge), 0)
      BY <1>2, <1>4, <2>2, <3>1, <3>2, AgeMoves
    <3>. QED
      BY <3>2, <3>3 DEF Aged, Lasts
  <2>4. CASE clk_en = TRUE
    <3>1. Elapsed' = 0 /\ Prescale \in Nat
      BY <2>2, <2>4, ElapsedMoves
    <3>2. sclAge' >= 0 * PhaseLength + Elapsed'
      BY <1>2, <3>1, SMT DEF PhaseLength
    <3>. QED
      BY <3>2 DEF Lasts
  <2>. QED
    BY <2>3, <2>4, BitStrides DEF Strides
<1>7. ASSUME stretched' = FALSE, c_state' \in Middle
      PROVE  Lasts(sclAge, 1)'
  <2>1. c_state' # "idle"
    BY <1>7 DEF Middle
  <2>2. ctr = TRUE
    BY <2>1, StridesRun
  <2>3. CASE Pauses
    <3>1. c_state \in Middle /\ clk_en = FALSE /\ scl_oen' = 1
      BY <1>3, <1>7, <2>1, <2>3 DEF Pauses
    <3>2. Lasts(sclAge, 1) /\ sclAge' = Older(sclAge)
      BY <1>5, <1>7, <3>1
    <3>3. Aged(Older(sclAge), 1)
      BY <1>2, <1>4, <2>2, <3>1, <3>2, AgeMoves
    <3>. QED
      BY <3>2, <3>3 DEF Aged, Lasts
  <2>4. CASE Strides(Rising, Middle, 1)
    <3>1. c_state \in Rising /\ clk_en = TRUE /\ scl_oen' = 1
      BY <2>4 DEF Strides
    <3>2. Lasts(sclAge, 0) /\ sclAge' = Older(sclAge)
      BY <1>5, <1>7, <3>1
    <3>3. Aged(Older(sclAge), 0 + 1)
      BY <1>2, <1>4, <2>2, <3>1, <3>2, AgeMoves
    <3>. QED
      BY <1>4, <3>2, <3>3 DEF Aged, Lasts
  <2>5. c_state' \notin Opening \cup Setting \cup Rising \cup {"start_e", "idle"}
    BY <1>7 DEF Opening, Setting, Rising, Middle
  <2>. QED
    BY <2>3, <2>4, <2>5, BitStrides DEF Strides
<1>8. ASSUME stretched' = FALSE, c_state' = "start_e"
      PROVE  Lasts(sclAge, 2)'
  <2>2. ctr = TRUE
    BY <1>8, StridesRun
  <2>3. CASE Pauses
    <3>1. c_state = "start_e" /\ clk_en = FALSE /\ scl_oen' = 1
      BY <1>3, <1>8, <2>3 DEF Pauses
    <3>2. Lasts(sclAge, 2) /\ sclAge' = Older(sclAge)
      BY <1>5, <1>8, <3>1
    <3>3. Aged(Older(sclAge), 2)
      BY <1>2, <1>4, <2>2, <3>1, <3>2, AgeMoves
    <3>. QED
      BY <3>2, <3>3 DEF Aged, Lasts
  <2>4. CASE Strides({"start_d"}, {"start_e"}, 1)
    <3>1. c_state \in Middle /\ clk_en = TRUE /\ scl_oen' = 1
      BY <2>4 DEF Strides, Middle
    <3>2. Lasts(sclAge, 1) /\ sclAge' = Older(sclAge)
      BY <1>5, <1>8, <3>1
    <3>3. Aged(Older(sclAge), 1 + 1)
      BY <1>2, <1>4, <2>2, <3>1, <3>2, AgeMoves
    <3>. QED
      BY <1>4, <3>2, <3>3 DEF Aged, Lasts
  <2>5. c_state' \notin Opening \cup Setting \cup Rising \cup Middle \cup {"idle"}
    BY <1>8 DEF Opening, Setting, Rising, Middle
  <2>. QED
    BY <2>3, <2>4, <2>5, BitStrides DEF Strides
<1>9. stretched' = FALSE =>
        /\ Scl' = 1 /\ c_state' \in Rising => Lasts(sclAge, 0)'
        /\ c_state' \in Middle => Lasts(sclAge, 1)'
        /\ c_state' = "start_e" => Lasts(sclAge, 2)'
  BY <1>6, <1>7, <1>8
<1>10. Rising' = Rising
  BY DEF Rising
<1>. QED
  BY <1>2, <1>9, <1>10 DEF HighLasts, Middle

(* Between bytes the core does not hold the data line.                     *)
LEMMA ReleasedKeeps ==
  ASSUME BusInv, ReleasedInv, NEW acc, Clock(acc)
  PROVE  ReleasedInv'
<1>1. /\ CallInv /\ CommandInv /\ ByteInv /\ StateInv /\ RestInv /\ i2c_al = FALSE /\ ByteStep
      /\ Runs /\ core_ack \in BOOLEAN /\ clk_en \in BOOLEAN
  BY Turns DEF BusInv, Clock, Board, CoreClock, NotLost
<1>2. CASE IdleTurn
  BY <1>2 DEF ReleasedInv, IdleTurn, Still
<1>3. CASE AckTurn
  <2>1. sda_oen' = sda_oen /\ core_ack = TRUE /\ byte_state # "idle"
    BY <1>3 DEF AckTurn, Still
  <2>2. SUFFICES ASSUME byte_state' \in {"idle", "start"} PROVE sda_oen = 1
    BY <2>1 DEF ReleasedInv
  <2>3. byte_state = "stop" \/ (byte_state = "ack" /\ ~call.last)
    BY <1>1, <2>1, <2>2, ByteMoves DEF Goes, ByteInv
  <2>4. CASE byte_state = "stop"
    BY <1>1, <2>1, <2>4 DEF ByteInv, Works, RestInv, Gives
  <2>5. CASE byte_state = "ack" /\ ~call.last
    <3>1. call.op # "read"
      BY <1>1, <2>5 DEF CallInv, NextCall
    <3>2. core_cmd = "read"
      BY <1>1, <2>5, <3>1 DEF ByteInv, Works
    <3>. QED
      BY <1>1, <2>1, <3>2 DEF RestInv, Gives
  <2>. QED
    BY <2>3, <2>4, <2>5
<1>4. CASE WorkTurn
  <2>1. byte_state' = byte_state /\ byte_state # "idle" /\ core_ack = FALSE
    BY <1>4 DEF WorkTurn
  <2>2. SUFFICES ASSUME byte_state = "start", c_state' \in {"idle", "start_a"}, ~core_ack'
                 PROVE  sda_oen' = 1
    BY <2>1 DEF ReleasedInv
  <2>3. core_cmd = "start"
    BY <1>1, <2>2 DEF ByteInv, Works
  <2>4. CASE clk_en = FALSE
    BY <1>1, <2>1, <2>2, <2>4 DEF Runs, BitHolds, ReleasedInv
  <2>5. CASE clk_en = TRUE /\ c_state = "idle"
    BY <1>1, <2>1, <2>2, <2>3, <2>5 DEF Runs, BitLeaves, ReleasedInv
  <2>6. CASE clk_en = TRUE /\ c_state # "idle"
    <3>1. c_state \in Starts
      <4>1. c_state \notin Stops /\ c_state \notin Reads /\ c_state \notin Writings
        BY <1>1, <2>3 DEF StateInv
      <4>. QED
        BY <1>1, <2>6, <4>1 DEF StateInv
    <3>. QED
      BY <1>1, <2>2, <2>6, <3>1, Waves DEF Waves4
  <2>. QED
    BY <1>1, <2>4, <2>5, <2>6
<1>. QED
  BY <1>2, <1>3, <1>4, Turns

(* Before a start condition the chip that is off stays off.                *)
LEMMA OffBefore ==
  ASSUME BusInv, NEW acc, Clock(acc), WorkTurn, byte_state = "start",
         c_state \in {"start_a", "start_b", "start_c"}, phase' = "off"
  PROVE  phase = "off" /\ csda' = 1
<1>1. /\ ClockInv /\ DataInv /\ StartInv /\ SamplesInv /\ ChipInv /\ PhaseInv /\ ChipClock(Scl, Sda)
      /\ core_ack = FALSE /\ Scl \in Bits /\ Sda \in Bits
  BY Lines DEF BusInv, SyncInv, Clock, Board, WorkTurn
<1>2. phase \in {"off", "receive"}
  BY <1>1 DEF StartInv
<1>3. csda = 1
  BY <1>1, <1>2 DEF ChipInv, Bits
<1>4. Scl = 1 /\ sSCL = 1 => sSDA = 1 \/ Sda = sSDA
  <2>1. SUFFICES ASSUME Scl = 1, c_state # "start_c" PROVE sSDA = 1
    BY <1>1 DEF DataInv, Rising
  <2>2. ~Low
    BY <2>1, Lines, ZeroOne DEF Low
  <2>. QED
    BY <1>1, <2>1, <2>2 DEF DataInv
<1>5. Scl = 0 => sSCL = 0
  <2>1. SUFFICES ASSUME Scl = 0, sSCL = 1 PROVE FALSE
    BY <1>1 DEF SamplesInv, Bits
  <2>2. Low
    BY <2>1, Lines, ZeroOne, LinesSeen
  <2>. QED
    BY <1>1, <2>1, <2>2, ZeroOne DEF ClockInv
<1>6. \/ Scl = 1 /\ sSCL = 1 /\ sSDA = 1 /\ Sda = 0
      \/ Scl = 1 /\ sSCL = 1 /\ Sda = sSDA
      \/ Scl = 0 /\ sSCL = 0
      \/ Scl = 1 /\ sSCL = 0
  BY <1>1, <1>4, <1>5 DEF Bits, SamplesInv
<1>7. Begin \/ ChipHolds \/ TakeBit(Sda) \/ TakeAck(Sda)
  BY <1>1, <1>6, ChipMoves
<1>8. ~TakeAck(Sda)
  BY <1>2 DEF TakeAck
<1>9. ~Begin
  BY DEF Begin
<1>. QED
  BY <1>3, <1>7, <1>8, <1>9 DEF ChipHolds, TakeBit

(* So the data line has been free since the core opened the start.         *)
LEMMA FreeKeeps ==
  ASSUME BusInv, AgeTypes, ReleasedInv, FreeLasts, NEW acc, Clock(acc)
  PROVE  FreeLasts'
<1>1. /\ sdaAge \in 0 .. AgeCap /\ sdaAge' \in 0 .. AgeCap
      /\ Sda' = Sda => sdaAge' = Older(sdaAge)
      /\ clk_en \in BOOLEAN
  BY AgesMove, Turns DEF AgeTypes
<1>2. 0 \in 0 .. 3 /\ 1 \in 0 .. 3 /\ 2 \in 0 .. 3 /\ 0 + 1 = 1 /\ 1 + 1 = 2
  BY SMT
<1>3. SUFFICES ASSUME phase' = "off", c_state' \in {"start_a", "start_b", "start_c"}
               PROVE  /\ c_state' = "start_a" => Aged(sdaAge', 0)
                      /\ c_state' = "start_b" => Aged(sdaAge', 1)
                      /\ c_state' = "start_c" => Aged(sdaAge', 2)
  BY DEF FreeLasts, Aged, Lasts
<1>4. ctr = TRUE /\ WorkTurn
  BY <1>3, StridesRun
<1>5. Runs /\ StateInv /\ PhaseInv /\ ByteInv /\ RestInv /\ core_cmd' = core_cmd /\ core_ack = FALSE
      /\ StateInv'
  BY <1>4, Turns, StateKeeps DEF BusInv, WorkTurn
<1>6. core_cmd = "start" /\ byte_state = "start"
  BY <1>3, <1>4, <1>5 DEF StateInv, ByteInv, Works, Starts, WorkTurn
<1>7. CASE c_state = "idle"
  <2>1. c_state' = "start_a" /\ clk_en = TRUE
    BY <1>1, <1>3, <1>5, <1>6, <1>7 DEF Runs, BitHolds, BitLeaves
  <2>2. Elapsed' = 0 /\ Prescale \in Nat
    BY <1>4, <2>1, ElapsedMoves
  <2>3. sdaAge' >= 0 * PhaseLength + Elapsed'
    BY <1>1, <2>2, SMT DEF PhaseLength
  <2>. QED
    BY <2>1, <2>3 DEF Aged
<1>8. CASE c_state # "idle"
  <2>1. c_state \in Starts
    BY <1>5, <1>6, <1>8 DEF StateInv
  <2>2. CASE clk_en = FALSE
    <3>1. c_state' = c_state /\ sda_oen' = sda_oen
      BY <1>5, <2>2 DEF Runs, BitHolds
    <3>2. phase = "off" /\ csda' = 1
      BY <1>3, <1>4, <1>6, <3>1, OffBefore
    <3>3. Sda = sda_oen
      BY <3>2, Free
    <3>4. Sda' = sda_oen'
      BY <1>5, <3>1, <3>2 DEF Sda, RestInv, Bits
    <3>5. sdaAge' = Older(sdaAge)
      BY <1>1, <3>1, <3>3, <3>4
    <3>6. CASE c_state = "start_a"
      <4>1. Lasts(sdaAge, 0)
        BY <3>2, <3>6 DEF FreeLasts
      <4>2. Aged(Older(sdaAge), 0)
        BY <1>1, <1>2, <1>4, <2>2, <4>1, AgeMoves
      <4>. QED
        BY <3>1, <3>5, <3>6, <4>2
    <3>7. CASE c_state = "start_b"
      <4>1. Lasts(sdaAge, 1)
        BY <3>2, <3>7 DEF FreeLasts
      <4>2. Aged(Older(sdaAge), 1)
        BY <1>1, <1>2, <1>4, <2>2, <4>1, AgeMoves
      <4>. QED
        BY <3>1, <3>5, <3>7, <4>2
    <3>8. CASE c_state = "start_c"
      <4>1. Lasts(sdaAge, 2)
        BY <3>2, <3>8 DEF FreeLasts
      <4>2. Aged(Older(sdaAge), 2)
        BY <1>1, <1>2, <1>4, <2>2, <4>1, AgeMoves
      <4>. QED
        BY <3>1, <3>5, <3>8, <4>2
    <3>. QED
      BY <1>3, <3>1, <3>6, <3>7, <3>8
  <2>3. CASE clk_en = TRUE
    <3>1. \/ c_state = "start_a" /\ c_state' = "start_b" /\ sda_oen' = 1
          \/ c_state = "start_b" /\ c_state' = "start_c" /\ sda_oen' = 1
      BY <1>3, <1>5, <2>1, <2>3, Waves DEF Waves4
    <3>2. phase = "off" /\ csda' = 1
      BY <1>3, <1>4, <1>6, <3>1, OffBefore
    <3>3. sda_oen = 1
      BY <1>5, <1>6, <3>1 DEF ReleasedInv, PhaseInv
    <3>4. Sda = 1 /\ Sda' = 1
      BY <3>1, <3>2, <3>3, Free DEF Sda
    <3>5. sdaAge' = Older(sdaAge)
      BY <1>1, <3>4
    <3>6. CASE c_state = "start_a"
      <4>1. Lasts(sdaAge, 0)
        BY <3>2, <3>6 DEF FreeLasts
      <4>2. Aged(Older(sdaAge), 0 + 1)
        BY <1>1, <1>2, <1>4, <2>3, <4>1, AgeMoves
      <4>. QED
        BY <1>2, <3>1, <3>5, <3>6, <4>2
    <3>7. CASE c_state = "start_b"
      <4>1. Lasts(sdaAge, 1)
        BY <3>2, <3>7 DEF FreeLasts
      <4>2. Aged(Older(sdaAge), 1 + 1)
        BY <1>1, <1>2, <1>4, <2>3, <4>1, AgeMoves
      <4>. QED
        BY <1>2, <3>1, <3>5, <3>7, <4>2
    <3>. QED
      BY <3>1, <3>6, <3>7
  <2>. QED
    BY <1>1, <2>2, <2>3
<1>. QED
  BY <1>7, <1>8

(* The times on the lines, step by step, at rest and at the start.         *)
LEMMA TimeKeeps ==
  ASSUME BusInv, TimeInv, BusNext
  PROVE  TimeInv'
<1>1. PICK acc : Clock(acc)
  BY NextIsClock DEF BusInv
<1>. QED
  BY <1>1, AgesMove, LowKeeps, HighKeeps, ReleasedKeeps, FreeKeeps DEF TimeInv

LEMMA TimeRests ==
  ASSUME TimeInv, UNCHANGED vars
  PROVE  TimeInv'
<1>1. /\ UNCHANGED << sclAge, sdaAge, stretched, c_state, scl_oen, sda_oen, csda, hold >>
      /\ UNCHANGED << phase, prer, cnt, clk_en, byte_state, core_ack >>
  BY DEF vars, coreVars, topVars, byteVars, bitVars, chipVars
<1>2. Scl' = Scl /\ (Low' <=> Low) /\ Elapsed' = Elapsed
  BY <1>1 DEF Scl, ChipScl, Low, Elapsed
<1>3. AgeTypes' /\ ReleasedInv'
  BY <1>1 DEF TimeInv, AgeTypes, ReleasedInv
<1>4. LowLasts'
  BY <1>1, <1>2 DEF TimeInv, LowLasts, Lasts, Opening, Setting, PhaseLength
<1>5. HighLasts'
  BY <1>1, <1>2 DEF TimeInv, HighLasts, Lasts, Rising
<1>6. FreeLasts'
  BY <1>1, <1>2 DEF TimeInv, FreeLasts, Lasts
<1>. QED
  BY <1>3, <1>4, <1>5, <1>6 DEF TimeInv

LEMMA TimeBegins ==
  ASSUME BusInit
  PROVE  TimeInv
<1>1. /\ sclAge = AgeCap /\ sdaAge = AgeCap /\ stretched = FALSE /\ c_state = "idle"
      /\ scl_oen = 1 /\ sda_oen = 1
  BY DEF BusInit, CoreInit
<1>2. AgeCap \in Nat
  BY BusAssumption
<1>3. AgeTypes
  <2>1. AgeCap \in 0 .. AgeCap
    BY <1>2, SMT
  <2>. QED
    BY <1>1, <2>1 DEF AgeTypes
<1>4. AgeCap >= AgeCap
  BY <1>2, SMT
<1>5. LowLasts
  BY <1>1, <1>4, ZeroOne DEF LowLasts, Low
<1>. QED
  BY <1>1, <1>3, <1>5 DEF TimeInv, HighLasts, ReleasedInv, FreeLasts, Rising

LEMMA TimeSafe ==
  ASSUME Prescale >= 2, MaxRestarts = 0
  PROVE  BusSpec => [](BusInv /\ TimeInv)
<1>1. BusInit => TimeInv
  BY TimeBegins
<1>2. BusInv /\ TimeInv /\ [BusNext]_vars => TimeInv'
  BY TimeKeeps, TimeRests
<1>. QED
  BY <1>1, <1>2, BusSafe, PTL DEF BusSpec

(* Two of the divider's phases make up 600 ns, and three 1300 ns.          *)
LEMMA PhaseTimes ==
  ASSUME Prescale >= 2, SclSpeed <= 400000
  PROVE  /\ Clocks(600) \in Int /\ Clocks(1300) \in Int /\ Clocks(600) <= Clocks(1300)
         /\ Clocks(600) <= 2 * PhaseLength /\ Clocks(1300) <= 3 * PhaseLength
         /\ PhaseLength \in Nat
<1> DEFINE d == 5 * SclSpeed
           p == ClkFreq \div d
           m == ClkFreq \div 1000000
<1>1. ClkFreq \in Nat /\ SclSpeed \in Nat /\ SclSpeed >= 1
  BY BusAssumption
<1>2. d \in Nat /\ d >= 1 /\ d <= 2000000
  BY <1>1, SMT
<1>3. p \in Nat /\ PhaseLength = p /\ p >= 3
  <2>1. p \in Int
    BY <1>1, <1>2, SMT
  <2>2. Prescale = p - 1
    BY DEF Prescale
  <2>. QED
    BY <2>1, <2>2, SMT DEF PhaseLength
<1>4. ClkFreq < (p + 1) * 2000000
  <2>1. ClkFreq < (p + 1) * d
    <3>. HIDE DEF d
    <3>. QED
      BY <1>1, <1>2, SMT
  <2>2. (p + 1) * d <= (p + 1) * 2000000
    <3>. HIDE DEF d, p
    <3>. QED
      BY <1>2, <1>3, SMT
  <2>3. (p + 1) * d \in Int /\ (p + 1) * 2000000 \in Int
    BY <1>2, <1>3, SMT
  <2>. HIDE DEF d, p
  <2>. QED
    BY <1>1, <2>1, <2>2, <2>3, SMT
<1>5. m \in Nat /\ m <= 2 * p + 1
  <2>. HIDE DEF p
  <2>. QED
    BY <1>1, <1>3, <1>4, SMT
<1>6. Clocks(600) = (m * 600) \div 1000 /\ Clocks(1300) = (m * 1300) \div 1000
  BY DEF Clocks
<1>. HIDE DEF d, p, m
<1>7. /\ (m * 600) \div 1000 \in Int /\ (m * 1300) \div 1000 \in Int
      /\ (m * 600) \div 1000 <= (m * 1300) \div 1000
  BY <1>5, SMT
<1>8. (m * 600) \div 1000 <= 2 * p /\ (m * 1300) \div 1000 <= 3 * p
  BY <1>3, <1>5, SMT
<1>. QED
  BY <1>3, <1>6, <1>7, <1>8

(* The clock falls two phases at least after it rose, unless the chip held *)
(* it low, and rises three phases after it fell.                           *)
LEMMA ClockPeriods ==
  ASSUME BusInv, TimeInv, NEW acc, Clock(acc)
  PROVE  /\ SclMoves(1) /\ ~stretched => sclAge + 1 >= 2 * PhaseLength \/ sclAge >= AgeCap
         /\ SclMoves(0) => sclAge + 1 >= 3 * PhaseLength \/ sclAge >= AgeCap
<1>1. /\ scl_oen = 0 => ctr = TRUE /\ Scl = 0
      /\ scl_oen \in Bits /\ scl_oen' \in Bits /\ ~(1 = 0)
      /\ scl_oen' = 0 => Scl' = 0
      /\ Scl = 1 /\ scl_oen' = 1 => Scl' = 1
  BY ClockLine, LevelsKeep, ZeroOne
<1>2. /\ sclAge \in 0 .. AgeCap /\ AgeCap \in Nat /\ Prescale \in Nat
      /\ LowLasts /\ HighLasts
  BY BusAssumption DEF BusInv, PrescaleInv, TimeInv, AgeTypes
<1>3. 1 \in 0 .. 3 /\ 2 \in 0 .. 3 /\ 1 + 1 = 2 /\ 2 + 1 = 3 /\ 1 - 1 = 0 /\ 1 - 0 = 1
  BY SMT
<1>4. ASSUME Scl = 1, Scl' = 0, ~stretched
      PROVE  sclAge + 1 >= 2 * PhaseLength \/ sclAge >= AgeCap
  <2>1. scl_oen = 1 /\ scl_oen' = 0
    BY <1>1, <1>4 DEF Bits
  <2>2. Strides(Falling, {"idle"}, 0)
    <3>1. ~Strides(Opening, Setting, scl_oen) /\ ~Pauses /\ ~Strides({"idle"}, Opening, scl_oen)
      BY <1>1, <2>1 DEF Strides, Pauses
    <3>. QED
      BY <1>1, <2>1, <3>1, BitStrides DEF Strides
  <2>3. ctr = TRUE /\ clk_en = TRUE /\ c_state \in Falling
    BY <2>2, StridesRun DEF Strides, Falling
  <2>4. CASE c_state \in {"rd_d", "wr_d"}
    <3>1. Lasts(sclAge, 1)
      BY <1>2, <1>4, <2>4 DEF HighLasts
    <3>. QED
      BY <1>2, <1>3, <2>3, <3>1, AgeMoves
  <2>5. CASE c_state = "start_e"
    <3>1. Lasts(sclAge, 2)
      BY <1>2, <1>4, <2>5 DEF HighLasts
    <3>2. sclAge + 1 >= 3 * PhaseLength \/ sclAge >= AgeCap
      BY <1>2, <1>3, <2>3, <3>1, AgeMoves
    <3>. QED
      BY <1>2, <3>2, SMT DEF PhaseLength
  <2>. QED
    BY <2>3, <2>4, <2>5 DEF Falling
<1>5. ASSUME Scl = 0, Scl' = 1
      PROVE  sclAge + 1 >= 3 * PhaseLength \/ sclAge >= AgeCap
  <2>1. scl_oen' = 1
    BY <1>1, <1>5 DEF Bits
  <2>2. CASE scl_oen = 1
    <3>1. sclAge >= 3 * PhaseLength \/ sclAge >= AgeCap
      BY <1>1, <1>2, <1>5, <2>2 DEF LowLasts, Low
    <3>. QED
      BY <1>2, <3>1, SMT DEF PhaseLength
  <2>3. CASE scl_oen = 0
    <3>1. Strides(Setting, Rising, 1)
      <4>1. c_state \notin Rising \cup Middle \cup {"start_e"}
        BY <1>1, <2>3, HighStates
      <4>2. ~Pauses /\ ~Strides({"idle"}, Opening, scl_oen) /\ ~Strides(Opening, Setting, scl_oen)
        BY <1>1, <2>1, <2>3 DEF Pauses, Strides
      <4>3. /\ ~Strides(Rising, Middle, 1) /\ ~Strides({"start_d"}, {"start_e"}, 1)
            /\ ~Strides({"stop_d"}, {"idle"}, 1) /\ ~Strides(Falling, {"idle"}, 0)
        BY <4>1, HighStates DEF Strides
      <4>. QED
        BY <4>2, <4>3, BitStrides
    <3>2. Lasts(sclAge, 2) /\ ctr = TRUE /\ clk_en = TRUE
      BY <1>1, <1>2, <2>3, <3>1 DEF LowLasts, Low, Strides
    <3>. QED
      BY <1>2, <1>3, <3>2, AgeMoves
  <2>. QED
    BY <1>1, <2>2, <2>3 DEF Bits
<1>. QED
  BY <1>3, <1>4, <1>5 DEF SclMoves

(* Only a stop condition raises the data line while the clock is high, and *)
(* with the chip off only a start condition lowers it.                     *)
LEMMA DataMoves ==
  ASSUME BusInv, NEW acc, Clock(acc), Scl = 1, Scl' = 1
  PROVE  /\ Sda = 0 /\ Sda' = 1 => c_state = "stop_d" /\ clk_en = TRUE
         /\ Sda = 1 /\ Sda' = 0 /\ phase = "off" => c_state = "start_c" /\ clk_en = TRUE
<1>1. /\ CallInv /\ DataInv /\ ClockInv /\ RestInv /\ PhaseInv /\ SamplesInv /\ StateInv /\ ByteInv
      /\ ChipInv /\ StartInv /\ EndInv
  BY DEF BusInv, SyncInv
<1>2. /\ Scl \in Bits /\ Sda \in Bits /\ scl_oen \in Bits /\ sda_oen \in Bits
      /\ scl_oen' \in Bits /\ sda_oen' \in Bits /\ ~(1 = 0)
      /\ clk_en \in BOOLEAN /\ core_ack \in BOOLEAN /\ Runs
  BY <1>1, Lines, LevelsKeep, ZeroOne, Turns DEF RestInv
<1>3. scl_oen = 1 /\ scl_oen' = 1 /\ ~Low /\ ~Low'
  BY <1>2, ClockLine DEF Bits, Low
<1>4. sda_oen' = 0 => Sda' = 0
  BY <1>2 DEF Sda
<1>5. c_state \notin Rising => sSCL = 1
  BY <1>1, <1>3 DEF ClockInv
<1>6. sSCL = 1 /\ sSDA = 1 /\ sda_oen = 1 => Sda = 1
  BY <1>1, Lines DEF SamplesInv
<1>7. phase = "off" => csda' = 1
  <2>1. SUFFICES ASSUME phase = "off" PROVE csda' = 1
    OBVIOUS
  <2>2. csda = 1
    BY <1>1, <2>1 DEF ChipInv, Bits
  <2>3. ChipClock(Scl, Sda)
    BY DEF Clock, Board
  <2>4. \/ Scl = 1 /\ sSCL = 1 /\ sSDA = 1 /\ Sda = 0
        \/ Scl = 1 /\ sSCL = 1 /\ sSDA = 0 /\ Sda = 1
        \/ Scl = 1 /\ sSCL = 1 /\ Sda = sSDA
        \/ Scl = 1 /\ sSCL = 0
    BY <1>1, <1>2 DEF SamplesInv, Bits
  <2>5. Begin \/ End \/ ChipHolds \/ TakeBit(Sda) \/ TakeAck(Sda)
    BY <2>3, <2>4, ChipMoves
  <2>. QED
    BY <2>2, <2>5 DEF Begin, End, ChipHolds, TakeBit, TakeAck
<1>8. phase = "off" /\ Sda = 1 /\ Sda' = 0 => sda_oen = 1 /\ sda_oen' = 0
  BY <1>2, <1>7, Lines DEF Sda, Bits
<1>9. c_state \in {"idle", "start_a", "start_b"} /\ core_ack = FALSE => Sda = 1
  <2>1. SUFFICES ASSUME c_state \in {"idle", "start_a", "start_b"}, core_ack = FALSE PROVE Sda = 1
    OBVIOUS
  <2>2. sda_oen = 1 /\ sSDA = 1 /\ c_state \notin Rising
    BY <1>1, <1>3, <2>1 DEF RestInv, PhaseInv, DataInv, Rising
  <2>. QED
    BY <1>5, <1>6, <2>2
<1>10. CASE IdleTurn \/ AckTurn
  <2>1. c_state = "idle" /\ sda_oen = 1 /\ sda_oen' = sda_oen
    BY <1>1, <1>3, <1>10 DEF IdleTurn, AckTurn, Still, RestInv
  <2>2. sSDA' = 1
    BY <1>3, <1>10, StillData DEF IdleTurn, AckTurn
  <2>3. Sda = 1
    BY <2>2, LinesSeen
  <2>. QED
    BY <1>2, <1>8, <2>1, <2>3
<1>11. CASE WorkTurn
  <2>1. core_ack = FALSE
    BY <1>11 DEF WorkTurn
  <2>2. c_state \notin {"stop_a", "stop_b", "rd_a", "rd_b", "wr_a", "wr_b"}
    BY <1>1, <1>3 DEF PhaseInv, Gives, Low
  <2>3. CASE Pauses
    <3>1. sda_oen' = sda_oen /\ (clk_en = FALSE \/ c_state = "idle")
      BY <2>3 DEF Pauses
    <3>2. ~(Sda = 0 /\ Sda' = 1)
      <4>1. CASE c_state \in {"idle", "start_a", "start_b"}
        BY <1>2, <1>9, <2>1, <4>1
      <4>2. CASE c_state \in Rising \cup {"stop_d", "rd_d", "wr_d"}
        BY <1>2, <1>11, <3>1, <4>2, SdaStays
      <4>3. CASE c_state \in {"start_d", "start_e"}
        BY <1>1, <1>2, <1>4, <3>1, <4>3 DEF PhaseInv, Gives
      <4>. QED
        BY <1>1, <2>2, <4>1, <4>2, <4>3 DEF StateInv, Starts, Stops, Reads, Writings, Rising
    <3>. QED
      BY <1>2, <1>8, <3>1, <3>2
  <2>4. CASE clk_en = TRUE /\ c_state = "idle"
    <3>1. sda_oen' = sda_oen
      BY <1>1, <1>2, <2>4, ByteCommands DEF Runs, BitLeaves
    <3>. QED
      BY <1>2, <1>8, <1>9, <2>1, <2>4, <3>1
  <2>5. CASE clk_en = TRUE /\ c_state \in Starts
    <3>1. \/ c_state = "start_a" /\ sda_oen' = 1
          \/ c_state = "start_b" /\ sda_oen' = 1
          \/ c_state = "start_c" /\ sda_oen' = 0
          \/ c_state = "start_d" /\ sda_oen' = 0
          \/ c_state = "start_e" /\ sda_oen' = 0
      BY <1>2, <2>5, Waves DEF Waves4
    <3>2. c_state \in {"start_d", "start_e"} => sda_oen = 0
      BY <1>1 DEF PhaseInv, Gives
    <3>. QED
      BY <1>2, <1>4, <1>8, <1>9, <2>1, <2>5, <3>1, <3>2
  <2>6. CASE clk_en = TRUE /\ c_state \in Stops
    <3>1. \/ c_state = "stop_c" /\ sda_oen' = 0
          \/ c_state = "stop_d"
      BY <1>2, <2>2, <2>6, Waves DEF Waves4
    <3>2. sda_oen = 0
      BY <1>1, <3>1 DEF PhaseInv, Gives
    <3>. QED
      BY <1>2, <1>4, <1>8, <2>6, <3>1, <3>2
  <2>7. CASE clk_en = TRUE /\ c_state \in Reads \cup Writings
    <3>1. \/ c_state = "rd_c" /\ sda_oen' = 1
          \/ c_state = "wr_c" /\ sda_oen' = core_txd
      BY <1>2, <1>3, <2>2, <2>7, Waves DEF Waves4, Low
    <3>2. sda_oen' = sda_oen /\ c_state \in Rising
      BY <1>1, <3>1 DEF PhaseInv, Gives, Rising
    <3>3. Sda' = Sda
      BY <1>11, <3>2, SdaStays
    <3>. QED
      BY <1>2, <3>3
  <2>. QED
    BY <1>1, <1>2, <2>3, <2>4, <2>5, <2>6, <2>7, BitStrides DEF StateInv, Strides
<1>. QED
  BY <1>10, <1>11, Turns

(* The data line, likewise.                                                *)
LEMMA DataPeriods ==
  ASSUME BusInv, TimeInv, NEW acc, Clock(acc)
  PROVE  /\ SdaMoves(0) /\ ~stretched => sclAge + 1 >= 2 * PhaseLength \/ sclAge >= AgeCap
         /\ SdaMoves(1) /\ phase = "off" => sdaAge + 1 >= 3 * PhaseLength \/ sdaAge >= AgeCap
<1>1. /\ sclAge \in 0 .. AgeCap /\ sdaAge \in 0 .. AgeCap /\ HighLasts /\ FreeLasts
  BY DEF TimeInv, AgeTypes
<1>2. 1 \in 0 .. 3 /\ 2 \in 0 .. 3 /\ 1 + 1 = 2 /\ 2 + 1 = 3 /\ 1 - 1 = 0 /\ 1 - 0 = 1
  BY SMT
<1>3. ASSUME Scl = 1, Scl' = 1, Sda = 0, Sda' = 1, ~stretched
      PROVE  sclAge + 1 >= 2 * PhaseLength \/ sclAge >= AgeCap
  <2>1. c_state = "stop_d" /\ clk_en = TRUE
    BY <1>3, DataMoves
  <2>2. ctr = TRUE
    BY <2>1, StridesRun
  <2>3. Lasts(sclAge, 1)
    BY <1>1, <1>3, <2>1 DEF HighLasts
  <2>. QED
    BY <1>1, <1>2, <2>1, <2>2, <2>3, AgeMoves
<1>4. ASSUME Scl = 1, Scl' = 1, Sda = 1, Sda' = 0, phase = "off"
      PROVE  sdaAge + 1 >= 3 * PhaseLength \/ sdaAge >= AgeCap
  <2>1. c_state = "start_c" /\ clk_en = TRUE
    BY <1>4, DataMoves
  <2>2. ctr = TRUE
    BY <2>1, StridesRun
  <2>3. Lasts(sdaAge, 2)
    BY <1>1, <1>4, <2>1 DEF FreeLasts
  <2>. QED
    BY <1>1, <1>2, <2>1, <2>2, <2>3, AgeMoves
<1>. QED
  BY <1>2, <1>3, <1>4 DEF SdaMoves

(* The times of a step that FastModeTiming gives.                          *)
FastEnough ==
  /\ SclMoves(1) /\ ~stretched => sclAge + 1 >= Clocks(600)
  /\ SclMoves(0) => sclAge + 1 >= Clocks(1300)
  /\ SdaMoves(0) /\ ~stretched => sclAge + 1 >= Clocks(600)
  /\ SdaMoves(1) /\ phase = "off" => sdaAge + 1 >= Clocks(1300)

LEMMA StepsFastEnough ==
  ASSUME Prescale >= 2, SclSpeed <= 400000, AgeCap + 1 >= Clocks(1300), BusInv, TimeInv, BusNext
  PROVE  FastEnough
<1>1. PICK acc : Clock(acc)
  BY NextIsClock DEF BusInv
<1>2. /\ Clocks(600) \in Int /\ Clocks(1300) \in Int /\ Clocks(600) <= Clocks(1300)
      /\ Clocks(600) <= 2 * PhaseLength /\ Clocks(1300) <= 3 * PhaseLength
      /\ PhaseLength \in Nat
  BY PhaseTimes
<1>3. sclAge \in Nat /\ sdaAge \in Nat /\ AgeCap \in Nat
  BY BusAssumption, SMT DEF TimeInv, AgeTypes
<1>4. /\ sclAge + 1 >= 2 * PhaseLength \/ sclAge >= AgeCap => sclAge + 1 >= Clocks(600)
      /\ sclAge + 1 >= 3 * PhaseLength \/ sclAge >= AgeCap => sclAge + 1 >= Clocks(1300)
      /\ sdaAge + 1 >= 3 * PhaseLength \/ sdaAge >= AgeCap => sdaAge + 1 >= Clocks(1300)
  <2> DEFINE a == Clocks(600)
             b == Clocks(1300)
  <2>1. a \in Int /\ b \in Int /\ a <= b /\ a <= 2 * PhaseLength /\ b <= 3 * PhaseLength /\ AgeCap + 1 >= b
    BY <1>2
  <2>. HIDE DEF a, b
  <2>2. /\ sclAge + 1 >= 2 * PhaseLength \/ sclAge >= AgeCap => sclAge + 1 >= a
        /\ sclAge + 1 >= 3 * PhaseLength \/ sclAge >= AgeCap => sclAge + 1 >= b
        /\ sdaAge + 1 >= 3 * PhaseLength \/ sdaAge >= AgeCap => sdaAge + 1 >= b
    BY <1>2, <1>3, <2>1, SMT
  <2>. QED
    BY <2>2 DEF a, b
<1>5. /\ SclMoves(1) /\ ~stretched => sclAge + 1 >= 2 * PhaseLength \/ sclAge >= AgeCap
      /\ SclMoves(0) => sclAge + 1 >= 3 * PhaseLength \/ sclAge >= AgeCap
  BY <1>1, ClockPeriods
<1>6. /\ SdaMoves(0) /\ ~stretched => sclAge + 1 >= 2 * PhaseLength \/ sclAge >= AgeCap
      /\ SdaMoves(1) /\ phase = "off" => sdaAge + 1 >= 3 * PhaseLength \/ sdaAge >= AgeCap
  BY <1>1, DataPeriods
<1>. QED
  BY <1>4, <1>5, <1>6 DEF FastEnough

(* What PRERLO and PRERHI divide the clock to keeps the times of fast mode,*)
(* for every clock of the system and every speed up to 400 kHz.            *)
THEOREM TimesOfFastMode ==
  ASSUME Prescale >= 2, MaxRestarts = 0, SclSpeed <= 400000, AgeCap + 1 >= Clocks(1300)
  PROVE  BusSpec => FastModeTiming
<1>1. BusInv /\ TimeInv /\ [BusNext]_vars => [FastEnough]_vars
  BY StepsFastEnough
<1>2. BusSpec => [](BusInv /\ TimeInv)
  BY TimeSafe
<1>3. BusSpec => [][FastEnough]_vars
  BY <1>1, <1>2, PTL DEF BusSpec
<1>. QED
  BY <1>3 DEF FastModeTiming, FastEnough
=============================================================================
