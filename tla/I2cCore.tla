------------------------------ MODULE I2cCore ------------------------------
(***************************************************************************)
(* The OpenCores I2C master, one step per clock.  Each operator is one     *)
(* always block (or a group of them on the same registers) of the files    *)
(* i2c_master_top.v, i2c_master_byte_ctrl.v and i2c_master_bit_ctrl.v, and *)
(* gives the next value of the registers it is named for; registers keep   *)
(* the names of the source, the byte controller's state excepted.  The     *)
(* reset is the initial state.  A clock has two inputs: the processor's    *)
(* access to the registers, and the level of the two lines (1 is high).    *)
(***************************************************************************)
EXTENDS Integers

VARIABLES
  prer, ctr, txr, cr,                 \* registers the processor writes
  wb_ack, wb_dat,                     \* its acknowledge and its read data
  rxack, tip, al, irq_flag,           \* the status register
  byte_state, core_cmd, core_txd, shift, ld, done, ack_out, sr, dcnt,
                                      \* byte controller
  c_state, core_ack, scl_oen, sda_oen, sda_chk, core_rxd, cmd_stop,
  dscl_oen, cnt, clk_en, sSCL, sSDA, dSCL, dSDA,
  sta_condition, sto_condition, busy, i2c_al
                                      \* bit controller

topVars  == << prer, ctr, txr, cr, wb_ack, wb_dat, rxack, tip, al, irq_flag >>
byteVars == << byte_state, core_cmd, core_txd, shift, ld, done, ack_out, sr, dcnt >>
bitVars  == << c_state, core_ack, scl_oen, sda_oen, sda_chk, core_rxd, cmd_stop,
               dscl_oen, cnt, clk_en, sSCL, sSDA, dSCL, dSDA,
               sta_condition, sto_condition, busy, i2c_al >>
coreVars == << topVars, byteVars, bitVars >>

Bit(b) == IF b THEN 1 ELSE 0

CoreInit ==
  /\ prer = 65535 /\ ctr = FALSE /\ txr = 0 /\ cr = {}
  /\ wb_ack = FALSE /\ wb_dat = 0
  /\ rxack = 0 /\ tip = FALSE /\ al = FALSE /\ irq_flag = FALSE
  /\ byte_state = "idle" /\ core_cmd = "nop" /\ core_txd = 0 /\ shift = FALSE
  /\ ld = FALSE /\ done = FALSE /\ ack_out = 0 /\ sr = 0 /\ dcnt = 0
  /\ c_state = "idle" /\ core_ack = FALSE /\ scl_oen = 1 /\ sda_oen = 1
  /\ sda_chk = FALSE /\ core_rxd = 0 /\ cmd_stop = FALSE /\ dscl_oen = 1
  /\ cnt = 0 /\ clk_en = TRUE
  /\ sSCL = 1 /\ sSDA = 1 /\ dSCL = 1 /\ dSDA = 1
  /\ sta_condition = FALSE /\ sto_condition = FALSE /\ busy = FALSE
  /\ i2c_al = FALSE

----------------------------------------------------------------------------
(* i2c_master_top.  An access is none, a read or a write of a register.    *)

NoAccess == [do |-> "none", reg |-> "none", dat |-> 0]
ReadOf(reg) == [do |-> "read", reg |-> reg, dat |-> 0]
WriteOf(reg, dat) == [do |-> "write", reg |-> reg, dat |-> dat]

StatusWord ==
  128 * rxack + 64 * Bit(busy) + 32 * Bit(al) + 2 * Bit(tip) + Bit(irq_flag)

(* The data is registered with the acknowledge; outside a read nobody looks*)
(* at it.                                                                  *)
Acknowledge(acc) ==
  /\ wb_ack' = (acc.do # "none" /\ ~wb_ack)
  /\ wb_dat' = CASE acc = ReadOf("SR") -> StatusWord
                 [] acc = ReadOf("RXR") -> sr
                 [] OTHER -> 0

Writes(acc, reg) == acc.do = "write" /\ acc.reg = reg

WriteRegisters(acc) ==
  /\ prer' = CASE Writes(acc, "PRERLO") -> 256 * (prer \div 256) + acc.dat
               [] Writes(acc, "PRERHI") -> 256 * acc.dat + (prer % 256)
               [] OTHER -> prer
  /\ ctr' = IF Writes(acc, "CTR") THEN acc.dat ELSE ctr
  /\ txr' = IF Writes(acc, "TXR") THEN acc.dat ELSE txr

(* A faulty CommandRegister: a command that is done stays.                 *)
CommandStays(acc) ==
  cr' = IF acc.do = "write"
        THEN IF ctr /\ acc.reg = "CR" THEN acc.dat ELSE cr
        ELSE (IF i2c_al THEN cr \ {"sta", "sto", "rd", "wr"} ELSE cr) \ {"iack"}

(* The command bits clear themselves when the command is done or the bus   *)
(* is lost, but not in a clock with a write; a disabled core takes none.   *)
CommandRegister(acc) ==
  cr' = IF acc.do = "write"
        THEN IF ctr /\ acc.reg = "CR" THEN acc.dat ELSE cr
        ELSE (IF done \/ i2c_al THEN cr \ {"sta", "sto", "rd", "wr"} ELSE cr)
             \ {"iack"}

StatusRegister ==
  /\ al' = (i2c_al \/ (al /\ "sta" \notin cr))
  /\ rxack' = ack_out
  /\ tip' = (cr \cap {"rd", "wr"} # {})
  /\ irq_flag' = ((done \/ i2c_al \/ irq_flag) /\ "iack" \notin cr)

----------------------------------------------------------------------------
(* i2c_master_byte_ctrl                                                    *)

ShiftRegister ==
  /\ sr' = IF ld THEN txr ELSE IF shift THEN (2 * sr + core_rxd) % 256 ELSE sr
  /\ dcnt' = IF ld THEN 7 ELSE IF shift THEN (dcnt + 7) % 8 ELSE dcnt

Go == cr \cap {"rd", "wr", "sto"} # {} /\ ~done

(* The state machine goes to state with a bit command, shifting or loading.*)
Order(state, cmd) == byte_state' = state /\ core_cmd' = cmd
Shifts(l, s) == ld' = l /\ shift' = s

ByteStep ==
  IF i2c_al
  THEN /\ Order("idle", "nop") /\ Shifts(FALSE, FALSE)
       /\ core_txd' = 0 /\ done' = FALSE /\ ack_out' = 0
  ELSE
  \/ /\ byte_state = "idle" /\ Go
     /\ IF "sta" \in cr THEN Order("start", "start")
        ELSE IF "rd" \in cr THEN Order("read", "read")
        ELSE IF "wr" \in cr THEN Order("write", "write")
        ELSE Order("stop", "stop")
     /\ Shifts(TRUE, FALSE)
     /\ core_txd' = sr \div 128 /\ done' = FALSE /\ UNCHANGED ack_out
  \/ /\ IF byte_state = "idle" THEN ~Go ELSE ~core_ack
     /\ UNCHANGED << byte_state, core_cmd, ack_out >> /\ Shifts(FALSE, FALSE)
     /\ core_txd' = IF byte_state = "ack" THEN Bit("ack" \in cr) ELSE sr \div 128
     /\ done' = FALSE
  \/ /\ byte_state = "start" /\ core_ack
     /\ IF "rd" \in cr THEN Order("read", "read") ELSE Order("write", "write")
     /\ Shifts(TRUE, FALSE)
     /\ core_txd' = sr \div 128 /\ done' = FALSE /\ UNCHANGED ack_out
  \/ /\ byte_state = "write" /\ core_ack
     /\ IF dcnt = 0 THEN Order("ack", "read") ELSE Order("write", "write")
     /\ Shifts(FALSE, dcnt # 0)
     /\ core_txd' = sr \div 128 /\ done' = FALSE /\ UNCHANGED ack_out
  \/ /\ byte_state = "read" /\ core_ack
     /\ IF dcnt = 0 THEN Order("ack", "write") ELSE Order("read", "read")
     /\ Shifts(FALSE, TRUE)
     /\ core_txd' = Bit("ack" \in cr) /\ done' = FALSE /\ UNCHANGED ack_out
  \/ /\ byte_state = "ack" /\ core_ack
     /\ IF "sto" \in cr THEN Order("stop", "stop") ELSE Order("idle", "nop")
     /\ done' = ("sto" \notin cr)
     /\ Shifts(FALSE, FALSE)
     /\ core_txd' = 1 /\ ack_out' = core_rxd
  \/ /\ byte_state = "stop" /\ core_ack
     /\ Order("idle", "nop") /\ Shifts(FALSE, FALSE)
     /\ core_txd' = sr \div 128 /\ done' = TRUE /\ UNCHANGED ack_out

----------------------------------------------------------------------------
(* i2c_master_bit_ctrl                                                     *)

(* A faulty SlaveWait: the divider runs on.                                *)
NoSlaveWait == FALSE

(* A slave that keeps the released clock line low stops the divider.       *)
SlaveWait == dscl_oen = 1 /\ sSCL = 0

Divider ==
  /\ dscl_oen' = scl_oen
  /\ IF cnt = 0 \/ ~ctr
     THEN /\ cnt' = IF SlaveWait THEN cnt ELSE prer
          /\ clk_en' = ~SlaveWait
     ELSE cnt' = cnt - 1 /\ clk_en' = FALSE

Synchronise(scl, sda) ==
  /\ sSCL' = scl /\ sSDA' = sda
  /\ dSCL' = sSCL /\ dSDA' = sSDA

(* SDA is sampled where SCL is seen to rise.                               *)
DataOut == core_rxd' = IF sSCL = 1 /\ dSCL = 0 THEN sSDA ELSE core_rxd

BusStatus ==
  /\ sta_condition' = (sSDA = 0 /\ dSDA = 1 /\ sSCL = 1)
  /\ sto_condition' = (sSDA = 1 /\ dSDA = 0 /\ sSCL = 1)
  /\ busy' = ((sta_condition \/ busy) /\ ~sto_condition)

Arbitration ==
  /\ cmd_stop' = IF clk_en THEN core_cmd = "stop" ELSE cmd_stop
  /\ i2c_al' = (\/ sda_chk /\ sSDA = 0 /\ sda_oen = 1
                \/ c_state # "idle" /\ sto_condition /\ ~cmd_stop)

(* From each state: the next one, and the levels it gives SCL and SDA.     *)
Wave == LET To(s, scl, sda) == [next |-> s, scl |-> scl, sda |-> sda] IN
  [ start_a |-> To("start_b", scl_oen, 1),  start_b |-> To("start_c", 1, 1),
    start_c |-> To("start_d", 1, 0),        start_d |-> To("start_e", 1, 0),
    start_e |-> To("idle", 0, 0),
    stop_a |-> To("stop_b", 0, 0),          stop_b |-> To("stop_c", 1, 0),
    stop_c |-> To("stop_d", 1, 0),          stop_d |-> To("idle", 1, 1),
    rd_a |-> To("rd_b", 0, 1),              rd_b |-> To("rd_c", 1, 1),
    rd_c |-> To("rd_d", 1, 1),              rd_d |-> To("idle", 0, 1),
    wr_a |-> To("wr_b", 0, core_txd),       wr_b |-> To("wr_c", 1, core_txd),
    wr_c |-> To("wr_d", 1, core_txd),       wr_d |-> To("idle", 0, core_txd) ]

(* A faulty FirstState: start and stop exchanged.                          *)
FirstStateExchanged ==
  [ nop |-> "idle", start |-> "stop_a", stop |-> "start_a",
    write |-> "wr_a", read |-> "rd_a" ]

FirstState == [ nop |-> "idle", start |-> "start_a", stop |-> "stop_a",
                write |-> "wr_a", read |-> "rd_a" ]

(* A faulty Checked: SDA is compared before it can have settled.           *)
CheckedAtOnce(s) == s \in {"wr_a", "wr_b", "wr_c"}

(* The states that compare the line with what the core gives it.           *)
Checked(s) == s \in {"wr_b", "wr_c"}

BitStep ==
  CASE i2c_al ->
         /\ c_state' = "idle" /\ core_ack' = FALSE /\ sda_chk' = FALSE
         /\ scl_oen' = 1 /\ sda_oen' = 1
    [] ~i2c_al /\ ~clk_en ->
         /\ core_ack' = FALSE /\ UNCHANGED << c_state, scl_oen, sda_oen, sda_chk >>
    [] ~i2c_al /\ clk_en /\ c_state = "idle" ->
         /\ c_state' = FirstState[core_cmd]
         /\ core_ack' = FALSE /\ sda_chk' = FALSE
         /\ UNCHANGED << scl_oen, sda_oen >>
    [] ~i2c_al /\ clk_en /\ c_state # "idle" ->
         /\ c_state' = Wave[c_state].next
         /\ core_ack' = (Wave[c_state].next = "idle")
         /\ scl_oen' = Wave[c_state].scl /\ sda_oen' = Wave[c_state].sda
         /\ sda_chk' = Checked(c_state)

----------------------------------------------------------------------------
(* One rising edge of the clock.                                           *)
CoreClock(acc, scl, sda) ==
  /\ Acknowledge(acc) /\ WriteRegisters(acc) /\ CommandRegister(acc) /\ StatusRegister
  /\ ShiftRegister /\ ByteStep
  /\ Divider /\ Synchronise(scl, sda) /\ DataOut /\ BusStatus /\ Arbitration /\ BitStep
=============================================================================
