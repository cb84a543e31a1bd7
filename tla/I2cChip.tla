------------------------------ MODULE I2cChip ------------------------------
(***************************************************************************)
(* The accelerometer at the level of the two lines: it watches them at     *)
(* every clock, answers to its address, and does with each byte what       *)
(* Accelerometer says.  External, like Accelerometer: any I2C slave that   *)
(* follows the protocol the driver relies on.                              *)
(***************************************************************************)
EXTENDS Accelerometer

CONSTANTS
  Answers,        \* whether the chip acknowledges its address: TRUE, FALSE
  Stretches       \* clocks it may hold SCL low after SCL falls

ASSUME ChipAssumption ==
  /\ Answers \subseteq BOOLEAN /\ Answers # {}
  /\ Stretches \subseteq Nat /\ Stretches # {}

I2C_add == 29                         \* 0x1D

VARIABLES
  phase,          \* what the chip is doing
  bits, nbits,    \* the byte received or sent, and the bits of it done
  csda,           \* the level it gives SDA
  hold,           \* clocks it still holds SCL low
  pscl, psda      \* the lines a clock ago

chipVars == << accelVars, phase, bits, nbits, csda, hold, pscl, psda >>

(* The i-th bit of a byte, counted from the first one sent.                *)
Weight == << 128, 64, 32, 16, 8, 4, 2, 1 >>
Nth(value, i) == (value \div Weight[i]) % 2

ChipInit ==
  /\ AccelInit
  /\ phase = "off" /\ bits = 0 /\ nbits = 0 /\ csda = 1
  /\ hold = 0 /\ pscl = 1 /\ psda = 1

ChipScl == IF hold > 0 THEN 0 ELSE 1

Steady(scl) == scl = 1 /\ pscl = 1
StartSeen(scl, sda) == Steady(scl) /\ psda = 1 /\ sda = 0
StopSeen(scl, sda) == Steady(scl) /\ psda = 0 /\ sda = 1
Rises(scl) == pscl = 0 /\ scl = 1
Falls(scl) == pscl = 1 /\ scl = 0

Begin ==
  /\ phase' = "address" /\ bits' = 0 /\ nbits' = 0 /\ csda' = 1
  /\ UNCHANGED accelVars

End ==
  /\ phase' = "off" /\ csda' = 1 /\ UNCHANGED << bits, nbits >>
  /\ sel' = "off" /\ UNCHANGED << sample, ofs, ptr >>

TakeBit(sda) ==
  /\ phase \in {"address", "receive"} /\ nbits < 8
  /\ bits' = (2 * bits + sda) % 256 /\ nbits' = nbits + 1
  /\ UNCHANGED << phase, csda, accelVars >>

TakeAddress ==
  /\ phase = "address" /\ nbits = 8
  /\ \E ack \in Answers :
       LET mine == ack /\ bits \div 2 = I2C_add
       IN  /\ I2C_start(bits % 2 = 1, mine)
           /\ phase' = IF mine THEN "ack" ELSE "off"
           /\ csda' = IF mine THEN 0 ELSE 1
  /\ UNCHANGED << bits, nbits >>

TakeByte ==
  /\ phase = "receive" /\ nbits = 8
  /\ I2C_write(bits, FALSE)
  /\ phase' = "ack" /\ csda' = 0 /\ UNCHANGED << bits, nbits >>

(* After an acknowledge, its own or the master's, the next byte.           *)
NextByte ==
  /\ phase = "ack"
  /\ IF sel = "read"
     THEN /\ phase' = "send" /\ bits' = ReadByte /\ nbits' = 1
          /\ csda' = Nth(bits', 1)
     ELSE phase' = "receive" /\ bits' = 0 /\ nbits' = 0 /\ csda' = 1
  /\ UNCHANGED accelVars

SendBit ==
  /\ phase = "send"
  /\ IF nbits = 8
     THEN phase' = "wait" /\ csda' = 1 /\ UNCHANGED nbits
     ELSE nbits' = nbits + 1 /\ csda' = Nth(bits, nbits') /\ UNCHANGED phase
  /\ UNCHANGED << bits, accelVars >>

(* The master's acknowledge of a byte sent: without it the chip is done.   *)
TakeAck(sda) ==
  /\ phase = "wait"
  /\ phase' = IF sda = 0 THEN "ack" ELSE "off"
  /\ ptr' = NextReg(ptr)
  /\ UNCHANGED << bits, nbits, csda, sample, ofs, sel >>

Indifferent(scl, sda) ==
  /\ ~StartSeen(scl, sda) /\ ~StopSeen(scl, sda)
  /\ Rises(scl) => phase \notin {"address", "receive", "wait"}
  /\ Falls(scl) => \/ phase = "off"
                   \/ phase \in {"address", "receive"} /\ nbits < 8
                   \/ phase = "wait"
  /\ UNCHANGED << phase, bits, nbits, csda, accelVars >>

ChipClock(scl, sda) ==
  /\ \/ StartSeen(scl, sda) /\ Begin
     \/ StopSeen(scl, sda) /\ End
     \/ Rises(scl) /\ (TakeBit(sda) \/ TakeAck(sda))
     \/ Falls(scl) /\ (TakeAddress \/ TakeByte \/ NextByte \/ SendBit)
     \/ Indifferent(scl, sda)
  /\ IF Falls(scl) THEN hold' \in Stretches
     ELSE hold' = IF hold = 0 THEN 0 ELSE hold - 1
  /\ pscl' = scl /\ psda' = sda
=============================================================================
