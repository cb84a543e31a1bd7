--------------------------- MODULE Accelerometer ---------------------------
(***************************************************************************)
(* The ADXL345 as main.c uses it over I2C.  The chip is not in the         *)
(* repository: its registers and its answers are those the driver calls    *)
(* of main.c rely on (register pointer set by the first byte written,      *)
(* 0x1E..0x20 the offsets, 0x32..0x37 the six data bytes).  Each operation *)
(* is one driver call, from the command it issues to the end of its wait   *)
(* on TIP.                                                                 *)
(***************************************************************************)
EXTENDS Measure

CONSTANTS
  Samples,        \* the readings the chip may hold: raw word of each axis
  ResetOffsets    \* what a CPU reset may find in the offset registers

Axes == 0..2                        \* X, Y and Z, as cnt % 3 numbers them

ASSUME SamplesAssumption ==
  /\ Samples # {} /\ Samples \subseteq [Axes -> Word]
  /\ ResetOffsets \subseteq [Axes -> Byte] /\ ResetOffsets # {}

OFSX == 30                          \* X_Offset_add, 0x1E
DATAX0 == 50                        \* X_add_0, 0x32
OffsetRegs == OFSX..(OFSX + 2)
DataRegs == DATAX0..(DATAX0 + 5)
OtherReg == 0                       \* stands for every register not used here
Registers == OffsetRegs \cup DataRegs \cup {OtherReg}

(* The pointer moves on after each byte.                                   *)
NextReg(r) == IF r + 1 \in Registers THEN r + 1 ELSE OtherReg

VARIABLES
  sample,         \* the sample in the data registers
  ofs,            \* the offset registers
  ptr,            \* the register the next data byte goes to or comes from
  sel             \* the chip's part in the current transaction

accelVars == << sample, ofs, ptr, sel >>

Selections == {"off", "pointer", "data", "read"}

AccelTypeOK ==
  /\ sample \in Samples
  /\ ofs \in [Axes -> Byte]
  /\ ptr \in Byte
  /\ sel \in Selections

(* A reset of the processor does not reset the chip: what it holds then is *)
(* left over from before.                                                  *)
AccelInit ==
  /\ sample \in Samples
  /\ ofs \in ResetOffsets
  /\ ptr = OtherReg
  /\ sel = "off"

(* The chip replaces the six data bytes together, at its own rate.         *)
NewSample ==
  /\ sample' \in Samples \ {sample}
  /\ UNCHANGED << ofs, ptr, sel >>

(* I2C_start(base, add, read): the address byte; without an acknowledge    *)
(* nobody listens to what follows.                                         *)
I2C_start(read, ack) ==
  /\ sel' = IF ~ack THEN "off" ELSE IF read THEN "read" ELSE "pointer"
  /\ UNCHANGED << sample, ofs, ptr >>

(* I2C_write(base, data, last).                                            *)
I2C_write(byte, last) ==
  /\ ptr' = CASE sel = "pointer" -> byte
              [] sel = "data" -> NextReg(ptr)
              [] OTHER -> ptr
  /\ ofs' = IF sel = "data" /\ ptr \in OffsetRegs
            THEN [ofs EXCEPT ![ptr - OFSX] = byte] ELSE ofs
  /\ sel' = IF last \/ sel = "off" THEN "off" ELSE "data"
  /\ UNCHANGED sample

(* The byte I2C_read(base, 1) returns: with no chip driving it the data    *)
(* line stays high.                                                        *)
ReadByte ==
  CASE sel = "read" /\ ptr \in DataRegs ->
         LET axis == (ptr - DATAX0) \div 2
         IN  IF ptr % 2 = 0 THEN sample[axis] % 256 ELSE sample[axis] \div 256
    [] sel = "read" /\ ptr \in OffsetRegs -> ofs[ptr - OFSX]
    [] OTHER -> 255

I2C_read_last ==
  /\ ptr' = IF sel = "read" THEN NextReg(ptr) ELSE ptr
  /\ sel' = "off"
  /\ UNCHANGED << sample, ofs >>
=============================================================================
