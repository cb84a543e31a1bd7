------------------------------ MODULE MCI2cBus ------------------------------
(***************************************************************************)
(* Small instances of I2cBus.                                              *)
(***************************************************************************)
EXTENDS I2cBus

(* Bytes 0xF8 and 0x0A: both begin and end differently.                    *)
BusSample == { [a \in Axes |-> IF a = 0 THEN 2808 ELSE 65535] }
BusOffsets == { [a \in Axes |-> 6] }
=============================================================================
