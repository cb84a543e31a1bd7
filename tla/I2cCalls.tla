------------------------------ MODULE I2cCalls ------------------------------
(***************************************************************************)
(* What opencores_i2c.h promises its caller: each call takes effect on the *)
(* chip as a whole, and its result says what happened.  Lab3 uses the      *)
(* calls in this form; I2cBus shows that the driver, the controller and    *)
(* the two lines provide it.                                               *)
(***************************************************************************)
EXTENDS Accelerometer

CONSTANTS
  I2C_ACK, I2C_NOACK,
  Arguments       \* the bytes the caller writes

VARIABLES
  call,           \* the last call made
  answer          \* its result

Call(op, arg, last) == [op |-> op, arg |-> arg, last |-> last]
InitCall == Call("init", 0, FALSE)

CallsInit == AccelInit /\ call = InitCall /\ answer = 0

Start ==
  \E arg \in 0..1, ack \in BOOLEAN :
    /\ call' = Call("start", arg, FALSE)
    /\ I2C_start(arg = 1, ack)
    /\ answer' = IF ack THEN I2C_ACK ELSE I2C_NOACK

Write ==
  \E byte \in Arguments, last \in BOOLEAN :
    /\ call' = Call("write", byte, last)
    /\ I2C_write(byte, last)
    /\ answer' = IF sel = "off" THEN I2C_NOACK ELSE I2C_ACK

ReadLast ==
  /\ call' = Call("read", 0, TRUE)
  /\ I2C_read_last
  /\ answer' = ReadByte

CallsNext == Start \/ Write \/ ReadLast

CallsSpec == CallsInit /\ [][CallsNext]_<< accelVars, call, answer >>
=============================================================================
