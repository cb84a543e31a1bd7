------------------------------- MODULE Alarms -------------------------------
(***************************************************************************)
(* What the alarm service of the HAL promises, with a clock that never     *)
(* rolls over and no list: an alarm started for n ticks rings when those   *)
(* ticks have elapsed, neither earlier nor later; what its callback        *)
(* returns is the time to the next ring; zero, or stopping the alarm,      *)
(* ends it.  HalClock implements it.                                       *)
(***************************************************************************)
EXTENDS Integers

CONSTANTS Alarms, NoAlarm, Intervals, Periods

VARIABLES
  left,       \* ticks until each alarm rings, Off when it is not started
  ringing     \* the alarm whose callback runs

promised == << left, ringing >>

Off == -1

PromiseInit == left = [a \in Alarms |-> Off] /\ ringing = NoAlarm

Started(a, n) ==
  left[a] = Off /\ left' = [left EXCEPT ![a] = n + 1] /\ UNCHANGED ringing

Stopped(a) == left' = [left EXCEPT ![a] = Off] /\ UNCHANGED ringing

(* The clock moves on only when every alarm that is due has rung.          *)
Elapsed ==
  /\ ringing = NoAlarm
  /\ \A a \in Alarms : left[a] # 0
  /\ left' = [a \in Alarms |-> IF left[a] = Off THEN Off ELSE left[a] - 1]
  /\ UNCHANGED ringing

Rings(a) ==
  ringing = NoAlarm /\ left[a] = 0 /\ ringing' = a /\ UNCHANGED left

Answered(n) ==
  /\ ringing # NoAlarm
  /\ ringing' = NoAlarm
  /\ left' = [left EXCEPT ![ringing] = IF n = 0 \/ @ = Off THEN Off ELSE n]

PromiseNext ==
  \/ Elapsed
  \/ \E a \in Alarms : Stopped(a) \/ Rings(a)
  \/ \E n \in Periods : Answered(n)
  \/ \E n \in Intervals, a \in Alarms : Started(a, n)
=============================================================================
