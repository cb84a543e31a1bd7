--------------------------- MODULE IntervalTimer ---------------------------
(***************************************************************************)
(* The interval timer, clock by clock with at most one register access per *)
(* clock, and the two drivers that may own it: the system clock, as in     *)
(* this project, or the timestamp facility.  Interrupts of other lines and *)
(* the interconnect put any number of clocks between two accesses.         *)
(***************************************************************************)
EXTENDS Integers

CONSTANTS
  Half,          \* values of a 16-bit register
  Period,        \* what the period registers hold at reset, as one word
  MaxClocks      \* bound on the clocks a history variable counts

Full == Half * Half - 1      \* 0xFFFFFFFF

ASSUME TimerAssumption ==
  /\ Half \in Nat \ {0, 1}
  /\ Period \in 1 .. Full
  /\ MaxClocks \in Nat /\ MaxClocks > Full

VARIABLES
  internal_counter, counter_is_running, force_reload, was_zero,
  timeout_occurred, period_l, period_h, continuous, interrupt_enable,
  counter_snapshot,
  owner,         \* "sysclk" or "timestamp"
  pc,            \* the next access of the driver
  lower,         \* alt_timestamp: what SNAPL read
  since,         \* clocks since the counter was started or last expired
  taken,         \* since, when the snapshot last returned was taken
  result,        \* what alt_timestamp() returned
  owed,          \* expiries minus ticks delivered
  late           \* an expiry came before the one before it was acknowledged

core == << internal_counter, counter_is_running, force_reload, was_zero,
           timeout_occurred, period_l, period_h, continuous,
           interrupt_enable, counter_snapshot >>
history == << since, taken, owed, late >>
timerVars == << core, owner, pc, lower, result, history >>

Unknown == -1

TimerInit ==
  /\ internal_counter = Period
  /\ period_l = Period % Half /\ period_h = Period \div Half
  /\ counter_is_running = FALSE /\ force_reload = FALSE /\ was_zero = FALSE
  /\ timeout_occurred = FALSE /\ continuous = FALSE /\ interrupt_enable = FALSE
  /\ counter_snapshot = 0
  /\ owner \in {"sysclk", "timestamp"}
  /\ pc = (IF owner = "sysclk" THEN "init" ELSE "stop")
  /\ lower = 0 /\ result = Unknown
  /\ since = 0 /\ taken = Unknown /\ owed = 0 /\ late = FALSE

----------------------------------------------------------------------------
(* One clock of the core.  reg is the register written, or "none".         *)
counter_is_zero == internal_counter = 0
timeout_event == counter_is_zero /\ ~was_zero
counter_load_value == period_h * Half + period_l

Write(reg, data, ctl) == [reg |-> reg, data |-> data, ctl |-> ctl]
Bits(ito, cont, start, stop) ==
  [ito |-> ito, cont |-> cont, start |-> start, stop |-> stop]
NoBits == Bits(FALSE, FALSE, FALSE, FALSE)
NoWrite == Write("none", 0, NoBits)

Starts(w) == w.reg = "control" /\ w.ctl.start
Stops(w) == (w.reg = "control" /\ w.ctl.stop) \/ force_reload
            \/ (counter_is_zero /\ ~continuous)

Bounded(n) == IF n > MaxClocks THEN MaxClocks ELSE n

Clock(w) ==
  /\ internal_counter' =
       IF ~(counter_is_running \/ force_reload) THEN internal_counter
       ELSE IF counter_is_zero \/ force_reload THEN counter_load_value
       ELSE internal_counter - 1
  /\ force_reload' = (w.reg \in {"periodl", "periodh"})
  /\ counter_is_running' = (Starts(w) \/ (counter_is_running /\ ~Stops(w)))
  /\ was_zero' = counter_is_zero
  /\ timeout_occurred' = (w.reg # "status" /\ (timeout_occurred \/ timeout_event))
  /\ period_l' = IF w.reg = "periodl" THEN w.data ELSE period_l
  /\ period_h' = IF w.reg = "periodh" THEN w.data ELSE period_h
  /\ continuous' = IF w.reg = "control" THEN w.ctl.cont ELSE continuous
  /\ interrupt_enable' = IF w.reg = "control" THEN w.ctl.ito ELSE interrupt_enable
  /\ counter_snapshot' = IF w.reg = "snapl" THEN internal_counter ELSE counter_snapshot
  /\ since' = IF Starts(w) \/ (timeout_event /\ continuous) THEN 0
              ELSE Bounded(since + 1)
  /\ late' = (late \/ (timeout_event /\ (timeout_occurred \/ w.reg = "status")))
  /\ owed' = IF late' THEN 0
             ELSE owed + (IF timeout_event THEN 1 ELSE 0)
                       - (IF w.reg = "status" THEN 1 ELSE 0)
  /\ UNCHANGED owner

(* A clock without an access of the driver.                                *)
Wait == Clock(NoWrite) /\ UNCHANGED << pc, lower, result, taken >>

Access(from, w, to) ==
  pc = from /\ pc' = to /\ Clock(w) /\ UNCHANGED << lower, result, taken >>

----------------------------------------------------------------------------
(* alt_avalon_timer_sc_init and alt_avalon_timer_sc_irq.                   *)
alt_avalon_timer_sc_init ==
  Access("init", Write("control", 0, Bits(TRUE, TRUE, TRUE, FALSE)), "run")

irq == timeout_occurred /\ interrupt_enable

(* A faulty handler: the status may be cleared a second time.              *)
alt_avalon_timer_sc_irq_again ==
  interrupt_enable /\ Access("run", Write("status", 0, NoBits), "run")

alt_avalon_timer_sc_irq == irq /\ Access("run", Write("status", 0, NoBits), "run")

----------------------------------------------------------------------------
(* alt_timestamp_start: stop, both period registers, start.                *)
STOP == Access("stop", Write("control", 0, Bits(FALSE, FALSE, FALSE, TRUE)), "periodl")
PERIODL == Access("periodl", Write("periodl", Half - 1, NoBits), "periodh")
PERIODH == Access("periodh", Write("periodh", Half - 1, NoBits), "start")
START == Access("start", Write("control", 0, Bits(FALSE, FALSE, TRUE, FALSE)), "idle")

alt_timestamp_start ==
  /\ pc = "idle" /\ pc' = "stop"
  /\ Clock(NoWrite) /\ UNCHANGED << lower, result, taken >>

(* A faulty alt_timestamp: the lower half is of the running counter.       *)
SNAPL_live ==
  /\ pc = "snapl" /\ pc' = "snaph"
  /\ lower' = internal_counter % Half
  /\ Clock(NoWrite) /\ UNCHANGED << result, taken >>

(* alt_timestamp: the snapshot, its two halves, the complement.            *)
SNAPL ==
  /\ pc = "snapl" /\ pc' = "snaph"
  /\ lower' = counter_snapshot % Half
  /\ Clock(NoWrite) /\ UNCHANGED << result, taken >>

alt_timestamp ==
  /\ pc = "idle" /\ pc' = "snapl"
  /\ Clock(Write("snapl", 0, NoBits))
  /\ taken' = since
  /\ UNCHANGED << lower, result >>

SNAPH ==
  /\ pc = "snaph" /\ pc' = "idle"
  /\ result' = Full - ((counter_snapshot \div Half) * Half + lower)
  /\ Clock(NoWrite) /\ UNCHANGED << lower, taken >>

Driver ==
  \/ alt_avalon_timer_sc_init \/ alt_avalon_timer_sc_irq
  \/ STOP \/ PERIODL \/ PERIODH \/ START
  \/ alt_timestamp_start \/ alt_timestamp \/ SNAPL \/ SNAPH

TimerNext == Wait \/ Driver

TimerSpec == TimerInit /\ [][TimerNext]_timerVars

----------------------------------------------------------------------------
(* Properties.                                                             *)
(* alt_timestamp() returns the clocks since the counter was started, both  *)
(* halves of one moment, up to full scale; after that it returns 0, as the *)
(* comment of alt_timestamp_start has it (altera_avalon_timer_ts.c:58) and *)
(* against its own, which says -1 (altera_avalon_timer_ts.c:92-94).        *)
TimestampExact ==
  owner = "timestamp" /\ pc = "idle" /\ result # Unknown =>
    result = IF taken <= Full THEN taken ELSE 0

(* Each expiry is one interrupt, unless the handler was a period late.     *)
EachExpiryTicks == late \/ owed = (IF timeout_occurred THEN 1 ELSE 0)

TimerExact == TimestampExact /\ EachExpiryTicks
=============================================================================
