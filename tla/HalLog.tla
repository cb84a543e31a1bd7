------------------------------- MODULE HalLog -------------------------------
(***************************************************************************)
(* The logging macros of the HAL, in a build that enables them: messages   *)
(* of the system clock, of the UART and of write() are polled, character   *)
(* by character, into the transmit FIFO that the UART's driver fills from  *)
(* its interrupt routine.  A message is a number of characters.            *)
(***************************************************************************)
EXTENDS Integers

CONSTANTS
  FlagLevels,    \* values of ALT_LOG_FLAGS
  LogFifo,       \* depth of the transmit FIFO
  Line,          \* characters of a message
  RingMax,       \* bound on the characters the driver holds
  Interval,      \* ALT_LOG_SYS_CLK_INTERVAL, in ticks
  MaxLogTicks    \* bound on the ticks

ASSUME LogAssumption ==
  /\ FlagLevels \subseteq -1 .. 3
  /\ LogFifo \in Nat \ {0} /\ Line \in Nat \ {0} /\ RingMax \in Nat
  /\ Interval \in Nat /\ MaxLogTicks \in Nat

VARIABLES
  level,         \* ALT_LOG_FLAGS of the build
  fifo, ring,    \* characters in the core and in the driver
  handler,       \* "none", or the interrupt being handled
  left,          \* of each context's message
  polled,        \* the context has seen room, and not yet used it
  writing,       \* alt_write() has the driver's part before it
  log_ticks, alt_log_sys_clk_count, alt_system_clock_in_sec,
  dropped,       \* history: a character met a full FIFO
  cut            \* history: the FIFO was filled between main's poll and put

logVars == << level, fifo, ring, handler, left, polled, writing, log_ticks,
              alt_log_sys_clk_count, alt_system_clock_in_sec, dropped, cut >>
clockVars == << log_ticks, alt_log_sys_clk_count, alt_system_clock_in_sec >>

(* The flags of each level.                                                *)
On(flag) ==
  level \in CASE flag = "boot"    -> {0, 1, 2, 3}
              [] flag = "sys_clk" -> {1, 2, 3}
              [] flag = "startup" -> {1, 2, 3}
              [] flag = "write"   -> {2, 3}
              [] flag = "alarm"   -> {2, 3}
              [] flag = "isr"     -> {3}

Message(flag) == IF On(flag) THEN Line ELSE 0

LogInit ==
  /\ level \in FlagLevels
  /\ fifo = 0 /\ ring = 0 /\ handler = "none" /\ writing = FALSE
  /\ left = [main |-> Message("startup"), irq |-> 0]
  /\ polled = [main |-> FALSE, irq |-> FALSE]
  /\ log_ticks = 0 /\ alt_log_sys_clk_count = 0 /\ alt_system_clock_in_sec = 0
  /\ dropped = FALSE /\ cut = FALSE

Active(c) == IF handler = "none" THEN c = "main" ELSE c = "irq"

Filled(n) ==
  /\ fifo' = fifo + n
  /\ cut' = (cut \/ (n > 0 /\ polled.main /\ handler # "none"))

----------------------------------------------------------------------------
(* A faulty alt_log_txchar: it does not wait for room.                     *)
PollNot(c) ==
  /\ Active(c) /\ left[c] > 0 /\ ~polled[c]
  /\ polled' = [polled EXCEPT ![c] = TRUE]
  /\ UNCHANGED << level, fifo, ring, handler, left, writing, clockVars, dropped, cut >>

(* alt_log_txchar: wait for room, write one character.  The core drops     *)
(* what it has no room for.                                                *)
Poll(c) ==
  /\ Active(c) /\ left[c] > 0 /\ ~polled[c] /\ fifo < LogFifo
  /\ polled' = [polled EXCEPT ![c] = TRUE]
  /\ UNCHANGED << level, fifo, ring, handler, left, writing, clockVars, dropped, cut >>

Put(c) ==
  /\ Active(c) /\ polled[c]
  /\ polled' = [polled EXCEPT ![c] = FALSE]
  /\ left' = [left EXCEPT ![c] = @ - 1]
  /\ Filled(IF fifo < LogFifo THEN 1 ELSE 0)
  /\ dropped' = (dropped \/ fifo = LogFifo)
  /\ UNCHANGED << level, ring, handler, writing, clockVars >>

(* alt_write: the echo, then the driver's write.                           *)
alt_write ==
  /\ Active("main") /\ left.main = 0 /\ ~writing
  /\ writing' = TRUE /\ left' = [left EXCEPT !.main = Message("write")]
  /\ UNCHANGED << level, fifo, ring, handler, polled, clockVars, dropped, cut >>

DriverWrite ==
  /\ Active("main") /\ left.main = 0 /\ writing /\ ring < RingMax
  /\ writing' = FALSE /\ ring' = ring + 1
  /\ UNCHANGED << level, fifo, handler, left, polled, clockVars, dropped, cut >>

----------------------------------------------------------------------------
(* The UART's interrupt: the control register is printed, then the FIFO    *)
(* filled.                                                                 *)
UartIrq ==
  /\ handler = "none" /\ ring > 0 /\ fifo < LogFifo
  /\ handler' = "uart" /\ left' = [left EXCEPT !.irq = Message("isr")]
  /\ UNCHANGED << level, fifo, ring, polled, writing, clockVars, dropped, cut >>

UartCopy ==
  LET n == IF ring < LogFifo - fifo THEN ring ELSE LogFifo - fifo IN
  /\ handler = "uart" /\ left.irq = 0
  /\ Filled(n) /\ ring' = ring - n /\ handler' = "none"
  /\ UNCHANGED << level, left, polled, writing, clockVars, dropped >>

(* The timer's interrupt: the heartbeat, then the alarm that reports.      *)
Beats == On("sys_clk") /\ alt_log_sys_clk_count + 1 > Interval

TimerIrq ==
  /\ handler = "none" /\ log_ticks < MaxLogTicks
  /\ handler' = "timer" /\ log_ticks' = log_ticks + 1
  /\ alt_log_sys_clk_count' = IF Beats THEN 0
       ELSE IF On("sys_clk") THEN alt_log_sys_clk_count + 1 ELSE 0
  /\ alt_system_clock_in_sec' = alt_system_clock_in_sec + (IF Beats THEN 1 ELSE 0)
  /\ left' = [left EXCEPT !.irq = IF Beats THEN Line ELSE 0]
  /\ UNCHANGED << level, fifo, ring, polled, writing, dropped, cut >>

Report ==
  /\ handler = "timer" /\ left.irq = 0
  /\ handler' = "alarm" /\ left' = [left EXCEPT !.irq = Message("alarm")]
  /\ UNCHANGED << level, fifo, ring, polled, writing, clockVars, dropped, cut >>

ReportEnd ==
  /\ handler = "alarm" /\ left.irq = 0 /\ handler' = "none"
  /\ UNCHANGED << level, fifo, ring, left, polled, writing, clockVars, dropped, cut >>

HostReads ==
  /\ fifo > 0 /\ fifo' = fifo - 1
  /\ UNCHANGED << level, ring, handler, left, polled, writing, clockVars, dropped, cut >>

LogNext ==
  \/ \E c \in {"main", "irq"} : Poll(c) \/ Put(c)
  \/ alt_write \/ DriverWrite \/ UartIrq \/ UartCopy
  \/ TimerIrq \/ Report \/ ReportEnd \/ HostReads

LogSpec == LogInit /\ [][LogNext]_logVars

----------------------------------------------------------------------------
(* Properties.                                                             *)
(* The core drops a character of a message only where an interrupt filled  *)
(* the FIFO between the poll and the write of alt_log_txchar               *)
(* (alt_log_printf.c:98), and the FIFO is never filled beyond its depth.   *)
DroppedOnlyIfCut == fifo <= LogFifo /\ (dropped => cut)

(* The heartbeat comes every Interval + 1 ticks, its count one behind for  *)
(* every Interval of them: the test is > and not >= (alt_log_printf.c:471),*)
(* though the comment above it promises one every Interval ticks (:465).   *)
HeartbeatCounts ==
  alt_system_clock_in_sec = IF On("sys_clk") THEN log_ticks \div (Interval + 1) ELSE 0

LogSound == DroppedOnlyIfCut /\ HeartbeatCounts
=============================================================================
