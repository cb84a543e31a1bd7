------------------------------ MODULE Console ------------------------------
(***************************************************************************)
(* The transmit half of the JTAG UART, counted in characters: the ring     *)
(* buffer of altera_avalon_jtag_uart.h, the write, interrupt and timeout   *)
(* routines of its driver, the transmit FIFO and control register of       *)
(* lab3_jtag_uart_0.v, and the host at the other end of the cable.  What   *)
(* the characters are is left out.  Next is the driver on its own, with    *)
(* interrupts and the system clock at work; Lab3 runs the same operations  *)
(* inside the application.                                                 *)
(***************************************************************************)
EXTENDS Integers

CONSTANTS
  RingCap,        \* ALTERA_AVALON_JTAG_UART_BUF_LEN - 1
  FifoCap,        \* characters the hardware FIFO holds
  FifoLow,        \* the FIFO interrupts at this many or fewer
  HostTimeout,    \* ALTERA_AVALON_JTAG_UART_DEFAULT_TIMEOUT
  MaxWrite,       \* the longest write a caller makes
  HostActions     \* what the host may do; an absent host does nothing

ASSUME ConsoleAssumption ==
  /\ RingCap \in Nat \ {0}
  /\ FifoCap \in Nat /\ FifoLow \in Nat /\ FifoLow < FifoCap
  /\ HostTimeout \in Nat \ {0}
  /\ MaxWrite \in Nat \ {0}
  /\ HostActions \subseteq {"read", "ping", "plug"}

VARIABLES
  ring,           \* characters between tx_out and tx_in
  fifo,           \* characters in the hardware FIFO
  we,             \* the WE bit of irq_enable and of the control register
  ac,             \* the activity bit of the control register
  hostInactive,   \* sp->host_inactive, counted no further than HostTimeout
  wpc,            \* where altera_avalon_jtag_uart_write is
  left,           \* its count: characters not yet in the ring
  moved,          \* ptr # start: it has copied something
  host            \* a host is attached

consoleVars == << ring, fifo, we, ac, hostInactive, wpc, left, moved, host >>

ConsoleTypeOK ==
  /\ ring \in 0..RingCap
  /\ fifo \in 0..FifoCap
  /\ we \in BOOLEAN /\ ac \in BOOLEAN /\ moved \in BOOLEAN /\ host \in BOOLEAN
  /\ hostInactive \in 0..HostTimeout
  /\ wpc \in {"idle", "copy", "kick", "spin"}
  /\ left \in 0..MaxWrite

ConsoleInit ==
  /\ ring = 0 /\ fifo = 0 /\ left = 0
  /\ we = FALSE /\ ac = FALSE /\ moved = FALSE
  /\ hostInactive = 0
  /\ wpc = "idle"
  /\ host \in (IF "plug" \in HostActions THEN BOOLEAN ELSE {TRUE})

----------------------------------------------------------------------------
(* altera_avalon_jtag_uart_write(sp, ptr, count, 0)                        *)

WriteCall(count) ==
  /\ wpc = "idle"
  /\ wpc' = "copy" /\ left' = count /\ moved' = FALSE
  /\ UNCHANGED << ring, fifo, we, ac, hostInactive, host >>

Least(a, b) == IF a < b THEN a ELSE b

(* One turn of the copy loop.  It reads tx_out and copies what fits, or up *)
(* to the end of the buffer: where that end is is left out, so any part of *)
(* what fits may be copied.  The loop ends with all copied or the ring     *)
(* full, and the interrupt routine may run before the next statement.      *)
WriteCopy ==
  /\ wpc = "copy"
  /\ IF left = 0 \/ ring = RingCap
     THEN wpc' = "kick" /\ UNCHANGED << ring, left, moved >>
     ELSE /\ \E n \in 1..Least(left, RingCap - ring) :
               ring' = ring + n /\ left' = left - n
          /\ moved' = TRUE
          /\ UNCHANGED wpc
  /\ UNCHANGED << fifo, we, ac, hostInactive, host >>

(* A faulty WriteKick: the interrupt is enabled only for a call that could *)
(* not copy everything.                                                    *)
WriteKickIfFull ==
  /\ wpc = "kick"
  /\ we' = (we \/ left > 0)
  /\ wpc' = IF left = 0 THEN "idle" ELSE "spin"
  /\ UNCHANGED << ring, fifo, ac, hostInactive, left, moved, host >>

(* The transmit interrupt is enabled, with interrupts disabled meanwhile;  *)
(* the call is over unless something is left.                              *)
WriteKick ==
  /\ wpc = "kick"
  /\ we' = TRUE
  /\ wpc' = IF left = 0 THEN "idle" ELSE "spin"
  /\ UNCHANGED << ring, fifo, ac, hostInactive, left, moved, host >>

(* The wait for tx_out to move: the ring was full when it started and only *)
(* the interrupt routine moves tx_out.  A count of inactive seconds ends   *)
(* the call with characters left, else it copies again.                    *)
SpinOver == ring < RingCap \/ hostInactive >= HostTimeout

WriteSpin ==
  /\ wpc = "spin"
  /\ SpinOver
  /\ wpc' = IF hostInactive > 0 THEN "idle" ELSE "copy"
  /\ UNCHANGED << ring, fifo, we, ac, hostInactive, left, moved, host >>

(* A faulty UartIrq: it never turns its interrupt off.                     *)
UartIrqNeverOff ==
  LET n == Least(ring, FifoCap - fifo)
  IN  /\ we /\ fifo <= FifoLow
      /\ ring' = ring - n /\ fifo' = fifo + n
      /\ UNCHANGED << we, ac, hostInactive, wpc, left, moved, host >>

(* The transmit interrupt, and altera_avalon_jtag_uart_irq which serves it *)
(* until the FIFO is full or the ring empty; with room left over it turns  *)
(* the interrupt off.                                                      *)
TxIrq == we /\ fifo <= FifoLow

UartIrq ==
  LET space == FifoCap - fifo
      n == Least(ring, space)
  IN  /\ TxIrq
      /\ ring' = ring - n
      /\ fifo' = fifo + n
      /\ we' = (n = space)
      /\ UNCHANGED << ac, hostInactive, wpc, left, moved, host >>

(* altera_avalon_jtag_uart_timeout, an alarm of the system clock.          *)
UartTimeout ==
  /\ ac' = FALSE
  /\ hostInactive' = IF ac THEN 0
                     ELSE IF hostInactive < HostTimeout THEN hostInactive + 1
                     ELSE hostInactive
  /\ UNCHANGED << ring, fifo, we, wpc, left, moved, host >>

(* The host takes a character; the host shows a sign of life.              *)
HostRead ==
  /\ "read" \in HostActions /\ host /\ fifo > 0
  /\ fifo' = fifo - 1
  /\ UNCHANGED << ring, we, ac, hostInactive, wpc, left, moved, host >>

HostPing ==
  /\ "ping" \in HostActions /\ host /\ ~ac
  /\ ac' = TRUE
  /\ UNCHANGED << ring, fifo, we, hostInactive, wpc, left, moved, host >>

HostPlug ==
  /\ "plug" \in HostActions
  /\ host' = ~host
  /\ UNCHANGED << ring, fifo, we, ac, hostInactive, wpc, left, moved >>

----------------------------------------------------------------------------
(* The driver called from a program that leaves interrupts enabled.  The   *)
(* C library calls again for the rest of a write that came back short.     *)
Caller ==
  \/ \E count \in 1..MaxWrite : WriteCall(count)
  \/ WriteCopy
  \/ WriteKick
  \/ WriteSpin

ConsoleNext ==
  Caller \/ UartIrq \/ UartTimeout \/ HostRead \/ HostPing \/ HostPlug

ConsoleSpec ==
  /\ ConsoleInit /\ [][ConsoleNext]_consoleVars
  /\ WF_consoleVars(WriteCopy \/ WriteKick \/ WriteSpin)
  /\ WF_consoleVars(UartIrq)
  /\ WF_consoleVars(UartTimeout)
  /\ WF_consoleVars(HostRead)

----------------------------------------------------------------------------
(* Whenever a call is over, or waits, with characters in the ring, the     *)
(* transmit interrupt is enabled: the interrupt routine, which disables it *)
(* when it finds the ring empty, never leaves characters stranded that the *)
(* call copied meanwhile.                                                  *)
NoStrandedBytes == wpc \in {"idle", "spin"} /\ ring > 0 => we
=============================================================================
