------------------------------ MODULE JtagUart ------------------------------
(***************************************************************************)
(* The JTAG UART driver with both rings at their real indices, the two     *)
(* FIFOs and the control register of the core, and the host.  The program  *)
(* is in one call at a time; the interrupt routine and the alarm of the    *)
(* host check run between any two statements of it.  Characters carry      *)
(* their number in the stream, modulo Chars, so that one lost, repeated or *)
(* overtaken shows.  Console is the transmit half seen as a count.         *)
(***************************************************************************)
EXTENDS Integers, Sequences

CONSTANTS
  BufLen,        \* ALTERA_AVALON_JTAG_UART_BUF_LEN
  FifoCap,       \* depth of either FIFO of the core
  FifoLow,       \* the transmit FIFO interrupts at this many or fewer
  MaxCount,      \* the longest count or space of a call
  DefaultTimeout,\* ALTERA_AVALON_JTAG_UART_DEFAULT_TIMEOUT
  IntMax,        \* INT_MAX
  Chars          \* more than the characters under way in one direction

ASSUME UartAssumption ==
  /\ BufLen \in Nat \ {0, 1}
  /\ FifoCap \in Nat /\ FifoLow \in Nat /\ FifoLow < FifoCap
  /\ MaxCount \in Nat \ {0}
  /\ DefaultTimeout \in Nat \ {0} /\ IntMax \in Nat
  /\ DefaultTimeout <= IntMax - 2
  /\ Chars \in Nat /\ Chars >= BufLen + FifoCap

VARIABLES
  tx, rx,        \* the rings: buf, in and out of tx_ and rx_
  txFifo, rxFifo,
  irq_enable,    \* subset of {"RE", "WE"}, as in the control register
  ac,            \* the activity bit of the control register
  timeout,       \* sp->timeout
  host_inactive,
  pc,            \* where the call of the program is
  left, moved,   \* write: what is left of count, ptr is past its start;
                 \* after the call, what it returned
  space, got,    \* read: its space, ptr is past the start of the buffer
  n,             \* its n, between reading the indices and storing one
  seen,          \* its out (write) or in (read), while it waits for a change
  nonblock,      \* O_NONBLOCK is among the flags of the call
  host,          \* a host is attached
  written, received, sent, taken   \* characters so far, modulo Chars:
                 \* by the program, by the host; by the host, by the program

rings == << tx, rx, txFifo, rxFifo >>
check == << ac, timeout, host_inactive, host >>
call == << pc, left, moved, space, got, n, seen, nonblock >>
counts == << written, received, sent, taken >>
vars == << rings, irq_enable, check, call, counts >>

Least(a, b) == IF a < b THEN a ELSE b
Fill(r) == (r.in - r.out) % BufLen
Content(r) == [i \in 1 .. Fill(r) |-> r.buf[(r.out + i - 1) % BufLen]]
Numbered(from, k) == [i \in 1 .. k |-> (from + i - 1) % Chars]
EmptyRing == [buf |-> [i \in 0 .. BufLen - 1 |-> 0], in |-> 0, out |-> 0]

(* altera_avalon_jtag_uart_init: receive interrupts on, and an alarm that  *)
(* fails without a system clock, which leaves the check off.               *)
Init ==
  /\ tx = EmptyRing /\ rx = EmptyRing /\ txFifo = <<>> /\ rxFifo = <<>>
  /\ irq_enable = {"RE"}
  /\ ac = FALSE /\ host_inactive = 0 /\ host \in BOOLEAN
  /\ timeout \in {DefaultTimeout, IntMax}
  /\ pc = "idle" /\ left = 0 /\ space = 0 /\ n = 0 /\ seen = 0
  /\ moved = FALSE /\ got = FALSE /\ nonblock = FALSE
  /\ written = 0 /\ received = 0 /\ sent = 0 /\ taken = 0

HostGone == host_inactive >= timeout

Goes(where) ==
  /\ pc' = where /\ n' = 0 /\ seen' = 0
  /\ UNCHANGED << left, moved, space, got, nonblock >>

Call(where, flag) ==
  /\ pc = "idle"
  /\ pc' = where /\ nonblock' = flag
  /\ UNCHANGED << rings, irq_enable, check, n, seen, counts >>

WriteCall(count, flag) ==
  Call("wlook", flag) /\ left' = count /\ moved' = FALSE /\ UNCHANGED << space, got >>

ReadCall(room, flag) ==
  Call("rlook", flag) /\ space' = room /\ UNCHANGED << left, moved, got >>

CloseCall(flag) ==
  Call("close", flag) /\ UNCHANGED << left, moved, space, got >>

(* A call over: what it left in its other variables is no longer read.     *)
Returns ==
  /\ pc' = "idle"
  /\ space' = 0 /\ got' = FALSE /\ n' = 0 /\ seen' = 0 /\ nonblock' = FALSE
  /\ UNCHANGED << left, moved >>

----------------------------------------------------------------------------
(* A faulty Room: no slot is kept free at the end of the buffer.           *)
Room_no_slot(r) ==
  IF r.in < r.out THEN r.out - 1 - r.in ELSE BufLen - r.in

(* altera_avalon_jtag_uart_write.  The room from tx_in to the end of the   *)
(* buffer or to the slot before tx_out.                                    *)
Room(r) ==
  IF r.in < r.out THEN r.out - 1 - r.in
  ELSE IF r.out > 0 THEN BufLen - r.in
  ELSE BufLen - 1 - r.in

WriteLook ==
  /\ pc = "wlook"
  /\ n' = Least(Room(tx), left)
  /\ pc' = IF n' = 0 THEN "kick" ELSE "wstore"
  /\ seen' = IF n' = 0 /\ left > 0 THEN tx.out ELSE 0
  /\ UNCHANGED << rings, irq_enable, check, left, moved, space, got, nonblock,
                  counts >>

WriteStore ==
  /\ pc = "wstore"
  /\ tx' = [tx EXCEPT
       !.buf = [i \in DOMAIN @ |-> IF i \in tx.in .. tx.in + n - 1
                                   THEN (written + i - tx.in) % Chars ELSE @[i]],
       !.in = (@ + n) % BufLen]
  /\ written' = (written + n) % Chars
  /\ left' = left - n /\ moved' = TRUE /\ n' = 0 /\ pc' = "wlook"
  /\ UNCHANGED << rx, txFifo, rxFifo, irq_enable, check, space, got, seen,
                  nonblock, received, sent, taken >>

(* A faulty WriteKick: only a call with characters left enables WE.        *)
WriteKick_if_left ==
  /\ pc = "kick"
  /\ irq_enable' = IF left > 0 THEN irq_enable \cup {"WE"} ELSE irq_enable
  /\ IF left = 0 \/ nonblock
     THEN Returns
     ELSE pc' = "wspin" /\ UNCHANGED << left, moved, space, got, n, seen, nonblock >>
  /\ UNCHANGED << rings, check, counts >>

(* The transmit interrupt is enabled; the call ends with all copied, or at *)
(* once if it may not block.                                               *)
WriteKick ==
  /\ pc = "kick"
  /\ irq_enable' = irq_enable \cup {"WE"}
  /\ IF left = 0 \/ nonblock
     THEN Returns
     ELSE pc' = "wspin" /\ UNCHANGED << left, moved, space, got, n, seen, nonblock >>
  /\ UNCHANGED << rings, check, counts >>

WriteSpin ==
  /\ pc = "wspin"
  /\ seen # tx.out \/ HostGone
  /\ IF host_inactive > 0 THEN Returns ELSE Goes("wlook")
  /\ UNCHANGED << rings, irq_enable, check, counts >>

----------------------------------------------------------------------------
(* altera_avalon_jtag_uart_read.                                           *)
Ready(r) == IF r.in >= r.out THEN r.in - r.out ELSE BufLen - r.out

ReadLook ==
  /\ pc = "rlook"
  /\ n' = Least(Ready(rx), space)
  /\ pc' = IF n' > 0 THEN "rtake"
           ELSE IF got \/ nonblock THEN "renable" ELSE "rspin"
  /\ seen' = IF pc' = "rspin" THEN rx.in ELSE 0
  /\ UNCHANGED << rings, irq_enable, check, left, moved, space, got,
                  nonblock, counts >>

ReadTake ==
  /\ pc = "rtake"
  /\ rx' = [rx EXCEPT !.out = (@ + n) % BufLen]
  /\ taken' = (taken + n) % Chars
  /\ space' = space - n /\ got' = TRUE /\ n' = 0
  /\ pc' = IF space' > 0 THEN "rlook" ELSE "renable"
  /\ UNCHANGED << tx, txFifo, rxFifo, irq_enable, check, left, moved,
                  seen, nonblock, written, received, sent >>

ReadSpin ==
  /\ pc = "rspin"
  /\ \/ rx.in # seen /\ Goes("rlook")
     \/ rx.in = seen /\ HostGone /\ Returns
  /\ UNCHANGED << rings, irq_enable, check, counts >>

(* A faulty ReadEnable: only an empty ring enables RE.                     *)
ReadEnable_empty ==
  /\ pc = "renable"
  /\ irq_enable' = IF got /\ Fill(rx) = 0 THEN irq_enable \cup {"RE"} ELSE irq_enable
  /\ Returns
  /\ UNCHANGED << rings, check, counts >>

ReadEnable ==
  /\ pc = "renable"
  /\ irq_enable' = IF got THEN irq_enable \cup {"RE"} ELSE irq_enable
  /\ Returns
  /\ UNCHANGED << rings, check, counts >>

----------------------------------------------------------------------------
(* A faulty Close: an absent host is not given up.                         *)
Close_waits ==
  /\ pc = "close"
  /\ Fill(tx) = 0 \/ nonblock
  /\ Returns
  /\ UNCHANGED << rings, irq_enable, check, counts >>

(* altera_avalon_jtag_uart_close and altera_avalon_jtag_uart_ioctl.        *)
Close ==
  /\ pc = "close"
  /\ Fill(tx) = 0 \/ HostGone \/ nonblock
  /\ Returns
  /\ UNCHANGED << rings, irq_enable, check, counts >>

TIOCSTIMEOUT(arg) ==
  /\ pc = "idle"
  /\ timeout # IntMax
  /\ timeout' = IF arg >= 2 /\ arg < IntMax THEN arg ELSE IntMax - 1
  /\ UNCHANGED << rings, irq_enable, ac, host_inactive, host, call, counts >>

----------------------------------------------------------------------------
(* A faulty Receive: the ring is filled to its last slot.                  *)
Receive_one_more ==
  LET k == Least(BufLen - Fill(rx), Len(rxFifo)) IN
  /\ rx' = [rx EXCEPT
       !.buf = [i \in DOMAIN @ |-> LET d == (i - rx.in) % BufLen
                                   IN IF d < k THEN rxFifo[d + 1] ELSE @[i]],
       !.in = (@ + k) % BufLen]
  /\ rxFifo' = SubSeq(rxFifo, k + 1, Len(rxFifo))

(* altera_avalon_jtag_uart_irq: one turn of its loop, with both conditions *)
(* taken from one read of the control register.                            *)
Receive ==
  LET k == Least(BufLen - 1 - Fill(rx), Len(rxFifo)) IN
  /\ rx' = [rx EXCEPT
       !.buf = [i \in DOMAIN @ |-> LET d == (i - rx.in) % BufLen
                                   IN IF d < k THEN rxFifo[d + 1] ELSE @[i]],
       !.in = (@ + k) % BufLen]
  /\ rxFifo' = SubSeq(rxFifo, k + 1, Len(rxFifo))

Transmit ==
  LET k == Least(FifoCap - Len(txFifo), Fill(tx)) IN
  /\ tx' = [tx EXCEPT !.out = (@ + k) % BufLen]
  /\ txFifo' = txFifo \o SubSeq(Content(tx), 1, k)

RI == "RE" \in irq_enable /\ rxFifo # <<>>
WI == "WE" \in irq_enable /\ Len(txFifo) <= FifoLow

(* RE is turned off when characters stay behind, WE when room does.        *)
UartIrq ==
  /\ RI \/ WI
  /\ IF RI THEN Receive ELSE UNCHANGED << rx, rxFifo >>
  /\ IF WI THEN Transmit ELSE UNCHANGED << tx, txFifo >>
  /\ irq_enable' =
       irq_enable \ ( (IF RI /\ rxFifo' # <<>> THEN {"RE"} ELSE {})
                 \cup (IF WI /\ Len(txFifo') < FifoCap THEN {"WE"} ELSE {}) )
  /\ UNCHANGED << check, call, counts >>

(* altera_avalon_jtag_uart_timeout.                                        *)
UartTimeout ==
  /\ timeout # IntMax
  /\ ac' = FALSE
  /\ host_inactive' = IF ac THEN 0
                      ELSE IF host_inactive < IntMax - 2 THEN host_inactive + 1
                      ELSE host_inactive
  /\ UNCHANGED << rings, irq_enable, timeout, host, call, counts >>

----------------------------------------------------------------------------
(* The host.                                                               *)
HostRead ==
  /\ host /\ txFifo # <<>>
  /\ txFifo' = Tail(txFifo) /\ received' = (received + 1) % Chars
  /\ UNCHANGED << tx, rx, rxFifo, irq_enable, check, call, written, sent, taken >>

HostSend ==
  /\ host /\ Len(rxFifo) < FifoCap
  /\ rxFifo' = Append(rxFifo, sent) /\ sent' = (sent + 1) % Chars
  /\ UNCHANGED << tx, rx, txFifo, irq_enable, check, call, written, received, taken >>

HostPing ==
  /\ host /\ ~ac /\ ac' = TRUE
  /\ UNCHANGED << rings, irq_enable, timeout, host_inactive, host, call, counts >>

HostPlug ==
  /\ host' = ~host
  /\ UNCHANGED << rings, irq_enable, ac, timeout, host_inactive, call, counts >>

----------------------------------------------------------------------------
CallNext == WriteLook \/ WriteStore \/ WriteKick \/ WriteSpin
         \/ ReadLook \/ ReadTake \/ ReadSpin \/ ReadEnable \/ Close

WriteCalls == \E count \in 1 .. MaxCount, f \in BOOLEAN : WriteCall(count, f)
ReadCalls == \E room \in 1 .. MaxCount, f \in BOOLEAN : ReadCall(room, f)
CloseCalls == \E f \in BOOLEAN : CloseCall(f)
IoctlCalls == \E arg \in 1 .. IntMax : TIOCSTIMEOUT(arg)

Around == UartIrq \/ UartTimeout \/ HostRead \/ HostSend \/ HostPing \/ HostPlug

Next ==
  CallNext \/ WriteCalls \/ ReadCalls \/ CloseCalls \/ IoctlCalls \/ Around

Fairness ==
  /\ WF_vars(CallNext)
  /\ WF_vars(UartIrq)
  /\ WF_vars(UartTimeout)
  /\ WF_vars(HostRead)

Spec == Init /\ [][Next]_vars /\ Fairness

----------------------------------------------------------------------------
(* Properties.                                                             *)
(***************************************************************************)
(* What the host will read is what the program wrote and the host has not  *)
(* read yet, in order: nothing is overwritten in the ring, sent twice or   *)
(* left out when the ring wraps (altera_avalon_jtag_uart_write, _irq).     *)
SentInOrder ==
  txFifo \o Content(tx) = Numbered(received, Len(txFifo) + Fill(tx))
  /\ (received + Len(txFifo) + Fill(tx)) % Chars = written
  /\ Len(txFifo) <= FifoCap

(* The same from the host to the program: a full receive ring costs no     *)
(* character (altera_avalon_jtag_uart_irq, _read).                         *)
ReceivedInOrder ==
  Content(rx) \o rxFifo = Numbered(taken, Len(rxFifo) + Fill(rx))
  /\ (taken + Len(rxFifo) + Fill(rx)) % Chars = sent

(* Outside a read, the receive interrupt is off only while the ring is     *)
(* full; otherwise the characters in the core would wait for a read that   *)
(* itself waits for them (altera_avalon_jtag_uart_read.c, _irq).           *)
ReceiverArmed ==
  pc \notin {"rlook", "rtake", "renable"} /\ "RE" \notin irq_enable
    => Fill(rx) = BufLen - 1

(* The transmit half implements Console, under the default timeout and for *)
(* calls that may block: the same steps, with the rings as counts.         *)
Half == INSTANCE Console WITH
  RingCap <- BufLen - 1,
  HostTimeout <- DefaultTimeout,
  MaxWrite <- MaxCount,
  HostActions <- {"read", "ping", "plug"},
  ring <- Fill(tx),
  fifo <- Len(txFifo),
  we <- "WE" \in irq_enable,
  hostInactive <- Least(host_inactive, DefaultTimeout),
  wpc <- CASE pc \in {"wlook", "wstore"} -> "copy"
           [] pc = "kick" -> "kick"
           [] pc = "wspin" -> "spin"
           [] OTHER -> "idle"

BlockingDefault == timeout' = DefaultTimeout /\ ~nonblock /\ ~nonblock'

TransmitsAsConsole ==
  [][BlockingDefault => Half!ConsoleNext]_(Half!consoleVars)

(* A call that sends or closes comes back when the host stays, reading, or *)
(* stays away under a timeout that can pass; a read does once there is a   *)
(* character for it, or the host has been counted out.                     *)
CanPass == timeout <= IntMax - 2
CallsReturn ==
  /\ <>[]host \/ <>[](~host /\ CanPass) => (pc # "idle" /\ pc \notin
        {"rlook", "rspin"} ~> pc \in {"idle", "rlook", "rspin"})
  /\ <>[](~host /\ CanPass) => (pc \in {"rlook", "rspin"} ~> pc = "idle")
  /\ (pc = "rspin" /\ rxFifo # <<>>) ~> pc = "idle"
=============================================================================
