# Ndiaye_lab3: a verification development

The repository is a small embedded system: a Nios II processor on a DE10-Lite
board reads an ADXL345 accelerometer over I2C once per second and shows one of
its three axes on seven-segment displays; a push button selects the axis; each
refresh also prints a line on the JTAG UART console. The program runs on the
vendor's HAL, whose sources are part of the repository, and on IP cores in
Verilog. This directory holds TLA+ models of the system, the TLC configurations
that check them, and proofs that TLAPS checks.

## 1. Inventory

| part | where | state it keeps | operations | modelled in |
|---|---|---|---|---|
| application | `software/app/main.c` | `cnt`, `x_data..z_data`, `seg1..seg4`, `sign` | `main`, `send_offset`, `irq_timer`, `extracted_data`, `seg_afficher`, `irq_button` | `Lab3`, `Measure` |
| decoders | `bin_to_7_seg.vhd`, `bin_to_7_seg_virgule.vhd`, `lab3_vhd.vhd` | none | combinational | `Measure` |
| interrupts | HAL `alt_irq_handler.c`, `alt_irq_register.c`, `alt_legacy_irq.h`, `alt_irq.h` | `alt_irq[]`, `alt_irq_active`, `alt_priority_mask`, `ienable` | registration, enable, disable, entry, search by priority, `alt_irq_interruptible`, return | `HalIrq`; in the program, `Lab3` |
| interval timer | `lab3_timer_0.v`, drivers `_sc`, `_ts` | counter, period, snapshot, control, status | each register access, each clock | `IntervalTimer`; expiry and status in `Lab3` |
| PIOs | `lab3_pio_0.v` .. `lab3_pio_5.v` | `edge_capture`, `irq_mask`, data registers | edge, clear, write | `Lab3` |
| JTAG UART | driver and `lab3_jtag_uart_0.v` | both rings, both FIFOs, `irq_enable`, `host_inactive`, `timeout` | read, write, close, ioctl, interrupt, host check; the host reads, types, comes and goes | `JtagUart`; its transmit half as a count in `Console` |
| I2C driver | `opencores_i2c.c` | none of its own | `I2C_init`, `I2C_start`, `I2C_write`, `I2C_read` | `I2cBus`; their effect on the chip in `Accelerometer` |
| I2C controller | `ip/opencores_i2c/*.v` | command, status, byte and bit state machines, filters | a clock with or without a register access | `I2cCore` |
| accelerometer | external chip | sample, offsets, register pointer; the bit it has come to | | `Accelerometer`, `I2cChip` |
| system clock, alarms | HAL `alt_tick.c`, `alt_alarm_start.c`, `alt_llist.h` | `_alt_nticks`, the linked list, each alarm's time and roll-over flag | tick, start, stop, callbacks | `HalClock`, `Alarms` |
| devices and descriptors | HAL `alt_dev.c`, `alt_get_fd.c`, `alt_fd_lock.c`, `alt_io_redirect.c`, ... | both lists, `alt_fd_list`, `alt_max_fd` | register, find, take, release, lock, redirect | `HalFiles` |
| system calls | HAL `alt_open.c` .. `alt_wait.c` | none of their own | open, close, read, write, lseek, ioctl, fcntl, stat, fstat, isatty and the calls that only fail | `HalFiles`, `HalBoot` |
| start-up and end | HAL `alt_main.c`, `alt_do_ctors.c`, `alt_exit.c`, `alt_kill.c`, `alt_sys_init.c` | how far it has come | each step to `main`, and to `_exit` | `HalBoot` |
| formatting | HAL `alt_printf.c`, `alt_log_printf.c` | none | a format and its arguments to characters | `HalText` |
| logging | HAL `alt_log_printf.c`, `.h` | the two counters of the heartbeat | each message, polled into the FIFO the UART driver also fills | `HalLog` |
| time of day, delays | HAL `alt_gettod.c`, `alt_settod.c`, `alt_times.c`, `alt_busy_sleep.c` | `alt_resettime` | set, get, count, spin | `HalTime` |
| heap and stack check | HAL `alt_sbrk.c`, `alt_stack.h` | `heap_end`, the stack limit | `sbrk`, function entry | `HalHeap` |
| profiler | HAL `alt_gmon.c` | lists of functions and arcs, slabs, the sampling buffer | `mcount`, the sampling alarm | `HalProfile` |
| locks, environment | HAL `alt_malloc_lock.c`, `alt_env_lock.c`, `alt_environ.c` | none | | not modelled |
| caches, loading, DMA, flash | HAL | | | not modelled |
| exception entry, emulation, `crt0` | HAL assembly | | | not modelled |
| processor, interconnect, build products | generated | | | not modelled |

How the parts meet:

* `alt_main` sets up interrupts and devices, redirects the streams and calls
  `main`. `main` masks and clears PIO_0, initialises I2C, writes the calibration
  with six `send_offset` calls and only then registers `irq_timer` and
  `irq_button`. Until then the timer belongs to the HAL's system clock handler,
  which runs the UART driver's once-per-second host check as an alarm.
* Everything after that happens in the two handlers, with interrupts disabled.
  They share `cnt`; `main` and `irq_timer` share the I2C controller; `irq_timer`
  and the UART's interrupt routine share the transmit ring.
* `irq_timer` reads six bytes in six separate I2C transactions, converts them,
  prints a line through the C library and the UART driver, writes the display
  and clears the timer status, in that order.
* The HAL's services meet in the interrupt handler of the clock: alarms run in
  it, the profiler samples and the log reports from alarms, and handlers
  themselves may be profiled or interrupted by more urgent ones.

What is hard here: interrupts at any point of `main` and of the drivers; a chip
that replaces its sample while it is read; button edges at any moment; a driver
that waits for its own interrupt inside an interrupt handler; a handler taken
away from the code that counted on it; ignored acknowledges; a program started
again while the peripherals go on; linked lists changed under a walk; counters
that wrap; a dispatcher that searches without a bound. `PROJECT.json` lists each
hazard with its line and the property that would catch it.

What makes each part correct:

* application and dispatch: a display that shows a sample (`StableReading`),
  labelled with its own axis (`LabelMatchesDisplay`); transactions that never mix
  (`AddressedRegister`); the calibration in the chip before the first reading
  (`Calibrated`); no press counted twice (`PressCountedOnce`), edges
  and expiries lost in two known places and served elsewhere (`InterruptsServed`), work to be found at every entry of the
  dispatcher (`EntryFindsWork`); arithmetic that is exact for every word
  (`EveryReadingExact`);
* interrupts in general: a complete table entry at every call (`CalledComplete`),
  nesting by priority (`NestsByPriority`), a mask that comes back
  (`MaskRestored`), service of the most urgent line (`UrgentServed`);
* UART: what goes in comes out, in order, in both directions (`SentInOrder`,
  `ReceivedInOrder`); nothing left without the interrupt that moves it
  (`NoStrandedBytes`, `ReceiverArmed`); calls that return (`CallsReturn`);
* I2C: each call has the effect and the result its caller relies on
  (`CallsAsPromised`, `AckMeansHeard`); a start or stop only where one was asked for
  and the bus free after the last byte (`LinesFramed`), never taken for lost
  (`BusNeverLost`); the times of fast mode (`FastModeTiming`); polls that end
  (`CallsReturn`), also after a restart (`Recovers`);
* clock: a list that stays a ring (`ListIntact`), alarms on their tick
  (`RingsOnTime`, `EveryAlarmRings`), a walk that ends (`TickReturns`); the timer's
  own count and expiries (`TimerExact`), time of day and delays (`TimeExact`);
* files: a pool whose mark and flags are right after any calls (`PoolSound`), locks
  that hold (`LockedGainsNoUser`), nothing lost by a failure (`NoDescriptorLost`),
  streams that last to the end (`FromStartToEnd`);
* memory, profile, log, text: blocks apart and the stack above them (`HeapSound`);
  every call counted (`ProfileSound`); characters dropped only where the race allows
  it (`LogSound`); numbers and formats as they should read (`PrintersCorrect`).

## 2. Modules

| module | content |
|---|---|
| `Measure` | pure operators: `Combine`, `Signed`, `Scaled` (`irq_timer`), `Digits` (`seg_afficher`), `SevenSeg`, `SevenSegVirgule`, `SignSeg`, `Panel` (VHDL) |
| `Accelerometer` | the chip as the driver calls see it: `I2C_start`, `I2C_write`, `I2C_read_last`, `ReadByte`, `NewSample` |
| `Console` | the transmit half of the UART as a count of characters: `WriteCall`, `WriteCopy`, `WriteKick`, `WriteSpin`, `UartIrq`, `UartTimeout`, `HostRead`, `HostPing`, `HostPlug` |
| `JtagUart` | the whole driver, both rings at their indices, and the core; implements `Console` |
| `Lab3` | `main`, the dispatcher, both handlers and the devices; EXTENDS `Accelerometer` and `Console` and runs their operations inside its own actions |
| `I2cCore` | the controller: `CoreClock(acc, scl, sda)` is one clock with the register access `acc`; one operator per always block of the three Verilog files |
| `I2cChip` | the chip on the lines: `ChipClock` follows SCL and SDA, acknowledges, stretches, and takes the steps of `Accelerometer` |
| `I2cCalls` | the abstract specification of the driver: each call is one step |
| `I2cBus` | driver, controller, chip and wires together; implements `I2cCalls` |
| `HalIrq` | registry, dispatcher and nesting on the internal interrupt controller |
| `IntervalTimer` | the timer clock by clock, under its system clock driver or its timestamp driver |
| `Alarms` | the abstract specification of the alarm service: a clock that never wraps, and no list |
| `HalClock` | tick, list and alarms as they are coded; implements `Alarms` |
| `HalFiles` | devices, pool and system calls as operators that return the pool they leave |
| `HalBoot` | from `alt_main` to `_exit`: the actions over `HalFiles` |
| `HalTime`, `HalHeap`, `HalProfile`, `HalText`, `HalLog` | the smaller services |
| `MCLab3`, `MCJtagUart`, `MCI2cBus`, `MCHalBoot`, `MCServices` | the instances TLC checks; `HalIrq` and `HalClock` need none |
| `Arithmetic` | the lemmas on `%` and `\div` that the proofs share, and the theorems about `Measure` |
| `Lab3Proofs`, `JtagUartProofs`, `I2cBusProofs`, `HalIrqProofs`, `HalClockProofs`, `HalFilesProofs`, `ServicesProofs` | theorems and proofs |

**`Lab3`.** `mpc` is where `main` is and `call` which of its `send_offset` calls is
under way; `ipc` is where the interrupt side is ("none" while `main` runs, "entry"
and "next" in `alt_irq_handler`, the other values inside a handler); `timerIsr` is
`alt_irq[TIMER_0_IRQ].handler` and `ienable` is `alt_irq_active`. A step is a driver
call (from its command to the end of its poll of TIP), a register write, or a
statement that reads or writes shared state. `main`'s actions need `ipc = "none"`;
`Serves` lets a handler start from the dispatcher only. The world (`TimerExpires`,
`ButtonMoves`, `SampleChanges`, `HostActs`) steps at any time. `seen`, `nackMain`,
`nackIsr` and `fresh` are history variables: the samples the chip held during a
reading, whether an address was refused, whether the button moved since the last
count. No action is guarded by them. A console line is a number of characters; the C
library hands over the part up to each newline, and its two calls per refresh are
counted as one. The five PIO writes of `irq_timer` are one step: nothing in the
system reads them. A clearing write takes effect before the next statement. The chip
is external: its registers and its answers are those that `main.c` relies on; a
refused address leaves the data line high.

**`JtagUart`.** `pc` is where the program is inside a call; between any two of its
statements the interrupt routine and the alarm may run, each as one step since they
run with interrupts disabled. Ring contents are kept at their indices, so the copies
that stop at the end of the buffer are modelled as they are. A character is its
number in the stream modulo `Chars`. `Console` is what it looks like from outside:
`TransmitsAsConsole` maps the indices to counts and shows each step to be one of
`Console`, whose actions are those `Lab3` prints on.

**`I2cBus`.** A step is a clock of the controller. A call of the driver is the list of
its register accesses (`Accesses`), each of two clocks as the core acknowledges them
(`Begun`, `Ended`); the access before the last is the poll of TIP and is repeated
while the bit is set. Between two accesses the processor may take any time
(`OtherClock`). The caller makes the calls of `I2C_init`, `send_offset` and
`extracted_data` in any order. All registers of the core change together, as the
non-blocking assignments do. `Restart` starts the program again while controller and
chip go on: `lab3.v` leaves the processor's debug reset unconnected, so loading the
program resets no peripheral. The new program is taken to begin after the transfer in
progress (`Settled`). Under the mapping in `Promised`, in which chip and answer stand
still until the call returns, every behaviour of the two lines is one of `I2cCalls`;
that is what entitles `Lab3` to take a call as one step. `before` is a history variable
for that mapping; no guard reads it.

**`HalIrq`.** `stack` holds the nested exceptions, `call` the registry call under way,
`table` is `alt_irq[]`, `active` `alt_irq_active`, `mask` `alt_priority_mask`, `pie` the
processor's enable bit. A call stops between its stores; it runs with interrupts
disabled, so what may come between is what the code's own order leaves. Calls are made
by the program and by handlers. `exposed` records that a handler which had made itself
interruptible called a function that rewrites `ienable` without the mask.

**`HalClock`.** `links` are the pointers of `alt_llist`, `walk` is where `alt_tick` is
(`at` the alarm, `next` the entry it read before the callback), `nticks` has `U32`
values. Starting and stopping is allowed to callbacks and, with interrupts disabled, to
the program. `lost` records that a callback stopped the alarm that came next.

**`HalFiles`, `HalBoot`.** Each function of the HAL is an operator from the pool to
the pool and a result; each action of `HalBoot` is one call of the program. `failed`
says how the last one ended, `ran` which constructors and destructors have run. What a
driver's routine returns is chosen, a negative number being an error. A call's result
is kept as the code gives it: -1 with `errno` set (`Failed`), the negative error itself
with `errno` set (`Signalled`, `ioctl`) or with `errno` left alone (`Passed`, and
`Direct` for a driver called without the file layer). Both builds are there, the file
layer and the one with `ALT_USE_DIRECT_DRIVERS`, of which the program is the first.

**The small services.** `IntervalTimer` has every always block of the core and the
register accesses of both drivers; `since`, `owed` and `late` are history. `HalHeap`
takes `sbrk` and the entry of a function as steps, with `reported` for the overflow
check; `sbrk` takes any signed size, and `blocks` is what the caller still has of what it
was given (`CutAt`). `HalProfile` has two levels of `mcount`, program and handler, at each load and
store of the lists they share. `HalLog` has the poll and the write of a character as two
steps, with the UART's interrupt routine between them. `HalTime` keeps the widths of the
words it computes in. `HalText` is pure.

## 3. Runs

| run | question | bounds |
|---|---|---|
| `lab3_display` | what is shown, printed and counted; that refreshes go on | 2 samples that differ in both bytes of X, `CntMod` 4, a prompt host |
| `lab3_faults` | refused addresses; interrupts anywhere in `main` | all-ones sample, `Acks` both, chip fresh or with an earlier calibration |
| `lab3_console` | the wait inside `irq_timer`; where edges and expiries are lost, and that the others are served | ring 2, FIFO 2, lines of 2; the host reads, shows life, is unplugged |
| `lab3_nohost` (violation) | refreshes go on without a host | lines of 1, ring 1, FIFO 1 |
| `jtag_uart` | nothing lost, doubled or overtaken; calls return; implements `Console` | buffer of 3, FIFOs of 1, counts up to 2, `INT_MAX` 4, timeouts 1 to 4 |
| `irq_nesting` | table, nesting, mask, service | 3 lines, 1 handler and NULL, 3 levels |
| `hal_clock` | the list; implements `Alarms` | 3 alarms, count of 4 values, intervals 0 to 2, periods 0, 1, 3 |
| `hal_files` | the file layer from start to end | 6 descriptors, 2 devices, a file system, 2 constructors |
| `hal_services` | the arithmetic of `main.c` and the small services, one per behaviour | all 65536 words; all formats up to 4 characters; the rest below |
| `i2c_calls` | the calls do what `I2cCalls` says, the lines keep frames and times | the program's 400 kHz at a clock of 20 MHz; registers 30 and 51, value 12; acknowledged or not; SCL held for 0 or 50 clocks |
| `i2c_restart` | polls end and false acknowledges stop after a restart | phases of 2 clocks, SCL held for 0 or 9, one restart at any clock |
| `i2c_ack` (violation) | an acknowledge reported was one the chip gave | one restart |

Why the bounds are enough.

* `Lab3`. `CntMod` 4 keeps what matters of 256: the wrap comes back to 0 from a number
  that selects the same axis (3 and 255 are both 0 modulo 3), and all three axes are
  reached. Runs whose question does not depend on the axis use 1. Ring, FIFO and line
  lengths are small but keep every comparison two-sided. Two samples make a torn word
  visible. The proofs do not depend on these bounds.
* `jtag_uart`. A buffer of 3 wraps at each index and is full at 2; a count of 2 is split
  by the wrap, and by a ring with one place. `INT_MAX` 4 separates a timeout that can
  pass from the one that means "for ever". The two directions share one word and one
  interrupt routine; a behaviour makes the calls of one of them while the host acts on
  both (`MCJtagUart`).
* `irq_nesting`. Three lines have a most urgent, a middle and a least urgent one, and
  three levels let each interrupt the next. The mask at each level is one the levels
  below determine.
* `hal_clock`. Three alarms are the least with which a callback can stop the one before,
  the one after, and one that is neither. A count of 4 rolls over within every interval
  but the zero one.
* `hal_files`. Beyond the three streams three descriptors are left, so that the pool
  fills, has a hole, and has its mark above and below it.
* `hal_services`. The timer's halves have 4 values, so both wrap within `MaxClocks` 17;
  the tick rate divides the second or does not, or is 0; the tick word is passed; the
  chunks of the delay loop have a remainder or none; heap increments are aligned, not
  aligned, too large and negative; a slab of the profiler holds some of the arcs; the log's FIFO
  is shorter than two messages. A heap that reported an overflow stops there (the code
  executes a break), so this run has `CHECK_DEADLOCK FALSE`; the others check it.
* I2C. `i2c_calls` runs the speed the program sets, with 20 MHz for the board's 50: a
  phase is 0.5 us in both, 10 clocks instead of 25, so each interval keeps its relation
  to the table, and the core's delays weigh more. 50 clocks exceed the low period of SCL
  by more than a phase, so that the chip really makes the core wait. `AgeCap` 26 is the
  longest time the table asks for, in clocks. `i2c_restart` takes prescale 1, the
  smallest with which the core's filters keep up, since a restart can fall on any clock;
  a second restart would find the same states.

What the findings show. They are disagreements of the code with its own documents,
quoted in `PROJECT.json`. Two have a run that finds the documented claim violated:

* `lab3_nohost`: with nobody reading the console the ring fills (2048 characters and
  the FIFO, about two and a half minutes of refreshes), and
  `altera_avalon_jtag_uart_write` then waits inside `irq_timer`. The interrupt that
  would make room is disabled, and the alarm that would give up belongs to the handler
  `irq_timer` replaced. The wait is permanent (`HangIsPermanent`, proved). A host that is
  attached but does not read has the same effect; a host that keeps up does not
  (`lab3_display`).
* `i2c_ack`: when the program is started again while the chip is sending, the chip may
  hold SDA low. The core then takes the bus for lost and drops the command, and with it
  TIP and the acknowledge bit; the driver reads that bit only, and returns `I2C_ACK`
  though nobody listens. This ends, as the calls that fail clock the chip out of its
  byte (`Recovers`).

The others are comments of the HAL whose opposite is a clause of a property that holds:

* `alt_timestamp` returns 0 after full scale (`TimestampExact` in `TimerExact`), as
  `altera_avalon_timer_ts.c:58` says and not `:92-94`, which says -1.
* The heartbeat of the log comes every `Interval` + 1 ticks (`HeartbeatCounts` in
  `LogSound`); `alt_log_printf.c:465-466` says every `ALT_LOG_SYS_CLK_INTERVAL` of them.
* `alt_sbrk.c:46-48` says that no bounds are checked and that memory is given even past
  the stack and the memory there is. `:88` checks the limit of the heap and refuses
  (`BlocksApart` in `HeapSound`), `:97-107` stops a program whose stack would be reached.
* `alt_ioctl.c:43-44` calls `ioctl` identical to the posix function. It returns the
  negative error and not -1, in either build (`DriverErrorFound` in `FromStartToEnd`).

What the other properties leave out, because the code does not keep it:

* A word may be assembled from two samples, and the 256th count leaves the axis as it
  is: `StableReading` speaks of a sample that stays, `LabelMatchesDisplay` of the axis
  whatever the count.
* `FastModeTiming` leaves out the setup time of a repeated start, one phase, 0.5 us
  instead of 0.6 us, and the high period after a stretched low one, as the divider runs
  down during the wait.
* A callback that stops the alarm after its own leaves that one linked to itself, and
  `alt_tick` never returns: `TickReturns` and `RingsOnTime` hold up to `lost`.
* An interruptible handler that enables or disables any line unmasks all of them:
  `NestsByPriority` holds up to `exposed`.
* `alt_fd_lock` does not look at the descriptor at the mark (`alt_fd_lock.c:61` stops
  before it, `:43` describes the opposite), so a device may be locked while another
  descriptor refers to it: `LockedGainsNoUser` says what is left of exclusive access.
* `alt_sbrk` with a size that is not a multiple of 4 parts the stack limit from the heap
  end for good: `HeapSound` claims the guard as long as no size left the end unaligned.
  Nor does `alt_sbrk` look whether memory that is given back was ever given: the caller
  is taken to give back at most that (`Owned`).
* An edge that comes between `cnt++` and the write that clears the capture register
  (`main.c:198-200`) is dropped, several edges before the handler runs are one, and an
  expiry during a refresh is cleared with the one that started it (`main.c:192`).
  `InterruptsServed` says that an interrupt at any other moment is served or meets the
  hang (`EdgeServed`, `TimeoutServed`), and that there is no other place at which an
  uncounted edge or a pending expiry disappears (`EdgeKept`, `ExpiryKept`).
* The two builds of the file layer report a driver's error in different places: in
  `errno` with the file layer, as the result of `read` and `write` with direct drivers.
  `BuildsAgree` says that they succeed and fail alike, and where the error is in each.
* An alarm that was never started has null links, which `alt_alarm_stop` would follow;
  the program is taken to stop none (`Stop`). One that was stopped before may be stopped
  again.
* A product of `gettimeofday` that no longer fits its word, and the extra pass of the busy
  loop at its wrap, are left out of `TimeExact`; increments lost and alarms started twice
  under an interrupted `mcount` are recorded and left out of `ProfileSound` (`lost`,
  `raced`), a character that the UART's handler took the room of out of `LogSound` (`cut`).
* With this board's one tick per second `ALT_LOG_JTAG_UART_TICKS` (a tenth of the rate)
  is 0. The busy loop behind `usleep` turns 45 cycles per microsecond at 50 MHz, a tenth
  short, for it is compiled for the small processor.

## 4. Fairness

* `LabFairSpec`: the processor keeps executing (weak fairness of `MainStep \/ IrqStep`),
  the timer keeps running in continuous mode, an attached host keeps reading. Nothing is
  assumed of button or cable. The button has priority over the timer in
  `alt_irq_handler`, so the service of the timer and `RefreshGoesOn` are stated for a
  user who eventually stops (`ButtonRests`); without that premise they are false.
  `PromptHost`, used in `lab3_display` and `lab3_faults`, says that the host empties the
  console within a timer period.
* `JtagUart`: the program goes on, an enabled interrupt is taken, the alarm keeps
  coming, an attached host reads. A write returns when the host stays or stays away
  under a timeout that can pass; a host that shows life again and again without reading
  keeps a write waiting, and a timeout of `INT_MAX` means for ever.
* `BusSpec`: the processor goes on (weak fairness of `ProgramClock`). The chip stretches
  the clock for a bounded time.
* `HalIrq`: `FairSpec` has weak fairness of a call's next store, and strong fairness of
  the dispatcher and of the end of a handler: more urgent lines may interrupt either
  again and again but do not come for ever without a gap.
* `HalClock`: `FairSpec` has weak fairness of the walk, of the timer and of its
  interrupt; callbacks return.

## 5. Proofs

TLAPS proves for every value of the constants, under the assumptions named in the
modules (`SamplesAssumption`, `ConsoleAssumption`, `Lab3Assumption`, `UartAssumption`,
`IrqAssumption`, `ClockAssumption`, `FilesAssumption`, `BootAssumption`,
`HeapAssumption`, `LogAssumption`, `TimerAssumption`, `TimeAssumption`,
`ProfileAssumption`, `ChipAssumption`, `BusAssumption`; each is evaluated by TLC in a run):

| theorem | module | statement |
|---|---|---|
| `ConversionCorrect`, `DigitsCorrect`, `PanelCorrect` | `Arithmetic` | sign extension, scaling and digits are exact; what the decoders light can be read back |
| `ConsoleCorrect` | `Lab3Proofs` | `ConsoleSpec => [](ConsoleTypeOK /\ NoStrandedBytes)` |
| `TypeCorrect` | `Lab3Proofs` | `LabSpec => []LabTypeOK` |
| `BusIsNeverShared` | `Lab3Proofs` | `LabSpec => []AddressedRegister` |
| `CalibratedFirst` | `Lab3Proofs` | `LabSpec => []Calibrated` |
| `DisplayCorrect`, `LabelCorrect` | `Lab3Proofs` | `LabSpec => []StableReading`, `[]LabelMatchesDisplay` |
| `DispatchFindsWork` | `Lab3Proofs` | `LabSpec => []EntryFindsWork` |
| `NoPressTwice` | `Lab3Proofs` | `LabSpec => PressCountedOnce` |
| `HangForever` | `Lab3Proofs` | `LabSpec => HangIsPermanent` |
| `KeptElsewhere` | `Lab3Proofs` | `LabSpec => EdgeKept /\ ExpiryKept`, the safety parts of `InterruptsServed` |
| `UartInvariant` | `JtagUartProofs` | `Spec => []UartInv` |
| `HostGetsAll`, `ProgramGetsAll`, `ReceiverStaysArmed` | `JtagUartProofs` | `Spec => []SentInOrder`, `[]ReceivedInOrder`, `[]ReceiverArmed` |
| `ConsoleImplemented` | `JtagUartProofs` | `Spec => TransmitsAsConsole`, a refinement |
| `BusIsNeverLost`, `LinesAreFramed` | `I2cBusProofs` | `BusSpec => []BusNeverLost`, `[]LinesFramed` |
| `CallsImplemented` | `I2cBusProofs` | `BusSpec => CallsAsPromised`, a refinement |
| `TimesOfFastMode` | `I2cBusProofs` | `BusSpec => FastModeTiming` |
| `HandlersComplete`, `PriorityNests`, `MaskComesBack` | `HalIrqProofs` | `Spec => []CalledComplete`, `[]NestsByPriority`, `[]MaskRestored` |
| `ListStaysIntact` | `HalClockProofs` | `Spec => []ListIntact` |
| `AlarmsImplemented` | `HalClockProofs` | `Spec => RingsOnTime`, a refinement |
| `PoolIsSound`, `LockedDevice`, `NothingLost`, `StartToEnd` | `HalFilesProofs` | `BootSpec => []PoolSound`, `LockedGainsNoUser`, `NoDescriptorLost`, `[]FromStartToEnd` |
| `HeapIsSound`, `LogIsSound` | `ServicesProofs` | `HeapSpec => []HeapSound`, `LogSpec => []LogSound` |
| `TimerIsExact`, `TimeIsExact` | `ServicesProofs` | `TimerSpec => []TimerExact`, `TimeSpec => []TimeExact` |
| `ProfileIsSound` | `ServicesProofs` | `ProfileSpec => [](ProfileSound /\ HeapSound)` |
| `ReadingsAreExact` | `ServicesProofs` | `ServicesSpec => []EveryReadingExact` |
| `ServicesAreSound` | `ServicesProofs` | the same of the services side by side, as `hal_services` runs them |

The arguments.

* `Lab3`. The inductive invariant is `SafetyInv`. None of the properties is inductive
  alone: that the display is right needs to know how far the words have been assembled
  (`WordsAssembled`, `SampleSoFar`), which needs the chip to be at the register the byte
  belongs to (`AddressedRegister`, `Transaction`), which needs `main` and `irq_timer` to
  be kept apart, which follows from the order of registration (`HandlersLast`).
  `Calibrated` needs what each `send_offset` has left behind (`OffsetsSoFar`),
  `PressCountedOnce` that an edge in the capture register is uncounted outside
  `irq_button` (`EdgeUncounted`). The frame lemmas say once which steps leave which
  variables alone. Type correctness needs `WordsAssembled`, since the words are
  converted in place and only a 16-bit word stays in range.
* `HalIrq`. `IrqInv` adds three parts to the properties. `NestInv`: each level of the
  stack remembers the mask of the level below, from the program's at the bottom, and the
  mask in force is the one the topmost open handler set. `TableInv`: handler and context
  of a line agree except between their two stores, and an enabled line has a handler.
  `MaskInv`: `ienable` is what is registered and unmasked, except inside a call that has
  still to write it and after a call made in an open handler. Priority follows, since an
  open handler leaves only more urgent lines in the mask.
* `HalClock`. `Ring` says that `next` and `previous` are inverse to each other. Inserting
  and removing keep it; removing needs the case of an entry that is its own neighbour,
  which an alarm already stopped is.
* `HalFiles`. `PoolKept` collects what each function keeps of a pool (mark, clean free
  descriptors, standard streams in use, locks on devices only), with one lemma per
  function; the descriptor `open` takes is the lowest free one, which exists by
  well-foundedness of the naturals. The lemmas of each system call compose those, and
  the theorems add what each step may change of the locks and of the streams. `RanInv`
  says which constructors and destructors have run, in which order, by how far the
  program has come.
* `JtagUart`. A character is the number of its place in its stream, modulo `Chars`.
  `TxStream` and `RxStream` say that FIFO and ring hold consecutive numbers ending at the
  last one written or sent; an index of a ring moves modulo its length, so the lemmas about
  what a ring holds rest on `Arithmetic`. A store or take that is split from its check by an
  interrupt needs `StoreFits` and `TakeFits`: the room or the characters seen before the
  interrupt are still there after it, since the interrupt routine only makes more. `Armed`
  is `ReceiverArmed` with the case of a read under way, `RoomSeen` what a writer knows who
  found the ring full. The refinement of `Console` maps the ring's fill and the FIFO's
  length and takes each step of driver and core to a step of `Console` or to a stutter.
* `I2cBus`. Neither invariant says enough to be kept by a step, and the invariant
  (`BusInv`) follows the clock through all five machines. The driver: where the caller is
  (`CallInv`), which access is next, and that a command is at work exactly from its access
  to the end of the poll (`DriverInv`, `CommandInv`, `TransmitInv`). The core: the byte
  controller works for the command of the call (`ByteInv`), the bit controller for the
  command it has (`StateInv`), and a bit is done in the first clock of a phase
  (`DividerInv`), so that a new command always finds a whole phase before it. The lines:
  what each of the seventeen states gives them (`RestInv`, `PhaseInv`, `WriteInv`), and
  that what it gives has come through the two synchronising registers and the chip's
  sampling before the clock rises and before the core compares (`SamplesInv`, `ClockInv`,
  `DataInv`). The chip: it and the core are at the same bit of the same byte, and the bits
  the chip has are the first ones of the byte to transmit (`SyncInv` with `Matches` and
  `Seen`), which is why the chip never pulls SDA while the core compares. The hypotheses
  are `Prescale >= 2`, three clocks to a phase, which is what the core's own delay needs
  (on the board the prescale is 24; with 1 and a chip that stretches for some twenty
  clocks TLC finds the bus taken for lost), and `MaxRestarts = 0`: a restart in the middle
  of a transfer does lose the bus, which is the finding of `i2c_ack`.
* `I2cBus`, the refinement of `I2cCalls`. On top of `BusInv`, `CallsInv` says what has
  become of a call. Until its byte has come the chip is as it was when the call began, and
  from then on it is as `I2cCalls` leaves it (`EffectInv`, over `Before` and `After`); a chip
  that is off listens to nothing (`OffInv`), one that sends gives the bits of the byte at its
  pointer (`SourceInv`). On the way back the core samples SDA where the chip gives it
  (`SampledInv`), the shift register holds the first bits of that byte (`ReceiveInv`, a
  calculation over weights, as there is no induction over data), the acknowledge means that
  the chip heard the byte (`HeardInv`), and the driver's last access takes that bit or that
  byte (`ReplyInv`). The return of a call is then the step of `I2cCalls` for it, and every
  other clock a stutter, the return of `I2C_init` included.
* `I2cBus`, the times. `TimeInv` measures the age of a level in phases of the divider
  (`Lasts`: whole phases and the clocks of the one in progress). A low clock line is two
  phases old in the state before it is released and so three when it rises, whoever holds
  it (`LowLasts`); a high one that the chip has not stretched is two phases old when it
  falls (`HighLasts`). Between transfers the core does not hold SDA (`ReleasedInv`), and
  with the chip off three phases pass from the start command to the start condition
  (`FreeLasts`). Each clock either stays in its phase, or ends it with the divider at
  `Prescale` (`AgeMoves`, `BitStrides`). That two and three phases are the 600 and 1300 ns
  of the table is a calculation over the quotients of the clock (`PhaseTimes`), for
  `SclSpeed <= 400000`, and needs ages counted that far, `AgeCap + 1 >= Clocks(1300)`.
* `HalClock`, the refinement of `Alarms`. A ring list with no entry lost has an order:
  `InOrder` numbers the listed alarms so that `next` is the one with the nearest greater
  number, and inserting shifts the numbers. `OnTime` says, against the walk's place in that
  order, that the alarms it has passed are in the future and that none of the others is
  overdue. What remains for an alarm is a difference modulo the word, with the rollover
  flag as its carry (`Ticks`). The refinement is promised until a callback stops the alarm
  that the walk has taken for its next (`lost`), and is proved under that condition.
* `HalHeap`. The blocks lie below `heap_end`, and while no size has left it unaligned the
  limit is at it and the stack above. Giving memory back cuts the blocks at the new end,
  which keeps them apart (`CutApart`). Sizes are any integers that give back at most what
  was given.
* `HalLog`. `RoomKept`: the room a poll has seen is still there at the write unless an
  interrupt has come between, which `cut` records. The ticks are the seconds that the
  heartbeat has counted, of `Interval + 1` ticks each, and what its count has on top.
* `IntervalTimer`. `StartedFresh`: while the two periods are written the counter stands,
  and when both are it has been loaded with full scale or is about to be. `Counting`: from
  then on it is as many clocks below full scale as have passed, until it expires and stops
  there. `SnapshotKept`: what a read returns, and between its two half reads the snapshot,
  is that of the moment the snapshot was taken.
* `HalTime`. `DayInv` bounds both fields of the time set, and ticks are turned into time
  by division with remainder, in the code's order, so `DayKept` is a calculation over
  quotients. `SleepInv` counts the turns that the big loops done so far have made
  (`LoopsDone`).
* `HalProfile`. `OneStarts`: of the two levels one at most is between its test of the flag
  and the start of the alarm, unless `raced`. `CountInv`: what the copies of an arc sum up
  to is its calls, without those lost and those that a level is still recording
  (`Pending`); between its load and its store a level has the count it loaded, and `lost`
  takes up the difference when it stores. The sum over a finite set is folded in an order
  that is not said, and induction over data is out of reach, so the lemmas about it
  (`SumAdds`, `SumChanges`) are proved of the least subset for which they would fail.
* The services side by side (`MCServices`): each step of one machine leaves the variables
  of the others alone (`EachOnItsOwn`), and those that use the heap use it through
  `sbrk()`.

Only model-checked:

* liveness (`EdgeServed` and `TimeoutServed` of `InterruptsServed`, `RefreshGoesOn`, `CallsReturn`, `Recovers`,
  `UrgentServed`, `TickReturns`, `EveryAlarmRings`), which is out of reach of the provers;
* formatting (`PrintersCorrect`), which is an induction over the characters of a format
  and over the digits of a number.

## 6. Not modelled

* Locks and environment: without an operating system the locks are empty functions, the
  rest defines variables.
* Caches, code loading, DMA, flash: the processor has no caches, the program runs where
  it is loaded, the system has no such devices.
* Exception entry, instruction emulation, ECC handlers, `crt0`: assembly that saves and
  restores registers; what it means to the interrupts is `TakeIrq` and `ReturnFromIrq` of
  `HalIrq`. The registers themselves are left out.
* Processor, interconnect, memory: generated; sequential execution, level interrupts and
  one register access at a time are assumed. A clearing write that reaches its device
  late would need the generated interconnect.
* The receive timer of the UART core, taken as immediate; the C library's buffer, which is
  not in the repository; a second master on the I2C bus, which the board does not have;
  the writing out of the profile.

## 7. What could follow

Both directions of the UART at once, with longer rings.
