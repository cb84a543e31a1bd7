------------------------------ MODULE HalBoot ------------------------------
(***************************************************************************)
(* From alt_main to _exit: the devices are registered, the standard        *)
(* streams redirected, the constructors run, main makes whatever calls of  *)
(* HalFiles it likes, and the program ends by returning, by exit or by a   *)
(* signal to itself.  What the C library does between exit and _exit is    *)
(* external: the functions given to atexit, then a last write of what is   *)
(* still buffered.                                                         *)
(***************************************************************************)
EXTENDS HalFiles, FiniteSets

CONSTANTS
  Ctors,          \* how many entries __CTOR_LIST__ and __DTOR_LIST__ have
  FileSystems,    \* mount points of file systems, the BSP has none
  Names,          \* what the program opens
  OpenModes,      \* access mode and O_NONBLOCK it opens with
  Requests        \* requests it makes with ioctl

(* A file system is not mounted where a device is.                         *)
ASSUME BootAssumption ==
  /\ Ctors \in Nat
  /\ \A fs \in FileSystems : Len(fs) > 0 /\ fs \notin {DevNull, DevUart}
  /\ \A m \in OpenModes : m.mode \in Modes /\ m.nonblock \in BOOLEAN

VARIABLES
  pc,             \* where start-up, the program or its end is
  devs, fss,      \* alt_dev_list, alt_fs_list
  pool,           \* alt_fd_list and alt_max_fd
  failed,         \* the last call returned a negative result
  ran             \* constructors and destructors that have run, in order

bootVars == << pc, devs, fss, pool, failed, ran >>

(* ALT_STDIN, ALT_STDOUT, ALT_STDERR of system.h.                          *)
Stdin == DevUart
Stdout == DevUart
Stderr == DevUart

(* What a driver answers: done, or nothing to be had now.                  *)
DriverResults == {0, -Errno.EWOULDBLOCK}

BootInit ==
  /\ pc = "alt_irq_init"
  /\ devs = << DevNull >> /\ fss = << >>
  /\ pool = InitialPool
  /\ failed = FALSE
  /\ ran = << >>

----------------------------------------------------------------------------
(* The interrupt controller comes before the devices.                      *)
IrqInit ==
  /\ pc = "alt_irq_init"
  /\ pc' = "alt_sys_init"
  /\ UNCHANGED << devs, fss, pool, failed, ran >>

(* Timer, then UART, each with its registration; file systems after them.  *)
SysInit ==
  /\ pc = "alt_sys_init"
  /\ devs' = alt_dev_llist_insert(devs, DevUart)
  /\ \/ fss' = fss
     \/ \E fs \in FileSystems : fss' = alt_fs_reg(fss, fs)
  /\ pc' = "alt_io_redirect"
  /\ UNCHANGED << pool, failed, ran >>

Redirect ==
  /\ pc = "alt_io_redirect"
  /\ pool' = alt_io_redirect(pool, devs, fss, Stdout, Stdin, Stderr)
  /\ pc' = "_do_ctors"
  /\ UNCHANGED << devs, fss, failed, ran >>

LeftOf(kind) == Ctors - Cardinality({k \in 1..Len(ran) : ran[k][1] = kind})

(* The list from its end to its beginning; _do_dtors is then left with     *)
(* atexit and main is called.                                              *)
do_ctors ==
  /\ pc = "_do_ctors"
  /\ IF LeftOf("ctor") > 0
     THEN ran' = Append(ran, << "ctor", LeftOf("ctor") >>) /\ UNCHANGED pc
     ELSE pc' = "main" /\ UNCHANGED ran
  /\ UNCHANGED << devs, fss, pool, failed >>

----------------------------------------------------------------------------
(* The program's calls.                                                    *)

Returns(r) ==
  /\ pool' = r.pool /\ failed' = (r.val < 0)
  /\ UNCHANGED << pc, devs, fss, ran >>

Usable == {-1} \cup {f \in Fds : pool.fd[f].dev # NoDev}

Open ==
  \E name \in Names, m \in OpenModes, drv \in DriverResults :
    Returns(alt_open(pool, devs, fss, name, m.mode, m.nonblock, drv))

Stat ==
  \E name \in Names, drv \in DriverResults :
    Returns(alt_stat(pool, devs, fss, name, drv))

Close(f) == \E drv \in DriverResults : Returns(alt_close(pool, f, drv))

Transfer(f) ==
  \E drv \in DriverResults :
    \/ Returns(alt_read(pool, f, drv))
    \/ Returns(alt_write(pool, f, drv))
    \/ Returns(alt_lseek(pool, f, drv))
    \/ Returns(alt_fstat(pool, f, drv))
    \/ Returns(alt_isatty(pool, f, drv = 0))

Control(f) ==
  \/ \E req \in Requests, drv \in DriverResults :
       Returns(alt_ioctl(pool, f, req, drv))
  \/ \E cmd \in {"F_GETFL", "F_SETFL", "F_DUPFD"}, nonblock \in BOOLEAN :
       Returns(alt_fcntl(pool, f, cmd, nonblock))

(* What there is no process or directory for.                              *)
getpid == 0
fork == [val |-> -1, err |-> Errno.ENOSYS]
execve == [val |-> -1, err |-> Errno.ENOSYS]
wait == [val |-> -1, err |-> Errno.ECHILD]
link == [val |-> -1, err |-> Errno.ENOSYS]
rename == [val |-> -1, err |-> Errno.ENOSYS]
unlink == [val |-> -1, err |-> Errno.ENOSYS]

Unsupported ==
  /\ \E r \in {fork, execve, wait, link, rename, unlink} : failed' = (r.val < 0)
  /\ UNCHANGED << pc, devs, fss, pool, ran >>

(* A signal to itself ends the program, is nothing, or is unknown.         *)
kill(pid, sig) ==
  /\ pc' = IF pid <= 0 /\ sig = "SIGTERM" THEN "halted" ELSE pc
  /\ failed' = (pid > 0 \/ sig = "SIGSTOP")
  /\ UNCHANGED << devs, fss, pool, ran >>

Program ==
  /\ pc = "main"
  /\ \/ Open \/ Stat \/ Unsupported
     \/ \E f \in Usable : Close(f) \/ Transfer(f) \/ Control(f)
     \/ \E pid \in {getpid, 1}, sig \in {"0", "SIGTERM", "SIGCHLD", "SIGSTOP"} :
          kill(pid, sig)

----------------------------------------------------------------------------
(* main returns: stdout is closed, exit is called.                         *)
MainReturns ==
  /\ pc = "main"
  /\ \E drv \in DriverResults :
       LET r == alt_close(pool, 1, drv)
       IN  pool' = r.pool /\ failed' = (r.val < 0)
  /\ pc' = "exit"
  /\ UNCHANGED << devs, fss, ran >>

do_dtors ==
  /\ pc = "exit"
  /\ IF LeftOf("dtor") > 0
     THEN ran' = Append(ran, << "dtor", LeftOf("dtor") >>) /\ UNCHANGED pc
     ELSE pc' = "flush" /\ UNCHANGED ran
  /\ UNCHANGED << devs, fss, pool, failed >>

(* The C library writes what it still has for stdout and stderr.           *)
Flush ==
  /\ pc = "flush"
  /\ \E f \in {1, 2}, drv \in DriverResults :
       LET r == alt_write(pool, f, drv)
       IN  failed' = (r.val < 0)
  /\ pc' \in {"flush", "_exit"}
  /\ UNCHANGED << devs, fss, pool, ran >>

(* _exit waits for ever, with interrupts enabled.                          *)
exit ==
  /\ pc \in {"_exit", "halted"}
  /\ pc' = "halted"
  /\ UNCHANGED << devs, fss, pool, failed, ran >>

BootNext ==
  \/ IrqInit \/ SysInit \/ Redirect \/ do_ctors
  \/ Program
  \/ MainReturns \/ do_dtors \/ Flush \/ exit

BootSpec == BootInit /\ [][BootNext]_bootVars

----------------------------------------------------------------------------
(* alt_max_fd, which bounds both searches for a descriptor of the same     *)
(* device, is never below a descriptor that open gave out and that is      *)
(* still in use, whatever was opened and closed since.                     *)
HighWaterMark == \A f \in Fds \ Std : pool.fd[f].dev # NoDev => f <= pool.max

(* A descriptor that is not open has no flags of an earlier use: no lock   *)
(* survives its descriptor.                                                *)
FreeIsClean == \A f \in Fds : pool.fd[f].dev = NoDev => pool.fd[f] = Free

(* The pool after any calls (alt_get_fd.c:82, alt_release_fd.c:44).        *)
PoolSound == HighWaterMark /\ FreeIsClean

(* open gives no second descriptor for a device that one descriptor holds  *)
(* for itself: the descriptors of a locked device only become fewer.       *)
LockedGainsNoUser ==
  [][\A f \in Fds : pool.fd[f].excl =>
       \A g \in Fds : pool'.fd[g].dev = pool.fd[f].dev
                      => pool.fd[g].dev = pool.fd[f].dev]_bootVars

(* An open that fails, at whatever step, gives back the descriptor it took,*)
(* and a stat leaves none behind.                                          *)
NoDescriptorLost ==
  [][pool'.fd # pool.fd => ~Stat /\ ~(failed' /\ Open)]_bootVars

(* The standard streams stay usable from the redirection to the last write *)
(* of the C library, which comes after main's stdout was closed: nothing   *)
(* the program opens or closes takes their descriptors away.               *)
StreamsToTheEnd ==
  pc \in {"main", "exit", "flush"} =>
    /\ alt_read(pool, 0, 0).val = 0
    /\ \A f \in {1, 2} : alt_write(pool, f, 0).val = 0
    /\ \A f \in Std : pool.fd[f].dev = DevUart

(* Every constructor has run once before main, every destructor once       *)
(* before the last write of a program that ends by exit.                   *)
RunOnce ==
  /\ pc \in {"main", "exit", "flush", "_exit"} =>
       \A i \in 1..Ctors : \E k \in 1..Len(ran) :
         \A j \in 1..Len(ran) : ran[j] = << "ctor", i >> <=> j = k
  /\ pc \in {"flush", "_exit"} =>
       \A i \in 1..Ctors : \E k \in 1..Len(ran) :
         \A j \in 1..Len(ran) : ran[j] = << "dtor", i >> <=> j = k

(* The calls of the two builds, on a standard stream or on no stream.      *)
CallPairs(f, drv) ==
  { << alt_read(pool, f, drv), read_direct(f, drv) >>,
    << alt_write(pool, f, drv), write_direct(f, drv) >>,
    << alt_ioctl(pool, f, "TIOCGCONNECTED", drv), ioctl_direct(f, drv) >>,
    << alt_fstat(pool, f, drv), fstat_direct(f) >>,
    << alt_isatty(pool, f, drv = 0), isatty_direct(f) >> }

(* A build with direct drivers and the file layer succeed and fail alike   *)
(* on the standard streams, and a success returns the same.                *)
SameSuccess ==
  \A f \in Std \cup {-1}, drv \in DriverResults :
    \A c \in CallPairs(f, drv) :
      c[1].val = c[2].val \/ (c[1].val < 0 /\ c[2].val < 0)

(* The error of the driver behind a standard stream reaches the program in *)
(* both builds, but not in the same place: the file layer puts it in errno,*)
(* a direct driver's read or write returns it and leaves errno alone       *)
(* (alt_read.c:72 and :108, alt_write.c:78 and :121).  The result of ioctl *)
(* is the negative error in both (alt_ioctl.c:88 and :167), not the -1 of  *)
(* the posix function that alt_ioctl.c:43 calls it identical to.           *)
DriverErrorFound ==
  \A drv \in DriverResults : drv < 0 =>
    /\ \A c \in {alt_read(pool, 0, drv), alt_write(pool, 1, drv),
                 alt_write(pool, 2, drv)} : c.val = -1 /\ c.err = -drv
    /\ \A c \in {read_direct(0, drv), write_direct(1, drv), write_direct(2, drv)} :
         c.val = drv /\ c.err = 0
    /\ \A f \in Std :
         /\ alt_ioctl(pool, f, "TIOCGCONNECTED", drv).val = drv
         /\ ioctl_direct(f, drv).val = drv

(* How far the two builds agree on the standard streams.                   *)
BuildsAgree == pc = "main" => SameSuccess /\ DriverErrorFound

(* What the program may rely on from its first statement to the last write *)
(* of the C library, in either build (alt_main.c:87-155).                  *)
FromStartToEnd == RunOnce /\ StreamsToTheEnd /\ BuildsAgree
=============================================================================
