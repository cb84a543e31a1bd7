------------------------------ MODULE HalFiles ------------------------------
(***************************************************************************)
(* The HAL's file layer: the lists of devices and file systems, the pool   *)
(* of file descriptors, exclusive access, and the system calls of the C    *)
(* library that go through them.  Each function of the HAL is an operator  *)
(* that returns the pool it leaves and what it returns; HalBoot has the    *)
(* actions.  A driver's own work is left out: what its routine returns is  *)
(* a parameter, 0 for a success or the negative error it reports.  There   *)
(* is no operating system: ALT_SEM_PEND and ALT_SEM_POST are empty, and    *)
(* only the program itself makes these calls, one at a time.               *)
(***************************************************************************)
EXTENDS Integers, Sequences

CONSTANT MaxFd          \* ALT_MAX_FD

ASSUME FilesAssumption == MaxFd \in Nat /\ MaxFd > 3

----------------------------------------------------------------------------
(* Names are paths, sequences of their components.  A device is its name;  *)
(* a file system is its mount point.                                       *)

DevNull == << "dev", "null" >>
DevUart == << "dev", "jtag_uart_0" >>
NoDev == << >>

(* The functions of alt_dev_s a device's structure has.                    *)
Provides(dev) ==
  IF dev = DevNull THEN {"write"}
  ELSE IF dev = DevUart THEN {"close", "read", "write", "ioctl"}
  ELSE {"open", "close", "read", "write", "lseek", "fstat"}

(* alt_llist_insert puts a new entry first.                                *)
alt_llist_insert(list, entry) == << entry >> \o list

alt_dev_llist_insert(list, dev) ==
  IF dev = NoDev THEN list ELSE alt_llist_insert(list, dev)

alt_fs_reg(list, dev) ==
  IF dev = NoDev THEN list ELSE alt_llist_insert(list, dev)

(* The first entry of a list that is in S.                                 *)
First(list, S) ==
  LET at == {i \in 1..Len(list) : list[i] \in S}
  IN  IF at = {} THEN NoDev
      ELSE list[CHOOSE i \in at : \A j \in at : i <= j]

(* The whole name, and no less.                                            *)
alt_find_dev(name, list) == First(list, {name})

(* A mount point that is a prefix of the name, component by component.     *)
alt_find_file(name, list) ==
  First(list, {SubSeq(name, 1, n) : n \in 1..Len(name)})

----------------------------------------------------------------------------
(* The pool.  mode and nonblock are the access mode and O_NONBLOCK of      *)
(* fd_flags, excl and isdev are ALT_FD_EXCL and ALT_FD_DEV.  priv is for   *)
(* drivers this program does not have.                                     *)

Modes == {"RDONLY", "WRONLY", "RDWR"}
Fds == 0..(MaxFd - 1)
Std == 0..2
Entry(dev, mode, nonblock, isdev) ==
  [dev |-> dev, mode |-> mode, nonblock |-> nonblock, excl |-> FALSE,
   isdev |-> isdev]
Free == Entry(NoDev, "RDONLY", FALSE, FALSE)

(* alt_fd_list and alt_max_fd as they are loaded.                          *)
InitialPool ==
  [fd |-> [i \in Fds |-> IF i \in Std THEN Entry(DevNull, "RDONLY", FALSE, FALSE)
                         ELSE Free],
   max |-> -1]

(* errno.h, as the C library numbers the errors.                           *)
Errno == [ECHILD |-> 10, EWOULDBLOCK |-> 11, EACCES |-> 13, ENODEV |-> 19,
          EINVAL |-> 22, EMFILE |-> 24, ENOTTY |-> 25, EBADFD |-> 81,
          ENOSYS |-> 88, ENOTSUP |-> 134]

(* What a call leaves and returns: the pool, the result, and the error it  *)
(* puts in errno, 0 when it leaves errno alone.  A call fails with -1 and  *)
(* errno (Failed), or hands the negative error itself to its caller, and   *)
(* errno is set (Signalled) or not (Passed).                               *)
Done(p, val) == [pool |-> p, val |-> val, err |-> 0]
Failed(p, err) == [pool |-> p, val |-> -1, err |-> err]
Passed(p, rc) == Done(p, rc)
Signalled(p, rc) == [pool |-> p, val |-> rc, err |-> IF rc < 0 THEN -rc ELSE 0]
FromDriver(p, rc) == IF rc < 0 THEN Failed(p, -rc) ELSE Done(p, rc)

(* A faulty alt_get_fd: the high-water mark follows the last allocation.   *)
alt_get_fd_last(p, dev) ==
  LET unused == {i \in Fds : p.fd[i].dev = NoDev}
      i == CHOOSE j \in unused : \A k \in unused : j <= k
  IN  IF unused = {} THEN Failed(p, Errno.EMFILE)
      ELSE Done([fd |-> [p.fd EXCEPT ![i].dev = dev], max |-> i], i)

(* The first unused descriptor, and the mark of the highest ever used.     *)
alt_get_fd(p, dev) ==
  LET unused == {i \in Fds : p.fd[i].dev = NoDev}
      i == CHOOSE j \in unused : \A k \in unused : j <= k
  IN  IF unused = {} THEN Failed(p, Errno.EMFILE)
      ELSE Done([fd |-> [p.fd EXCEPT ![i].dev = dev],
                 max |-> IF i > p.max THEN i ELSE p.max], i)

(* A faulty alt_release_fd: the standard descriptors are released too.     *)
alt_release_fd_any(p, f) == IF f >= 0 THEN [p EXCEPT !.fd[f] = Free] ELSE p

alt_release_fd(p, f) == IF f > 2 THEN [p EXCEPT !.fd[f] = Free] ELSE p

(* A faulty alt_file_locked: it stops where alt_fd_lock does.              *)
alt_file_locked_short(p, f) ==
  \E i \in Fds : i < p.max /\ i # f /\ p.fd[i].excl /\ p.fd[i].dev = p.fd[f].dev

(* Another descriptor holds the device of descriptor f for itself.         *)
alt_file_locked(p, f) ==
  \E i \in Fds : i <= p.max /\ i # f /\ p.fd[i].excl /\ p.fd[i].dev = p.fd[f].dev

(* Exclusive access, unless a descriptor before the high-water mark refers *)
(* to the device too.  Both functions return a result code.                *)
alt_fd_lock(p, f) ==
  IF \E i \in Fds : i < p.max /\ i # f /\ p.fd[i].dev = p.fd[f].dev
  THEN Passed(p, -Errno.EACCES)
  ELSE Passed([p EXCEPT !.fd[f].excl = TRUE], 0)

alt_fd_unlock(p, f) == Passed([p EXCEPT !.fd[f].excl = FALSE], 0)

----------------------------------------------------------------------------
(* The system calls.  A negative descriptor is refused; one that is not    *)
(* open is the caller's mistake, the code follows a null pointer.  devs    *)
(* and fss are alt_dev_list and alt_fs_list.                               *)

(* A faulty alt_open: a failure leaves the descriptor it took.             *)
alt_open_leaks(p, devs, fss, name, mode, nonblock, drv) ==
  LET dev == alt_find_dev(name, devs)
      owner == IF dev # NoDev THEN dev ELSE alt_find_file(name, fss)
      got == alt_get_fd(p, owner)
      f == got.val
      q == [got.pool EXCEPT !.fd[f] = Entry(owner, mode, nonblock, dev # NoDev)]
      status == IF dev # NoDev /\ alt_file_locked(q, f) THEN -Errno.EACCES
                ELSE IF "open" \in Provides(owner) THEN drv ELSE 0
  IN  IF owner = NoDev THEN Failed(p, Errno.ENODEV)
      ELSE IF got.val < 0 THEN got
      ELSE IF status >= 0 THEN Done(q, f)
      ELSE Failed(q, -status)

alt_open(p, devs, fss, name, mode, nonblock, drv) ==
  LET dev == alt_find_dev(name, devs)
      owner == IF dev # NoDev THEN dev ELSE alt_find_file(name, fss)
      got == alt_get_fd(p, owner)
      f == got.val
      q == [got.pool EXCEPT !.fd[f] = Entry(owner, mode, nonblock, dev # NoDev)]
      status == IF dev # NoDev /\ alt_file_locked(q, f) THEN -Errno.EACCES
                ELSE IF "open" \in Provides(owner) THEN drv ELSE 0
  IN  IF owner = NoDev THEN Failed(p, Errno.ENODEV)
      ELSE IF got.val < 0 THEN got
      ELSE IF status >= 0 THEN Done(q, f)
      ELSE Failed(alt_release_fd(q, f), -status)

(* The descriptor is released whatever the driver answers.                 *)
alt_close(p, f, drv) ==
  IF f < 0 THEN Failed(p, Errno.EBADFD)
  ELSE FromDriver(alt_release_fd(p, f),
                  IF "close" \in Provides(p.fd[f].dev) THEN drv ELSE 0)

alt_read(p, f, drv) ==
  IF f < 0 THEN Failed(p, Errno.EBADFD)
  ELSE IF p.fd[f].mode # "WRONLY" /\ "read" \in Provides(p.fd[f].dev)
  THEN FromDriver(p, drv) ELSE Failed(p, Errno.EACCES)

alt_write(p, f, drv) ==
  IF f < 0 THEN Failed(p, Errno.EBADFD)
  ELSE IF p.fd[f].mode # "RDONLY" /\ "write" \in Provides(p.fd[f].dev)
  THEN FromDriver(p, IF p.fd[f].dev = DevNull THEN 0 ELSE drv)
  ELSE Failed(p, Errno.EACCES)

alt_lseek(p, f, drv) ==
  IF f < 0 THEN Failed(p, Errno.EBADFD)
  ELSE IF "lseek" \in Provides(p.fd[f].dev) THEN FromDriver(p, drv)
  ELSE Failed(p, Errno.ENOTSUP)

(* Exclusive access to a device is settled here, every other request by    *)
(* the driver.  Whatever refuses the request, the program gets the negative*)
(* error, in errno and as the result.                                      *)
alt_ioctl(p, f, req, drv) ==
  LET done == IF f < 0 THEN Passed(p, -Errno.EBADFD)
              ELSE IF p.fd[f].isdev /\ req = "TIOCEXCL" THEN alt_fd_lock(p, f)
              ELSE IF p.fd[f].isdev /\ req = "TIOCNXCL" THEN alt_fd_unlock(p, f)
              ELSE IF "ioctl" \in Provides(p.fd[f].dev) THEN Passed(p, drv)
              ELSE Passed(p, -Errno.ENOTTY)
  IN  Signalled(done.pool, done.val)

(* Only O_NONBLOCK, and O_APPEND which nothing looks at, can be changed.   *)
alt_fcntl(p, f, cmd, nonblock) ==
  IF f < 0 THEN Failed(p, Errno.EBADFD)
  ELSE CASE cmd = "F_GETFL" -> Done(p, 0)
         [] cmd = "F_SETFL" -> Done([p EXCEPT !.fd[f].nonblock = nonblock], 0)
         [] OTHER -> Failed(p, Errno.EINVAL)

(* A device without fstat is a character device, and a terminal.  What a   *)
(* driver's fstat answers is returned as it is.                            *)
alt_fstat(p, f, drv) ==
  IF f < 0 THEN Failed(p, Errno.EBADFD)
  ELSE Passed(p, IF "fstat" \in Provides(p.fd[f].dev) THEN drv ELSE 0)

alt_isatty(p, f, chr) ==
  IF f < 0 THEN [Failed(p, Errno.EBADFD) EXCEPT !.val = 0]
  ELSE Done(p, IF "fstat" \notin Provides(p.fd[f].dev) \/ chr THEN 1 ELSE 0)

(* open, fstat, close, the last two with what open returned.               *)
alt_stat(p, devs, fss, name, drv) ==
  LET opened == alt_open(p, devs, fss, name, "RDONLY", FALSE, drv)
      stated == alt_fstat(opened.pool, opened.val, drv)
  IN  [stated EXCEPT !.pool = alt_close(opened.pool, opened.val, 0).pool]

----------------------------------------------------------------------------
(* A standard descriptor takes over what a fresh one was opened for.       *)
alt_open_fd(p, devs, fss, f, name, mode) ==
  LET old == alt_open(p, devs, fss, name, mode, FALSE, 0)
  IN  IF old.val < 0 THEN old.pool
      ELSE alt_release_fd([old.pool EXCEPT !.fd[f] = old.pool.fd[old.val]],
                          old.val)

(* stdout, then stdin, then stderr.                                        *)
alt_io_redirect(p, devs, fss, outName, inName, errName) ==
  LET p1 == alt_open_fd(p, devs, fss, 1, outName, "WRONLY")
      p2 == alt_open_fd(p1, devs, fss, 0, inName, "RDONLY")
  IN  alt_open_fd(p2, devs, fss, 2, errName, "WRONLY")

----------------------------------------------------------------------------
(* The same calls of a build with direct drivers (ALT_USE_DIRECT_DRIVERS): *)
(* no pool, the standard descriptors stand for their devices, and the rest *)
(* of the layer is missing.                                                *)

(* What such a call returns, and puts in errno.  A driver's result is      *)
(* returned as it is, and errno left alone.                                *)
NotSupported == [val |-> -1, err |-> Errno.ENOSYS]
BadFile == [val |-> -1, err |-> Errno.EBADFD]
Direct(rc) == [val |-> rc, err |-> 0]

open_direct == NotSupported
close_direct == NotSupported
lseek_direct == NotSupported
read_direct(f, drv) == IF f = 0 THEN Direct(drv) ELSE BadFile
write_direct(f, drv) == IF f \in {1, 2} THEN Direct(drv) ELSE BadFile
ioctl_direct(f, drv) == IF f \in Std THEN Direct(drv) ELSE BadFile
fstat_direct(f) == Direct(IF f \in Std THEN 0 ELSE -1)
isatty_direct(f) == Direct(IF f \in Std THEN 1 ELSE 0)
=============================================================================
