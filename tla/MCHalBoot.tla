----------------------------- MODULE MCHalBoot -----------------------------
(***************************************************************************)
(* A small pool, the two devices of the program and one file system.       *)
(***************************************************************************)
EXTENDS HalBoot

Mount == << "mnt" >>
Mounts == {Mount}
Paths == { DevNull, DevUart, << "mnt", "a" >>, << "mntb" >> }
OneMode == { [mode |-> "RDWR", nonblock |-> TRUE] }
=============================================================================
