----------------------------- MODULE MCJtagUart -----------------------------
(***************************************************************************)
(* The two directions share one word, irq_enable, and the interrupt        *)
(* routine.  A behaviour here has the calls of one of them; while the      *)
(* program writes, the host sends one character.                           *)
(***************************************************************************)
EXTENDS JtagUart

VARIABLE uses

MCInit == Init /\ uses \in {"write", "read"}

MCNext ==
  /\ UNCHANGED uses
  /\ \/ uses = "write" /\ (WriteCalls \/ CloseCalls \/ IoctlCalls)
     \/ uses = "read" /\ ReadCalls
     \/ (uses = "read" \/ sent = 0) /\ HostSend
     \/ CallNext \/ UartIrq \/ UartTimeout \/ HostRead \/ HostPing \/ HostPlug

MCSpec == MCInit /\ [][MCNext]_<< vars, uses >> /\ Fairness
=============================================================================
