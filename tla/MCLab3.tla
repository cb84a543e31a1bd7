------------------------------- MODULE MCLab3 -------------------------------
(***************************************************************************)
(* Small instances of Lab3.                                                *)
(***************************************************************************)
EXTENDS Lab3

Sample(x, y, z) == [a \in Axes |-> IF a = 0 THEN x ELSE IF a = 1 THEN y ELSE z]

(* The board at rest, and turned over: X differs in both bytes, so that a  *)
(* reading torn between its bytes is neither.                              *)
TwoSamples == { Sample(248, 7, 217), Sample(65288, 7, 217) }
OneSample == { Sample(65290, 7, 217) }

(* Every byte reads as 255, like the bus nobody drives: what a refused     *)
(* address does to the values is not this instance's question.             *)
AllOnes == { Sample(65535, 65535, 65535) }

(* After power-up alone, or also after a reset that follows an earlier run.*)
PoweredUp == { [a \in Axes |-> 0] }
Leftovers == { [a \in Axes |-> 0], [a \in Axes |-> IF a = 2 THEN 12 ELSE 6] }
=============================================================================
