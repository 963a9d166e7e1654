--------------------- MODULE MCPrioritySchedulingQueue ---------------------
(***************************************************************************)
(* Instances of PrioritySchedulingQueue for TLC.  A tick is half a second, *)
(* so that calls and flushes fall between each other.  Units are never     *)
(* compared, so they may be exchanged.                                     *)
(***************************************************************************)
EXTENDS PrioritySchedulingQueue, TLC

Symmetry == Permutations(Units)
============================================================================
