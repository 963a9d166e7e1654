------------------------------- MODULE MCHeap ------------------------------
(***************************************************************************)
(* Instance of Heap for TLC.  From six elements on Delete can take the     *)
(* last one to another branch, where it has to move up.  Keys are never    *)
(* compared, so they may be exchanged.                                     *)
(***************************************************************************)
EXTENDS Heap, TLC

LessRank(a, b) == a < b

KeySymmetry == Permutations(Keys)
============================================================================
