------------------------------ MODULE MCMemory ------------------------------
(* Small instances of Memory for TLC. *)
EXTENDS Memory, TLC

CONSTANTS t1, t2, t3

AnyTask == Permutations(Tasks)
=============================================================================
