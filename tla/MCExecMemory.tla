---------------------------- MODULE MCExecMemory ----------------------------
(* Small instances of ExecMemory for TLC. *)
EXTENDS ExecMemory, TLC

CONSTANTS t1, t2, t3

AnyTask == Permutations(Tasks)
=============================================================================
