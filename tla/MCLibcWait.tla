----------------------------- MODULE MCLibcWait -----------------------------
(* Small instances of LibcWait for TLC. *)
EXTENDS LibcWait, TLC

CONSTANTS t1, t2, t3

LibcMasks == {{"kTerminated"}}
Addresses == Permutations(Tasks)
=============================================================================
