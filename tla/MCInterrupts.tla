---------------------------- MODULE MCInterrupts ----------------------------
(* Small instances of Interrupts for TLC. *)
EXTENDS Interrupts, TLC

CONSTANTS t1, t2, t3

(* The mask libc waits with, and the one that every signal answers. *)
SomeMasks == {{"kTerminated"}, Signals}
=============================================================================
