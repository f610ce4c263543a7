------------------------------ MODULE MCMalloc ------------------------------
(* Small instances of Malloc for TLC: an 8-bit machine with pages of 64 bytes. *)
EXTENDS Malloc

(* The second page has the lower address, as when the kernel's heap grows. *)
TwoPages == <<128, 64>>
=============================================================================
