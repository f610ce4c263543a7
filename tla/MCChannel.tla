------------------------------ MODULE MCChannel ------------------------------
(* Small instances of Channel for TLC. *)
EXTENDS Channel, TLC

CONSTANTS c1, c2, p1, p2

TwoBytes == {<<>>, <<1>>, <<1, 2>>, <<2>>}
OneByte == {<<1>>, <<2>>}
Swap == Permutations(Processes)
=============================================================================
