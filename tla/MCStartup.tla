----------------------------- MODULE MCStartup ------------------------------
(* A small instance of Startup for TLC. *)
EXTENDS Startup, TLC

CONSTANTS t1, t2, t3

(* Blocks of different sizes, one empty. *)
SomeMessages == {<<<<7, 7>>, <<>>, <<8>>>>, <<<<9>>, <<5, 6>>, <<>>>>}
AnyTask == Permutations(Tasks)
=============================================================================
