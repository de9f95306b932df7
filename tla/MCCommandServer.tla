-------------------------- MODULE MCCommandServer --------------------------
(* Instances of CommandServer for TLC. *)
EXTENDS CommandServer

CONSTANTS a, b, r1, r2, w1

TwoOnly == [r \in {r1, r2} |-> a]
=============================================================================
