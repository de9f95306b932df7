------------------------------ MODULE MCLogger ------------------------------
(* An instance of Logger for TLC. *)
EXTENDS Logger

Sel(f, l) == [first |-> f, last |-> l]
SomeFiles == {Sel(1, 99), Sel(2, 3)}
=============================================================================
