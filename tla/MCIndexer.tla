------------------------------ MODULE MCIndexer ------------------------------
(* An instance of Indexer for TLC. *)
EXTENDS Indexer

CONSTANTS c1, c2

OneBoard == [c \in {c1, c2} |-> 0]

\* Channel c1 has a hysteresis, so a drive from 9 to 1 overshoots past 0
Positioned ==
  [c \in {c1, c2} |->
     [online |-> 8, online_delta |-> 1, offline_delta |-> Positions - 2,
      offline_pos |-> 0, altline_delta |-> 1, altline_pos |-> 10,
      hysteresis |-> IF c = c1 THEN 2 ELSE 0]]

Drive(k, n) == [k |-> k, scan |-> FALSE, steps |-> n, dsteps |-> 0]
Scan(k, n, d) == [k |-> k, scan |-> TRUE, steps |-> n, dsteps |-> d]

SomeCommands == {Drive("in", 8), Drive("online", 0), Drive("offline", 0),
                 Drive("preset", 10), Scan("to", 11, 2), Scan("in", 1, 0)}
SomeSettings == {[k |-> "set_off_delta", v |-> 1], [k |-> "move_online_out", v |-> 0]}
=============================================================================
