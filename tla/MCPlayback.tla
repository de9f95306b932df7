----------------------------- MODULE MCPlayback -----------------------------
(* Instances of Playback for TLC. *)
EXTENDS Playback

Ts(t)      == [type |-> "ts", ts |-> t]
Data(l, n) == [type |-> "data", label |-> l, n |-> n]

\* A record longer than the ring; the stamp repeated at the head of the next
\* file and a jump of the counter, so that rows of two labels meet in the queue;
\* a stamp behind rows, which is queued when quit passes over the rows
TwoFiles == << <<Ts(1), Data(7, 3)>>, <<Ts(1), Data(4, 1), Ts(2)>> >>

Opt(a, r, q) == [autostart |-> a, regulate |-> r, autoquit |-> q]
AllOptions == {Opt(TRUE, TRUE, FALSE), Opt(FALSE, FALSE, TRUE)}
Regulated  == {Opt(TRUE, TRUE, FALSE)}
=============================================================================
