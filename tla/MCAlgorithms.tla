----------------------------- MODULE MCAlgorithms -----------------------------
(* An algorithm of two partitions for TLC. *)
EXTENDS Algorithms

Do(t)             == [dt |-> t, k |-> "send"]
IdleAt(t)         == [dt |-> t, k |-> "idle"]
ValidateAt(t, s)  == [dt |-> t, k |-> "validate", state |-> s]
ResumeAt(t, s)    == [dt |-> t, k |-> "resume", state |-> s]
HoldAt(t, n, o, g) == [dt |-> t, k |-> "hold", success |-> n, timeout |-> o, goes |-> g]
End               == [dt |-> -1, k |-> "end"]

\* A holds for a condition with an else clause, Wait from its first second; B
\* starts and resumes Wait in the partition before its own, and waits for A
\* without a timeout, which A resumes in the partition after its own; Brief has
\* two holds in its first second, one of them of one second
TwoPartitions ==
  [A    |-> [part |-> 1, cmds |-> <<Do(0), HoldAt(1, 2, 2, "until"), Do(1), IdleAt(1),
                                    Do(2), ResumeAt(3, "B"), End>>],
   Wait |-> [part |-> 1, cmds |-> <<HoldAt(0, 1, 3, "none"), Do(1), End>>],
   B    |-> [part |-> 2, cmds |-> <<Do(0), ValidateAt(1, "Wait"), ResumeAt(3, "Wait"),
                                    HoldAt(4, 1, -1, "A"), Do(5), End>>],
   Brief |-> [part |-> 2, cmds |-> <<Do(0), HoldAt(0, 1, 1, "none"),
                                     HoldAt(0, 1, 2, "none"), Do(1), End>>]]

Firsts == <<"A", "B">>
=============================================================================
