------------------------------ MODULE RowFifo ------------------------------
(***************************************************************************)
(* What a data_generator promises of its queue, whatever the threads and   *)
(* the ring do: the items of the source (time stamps, and rows under their *)
(* labels) are accepted in order, at most Capacity rows wait, and what is  *)
(* transmitted is transmitted in order, once and unaltered.  Only after    *)
(* the output is closed may waiting items be dropped and items of the      *)
(* source be passed over: what is passed over may be followed by items     *)
(* that are accepted, but nothing is transmitted any more.                 *)
(***************************************************************************)
EXTENDS Integers, Sequences, FiniteSets

CONSTANTS Source, Capacity

VARIABLES
  taken,  \* how many items of the source were accepted or passed over
  queue,  \* accepted, not yet transmitted
  sent,   \* transmitted
  open    \* the output is open

vars == <<taken, queue, sent, open>>

Rows(s) == Cardinality({i \in DOMAIN s : "label" \in DOMAIN s[i]})

Init == taken = 0 /\ queue = <<>> /\ sent = <<>> /\ open = TRUE

\* Some further items of the source
Accept == \E n \in 1..Len(Source) - taken :
  /\ taken' = taken + n
  /\ queue' = queue \o SubSeq(Source, taken + 1, taken + n)
  /\ Rows(queue') <= Capacity
  /\ UNCHANGED <<sent, open>>

Leave(n) == queue' = SubSeq(queue, n + 1, Len(queue))

Transmit == \E n \in 1..Len(queue) :
  /\ open
  /\ sent' = sent \o SubSeq(queue, 1, n)
  /\ Leave(n)
  /\ UNCHANGED <<taken, open>>

Close == open /\ open' = FALSE /\ UNCHANGED <<taken, queue, sent>>

Drop == \E n \in 1..Len(queue) :
  /\ ~open
  /\ Leave(n)
  /\ UNCHANGED <<taken, sent, open>>

Skip == \E n \in 1..Len(Source) - taken :
  /\ ~open
  /\ taken' = taken + n
  /\ UNCHANGED <<queue, sent, open>>

Next == Accept \/ Transmit \/ Close \/ Drop \/ Skip

Spec == Init /\ [][Next]_vars
=============================================================================
