--------------------------- MODULE SubbusService ---------------------------
(***************************************************************************)
(* What a subbus driver promises its clients, whatever the bus does.  A    *)
(* client that sends a request is blocked until the driver replies         *)
(* (MsgSend, MsgReply), so it must get exactly one reply.  A reply is an   *)
(* error, or one value for each part of the request: the value read for    *)
(* that part, or a zero when the part was not acknowledged (lib/subbus.c:  *)
(* 390-395).                                                               *)
(***************************************************************************)
EXTENDS Integers, Sequences

CONSTANTS Clients, MaxParts

VARIABLES
  asked, answered,  \* requests sent and replies received by each client
  parts,            \* the parts of its latest request
  answer            \* its latest reply

vars == <<asked, answered, parts, answer>>

NoAnswer == [status |-> "none", vals |-> <<>>]

Answers(n) ==
  [status : {"error"}, vals : UNION {[1..k -> {"own", "zero"}] : k \in 0..n}]
    \cup [status : {"ack", "noack"}, vals : [1..n -> {"own", "zero"}]]

Init ==
  /\ asked = [c \in Clients |-> 0] /\ answered = asked
  /\ parts = [c \in Clients |-> 0]
  /\ answer = [c \in Clients |-> NoAnswer]

Ask(c, n) ==
  /\ asked[c] = answered[c]
  /\ asked' = [asked EXCEPT ![c] = @ + 1]
  /\ parts' = [parts EXCEPT ![c] = n]

Reply(c, a) ==
  /\ answered' = [answered EXCEPT ![c] = @ + 1]
  /\ answer' = [answer EXCEPT ![c] = a]

Next == \E c \in Clients :
  \/ \E n \in 0..MaxParts : Ask(c, n) /\ UNCHANGED <<answered, answer>>
  \/ /\ asked[c] > answered[c]
     /\ \E a \in Answers(parts[c]) : Reply(c, a)
     /\ UNCHANGED <<asked, parts>>
  \/ \E n \in 0..MaxParts : Ask(c, n) /\ \E a \in Answers(n) : Reply(c, a)  \* at once

Spec == Init /\ [][Next]_vars
=============================================================================
