--------------------------- MODULE CommandServer ---------------------------
(***************************************************************************)
(* The command server, src/tmpplib/src/cis.cc.  Clients write commands to  *)
(* cmd/server; the interpreter turns each into a message for one of the    *)
(* interfaces cmd/<node> (cmdif_rd::Turf), from which any number of        *)
(* readers take it.  An interface keeps its messages in a list; a reader   *)
(* refers to the next one it will read, each message counts the readers    *)
(* that refer to it, and the list ends in an empty message yet to be       *)
(* written.  Messages are numbered here in the order of the list.          *)
(*                                                                         *)
(* ci_server handles one message of its clients after the other            *)
(* (use_threads is 0): a handler is one action.  A client that is blocked  *)
(* in read does nothing else; in particular it does not close ("there      *)
(* really is no way it should be on the blocking list", cis.cc:65).        *)
(***************************************************************************)
EXTENDS Integers, FiniteSets, SequencesExt

CONSTANTS
  Interfaces,  \* cmdif_rd objects
  Readers,     \* clients that may read an interface
  NodeOf,      \* the interface each reader opens
  Writers,     \* clients that may open cmd/server
  Lengths,     \* lengths of messages
  ReadSizes,   \* lengths asked for by a read
  MaxMsgs      \* bound on the messages of one interface

ASSUME CommandServerAssumption ==
  /\ IsFiniteSet(Interfaces) /\ IsFiniteSet(Readers) /\ IsFiniteSet(Writers)
  /\ NodeOf \in [Readers -> Interfaces]
  /\ Lengths \subseteq Nat \ {0} /\ ReadSizes \subseteq Nat \ {0}
  /\ MaxMsgs \in Nat \ {0}

VARIABLES
  alive,     \* ci_server has not returned
  quit,      \* quit_received
  up,        \* the interface is attached, its attribute allocated
  head, last,  \* first_cmd, last_cmd
  len, ref,  \* cmdlen and ref_count of the messages of an interface
  blocked,   \* the interface's blocked readers, the latest first
  armed,     \* readers with a notification armed
  ocb,       \* the readers' open control blocks
  wopen,     \* writers that hold cmd/server open
  got,       \* history: the bytes each reader got, and ...
  start      \* ... the message it began with

vars == <<alive, quit, up, head, last, len, ref, blocked, armed, ocb, wopen, got,
          start>>

Msgs == 0..MaxMsgs + 2  \* two more: a shutdown and the empty message

Closed == [open |-> FALSE, next |-> 0, off |-> 0, want |-> 0]

Init ==
  /\ alive = TRUE /\ quit = FALSE
  /\ up = [i \in Interfaces |-> TRUE]
  /\ head = [i \in Interfaces |-> 0] /\ last = [i \in Interfaces |-> 0]
  /\ len = [i \in Interfaces |-> [m \in Msgs |-> 0]]
  /\ ref = [i \in Interfaces |-> [m \in Msgs |-> 0]]
  /\ blocked = [i \in Interfaces |-> <<>>]
  /\ armed = {}
  /\ ocb = [r \in Readers |-> Closed]
  /\ wopen = {}
  /\ got = [r \in Readers |-> <<>>] /\ start = [r \in Readers |-> 0]

-----------------------------------------------------------------------------
HasInput_Nonempty(r) == len[NodeOf[r]][ocb[r].next] > ocb[r].off
HasInput(r) ==
  \/ len[NodeOf[r]][ocb[r].next] > ocb[r].off
  \/ ocb[r].next < last[NodeOf[r]]

\* The bytes off..off + n - 1 of message m
Bytes(m, off, n) == [k \in 1..n |-> <<m, off + k - 1>>]

FreesHead_Always(s, refs) == s.head < s.last
FreesHead(s, refs) == refs[s.head] = 0 /\ s.head < s.last

Through_KeepsOffset(o) == [o EXCEPT !.next = @ + 1, !.want = 0]
Through(o) == [o EXCEPT !.next = @ + 1, !.off = 0, !.want = 0]

\* read_reply, as a function of the interface's and the readers' state: the
\* rest of the message is sent, or as much of it as was asked for; the reader
\* that is through with it goes on to the next, and the head of the list is
\* freed when nobody refers to it
ReadReply(s, r) ==
  LET o == s.ocb[r]
      rest == s.len[o.next] - o.off
      n == IF o.want > rest THEN rest ELSE o.want
      through == n = rest
      ref1 == IF through
              THEN [s.ref EXCEPT ![o.next] = @ - 1, ![o.next + 1] = @ + 1]
              ELSE s.ref
      o1 == IF through THEN Through(o) ELSE [o EXCEPT !.off = @ + n, !.want = 0]
  IN  [s EXCEPT !.ocb[r] = o1, !.ref = ref1,
                !.head = IF through /\ FreesHead(s, ref1) THEN @ + 1 ELSE @,
                !.got[r] = @ \o IF rest = 0 THEN <<<<o.next, -1>>>>
                                ELSE Bytes(o.next, o.off, n)]

Server(i) == [ocb |-> ocb, len |-> len[i], ref |-> ref[i], head |-> head[i],
              last |-> last[i], got |-> got]

SetServer(i, s) ==
  /\ ocb' = s.ocb /\ got' = s.got
  /\ head' = [head EXCEPT ![i] = s.head] /\ last' = [last EXCEPT ![i] = s.last]
  /\ len' = [len EXCEPT ![i] = s.len] /\ ref' = [ref EXCEPT ![i] = s.ref]

\* cmdif_rd::Turf: the empty message is filled, a new one appended, and the
\* blocked readers are answered
Filled(s, n) == [s EXCEPT !.len[s.last] = n, !.last = @ + 1]

Turfed_AnswersOne(i, s, n) ==
  IF blocked[i] = <<>> THEN Filled(s, n) ELSE ReadReply(Filled(s, n), blocked[i][1])

Turfed(i, s, n) == FoldLeft(ReadReply, Filled(s, n), blocked[i])

-----------------------------------------------------------------------------
(* The readers. *)

Referred(i) == [ref EXCEPT ![i][head[i]] = @ + 1]

\* ocb_calloc: a reader begins with the oldest message the list still has.
\* Clients open nothing any more once they know that the server quits
Open(r) ==
  LET i == NodeOf[r] IN
  /\ alive /\ up[i] /\ ~ocb[r].open /\ ~quit
  /\ ref' = Referred(i)
  /\ ocb' = [ocb EXCEPT ![r] = [Closed EXCEPT !.open = TRUE, !.next = head[i]]]
  /\ start' = [start EXCEPT ![r] = head[i]]
  /\ got' = [got EXCEPT ![r] = <<>>]
  /\ UNCHANGED <<alive, quit, up, head, last, len, blocked, armed, wopen>>

\* A message of no bytes is an end of file: the clients do not read on
SawEof(r) == got[r] # <<>> /\ got[r][Len(got[r])][2] = -1

\* io_read answers at once, refuses (EAGAIN) or blocks the reader
Read(r) ==
  LET i == NodeOf[r] IN
  /\ alive /\ ocb[r].open /\ ocb[r].want = 0 /\ ~SawEof(r)
  /\ \E n \in ReadSizes :
       IF HasInput(r)
       THEN /\ SetServer(i, ReadReply([Server(i) EXCEPT !.ocb[r].want = n], r))
            /\ UNCHANGED blocked
       ELSE /\ ocb' = [ocb EXCEPT ![r].want = n]
            /\ blocked' = [blocked EXCEPT ![i] = <<r>> \o @]
            /\ UNCHANGED <<head, last, len, ref, got>>
  /\ UNCHANGED <<alive, quit, up, armed, wopen, start>>

\* A nonblocking reader that was told EAGAIN waits to be notified (io_notify)
Notify(r) ==
  /\ alive /\ ocb[r].open /\ ocb[r].want = 0 /\ r \notin armed
  /\ ~HasInput(r)
  /\ armed' = armed \cup {r}
  /\ UNCHANGED <<alive, quit, up, head, last, len, ref, blocked, ocb, wopen, got, start>>

\* all_closed: interfaces nobody holds open are shut down and freed
StillUp(open) == [i \in Interfaces |-> up[i] /\ \E r \in Readers : open[r].open /\ NodeOf[r] = i]

Leave_OnlyAttached(o, w) ==
  IF quit
  THEN up' = up /\ alive' = (w # {} \/ \E i \in Interfaces : up[i])
  ELSE UNCHANGED <<up, alive>>

\* After a close the loop ends if quit was received and everything is closed
Leave(o, w) ==
  IF quit
  THEN /\ up' = StillUp(o)
       /\ alive' = (w # {} \/ \E i \in Interfaces : up'[i])
  ELSE UNCHANGED <<up, alive>>

\* io_close_ocb and ocb_free: the message loses its reference but stays
Close(r) ==
  LET i == NodeOf[r] IN
  /\ alive /\ ocb[r].open /\ ocb[r].want = 0
  /\ ref' = [ref EXCEPT ![i][ocb[r].next] = @ - 1]
  /\ ocb' = [ocb EXCEPT ![r] = Closed]
  /\ armed' = armed \ {r}
  /\ got' = [got EXCEPT ![r] = <<>>]
  /\ Leave(ocb', wopen)
  /\ UNCHANGED <<quit, head, last, len, blocked, wopen, start>>

-----------------------------------------------------------------------------
(* The writers. *)

OpenWriter(w) ==
  /\ alive /\ ~quit /\ w \notin wopen  \* quit detaches the name
  /\ wopen' = wopen \cup {w}
  /\ UNCHANGED <<alive, quit, up, head, last, len, ref, blocked, armed, ocb, got, start>>

CloseWriter(w) ==
  /\ alive /\ w \in wopen
  /\ wopen' = wopen \ {w}
  /\ Leave(ocb, wopen')
  /\ UNCHANGED <<quit, head, last, len, ref, blocked, armed, ocb, got, start>>

MayWrite == wopen # {} /\ ~quit

\* io_write of a command that the interpreter sends to interface i
Command(i) ==
  /\ alive /\ MayWrite /\ last[i] < MaxMsgs
  /\ \E n \in Lengths : SetServer(i, Turfed(i, Server(i), n))
  /\ blocked' = [blocked EXCEPT ![i] = <<>>]
  /\ armed' = {r \in armed : NodeOf[r] # i}
  /\ UNCHANGED <<alive, quit, up, wopen, start>>

\* Every interface's share of the readers' state after its shutdown message
Shut(i) == Turfed(i, Server(i), 0)

\* process_quit: cis_interfaces_close sends every interface an empty message,
\* the end of file; interfaces without readers are freed
Quit ==
  /\ alive /\ MayWrite
  /\ quit' = TRUE
  /\ LET s == [i \in Interfaces |-> Shut(i)] IN
     /\ ocb' = [r \in Readers |-> s[NodeOf[r]].ocb[r]]
     /\ got' = [r \in Readers |-> s[NodeOf[r]].got[r]]
     /\ head' = [i \in Interfaces |-> s[i].head]
     /\ last' = [i \in Interfaces |-> s[i].last]
     /\ len' = [i \in Interfaces |-> s[i].len]
     /\ ref' = [i \in Interfaces |-> s[i].ref]
  /\ blocked' = [i \in Interfaces |-> <<>>]
  /\ armed' = {}
  /\ up' = StillUp(ocb)
  /\ UNCHANGED <<alive, wopen, start>>

Next ==
  \/ \E r \in Readers : Open(r) \/ Read(r) \/ Notify(r) \/ Close(r)
  \/ \E w \in Writers : OpenWriter(w) \/ CloseWriter(w)
  \/ \E i \in Interfaces : Command(i)
  \/ Quit

Spec == Init /\ [][Next]_vars

\* Clients read on, close at end of file and when the server quits
Fairness ==
  /\ \A r \in Readers : WF_vars(Read(r)) /\ WF_vars(SawEof(r) /\ Close(r))
  /\ \A w \in Writers : WF_vars(quit /\ CloseWriter(w))

FairSpec == Spec /\ Fairness

-----------------------------------------------------------------------------
\* Every variable is of its type.
TypeOK ==
  /\ alive \in BOOLEAN /\ quit \in BOOLEAN
  /\ up \in [Interfaces -> BOOLEAN]
  /\ head \in [Interfaces -> Msgs] /\ last \in [Interfaces -> Msgs]
  /\ len \in [Interfaces -> [Msgs -> Nat]] /\ ref \in [Interfaces -> [Msgs -> Nat]]
  /\ ocb \in [Readers -> [open : BOOLEAN, next : Msgs, off : Nat, want : Nat]]
  /\ \A i \in Interfaces : \A k \in DOMAIN blocked[i] : blocked[i][k] \in Readers
  /\ armed \subseteq Readers /\ wopen \subseteq Writers
  /\ start \in [Readers -> Msgs]

Users(i) == {r \in Readers : ocb[r].open /\ NodeOf[r] = i}

\* The reference count of every message, freed ones included, is the number
\* of readers whose next message it is: nobody refers to a freed message.
RefCounts ==
  /\ TypeOK
  /\ \A i \in Interfaces, m \in Msgs :
       ref[i][m] = IF m < head[i] THEN 0
                   ELSE Cardinality({r \in Users(i) : ocb[r].next = m})

\* A reader is kept waiting, in a read or for a notification, only at the end
\* of the list with nothing of a message left; a blocked reader waits once.
WaitsAtTheEnd == \A i \in Interfaces :
  /\ \A r \in Users(i) : ocb[r].want > 0 \/ r \in armed =>
       ocb[r].next = last[i] /\ ocb[r].off = 0
  /\ IsInjective(blocked[i])
  /\ ToSet(blocked[i]) = {r \in Users(i) : ocb[r].want > 0}

\* What a message is to a reader that reads it from its first byte
Whole(i, m) == IF len[i][m] = 0 THEN <<<<m, -1>>>> ELSE Bytes(m, 0, len[i][m])

\* Whatever sizes it reads by and whenever it is answered, a reader gets every
\* message from the one it began with, in order, whole and once.
ReadsInOrder == \A r \in Readers : ocb[r].open =>
  LET i == NodeOf[r]
      whole == [k \in 1..ocb[r].next - start[r] |-> Whole(i, start[r] + k - 1)]
  IN  /\ ocb[r].next >= start[r]
      /\ got[r] = FlattenSeq(whole) \o Bytes(ocb[r].next, 0, ocb[r].off)

\* A reader that stays gets through all there is for it.
Delivered == \A r \in Readers :
  (ocb[r].open /\ ocb[r].next < last[NodeOf[r]]) ~>
    (~ocb[r].open \/ ocb[r].next = last[NodeOf[r]])

\* After quit the readers get their end of file and ci_server returns.
ServerEnds == quit ~> ~alive
=============================================================================
