--------------------------- MODULE MksFlow_proofs ---------------------------
(***************************************************************************)
(* Proofs about the queries of mksflow: through handlers that ask, answer, *)
(* time out and poll again, each MKS_Query stays in one place, and a query *)
(* is pending exactly while its timer runs.  The handlers work on a state  *)
(* s, so the invariant is about s.  Inductions over the requests of a      *)
(* board and over the boards not polled yet (Lemmas) carry it through the  *)
(* two loops.                                                              *)
(***************************************************************************)
EXTENDS MksFlow, Lemmas

Names == {"MF", "MD", "SN", "DT", "SGN", "GN", "VT", "VPO", "CMD", "FX", "TA", "T", "SX"}

Polls == [drive : Drives, req : Names, persistent : {TRUE}]
Asks  == [drive : Drives, req : Names, persistent : {FALSE}]

\* States of MKS_Ser with the input buffer b
States(b) ==
  [transient : Seq(Asks), polls : Seq(Polls), cur : Nat,
   pending : Polls \cup Asks \cup {None}, timer : {"on", "off", "expired"},
   watched : BOOLEAN, buf : {b}, free : Nat, made : Nat, retry : Int,
   allPolling : BOOLEAN, sent : Seq(Polls \cup Asks), step : {"kept", "lost"},
   polling : [Drives -> BOOLEAN], mfc : [Drives -> BOOLEAN]]

-----------------------------------------------------------------------------
(* The inductive invariant *)

\* How many objects the pending query takes that are in no queue
Own(s) == IF s.pending = None \/ s.pending.persistent THEN 0 ELSE 1

\* Every object is in its place but for n that a handler holds; the next poll
\* is one of the queue.
Kept(s, n) ==
  /\ s \in States(s.buf)
  /\ s.cur <= Len(s.polls)
  /\ (s.pending # None) <=> (s.timer # "off")
  /\ s.made = s.free + Len(s.transient) + Len(s.polls) + Own(s) + n

\* The event loop waits with the timer.
Watch(s) == s.watched <=> (s.timer # "off")

IInv == Kept(drv, 0) /\ Watch(drv)

-----------------------------------------------------------------------------
(* One query *)

\* What the pending query takes
LEMMA OwnOf ==
  ASSUME NEW s
  PROVE  /\ s.pending = None => Own(s) = 0
         /\ s.pending \in Polls => Own(s) = 0
         /\ s.pending \in Asks => Own(s) = 1
<1>1. s.pending \in Polls => s.pending.persistent
  BY DEF Polls
<1>2. s.pending \in Asks => ~s.pending.persistent /\ s.pending # None
  <2>1. ASSUME s.pending \in Asks PROVE s.pending.drive \in Drives /\ s.pending.persistent = FALSE
    BY <2>1 DEF Asks
  <2>2. None.drive \notin Drives
    BY DEF None, Drives
  <2> QED
    BY <2>1, <2>2
<1> QED
  BY <1>1, <1>2 DEF Own

\* A query is not the absence of one.
LEMMA QueryNotNone == \A q \in Polls \cup Asks : q # None
<1>1. \A q \in Polls \cup Asks : q.drive \in Drives
  BY DEF Polls, Asks
<1>2. None.drive \notin Drives
  BY DEF None, Drives
<1> QED
  BY <1>1, <1>2

\* A query is sent from the front of the transient queue, or from the polls.
LEMMA RequestsKeep ==
  ASSUME NEW s, NEW n \in Nat, Kept(s, n)
  PROVE  /\ Kept(ProcessRequests(s), n) /\ ProcessRequests(s).buf = s.buf
         /\ Watch(s) => Watch(ProcessRequests(s))
<1>1. CASE s.pending # None
  BY <1>1 DEF ProcessRequests
<1>2. CASE s.pending = None /\ s.transient # <<>>
  <2>1. PICK q, r : q = Head(s.transient) /\ r = Tail(s.transient)
    OBVIOUS
  <2>2. q \in Asks /\ r \in Seq(Asks) /\ Len(r) = Len(s.transient) - 1 /\ Len(r) \in Nat
    BY <1>2, <2>1 DEF Kept, States
  <2>9. PICK w \in Seq(Polls \cup Asks) : w = Append(s.sent, q)
    <3> DEFINE Q == Polls \cup Asks
    <3>1. s.sent \in Seq(Q) /\ q \in Q
      BY <2>2 DEF Kept, States
    <3> HIDE DEF Q
    <3>2. Append(s.sent, q) \in Seq(Q)
      BY <3>1
    <3> QED
      BY <3>2 DEF Q
  <2>3. PICK t : t = [s EXCEPT !.transient = r, !.pending = q, !.watched = TRUE,
                               !.sent = w, !.timer = "on"]
    OBVIOUS
  <2>4. ProcessRequests(s) = t
    <3>1. ProcessRequests(s) = Ask([s EXCEPT !.transient = r], q)
      BY <1>2, <2>1 DEF ProcessRequests
    <3> QED
      BY <2>3, <2>9, <3>1 DEF Ask, SetTO, Kept, States
  <2>5. t \in States(s.buf)
    BY <2>2, <2>3, <2>9 DEF Kept, States
  <2>6. /\ t.pending = q /\ t.timer = "on" /\ t.watched = TRUE /\ t.transient = r /\ t.buf = s.buf
        /\ t.polls = s.polls /\ t.cur = s.cur /\ t.made = s.made /\ t.free = s.free
    BY <2>3 DEF Kept, States
  <2>7. Own(s) = 0 /\ Own(t) = 1 /\ q # None
    BY <1>2, <2>2, <2>6, OwnOf, QueryNotNone
  <2>8. t.made = t.free + Len(t.transient) + Len(t.polls) + Own(t) + n
    <3>1. s.made = s.free + Len(s.transient) + Len(s.polls) + 0 + n
      BY <2>7 DEF Kept
    <3>2. s.free \in Nat /\ Len(s.polls) \in Nat
      BY DEF Kept, States
    <3>5. Len(r) \in Nat /\ Len(s.transient) = Len(r) + 1
      <4>1. Len(s.transient) \in Nat
        BY DEF Kept, States
      <4> QED
        BY <2>2, <4>1
    <3>3. s.made = s.free + Len(r) + Len(s.polls) + 1 + n
      <4>1. PICK m, k : m = s.free /\ k = Len(s.polls)
        OBVIOUS
      <4>2. m \in Nat /\ k \in Nat /\ s.made = m + (Len(r) + 1) + k + 0 + n
        BY <3>1, <3>2, <3>5, <4>1
      <4>3. s.made = m + Len(r) + k + 1 + n
        BY <3>5, <4>2
      <4> QED
        BY <4>1, <4>3
    <3>4. /\ t.made = s.made /\ t.free = s.free /\ t.transient = r /\ t.polls = s.polls
          /\ Own(t) = 1
      BY <2>6, <2>7
    <3> QED
      BY <3>3, <3>4
  <2> QED
    BY <2>4, <2>5, <2>6, <2>7, <2>8 DEF Kept, Watch
<1>3. CASE s.pending = None /\ s.transient = <<>> /\ s.cur # 0
  <2>1. PICK q, c : q = s.polls[s.cur] /\ c = (IF s.cur = Len(s.polls) THEN 0 ELSE s.cur + 1)
    OBVIOUS
  <2>2. q \in Polls /\ c \in Nat /\ c <= Len(s.polls)
    BY <1>3, <2>1 DEF Kept, States
  <2>9. PICK w \in Seq(Polls \cup Asks) : w = Append(s.sent, q)
    <3> DEFINE Q == Polls \cup Asks
    <3>1. s.sent \in Seq(Q) /\ q \in Q
      BY <2>2 DEF Kept, States
    <3> HIDE DEF Q
    <3>2. Append(s.sent, q) \in Seq(Q)
      BY <3>1
    <3> QED
      BY <3>2 DEF Q
  <2>3. PICK t : t = [s EXCEPT !.cur = c, !.pending = q, !.watched = TRUE,
                               !.sent = w, !.timer = "on"]
    OBVIOUS
  <2>4. ProcessRequests(s) = t
    <3>1. ProcessRequests(s) = Ask([s EXCEPT !.cur = c], q)
      BY <1>3, <2>1 DEF ProcessRequests
    <3> QED
      BY <2>3, <2>9, <3>1 DEF Ask, SetTO, Kept, States
  <2>5. t \in States(s.buf)
    BY <2>2, <2>3, <2>9 DEF Kept, States
  <2>6. /\ t.pending = q /\ t.timer = "on" /\ t.watched = TRUE /\ t.transient = s.transient
        /\ t.buf = s.buf
        /\ t.polls = s.polls /\ t.cur = c /\ t.made = s.made /\ t.free = s.free
    BY <2>3 DEF Kept, States
  <2>7. Own(s) = 0 /\ Own(t) = 0 /\ q # None
    BY <1>3, <2>2, <2>6, OwnOf, QueryNotNone
  <2>8. t.made = t.free + Len(t.transient) + Len(t.polls) + Own(t) + n
    BY <2>2, <2>6, <2>7 DEF Kept, States
  <2> QED
    BY <2>2, <2>4, <2>5, <2>6, <2>7, <2>8 DEF Kept, Watch
<1>4. CASE s.pending = None /\ s.transient = <<>> /\ s.cur = 0
  BY <1>4 DEF ProcessRequests
<1> QED
  BY <1>1, <1>2, <1>3, <1>4

\* A new query is an object more, or a free one less.
LEMMA NewKeeps ==
  ASSUME NEW s, Kept(s, 0)
  PROVE  /\ Kept(NewQuery(s), 1) /\ NewQuery(s).buf = s.buf
         /\ Watch(s) => Watch(NewQuery(s))
<1>1. PICK f \in Nat, m \in Nat : /\ f = (IF s.free > 0 THEN s.free - 1 ELSE s.free)
                                  /\ m = (IF s.free > 0 THEN s.made ELSE s.made + 1)
  <2>1. s.free \in Nat /\ s.made \in Nat
    BY DEF Kept, States
  <2>2. CASE s.free > 0
    BY <2>1, <2>2
  <2>3. CASE ~(s.free > 0)
    BY <2>1, <2>3
  <2> QED
    BY <2>2, <2>3
<1>2. PICK t : t = [s EXCEPT !.free = f, !.made = m]
  OBVIOUS
<1>3. NewQuery(s) = t
  BY <1>1, <1>2 DEF NewQuery, Kept, States
<1>4. t \in States(s.buf)
  BY <1>2 DEF Kept, States
<1>5. /\ t.pending = s.pending /\ t.timer = s.timer /\ t.watched = s.watched
      /\ t.transient = s.transient /\ t.buf = s.buf /\ t.polls = s.polls
      /\ t.cur = s.cur /\ t.made = m /\ t.free = f
  BY <1>2 DEF Kept, States
<1>6. Own(t) = Own(s) /\ Own(s) \in Nat
  BY <1>5 DEF Own
<1>7. t.made = t.free + Len(t.transient) + Len(t.polls) + Own(t) + 1
  BY SMTT(40), <1>1, <1>5, <1>6 DEF Kept, States
<1> QED
  BY <1>3, <1>4, <1>5, <1>7 DEF Kept, Watch

\* The query made is queued, or sent at once.
LEMMA EnqueueKeeps ==
  ASSUME NEW s, Kept(s, 1), NEW q \in Polls \cup Asks
  PROVE  /\ Kept(EnqueueRequest(s, q), 0) /\ EnqueueRequest(s, q).buf = s.buf
         /\ Watch(s) => Watch(EnqueueRequest(s, q))
<1>1. CASE q \in Polls
  <2>1. PICK p : p = Append(s.polls, q)
    OBVIOUS
  <2>2. p \in Seq(Polls) /\ Len(p) = Len(s.polls) + 1
    BY <1>1, <2>1 DEF Kept, States
  <2>3. PICK t : t = [s EXCEPT !.polls = p]
    OBVIOUS
  <2>4. EnqueueRequest(s, q) = ProcessRequests(t)
    <3>1. q.persistent
      BY <1>1 DEF Polls
    <3> QED
      BY <2>1, <2>3, <3>1 DEF EnqueueRequest
  <2>5. t \in States(s.buf)
    BY <2>2, <2>3 DEF Kept, States
  <2>6. /\ t.pending = s.pending /\ t.timer = s.timer /\ t.watched = s.watched
        /\ t.transient = s.transient /\ t.buf = s.buf /\ t.polls = p
        /\ t.cur = s.cur /\ t.made = s.made /\ t.free = s.free
    BY <2>3 DEF Kept, States
  <2>7. Own(t) = Own(s) /\ Own(s) \in Nat
    BY <2>6 DEF Own
  <2>8. t.made = t.free + Len(t.transient) + Len(t.polls) + Own(t) + 0 /\ t.cur <= Len(t.polls)
    BY <2>2, <2>6, <2>7 DEF Kept, States
  <2>9. Kept(t, 0) /\ (Watch(s) => Watch(t))
    BY <2>5, <2>6, <2>8 DEF Kept, Watch
  <2> QED
    BY <2>4, <2>6, <2>9, RequestsKeep
<1>2. CASE q \in Asks
  <2>1. PICK p : p = Append(s.transient, q)
    OBVIOUS
  <2>2. p \in Seq(Asks) /\ Len(p) = Len(s.transient) + 1
    BY <1>2, <2>1 DEF Kept, States
  <2>3. PICK t : t = [s EXCEPT !.transient = p]
    OBVIOUS
  <2>4. EnqueueRequest(s, q) = ProcessRequests(t)
    <3>1. ~q.persistent
      BY <1>2 DEF Asks
    <3> QED
      BY <2>1, <2>3, <3>1 DEF EnqueueRequest
  <2>5. t \in States(s.buf)
    BY <2>2, <2>3 DEF Kept, States
  <2>6. /\ t.pending = s.pending /\ t.timer = s.timer /\ t.watched = s.watched
        /\ t.transient = p /\ t.buf = s.buf /\ t.polls = s.polls
        /\ t.cur = s.cur /\ t.made = s.made /\ t.free = s.free
    BY <2>3 DEF Kept, States
  <2>7. Own(t) = Own(s) /\ Own(s) \in Nat
    BY <2>6 DEF Own
  <2>8. t.made = t.free + Len(t.transient) + Len(t.polls) + Own(t) + 0 /\ t.cur <= Len(t.polls)
    BY SMTT(40), <2>2, <2>6, <2>7 DEF Kept, States
  <2>9. Kept(t, 0) /\ (Watch(s) => Watch(t))
    BY <2>5, <2>6, <2>8 DEF Kept, Watch
  <2> QED
    BY <2>4, <2>6, <2>9, RequestsKeep
<1> QED
  BY <1>1, <1>2

\* One turn of the loop over the requests of a board
LEMMA NewEnqueued ==
  ASSUME NEW s, Kept(s, 0), NEW q \in Polls \cup Asks
  PROVE  /\ Kept(EnqueueNew(s, q), 0) /\ EnqueueNew(s, q).buf = s.buf
         /\ Watch(s) => Watch(EnqueueNew(s, q))
<1>1. PICK t : t = NewQuery(s)
  OBVIOUS
<1> QED
  BY <1>1, NewKeeps, EnqueueKeeps DEF EnqueueNew

-----------------------------------------------------------------------------
(* The loops over the requests of a board and over the boards *)

\* What a handler may make of s that only asks
From(s) == {t \in States(s.buf) : Kept(t, 0) /\ (Watch(s) => Watch(t))}

\* The states reached in two turns are reached.
LEMMA FromFrom ==
  ASSUME NEW s, NEW t \in From(s), NEW u \in From(t)
  PROVE  u \in From(s)
<1>1. t.buf = s.buf
  BY DEF From, States
<1> QED
  BY <1>1 DEF From

\* A handler of one query is such a turn.
LEMMA IsFrom ==
  ASSUME NEW s, NEW t, Kept(t, 0), t.buf = s.buf, Watch(s) => Watch(t)
  PROVE  t \in From(s)
BY DEF From, Kept

Requests == INSTANCE Lemmas WITH Op <- EnqueueNew

\* All the requests of a list are made.
LEMMA RequestKeeps ==
  ASSUME NEW s, Kept(s, 0), NEW d \in Drives, NEW reqs \in Seq(Names), NEW p \in BOOLEAN
  PROVE  Request(s, d, reqs, p) \in From(s)
<1> DEFINE qs == [i \in DOMAIN reqs |-> [drive |-> d, req |-> reqs[i], persistent |-> p]]
           Q  == Polls \cup Asks
<1>1. qs \in Seq(Q)
  <2>1. Len(reqs) \in Nat /\ DOMAIN reqs = 1..Len(reqs)
    OBVIOUS
  <2>2. ASSUME NEW i \in DOMAIN reqs
        PROVE  [drive |-> d, req |-> reqs[i], persistent |-> p] \in Q
    <3>1. reqs[i] \in Names
      OBVIOUS
    <3>2. CASE p = TRUE
      BY <3>1, <3>2 DEF Polls
    <3>3. CASE p = FALSE
      BY <3>1, <3>3 DEF Asks
    <3> QED
      BY <3>2, <3>3
  <2>3. qs \in [1..Len(reqs) -> Q]
    BY <2>1, <2>2
  <2> HIDE DEF qs, Q
  <2> QED
    BY <2>1, <2>3
<1>2. s \in From(s)
  BY IsFrom
<1>3. \A t \in From(s) : \A q \in Q : EnqueueNew(t, q) \in From(s)
  <2>1. SUFFICES ASSUME NEW t \in From(s), NEW q \in Q PROVE EnqueueNew(t, q) \in From(s)
    OBVIOUS
  <2>2. Kept(t, 0)
    BY DEF From
  <2>3. EnqueueNew(t, q) \in From(t)
    BY <2>2, NewEnqueued, IsFrom
  <2> QED
    BY <2>3, FromFrom
<1> HIDE DEF qs, Q
<1>4. Requests!FoldLeft(EnqueueNew, s, qs) \in From(s)
  BY <1>1, <1>2, <1>3, Requests!FoldInvariant
<1>5. Requests!FoldLeft(EnqueueNew, s, qs) = FoldLeft(EnqueueNew, s, qs)
  BY DEF FoldLeft, Requests!FoldLeft, MapThenFoldSet, Requests!MapThenFoldSet, Max, Requests!Max
<1>6. Request(s, d, reqs, p) = FoldLeft(EnqueueNew, s, qs)
  BY DEF Request, qs
<1> QED
  BY <1>4, <1>5, <1>6

\* The requests that tell what a board is
LEMMA IdentifyKeeps ==
  ASSUME NEW s, Kept(s, 0), NEW d \in Drives
  PROVE  IdentifyBoard(s, d) \in From(s)
<1>1. IdRequests \in Seq(Names)
  BY DEF IdRequests, Names
<1> QED
  BY <1>1, RequestKeeps DEF IdentifyBoard

Identified == INSTANCE Lemmas WITH Op <- IdentifyBoard

\* ... of all boards.
LEMMA AllIdentified ==
  ASSUME NEW s, Kept(s, 0)
  PROVE  FoldLeft(IdentifyBoard, s, [d \in Drives |-> d]) \in From(s)
<1> DEFINE ds == [d \in Drives |-> d]
<1>1. ds \in Seq(Drives)
  BY MksFlowAssumption DEF Drives
<1>2. s \in From(s)
  BY IsFrom
<1>3. \A t \in From(s) : \A d \in Drives : IdentifyBoard(t, d) \in From(s)
  <2>1. SUFFICES ASSUME NEW t \in From(s), NEW d \in Drives PROVE IdentifyBoard(t, d) \in From(s)
    OBVIOUS
  <2>2. Kept(t, 0)
    BY DEF From
  <2> QED
    BY <2>2, IdentifyKeeps, FromFrom
<1> HIDE DEF ds
<1>4. Identified!FoldLeft(IdentifyBoard, s, ds) \in From(s)
  BY <1>1, <1>2, <1>3, Identified!FoldInvariant
<1>5. Identified!FoldLeft(IdentifyBoard, s, ds) = FoldLeft(IdentifyBoard, s, ds)
  BY DEF FoldLeft, Identified!FoldLeft, MapThenFoldSet, Identified!MapThenFoldSet, Max,
         Identified!Max
<1> QED
  BY <1>4, <1>5 DEF ds

\* A board that is not polled yet is asked again.
LEMMA ReidentifyKeeps ==
  ASSUME NEW s, Kept(s, 0), NEW d \in Drives
  PROVE  Reidentify(s, d) \in From(s)
<1>1. CASE s.polling[d]
  BY <1>1, IsFrom DEF Reidentify
<1>2. CASE ~s.polling[d]
  <2>1. PICK t \in From(s) : t = IdentifyBoard(s, d)
    BY IdentifyKeeps
  <2>2. PICK u : u = [t EXCEPT !.allPolling = FALSE]
    OBVIOUS
  <2>3. Kept(t, 0) /\ t.buf = s.buf /\ (Watch(s) => Watch(t))
    BY DEF From, States
  <2>4. u \in States(s.buf)
    BY <2>2, <2>3 DEF Kept, States
  <2>5. /\ u.pending = t.pending /\ u.timer = t.timer /\ u.watched = t.watched
        /\ u.transient = t.transient /\ u.buf = s.buf /\ u.polls = t.polls
        /\ u.cur = t.cur /\ u.made = t.made /\ u.free = t.free
    BY <2>2, <2>3 DEF Kept, States
  <2>6. Kept(u, 0) /\ (Watch(s) => Watch(u))
    BY <2>3, <2>4, <2>5 DEF Kept, Watch, Own
  <2>7. Reidentify(s, d) = u
    BY <1>2, <2>1, <2>2 DEF Reidentify
  <2> QED
    BY <2>5, <2>6, <2>7, IsFrom
<1> QED
  BY <1>1, <1>2

Reidentified == INSTANCE Lemmas WITH Op <- Reidentify

\* ... each in its turn.
LEMMA AllReidentified ==
  ASSUME NEW s, Kept(s, 0)
  PROVE  FoldLeft(Reidentify, s, [d \in Drives |-> d]) \in From(s)
<1> DEFINE ds == [d \in Drives |-> d]
<1>1. ds \in Seq(Drives)
  BY MksFlowAssumption DEF Drives
<1>2. s \in From(s)
  BY IsFrom
<1>3. \A t \in From(s) : \A d \in Drives : Reidentify(t, d) \in From(s)
  <2>1. SUFFICES ASSUME NEW t \in From(s), NEW d \in Drives PROVE Reidentify(t, d) \in From(s)
    OBVIOUS
  <2>2. Kept(t, 0)
    BY DEF From
  <2> QED
    BY <2>2, ReidentifyKeeps, FromFrom
<1> HIDE DEF ds
<1>4. Reidentified!FoldLeft(Reidentify, s, ds) \in From(s)
  BY <1>1, <1>2, <1>3, Reidentified!FoldInvariant
<1>5. Reidentified!FoldLeft(Reidentify, s, ds) = FoldLeft(Reidentify, s, ds)
  BY DEF FoldLeft, Reidentified!FoldLeft, MapThenFoldSet, Reidentified!MapThenFoldSet, Max,
         Reidentified!Max
<1> QED
  BY <1>4, <1>5 DEF ds

-----------------------------------------------------------------------------
(* The handlers *)

\* A board is polled, once.
LEMMA PollKeeps ==
  ASSUME NEW s, Kept(s, 0), NEW d \in Drives
  PROVE  Kept(PollBoard(s, d), 0)
<1>1. CASE s.polling[d]
  BY <1>1 DEF PollBoard
<1>2. CASE ~s.polling[d]
  <2>1. PollRequests(s.mfc[d]) \in Seq(Names)
    <3>1. <<"FX", "TA", "T">> \in Seq(Names) /\ <<"SX">> \in Seq(Names) /\ <<>> \in Seq(Names)
      BY DEF Names
    <3> QED
      BY <3>1 DEF PollRequests
  <2>2. PICK t \in From(s) : t = Request(s, d, PollRequests(s.mfc[d]), TRUE)
    BY <2>1, RequestKeeps
  <2>3. Kept(t, 0)
    BY DEF From
  <2>4. PICK u : u = [t EXCEPT !.polling[d] = TRUE]
    OBVIOUS
  <2>5. u \in States(t.buf)
    BY <2>3, <2>4 DEF Kept, States
  <2>6. /\ u.pending = t.pending /\ u.timer = t.timer
        /\ u.transient = t.transient /\ u.buf = t.buf /\ u.polls = t.polls
        /\ u.cur = t.cur /\ u.made = t.made /\ u.free = t.free
    BY <2>3, <2>4 DEF Kept, States
  <2>7. Kept(u, 0)
    BY <2>3, <2>5, <2>6 DEF Kept, Own
  <2> QED
    BY <1>2, <2>2, <2>4, <2>7 DEF PollBoard
<1> QED
  BY <1>1, <1>2

\* The pending query goes where it came from and the next one is sent.
LEMMA FreeKeeps ==
  ASSUME NEW s, Kept(s, 0)
  PROVE  Kept(FreePending(s), 0)
<1>1. PICK f : f = (IF s.pending = None \/ s.pending.persistent THEN s.free ELSE s.free + 1)
  OBVIOUS
<1>2. f \in Nat /\ f = s.free + Own(s) /\ Own(s) \in Nat
  BY <1>1 DEF Own, Kept, States
<1>3. PICK t : t = [s EXCEPT !.pending = None, !.free = f, !.timer = "off"]
  OBVIOUS
<1>4. FreePending(s) = ProcessRequests(t)
  BY <1>1, <1>3 DEF FreePending, ClearTO, Kept, States
<1>5. t \in States(s.buf)
  BY <1>2, <1>3 DEF Kept, States
<1>6. /\ t.pending = None /\ t.timer = "off"
      /\ t.transient = s.transient /\ t.buf = s.buf /\ t.polls = s.polls
      /\ t.cur = s.cur /\ t.made = s.made /\ t.free = f
  BY <1>3 DEF Kept, States
<1>7. t.made = t.free + Len(t.transient) + Len(t.polls) + Own(t) + 0
  <2>1. Own(t) = 0
    BY <1>6, OwnOf
  <2>2. s.made = s.free + Len(s.transient) + Len(s.polls) + Own(s) + 0
    BY DEF Kept
  <2>3. s.free \in Nat /\ Len(s.transient) \in Nat /\ Len(s.polls) \in Nat
    BY DEF Kept, States
  <2>4. s.made = f + Len(s.transient) + Len(s.polls) + 0 + 0
    <3>1. PICK a \in Nat, b \in Nat, c \in Nat, e \in Nat :
            a = s.free /\ b = Len(s.transient) /\ c = Len(s.polls) /\ e = Own(s)
      BY <1>2, <2>3
    <3>2. s.made = a + b + c + e + 0 /\ f = a + e
      BY <1>2, <2>2, <3>1
    <3>3. a + b + c + e + 0 = (a + e) + b + c + 0 + 0
      OBVIOUS
    <3>4. s.made = f + b + c + 0 + 0
      BY <3>2, <3>3
    <3> QED
      BY <3>1, <3>4
  <2> QED
    BY <1>6, <2>1, <2>4
<1>8. Kept(t, 0)
  BY <1>5, <1>6, <1>7 DEF Kept
<1> QED
  BY <1>4, <1>8, RequestsKeep

\* Input and the flags for the telemetry are none of the queries' business.
LEMMA RestKeeps ==
  ASSUME NEW s, Kept(s, 0)
  PROVE  /\ \A b : Kept([s EXCEPT !.buf = b], 0)
         /\ \A m \in {"kept", "lost"} : Kept([s EXCEPT !.step = m], 0)
         /\ \A d \in Drives : Kept([s EXCEPT !.mfc[d] = TRUE], 0)
         /\ Kept([s EXCEPT !.sent = <<>>], 0)
<1>1. ASSUME NEW t, t \in States(t.buf),
             t.pending = s.pending, t.timer = s.timer, t.transient = s.transient,
             t.polls = s.polls, t.cur = s.cur, t.made = s.made, t.free = s.free
      PROVE  Kept(t, 0)
  BY <1>1 DEF Kept, Own
<1>2. ASSUME NEW b PROVE Kept([s EXCEPT !.buf = b], 0)
  <2>1. PICK t : t = [s EXCEPT !.buf = b]
    OBVIOUS
  <2>2. /\ t \in States(t.buf)
        /\ t.pending = s.pending /\ t.timer = s.timer /\ t.transient = s.transient
        /\ t.polls = s.polls /\ t.cur = s.cur /\ t.made = s.made /\ t.free = s.free
    BY <2>1 DEF Kept, States
  <2> QED
    BY <1>1, <2>1, <2>2
<1>3. ASSUME NEW m \in {"kept", "lost"} PROVE Kept([s EXCEPT !.step = m], 0)
  <2>1. PICK t : t = [s EXCEPT !.step = m]
    OBVIOUS
  <2>2. /\ t \in States(t.buf)
        /\ t.pending = s.pending /\ t.timer = s.timer /\ t.transient = s.transient
        /\ t.polls = s.polls /\ t.cur = s.cur /\ t.made = s.made /\ t.free = s.free
    BY <2>1 DEF Kept, States
  <2> QED
    BY <1>1, <2>1, <2>2
<1>4. ASSUME NEW d \in Drives PROVE Kept([s EXCEPT !.mfc[d] = TRUE], 0)
  <2>3. PICK m \in [Drives -> BOOLEAN] : m = [s.mfc EXCEPT ![d] = TRUE]
    BY DEF Kept, States
  <2>4. PICK t : t = [s EXCEPT !.mfc = m]
    OBVIOUS
  <2>1. t = [s EXCEPT !.mfc[d] = TRUE]
    BY <2>3, <2>4
  <2>2. /\ t \in States(t.buf)
        /\ t.pending = s.pending /\ t.timer = s.timer /\ t.transient = s.transient
        /\ t.polls = s.polls /\ t.cur = s.cur /\ t.made = s.made /\ t.free = s.free
    BY <2>4 DEF Kept, States
  <2> QED
    BY <1>1, <2>1, <2>2
<1>5. Kept([s EXCEPT !.sent = <<>>], 0)
  <2>3. PICK e \in Seq(Polls \cup Asks) : e = <<>>
    <3>1. \A Q : <<>> \in Seq(Q)
      OBVIOUS
    <3> QED
      BY <3>1
  <2>4. PICK t : t = [s EXCEPT !.sent = e]
    OBVIOUS
  <2>1. t = [s EXCEPT !.sent = <<>>]
    BY <2>3, <2>4
  <2>2. /\ t \in States(t.buf)
        /\ t.pending = s.pending /\ t.timer = s.timer /\ t.transient = s.transient
        /\ t.polls = s.polls /\ t.cur = s.cur /\ t.made = s.made /\ t.free = s.free
    BY <2>4 DEF Kept, States
  <2> QED
    BY <1>1, <2>1, <2>2
<1> QED
  BY <1>2, <1>3, <1>4, <1>5

\* The callback of an answered query may ask more and start to poll.
LEMMA CallbackKeeps ==
  ASSUME NEW s, Kept(s, 0), NEW q \in Polls \cup Asks, NEW to
  PROVE  Kept(Callback(s, q, to), 0)
<1>0. q.drive \in Drives
  BY DEF Polls, Asks
<1>1. PICK t : t = [s EXCEPT !.mfc[q.drive] = TRUE]
  OBVIOUS
<1>2. Kept(t, 0)
  BY <1>0, <1>1, RestKeeps
<1>3. <<"VT", "VPO">> \in Seq(Names) /\ <<"GN">> \in Seq(Names)
  BY DEF Names
<1>4. Kept(Request(t, q.drive, <<"VT", "VPO">>, FALSE), 0)
  BY <1>0, <1>2, <1>3, RequestKeeps DEF From
<1>5. Kept(Request(s, q.drive, <<"GN">>, FALSE), 0)
  BY <1>0, <1>3, RequestKeeps DEF From
<1>6. Kept(PollBoard(s, q.drive), 0)
  BY <1>0, PollKeeps
<1> QED
  BY <1>1, <1>4, <1>5, <1>6 DEF Callback

\* An answer, or the lack of one
LEMMA InputKeeps ==
  ASSUME NEW s, Kept(s, 0)
  PROVE  Kept(ProtocolInput(s), 0)
<1>1. Kept(Consume(s), 0)
  BY RestKeeps DEF Consume
<1>2. Kept(FreePending(Consume(s)), 0)
  BY <1>1, FreeKeeps
<1>3. ASSUME s.pending # None, NEW to, NEW m \in {"kept", "lost"}
      PROVE  Kept(FreePending(Consume([Callback(s, s.pending, to) EXCEPT !.step = m])), 0)
  <2>1. s.pending \in Polls \cup Asks
    BY <1>3 DEF Kept, States
  <2>2. PICK t : t = Callback(s, s.pending, to)
    OBVIOUS
  <2>3. Kept(t, 0)
    BY <2>1, <2>2, CallbackKeeps
  <2>4. PICK u : u = [t EXCEPT !.step = m]
    OBVIOUS
  <2>5. Kept(u, 0)
    BY <2>3, <2>4, RestKeeps
  <2>6. Kept(Consume(u), 0)
    BY <2>5, RestKeeps DEF Consume
  <2> QED
    BY <2>2, <2>4, <2>6, FreeKeeps
<1> QED
  BY <1>1, <1>2, <1>3 DEF ProtocolInput

\* The query that got no answer is given up.
LEMMA TimeoutKeeps ==
  ASSUME NEW s, Kept(s, 0)
  PROVE  Kept(ProtocolTimeout(s), 0)
<1>1. PICK t : t = Consume(ClearTO(s))
  OBVIOUS
<1>2. t = [s EXCEPT !.timer = "off", !.buf = <<>>]
  BY <1>1 DEF Consume, ClearTO
<1>3. CASE s.pending = None
  <2>1. s.timer = "off"
    BY <1>3 DEF Kept
  <2>2. t = [s EXCEPT !.buf = <<>>]
    BY <1>2, <2>1 DEF Kept, States
  <2>3. Kept(t, 0)
    BY <2>2, RestKeeps
  <2>4. ProtocolTimeout(s) = t
    BY <1>1, <1>3 DEF ProtocolTimeout
  <2> QED
    BY <2>3, <2>4
<1>4. CASE s.pending # None
  <2>1. PICK r : r = [s EXCEPT !.buf = <<>>]
    OBVIOUS
  <2>2. Kept(r, 0)
    BY <2>1, RestKeeps
  <2>3. FreePending(t) = FreePending(r)
    <3>1. /\ r.pending = t.pending /\ r.free = t.free
          /\ [t EXCEPT !.pending = None, !.timer = "off"]
               = [r EXCEPT !.pending = None, !.timer = "off"]
      BY <1>2, <2>1 DEF Kept, States
    <3>2. ASSUME NEW f
          PROVE  [t EXCEPT !.pending = None, !.free = f, !.timer = "off"]
                   = [r EXCEPT !.pending = None, !.free = f, !.timer = "off"]
      BY <1>2, <2>1 DEF Kept, States
    <3> QED
      BY <3>1, <3>2 DEF FreePending, ClearTO
  <2> QED
    BY <1>1, <1>4, <2>2, <2>3, FreeKeeps DEF ProtocolTimeout
<1> QED
  BY <1>3, <1>4

\* A frame: boards that are not polled yet are asked again, the polls go on.
LEMMA SyncKeeps ==
  ASSUME NEW s, Kept(s, 0)
  PROVE  Kept(TmSync(s), 0)
<1>0. ASSUME NEW t, t \in States(t.buf),
             t.pending = s.pending, t.timer = s.timer, t.transient = s.transient,
             t.polls = s.polls, t.cur = s.cur, t.made = s.made, t.free = s.free
      PROVE  Kept(t, 0)
  BY <1>0 DEF Kept, Own
<1> DEFINE counted == IF s.allPolling THEN s ELSE [s EXCEPT !.retry = @ - 1]
           reset   == [counted EXCEPT !.allPolling = TRUE]
           asked   == FoldLeft(Reidentify, reset, [d \in Drives |-> d])
           retried == IF s.allPolling \/ counted.retry > 0 THEN counted
                      ELSE IF asked.allPolling THEN asked
                      ELSE [asked EXCEPT !.retry = RetryDelay]
           synced  == IF retried.cur = 0 /\ retried.polls # <<>>
                      THEN [retried EXCEPT !.cur = 1] ELSE retried
<1>1. Kept(counted, 0) /\ Kept(reset, 0)
  <2>1. PICK r \in Int : r = s.retry - 1
    BY DEF Kept, States
  <2>2. PICK t, u, v : /\ t = [s EXCEPT !.retry = r] /\ u = [t EXCEPT !.allPolling = TRUE]
                       /\ v = [s EXCEPT !.allPolling = TRUE]
    OBVIOUS
  <2>3. /\ t \in States(t.buf)
        /\ t.pending = s.pending /\ t.timer = s.timer /\ t.transient = s.transient
        /\ t.polls = s.polls /\ t.cur = s.cur /\ t.made = s.made /\ t.free = s.free
    BY <2>2 DEF Kept, States
  <2>4. /\ u \in States(u.buf)
        /\ u.pending = s.pending /\ u.timer = s.timer /\ u.transient = s.transient
        /\ u.polls = s.polls /\ u.cur = s.cur /\ u.made = s.made /\ u.free = s.free
    BY ZenonT(40), <2>2, <2>3 DEF States
  <2>5. /\ v \in States(v.buf)
        /\ v.pending = s.pending /\ v.timer = s.timer /\ v.transient = s.transient
        /\ v.polls = s.polls /\ v.cur = s.cur /\ v.made = s.made /\ v.free = s.free
    BY <2>2 DEF Kept, States
  <2>6. Kept(t, 0) /\ Kept(u, 0) /\ Kept(v, 0)
    BY <1>0, <2>3, <2>4, <2>5
  <2>7. (counted = s /\ reset = v) \/ (counted = t /\ reset = u)
    BY <2>1, <2>2
  <2> QED
    BY <2>6, <2>7
<1> HIDE DEF counted, reset
<1>2. Kept(asked, 0)
  <2>1. asked \in From(reset)
    BY <1>1, AllReidentified
  <2> QED
    BY <2>1 DEF From
<1> HIDE DEF asked
<1>3. Kept(retried, 0)
  <2>0. PICK r \in Int : r = RetryDelay
    BY DEF RetryDelay
  <2>1. PICK t : t = [asked EXCEPT !.retry = r]
    OBVIOUS
  <2>2. /\ t \in States(t.buf)
        /\ t.pending = asked.pending /\ t.timer = asked.timer /\ t.transient = asked.transient
        /\ t.polls = asked.polls /\ t.cur = asked.cur /\ t.made = asked.made
        /\ t.free = asked.free
    BY <1>2, <2>1 DEF Kept, States
  <2>3. Kept(t, 0)
    BY <1>2, <2>2 DEF Kept, Own
  <2> QED
    BY <1>1, <1>2, <2>0, <2>1, <2>3
<1> HIDE DEF retried
<1>4. Kept(synced, 0)
  <2>1. PICK t : t = [retried EXCEPT !.cur = 1]
    OBVIOUS
  <2>2. /\ t \in States(t.buf)
        /\ t.pending = retried.pending /\ t.timer = retried.timer
        /\ t.transient = retried.transient /\ t.polls = retried.polls /\ t.cur = 1
        /\ t.made = retried.made /\ t.free = retried.free
    BY <1>3, <2>1 DEF Kept, States
  <2>3. retried.polls # <<>> => 1 <= Len(retried.polls)
    BY <1>3 DEF Kept, States
  <2>4. retried.polls # <<>> => Kept(t, 0)
    BY <1>3, <2>2, <2>3 DEF Kept, Own
  <2> QED
    BY <1>3, <2>1, <2>4
<1>5. TmSync(s) = ProcessRequests(synced)
  BY DEF TmSync, synced, retried, asked, reset, counted
<1> QED
  BY <1>4, <1>5, RequestsKeep

\* Whatever MKS_Ser was called for, the loop waits with its timer afterwards.
LEMMA DataKeeps ==
  ASSUME Kept(drv, 0), NEW flag \in {"gflag", "read", "timeout"}
  PROVE  Kept(ProcessData(drv, flag), 0) /\ Watch(ProcessData(drv, flag))
<1>1. PICK b : b = drv.buf \o bus.line
  OBVIOUS
<1>2. PICK s : s = [drv EXCEPT !.buf = b]
  OBVIOUS
<1>3. PICK f : f = ProtocolInput(s)
  OBVIOUS
<1>4. Kept(f, 0)
  BY <1>2, <1>3, RestKeeps, InputKeeps
<1>5. PICK t : t = (CASE flag = "gflag" -> TmSync(drv)
                      [] flag = "read" -> f
                      [] flag = "timeout" ->
                           IF f.timer = "expired" THEN ProtocolTimeout(f) ELSE f)
  OBVIOUS
<1>6. Kept(t, 0)
  <2>1. CASE flag = "gflag"
    BY <1>5, <2>1, SyncKeeps
  <2>2. CASE flag = "read"
    BY <1>4, <1>5, <2>2
  <2>3. CASE flag = "timeout"
    BY <1>4, <1>5, <2>3, TimeoutKeeps
  <2> QED
    BY <2>1, <2>2, <2>3
<1>7. ProcessData(drv, flag) = [t EXCEPT !.watched = (t.timer # "off")]
  BY <1>1, <1>2, <1>3, <1>5 DEF ProcessData
<1>8. PICK w \in BOOLEAN : w = (t.timer # "off")
  OBVIOUS
<1>9. PICK u : u = [t EXCEPT !.watched = w]
  OBVIOUS
<1>10. /\ u \in States(u.buf) /\ u.watched = w
       /\ u.pending = t.pending /\ u.timer = t.timer /\ u.transient = t.transient
       /\ u.polls = t.polls /\ u.cur = t.cur /\ u.made = t.made /\ u.free = t.free
  BY <1>6, <1>9 DEF Kept, States
<1>11. Kept(u, 0)
  BY <1>6, <1>10 DEF Kept, Own
<1>12. Watch(u)
  BY <1>8, <1>10 DEF Watch
<1> QED
  BY <1>7, <1>8, <1>9, <1>11, <1>12

-----------------------------------------------------------------------------
(* The specification *)

\* The driver starts with the requests that identify the boards.
LEMMA InitKept == Init => IInv
<1> SUFFICES ASSUME Init PROVE IInv
  OBVIOUS
<1>1. PICK idle :
        idle = [transient |-> <<>>, polls |-> <<>>, cur |-> 0, pending |-> None,
                timer |-> "off", watched |-> FALSE, buf |-> <<>>, free |-> 0, made |-> 0,
                retry |-> 0, allPolling |-> FALSE, sent |-> <<>>, step |-> "kept",
                polling |-> [d \in Drives |-> FALSE], mfc |-> [d \in Drives |-> FALSE]]
  OBVIOUS
<1>2. idle \in States(idle.buf)
  BY <1>1 DEF States
<1>3. Kept(idle, 0) /\ Watch(idle)
  <2>1. Own(idle) = 0
    BY <1>1, OwnOf
  <2> QED
    BY <1>1, <1>2, <2>1 DEF Kept, Watch
<1>4. PICK asked \in From(idle) : asked = FoldLeft(IdentifyBoard, idle, [d \in Drives |-> d])
  BY <1>3, AllIdentified
<1>5. Kept(asked, 0) /\ Watch(asked)
  BY <1>3, <1>4 DEF From
<1>6. drv = [asked EXCEPT !.sent = <<>>]
  BY <1>1, <1>4 DEF Init
<1>7. drv.watched = asked.watched /\ drv.timer = asked.timer
  BY <1>5, <1>6 DEF Kept, States
<1> QED
  BY <1>5, <1>6, <1>7, RestKeeps DEF IInv, Watch

\* What a handler wrote goes out; the rest is as it made it.
LEMMA HandledKeeps ==
  ASSUME NEW t, Kept(t, 0), Watch(t), NEW l, Handled(t, l)
  PROVE  IInv'
<1>1. drv' = [t EXCEPT !.sent = <<>>]
  BY DEF Handled
<1>2. PICK u : u = drv'
  OBVIOUS
<1>3. u.watched = t.watched /\ u.timer = t.timer
  BY <1>1, <1>2 DEF Kept, States
<1>4. Kept(u, 0) /\ Watch(u)
  BY <1>1, <1>2, <1>3, RestKeeps DEF Watch
<1> QED
  BY <1>2, <1>4 DEF IInv, Kept, Watch, Own, States

\* Each step keeps the queries.
LEMMA StepKeeps == IInv /\ [Next]_vars => IInv'
<1> SUFFICES ASSUME IInv, [Next]_vars PROVE IInv'
  OBVIOUS
<1>0. Kept(drv, 0) /\ Watch(drv)
  BY DEF IInv
<1>1. CASE FlagPass
  <2>1. Handled(ProcessData(drv, "gflag"), bus.line)
    BY <1>1 DEF FlagPass
  <2> QED
    BY <1>0, <2>1, DataKeeps, HandledKeeps
<1>2. CASE Timeouts
  <2>1. Handled(ProcessData(drv, "timeout"), <<>>)
    BY <1>2 DEF Timeouts
  <2> QED
    BY <1>0, <2>1, DataKeeps, HandledKeeps
<1>3. CASE ServeSer
  <2>1. Handled(ProcessData(drv, "read"), <<>>)
    BY <1>3 DEF ServeSer
  <2> QED
    BY <1>0, <2>1, DataKeeps, HandledKeeps
<1>4. ASSUME drv' = drv PROVE IInv'
  BY <1>4 DEF IInv, Kept, Watch, Own, States
<1>5. CASE ServeCmd
  <2>1. CASE env.cmd = "quit"
    BY <1>4, <1>5, <2>1 DEF ServeCmd
  <2>2. CASE env.cmd # "quit"
    <3>1. PICK d \in Drives : Handled(Request(drv, d, <<"CMD">>, FALSE), bus.line)
      BY <1>5, <2>2 DEF ServeCmd
    <3>2. <<"CMD">> \in Seq(Names)
      BY DEF Names
    <3>3. PICK t \in From(drv) : t = Request(drv, d, <<"CMD">>, FALSE)
      BY <1>0, <3>2, RequestKeeps
    <3>4. Kept(t, 0) /\ Watch(t)
      BY <1>0, <3>3 DEF From
    <3> QED
      BY <3>1, <3>3, <3>4, HandledKeeps
  <2> QED
    BY <2>1, <2>2
<1>6. CASE Expire
  <2>1. PICK t : t = [drv EXCEPT !.timer = "expired"]
    OBVIOUS
  <2>2. /\ t \in States(t.buf) /\ t.watched = drv.watched
        /\ t.pending = drv.pending /\ t.timer = "expired" /\ t.transient = drv.transient
        /\ t.polls = drv.polls /\ t.cur = drv.cur /\ t.made = drv.made /\ t.free = drv.free
    BY <1>0, <2>1 DEF Kept, States
  <2>3. drv.timer = "on" /\ drv' = t
    BY <1>6, <2>1 DEF Expire
  <2>4. Kept(t, 0) /\ Watch(t)
    BY <1>0, <2>2, <2>3 DEF Kept, Watch, Own
  <2> QED
    BY <2>3, <2>4 DEF IInv, Kept, Watch, Own, States
<1>7. CASE Select \/ ServeTM \/ Answer \/ Lose \/ Frame \/ Command
  BY <1>4, <1>7 DEF Select, ServeTM, Answer, Lose, Frame, Command
<1>8. CASE UNCHANGED vars
  BY <1>4, <1>8 DEF vars
<1> QED
  BY <1>1, <1>2, <1>3, <1>5, <1>6, <1>7, <1>8 DEF Next, Loop

\* Through every handler of mksflow, each MKS_Query is pending, in a queue or
\* free, and one is pending exactly while its timer runs, with which the event
\* loop waits (process_requests, free_pending, ProcessData): a query is never
\* forgotten, nor is the driver ever left waiting without a timer.
THEOREM QueriesRight == Spec => []QueriesServed
<1>1. IInv => QueriesServed
  <2>1. ASSUME IInv PROVE Timed
    BY <2>1 DEF IInv, Kept, Watch, Timed
  <2>2. ASSUME IInv PROVE QueriesKept
    <3>1. PICK o \in Nat : o = Own(drv)
      BY DEF Own
    <3>2. drv.made = drv.free + Len(drv.transient) + Len(drv.polls) + o + 0
      BY <2>2, <3>1 DEF IInv, Kept
    <3>3. drv.free \in Nat /\ Len(drv.transient) \in Nat /\ Len(drv.polls) \in Nat
      BY <2>2 DEF IInv, Kept, States
    <3>4. drv.made = drv.free + Len(drv.transient) + Len(drv.polls) + o
      BY <3>2, <3>3
    <3> QED
      BY <3>1, <3>4 DEF QueriesKept, Own
  <2> QED
    BY <2>1, <2>2 DEF QueriesServed
<1> QED
  BY <1>1, InitKept, StepKeeps, PTL DEF Spec
=============================================================================
