-------------------------- MODULE SubbusCAN_proofs --------------------------
(***************************************************************************)
(* Proofs about the CAN back end.  Whatever the boards send, in any number *)
(* of frames to a read, clients that wait are in the queue once, the       *)
(* request under way is its first, and what clients are told is what       *)
(* SubbusService promises.  The handlers work on a state s, so the         *)
(* invariants are about s; an induction over the frames of a read (Lemmas) *)
(* carries them through protocol_input.                                    *)
(***************************************************************************)
EXTENDS SubbusCAN, TLAPS

Status == {"none", "ack", "noack", "error"}
Vals == Seq({"own", "foreign", "zero"})

ReqFrames == [tag : Int, id : (Nat \X Nat) \cup {<<>>}]
Answers == [status : Status, vals : Vals]

Drivers ==
  [slcan : {"init", "init_retry", "operate"}, reqs : Seq(Clients),
   pending : BOOLEAN, processing : BOOLEAN, reqno : Nat,
   reqfrm : ReqFrames, repseq : Nat,
   own : BOOLEAN, early : BOOLEAN, timer : {"on", "off"}, inits : Nat]

Messages ==
  [todo : Seq(Parts \cup {Syntax, Stray}), seq : Nat, status : Status, vals : Vals,
   asked : Nat, answered : Nat, parts : Nat, answer : Answers]

Slots == [tag : Nat, id : Nat \X Nat, next : Nat, len : Nat]

States ==
  [d : Drivers, c : [Clients -> Messages], b : SUBSET Slots,
   bad : Nat, drop : BOOLEAN, expired : BOOLEAN]

-----------------------------------------------------------------------------
(* The inductive invariant *)

Waits(s) == {c \in Clients : s.c[c].asked > s.c[c].answered}

Ready(m) == m.todo # <<>> /\ Head(m.todo) \in Parts

\* Those of them that are to be answered
Queued(s) == {c \in Waits(s) : ~Forgotten(s.c[c])}

\* The queue holds the clients that wait, but for the forgotten and those in
\* out, which a handler is at work on; each has its next part ready.
QueueInv(s, out) ==
  /\ s \in States
  /\ IsInjective(s.d.reqs)
  /\ ToSet(s.d.reqs) = Queued(s) \ out
  /\ \A c \in Clients : s.c[c].asked \in {s.c[c].answered, s.c[c].answered + 1}
  /\ \A c \in Queued(s) \ out : Ready(s.c[c])

\* Nothing was sent for those in the queue
Unsent(s) == \A i \in DOMAIN s.d.reqs : s.c[s.d.reqs[i]].seq = 0

\* Only the front request may have frames sent; all are when it is pending.
SentInv(s) ==
  /\ \A i \in DOMAIN s.d.reqs :
       s.c[s.d.reqs[i]].seq = 0 \/ (i = 1 /\ (s.d.pending \/ s.d.processing))
  /\ s.d.pending =>
       /\ s.d.reqs # <<>>
       /\ LET m == s.c[Head(s.d.reqs)] IN
            /\ s.d.reqfrm.id = Id(Head(m.todo).dev, s.d.reqno - 1)
            /\ m.seq = Head(m.todo).frames

HandlerInv(s) == QueueInv(s, {}) /\ SentInv(s)

-----------------------------------------------------------------------------
(* Queues *)

\* The rest of a queue without repetitions.
LEMMA TailQueue ==
  ASSUME NEW X, NEW q \in Seq(X), q # <<>>, IsInjective(q)
  PROVE  /\ Tail(q) \in Seq(X) /\ IsInjective(Tail(q)) /\ Head(q) \in X
         /\ ToSet(Tail(q)) = ToSet(q) \ {Head(q)} /\ Head(q) \in ToSet(q)
         /\ \A i \in DOMAIN Tail(q) : i + 1 \in DOMAIN q /\ Tail(q)[i] = q[i + 1]
<1>1. /\ Len(q) \in Nat /\ Len(q) > 0 /\ DOMAIN q = 1..Len(q) /\ Head(q) = q[1]
      /\ Tail(q) \in Seq(X) /\ DOMAIN Tail(q) = 1..Len(q) - 1
      /\ \A i \in 1..Len(q) - 1 : Tail(q)[i] = q[i + 1]
  OBVIOUS
<1>2. IsInjective(Tail(q))
  BY <1>1 DEF IsInjective
<1>3. ToSet(Tail(q)) = ToSet(q) \ {Head(q)}
  <2>1. ASSUME NEW i \in 1..Len(q) - 1
        PROVE  Tail(q)[i] \in ToSet(q) /\ Tail(q)[i] # Head(q)
    BY <1>1 DEF ToSet, IsInjective
  <2>2. ASSUME NEW j \in 1..Len(q), q[j] # Head(q) PROVE q[j] \in ToSet(Tail(q))
    <3>1. j - 1 \in 1..Len(q) - 1 /\ Tail(q)[j - 1] = q[j]
      BY <1>1, <2>2
    <3> QED
      BY <1>1, <3>1 DEF ToSet
  <2> QED
    BY <1>1, <2>1, <2>2 DEF ToSet
<1>4. Head(q) \in ToSet(q) /\ Head(q) \in X
  BY <1>1 DEF ToSet
<1>5. \A i \in DOMAIN Tail(q) : i + 1 \in DOMAIN q /\ Tail(q)[i] = q[i + 1]
  BY <1>1
<1> QED
  BY <1>1, <1>2, <1>3, <1>4, <1>5

\* A queue without repetitions and one that was not in it.
LEMMA AppendQueue ==
  ASSUME NEW X, NEW q \in Seq(X), NEW x \in X, IsInjective(q), x \notin ToSet(q)
  PROVE  /\ Append(q, x) \in Seq(X) /\ IsInjective(Append(q, x))
         /\ ToSet(Append(q, x)) = ToSet(q) \cup {x} /\ Append(q, x) # <<>>
         /\ DOMAIN Append(q, x) = DOMAIN q \cup {Len(q) + 1}
         /\ \A i \in DOMAIN q : Append(q, x)[i] = q[i]
         /\ Append(q, x)[Len(q) + 1] = x
         /\ q # <<>> => Head(Append(q, x)) = Head(q)
<1>1. /\ Len(q) \in Nat /\ DOMAIN q = 1..Len(q) /\ Append(q, x) \in Seq(X)
      /\ DOMAIN Append(q, x) = 1..Len(q) + 1 /\ Append(q, x) # <<>>
      /\ \A i \in 1..Len(q) : Append(q, x)[i] = q[i]
      /\ Append(q, x)[Len(q) + 1] = x
      /\ q # <<>> => Head(Append(q, x)) = Head(q)
  OBVIOUS
<1>2. 1..Len(q) + 1 = 1..Len(q) \cup {Len(q) + 1}
  BY <1>1
<1>3. \A i \in 1..Len(q) : q[i] # x
  BY <1>1 DEF ToSet
<1>4. IsInjective(Append(q, x))
  BY <1>1, <1>2, <1>3 DEF IsInjective
<1>5. ToSet(Append(q, x)) = ToSet(q) \cup {x}
  BY SMTT(40), <1>1, <1>2 DEF ToSet
<1> QED
  BY <1>1, <1>2, <1>4, <1>5

\* A part that is ready is no stray character.
LEMMA ReadyKnown == \A m : Ready(m) => ~Forgotten(m)
BY SubbusCANAssumption DEF SubbusCANAssumption, Ready, Forgotten

-----------------------------------------------------------------------------
(* The handlers *)

\* What the invariant does not speak of may change.
LEMMA SameQueue ==
  ASSUME NEW s, NEW t \in States, HandlerInv(s), t.c = s.c, t.d.reqs = s.d.reqs,
         t.d.pending = s.d.pending, t.d.processing = s.d.processing,
         t.d.reqno = s.d.reqno, t.d.reqfrm = s.d.reqfrm
  PROVE  HandlerInv(t)
BY DEF HandlerInv, QueueInv, SentInv, Queued, Waits

\* The timer.
LEMMA Timers ==
  ASSUME NEW s \in States, NEW t \in {SetTO(s), ClearTO(s)}
  PROVE  /\ t \in States /\ t.c = s.c /\ t.d.reqs = s.d.reqs
         /\ t.d.pending = s.d.pending /\ t.d.processing = s.d.processing
         /\ t.d.reqno = s.d.reqno /\ t.d.reqfrm = s.d.reqfrm /\ t.d.slcan = s.d.slcan
         /\ t.d.own = s.d.own /\ t.b = s.b /\ ~t.expired
<1>1. PICK v \in {"on", "off"} : t = [s EXCEPT !.d.timer = v, !.expired = FALSE]
  BY DEF SetTO, ClearTO
<1>2. s.d \in Drivers
  BY DEF States
<1>3. PICK d : d = [s.d EXCEPT !.timer = v]
  OBVIOUS
<1>4. d \in Drivers /\ d.reqs = s.d.reqs /\ d.pending = s.d.pending
      /\ d.processing = s.d.processing /\ d.reqno = s.d.reqno /\ d.reqfrm = s.d.reqfrm
      /\ d.slcan = s.d.slcan /\ d.own = s.d.own
  BY <1>2, <1>3 DEF Drivers
<1>5. t = [s EXCEPT !.d = d, !.expired = FALSE]
  BY <1>1, <1>3
<1>6. t \in States /\ t.c = s.c /\ t.d = d /\ t.b = s.b /\ ~t.expired
  BY <1>4, <1>5 DEF States
<1> QED
  BY <1>4, <1>6

\* A client that is answered does not wait any more.
LEMMA Replies ==
  ASSUME NEW s, NEW c \in Clients, NEW st \in Status, QueueInv(s, {c}), c \in Waits(s)
  PROVE  /\ QueueInv(Reply(s, c, st), {}) /\ Reply(s, c, st).d = s.d
         /\ \A e \in Clients \ {c} : Reply(s, c, st).c[e] = s.c[e]
         /\ Reply(s, c, st).b = s.b /\ Reply(s, c, st).expired = s.expired
         /\ Reply(s, c, st).c[c].asked = s.c[c].asked
         /\ Reply(s, c, st).c[c].answered = s.c[c].answered + 1
         /\ Reply(s, c, st).c[c].parts = s.c[c].parts
         /\ Reply(s, c, st).c[c].answer = [status |-> st, vals |-> s.c[c].vals]
<1> DEFINE t == Reply(s, c, st)
<1>1. s \in States /\ s.c \in [Clients -> Messages] /\ s.c[c] \in Messages
      /\ s.c[c].asked = s.c[c].answered + 1
  BY DEF QueueInv, States, Waits, Messages
<1>2. PICK m \in Messages :
        /\ m = [s.c[c] EXCEPT !.todo = <<>>, !.answered = @ + 1,
                              !.answer = [status |-> st, vals |-> s.c[c].vals]]
        /\ m.asked = s.c[c].asked /\ m.answered = s.c[c].answered + 1
        /\ m.parts = s.c[c].parts /\ m.answer = [status |-> st, vals |-> s.c[c].vals]
  <2>1. s.c[c].answered + 1 \in Nat /\ <<>> \in Seq(Parts \cup {Syntax, Stray})
        /\ s.c[c].vals \in Vals
    BY <1>1 DEF Messages
  <2>2. PICK a \in Answers : a = [status |-> st, vals |-> s.c[c].vals]
    BY <2>1 DEF Answers
  <2>3. PICK m : m = [s.c[c] EXCEPT !.todo = <<>>, !.answered = @ + 1, !.answer = a]
    OBVIOUS
  <2>4. m \in Messages /\ m.asked = s.c[c].asked /\ m.answered = s.c[c].answered + 1
        /\ m.parts = s.c[c].parts /\ m.answer = a
    BY <1>1, <2>1, <2>3 DEF Messages
  <2> QED
    BY <2>2, <2>3, <2>4
<1>3. t = [s EXCEPT !.c = [@ EXCEPT ![c] = m]]
  BY ZenonT(40), <1>1, <1>2 DEF Reply, States, Messages
<1>4. t \in States /\ t.d = s.d /\ t.c = [s.c EXCEPT ![c] = m]
      /\ t.b = s.b /\ t.expired = s.expired
  BY <1>1, <1>3 DEF States
<1>5. t.c[c] = m /\ \A e \in Clients \ {c} : t.c[e] = s.c[e]
  BY <1>1, <1>4
<1> HIDE DEF t
<1>6. Queued(t) = Queued(s) \ {c}
  <2>1. ~(m.asked > m.answered)
    BY <1>1, <1>2 DEF Messages
  <2> QED
    BY <1>5, <2>1 DEF Queued, Waits
<1>7. \A e \in Clients : t.c[e].asked \in {t.c[e].answered, t.c[e].answered + 1}
  BY ZenonT(40), <1>1, <1>2, <1>5 DEF QueueInv, Messages
<1>8. QueueInv(t, {})
  BY <1>4, <1>5, <1>6, <1>7 DEF QueueInv
<1> QED
  BY <1>2, <1>4, <1>5, <1>8 DEF t

\* The parts of a client's message that are counted.
SameCounts(m, n) == m.asked = n.asked /\ m.answered = n.answered /\ m.todo = n.todo

\* The parts that the client itself is told of or will be
SameSaid(m, n) ==
  /\ SameCounts(m, n)
  /\ m.status = n.status /\ m.vals = n.vals /\ m.parts = n.parts /\ m.answer = n.answer

\* t is s after requests were sent if there were any, none being under way.
Sent(s, t) ==
  /\ \A e \in Clients : SameSaid(t.c[e], s.c[e])
  /\ t.d.slcan = s.d.slcan /\ (s.d.own => t.d.own) /\ (t.expired => s.expired)
  /\ t.d.pending => t.d.reqno = s.d.reqno + 1 /\ t.d.reqfrm.tag = s.d.reqno
  /\ ~t.d.pending => t.d.reqno = s.d.reqno
  /\ \A r \in t.b \ s.b :
       t.d.pending /\ r.tag = s.d.reqno /\ r.id[2] = s.d.reqno % ReqIds

\* Frames of the front request go out: all of them, or the first when the
\* write fails.
LEMMA Sends ==
  ASSUME NEW s, QueueInv(s, {}), Unsent(s), ~s.d.pending, ~s.d.processing,
         s.d.reqs # <<>>
  PROVE  /\ HandlerInv(SendFrames(s)) /\ SendFrames(s).d.reqs = s.d.reqs
         /\ Sent(s, SendFrames(s))
<1> DEFINE c == Head(s.d.reqs)
           part == Head(s.c[c].todo)
           n == IF s.c[c].seq < part.frames THEN part.frames - s.c[c].seq ELSE 1
           fails == s.bad \in 1..n
           u == s.c[c].seq + (IF fails THEN s.bad ELSE n)
           out == [tag |-> s.d.reqno, id |-> Id(part.dev, s.d.reqno)]
<1>1. /\ s \in States /\ s.d \in Drivers /\ s.c \in [Clients -> Messages]
      /\ s.d.reqs \in Seq(Clients) /\ IsInjective(s.d.reqs)
      /\ ToSet(s.d.reqs) = Queued(s) /\ s.d.reqno \in Nat /\ s.b \in SUBSET Slots
      /\ s.bad \in Nat
  BY DEF QueueInv, States, Drivers
<1>2. /\ c \in Clients /\ s.c[c] \in Messages /\ part \in Parts /\ s.c[c].seq = 0
      /\ c \in ToSet(s.d.reqs) /\ c = s.d.reqs[1] /\ 1 \in DOMAIN s.d.reqs
  <2>1. c \in ToSet(s.d.reqs) /\ c = s.d.reqs[1] /\ 1 \in DOMAIN s.d.reqs
    BY <1>1 DEF ToSet
  <2>2. c \in Clients /\ Ready(s.c[c])
    BY <1>1, <2>1 DEF QueueInv, Queued, Waits
  <2> QED
    BY <1>1, <2>1, <2>2 DEF Ready, Unsent
<1> HIDE DEF c, part, n, fails, u, out
<1>3. part.frames \in Nat \ {0} /\ part.dev \in Nat /\ part.reply \in Nat
  BY <1>2 DEF Parts
<1>4. /\ n = part.frames /\ n \in Nat \ {0} /\ u = (IF fails THEN s.bad ELSE n)
      /\ fails = (s.bad \in 1..n) /\ u \in Nat /\ u <= n
  <2>1. n = part.frames /\ n \in Nat \ {0}
    BY <1>2, <1>3 DEF n
  <2>2. u = (IF fails THEN s.bad ELSE n)
    BY <1>1, <1>2, <2>1 DEF u
  <2> QED
    BY <1>1, <2>1, <2>2 DEF fails
<1>5. PICK last \in BOOLEAN : last <=> u >= part.frames
  <2>1. CASE u >= part.frames
    BY <2>1
  <2>2. CASE ~(u >= part.frames)
    BY <2>2
  <2> QED
    BY <2>1, <2>2
<1>6. (last => u = part.frames) /\ (~fails => last) /\ last = (u >= part.frames)
  <2>1. last => u = part.frames
    BY <1>3, <1>4, <1>5
  <2>2. ~fails => last
    BY <1>3, <1>4, <1>5
  <2> QED
    BY <1>5, <2>1, <2>2
<1>6b. PICK rest \in Nat : ~fails => rest = IF s.bad = 0 THEN 0 ELSE s.bad - n
  <2>1. CASE s.bad = 0
    BY <2>1
  <2>2. CASE s.bad # 0 /\ ~fails
    <3>1. s.bad - n \in Nat
      <4>1. PICK b, k \in Nat \ {0} : b = s.bad /\ k = n
        BY <1>1, <1>4, <2>2
      <4>2. b \notin 1..k
        BY <1>4, <2>2, <4>1
      <4>3. b - k \in Nat
        BY <4>1, <4>2
      <4> QED
        BY <4>1, <4>3
    <3> QED
      BY <2>2, <3>1
  <2>3. CASE fails
    BY <2>3
  <2> QED
    BY <2>1, <2>2, <2>3
<1>7. /\ out \in ReqFrames /\ out.id = Id(part.dev, s.d.reqno) /\ out.tag = s.d.reqno
       /\ out.id \in Nat \X Nat /\ out.id[2] = s.d.reqno % ReqIds
  <2>1. s.d.reqno % ReqIds \in Nat
    <3>1. PICK T \in Nat \ {0} : T = ReqIds
      BY SubbusCANAssumption DEF SubbusCANAssumption
    <3>2. \A k \in Nat : k % T \in Nat
      OBVIOUS
    <3> QED
      BY <1>1, <3>1, <3>2
  <2>2. Id(part.dev, s.d.reqno) \in Nat \X Nat
    BY <1>3, <2>1 DEF Id
  <2>3. Id(part.dev, s.d.reqno)[2] = s.d.reqno % ReqIds
    BY DEF Id
  <2> QED
    BY <1>1, <2>2, <2>3 DEF ReqFrames, out
<1>8b. PICK early \in BOOLEAN : early <=> s.d.slcan # "operate"
  <2>1. CASE s.d.slcan # "operate"
    BY <2>1
  <2>2. CASE ~(s.d.slcan # "operate")
    BY <2>2
  <2> QED
    BY <2>1, <2>2
<1>8c. early = (s.d.slcan # "operate")
  BY <1>8b
<1>8. PICK d : d = [s.d EXCEPT !.reqfrm = out, !.repseq = 0, !.own = TRUE,
                               !.early = early, !.pending = last,
                               !.reqno = IF last THEN @ + 1 ELSE @]
  OBVIOUS
<1>9. /\ d \in Drivers /\ d.reqs = s.d.reqs /\ d.pending = last /\ d.reqfrm = out
      /\ d.reqno = IF last THEN s.d.reqno + 1 ELSE s.d.reqno
      /\ d.own = TRUE /\ d.slcan = s.d.slcan
  <2>1. (IF last THEN s.d.reqno + 1 ELSE s.d.reqno) \in Nat
    BY <1>1
  <2> QED
    BY <1>1, <1>7, <1>8, <2>1 DEF Drivers
<1>10. PICK f : f = [s.c EXCEPT ![c] = [@ EXCEPT !.seq = u]]
  OBVIOUS
<1>11. /\ f \in [Clients -> Messages] /\ f[c].seq = u /\ SameCounts(f[c], s.c[c])
       /\ SameSaid(f[c], s.c[c])
       /\ \A e \in Clients \ {c} : f[e] = s.c[e]
  <2>1. PICK m : m = [s.c[c] EXCEPT !.seq = u]
    OBVIOUS
  <2>2. m \in Messages /\ m.seq = u /\ SameCounts(m, s.c[c]) /\ SameSaid(m, s.c[c])
    BY <1>2, <1>4, <2>1 DEF Messages, SameCounts, SameSaid
  <2> QED
    BY <1>1, <1>2, <1>10, <2>1, <2>2
<1>12. PICK x : x = [s EXCEPT !.c = f, !.d = d]
  OBVIOUS
<1>13. /\ x \in States /\ x.c = f /\ x.d = d /\ x.b = s.b /\ x.expired = s.expired
       /\ x.bad = s.bad
  BY <1>1, <1>9, <1>11, <1>12 DEF States
<1>14. /\ ~fails => SendFrames(s) =
            SetTO([x EXCEPT !.d.processing = FALSE,
                            !.bad = IF @ = 0 THEN 0 ELSE @ - n,
                            !.b = @ \cup {[tag |-> out.tag, id |-> out.id, next |-> 0,
                                           len |-> part.reply]}])
       /\ fails => SendFrames(s) = [x EXCEPT !.d.processing = TRUE]
  <2> DEFINE sent == [s EXCEPT !.c[c].seq = u, !.d.reqfrm = out, !.d.repseq = 0,
                               !.d.own = TRUE, !.d.early = (s.d.slcan # "operate"),
                               !.d.pending = (u >= part.frames),
                               !.d.reqno = IF u >= part.frames THEN @ + 1 ELSE @]
  <2>1. x = [s EXCEPT !.c[c].seq = u, !.d.reqfrm = out, !.d.repseq = 0,
                      !.d.own = TRUE, !.d.early = early,
                      !.d.pending = last, !.d.reqno = IF last THEN @ + 1 ELSE @]
    BY ZenonT(40), <1>1, <1>8, <1>10, <1>12
  <2>2. x = sent
    BY <1>6, <1>8c, <2>1
  <2>3. SendFrames(s) =
          IF fails
          THEN [sent EXCEPT !.d.processing = TRUE]
          ELSE SetTO([sent EXCEPT !.d.processing = FALSE,
                        !.bad = IF @ = 0 THEN 0 ELSE @ - n,
                        !.b = @ \cup {[tag |-> out.tag, id |-> out.id, next |-> 0,
                                       len |-> part.reply]}])
    BY DEF SendFrames, c, part, n, fails, u, out
  <2> HIDE DEF sent
  <2> QED
    BY <2>2, <2>3
<1>15. PICK y \in States : /\ y = SendFrames(s) /\ y.c = f /\ y.d.reqs = s.d.reqs
                           /\ y.d.pending = last /\ y.d.reqfrm = out
                           /\ y.d.reqno = d.reqno /\ (y.d.processing \/ ~fails)
                           /\ y.d.own = TRUE /\ y.d.slcan = s.d.slcan
                           /\ y.expired => s.expired
                           /\ \A r \in y.b \ s.b : last /\ r.tag = out.tag /\ r.id = out.id
  <2>1. CASE ~fails
    <3>1. PICK g : g = [d EXCEPT !.processing = FALSE]
      OBVIOUS
    <3>2. g \in Drivers /\ g.reqs = s.d.reqs /\ g.pending = last /\ g.reqfrm = out
          /\ g.reqno = d.reqno /\ g.own = TRUE /\ g.slcan = s.d.slcan
      BY <1>9, <3>1 DEF Drivers
    <3>3. PICK slots \in SUBSET Slots :
            slots = s.b \cup {[tag |-> out.tag, id |-> out.id, next |-> 0, len |-> part.reply]}
      <4>1. [tag |-> out.tag, id |-> out.id, next |-> 0, len |-> part.reply] \in Slots
        BY <1>1, <1>3, <1>7 DEF Slots
      <4> QED
        BY <1>1, <4>1
    <3>4. PICK z : z = [x EXCEPT !.d = g, !.bad = rest, !.b = slots]
      OBVIOUS
    <3>5. z \in States /\ z.c = f /\ z.d = g /\ z.b = slots
      BY <1>13, <1>6b, <3>2, <3>4 DEF States
    <3>6. SendFrames(s) = SetTO(z)
      <4>1. rest = IF x.bad = 0 THEN 0 ELSE x.bad - n
        BY <1>6b, <1>13, <2>1
      <4> HIDE DEF fails
      <4> QED
        BY <1>13, <1>14, <2>1, <3>1, <3>3, <3>4, <4>1
    <3>7. \A r \in slots \ s.b : r.tag = out.tag /\ r.id = out.id
      BY <3>3
    <3>8. PICK y : y = SetTO(z)
      OBVIOUS
    <3>9. /\ y \in States /\ y.c = f /\ y.d.reqs = s.d.reqs /\ y.d.pending = last
          /\ y.d.reqfrm = out /\ y.d.reqno = d.reqno /\ y.d.own = TRUE
          /\ y.d.slcan = s.d.slcan /\ ~y.expired /\ y.b = slots
      BY <3>2, <3>5, <3>8, Timers
    <3> QED
      BY <1>6, <2>1, <3>6, <3>7, <3>8, <3>9
  <2>2. CASE fails
    <3>1. PICK g : g = [d EXCEPT !.processing = TRUE]
      OBVIOUS
    <3>2. g \in Drivers /\ g.reqs = s.d.reqs /\ g.pending = last /\ g.reqfrm = out
          /\ g.reqno = d.reqno /\ g.processing /\ g.own = TRUE /\ g.slcan = s.d.slcan
      BY <1>9, <3>1 DEF Drivers
    <3>3. PICK z : z = [x EXCEPT !.d = g]
      OBVIOUS
    <3>4. z \in States /\ z.c = f /\ z.d = g /\ z.b = s.b /\ z.expired = s.expired
      BY <1>13, <3>2, <3>3 DEF States
    <3>5. SendFrames(s) = z
      BY <1>13, <1>14, <2>2, <3>1, <3>3
    <3> QED
      BY <2>2, <3>2, <3>4, <3>5
  <2> QED
    BY <2>1, <2>2
<1>16. Queued(y) = Queued(s)
  BY <1>11, <1>15 DEF Queued, Waits, SameCounts, Forgotten
<1>17. QueueInv(y, {})
  <2>1. \A e \in Clients : y.c[e].asked \in {y.c[e].answered, y.c[e].answered + 1}
    BY <1>11, <1>15 DEF QueueInv, SameCounts
  <2>2. \A e \in Queued(y) \ {} : Ready(y.c[e])
    BY <1>11, <1>15, <1>16 DEF QueueInv, SameCounts, Ready, Queued, Waits
  <2> QED
    BY <1>1, <1>15, <1>16, <2>1, <2>2 DEF QueueInv
<1>18. SentInv(y)
  <2>1. ASSUME NEW i \in DOMAIN y.d.reqs
        PROVE  y.c[y.d.reqs[i]].seq = 0 \/ (i = 1 /\ (y.d.pending \/ y.d.processing))
    <3>1. CASE i = 1
      BY <1>6, <1>15, <3>1
    <3>2. CASE i # 1
      <4>1. s.d.reqs[i] # c /\ s.d.reqs[i] \in Clients
        BY <1>1, <1>2, <1>15, <2>1, <3>2 DEF IsInjective
      <4> QED
        BY <1>11, <1>15, <2>1, <4>1 DEF Unsent
    <3> QED
      BY <3>1, <3>2
  <2>2. ASSUME y.d.pending
        PROVE  /\ y.d.reqfrm.id = Id(Head(y.c[c].todo).dev, y.d.reqno - 1)
               /\ y.c[c].seq = Head(y.c[c].todo).frames
    <3>1. last /\ y.d.reqno - 1 = s.d.reqno /\ Head(y.c[c].todo) = part
      BY <1>1, <1>9, <1>11, <1>15, <2>2 DEF SameCounts, part
    <3> QED
      BY <1>6, <1>7, <1>11, <1>15, <3>1
  <2> QED
    BY <1>15, <2>1, <2>2 DEF SentInv, c
<1>19. Sent(s, y)
  <2>1. \A e \in Clients : SameSaid(y.c[e], s.c[e])
    BY <1>11, <1>15 DEF SameSaid, SameCounts
  <2>2. /\ y.d.pending => y.d.reqno = s.d.reqno + 1 /\ y.d.reqfrm.tag = s.d.reqno
        /\ ~y.d.pending => y.d.reqno = s.d.reqno
    BY <1>7, <1>9, <1>15
  <2>3. \A r \in y.b \ s.b :
          y.d.pending /\ r.tag = s.d.reqno /\ r.id[2] = s.d.reqno % ReqIds
    BY <1>7, <1>15
  <2> QED
    BY <1>15, <2>1, <2>2, <2>3 DEF Sent
<1> QED
  BY <1>15, <1>17, <1>18, <1>19 DEF HandlerInv

\* Requests are sent only when none is under way.
LEMMA Processes ==
  ASSUME NEW s, HandlerInv(s)
  PROVE  /\ HandlerInv(ProcessRequests(s))
         /\ s.d.pending => ProcessRequests(s) = s
         /\ ~s.d.pending => Sent(s, ProcessRequests(s))
<1>1. CASE s.d.pending \/ s.d.processing \/ s.d.reqs = <<>>
  <2>1. ProcessRequests(s) = s
    BY <1>1 DEF ProcessRequests
  <2>2. ~s.d.pending => Sent(s, s)
    BY DEF Sent, SameSaid, SameCounts
  <2> QED
    BY <2>1, <2>2
<1>2. CASE ~(s.d.pending \/ s.d.processing \/ s.d.reqs = <<>>)
  <2>1. QueueInv(s, {}) /\ Unsent(s)
    BY <1>2 DEF HandlerInv, SentInv, Unsent
  <2>2. ProcessRequests(s) = SendFrames(s)
    BY <1>2 DEF ProcessRequests
  <2> QED
    BY <1>2, <2>1, <2>2, Sends
<1> QED
  BY <1>1, <1>2

\* The bus, and what is said on it, are the same.
SameRest(s, t) ==
  /\ t.d.slcan = s.d.slcan /\ t.d.own = s.d.own /\ t.d.pending = s.d.pending
  /\ t.d.reqno = s.d.reqno /\ t.d.reqfrm = s.d.reqfrm
  /\ t.b = s.b /\ t.expired = s.expired

\* The queue with one more client, nothing of whose part was sent
Queues(s, c) == [s EXCEPT !.d.reqs = Append(@, c), !.c[c].seq = 0]

\* Its invariants.
LEMMA QueuesKeeps ==
  ASSUME NEW s, NEW c \in Clients, QueueInv(s, {c}), c \in Waits(s), Ready(s.c[c])
  PROVE  /\ QueueInv(Queues(s, c), {}) /\ Queues(s, c).d.pending = s.d.pending
         /\ SentInv(s) => SentInv(Queues(s, c))
         /\ Unsent(s) => Unsent(Queues(s, c))
         /\ SameRest(s, Queues(s, c))
         /\ \A e \in Clients : SameSaid(Queues(s, c).c[e], s.c[e])
<1> DEFINE q == Append(s.d.reqs, c)
           t == Queues(s, c)
<1>1. /\ s \in States /\ s.d \in Drivers /\ s.c \in [Clients -> Messages]
      /\ s.d.reqs \in Seq(Clients) /\ IsInjective(s.d.reqs)
      /\ ToSet(s.d.reqs) = Queued(s) \ {c} /\ s.c[c] \in Messages /\ c \in Queued(s)
      /\ Len(s.d.reqs) \in Nat /\ DOMAIN s.d.reqs = 1..Len(s.d.reqs)
  BY ReadyKnown DEF QueueInv, States, Drivers, Queued
<1>2. /\ q \in Seq(Clients) /\ IsInjective(q) /\ ToSet(q) = Queued(s) /\ q # <<>>
      /\ DOMAIN q = DOMAIN s.d.reqs \cup {Len(s.d.reqs) + 1}
      /\ \A i \in DOMAIN s.d.reqs : q[i] = s.d.reqs[i] /\ s.d.reqs[i] # c
      /\ q[Len(s.d.reqs) + 1] = c
      /\ s.d.reqs # <<>> => Head(q) = Head(s.d.reqs) /\ Head(q) # c
  <2>1. c \notin ToSet(s.d.reqs)
    BY <1>1
  <2>2. \A i \in DOMAIN s.d.reqs : s.d.reqs[i] # c
    BY <2>1 DEF ToSet
  <2>3. s.d.reqs # <<>> => Head(s.d.reqs) # c
    BY <1>1, <2>2
  <2>4. /\ q \in Seq(Clients) /\ IsInjective(q) /\ ToSet(q) = ToSet(s.d.reqs) \cup {c}
        /\ q # <<>> /\ DOMAIN q = DOMAIN s.d.reqs \cup {Len(s.d.reqs) + 1}
        /\ \A i \in DOMAIN s.d.reqs : q[i] = s.d.reqs[i]
        /\ q[Len(s.d.reqs) + 1] = c
        /\ s.d.reqs # <<>> => Head(q) = Head(s.d.reqs)
    BY <1>1, <2>1, AppendQueue
  <2> HIDE DEF q
  <2> QED
    BY <1>1, <2>2, <2>3, <2>4
<1> HIDE DEF q
<1>3. PICK d : d = [s.d EXCEPT !.reqs = q]
  OBVIOUS
<1>4. /\ d \in Drivers /\ d.reqs = q /\ d.pending = s.d.pending
      /\ d.processing = s.d.processing /\ d.reqno = s.d.reqno /\ d.reqfrm = s.d.reqfrm
      /\ d.own = s.d.own /\ d.slcan = s.d.slcan
  BY <1>1, <1>2, <1>3 DEF Drivers
<1>5. PICK m : m = [s.c[c] EXCEPT !.seq = 0]
  OBVIOUS
<1>6. m \in Messages /\ m.seq = 0 /\ SameCounts(m, s.c[c]) /\ SameSaid(m, s.c[c])
  BY <1>1, <1>5 DEF Messages, SameCounts, SameSaid
<1>7. PICK f : f = [s.c EXCEPT ![c] = m]
  OBVIOUS
<1>8. f \in [Clients -> Messages] /\ f[c] = m /\ \A e \in Clients \ {c} : f[e] = s.c[e]
  BY <1>1, <1>6, <1>7
<1>9. t = [s EXCEPT !.d = d, !.c = f]
  BY <1>1, <1>3, <1>5, <1>7 DEF Queues, q
<1>10. t \in States /\ t.d = d /\ t.c = f /\ t.b = s.b /\ t.expired = s.expired
  BY <1>1, <1>4, <1>8, <1>9 DEF States
<1> HIDE DEF t
<1>16. SameRest(s, t) /\ \A e \in Clients : SameSaid(t.c[e], s.c[e])
  BY <1>4, <1>6, <1>8, <1>10 DEF SameRest, SameSaid, SameCounts
<1>11. Queued(t) = Queued(s)
  BY <1>6, <1>8, <1>10 DEF Queued, Waits, SameCounts, Forgotten
<1>12. QueueInv(t, {})
  <2>1. \A e \in Clients : t.c[e].asked \in {t.c[e].answered, t.c[e].answered + 1}
    BY <1>6, <1>8, <1>10 DEF QueueInv, SameCounts
  <2>2. \A e \in Queued(t) \ {} : Ready(t.c[e])
    BY <1>6, <1>8, <1>10, <1>11 DEF QueueInv, SameCounts, Ready, Queued, Waits
  <2> QED
    BY <1>2, <1>4, <1>10, <1>11, <2>1, <2>2 DEF QueueInv
<1>13. \A i \in DOMAIN q : /\ i \in DOMAIN s.d.reqs => t.c[q[i]] = s.c[s.d.reqs[i]]
                           /\ i \notin DOMAIN s.d.reqs => t.c[q[i]].seq = 0
  <2>1. \A i \in DOMAIN s.d.reqs : s.d.reqs[i] \in Clients
    BY <1>1
  <2> QED
    BY <1>2, <1>6, <1>8, <1>10, <2>1
<1>14. ASSUME SentInv(s) PROVE SentInv(t)
  <2>1. \A i \in DOMAIN q :
          t.c[q[i]].seq = 0 \/ (i = 1 /\ (t.d.pending \/ t.d.processing))
    BY SMTT(40), <1>4, <1>10, <1>13, <1>14 DEF SentInv
  <2>2. ASSUME t.d.pending
        PROVE  /\ t.d.reqfrm.id = Id(Head(t.c[Head(q)].todo).dev, t.d.reqno - 1)
               /\ t.c[Head(q)].seq = Head(t.c[Head(q)].todo).frames
    <3>1. s.d.pending /\ s.d.reqs # <<>> /\ Head(q) = Head(s.d.reqs) /\ Head(q) # c
      BY <1>2, <1>4, <1>10, <1>14, <2>2 DEF SentInv
    <3>2. Head(q) \in Clients
      BY <1>1, <3>1
    <3>3. t.c[Head(q)] = s.c[Head(s.d.reqs)]
      BY <1>8, <1>10, <3>1, <3>2
    <3> QED
      BY ZenonT(40), <1>4, <1>10, <1>14, <3>1, <3>3 DEF SentInv
  <2> QED
    BY <1>2, <1>4, <1>10, <2>1, <2>2 DEF SentInv
<1>15. ASSUME Unsent(s) PROVE Unsent(t)
  BY <1>4, <1>10, <1>13, <1>15 DEF Unsent
<1> QED
  BY <1>4, <1>10, <1>12, <1>14, <1>15, <1>16 DEF t

\* The next part of a request is queued, or the client is answered.
LEMMA NextPartKeeps ==
  ASSUME NEW s, NEW c \in Clients, QueueInv(s, {c}), c \in Waits(s)
  PROVE  /\ SentInv(s) => HandlerInv(NextPart(s, c))
         /\ Unsent(s) /\ s.d.pending =>
              QueueInv(NextPart(s, c), {}) /\ Unsent(NextPart(s, c))
<1>1. /\ s \in States /\ s.d \in Drivers /\ s.c[c] \in Messages /\ s.d.reqs \in Seq(Clients)
      /\ ToSet(s.d.reqs) = Queued(s) \ {c} /\ s.c[c].status \in Status
      /\ s.c[c].todo \in Seq(Parts \cup {Syntax, Stray})
  BY DEF QueueInv, States, Drivers, Messages
<1>2. \A i \in DOMAIN s.d.reqs : s.d.reqs[i] \in Clients \ {c}
  BY <1>1 DEF ToSet, Queued, Waits
<1>3. ASSUME NEW st \in Status, NextPart(s, c) = Reply(s, c, st)
      PROVE  /\ SentInv(s) => HandlerInv(NextPart(s, c))
             /\ Unsent(s) /\ s.d.pending =>
                  QueueInv(NextPart(s, c), {}) /\ Unsent(NextPart(s, c))
  <2>1. PICK t : t = Reply(s, c, st)
    OBVIOUS
  <2>2. QueueInv(t, {}) /\ t.d = s.d /\ \A e \in Clients \ {c} : t.c[e] = s.c[e]
    BY <2>1, Replies
  <2>3. \A i \in DOMAIN s.d.reqs : t.c[t.d.reqs[i]] = s.c[s.d.reqs[i]]
    BY <1>2, <2>2
  <2>4. s.d.reqs # <<>> => t.c[Head(t.d.reqs)] = s.c[Head(s.d.reqs)]
    BY SMTT(40), <1>1, <2>2, <2>3
  <2>5. SentInv(s) => SentInv(t)
    BY <2>2, <2>3, <2>4 DEF SentInv
  <2>6. Unsent(s) => Unsent(t)
    BY <2>2, <2>3 DEF Unsent
  <2> QED
    BY <1>3, <2>1, <2>2, <2>5, <2>6 DEF HandlerInv
<1>4. CASE s.c[c].todo = <<>>
  <2>1. NextPart(s, c) = Reply(s, c, s.c[c].status)
    BY <1>4 DEF NextPart
  <2> QED
    BY <1>1, <1>3, <2>1
<1>5. CASE s.c[c].todo # <<>> /\ Head(s.c[c].todo) = Syntax
  <2>1. NextPart(s, c) = Reply(s, c, "error")
    BY <1>5 DEF NextPart
  <2>2. "error" \in Status
    BY DEF Status
  <2> QED
    BY <1>3, <2>1, <2>2
<1>7. CASE Forgotten(s.c[c])
  <2>1. NextPart(s, c) = s
    BY <1>7, SubbusCANAssumption DEF NextPart, Forgotten, SubbusCANAssumption
  <2>2. Queued(s) \ {c} = Queued(s)
    BY <1>7 DEF Queued
  <2>3. QueueInv(s, {})
    BY <2>2 DEF QueueInv
  <2> QED
    BY <2>1, <2>3 DEF HandlerInv
<1>6. CASE s.c[c].todo # <<>> /\ Head(s.c[c].todo) \notin {Syntax, Stray}
  <2>1. NextPart(s, c) = ProcessRequests(Queues(s, c))
    BY <1>6 DEF NextPart, EnqueueRequest, Queues
  <2>2. Ready(s.c[c])
    <3>1. Head(s.c[c].todo) \in Parts \cup {Syntax, Stray}
      BY <1>1, <1>6
    <3> QED
      BY <1>6, <3>1 DEF Ready
  <2>3. PICK t : t = Queues(s, c)
    OBVIOUS
  <2>4. /\ QueueInv(t, {}) /\ t.d.pending = s.d.pending
        /\ SentInv(s) => SentInv(t)
        /\ Unsent(s) => Unsent(t)
    BY <2>2, <2>3, QueuesKeeps
  <2>5. SentInv(s) => HandlerInv(NextPart(s, c))
    BY <2>1, <2>3, <2>4, Processes DEF HandlerInv
  <2>6. s.d.pending => NextPart(s, c) = t
    BY <2>1, <2>3, <2>4 DEF ProcessRequests
  <2> QED
    BY <2>4, <2>5, <2>6
<1> QED
  BY <1>4, <1>5, <1>6, <1>7 DEF Forgotten

\* The front request leaves the queue.
LEMMA Pops ==
  ASSUME NEW s, NEW c, HandlerInv(s), s.d.pending, c = Head(s.d.reqs)
  PROVE  /\ c \in Clients /\ QueueInv(PopReq(s), {c}) /\ Unsent(PopReq(s))
         /\ c \in Waits(PopReq(s)) /\ Ready(PopReq(s).c[c]) /\ PopReq(s).d.pending
         /\ SameRest(s, PopReq(s)) /\ PopReq(s).c = s.c
<1>1. /\ s \in States /\ s.d \in Drivers /\ s.c \in [Clients -> Messages]
      /\ s.d.reqs \in Seq(Clients) /\ IsInjective(s.d.reqs)
      /\ ToSet(s.d.reqs) = Queued(s) /\ s.d.reqs # <<>>
  BY DEF HandlerInv, SentInv, QueueInv, States, Drivers
<1>2. PICK q : q = Tail(s.d.reqs)
  OBVIOUS
<1>3. /\ q \in Seq(Clients) /\ IsInjective(q) /\ c \in Clients
      /\ ToSet(q) = Queued(s) \ {c} /\ c \in Queued(s)
      /\ \A i \in DOMAIN q : i + 1 \in DOMAIN s.d.reqs /\ q[i] = s.d.reqs[i + 1]
  BY <1>1, <1>2, TailQueue
<1>4. PICK d : d = [s.d EXCEPT !.reqs = q]
  OBVIOUS
<1>5. /\ d \in Drivers /\ d.reqs = q /\ d.pending /\ d.pending = s.d.pending
      /\ d.slcan = s.d.slcan /\ d.own = s.d.own
      /\ d.reqno = s.d.reqno /\ d.reqfrm = s.d.reqfrm
  BY <1>1, <1>3, <1>4 DEF Drivers
<1>6. PICK t : t = PopReq(s)
  OBVIOUS
<1>7. t = [s EXCEPT !.d = d]
  BY <1>2, <1>4, <1>6 DEF PopReq
<1>8. t \in States /\ t.d = d /\ t.c = s.c /\ t.b = s.b /\ t.expired = s.expired
  BY <1>1, <1>5, <1>7 DEF States
<1>13. SameRest(s, t)
  BY <1>5, <1>8 DEF SameRest
<1>9. Queued(t) = Queued(s) /\ c \in Waits(t)
  BY <1>3, <1>8 DEF Queued, Waits
<1>10. QueueInv(t, {c})
  BY <1>3, <1>5, <1>8, <1>9 DEF QueueInv, HandlerInv
<1>11. Unsent(t)
  <2>1. ASSUME NEW i \in DOMAIN q PROVE s.c[q[i]].seq = 0
    <3>1. i \in Nat \ {0} /\ i + 1 # 1
      BY <1>3
    <3> QED
      BY <1>3, <3>1 DEF HandlerInv, SentInv
  <2> QED
    BY SMTT(40), <1>5, <1>8, <2>1 DEF Unsent
<1>12. Ready(t.c[c])
  BY <1>3, <1>8 DEF HandlerInv, QueueInv
<1> QED
  BY SMTT(40), <1>3, <1>5, <1>6, <1>8, <1>9, <1>10, <1>11, <1>12, <1>13

\* A client's part is done, with a value
PartDone(s, c, status, val) ==
  [s EXCEPT !.c[c].status = status, !.c[c].vals = Append(@, val), !.c[c].todo = Tail(@)]

Results == {"ack", "noack", "error"}
Data == {"own", "foreign", "zero"}

\* What it changes.
LEMMA PartDoneType ==
  ASSUME NEW s \in States, NEW c \in Clients, NEW st \in Status, NEW val \in Data,
         Ready(s.c[c])
  PROVE  /\ PartDone(s, c, st, val) \in States /\ PartDone(s, c, st, val).d = s.d
         /\ PartDone(s, c, st, val).c[c].asked = s.c[c].asked
         /\ PartDone(s, c, st, val).c[c].answered = s.c[c].answered
         /\ PartDone(s, c, st, val).c[c].todo = Tail(s.c[c].todo)
         /\ PartDone(s, c, st, val).c[c].status = st
         /\ PartDone(s, c, st, val).c[c].vals = Append(s.c[c].vals, val)
         /\ PartDone(s, c, st, val).c[c].parts = s.c[c].parts
         /\ PartDone(s, c, st, val).c[c].answer = s.c[c].answer
         /\ PartDone(s, c, st, val).b = s.b /\ PartDone(s, c, st, val).expired = s.expired
         /\ \A e \in Clients \ {c} : PartDone(s, c, st, val).c[e] = s.c[e]
<1>1. s.c \in [Clients -> Messages] /\ s.c[c] \in Messages
  BY DEF States
<1>2. Append(s.c[c].vals, val) \in Vals
  <2>1. s.c[c].vals \in Seq(Data)
    BY <1>1 DEF Messages, Vals, Data
  <2>2. Append(s.c[c].vals, val) \in Seq(Data)
    BY <2>1
  <2> QED
    BY <2>2 DEF Vals, Data
<1>3. Tail(s.c[c].todo) \in Seq(Parts \cup {Syntax, Stray})
  BY <1>1 DEF Messages, Ready
<1>4. PICK m : m = [s.c[c] EXCEPT !.status = st, !.vals = Append(@, val), !.todo = Tail(@)]
  OBVIOUS
<1>5. /\ m \in Messages /\ m.asked = s.c[c].asked /\ m.answered = s.c[c].answered
      /\ m.todo = Tail(s.c[c].todo) /\ m.status = st
      /\ m.vals = Append(s.c[c].vals, val)
      /\ m.parts = s.c[c].parts /\ m.answer = s.c[c].answer
  BY <1>1, <1>2, <1>3, <1>4 DEF Messages
<1>6. PICK f : f = [s.c EXCEPT ![c] = m]
  OBVIOUS
<1>7. f \in [Clients -> Messages] /\ f[c] = m /\ \A e \in Clients \ {c} : f[e] = s.c[e]
  BY <1>1, <1>5, <1>6
<1>8. PICK t : t = PartDone(s, c, st, val)
  OBVIOUS
<1>9. t = [s EXCEPT !.c = f]
  BY <1>1, <1>4, <1>6, <1>8 DEF PartDone
<1>10. t \in States /\ t.d = s.d /\ t.c = f /\ t.b = s.b /\ t.expired = s.expired
  BY <1>1, <1>7, <1>9 DEF States
<1> QED
  BY <1>5, <1>7, <1>8, <1>10

\* It keeps the queue.
LEMMA PartDoneKeeps ==
  ASSUME NEW s, NEW c \in Clients, NEW st \in Status, NEW val \in Data,
         QueueInv(s, {c}), Unsent(s), c \in Waits(s), Ready(s.c[c])
  PROVE  /\ QueueInv(PartDone(s, c, st, val), {c}) /\ Unsent(PartDone(s, c, st, val))
         /\ c \in Waits(PartDone(s, c, st, val)) /\ PartDone(s, c, st, val).d = s.d
<1>1. /\ s \in States /\ s.d.reqs \in Seq(Clients) /\ ToSet(s.d.reqs) = Queued(s) \ {c}
  BY DEF QueueInv, States, Drivers
<1>2. PICK t : t = PartDone(s, c, st, val)
  OBVIOUS
<1>3. /\ t \in States /\ t.d = s.d /\ t.c[c].asked = s.c[c].asked
      /\ t.c[c].answered = s.c[c].answered
      /\ \A e \in Clients \ {c} : t.c[e] = s.c[e]
  BY <1>1, <1>2, PartDoneType
<1>4. Queued(t) \ {c} = Queued(s) \ {c} /\ c \in Waits(t)
  BY <1>3 DEF Queued, Waits
<1>5. QueueInv(t, {c})
  <2>1. \A e \in Clients : t.c[e].asked \in {t.c[e].answered, t.c[e].answered + 1}
    BY <1>3 DEF QueueInv
  <2>2. \A e \in Queued(t) \ {c} : Ready(t.c[e])
    BY <1>3, <1>4 DEF QueueInv, Queued, Waits
  <2> QED
    BY <1>1, <1>3, <1>4, <2>1, <2>2 DEF QueueInv
<1>6. Unsent(t)
  <2>1. \A i \in DOMAIN s.d.reqs : s.d.reqs[i] \in Clients \ {c}
    BY <1>1 DEF ToSet, Queued, Waits
  <2> QED
    BY <1>3, <2>1 DEF Unsent
<1> QED
  BY <1>2, <1>3, <1>4, <1>5, <1>6

\* So does the reply.
LEMMA RepliesUnsent ==
  ASSUME NEW s, NEW c \in Clients, NEW st \in Status, QueueInv(s, {c}), Unsent(s),
         c \in Waits(s)
  PROVE  QueueInv(Reply(s, c, st), {}) /\ Unsent(Reply(s, c, st))
<1>1. PICK u : u = Reply(s, c, st)
  OBVIOUS
<1>2. QueueInv(u, {}) /\ u.d = s.d /\ \A e \in Clients \ {c} : u.c[e] = s.c[e]
  BY <1>1, Replies
<1>3. \A i \in DOMAIN s.d.reqs : s.d.reqs[i] \in Clients \ {c}
  BY DEF QueueInv, ToSet, Queued, Waits
<1>4. Unsent(u)
  BY <1>2, <1>3 DEF Unsent
<1> QED
  BY <1>1, <1>2, <1>4

\* A client's part ends after its request left the queue.
LEMMA Completes ==
  ASSUME NEW s, NEW c, NEW st \in Results, NEW val \in Data, HandlerInv(s),
         s.d.pending, c = Head(s.d.reqs)
  PROVE  /\ QueueInv(RequestComplete(PopReq(s), c, st, val), {})
         /\ Unsent(RequestComplete(PopReq(s), c, st, val))
<1>1. PICK t : t = PopReq(s)
  OBVIOUS
<1>2. /\ c \in Clients /\ QueueInv(t, {c}) /\ Unsent(t)
      /\ c \in Waits(t) /\ Ready(t.c[c]) /\ t.d.pending
  BY <1>1, Pops
<1>3. st \in Status
  BY DEF Status, Results
<1>4. CASE st = "error" \/ ~Head(t.c[c].todo).fits
  <2>1. RequestComplete(t, c, st, val) = Reply(t, c, "error")
    BY <1>4 DEF RequestComplete
  <2>2. QueueInv(Reply(t, c, "error"), {}) /\ Unsent(Reply(t, c, "error"))
    BY <1>2, RepliesUnsent DEF Status
  <2> QED
    BY <1>1, <2>1, <2>2
<1>5. CASE ~(st = "error" \/ ~Head(t.c[c].todo).fits)
  <2>1. RequestComplete(t, c, st, val) = NextPart(PartDone(t, c, st, val), c)
    BY <1>5 DEF RequestComplete, PartDone
  <2>2. PICK u : u = PartDone(t, c, st, val)
    OBVIOUS
  <2>3. QueueInv(u, {c}) /\ Unsent(u) /\ c \in Waits(u) /\ u.d = t.d
    BY <1>2, <1>3, <2>2, PartDoneKeeps
  <2>4. QueueInv(NextPart(u, c), {}) /\ Unsent(NextPart(u, c))
    BY <1>2, <2>3, NextPartKeeps
  <2> QED
    BY <1>1, <2>1, <2>2, <2>4
<1> QED
  BY <1>4, <1>5

\* Two fields of a state may be set in either order.
LEMMA TwoFields ==
  ASSUME NEW s \in States, NEW f, NEW d
  PROVE  /\ [[s EXCEPT !.c = f] EXCEPT !.d = d] = [[s EXCEPT !.d = d] EXCEPT !.c = f]
         /\ [s EXCEPT !.c = f].d = s.d /\ [s EXCEPT !.d = d].c = s.c
         /\ [s EXCEPT !.c = f].c = f /\ [s EXCEPT !.d = d].d = d
BY DEF States

\* It is the same before its request leaves the queue, as long as it is pending.
LEMMA CompletesEarly ==
  ASSUME NEW s, NEW c, NEW st \in Results, NEW val \in Data, HandlerInv(s),
         s.d.pending, c = Head(s.d.reqs)
  PROVE  PopReq(RequestComplete(s, c, st, val)) = RequestComplete(PopReq(s), c, st, val)
<1>1. /\ s \in States /\ s.d \in Drivers /\ s.d.reqs \in Seq(Clients)
      /\ s.d.reqs # <<>> /\ c \in Clients
  BY Pops DEF HandlerInv, SentInv, QueueInv, States, Drivers
<1>2. Ready(s.c[c])
  <2>1. c \in ToSet(s.d.reqs)
    BY <1>1, TailQueue DEF HandlerInv, QueueInv
  <2> QED
    BY <2>1 DEF HandlerInv, QueueInv
<1>3. \A t \in States : \A x :
        /\ PopReq(Reply(t, c, x)) = Reply(PopReq(t), c, x)
        /\ PopReq(t).c = t.c /\ PopReq(t).d.pending = t.d.pending
  <2>1. SUFFICES ASSUME NEW t \in States, NEW x
                 PROVE  /\ PopReq(Reply(t, c, x)) = Reply(PopReq(t), c, x)
                        /\ PopReq(t).c = t.c /\ PopReq(t).d.pending = t.d.pending
    OBVIOUS
  <2>2. t.d \in Drivers
    BY DEF States
  <2>3. PopReq(t).c = t.c /\ PopReq(t).d.pending = t.d.pending
    BY <2>2 DEF PopReq, States, Drivers
  <2>4. PopReq(Reply(t, c, x)) = Reply(PopReq(t), c, x)
    <3>1. PICK d : d = [t.d EXCEPT !.reqs = Tail(@)]
      OBVIOUS
    <3>2. PICK f : f = [t.c EXCEPT ![c].todo = <<>>, ![c].answered = @ + 1,
                                   ![c].answer = [status |-> x, vals |-> t.c[c].vals]]
      OBVIOUS
    <3>3. PICK p, r : p = [t EXCEPT !.d = d] /\ r = [t EXCEPT !.c = f]
      OBVIOUS
    <3>4. p = PopReq(t) /\ r = Reply(t, c, x)
      BY ZenonT(40), <3>1, <3>2, <3>3 DEF PopReq, Reply
    <3>5. p.c = t.c /\ r.d = t.d /\ [p EXCEPT !.c = f] = [r EXCEPT !.d = d]
      BY ZenonT(40), <3>3, TwoFields
    <3>6. d = [r.d EXCEPT !.reqs = Tail(@)]
      BY <3>1, <3>5
    <3>7. f = [p.c EXCEPT ![c].todo = <<>>, ![c].answered = @ + 1,
                          ![c].answer = [status |-> x, vals |-> p.c[c].vals]]
      BY <3>2, <3>5
    <3>8. PopReq(r) = [r EXCEPT !.d = d]
      BY SMTT(40), <3>6 DEF PopReq
    <3>9. Reply(p, c, x) = [p EXCEPT !.c = f]
      BY ZenonT(40), <3>7 DEF Reply
    <3> QED
      BY <3>4, <3>5, <3>8, <3>9
  <2> QED
    BY <2>3, <2>4
<1>4. CASE st = "error" \/ ~Head(s.c[c].todo).fits
  <2>1. /\ RequestComplete(s, c, st, val) = Reply(s, c, "error")
        /\ RequestComplete(PopReq(s), c, st, val) = Reply(PopReq(s), c, "error")
    BY <1>1, <1>3, <1>4 DEF RequestComplete
  <2> QED
    BY <1>1, <1>3, <2>1
<1>5. CASE ~(st = "error" \/ ~Head(s.c[c].todo).fits)
  <2>1. PICK u : u = PartDone(s, c, st, val)
    OBVIOUS
  <2>2. u \in States /\ u.d = s.d
    <3>1. st \in Status
      BY DEF Results, Status
    <3>2. PartDone(s, c, st, val) \in States /\ PartDone(s, c, st, val).d = s.d
      BY <1>1, <1>2, <3>1, PartDoneType
    <3> QED
      BY <2>1, <3>2
  <2>3. PopReq(u) = PartDone(PopReq(s), c, st, val)
    <3>1. PICK d : d = [s.d EXCEPT !.reqs = Tail(@)]
      OBVIOUS
    <3>2. PICK f : f = [s.c EXCEPT ![c].status = st, ![c].vals = Append(@, val),
                                   ![c].todo = Tail(@)]
      OBVIOUS
    <3>3. PICK p : p = [s EXCEPT !.d = d]
      OBVIOUS
    <3>4. p = PopReq(s) /\ u = [s EXCEPT !.c = f]
      BY ZenonT(40), <2>1, <3>1, <3>2, <3>3 DEF PopReq, PartDone
    <3>5. p.c = s.c
      BY ZenonT(40), <1>1, <3>3, TwoFields
    <3>6. [p EXCEPT !.c = f] = [u EXCEPT !.d = d]
      BY <1>1, <3>3, <3>4, TwoFields
    <3>7. d = [u.d EXCEPT !.reqs = Tail(@)]
      BY SMTT(40), <2>2, <3>1
    <3>8. f = [p.c EXCEPT ![c].status = st, ![c].vals = Append(@, val),
                          ![c].todo = Tail(@)]
      BY <3>2, <3>5
    <3>9. PopReq(u) = [u EXCEPT !.d = d]
      BY SMTT(40), <3>7 DEF PopReq
    <3>10. PartDone(p, c, st, val) = [p EXCEPT !.c = f]
      BY ZenonT(40), <3>8 DEF PartDone
    <3> QED
      BY <3>4, <3>6, <3>9, <3>10
  <2>4. PopReq(NextPart(u, c)) = NextPart(PopReq(u), c)
    <3>1. PopReq(u).c = u.c /\ PopReq(u).d.pending = u.d.pending
      BY <1>3, <2>2
    <3>2. CASE u.c[c].todo = <<>>
      BY <1>3, <2>2, <3>1, <3>2 DEF NextPart
    <3>3. CASE u.c[c].todo # <<>> /\ Head(u.c[c].todo) = Syntax
      BY <1>3, <2>2, <3>1, <3>3 DEF NextPart
    <3>5. CASE Forgotten(u.c[c])
      BY <3>1, <3>5, SubbusCANAssumption DEF NextPart, Forgotten, SubbusCANAssumption
    <3>4. CASE u.c[c].todo # <<>> /\ Head(u.c[c].todo) \notin {Syntax, Stray}
      <4>1. /\ NextPart(u, c) = ProcessRequests(Queues(u, c))
            /\ NextPart(PopReq(u), c) = ProcessRequests(Queues(PopReq(u), c))
        BY <3>1, <3>4 DEF NextPart, EnqueueRequest, Queues
      <4>2. PopReq(u) \in States /\ u.d \in Drivers
        <5>1. PICK d : d = [u.d EXCEPT !.reqs = Tail(@)]
          OBVIOUS
        <5>2. Tail(u.d.reqs) \in Seq(Clients)
          BY <1>1, <2>2
        <5>3. d \in Drivers /\ u.d \in Drivers
          BY <1>1, <2>2, <5>1, <5>2 DEF Drivers
        <5> QED
          BY <2>2, <5>1, <5>3 DEF PopReq, States
      <4>3. Queues(u, c).d.pending /\ Queues(PopReq(u), c).d.pending
        <5>1. \A t \in States : Queues(t, c).d.pending = t.d.pending
          BY DEF Queues, States, Drivers
        <5> QED
          BY <2>2, <3>1, <4>2, <5>1
      <4>4. Tail(Append(u.d.reqs, c)) = Append(Tail(u.d.reqs), c)
        BY <1>1, <2>2
      <4>5. PopReq(Queues(u, c)) = Queues(PopReq(u), c)
        <5>1. PICK d, e : d = [u.d EXCEPT !.reqs = Append(@, c)]
                          /\ e = [u.d EXCEPT !.reqs = Tail(@)]
          OBVIOUS
        <5>2. PICK f : f = [u.c EXCEPT ![c].seq = 0]
          OBVIOUS
        <5>3. PICK g : g = [u.d EXCEPT !.reqs = Append(Tail(@), c)]
          OBVIOUS
        <5>4. g = [d EXCEPT !.reqs = Tail(@)] /\ g = [e EXCEPT !.reqs = Append(@, c)]
          BY <4>2, <4>4, <5>1, <5>3 DEF Drivers
        <5>5. PICK h, k, p : /\ h = [u EXCEPT !.d = d] /\ k = [h EXCEPT !.c = f]
                             /\ p = [u EXCEPT !.d = e]
          OBVIOUS
        <5>6. k = Queues(u, c) /\ p = PopReq(u)
          BY <2>2, <5>1, <5>2, <5>5 DEF Queues, PopReq, States
        <5>7. k.d = d /\ p.d = e /\ p.c = u.c
          BY <2>2, <5>5 DEF States
        <5>8. PopReq(k) = [k EXCEPT !.d = g]
          BY <5>4, <5>7 DEF PopReq
        <5>9. Queues(p, c) = [p EXCEPT !.d = g, !.c = f]
          BY <5>2, <5>4, <5>7 DEF Queues
        <5>10. [k EXCEPT !.d = g] = [p EXCEPT !.d = g, !.c = f]
          BY <2>2, <5>5 DEF States
        <5> QED
          BY <5>6, <5>8, <5>9, <5>10
      <4> QED
        BY <4>1, <4>3, <4>5 DEF ProcessRequests
    <3> QED
      BY <3>2, <3>3, <3>4, <3>5 DEF Forgotten
  <2>5. ~(st = "error" \/ ~Head(PopReq(s).c[c].todo).fits)
    BY <1>1, <1>3, <1>5
  <2> QED
    BY <1>5, <2>1, <2>3, <2>4, <2>5 DEF RequestComplete, PartDone
<1> QED
  BY <1>4, <1>5

\* The request under way ends, and the next one is sent.
LEMMA Ends ==
  ASSUME NEW s, QueueInv(s, {}), Unsent(s)
  PROVE  HandlerInv(EndPending(s))
<1>1. s \in States /\ s.d \in Drivers
  BY DEF QueueInv, States
<1>2. PICK d : d = [s.d EXCEPT !.pending = FALSE]
  OBVIOUS
<1>3. d \in Drivers /\ d.reqs = s.d.reqs /\ ~d.pending
  BY <1>1, <1>2 DEF Drivers
<1>4. PICK t : t = [s EXCEPT !.d = d]
  OBVIOUS
<1>5. t \in States /\ t.d = d /\ t.c = s.c
  BY <1>1, <1>3, <1>4 DEF States
<1>6. Queued(t) = Queued(s)
  BY <1>5 DEF Queued, Waits
<1>7. QueueInv(t, {})
  BY <1>3, <1>5, <1>6 DEF QueueInv
<1>8. SentInv(t)
  BY <1>3, <1>5 DEF SentInv, Unsent
<1>9. EndPending(s) = ProcessRequests(t)
  BY <1>2, <1>4 DEF EndPending
<1> QED
  BY <1>7, <1>8, <1>9, Processes DEF HandlerInv

\* The timer is no part of the invariant.
LEMMA TimersKeep ==
  ASSUME NEW s, NEW t \in {SetTO(s), ClearTO(s)}
  PROVE  /\ HandlerInv(s) => HandlerInv(t)
         /\ QueueInv(s, {}) /\ Unsent(s) => QueueInv(t, {}) /\ Unsent(t)
<1>1. CASE s \in States
  <2>1. /\ t \in States /\ t.c = s.c /\ t.d.reqs = s.d.reqs
        /\ t.d.pending = s.d.pending /\ t.d.processing = s.d.processing
        /\ t.d.reqno = s.d.reqno /\ t.d.reqfrm = s.d.reqfrm
    BY <1>1, Timers
  <2>2. HandlerInv(s) => HandlerInv(t)
    BY <2>1, SameQueue
  <2>3. QueueInv(s, {}) /\ Unsent(s) => QueueInv(t, {}) /\ Unsent(t)
    BY <2>1 DEF QueueInv, Unsent, Queued, Waits
  <2> QED
    BY <2>2, <2>3
<1>2. CASE s \notin States
  BY <1>2 DEF HandlerInv, QueueInv
<1> QED
  BY <1>1, <1>2

\* Nor is the state of the adapter.
LEMMA AdapterKeeps ==
  ASSUME NEW s, HandlerInv(s), NEW v \in {"init", "init_retry", "operate"}
  PROVE  /\ HandlerInv([s EXCEPT !.d.slcan = v])
         /\ HandlerInv([s EXCEPT !.d.slcan = v, !.d.inits = @ + 1])
         /\ HandlerInv(DropAll(s))
<1>1. s \in States /\ s.d \in Drivers
  BY DEF HandlerInv, QueueInv, States
<1>2. HandlerInv([s EXCEPT !.d.slcan = v])
  <2>1. PICK d : d = [s.d EXCEPT !.slcan = v]
    OBVIOUS
  <2>2. /\ d \in Drivers /\ d.reqs = s.d.reqs /\ d.pending = s.d.pending
        /\ d.processing = s.d.processing /\ d.reqno = s.d.reqno /\ d.reqfrm = s.d.reqfrm
    BY <1>1, <2>1 DEF Drivers
  <2>3. PICK t : t = [s EXCEPT !.d = d]
    OBVIOUS
  <2>4. t \in States /\ t.d = d /\ t.c = s.c
    BY <1>1, <2>2, <2>3 DEF States
  <2>5. HandlerInv(t)
    BY <2>2, <2>4, SameQueue
  <2> QED
    BY <2>1, <2>3, <2>5
<1>3. HandlerInv([s EXCEPT !.d.slcan = v, !.d.inits = @ + 1])
  <2>1. PICK d : d = [s.d EXCEPT !.slcan = v, !.inits = @ + 1]
    OBVIOUS
  <2>7. PICK n \in Nat : n = s.d.inits + 1
    BY <1>1 DEF Drivers
  <2>8. d = [s.d EXCEPT !.slcan = v, !.inits = n]
    BY <2>1, <2>7
  <2>2. /\ d \in Drivers /\ d.reqs = s.d.reqs /\ d.pending = s.d.pending
        /\ d.processing = s.d.processing /\ d.reqno = s.d.reqno /\ d.reqfrm = s.d.reqfrm
    BY <1>1, <2>8 DEF Drivers
  <2>3. PICK t : t = [s EXCEPT !.d = d]
    OBVIOUS
  <2>4. t \in States /\ t.d = d /\ t.c = s.c
    BY <1>1, <2>2, <2>3 DEF States
  <2>5. HandlerInv(t)
    BY <2>2, <2>4, SameQueue
  <2>6. t = [s EXCEPT !.d.slcan = v, !.d.inits = @ + 1]
    BY <1>1, <2>1, <2>3 DEF States, Drivers
  <2> QED
    BY <2>5, <2>6
<1>4. HandlerInv(DropAll(s))
  <2>1. PICK t : t = DropAll(s)
    OBVIOUS
  <2>2. t \in States /\ t.d = s.d /\ t.c = s.c
    BY <1>1, <2>1 DEF DropAll, States
  <2> QED
    BY <2>1, <2>2, SameQueue
<1> QED
  BY <1>2, <1>3, <1>4

\* A frame that says that the request failed.
LEMMA ErrorFrameKeeps ==
  ASSUME NEW s, NEW f, HandlerInv(s), s.d.pending
  PROVE  HandlerInv(ErrorFrame(s, f))
<1>1. PICK c : c = Head(s.d.reqs)
  OBVIOUS
<1>2. PICK st \in Results :
        ErrorFrame(s, f) = EndPending(ClearTO(PopReq(RequestComplete(s, c, st, "zero"))))
  BY <1>1 DEF ErrorFrame, Results
<1>3. "zero" \in Data
  BY DEF Data
<1>4. PICK t : t = RequestComplete(PopReq(s), c, st, "zero")
  OBVIOUS
<1>5. QueueInv(t, {}) /\ Unsent(t)
  BY <1>1, <1>3, <1>4, Completes
<1>6. t = PopReq(RequestComplete(s, c, st, "zero"))
  BY <1>1, <1>3, <1>4, CompletesEarly
<1>7. QueueInv(ClearTO(t), {}) /\ Unsent(ClearTO(t))
  BY <1>5, TimersKeep
<1>8. HandlerInv(EndPending(ClearTO(t)))
  BY <1>7, Ends
<1> QED
  BY <1>2, <1>6, <1>8

\* A frame of the reply that is expected.
LEMMA DataFrameKeeps ==
  ASSUME NEW s, NEW f, HandlerInv(s), s.d.pending
  PROVE  HandlerInv(DataFrame(s, f))
<1>1. s \in States /\ s.d \in Drivers
  BY DEF HandlerInv, QueueInv, States
<1>2. PICK own \in BOOLEAN : own <=> (s.d.own /\ f.tag = s.d.reqfrm.tag)
  <2>1. CASE s.d.own /\ f.tag = s.d.reqfrm.tag
    BY <2>1
  <2>2. CASE ~(s.d.own /\ f.tag = s.d.reqfrm.tag)
    BY <2>2
  <2> QED
    BY <2>1, <2>2
<1>3. own = (s.d.own /\ f.tag = s.d.reqfrm.tag)
  BY <1>2
<1>4. PICK d : d = [s.d EXCEPT !.repseq = @ + 1, !.own = own]
  OBVIOUS
<1>14. PICK n \in Nat : n = s.d.repseq + 1
  BY <1>1 DEF Drivers
<1>15. d = [s.d EXCEPT !.repseq = n, !.own = own]
  BY <1>4, <1>14
<1>5. /\ d \in Drivers /\ d.reqs = s.d.reqs /\ d.pending = s.d.pending
      /\ d.processing = s.d.processing /\ d.reqno = s.d.reqno /\ d.reqfrm = s.d.reqfrm
  BY <1>1, <1>15 DEF Drivers
<1>6. PICK got : got = [s EXCEPT !.d = d]
  OBVIOUS
<1>7. got \in States /\ got.d = d /\ got.c = s.c
  BY <1>1, <1>5, <1>6 DEF States
<1>8. HandlerInv(got)
  BY <1>5, <1>7, SameQueue
<1>9. got = [s EXCEPT !.d.repseq = @ + 1, !.d.own = own]
  BY <1>1, <1>4, <1>6 DEF States, Drivers
<1>10. PICK c, val : c = Head(s.d.reqs) /\ val = IF own THEN "own" ELSE "foreign"
  OBVIOUS
<1>11. DataFrame(s, f) = IF f.seq + 1 = f.len
                         THEN EndPending(RequestComplete(PopReq(ClearTO(got)), c, "ack", val))
                         ELSE SetTO(got)
  <2> DEFINE mine == s.d.own /\ f.tag = s.d.reqfrm.tag
             all == [s EXCEPT !.d.repseq = @ + 1, !.d.own = mine]
  <2>1. DataFrame(s, f) = IF f.seq + 1 = f.len
                          THEN EndPending(RequestComplete(PopReq(ClearTO(all)),
                                 Head(s.d.reqs), "ack", IF mine THEN "own" ELSE "foreign"))
                          ELSE SetTO(all)
    BY DEF DataFrame
  <2>2. mine = own
    BY <1>3
  <2> HIDE DEF mine
  <2>3. all = got
    BY <1>9, <2>2
  <2>4. val = IF mine THEN "own" ELSE "foreign"
    BY <1>10, <2>2
  <2> HIDE DEF all
  <2> QED
    BY <1>10, <2>1, <2>3, <2>4
<1>12. CASE f.seq + 1 = f.len
  <2>1. PICK t : t = ClearTO(got)
    OBVIOUS
  <2>2. HandlerInv(t) /\ t.d.reqs = s.d.reqs /\ t.d.pending
    BY <1>5, <1>7, <1>8, <2>1, Timers, TimersKeep
  <2>3. "ack" \in Results /\ val \in Data
    BY <1>10 DEF Results, Data
  <2>4. PICK u : u = RequestComplete(PopReq(t), c, "ack", val)
    OBVIOUS
  <2>5. QueueInv(u, {}) /\ Unsent(u)
    BY <1>10, <2>2, <2>3, <2>4, Completes
  <2> QED
    BY <1>11, <1>12, <2>1, <2>4, <2>5, Ends
<1>13. CASE f.seq + 1 # f.len
  BY <1>8, <1>11, <1>13, TimersKeep
<1> QED
  BY <1>12, <1>13

\* Any frame.
LEMMA ProcessFrameKeeps ==
  ASSUME NEW s, NEW f, HandlerInv(s)
  PROVE  HandlerInv(ProcessFrame(s, f))
<1>1. s \in States
  BY SMTT(40) DEF HandlerInv, QueueInv
<1>2. HandlerInv(DropAll(s))
  BY AdapterKeeps
<1>3. HandlerInv(InitAnswered(s))
  <2>1. PICK t : t = ClearTO(s)
    OBVIOUS
  <2>2. HandlerInv(t)
    BY <2>1, TimersKeep
  <2>3. PICK u : u = [t EXCEPT !.d.slcan = "operate"]
    BY ZenonT(40)
  <2>4. HandlerInv(u)
    BY <2>2, <2>3, AdapterKeeps
  <2>5. HandlerInv(DropAll(u))
    BY <2>4, AdapterKeeps
  <2> QED
    BY <2>1, <2>3, <2>5 DEF InitAnswered
<1>4. s.d.pending => HandlerInv(ErrorFrame(s, f)) /\ HandlerInv(DataFrame(s, f))
  BY ErrorFrameKeeps, DataFrameKeeps
<1>5. \/ ProcessFrame(s, f) \in {s, InitAnswered(s), DropAll(s)}
      \/ /\ s.d.pending
         /\ ProcessFrame(s, f) \in {ErrorFrame(s, f), DataFrame(s, f)}
  BY DEF ProcessFrame
<1> QED
  BY <1>2, <1>3, <1>4, <1>5

-----------------------------------------------------------------------------
(* The input: the frames of a read, one after the other. *)

Frames == [kind : {"id", "data", "noise", "nack", "err"}, id : (Nat \X Nat) \cup {<<>>},
           seq : Nat, len : Nat, tag : Int]

Input == INSTANCE Lemmas WITH Op <- ProcessFrame

\* Whatever is read.
LEMMA InputKeeps ==
  ASSUME NEW s, HandlerInv(s), line \in Seq(Frames)
  PROVE  HandlerInv(ProtocolInput(s))
<1> DEFINE U == {t \in States : HandlerInv(t)}
           V == [k \in 0..Len(line) |-> U]
<1>0. Len(line) \in Nat /\ \A k \in 0..Len(line) : V[k] = U
  OBVIOUS
<1>1. s \in U
  BY DEF HandlerInv, QueueInv
<1>2. \A t \in U : \A f : ProcessFrame(t, f) \in U
  <2>1. \A t \in U : \A f : HandlerInv(ProcessFrame(t, f))
    BY ProcessFrameKeeps
  <2>2. \A t : HandlerInv(t) => t \in U
    BY DEF HandlerInv, QueueInv
  <2> QED
    BY <2>1, <2>2
<1>3. Input!FoldLeft(ProcessFrame, s, line) \in U
  <2>1. /\ s \in V[0]
        /\ \A k \in 1..Len(line) : \A t \in V[k - 1] : ProcessFrame(t, line[k]) \in V[k]
    <3> HIDE DEF U, V, ProcessFrame
    <3>1. 0 \in 0..Len(line) /\ \A k \in 1..Len(line) : k \in 0..Len(line) /\ k - 1 \in 0..Len(line)
      BY <1>0
    <3> QED
      BY <1>0, <1>1, <1>2, <3>1
  <2>2. Input!FoldLeft(ProcessFrame, s, line) \in V[Len(line)]
    <3> HIDE DEF U, V, ProcessFrame
    <3> QED
      BY <2>1, Input!FoldInduction
  <2> QED
    BY <1>0, <2>2
<1>4. Input!FoldLeft(ProcessFrame, s, line) = FoldLeft(ProcessFrame, s, line)
  BY DEF FoldLeft, Input!FoldLeft, MapThenFoldSet, Input!MapThenFoldSet, Max, Input!Max
<1>5. HandlerInv(FoldLeft(ProcessFrame, s, line))
  BY <1>3, <1>4
<1> QED
  BY <1>5 DEF ProtocolInput

\* The request under way is given up, or the init string sent again.
LEMMA TimeoutKeeps ==
  ASSUME NEW s, HandlerInv(s)
  PROVE  HandlerInv(ProtocolTimeout(s))
<1>1. PICK t, c : t = ClearTO(s) /\ c = Head(t.d.reqs)
  OBVIOUS
<1>2. HandlerInv(t)
  BY <1>1, TimersKeep
<1>3. ProtocolTimeout(s) =
        IF t.d.pending THEN EndPending(RequestComplete(PopReq(t), c, "noack", "zero"))
        ELSE IF t.d.slcan = "init" THEN SetTO([t EXCEPT !.d.slcan = "init_retry"])
        ELSE IF t.d.slcan = "init_retry" THEN IssueInit(t)
        ELSE t
  BY <1>1 DEF ProtocolTimeout
<1>4. ASSUME t.d.pending
      PROVE  HandlerInv(EndPending(RequestComplete(PopReq(t), c, "noack", "zero")))
  <2>1. PICK u : u = RequestComplete(PopReq(t), c, "noack", "zero")
    OBVIOUS
  <2>2. "noack" \in Results /\ "zero" \in Data
    BY DEF Results, Data
  <2>3. QueueInv(u, {}) /\ Unsent(u)
    BY <1>1, <1>2, <1>4, <2>1, <2>2, Completes
  <2> QED
    BY <2>1, <2>3, Ends
<1>5. HandlerInv(SetTO([t EXCEPT !.d.slcan = "init_retry"]))
  <2>1. PICK u : u = [t EXCEPT !.d.slcan = "init_retry"]
    OBVIOUS
  <2>2. HandlerInv(u)
    BY <1>2, <2>1, AdapterKeeps
  <2> QED
    BY <2>1, <2>2, TimersKeep
<1>6. HandlerInv(IssueInit(t))
  <2>1. PICK u : u = [t EXCEPT !.d.slcan = "init", !.d.inits = @ + 1]
    BY SMTT(40)
  <2>2. HandlerInv(u)
    BY <1>2, <2>1, AdapterKeeps
  <2>3. IssueInit(t) = SetTO(u)
    BY <2>1 DEF IssueInit
  <2> QED
    BY <2>2, <2>3, TimersKeep
<1> QED
  BY <1>2, <1>3, <1>4, <1>5, <1>6

-----------------------------------------------------------------------------
(* The specification *)

SInv ==
  /\ HandlerInv(Start(0, FALSE))
  /\ adapter \in {"closed", "opening", "open"} /\ pulses \in 0..1
  /\ line \in Seq(Frames)

\* A handler starts with what the one before it left.
LEMMA Starts ==
  ASSUME SInv, NEW bad \in Nat, NEW expired \in BOOLEAN
  PROVE  HandlerInv(Start(bad, expired))
<1>1. PICK s : s = Start(0, FALSE)
  OBVIOUS
<1>2. PICK t : t = Start(bad, expired)
  OBVIOUS
<1>3. HandlerInv(s)
  BY <1>1 DEF SInv
<1>4. s \in States
  BY <1>3 DEF HandlerInv, QueueInv
<1>5. drv \in Drivers /\ clt \in [Clients -> Messages] /\ bus \in SUBSET Slots
  BY <1>1, <1>4 DEF States, Start
<1>6. t \in States /\ t.d = drv /\ t.c = clt /\ s.d = drv /\ s.c = clt
  BY <1>1, <1>2, <1>5 DEF States, Start
<1> QED
  BY <1>2, <1>3, <1>6, SameQueue

\* It leaves the memory and the boards to the next one.
LEMMA Finishes ==
  ASSUME NEW s, HandlerInv(s), Finish(s), adapter \in {"closed", "opening", "open"}
  PROVE  HandlerInv(Start(0, FALSE))' /\ adapter' \in {"closed", "opening", "open"}
<1>1. s \in States /\ s.d \in Drivers /\ s.c \in [Clients -> Messages] /\ s.b \in SUBSET Slots
  BY DEF HandlerInv, QueueInv, States
<1>2. drv' = s.d /\ clt' = s.c /\ bus' \in SUBSET Slots
  BY <1>1 DEF Finish
<1>3. adapter' \in {"closed", "opening", "open"}
  BY DEF Finish
<1>4. PICK t : t = [d |-> drv', c |-> clt', b |-> bus', bad |-> 0, drop |-> FALSE,
                    expired |-> FALSE]
  OBVIOUS
<1>5. t \in States /\ t.d = s.d /\ t.c = s.c
  BY <1>1, <1>2, <1>4 DEF States
<1>6. HandlerInv(t)
  BY <1>5, SameQueue
<1>7. Start(0, FALSE)' = t
  BY <1>4 DEF Start
<1> QED
  BY <1>3, <1>6, <1>7

\* Nothing of the driver changes.
LEMMA Stands ==
  ASSUME HandlerInv(Start(0, FALSE)), drv' = drv, clt' = clt, bus' \in SUBSET Slots
  PROVE  HandlerInv(Start(0, FALSE))'
<1>1. PICK s : s = Start(0, FALSE)
  OBVIOUS
<1>2. HandlerInv(s) /\ s \in States
  BY <1>1 DEF HandlerInv, QueueInv
<1>3. drv \in Drivers /\ clt \in [Clients -> Messages] /\ s.d = drv /\ s.c = clt
  BY <1>1, <1>2 DEF States, Start
<1>4. PICK t : t = [d |-> drv', c |-> clt', b |-> bus', bad |-> 0, drop |-> FALSE,
                    expired |-> FALSE]
  OBVIOUS
<1>5. t \in States /\ t.d = s.d /\ t.c = s.c
  BY <1>3, <1>4 DEF States
<1>6. HandlerInv(t)
  BY <1>2, <1>5, SameQueue
<1>7. Start(0, FALSE)' = t
  BY <1>4 DEF Start
<1> QED
  BY <1>6, <1>7

\* At first the queue is empty.
LEMMA InitHolds == Init => SInv
<1>1. SUFFICES ASSUME Init PROVE SInv
  OBVIOUS
<1>2. PICK m : m = [todo |-> <<>>, seq |-> 0, status |-> "none", vals |-> <<>>,
                    asked |-> 0, answered |-> 0, parts |-> 0,
                    answer |-> [status |-> "none", vals |-> <<>>]]
  OBVIOUS
<1>3. m \in Messages /\ m.asked = 0 /\ m.answered = 0 /\ m.seq = 0
  <2>1. <<>> \in Seq(Parts \cup {Syntax, Stray}) /\ <<>> \in Vals /\ "none" \in Status
    BY DEF Vals, Status
  <2>2. PICK a \in Answers : a = [status |-> "none", vals |-> <<>>]
    BY <2>1 DEF Answers
  <2>3. m = [todo |-> <<>>, seq |-> 0, status |-> "none", vals |-> <<>>,
             asked |-> 0, answered |-> 0, parts |-> 0, answer |-> a]
    BY <1>2, <2>2
  <2> QED
    BY <2>1, <2>3 DEF Messages
<1>4. clt = [c \in Clients |-> m]
  BY <1>1, <1>2 DEF Init
<1>5. drv \in Drivers /\ drv.reqs = <<>> /\ ~drv.pending
  <2>1. NoFrame \in ReqFrames
    BY DEF NoFrame, ReqFrames
  <2> QED
    BY <1>1, <2>1 DEF Init, Drivers
<1>6. bus \in SUBSET Slots
  BY <1>1 DEF Init
<1>7. PICK s : s = Start(0, FALSE)
  OBVIOUS
<1>8. s \in States /\ s.d = drv /\ s.c = clt
  BY <1>3, <1>4, <1>5, <1>6, <1>7 DEF Start, States
<1>9. Queued(s) = {} /\ \A c \in Clients : s.c[c].asked = s.c[c].answered
  BY <1>3, <1>4, <1>8 DEF Queued, Waits
<1>10. QueueInv(s, {})
  BY <1>5, <1>8, <1>9 DEF QueueInv, IsInjective, ToSet
<1>11. SentInv(s)
  BY <1>5, <1>8 DEF SentInv
<1>12. HandlerInv(s)
  BY <1>10, <1>11 DEF HandlerInv
<1>13. adapter \in {"closed", "opening", "open"} /\ pulses \in 0..1 /\ line \in Seq(Frames)
  BY <1>1 DEF Init
<1> QED
  BY <1>7, <1>12, <1>13 DEF SInv

\* A client's request comes to the handler.
LEMMA Asks ==
  ASSUME SInv, NEW c \in Clients, NEW req \in Requests, Ask(c, req)
  PROVE  \E u \in States :
           /\ QueueInv(u, {c}) /\ SentInv(u) /\ c \in Waits(u) /\ Finish(NextPart(u, c))
           /\ u.d = drv /\ u.b = bus /\ \A e \in Clients \ {c} : u.c[e] = clt[e]
           /\ u.c[c].asked = clt[c].asked + 1 /\ u.c[c].answered = clt[c].answered
           /\ u.c[c].answer = clt[c].answer /\ u.c[c].parts = Len(req)
           /\ u.c[c].todo = req /\ u.c[c].status = "ack" /\ u.c[c].vals = <<>>
<1>1. PICK bad \in Nat :
        Finish(NextPart([Start(bad, FALSE) EXCEPT
                !.c[c].asked = @ + 1, !.c[c].todo = req, !.c[c].parts = Len(req),
                !.c[c].status = "ack", !.c[c].vals = <<>>], c))
  <2> DEFINE asks(bad) == [Start(bad, FALSE) EXCEPT
                !.c[c].asked = @ + 1, !.c[c].todo = req, !.c[c].parts = Len(req),
                !.c[c].status = "ack", !.c[c].vals = <<>>]
  <2>1. \E bad \in BadWrites : Finish(NextPart(asks(bad), c))
    BY DEF Ask
  <2> HIDE DEF asks
  <2>2. \E bad \in Nat : Finish(NextPart(asks(bad), c))
    <3> HIDE DEF Finish, NextPart
    <3> QED
      BY <2>1, SubbusCANAssumption DEF SubbusCANAssumption
  <2> QED
    BY <2>2 DEF asks
<1>2. PICK s : s = Start(bad, FALSE)
  OBVIOUS
<1>3. HandlerInv(s)
  BY <1>2, Starts
<1>4. /\ s \in States /\ s.d \in Drivers /\ s.c \in [Clients -> Messages]
      /\ s.c[c] \in Messages /\ ToSet(s.d.reqs) = Queued(s) /\ IsInjective(s.d.reqs)
      /\ s.d.reqs \in Seq(Clients)
  BY <1>3 DEF HandlerInv, QueueInv, States, Drivers
<1>5. s.c[c].asked = s.c[c].answered
  BY <1>2 DEF Ask, Start
<1>6. req \in Seq(Parts \cup {Syntax, Stray}) /\ Len(req) \in Nat
  BY SubbusCANAssumption DEF SubbusCANAssumption
<1>7. PICK n, k \in Nat : n = s.c[c].asked + 1 /\ k = Len(req)
  BY <1>4, <1>6 DEF Messages
<1>8. PICK m : m = [s.c[c] EXCEPT !.asked = n, !.todo = req, !.parts = k,
                                  !.status = "ack", !.vals = <<>>]
  OBVIOUS
<1>9. /\ m \in Messages /\ m.asked = s.c[c].asked + 1 /\ m.answered = s.c[c].answered
      /\ m.todo = req /\ m.parts = Len(req) /\ m.status = "ack" /\ m.vals = <<>>
      /\ m.answer = s.c[c].answer
  <2>1. "ack" \in Status /\ <<>> \in Vals
    BY DEF Status, Vals
  <2>2. /\ m \in Messages /\ m.asked = n /\ m.answered = s.c[c].answered
        /\ m.todo = req /\ m.parts = k /\ m.status = "ack" /\ m.vals = <<>>
        /\ m.answer = s.c[c].answer
    BY <1>4, <1>6, <1>7, <1>8, <2>1 DEF Messages
  <2> QED
    BY <1>7, <2>2
<1>10. PICK f : f = [s.c EXCEPT ![c] = m]
  OBVIOUS
<1>11. f \in [Clients -> Messages] /\ f[c] = m /\ \A e \in Clients \ {c} : f[e] = s.c[e]
  BY <1>4, <1>9, <1>10
<1>12. PICK u : u = [s EXCEPT !.c = f]
  OBVIOUS
<1>13. u \in States /\ u.d = s.d /\ u.c = f /\ u.b = s.b
  BY <1>4, <1>11, <1>12 DEF States
<1>14. Queued(u) \ {c} = Queued(s) /\ c \in Waits(u) /\ c \notin Queued(s)
  <2>1. m.asked > m.answered /\ ~(s.c[c].asked > s.c[c].answered)
    BY <1>4, <1>5, <1>9 DEF Messages
  <2> QED
    BY <1>11, <1>13, <2>1 DEF Queued, Waits
<1>15. QueueInv(u, {c})
  <2>1. \A e \in Clients : u.c[e].asked \in {u.c[e].answered, u.c[e].answered + 1}
    BY <1>3, <1>5, <1>9, <1>11, <1>13 DEF HandlerInv, QueueInv
  <2>2. \A e \in Queued(u) \ {c} : Ready(u.c[e])
    BY <1>3, <1>11, <1>13, <1>14 DEF HandlerInv, QueueInv, Queued, Waits
  <2>3. ToSet(u.d.reqs) = Queued(u) \ {c}
    BY <1>4, <1>13, <1>14
  <2> QED
    BY <1>4, <1>13, <2>1, <2>2, <2>3 DEF QueueInv
<1>16. SentInv(u)
  <2>1. \A i \in DOMAIN s.d.reqs : s.d.reqs[i] \in Clients \ {c}
    BY <1>4, <1>14 DEF ToSet
  <2>2. \A i \in DOMAIN s.d.reqs : u.c[u.d.reqs[i]] = s.c[s.d.reqs[i]]
    BY <1>11, <1>13, <2>1
  <2>3. s.d.reqs # <<>> => u.c[Head(u.d.reqs)] = s.c[Head(s.d.reqs)]
    BY <1>4, <1>13, <2>2
  <2>4. SentInv(s)
    BY <1>3 DEF HandlerInv
  <2> QED
    BY <1>13, <2>2, <2>3, <2>4 DEF SentInv
<1>17. u = [Start(bad, FALSE) EXCEPT
             !.c[c].asked = @ + 1, !.c[c].todo = req, !.c[c].parts = Len(req),
             !.c[c].status = "ack", !.c[c].vals = <<>>]
  <2>1. u = [s EXCEPT !.c[c].asked = @ + 1, !.c[c].todo = req, !.c[c].parts = Len(req),
                      !.c[c].status = "ack", !.c[c].vals = <<>>]
    <3>1. m = [s.c[c] EXCEPT !.asked = @ + 1, !.todo = req, !.parts = Len(req),
                             !.status = "ack", !.vals = <<>>]
      BY <1>7, <1>8
    <3> HIDE DEF Messages
    <3> QED
      BY ZenonT(40), <1>4, <1>10, <1>12, <3>1 DEF States
  <2> QED
    BY <1>2, <2>1
<1>18. Finish(NextPart(u, c))
  BY <1>1, <1>17
<1>19. c \in Waits(u)
  BY <1>14
<1>20. s.d = drv /\ s.c = clt /\ s.b = bus
  BY <1>2 DEF Start
<1> HIDE DEF NextPart, Finish
<1> QED
  BY <1>9, <1>11, <1>13, <1>15, <1>16, <1>18, <1>19, <1>20

\* A client's request is queued.
LEMMA AskKeeps ==
  ASSUME SInv, NEW c \in Clients, NEW req \in Requests, Ask(c, req)
  PROVE  SInv'
<1>1. PICK u \in States :
        QueueInv(u, {c}) /\ SentInv(u) /\ c \in Waits(u) /\ Finish(NextPart(u, c))
  BY Asks
<1>2. PICK t : t = NextPart(u, c)
  OBVIOUS
<1>3. HandlerInv(t)
  BY <1>1, <1>2, NextPartKeeps
<1>4. HandlerInv(Start(0, FALSE))' /\ adapter' \in {"closed", "opening", "open"}
  BY <1>1, <1>2, <1>3, Finishes DEF SInv
<1>5. pulses' \in 0..1 /\ line' \in Seq(Frames)
  BY DEF Ask, SInv
<1> QED
  BY ZenonT(40), <1>4, <1>5 DEF SInv

\* What the adapter and the boards send is read.
LEMMA ReadKeeps ==
  ASSUME SInv, DataReady \/ TimerPulse
  PROVE  SInv'
<1>1. PICK bad \in Nat, expired \in BOOLEAN :
        LET read == ProtocolInput(Start(bad, expired))
        IN Finish(read) \/ Finish(ProtocolTimeout(read))
  BY SubbusCANAssumption DEF DataReady, TimerPulse, SubbusCANAssumption
<1>2. PICK s : s = Start(bad, expired)
  OBVIOUS
<1>3. PICK r : r = ProtocolInput(s)
  OBVIOUS
<1>4. HandlerInv(r)
  <2>1. HandlerInv(s)
    BY <1>2, Starts
  <2> QED
    BY <1>3, <2>1, InputKeeps DEF SInv
<1>5. PICK t : t \in {r, ProtocolTimeout(r)} /\ Finish(t)
  BY <1>1, <1>2, <1>3
<1>6. HandlerInv(t)
  BY <1>4, <1>5, TimeoutKeeps
<1>7. HandlerInv(Start(0, FALSE))' /\ adapter' \in {"closed", "opening", "open"}
  BY <1>5, <1>6, Finishes DEF SInv
<1>8. pulses' \in 0..1 /\ line' \in Seq(Frames)
  <2>1. line' = <<>>
    BY DEF DataReady, TimerPulse
  <2>2. pulses' = pulses \/ (pulses > 0 /\ pulses' = pulses - 1)
    BY DEF DataReady, TimerPulse
  <2>3. pulses \in 0..1
    BY DEF SInv
  <2>4. pulses' \in 0..1
    BY <2>2, <2>3
  <2> QED
    BY <2>1, <2>4
<1> QED
  BY <1>7, <1>8 DEF SInv

\* The adapter and the boards send something.
LEMMA BoardsKeep ==
  ASSUME SInv, AdapterOpens \/ AdapterIgnores \/ \E r \in bus : BoardSends(r)
  PROVE  SInv'
<1>1. bus \in SUBSET Slots
  <2>1. PICK s : s = Start(0, FALSE)
    OBVIOUS
  <2>2. s \in States
    BY <2>1 DEF SInv, HandlerInv, QueueInv
  <2> QED
    BY <2>1, <2>2 DEF States, Start
<1>2. \A f \in Frames : Append(line, f) \in Seq(Frames)
  BY DEF SInv
<1>3. \A k \in {"id", "noise", "nack", "err"} : \A id \in (Nat \X Nat) \cup {<<>>} :
        \A tag \in Int : Bare(k, id, tag) \in Frames
  BY DEF Bare, Frames
<1>4. CASE AdapterOpens
  <2>1. Append(line, Bare("id", <<>>, -1)) \in Seq(Frames)
    <3>1. PICK f \in Frames : f = Bare("id", <<>>, -1)
      BY <1>3
    <3> QED
      BY <1>2, <3>1
  <2>2. line' \in Seq(Frames) /\ adapter' = "open" /\ pulses' \in 0..1
        /\ drv' = drv /\ clt' = clt /\ bus' \in SUBSET Slots
    BY <1>1, <1>4, <2>1 DEF AdapterOpens, SInv
  <2>3. HandlerInv(Start(0, FALSE))'
    BY <2>2, Stands DEF SInv
  <2> QED
    BY <2>2, <2>3 DEF SInv
<1>5. CASE AdapterIgnores
  <2>1. line' \in Seq(Frames) /\ adapter' = "closed" /\ pulses' \in 0..1
        /\ drv' = drv /\ clt' = clt /\ bus' \in SUBSET Slots
    BY <1>5 DEF AdapterIgnores, SInv
  <2>2. HandlerInv(Start(0, FALSE))'
    BY <2>1, Stands DEF SInv
  <2> QED
    BY <2>1, <2>2 DEF SInv
<1>6. CASE \E r \in bus : BoardSends(r)
  <2>1. PICK r \in bus : BoardSends(r)
    BY <1>6
  <2>2. r \in Slots /\ r.tag \in Nat /\ r.id \in Nat \X Nat /\ r.next \in Nat /\ r.len \in Nat
    BY <1>1 DEF Slots
  <2>3. bus' \in SUBSET Slots
    <3>1. [r EXCEPT !.next = @ + 1] \in Slots
      <4>1. PICK n \in Nat : n = r.next + 1
        BY <2>2
      <4>2. [r EXCEPT !.next = n] \in Slots
        BY <2>2 DEF Slots
      <4> QED
        BY <4>1, <4>2
    <3> QED
      BY <1>1, <2>1, <3>1 DEF BoardSends
  <2>4. line' \in Seq(Frames)
    <3>1. PICK f : f = [kind |-> "data", id |-> r.id, seq |-> r.next, len |-> r.len,
                        tag |-> r.tag]
      OBVIOUS
    <3>2. f \in Frames
      BY <2>2, <3>1 DEF Frames
    <3>3. PICK nz : nz = Bare("noise", <<>>, -1)
      OBVIOUS
    <3>4. nz \in Frames
      BY <1>3, <3>3
    <3>5. ASSUME NEW k \in {"nack", "err"} PROVE Append(line, Bare(k, r.id, r.tag)) \in Seq(Frames)
      <4>1. PICK g : g = Bare(k, r.id, r.tag)
        OBVIOUS
      <4>2. g \in Frames
        BY <1>3, <2>2, <4>1
      <4> QED
        BY <1>2, <4>1, <4>2
    <3>6. Append(line, f) \in Seq(Frames) /\ Append(line, nz) \in Seq(Frames)
          /\ line \in Seq(Frames)
      BY <1>2, <3>2, <3>4 DEF SInv
    <3> QED
      BY <2>1, <3>1, <3>3, <3>5, <3>6 DEF BoardSends
  <2>5. adapter' = adapter /\ pulses' = pulses /\ drv' = drv /\ clt' = clt
    BY <2>1 DEF BoardSends
  <2>6. HandlerInv(Start(0, FALSE))'
    BY <2>3, <2>5, Stands DEF SInv
  <2> QED
    BY <2>4, <2>5, <2>6 DEF SInv
<1> QED
  BY <1>4, <1>5, <1>6

\* SInv is inductive.
LEMMA NextKeeps == SInv /\ [Next]_vars => SInv'
<1>1. SUFFICES ASSUME SInv, [Next]_vars PROVE SInv'
  OBVIOUS
<1>2. bus \in SUBSET Slots
  <2>1. PICK s : s = Start(0, FALSE)
    OBVIOUS
  <2>2. s \in States
    BY <1>1, <2>1 DEF SInv, HandlerInv, QueueInv
  <2> QED
    BY <2>1, <2>2 DEF States, Start
<1>3. CASE \E c \in Clients, req \in Requests : Ask(c, req)
  BY <1>1, <1>3, AskKeeps
<1>4. CASE DataReady \/ TimerPulse
  BY <1>1, <1>4, ReadKeeps
<1>5. CASE AdapterOpens \/ AdapterIgnores \/ \E r \in bus : BoardSends(r)
  BY <1>1, <1>5, BoardsKeep
<1>6. CASE TimerFires
  <2>1. HandlerInv(Start(0, FALSE))'
    BY <1>1, <1>2, <1>6, Stands DEF TimerFires, SInv
  <2>2. adapter' = adapter /\ pulses' \in 0..1 /\ line' = line
    BY <1>6 DEF TimerFires
  <2> QED
    BY <1>1, <2>1, <2>2 DEF SInv
<1>7. CASE UNCHANGED vars
  <2>1. HandlerInv(Start(0, FALSE))'
    BY <1>1, <1>2, <1>7, Stands DEF vars, SInv
  <2> QED
    BY <1>1, <1>7, <2>1 DEF SInv, vars
<1> QED
  BY <1>1, <1>3, <1>4, <1>5, <1>6, <1>7 DEF Next

\* What the invariant says of the variables.
LEMMA InvImplies == SInv => WaitingAreQueued /\ PendingIsFront
<1>1. SUFFICES ASSUME SInv PROVE WaitingAreQueued /\ PendingIsFront
  OBVIOUS
<1>2. PICK s : s = Start(0, FALSE)
  OBVIOUS
<1>3. QueueInv(s, {}) /\ SentInv(s)
  BY <1>1, <1>2 DEF SInv, HandlerInv
<1>4. /\ s \in States /\ s.d = drv /\ s.c = clt /\ drv \in Drivers
      /\ clt \in [Clients -> Messages]
  <2>1. s \in States
    BY <1>3 DEF QueueInv
  <2> QED
    BY <1>2, <2>1 DEF States, Start
<1>5. WaitingAreQueued
  BY <1>3, <1>4 DEF QueueInv, Queued, Waits, WaitingAreQueued
<1>6. TypeOK
  <2>1. \A c \in Clients : clt[c].answered \in 0..clt[c].asked
    <3>1. SUFFICES ASSUME NEW c \in Clients PROVE clt[c].answered \in 0..clt[c].asked
      OBVIOUS
    <3>2. clt[c] \in Messages /\ clt[c].asked \in {clt[c].answered, clt[c].answered + 1}
      BY <1>3, <1>4 DEF QueueInv
    <3> QED
      BY <3>2 DEF Messages
  <2>2. \A i \in DOMAIN line : line[i].kind \in {"id", "data", "noise", "nack", "err"}
    <3>1. \A i \in DOMAIN line : line[i] \in Frames
      BY <1>1 DEF SInv
    <3> QED
      BY <3>1 DEF Frames
  <2>3. /\ drv.slcan \in {"init", "init_retry", "operate"}
        /\ drv.pending \in BOOLEAN /\ drv.processing \in BOOLEAN
        /\ drv.own \in BOOLEAN /\ drv.early \in BOOLEAN
        /\ drv.reqs \in Seq(Clients) /\ drv.timer \in {"on", "off"}
        /\ {drv.reqno, drv.repseq, drv.inits} \subseteq Nat
    BY <1>4 DEF Drivers
  <2> QED
    BY <1>1, <2>1, <2>2, <2>3 DEF TypeOK, SInv
<1>7. PendingIsFront
  BY <1>3, <1>4, <1>6 DEF SentInv, PendingIsFront
<1> QED
  BY <1>5, <1>7

\* At all times, the clients that wait for a reply are those in the queue of
\* can_request's, each of them once.
THEOREM WaitingQueued == Spec => []WaitingAreQueued
<1>1. SInv => WaitingAreQueued
  BY InvImplies
<1> QED
  BY <1>1, InitHolds, NextKeeps, PTL DEF Spec

\* At all times, the request under way is the first of the queue, with all its
\* frames sent under the number that the interface expects in the reply.
THEOREM PendingFront == Spec => []PendingIsFront
<1>1. SInv => PendingIsFront
  BY InvImplies
<1> QED
  BY <1>1, InitHolds, NextKeeps, PTL DEF Spec
-----------------------------------------------------------------------------
(* What the clients are told: the service. *)

Own == {"own", "zero"}

\* What a client that waits has got so far, and what is left of its request.
Serving(m) ==
  /\ m.vals \in Seq(Own) /\ m.status \in {"ack", "noack"}
  /\ m.parts \in 0..MaxParts /\ Len(m.vals) + Len(m.todo) = m.parts

\* A frame on the bus carries the number of its request, which was sent.
Numbered(r, n) == r.tag < n /\ r.id[2] = r.tag % ReqIds

\* Between two frames: the frames of the request under way are its own.
ServeInv(s) ==
  /\ \A c \in Waits(s) : Serving(s.c[c])
  /\ s.d.own /\ (s.d.pending => s.d.reqfrm.tag = s.d.reqno - 1)
  /\ \A r \in s.b : Numbered(r, s.d.reqno)

Carries(f) == f.kind \in {"data", "nack", "err"}

\* What was received and not read yet
LineInv ==
  \A i \in DOMAIN line : Carries(line[i]) => line[i].tag \in Nat /\ Numbered(line[i], drv.reqno)

RInv == SInv /\ ServeInv(Start(0, FALSE)) /\ LineInv

\* A client neither asks nor is answered.
SameTalk(m, n) ==
  /\ m.asked = n.asked /\ m.answered = n.answered
  /\ m.parts = n.parts /\ m.answer = n.answer

Mute(s, t) == \A e \in Clients : SameTalk(t.c[e], s.c[e])

\* A client that waits gets its reply.
Tells(s, t, c) ==
  /\ t.c[c].asked = s.c[c].asked /\ t.c[c].parts = s.c[c].parts
  /\ t.c[c].answered = s.c[c].answered + 1
  /\ t.c[c].answer \in Service!Answers(s.c[c].parts)
  /\ \A e \in Clients \ {c} : SameTalk(t.c[e], s.c[e])

Talk(s, t) == Mute(s, t) \/ \E c \in Waits(s) : Tells(s, t, c)

\* The value of a reply is one of those the service gives.
LEMMA ErrorAnswer ==
  ASSUME NEW n \in Nat, NEW v \in Seq(Own), Len(v) <= n
  PROVE  [status |-> "error", vals |-> v] \in Service!Answers(n)
<1>1. Len(v) \in 0..n /\ v \in [1..Len(v) -> Own]
  OBVIOUS
<1>2. v \in UNION {[1..k -> {"own", "zero"}] : k \in 0..n}
  BY <1>1 DEF Own
<1> QED
  BY <1>2 DEF Service!Answers

\* It has a value for each part unless it is an error.
LEMMA FullAnswer ==
  ASSUME NEW n \in Nat, NEW v \in Seq(Own), Len(v) = n, NEW st \in {"ack", "noack"}
  PROVE  [status |-> st, vals |-> v] \in Service!Answers(n)
<1>1. v \in [1..n -> {"own", "zero"}]
  BY DEF Own
<1> QED
  BY <1>1 DEF Service!Answers

\* The lengths of what a client has got and of what is left.
LEMMA ServingSizes ==
  ASSUME NEW m \in Messages, Serving(m)
  PROVE  /\ m.todo \in Seq(Parts \cup {Syntax, Stray}) /\ m.vals \in Seq(Own)
         /\ m.parts \in Nat /\ m.parts <= MaxParts /\ m.status \in {"ack", "noack"}
         /\ Len(m.vals) <= m.parts /\ (m.todo = <<>> => Len(m.vals) = m.parts)
<1>1. /\ m.todo \in Seq(Parts \cup {Syntax, Stray}) /\ m.vals \in Seq(Own)
      /\ m.parts \in 0..MaxParts /\ m.status \in {"ack", "noack"}
      /\ Len(m.vals) + Len(m.todo) = m.parts
  BY DEF Messages, Serving
<1>2. PICK a, b : a = Len(m.vals) /\ b = Len(m.todo)
  OBVIOUS
<1>3. a \in Nat /\ b \in Nat /\ (m.todo = <<>> => b = 0)
  BY <1>1, <1>2
<1>4. PICK n \in 0..MaxParts : n = m.parts /\ a + b = n
  BY <1>1, <1>2
<1>5. n \in Nat /\ n <= MaxParts /\ a <= n /\ (b = 0 => a = n)
  BY <1>3, <1>4, SubbusCANAssumption DEF SubbusCANAssumption
<1> QED
  BY <1>1, <1>2, <1>3, <1>4, <1>5

\* One part more.
LEMMA ServingPart ==
  ASSUME NEW m \in Messages, Serving(m), m.todo # <<>>, NEW n, NEW val \in Own,
         n.vals = Append(m.vals, val), n.todo = Tail(m.todo), n.parts = m.parts,
         n.status \in {"ack", "noack"}
  PROVE  Serving(n)
<1>1. /\ m.todo \in Seq(Parts \cup {Syntax, Stray}) /\ m.vals \in Seq(Own)
      /\ m.parts \in 0..MaxParts /\ Len(m.vals) + Len(m.todo) = m.parts
  BY DEF Messages, Serving
<1>2. PICK a, b : a = Len(m.vals) /\ b = Len(m.todo)
  OBVIOUS
<1>3. a \in Nat /\ b \in Nat
  BY <1>1, <1>2
<1>4. Append(m.vals, val) \in Seq(Own) /\ Len(Append(m.vals, val)) = a + 1
  BY <1>1, <1>2
<1>5. Len(Tail(m.todo)) = b - 1
  BY <1>1, <1>2
<1>6. (a + 1) + (b - 1) = m.parts
  <2>1. (a + 1) + (b - 1) = a + b
    BY <1>3
  <2> QED
    BY <1>1, <1>2, <2>1
<1> QED
  BY <1>1, <1>4, <1>5, <1>6 DEF Serving

\* What Reply tells.
LEMMA ReplyTells ==
  ASSUME NEW s, NEW c \in Clients, NEW st \in Status, QueueInv(s, {c}), c \in Waits(s),
         [status |-> st, vals |-> s.c[c].vals] \in Service!Answers(s.c[c].parts)
  PROVE  /\ Tells(s, Reply(s, c, st), c) /\ SameRest(s, Reply(s, c, st))
         /\ \A e \in Waits(Reply(s, c, st)) : e \in Waits(s) /\ Reply(s, c, st).c[e] = s.c[e]
<1>1. PICK t : t = Reply(s, c, st)
  OBVIOUS
<1>2. /\ t.d = s.d /\ t.b = s.b /\ t.expired = s.expired
      /\ \A e \in Clients \ {c} : t.c[e] = s.c[e]
      /\ t.c[c].asked = s.c[c].asked /\ t.c[c].answered = s.c[c].answered + 1
      /\ t.c[c].parts = s.c[c].parts
      /\ t.c[c].answer = [status |-> st, vals |-> s.c[c].vals]
  BY <1>1, Replies
<1>3. SameRest(s, t)
  BY <1>2 DEF SameRest
<1>4. Tells(s, t, c)
  BY <1>2 DEF Tells, SameTalk
<1>5. c \notin Waits(t)
  <2>1. s.c[c].asked = s.c[c].answered + 1 /\ s.c[c].answered \in Nat
    BY DEF QueueInv, Waits, States, Messages
  <2> QED
    BY <1>2, <2>1 DEF Waits
<1>6. \A e \in Waits(t) : e \in Waits(s) /\ t.c[e] = s.c[e]
  BY <1>2, <1>5 DEF Waits
<1> QED
  BY <1>1, <1>3, <1>4, <1>6

\* The next part is queued, or the client gets its reply or is forgotten.
LEMMA NextPartServes ==
  ASSUME NEW s, NEW c \in Clients, QueueInv(s, {c}), c \in Waits(s), Serving(s.c[c])
  PROVE  \/ /\ Tells(s, NextPart(s, c), c) /\ SameRest(s, NextPart(s, c))
            /\ \A e \in Waits(NextPart(s, c)) :
                 e \in Waits(s) /\ NextPart(s, c).c[e] = s.c[e]
         \/ NextPart(s, c) = ProcessRequests(Queues(s, c)) /\ Ready(s.c[c])
         \/ NextPart(s, c) = s
<1>1. /\ s.c[c].vals \in Seq(Own) /\ s.c[c].parts \in Nat
      /\ s.c[c].status \in {"ack", "noack"} /\ s.c[c].todo \in Seq(Parts \cup {Syntax, Stray})
      /\ Len(s.c[c].vals) <= s.c[c].parts
      /\ s.c[c].todo = <<>> => Len(s.c[c].vals) = s.c[c].parts
  <2>1. s.c[c] \in Messages
    BY DEF QueueInv, States
  <2> QED
    BY <2>1, ServingSizes
<1>2. CASE s.c[c].todo = <<>>
  <2>1. NextPart(s, c) = Reply(s, c, s.c[c].status)
    BY <1>2 DEF NextPart
  <2>2. Len(s.c[c].vals) = s.c[c].parts
    BY <1>1, <1>2
  <2>3. [status |-> s.c[c].status, vals |-> s.c[c].vals] \in Service!Answers(s.c[c].parts)
    BY <1>1, <2>2, FullAnswer
  <2>4. s.c[c].status \in Status
    BY <1>1 DEF Status
  <2> QED
    BY <2>1, <2>3, <2>4, ReplyTells
<1>3. CASE s.c[c].todo # <<>> /\ Head(s.c[c].todo) = Syntax
  <2>1. NextPart(s, c) = Reply(s, c, "error")
    BY <1>3 DEF NextPart
  <2>3. [status |-> "error", vals |-> s.c[c].vals] \in Service!Answers(s.c[c].parts)
    BY <1>1, ErrorAnswer
  <2>4. "error" \in Status
    BY DEF Status
  <2> QED
    BY <2>1, <2>3, <2>4, ReplyTells
<1>4. CASE s.c[c].todo # <<>> /\ Head(s.c[c].todo) \notin {Syntax, Stray}
  <2>1. NextPart(s, c) = ProcessRequests(Queues(s, c))
    BY <1>4 DEF NextPart, EnqueueRequest, Queues
  <2>2. Head(s.c[c].todo) \in Parts \cup {Syntax, Stray}
    BY <1>1, <1>4
  <2> QED
    BY <1>4, <2>1, <2>2 DEF Ready
<1>5. CASE Forgotten(s.c[c])
  BY <1>5, SubbusCANAssumption DEF NextPart, Forgotten, SubbusCANAssumption
<1> QED
  BY <1>2, <1>3, <1>4, <1>5 DEF Forgotten

\* The frames sent do not matter to that.
LEMMA SaidServing ==
  ASSUME NEW m, NEW n, SameSaid(m, n), Serving(n) PROVE Serving(m)
BY DEF Serving, SameSaid, SameCounts

AllServing(s) == \A e \in Waits(s) : Serving(s.c[e])

\* A part is done: the client gets its reply, or waits for the next part.
LEMMA CompleteServes ==
  ASSUME NEW s, NEW c \in Clients, NEW st \in Results, NEW val \in Own,
         QueueInv(s, {c}), Unsent(s), c \in Waits(s), Ready(s.c[c]), s.d.pending,
         AllServing(s)
  PROVE  /\ SameRest(s, RequestComplete(s, c, st, val))
         /\ AllServing(RequestComplete(s, c, st, val))
         /\ Talk(s, RequestComplete(s, c, st, val))
<1>1. /\ s.c[c] \in Messages /\ Serving(s.c[c]) /\ s \in States
      /\ st \in Status /\ val \in Data
  BY DEF QueueInv, States, AllServing, Status, Results, Own, Data
<1>4. s.c[c].vals \in Seq(Own) /\ s.c[c].parts \in Nat /\ Len(s.c[c].vals) <= s.c[c].parts
  BY <1>1, ServingSizes
<1>2. CASE st = "error" \/ ~Head(s.c[c].todo).fits
  <2>1. RequestComplete(s, c, st, val) = Reply(s, c, "error")
    BY <1>2 DEF RequestComplete
  <2>2. [status |-> "error", vals |-> s.c[c].vals] \in Service!Answers(s.c[c].parts)
    BY <1>4, ErrorAnswer
  <2>3. PICK t : t = Reply(s, c, "error")
    OBVIOUS
  <2>4. /\ Tells(s, t, c) /\ SameRest(s, t)
        /\ \A e \in Waits(t) : e \in Waits(s) /\ t.c[e] = s.c[e]
    BY <2>2, <2>3, ReplyTells DEF Status
  <2> QED
    BY <2>1, <2>3, <2>4 DEF AllServing, Talk
<1>3. CASE ~(st = "error" \/ ~Head(s.c[c].todo).fits)
  <2>1. RequestComplete(s, c, st, val) = NextPart(PartDone(s, c, st, val), c)
    BY <1>3 DEF RequestComplete, PartDone
  <2>2. PICK u : u = PartDone(s, c, st, val)
    OBVIOUS
  <2>3. QueueInv(u, {c}) /\ Unsent(u) /\ c \in Waits(u) /\ u.d = s.d
    BY <1>1, <2>2, PartDoneKeeps
  <2>4. /\ u.c[c].asked = s.c[c].asked /\ u.c[c].answered = s.c[c].answered
        /\ u.c[c].todo = Tail(s.c[c].todo) /\ u.c[c].status = st
        /\ u.c[c].vals = Append(s.c[c].vals, val)
        /\ u.c[c].parts = s.c[c].parts /\ u.c[c].answer = s.c[c].answer
        /\ u.b = s.b /\ u.expired = s.expired
        /\ \A e \in Clients \ {c} : u.c[e] = s.c[e]
    BY <1>1, <2>2, PartDoneType
  <2>5. SameRest(s, u) /\ Mute(s, u)
    BY <2>3, <2>4 DEF SameRest, Mute, SameTalk
  <2>6. Waits(u) = Waits(s)
    BY <2>4 DEF Waits
  <2>7. AllServing(u)
    <3>1. Serving(u.c[c])
      <4>1. s.c[c].todo # <<>> /\ st \in {"ack", "noack"}
        BY <1>3 DEF Ready, Results
      <4> QED
        BY <1>1, <2>4, <4>1, ServingPart
    <3> QED
      BY <2>4, <2>6, <3>1 DEF AllServing, Waits
  <2>8. PICK t : t = NextPart(u, c)
    OBVIOUS
  <2>9. Serving(u.c[c])
    BY <2>3, <2>7 DEF AllServing
  <2>10. CASE /\ Tells(u, t, c) /\ SameRest(u, t)
              /\ \A e \in Waits(t) : e \in Waits(u) /\ t.c[e] = u.c[e]
    <3>1. AllServing(t)
      BY <2>7, <2>10 DEF AllServing
    <3>2. SameRest(s, t)
      BY <2>5, <2>10 DEF SameRest
    <3>3. Tells(s, t, c)
      BY <2>5, <2>10 DEF Tells, Mute, SameTalk
    <3> QED
      BY <2>1, <2>2, <2>8, <3>1, <3>2, <3>3 DEF Talk
  <2>11. CASE t = ProcessRequests(Queues(u, c)) /\ Ready(u.c[c])
    <3>1. PICK q : q = Queues(u, c)
      OBVIOUS
    <3>2. SameRest(u, q) /\ \A e \in Clients : SameSaid(q.c[e], u.c[e])
      BY <2>3, <2>11, <3>1, QueuesKeeps
    <3>3. t = q
      <4>1. q.d.pending
        BY <2>3, <3>2 DEF SameRest
      <4> QED
        BY <2>11, <3>1, <4>1 DEF ProcessRequests
    <3>4. AllServing(q)
      <4>1. ASSUME NEW e \in Waits(q) PROVE Serving(q.c[e])
        <5>1. e \in Clients /\ SameSaid(q.c[e], u.c[e])
          BY <3>2 DEF Waits
        <5>2. e \in Waits(u)
          BY <4>1, <5>1 DEF Waits, SameSaid, SameCounts
        <5>3. Serving(u.c[e])
          BY <2>7, <5>2 DEF AllServing
        <5> QED
          BY <5>1, <5>3, SaidServing
      <4> QED
        BY <4>1 DEF AllServing
    <3>5. SameRest(s, q)
      BY <2>5, <3>2 DEF SameRest
    <3>6. Mute(s, q)
      BY <2>5, <3>2 DEF Mute, SameTalk, SameSaid, SameCounts
    <3> QED
      BY <2>1, <2>2, <2>8, <3>3, <3>4, <3>5, <3>6 DEF Talk
  <2>12. CASE t = u
    <3>1. Talk(s, u)
      BY <2>5 DEF Talk
    <3> QED
      BY <2>1, <2>2, <2>5, <2>7, <2>8, <2>12, <3>1
  <2> QED
    BY <2>3, <2>8, <2>9, <2>10, <2>11, <2>12, NextPartServes
<1> QED
  BY <1>2, <1>3

\* First the one, then the other.
LEMMA TalkAfterMute ==
  ASSUME NEW s, NEW t, NEW u, Mute(s, t), Talk(t, u) PROVE Talk(s, u)
<1>1. Waits(t) = Waits(s)
  BY DEF Mute, SameTalk, Waits
<1>2. CASE Mute(t, u)
  BY <1>2 DEF Mute, SameTalk, Talk
<1>3. ASSUME NEW c \in Waits(t), Tells(t, u, c) PROVE Tells(s, u, c)
  BY <1>3 DEF Mute, SameTalk, Tells, Waits
<1> QED
  BY <1>1, <1>2, <1>3 DEF Talk

\* First the other, then the one.
LEMMA MuteAfterTalk ==
  ASSUME NEW s, NEW t, NEW u, Talk(s, t), Mute(t, u) PROVE Talk(s, u)
<1>1. CASE Mute(s, t)
  BY <1>1 DEF Mute, SameTalk, Talk
<1>2. ASSUME NEW c \in Waits(s), Tells(s, t, c) PROVE Tells(s, u, c)
  BY <1>2 DEF Mute, SameTalk, Tells, Waits
<1> QED
  BY <1>1, <1>2 DEF Talk

\* The frames of a request that is sent carry its number.
LEMMA SentServes ==
  ASSUME NEW s \in States, NEW t \in States, Sent(s, t), AllServing(s), s.d.own,
         \A r \in s.b : Numbered(r, s.d.reqno)
  PROVE  ServeInv(t) /\ Mute(s, t) /\ t.d.reqno >= s.d.reqno
<1>1. s.d.reqno \in Nat /\ t.d.reqno \in Nat /\ \A r \in s.b : r.tag \in Nat
  BY DEF States, Drivers, Slots
<1>2. /\ t.d.pending => t.d.reqno = s.d.reqno + 1 /\ t.d.reqfrm.tag = s.d.reqno
      /\ ~t.d.pending => t.d.reqno = s.d.reqno
  BY DEF Sent
<1>3. AllServing(t)
  <2>1. ASSUME NEW e \in Waits(t) PROVE Serving(t.c[e])
    <3>1. e \in Clients /\ SameSaid(t.c[e], s.c[e])
      BY DEF Waits, Sent
    <3>2. e \in Waits(s)
      BY <2>1, <3>1 DEF Waits, SameSaid, SameCounts
    <3>3. Serving(s.c[e])
      BY <3>2 DEF AllServing
    <3> QED
      BY <3>1, <3>3, SaidServing
  <2> QED
    BY <2>1 DEF AllServing
<1>4. Mute(s, t)
  BY DEF Sent, SameSaid, SameCounts, Mute, SameTalk
<1>5. ASSUME NEW r \in t.b PROVE Numbered(r, t.d.reqno)
  <2>1. CASE r \in s.b
    <3>1. r.tag < s.d.reqno /\ r.id[2] = r.tag % ReqIds /\ r.tag \in Nat
      BY <1>1, <2>1 DEF Numbered
    <3>2. r.tag < t.d.reqno
      BY <1>1, <1>2, <3>1
    <3> QED
      BY <3>1, <3>2 DEF Numbered
  <2>2. CASE r \notin s.b
    <3>1. t.d.pending /\ r.tag = s.d.reqno /\ r.id[2] = s.d.reqno % ReqIds
      BY <2>2 DEF Sent
    <3>2. r.tag < t.d.reqno
      BY <1>1, <1>2, <3>1
    <3> QED
      BY <3>1, <3>2 DEF Numbered
  <2> QED
    BY <2>1, <2>2
<1>6. t.d.own /\ (t.d.pending => t.d.reqfrm.tag = t.d.reqno - 1)
  <2>1. t.d.own
    BY DEF Sent
  <2> QED
    BY <1>1, <1>2, <2>1
<1>7. t.d.reqno >= s.d.reqno
  BY <1>1, <1>2
<1> QED
  BY <1>3, <1>4, <1>5, <1>6, <1>7 DEF ServeInv, AllServing

\* A handler that ends the request under way, s being the state before it does.
Ended(s, t) ==
  /\ ServeInv(t) /\ Mute(s, t) /\ (t.expired => s.expired) /\ t.d.reqno >= s.d.reqno
  /\ t.d.pending => t.d.reqno = s.d.reqno + 1

\* The next request is sent.
LEMMA EndServes ==
  ASSUME NEW s, QueueInv(s, {}), Unsent(s), AllServing(s), s.d.own,
         \A r \in s.b : Numbered(r, s.d.reqno)
  PROVE  Ended(s, EndPending(s))
<1>1. s \in States /\ s.d \in Drivers
  BY DEF QueueInv, States
<1>2. PICK d : d = [s.d EXCEPT !.pending = FALSE]
  OBVIOUS
<1>3. /\ d \in Drivers /\ d.reqs = s.d.reqs /\ ~d.pending /\ d.own = s.d.own
      /\ d.reqno = s.d.reqno
  BY <1>1, <1>2 DEF Drivers
<1>4. PICK t : t = [s EXCEPT !.d = d]
  OBVIOUS
<1>5. t \in States /\ t.d = d /\ t.c = s.c /\ t.b = s.b /\ t.expired = s.expired
  BY <1>1, <1>3, <1>4 DEF States
<1>6. QueueInv(t, {})
  <2>1. Queued(t) = Queued(s)
    BY <1>5 DEF Queued, Waits
  <2> QED
    BY <1>3, <1>5, <2>1 DEF QueueInv
<1>7. SentInv(t)
  BY <1>3, <1>5 DEF SentInv, Unsent
<1>8. EndPending(s) = ProcessRequests(t)
  BY <1>2, <1>4 DEF EndPending
<1>9. PICK u : u = ProcessRequests(t)
  OBVIOUS
<1>10. HandlerInv(u) /\ Sent(t, u)
  <2>1. HandlerInv(t) /\ ~t.d.pending
    BY <1>3, <1>5, <1>6, <1>7 DEF HandlerInv
  <2> QED
    BY <1>9, <2>1, Processes
<1>11. u \in States
  BY <1>10 DEF HandlerInv, QueueInv
<1>12. AllServing(t) /\ t.d.own /\ \A r \in t.b : Numbered(r, t.d.reqno)
  BY <1>3, <1>5 DEF AllServing, Waits
<1>13. ServeInv(u) /\ Mute(t, u) /\ u.d.reqno >= t.d.reqno
  BY <1>5, <1>10, <1>11, <1>12, SentServes
<1>14. Mute(s, u)
  BY <1>5, <1>13 DEF Mute
<1>15. (u.expired => s.expired) /\ (u.d.pending => u.d.reqno = s.d.reqno + 1)
  BY <1>3, <1>5, <1>10 DEF Sent
<1> QED
  BY <1>3, <1>5, <1>8, <1>9, <1>13, <1>14, <1>15 DEF Ended

\* What is left of a state to the service when the timer is set or cleared.
LEMMA TimersServe ==
  ASSUME NEW s \in States, NEW t \in {SetTO(s), ClearTO(s)}
  PROVE  /\ t.c = s.c /\ ~t.expired
         /\ (ServeInv(s) => ServeInv(t)) /\ Mute(s, t) /\ t.d.reqno = s.d.reqno
         /\ (AllServing(s) => AllServing(t)) /\ t.b = s.b /\ t.d.own = s.d.own
<1>1. /\ t \in States /\ t.c = s.c /\ t.d.reqs = s.d.reqs
      /\ t.d.pending = s.d.pending /\ t.d.processing = s.d.processing
      /\ t.d.reqno = s.d.reqno /\ t.d.reqfrm = s.d.reqfrm /\ t.d.slcan = s.d.slcan
      /\ t.d.own = s.d.own /\ t.b = s.b /\ ~t.expired
  BY Timers
<1>2. Waits(t) = Waits(s)
  BY <1>1 DEF Waits
<1>3. (ServeInv(s) => ServeInv(t)) /\ (AllServing(s) => AllServing(t))
  BY <1>1, <1>2 DEF ServeInv, AllServing
<1>4. Mute(s, t)
  BY <1>1 DEF Mute, SameTalk
<1> QED
  BY <1>1, <1>3, <1>4

\* The request under way is complete.
LEMMA CompletionServes ==
  ASSUME NEW s, NEW st \in Results, NEW val \in Own, HandlerInv(s), ServeInv(s), s.d.pending
  PROVE  LET u == RequestComplete(PopReq(s), Head(s.d.reqs), st, val)
         IN /\ QueueInv(u, {}) /\ Unsent(u) /\ AllServing(u) /\ u.d.own
            /\ \A r \in u.b : Numbered(r, u.d.reqno)
            /\ Talk(s, u) /\ u.d.reqno = s.d.reqno /\ u.expired = s.expired
<1>1. PICK u : u = RequestComplete(PopReq(s), Head(s.d.reqs), st, val)
  OBVIOUS
<1>2. PICK c : c = Head(s.d.reqs)
  OBVIOUS
<1>3. PICK t : t = PopReq(s)
  OBVIOUS
<1>4. /\ c \in Clients /\ QueueInv(t, {c}) /\ Unsent(t) /\ c \in Waits(t)
      /\ Ready(t.c[c]) /\ t.d.pending /\ SameRest(s, t) /\ t.c = s.c
  BY <1>2, <1>3, Pops
<1>5. val \in Data
  BY DEF Own, Data
<1>6. QueueInv(u, {}) /\ Unsent(u)
  BY <1>1, <1>5, Completes
<1>7. AllServing(t)
  BY <1>4 DEF ServeInv, AllServing, Waits
<1>8. u = RequestComplete(t, c, st, val)
  BY <1>1, <1>2, <1>3
<1>9. SameRest(t, u) /\ AllServing(u) /\ Talk(t, u)
  <2> HIDE <1>2
  <2> QED
    BY <1>4, <1>7, <1>8, CompleteServes
<1>10. Mute(s, t)
  BY <1>4 DEF Mute, SameTalk
<1>11. Talk(s, u)
  BY <1>9, <1>10, TalkAfterMute
<1>12. u.d.own /\ u.d.reqno = s.d.reqno /\ u.b = s.b /\ u.expired = s.expired
  BY <1>4, <1>9 DEF SameRest, ServeInv
<1>13. \A r \in u.b : Numbered(r, u.d.reqno)
  BY <1>12 DEF ServeInv
<1> QED
  BY <1>1, <1>6, <1>9, <1>11, <1>12, <1>13

\* Before and after a frame completed the request under way; s is the state the
\* handler began with.
Before(s, t) ==
  HandlerInv(t) /\ ServeInv(t) /\ Mute(s, t) /\ t.d.reqno = s.d.reqno

After(s, t) ==
  /\ HandlerInv(t) /\ ServeInv(t) /\ Talk(s, t) /\ ~t.expired
  /\ t.d.pending => t.d.reqno = s.d.reqno + 1

\* The reply is given, and the next request sent.
LEMMA Completion ==
  ASSUME NEW s, NEW t, NEW st \in Results, NEW val \in Own, Before(s, t), t.d.pending
  PROVE  LET u == RequestComplete(PopReq(t), Head(t.d.reqs), st, val)
         IN /\ HandlerInv(EndPending(u)) /\ ServeInv(EndPending(u)) /\ Talk(s, EndPending(u))
            /\ EndPending(u).d.pending => EndPending(u).d.reqno = s.d.reqno + 1
            /\ ~t.expired => After(s, EndPending(u))
            /\ After(s, EndPending(ClearTO(u)))
<1>1. PICK u : u = RequestComplete(PopReq(t), Head(t.d.reqs), st, val)
  OBVIOUS
<1>2. /\ QueueInv(u, {}) /\ Unsent(u) /\ AllServing(u) /\ u.d.own
      /\ \A r \in u.b : Numbered(r, u.d.reqno)
      /\ Talk(t, u) /\ u.d.reqno = t.d.reqno /\ u.expired = t.expired
  BY <1>1, CompletionServes DEF Before
<1>3. Talk(s, u)
  BY <1>2, TalkAfterMute DEF Before
<1>4. ASSUME NEW w, QueueInv(w, {}), Unsent(w), AllServing(w), w.d.own,
             \A r \in w.b : Numbered(r, w.d.reqno), Talk(s, w), w.d.reqno = s.d.reqno
      PROVE  /\ HandlerInv(EndPending(w)) /\ ServeInv(EndPending(w)) /\ Talk(s, EndPending(w))
             /\ EndPending(w).d.pending => EndPending(w).d.reqno = s.d.reqno + 1
             /\ ~w.expired => After(s, EndPending(w))
  <2>1. PICK x : x = EndPending(w)
    OBVIOUS
  <2>2. HandlerInv(x)
    BY <1>4, <2>1, Ends
  <2>3. Ended(w, x)
    BY <1>4, <2>1, EndServes
  <2>4. Talk(s, x)
    BY <1>4, <2>3, MuteAfterTalk DEF Ended
  <2>5. ServeInv(x) /\ (x.d.pending => x.d.reqno = s.d.reqno + 1) /\ (x.expired => w.expired)
    BY <1>4, <2>3 DEF Ended
  <2> QED
    BY <2>1, <2>2, <2>4, <2>5 DEF After
<1>5. /\ HandlerInv(EndPending(u)) /\ ServeInv(EndPending(u)) /\ Talk(s, EndPending(u))
      /\ EndPending(u).d.pending => EndPending(u).d.reqno = s.d.reqno + 1
      /\ ~t.expired => After(s, EndPending(u))
  <2>1. u.d.reqno = s.d.reqno
    BY <1>2 DEF Before
  <2> QED
    BY <1>2, <1>3, <1>4, <2>1
<1>6. After(s, EndPending(ClearTO(u)))
  <2>1. PICK w : w = ClearTO(u)
    OBVIOUS
  <2>2. QueueInv(w, {}) /\ Unsent(w)
    BY <1>2, <2>1, TimersKeep
  <2>3. u \in States
    BY <1>2 DEF QueueInv
  <2>4. /\ w.c = u.c /\ ~w.expired /\ Mute(u, w) /\ w.d.reqno = u.d.reqno
        /\ (AllServing(u) => AllServing(w)) /\ w.b = u.b /\ w.d.own = u.d.own
    BY <2>1, <2>3, TimersServe
  <2>5. Talk(s, w)
    BY <1>3, <2>4, MuteAfterTalk
  <2>6. w.d.reqno = s.d.reqno
    BY <1>2, <2>4 DEF Before
  <2>7. AllServing(w) /\ w.d.own /\ \A r \in w.b : Numbered(r, w.d.reqno)
    BY <1>2, <2>4
  <2> QED
    BY <1>4, <2>1, <2>2, <2>4, <2>5, <2>6, <2>7
<1> QED
  BY <1>1, <1>5, <1>6

-----------------------------------------------------------------------------
(* The frames of a read, n requests having been sent before it *)

InTimeFrame(f, n) ==
  /\ f \in Frames
  /\ Carries(f) => f.tag \in Nat /\ Numbered(f, n) /\ n < f.tag + ReqIds

\* An answer that is read in time matches no request but its own.
LEMMA Matches ==
  ASSUME NEW t, NEW f, NEW n \in Nat, HandlerInv(t), t.d.pending, t.d.reqno \in {n, n + 1},
         InTimeFrame(f, n), Carries(f), IdMatches(t, f)
  PROVE  t.d.reqno = n /\ f.tag = n - 1
<1>1. PICK dev, k : dev = Head(t.c[Head(t.d.reqs)].todo).dev /\ k = t.d.reqno - 1
  OBVIOUS
<1>2. t.d.reqfrm.id = <<dev, k % ReqIds>>
  BY <1>1 DEF HandlerInv, SentInv, Id
<1>3. k % ReqIds = f.tag % ReqIds
  <2>1. f.id = <<dev, k % ReqIds>>
    BY <1>2 DEF IdMatches
  <2> QED
    BY <2>1 DEF InTimeFrame, Numbered
<1>4. PICK a \in Nat : a = f.tag
  BY DEF InTimeFrame
<1>5. PICK T \in Nat \ {0} : T = ReqIds
  BY SubbusCANAssumption DEF SubbusCANAssumption
<1>6. a < n /\ n < a + T
  BY <1>4, <1>5 DEF InTimeFrame, Numbered
<1>7. k \in Nat /\ a <= k /\ k - a < T /\ t.d.reqno = k + 1 /\ k \in {n - 1, n}
  BY <1>1, <1>6
<1>8. a % T = k % T
  BY <1>3, <1>4, <1>5
<1>9. a = k
  <2>1. ASSUME a < k PROVE FALSE
    BY <1>7, <1>8, <2>1, Input!ModApart
  <2> QED
    BY <1>7, <2>1
<1> QED
  BY <1>4, <1>6, <1>7, <1>9

\* A frame that is dropped, or the answer to the init string.
LEMMA DropServes ==
  ASSUME NEW s, HandlerInv(s)
  PROVE  \A t \in {DropAll(s), InitAnswered(s)} :
           /\ HandlerInv(t) /\ (ServeInv(s) => ServeInv(t)) /\ Mute(s, t)
           /\ t.d.reqno = s.d.reqno /\ t.d.pending = s.d.pending
           /\ t.expired => s.expired
<1>1. s \in States /\ s.d \in Drivers
  BY DEF HandlerInv, QueueInv, States
<1>2. ASSUME NEW r, r \in States, HandlerInv(r)
      PROVE  /\ HandlerInv(DropAll(r)) /\ DropAll(r).d = r.d /\ DropAll(r).c = r.c
             /\ DropAll(r).b = r.b /\ DropAll(r).expired = r.expired
  <2>1. HandlerInv(DropAll(r))
    BY <1>2, AdapterKeeps
  <2> QED
    BY <1>2, <2>1 DEF DropAll, States
<1>3. PICK q : q = ClearTO(s)
  OBVIOUS
<1>4. /\ q \in States /\ q.c = s.c /\ q.d.pending = s.d.pending /\ q.d.own = s.d.own
      /\ q.d.reqno = s.d.reqno /\ q.d.reqfrm = s.d.reqfrm /\ q.b = s.b /\ ~q.expired
      /\ HandlerInv(q)
  BY <1>1, <1>3, Timers, TimersKeep
<1>5. PICK d : d = [q.d EXCEPT !.slcan = "operate"]
  OBVIOUS
<1>6. d.pending = q.d.pending /\ d.own = q.d.own /\ d.reqno = q.d.reqno
      /\ d.reqfrm = q.d.reqfrm
  <2>1. q.d \in Drivers
    BY <1>4 DEF States
  <2> QED
    BY <1>5, <2>1 DEF Drivers
<1>7. PICK r : r = [q EXCEPT !.d = d]
  OBVIOUS
<1>8. r.d = d /\ r.c = q.c /\ r.b = q.b /\ r.expired = q.expired
  BY <1>4, <1>7 DEF States
<1>9. HandlerInv(r) /\ r \in States
  <2>1. r = [q EXCEPT !.d.slcan = "operate"]
    BY <1>5, <1>7
  <2>2. HandlerInv(r)
    BY <1>4, <2>1, AdapterKeeps
  <2> QED
    BY <2>2 DEF HandlerInv, QueueInv
<1>10. InitAnswered(s) = DropAll(r)
  BY <1>3, <1>5, <1>7 DEF InitAnswered
<1>11. ASSUME NEW t, HandlerInv(t), t.c = s.c, t.d.own = s.d.own, t.d.reqno = s.d.reqno,
              t.d.reqfrm = s.d.reqfrm, t.d.pending = s.d.pending, t.b = s.b,
              t.expired => s.expired
       PROVE  /\ HandlerInv(t) /\ (ServeInv(s) => ServeInv(t)) /\ Mute(s, t)
              /\ t.d.reqno = s.d.reqno /\ t.d.pending = s.d.pending
              /\ t.expired => s.expired
  BY <1>11 DEF ServeInv, Mute, SameTalk, Waits
<1>12. PICK x, y : x = DropAll(s) /\ y = DropAll(r)
  OBVIOUS
<1>13. /\ HandlerInv(x) /\ x.d = s.d /\ x.c = s.c /\ x.b = s.b /\ x.expired = s.expired
       /\ HandlerInv(y) /\ y.d = r.d /\ y.c = r.c /\ y.b = r.b /\ y.expired = r.expired
  BY <1>1, <1>2, <1>9, <1>12
<1>14. /\ y.c = s.c /\ y.d.own = s.d.own /\ y.d.reqno = s.d.reqno
       /\ y.d.reqfrm = s.d.reqfrm /\ y.d.pending = s.d.pending /\ y.b = s.b
       /\ ~y.expired
  BY <1>4, <1>6, <1>8, <1>13
<1> QED
  BY <1>10, <1>11, <1>12, <1>13, <1>14

\* A reply's frame, when it is the request's own.
LEMMA DataFrameServes ==
  ASSUME NEW s, NEW t, NEW f, Before(s, t), t.d.pending, f.tag = t.d.reqno - 1
  PROVE  Before(s, DataFrame(t, f)) \/ After(s, DataFrame(t, f))
<1>1. t \in States /\ t.d \in Drivers /\ t.d.own = TRUE /\ f.tag = t.d.reqfrm.tag
  BY DEF Before, HandlerInv, QueueInv, States, ServeInv, Drivers
<1>2. PICK n \in Nat : n = t.d.repseq + 1
  BY <1>1 DEF Drivers
<1>3. PICK d : d = [t.d EXCEPT !.repseq = n, !.own = TRUE]
  OBVIOUS
<1>4. /\ d \in Drivers /\ d.reqs = t.d.reqs /\ d.pending = t.d.pending /\ d.own
      /\ d.processing = t.d.processing /\ d.reqno = t.d.reqno /\ d.reqfrm = t.d.reqfrm
  BY <1>1, <1>3 DEF Drivers
<1>5. PICK got : got = [t EXCEPT !.d = d]
  OBVIOUS
<1>6. got \in States /\ got.d = d /\ got.c = t.c /\ got.b = t.b
  BY <1>1, <1>4, <1>5 DEF States
<1>7. HandlerInv(got) /\ ServeInv(got) /\ Mute(s, got)
  <2>1. HandlerInv(got)
    BY <1>4, <1>6, SameQueue DEF Before
  <2>2. Waits(got) = Waits(t)
    BY <1>6 DEF Waits
  <2>3. ServeInv(got)
    BY <1>4, <1>6, <2>2 DEF Before, ServeInv
  <2> QED
    BY <1>6, <2>1, <2>3 DEF Before, Mute
<1>8. DataFrame(t, f) =
        IF f.seq + 1 = f.len
        THEN EndPending(RequestComplete(PopReq(ClearTO(got)), Head(t.d.reqs), "ack", "own"))
        ELSE SetTO(got)
  <2> DEFINE mine == t.d.own /\ f.tag = t.d.reqfrm.tag
             all == [t EXCEPT !.d.repseq = @ + 1, !.d.own = mine]
  <2>1. mine = TRUE
    BY <1>1
  <2>2. DataFrame(t, f) = IF f.seq + 1 = f.len
                          THEN EndPending(RequestComplete(PopReq(ClearTO(all)),
                                 Head(t.d.reqs), "ack", IF mine THEN "own" ELSE "foreign"))
                          ELSE SetTO(all)
    BY DEF DataFrame
  <2> HIDE DEF mine
  <2>3. all = [t EXCEPT !.d.repseq = @ + 1, !.d.own = TRUE]
    BY <2>1
  <2> HIDE DEF all
  <2>4. all = got
    BY <1>1, <1>2, <1>3, <1>5, <2>3 DEF States, Drivers
  <2> QED
    BY <2>1, <2>2, <2>4
<1>9. ASSUME NEW w \in {SetTO(got), ClearTO(got)} PROVE Before(s, w) /\ ~w.expired
  <2>1. /\ HandlerInv(w) /\ ServeInv(w) /\ Mute(got, w) /\ w.d.reqno = got.d.reqno
        /\ ~w.expired /\ w.c = got.c
    BY <1>6, <1>7, <1>9, TimersKeep, TimersServe
  <2>2. Mute(s, w)
    BY <1>7, <2>1 DEF Mute
  <2> QED
    BY <1>4, <1>6, <2>1, <2>2 DEF Before
<1>10. CASE f.seq + 1 # f.len
  BY <1>8, <1>9, <1>10
<1>11. CASE f.seq + 1 = f.len
  <2>1. PICK w : w = ClearTO(got)
    OBVIOUS
  <2>2. Before(s, w) /\ ~w.expired
    BY <1>9, <2>1
  <2>3. w.d.pending /\ w.d.reqs = t.d.reqs
    BY <1>4, <1>6, <2>1, Timers
  <2>4. "ack" \in Results /\ "own" \in Own
    BY DEF Results, Own
  <2>5. After(s, EndPending(RequestComplete(PopReq(w), Head(w.d.reqs), "ack", "own")))
    BY <2>2, <2>3, <2>4, Completion
  <2> QED
    BY <1>8, <1>11, <2>1, <2>3, <2>5
<1> QED
  BY <1>10, <1>11

\* An error frame.
LEMMA ErrorFrameServes ==
  ASSUME NEW s, NEW t, NEW f, Before(s, t), t.d.pending
  PROVE  After(s, ErrorFrame(t, f))
<1>1. PICK st \in Results :
        ErrorFrame(t, f)
          = EndPending(ClearTO(PopReq(RequestComplete(t, Head(t.d.reqs), st, "zero"))))
  BY DEF ErrorFrame, Results
<1>2. "zero" \in Own /\ "zero" \in Data
  BY DEF Own, Data
<1>3. PICK u : u = RequestComplete(PopReq(t), Head(t.d.reqs), st, "zero")
  OBVIOUS
<1>4. u = PopReq(RequestComplete(t, Head(t.d.reqs), st, "zero"))
  BY <1>2, <1>3, CompletesEarly DEF Before
<1>5. After(s, EndPending(ClearTO(u)))
  BY <1>2, <1>3, Completion
<1> QED
  BY <1>1, <1>4, <1>5

\* One frame more.
LEMMA FrameServes ==
  ASSUME NEW s, NEW t, NEW f, s.d.reqno \in Nat, InTimeFrame(f, s.d.reqno),
         Before(s, t) \/ After(s, t)
  PROVE  Before(s, ProcessFrame(t, f)) \/ After(s, ProcessFrame(t, f))
<1>1. PICK n \in Nat : n = s.d.reqno
  OBVIOUS
<1>2. HandlerInv(t) /\ ServeInv(t)
  BY DEF Before, After
<1>3. ASSUME NEW w \in {t, DropAll(t), InitAnswered(t)} PROVE Before(s, w) \/ After(s, w)
  <2>1. /\ HandlerInv(w) /\ ServeInv(w) /\ Mute(t, w)
        /\ w.d.reqno = t.d.reqno /\ w.d.pending = t.d.pending /\ (w.expired => t.expired)
    <3>1. CASE w = t
      BY <1>2, <3>1 DEF Mute, SameTalk
    <3>2. CASE w # t
      BY <1>2, <1>3, <3>2, DropServes
    <3> QED
      BY <3>1, <3>2
  <2>2. CASE Before(s, t)
    <3>1. Mute(s, w)
      BY <2>1, <2>2 DEF Before, Mute, SameTalk
    <3> QED
      BY <2>1, <2>2, <3>1 DEF Before
  <2>3. CASE After(s, t)
    <3>1. Talk(s, w)
      BY <2>1, <2>3, MuteAfterTalk DEF After
    <3> QED
      BY <2>1, <2>3, <3>1 DEF After
  <2> QED
    BY <2>2, <2>3
<1>4. CASE t.d.pending /\ Carries(f) /\ IdMatches(t, f)
  <2>1. t.d.reqno \in {n, n + 1}
    BY <1>1, <1>4 DEF Before, After
  <2>2. t.d.reqno = n /\ f.tag = n - 1
    BY <1>1, <1>2, <1>4, <2>1, Matches
  <2>3. Before(s, t)
    BY <1>1, <1>4, <2>2 DEF After
  <2>4. ProcessFrame(t, f) \in {t, DropAll(t), InitAnswered(t), ErrorFrame(t, f), DataFrame(t, f)}
    BY DEF ProcessFrame
  <2>5. After(s, ErrorFrame(t, f))
    BY <1>4, <2>3, ErrorFrameServes
  <2>6. Before(s, DataFrame(t, f)) \/ After(s, DataFrame(t, f))
    <3>1. f.tag = t.d.reqno - 1
      BY <2>2
    <3> QED
      BY <1>4, <2>3, <3>1, DataFrameServes
  <2> QED
    BY <1>3, <2>4, <2>5, <2>6
<1>5. CASE ~(t.d.pending /\ Carries(f) /\ IdMatches(t, f))
  <2>1. f.kind \in {"id", "data", "noise", "nack", "err"}
    BY DEF InTimeFrame, Frames
  <2>2. Carries(f) \/ f.kind \in {"noise", "id"}
    BY <2>1 DEF Carries
  <2>3. ProcessFrame(t, f) \in {t, DropAll(t), InitAnswered(t)}
    BY <1>5, <2>2 DEF ProcessFrame
  <2> QED
    BY <1>3, <2>3
<1> QED
  BY <1>4, <1>5

\* All the frames of a read.
LEMMA InputServes ==
  ASSUME NEW s, s.d.reqno \in Nat, Before(s, s), line \in Seq(Frames),
         \A i \in 1..Len(line) : InTimeFrame(line[i], s.d.reqno)
  PROVE  Before(s, ProtocolInput(s)) \/ After(s, ProtocolInput(s))
<1> DEFINE U == {t \in States : Before(s, t) \/ After(s, t)}
           V == [k \in 0..Len(line) |-> U]
<1>0. Len(line) \in Nat /\ \A k \in 0..Len(line) : V[k] = U
  OBVIOUS
<1>1. \A t : Before(s, t) \/ After(s, t) => t \in U
  BY DEF Before, After, HandlerInv, QueueInv
<1>2. \A k \in 1..Len(line) : \A t \in U : ProcessFrame(t, line[k]) \in U
  <2>1. \A k \in 1..Len(line) : \A t \in U :
          Before(s, ProcessFrame(t, line[k])) \/ After(s, ProcessFrame(t, line[k]))
    BY FrameServes
  <2> HIDE DEF U
  <2> QED
    BY <1>1, <2>1
<1>3. Input!FoldLeft(ProcessFrame, s, line) \in U
  <2>1. s \in U
    BY <1>1
  <2>2. /\ s \in V[0]
        /\ \A k \in 1..Len(line) : \A t \in V[k - 1] : ProcessFrame(t, line[k]) \in V[k]
    <3> HIDE DEF U, V, ProcessFrame
    <3>1. 0 \in 0..Len(line) /\ \A k \in 1..Len(line) : k \in 0..Len(line) /\ k - 1 \in 0..Len(line)
      BY <1>0
    <3> QED
      BY <1>0, <1>2, <2>1, <3>1
  <2>3. Input!FoldLeft(ProcessFrame, s, line) \in V[Len(line)]
    <3> HIDE DEF U, V, ProcessFrame
    <3> QED
      BY <2>2, Input!FoldInduction
  <2> QED
    BY <1>0, <2>3
<1>4. Input!FoldLeft(ProcessFrame, s, line) = FoldLeft(ProcessFrame, s, line)
  BY DEF FoldLeft, Input!FoldLeft, MapThenFoldSet, Input!MapThenFoldSet, Max, Input!Max
<1>5. FoldLeft(ProcessFrame, s, line) \in U
  BY <1>3, <1>4
<1> QED
  BY <1>5 DEF ProtocolInput


\* A timeout answers the request under way, or tries the adapter again.
LEMMA TimeoutServes ==
  ASSUME NEW s, NEW r, Before(s, r)
  PROVE  /\ HandlerInv(ProtocolTimeout(r)) /\ ServeInv(ProtocolTimeout(r))
         /\ Talk(s, ProtocolTimeout(r))
<1>1. PICK t : t = ClearTO(r)
  OBVIOUS
<1>2. r \in States /\ HandlerInv(r) /\ ServeInv(r) /\ Mute(s, r) /\ r.d.reqno = s.d.reqno
  BY DEF Before, HandlerInv, QueueInv
<1>3. Before(s, t)
  <2>1. HandlerInv(t)
    BY <1>1, <1>2, TimersKeep
  <2>2. ServeInv(t) /\ Mute(r, t) /\ t.d.reqno = r.d.reqno /\ t.c = r.c
    BY <1>1, <1>2, TimersServe
  <2>3. Mute(s, t)
    BY <1>2, <2>2 DEF Mute
  <2> QED
    BY <1>2, <2>1, <2>2, <2>3 DEF Before
<1>4. t \in States /\ t.d \in Drivers /\ ServeInv(t)
  BY <1>3 DEF Before, HandlerInv, QueueInv, States
<1>5. HandlerInv(ProtocolTimeout(r))
  BY <1>2, TimeoutKeeps
<1>6. ProtocolTimeout(r) =
        IF t.d.pending
        THEN EndPending(RequestComplete(PopReq(t), Head(t.d.reqs), "noack", "zero"))
        ELSE IF t.d.slcan = "init" THEN SetTO([t EXCEPT !.d.slcan = "init_retry"])
        ELSE IF t.d.slcan = "init_retry" THEN IssueInit(t)
        ELSE t
  BY <1>1 DEF ProtocolTimeout
<1>7. CASE t.d.pending
  <2>1. "noack" \in Results /\ "zero" \in Own
    BY DEF Results, Own
  <2>2. PICK u : u = EndPending(RequestComplete(PopReq(t), Head(t.d.reqs), "noack", "zero"))
    OBVIOUS
  <2>3. ServeInv(u) /\ Talk(s, u)
    BY <1>3, <1>7, <2>1, <2>2, Completion
  <2>4. ProtocolTimeout(r) = u
    BY <1>6, <1>7, <2>2
  <2> QED
    BY <1>5, <2>3, <2>4
<1>8. ASSUME NEW x \in States, x.c = t.c, x.b = t.b, x.d.own = t.d.own,
             x.d.pending = t.d.pending, x.d.reqno = t.d.reqno, x.d.reqfrm = t.d.reqfrm
      PROVE  ServeInv(x) /\ Talk(s, x) /\ ServeInv(SetTO(x)) /\ Talk(s, SetTO(x))
  <2>1. Waits(x) = Waits(t)
    BY <1>8 DEF Waits
  <2>2. ServeInv(x)
    BY <1>4, <1>8, <2>1 DEF ServeInv
  <2>3. PICK y : y = SetTO(x)
    OBVIOUS
  <2>4. ServeInv(y) /\ y.c = t.c
    BY <1>8, <2>2, <2>3, TimersServe
  <2>5. Talk(s, x) /\ Talk(s, y)
    BY <1>3, <1>8, <2>4 DEF Before, Talk, Mute
  <2> QED
    BY <2>2, <2>3, <2>4, <2>5
<1>9. CASE ~t.d.pending /\ t.d.slcan = "init"
  <2>1. PICK d : d = [t.d EXCEPT !.slcan = "init_retry"]
    OBVIOUS
  <2>2. /\ d \in Drivers /\ d.own = t.d.own /\ d.pending = t.d.pending
        /\ d.reqno = t.d.reqno /\ d.reqfrm = t.d.reqfrm
    BY <1>4, <2>1 DEF Drivers
  <2>3. PICK x : x = [t EXCEPT !.d = d]
    OBVIOUS
  <2>4. x \in States /\ x.d = d /\ x.c = t.c /\ x.b = t.b
    BY <1>4, <2>2, <2>3 DEF States
  <2>5. ServeInv(SetTO(x)) /\ Talk(s, SetTO(x))
    BY <1>8, <2>2, <2>4
  <2>6. ProtocolTimeout(r) = SetTO(x)
    BY <1>6, <1>9, <2>1, <2>3
  <2> QED
    BY <1>5, <2>5, <2>6
<1>10. CASE ~t.d.pending /\ t.d.slcan = "init_retry"
  <2>1. PICK n \in Nat : n = t.d.inits + 1
    BY <1>4 DEF Drivers
  <2>2. PICK d : d = [t.d EXCEPT !.slcan = "init", !.inits = n]
    OBVIOUS
  <2>3. /\ d \in Drivers /\ d.own = t.d.own /\ d.pending = t.d.pending
        /\ d.reqno = t.d.reqno /\ d.reqfrm = t.d.reqfrm
    BY <1>4, <2>2 DEF Drivers
  <2>4. PICK x : x = [t EXCEPT !.d = d]
    OBVIOUS
  <2>5. x \in States /\ x.d = d /\ x.c = t.c /\ x.b = t.b
    BY <1>4, <2>3, <2>4 DEF States
  <2>6. ServeInv(SetTO(x)) /\ Talk(s, SetTO(x))
    BY <1>8, <2>3, <2>5
  <2>7. ProtocolTimeout(r) = SetTO(x)
    <3>1. x = [t EXCEPT !.d.slcan = "init", !.d.inits = @ + 1]
      BY <2>1, <2>2, <2>4
    <3> QED
      BY <1>6, <1>10, <3>1 DEF IssueInit
  <2> QED
    BY <1>5, <2>6, <2>7
<1>11. CASE ~t.d.pending /\ t.d.slcan \notin {"init", "init_retry"}
  <2>1. ServeInv(t) /\ Talk(s, t)
    BY <1>4, <1>8
  <2>2. ProtocolTimeout(r) = t
    BY <1>6, <1>11
  <2> QED
    BY <1>5, <2>1, <2>2
<1> QED
  BY <1>7, <1>9, <1>10, <1>11

\* A new request is queued, or answered at once.
LEMMA NextPartTalks ==
  ASSUME NEW u, NEW c \in Clients, QueueInv(u, {c}), SentInv(u), c \in Waits(u), ServeInv(u)
  PROVE  /\ HandlerInv(NextPart(u, c)) /\ ServeInv(NextPart(u, c))
         /\ NextPart(u, c).d.reqno >= u.d.reqno
         /\ Mute(u, NextPart(u, c)) \/ Tells(u, NextPart(u, c), c)
<1>1. PICK t : t = NextPart(u, c)
  OBVIOUS
<1>2. HandlerInv(t)
  BY <1>1, NextPartKeeps
<1>3. Serving(u.c[c]) /\ u.d.reqno \in Nat
  BY DEF ServeInv, QueueInv, States, Drivers
<1>4. CASE /\ Tells(u, t, c) /\ SameRest(u, t)
           /\ \A e \in Waits(t) : e \in Waits(u) /\ t.c[e] = u.c[e]
  <2>1. ServeInv(t)
    BY <1>4 DEF ServeInv, SameRest
  <2>2. t.d.reqno >= u.d.reqno
    BY <1>3, <1>4 DEF SameRest
  <2> QED
    BY <1>1, <1>2, <1>4, <2>1, <2>2
<1>5. CASE t = ProcessRequests(Queues(u, c)) /\ Ready(u.c[c])
  <2>1. PICK q : q = Queues(u, c)
    OBVIOUS
  <2>2. /\ QueueInv(q, {}) /\ SentInv(q) /\ SameRest(u, q)
        /\ \A e \in Clients : SameSaid(q.c[e], u.c[e])
    BY <1>5, <2>1, QueuesKeeps
  <2>3. AllServing(q)
    <3>1. ASSUME NEW e \in Waits(q) PROVE Serving(q.c[e])
      <4>1. e \in Clients /\ SameSaid(q.c[e], u.c[e])
        BY <2>2 DEF Waits
      <4>2. e \in Waits(u)
        BY <3>1, <4>1 DEF Waits, SameSaid, SameCounts
      <4>3. Serving(u.c[e])
        BY <4>2 DEF ServeInv
      <4> QED
        BY <4>1, <4>3, SaidServing
    <3> QED
      BY <3>1 DEF AllServing
  <2>4. Mute(u, q)
    BY <2>2 DEF Mute, SameTalk, SameSaid, SameCounts
  <2>5. ServeInv(q)
    BY <2>2, <2>3 DEF ServeInv, SameRest, AllServing
  <2>6. q \in States /\ HandlerInv(q) /\ q.d.reqno = u.d.reqno
    BY <2>2 DEF QueueInv, HandlerInv, SameRest
  <2>7. CASE q.d.pending
    <3>1. t = q
      BY <1>5, <2>1, <2>6, <2>7, Processes
    <3>2. t.d.reqno >= u.d.reqno
      BY <1>3, <2>6, <3>1
    <3> QED
      BY <1>1, <1>2, <2>4, <2>5, <3>1, <3>2
  <2>8. CASE ~q.d.pending
    <3>1. Sent(q, t)
      BY <1>5, <2>1, <2>6, <2>8, Processes
    <3>2. t \in States
      BY <1>2 DEF HandlerInv, QueueInv
    <3>3. q.d.own /\ \A r \in q.b : Numbered(r, q.d.reqno)
      BY <2>5 DEF ServeInv
    <3>4. ServeInv(t) /\ Mute(q, t) /\ t.d.reqno >= q.d.reqno
      BY <2>3, <2>6, <3>1, <3>2, <3>3, SentServes
    <3>5. Mute(u, t)
      BY <2>4, <3>4 DEF Mute, SameTalk
    <3> QED
      BY <1>1, <1>2, <2>6, <3>4, <3>5
  <2> QED
    BY <2>7, <2>8
<1>6. CASE t = u
  <2>1. Mute(u, u) /\ u.d.reqno >= u.d.reqno
    BY <1>3 DEF Mute, SameTalk
  <2> QED
    BY <1>1, <1>2, <1>6, <2>1
<1> QED
  BY <1>1, <1>3, <1>4, <1>5, <1>6, NextPartServes

-----------------------------------------------------------------------------
(* The steps *)

\* The service when clients were told something.
LEMMA TalkIsNext ==
  ASSUME NEW s, NEW t, s.c = clt, t.c = clt', Talk(s, t)
  PROVE  [Service!Next]_(Service!vars)
<1>1. CASE Mute(s, t)
  <2>1. \A e \in Clients : SameTalk(clt'[e], clt[e])
    BY <1>1 DEF Mute
  <2> QED
    BY <2>1 DEF SameTalk, Service!vars
<1>2. ASSUME NEW c \in Waits(s), Tells(s, t, c) PROVE Service!Next
  <2>1. c \in Clients /\ clt[c].asked > clt[c].answered
    BY <1>2 DEF Waits
  <2>2. /\ clt'[c].asked = clt[c].asked /\ clt'[c].parts = clt[c].parts
        /\ clt'[c].answered = clt[c].answered + 1
        /\ clt'[c].answer \in Service!Answers(clt[c].parts)
        /\ \A e \in Clients \ {c} : SameTalk(clt'[e], clt[e])
    BY <1>2 DEF Tells
  <2>3. PICK a \in Service!Answers(clt[c].parts) : Service!Reply(c, a)
    <3>1. PICK a : a = clt'[c].answer
      OBVIOUS
    <3>2. Service!Reply(c, a)
      BY <2>1, <2>2, <3>1 DEF Service!Reply, SameTalk
    <3> QED
      BY <2>2, <3>1, <3>2
  <2>4. /\ [e \in Clients |-> clt'[e].asked] = [e \in Clients |-> clt[e].asked]
        /\ [e \in Clients |-> clt'[e].parts] = [e \in Clients |-> clt[e].parts]
    BY <2>1, <2>2 DEF SameTalk
  <2>5. /\ [e \in Clients |-> clt[e].asked][c] > [e \in Clients |-> clt[e].answered][c]
        /\ [e \in Clients |-> clt[e].parts][c] = clt[c].parts
    BY <2>1
  <2>6. a \in Service!Answers([e \in Clients |-> clt[e].parts][c])
    BY <2>2, <2>3, <2>5
  <2> QED
    BY ZenonT(40), <2>1, <2>3, <2>4, <2>5, <2>6 DEF Service!Next
<1> QED
  BY <1>1, <1>2 DEF Talk

\* A handler starts with what the one before it left.
LEMMA StartServes ==
  ASSUME RInv, NEW bad \in Nat, NEW expired \in BOOLEAN
  PROVE  /\ Before(Start(bad, expired), Start(bad, expired))
         /\ Start(bad, expired).c = clt /\ Start(bad, expired).d = drv
         /\ Start(bad, expired).b = bus /\ drv.reqno \in Nat
<1>1. PICK s : s = Start(0, FALSE)
  OBVIOUS
<1>2. PICK t : t = Start(bad, expired)
  OBVIOUS
<1>3. ServeInv(s) /\ SInv
  BY <1>1 DEF RInv
<1>4. HandlerInv(t)
  BY <1>2, <1>3, Starts
<1>5. t.d = s.d /\ t.c = s.c /\ t.b = s.b /\ t.d = drv /\ t.c = clt /\ t.b = bus
  BY <1>1, <1>2 DEF Start
<1>6. ServeInv(t)
  BY <1>3, <1>5 DEF ServeInv, Waits
<1>7. drv.reqno \in Nat
  BY <1>4, <1>5 DEF HandlerInv, QueueInv, States, Drivers
<1>8. Before(t, t)
  BY <1>4, <1>6 DEF Before, Mute, SameTalk
<1> QED
  BY <1>2, <1>5, <1>7, <1>8

\* It leaves the memory and the boards to the next one.
LEMMA FinishServes ==
  ASSUME NEW t, ServeInv(t), Finish(t)
  PROVE  ServeInv(Start(0, FALSE))' /\ drv' = t.d /\ clt' = t.c
<1>1. drv' = t.d /\ clt' = t.c /\ bus' \subseteq t.b
  BY DEF Finish
<1>2. PICK s : s = [d |-> drv', c |-> clt', b |-> bus', bad |-> 0, drop |-> FALSE,
                    expired |-> FALSE]
  OBVIOUS
<1>3. s.d = t.d /\ s.c = t.c /\ s.b \subseteq t.b
  BY <1>1, <1>2
<1>4. ServeInv(s)
  BY <1>3 DEF ServeInv, Waits
<1>5. Start(0, FALSE)' = s
  BY <1>2 DEF Start
<1> QED
  BY <1>1, <1>4, <1>5

\* A read, and the timeout that may follow it, give at most one reply.
LEMMA ReadServes ==
  ASSUME RInv, InTime, DataReady \/ TimerPulse
  PROVE  RInv' /\ [Service!Next]_(Service!vars)
<1>1. PICK bad \in Nat, expired \in BOOLEAN :
        LET read == ProtocolInput(Start(bad, expired))
        IN Finish(read) \/ (read.expired /\ Finish(ProtocolTimeout(read)))
  BY SubbusCANAssumption DEF DataReady, TimerPulse, SubbusCANAssumption
<1>2. PICK s : s = Start(bad, expired)
  OBVIOUS
<1>3. Before(s, s) /\ s.c = clt /\ s.d = drv /\ s.b = bus /\ s.d.reqno \in Nat
  BY <1>2, StartServes
<1>4. PICK r : r = ProtocolInput(s)
  OBVIOUS
<1>5. Before(s, r) \/ After(s, r)
  <2>1. line \in Seq(Frames)
    BY DEF RInv, SInv
  <2>2. \A i \in 1..Len(line) : InTimeFrame(line[i], s.d.reqno)
    <3>1. ASSUME NEW i \in 1..Len(line) PROVE InTimeFrame(line[i], s.d.reqno)
      <4>1. i \in DOMAIN line /\ line[i] \in Frames
        BY <2>1, <3>1
      <4>2. Carries(line[i]) =>
              /\ line[i].tag \in Nat /\ Numbered(line[i], drv.reqno)
              /\ drv.reqno < line[i].tag + ReqIds
        BY <4>1 DEF RInv, LineInv, InTime, Carries
      <4> QED
        BY <1>3, <4>1, <4>2 DEF InTimeFrame
    <3> QED
      BY <3>1
  <2> QED
    BY <1>3, <1>4, <2>1, <2>2, InputServes
<1>6. PICK t : /\ Finish(t) /\ (t = r \/ (r.expired /\ t = ProtocolTimeout(r)))
  BY <1>1, <1>2, <1>4
<1>7. ServeInv(t) /\ Talk(s, t)
  <2>1. CASE t = r
    BY <1>5, <2>1 DEF Before, After, Talk
  <2>2. CASE r.expired /\ t = ProtocolTimeout(r)
    <3>1. Before(s, r)
      BY <1>5, <2>2 DEF After
    <3> QED
      BY <2>2, <3>1, TimeoutServes
  <2> QED
    BY <1>6, <2>1, <2>2
<1>8. ServeInv(Start(0, FALSE))' /\ drv' = t.d /\ clt' = t.c
  BY <1>6, <1>7, FinishServes
<1>9. SInv'
  BY ReadKeeps DEF RInv
<1>10. LineInv'
  <2>1. line' = <<>>
    BY DEF DataReady, TimerPulse
  <2> QED
    BY <2>1 DEF LineInv
<1>11. [Service!Next]_(Service!vars)
  BY <1>3, <1>7, <1>8, TalkIsNext
<1> QED
  BY <1>8, <1>9, <1>10, <1>11 DEF RInv

\* Frames sent remain sent.
LEMMA LineStays ==
  ASSUME LineInv, line' = line, drv.reqno \in Nat, drv'.reqno \in Nat,
         drv'.reqno >= drv.reqno
  PROVE  LineInv'
<1>1. ASSUME NEW i \in DOMAIN line, Carries(line[i])
      PROVE  line[i].tag \in Nat /\ Numbered(line[i], drv'.reqno)
  <2>1. line[i].tag \in Nat /\ line[i].tag < drv.reqno /\ line[i].id[2] = line[i].tag % ReqIds
    BY <1>1 DEF LineInv, Numbered
  <2> QED
    BY <2>1 DEF Numbered
<1> QED
  BY <1>1 DEF LineInv

\* A client asks.
LEMMA AskServes ==
  ASSUME RInv, NEW c \in Clients, NEW req \in Requests, Ask(c, req)
  PROVE  RInv' /\ [Service!Next]_(Service!vars)
<1>1. PICK u \in States :
        /\ QueueInv(u, {c}) /\ SentInv(u) /\ c \in Waits(u) /\ Finish(NextPart(u, c))
        /\ u.d = drv /\ u.b = bus /\ \A e \in Clients \ {c} : u.c[e] = clt[e]
        /\ u.c[c].asked = clt[c].asked + 1 /\ u.c[c].answered = clt[c].answered
        /\ u.c[c].answer = clt[c].answer /\ u.c[c].parts = Len(req)
        /\ u.c[c].todo = req /\ u.c[c].status = "ack" /\ u.c[c].vals = <<>>
  BY Asks DEF RInv
<1>2. PICK n \in 0..MaxParts : n = Len(req)
  <2>1. req \in Seq(Parts \cup {Syntax, Stray}) /\ Len(req) <= MaxParts /\ MaxParts \in Nat
    BY SubbusCANAssumption DEF SubbusCANAssumption
  <2>2. PICK k : k = Len(req)
    OBVIOUS
  <2>3. k \in Nat
    BY <2>1, <2>2
  <2>4. k \in 0..MaxParts
    BY <2>1, <2>2, <2>3
  <2> QED
    BY <2>2, <2>4
<1>3. PICK s : s = Start(0, FALSE)
  OBVIOUS
<1>4. ServeInv(s) /\ s.d = drv /\ s.c = clt /\ s.b = bus /\ drv.reqno \in Nat
  BY <1>3, StartServes DEF Before
<1>5. Serving(u.c[c])
  <2>1. <<>> \in Seq(Own) /\ Len(<<>>) + Len(req) = n
    BY <1>2, SubbusCANAssumption DEF SubbusCANAssumption
  <2> QED
    BY <1>1, <1>2, <2>1 DEF Serving
<1>6. ServeInv(u)
  <2>1. ASSUME NEW e \in Waits(u) PROVE Serving(u.c[e])
    <3>1. CASE e = c
      BY <1>5, <3>1
    <3>2. CASE e # c
      <4>1. e \in Waits(s) /\ u.c[e] = s.c[e]
        BY <1>1, <1>4, <2>1, <3>2 DEF Waits
      <4> QED
        BY <1>4, <4>1 DEF ServeInv
    <3> QED
      BY <3>1, <3>2
  <2> QED
    BY <1>1, <1>4, <2>1 DEF ServeInv
<1>7. PICK t : t = NextPart(u, c)
  OBVIOUS
<1>8. /\ HandlerInv(t) /\ ServeInv(t) /\ t.d.reqno >= u.d.reqno
      /\ Mute(u, t) \/ Tells(u, t, c)
  BY <1>1, <1>6, <1>7, NextPartTalks
<1>9. ServeInv(Start(0, FALSE))' /\ drv' = t.d /\ clt' = t.c
  BY <1>1, <1>7, <1>8, FinishServes
<1>10. SInv'
  BY AskKeeps DEF RInv
<1>11. LineInv'
  <2>1. drv'.reqno \in Nat
    BY <1>8, <1>9 DEF HandlerInv, QueueInv, States, Drivers
  <2>2. drv'.reqno >= drv.reqno /\ line' = line
    BY <1>1, <1>8, <1>9 DEF Ask
  <2> QED
    BY <1>4, <2>1, <2>2, LineStays DEF RInv
<1>12. clt[c].asked = clt[c].answered
  BY DEF Ask
<1>13. ASSUME \A e \in Clients \ {c} : SameTalk(clt'[e], clt[e]),
              clt'[c].asked = clt[c].asked + 1, clt'[c].parts = n
       PROVE  Service!Ask(c, n)
  BY <1>12, <1>13 DEF Service!Ask, SameTalk
<1>14. CASE Mute(u, t)
  <2>1. /\ \A e \in Clients \ {c} : SameTalk(clt'[e], clt[e])
        /\ clt'[c].asked = clt[c].asked + 1 /\ clt'[c].parts = n
        /\ clt'[c].answered = clt[c].answered /\ clt'[c].answer = clt[c].answer
    BY <1>1, <1>2, <1>9, <1>14 DEF Mute, SameTalk
  <2>2. Service!Ask(c, n)
    BY <1>13, <2>1
  <2>3. /\ [e \in Clients |-> clt'[e].answered] = [e \in Clients |-> clt[e].answered]
        /\ [e \in Clients |-> clt'[e].answer] = [e \in Clients |-> clt[e].answer]
    BY <2>1 DEF SameTalk
  <2>4. Service!Next
    BY ZenonT(40), <1>2, <2>2, <2>3 DEF Service!Next
  <2> QED
    BY <1>9, <1>10, <1>11, <2>4 DEF RInv
<1>15. CASE Tells(u, t, c)
  <2>1. /\ \A e \in Clients \ {c} : SameTalk(clt'[e], clt[e])
        /\ clt'[c].asked = clt[c].asked + 1 /\ clt'[c].parts = n
        /\ clt'[c].answered = clt[c].answered + 1
        /\ clt'[c].answer \in Service!Answers(n)
    BY <1>1, <1>2, <1>9, <1>15 DEF Tells, SameTalk
  <2>2. Service!Ask(c, n)
    BY <1>13, <2>1
  <2>3. PICK a \in Service!Answers(n) : Service!Reply(c, a)
    <3>1. PICK a : a = clt'[c].answer
      OBVIOUS
    <3> QED
      BY <2>1, <3>1 DEF Service!Reply, SameTalk
  <2>4. Service!Next
    BY ZenonT(40), <1>2, <2>2, <2>3 DEF Service!Next
  <2> QED
    BY <1>9, <1>10, <1>11, <2>4 DEF RInv
<1> QED
  BY <1>8, <1>14, <1>15

\* Nothing of the driver changes, and fewer frames may be under way.
LEMMA StandServes ==
  ASSUME ServeInv(Start(0, FALSE)), drv' = drv, clt' = clt,
         \A r \in bus' : Numbered(r, drv.reqno)
  PROVE  ServeInv(Start(0, FALSE))' /\ [Service!Next]_(Service!vars)
<1>1. PICK s : s = Start(0, FALSE)
  OBVIOUS
<1>2. PICK t : t = [d |-> drv', c |-> clt', b |-> bus', bad |-> 0, drop |-> FALSE,
                    expired |-> FALSE]
  OBVIOUS
<1>3. s.d = drv /\ s.c = clt /\ t.d = drv /\ t.c = clt /\ t.b = bus'
  BY <1>1, <1>2 DEF Start
<1>4. ServeInv(t)
  BY <1>1, <1>3 DEF ServeInv, Waits
<1>5. Start(0, FALSE)' = t
  BY <1>2 DEF Start
<1>6. [Service!Next]_(Service!vars)
  BY DEF Service!vars
<1> QED
  BY <1>4, <1>5, <1>6

\* The adapter and the boards send frames of requests that were sent.
LEMMA BoardsServe ==
  ASSUME RInv, AdapterOpens \/ AdapterIgnores \/ \E r \in bus : BoardSends(r)
  PROVE  RInv' /\ [Service!Next]_(Service!vars)
<1>1. PICK s : s = Start(0, FALSE)
  OBVIOUS
<1>2. ServeInv(s) /\ s.b = bus /\ s.d = drv /\ s \in States /\ drv.reqno \in Nat
  <2>1. ServeInv(s) /\ s.b = bus /\ s.d = drv /\ drv.reqno \in Nat /\ HandlerInv(s)
    BY <1>1, StartServes DEF Before
  <2> QED
    BY <2>1 DEF HandlerInv, QueueInv
<1>3. \A r \in bus : r \in Slots /\ Numbered(r, drv.reqno)
  BY <1>2 DEF ServeInv, States
<1>4. SInv' /\ line \in Seq(Frames) /\ LineInv
  BY BoardsKeep DEF RInv, SInv
<1>5. drv' = drv /\ clt' = clt
  BY DEF AdapterOpens, AdapterIgnores, BoardSends
<1>6. ASSUME NEW f, line' = Append(line, f),
             Carries(f) => f.tag \in Nat /\ Numbered(f, drv.reqno)
      PROVE  LineInv'
  <2>1. ASSUME NEW i \in DOMAIN line', Carries(line'[i])
        PROVE  line'[i].tag \in Nat /\ Numbered(line'[i], drv.reqno)
    <3>1. CASE i \in DOMAIN line
      <4>1. line'[i] = line[i]
        BY <1>4, <1>6, <3>1
      <4> QED
        BY <1>4, <2>1, <3>1, <4>1 DEF LineInv
    <3>2. CASE i \notin DOMAIN line
      <4>1. line'[i] = f
        BY <1>4, <1>6, <2>1, <3>2
      <4> QED
        BY <1>6, <2>1, <4>1
    <3> QED
      BY <3>1, <3>2
  <2> QED
    BY <1>5, <2>1 DEF LineInv
<1>7. ASSUME line' = line PROVE LineInv'
  BY <1>4, <1>5, <1>7 DEF LineInv
<1>8. \A k \in {"id", "noise"} : \A id, tag : ~Carries(Bare(k, id, tag))
  BY DEF Carries, Bare
<1>9. CASE AdapterOpens
  <2>1. LineInv'
    <3>1. PICK f : f = Bare("id", <<>>, -1)
      OBVIOUS
    <3>2. ~Carries(f) /\ line' = Append(line, f)
      BY <1>8, <1>9, <3>1 DEF AdapterOpens
    <3> QED
      BY <1>6, <3>2
  <2>2. bus' = bus
    BY <1>9 DEF AdapterOpens
  <2> QED
    BY <1>3, <1>4, <1>5, <2>1, <2>2, StandServes DEF RInv
<1>10. CASE AdapterIgnores
  <2>1. LineInv' /\ bus' = {}
    BY <1>7, <1>10 DEF AdapterIgnores
  <2> QED
    BY <1>4, <1>5, <2>1, StandServes DEF RInv
<1>11. ASSUME NEW r \in bus, BoardSends(r) PROVE RInv' /\ [Service!Next]_(Service!vars)
  <2>1. r.tag \in Nat /\ r \in Slots /\ Numbered(r, drv.reqno)
    BY <1>3 DEF Slots
  <2>2. PICK x : x = [r EXCEPT !.next = @ + 1]
    OBVIOUS
  <2>3. Numbered(x, drv.reqno)
    <3>1. x.tag = r.tag /\ x.id = r.id
      BY <2>1, <2>2 DEF Slots
    <3> QED
      BY <2>1, <3>1 DEF Numbered
  <2>4. bus' \subseteq bus \cup {x}
    BY <1>11, <2>2 DEF BoardSends
  <2>5. \A y \in bus' : Numbered(y, drv.reqno)
    BY <1>3, <2>3, <2>4
  <2>6. LineInv'
    <3>1. PICK f : f = [kind |-> "data", id |-> r.id, seq |-> r.next, len |-> r.len,
                        tag |-> r.tag]
      OBVIOUS
    <3>2. PICK z : z = Bare("noise", <<>>, -1)
      OBVIOUS
    <3>3. \/ line' = line \/ line' = Append(line, z) \/ line' = Append(line, f)
          \/ \E kind \in {"nack", "err"} : line' = Append(line, Bare(kind, r.id, r.tag))
      BY <1>11, <3>1, <3>2 DEF BoardSends
    <3>4. Carries(f) => f.tag \in Nat /\ Numbered(f, drv.reqno)
      BY <2>1, <3>1 DEF Numbered
    <3>5. ~Carries(z)
      BY <1>8, <3>2
    <3>6. ASSUME NEW kind \in {"nack", "err"}, line' = Append(line, Bare(kind, r.id, r.tag))
          PROVE  LineInv'
      <4>1. PICK g : g = Bare(kind, r.id, r.tag)
        OBVIOUS
      <4>2. g.tag \in Nat /\ Numbered(g, drv.reqno)
        BY <2>1, <4>1 DEF Numbered, Bare
      <4> QED
        BY <1>6, <3>6, <4>1, <4>2
    <3> QED
      BY <1>6, <1>7, <3>3, <3>4, <3>5, <3>6
  <2> QED
    BY <1>4, <1>5, <2>5, <2>6, StandServes DEF RInv
<1> QED
  BY <1>9, <1>10, <1>11

\* Every step of the driver is one of the service, or changes nothing of it.
LEMMA NextServes ==
  RInv /\ InTime /\ [Next]_vars => RInv' /\ [Service!Next]_(Service!vars)
<1>1. SUFFICES ASSUME RInv, InTime, [Next]_vars
               PROVE  RInv' /\ [Service!Next]_(Service!vars)
  OBVIOUS
<1>2. CASE \E c \in Clients, req \in Requests : Ask(c, req)
  BY <1>1, <1>2, AskServes
<1>3. CASE DataReady \/ TimerPulse
  BY <1>1, <1>3, ReadServes
<1>4. CASE AdapterOpens \/ AdapterIgnores \/ \E r \in bus : BoardSends(r)
  BY <1>1, <1>4, BoardsServe
<1>5. CASE TimerFires \/ UNCHANGED vars
  <2>1. drv' = drv /\ clt' = clt /\ bus' = bus /\ line' = line
    BY <1>5 DEF TimerFires, vars
  <2>2. SInv'
    BY <1>1, NextKeeps DEF RInv
  <2>3. \A r \in bus' : Numbered(r, drv.reqno)
    <3>1. PICK s : s = Start(0, FALSE)
      OBVIOUS
    <3>2. ServeInv(s) /\ s.b = bus /\ s.d = drv
      BY <1>1, <3>1 DEF RInv, Start
    <3> QED
      BY <2>1, <3>2 DEF ServeInv
  <2>4. ServeInv(Start(0, FALSE))' /\ [Service!Next]_(Service!vars)
    BY <1>1, <2>1, <2>3, StandServes DEF RInv
  <2>5. LineInv'
    BY <1>1, <2>1 DEF RInv, LineInv
  <2> QED
    BY <2>2, <2>4, <2>5 DEF RInv
<1> QED
  BY <1>1, <1>2, <1>3, <1>4, <1>5 DEF Next

\* At first nobody has asked.
LEMMA InitServes == Init => RInv /\ Service!Init
<1>1. SUFFICES ASSUME Init PROVE RInv /\ Service!Init
  OBVIOUS
<1>2. SInv
  BY <1>1, InitHolds
<1>3. /\ \A c \in Clients : clt[c].asked = 0 /\ clt[c].answered = 0 /\ clt[c].parts = 0
      /\ \A c \in Clients : clt[c].answer = Service!NoAnswer
  BY <1>1 DEF Init, Service!NoAnswer
<1>4. Service!Init
  BY <1>3 DEF Service!Init
<1>5. PICK s : s = Start(0, FALSE)
  OBVIOUS
<1>6. s.d = drv /\ s.c = clt /\ s.b = {} /\ drv.own /\ ~drv.pending
  BY <1>1, <1>5 DEF Init, Start
<1>7. ServeInv(s)
  BY <1>3, <1>6 DEF ServeInv, Waits
<1>8. LineInv
  BY <1>1 DEF Init, LineInv
<1> QED
  BY <1>2, <1>4, <1>5, <1>7, <1>8 DEF RInv

\* The driver does what the service promises, whatever the boards send, lose or
\* delay: a client that asks gets one reply, with a value of its own or a zero
\* for each part of its request, unless it is an error.  It is so as long as no
\* answer is read when the numbers have come round to its own again.
THEOREM ServiceKept == Spec /\ []InTime => ServiceSpec
<1>1. Init => RInv /\ Service!Init
  BY InitServes
<1>2. RInv /\ InTime /\ [Next]_vars => RInv' /\ [Service!Next]_(Service!vars)
  BY NextServes
<1> QED
  BY <1>1, <1>2, PTL DEF Spec, ServiceSpec, Service!Spec
=============================================================================
