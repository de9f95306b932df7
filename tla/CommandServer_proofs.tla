------------------------ MODULE CommandServer_proofs ------------------------
(***************************************************************************)
(* Proofs about the command server: whatever the readers do, a message is  *)
(* counted as often as readers refer to it, nobody waits while there is    *)
(* something to read, and a reader gets the bytes of the messages in their *)
(* order.  read_reply works on a state s of an interface, so the           *)
(* invariants are about s; an induction over the blocked readers           *)
(* (Lemmas) carries them through cmdif_rd::Turf.                           *)
(***************************************************************************)
EXTENDS CommandServer, Lemmas, SequenceTheorems

-----------------------------------------------------------------------------
(* The inductive invariant *)

OCBs == [open : BOOLEAN, next : Msgs, off : Nat, want : Nat]
Data == Msgs \X Int

Servers ==
  [ocb : [Readers -> OCBs], len : [Msgs -> Nat], ref : [Msgs -> Nat],
   head : Msgs, last : Msgs, got : [Readers -> Seq(Data)]]

\* The readers of interface i, and those whose next message is m
Has(i, s) == {r \in Readers : s.ocb[r].open /\ NodeOf[r] = i}
At(i, s, m) == {r \in Has(i, s) : s.ocb[r].next = m}

\* The list and its reference counts.
ServerInv(i, s) ==
  /\ s \in Servers
  /\ s.head <= s.last
  /\ \A m \in Msgs : m >= s.last => s.len[m] = 0
  /\ \A m \in Msgs : s.ref[m] = IF m < s.head THEN 0 ELSE Cardinality(At(i, s, m))
  /\ \A r \in Has(i, s) :
       /\ s.head <= s.ocb[r].next /\ s.ocb[r].next <= s.last
       /\ s.ocb[r].off = 0 \/ s.ocb[r].off < s.len[s.ocb[r].next]

\* What reader r has read, from message m on.
WholeOf(l, m) == IF l[m] = 0 THEN <<<<m, -1>>>> ELSE Bytes(m, 0, l[m])

Wholes(l, m, n) == [k \in 1..n - m |-> WholeOf(l, m + k - 1)]

ReadOk(s, m, r) ==
  /\ m <= s.ocb[r].next
  /\ s.got[r] = FlattenSeq(Wholes(s.len, m, s.ocb[r].next))
                \o Bytes(s.ocb[r].next, 0, s.ocb[r].off)

\* Readers that wait, in a read (q) or to be notified (a).
Waiting(i, s, q, a) ==
  /\ q \in Seq(Readers) /\ IsInjective(q)
  /\ ToSet(q) = {r \in Has(i, s) : s.ocb[r].want > 0}
  /\ \A r \in Has(i, s) : s.ocb[r].want > 0 \/ r \in a =>
       s.ocb[r].next = s.last /\ s.ocb[r].off = 0

InterfaceInv(i, s, q, a, st) ==
  /\ ServerInv(i, s)
  /\ Waiting(i, s, q, a)
  /\ \A r \in Has(i, s) : ReadOk(s, st[r], r)

Types ==
  /\ alive \in BOOLEAN /\ quit \in BOOLEAN /\ up \in [Interfaces -> BOOLEAN]
  /\ wopen \subseteq Writers /\ start \in [Readers -> Msgs]
  /\ armed \subseteq {r \in Readers : ocb[r].open}
  /\ blocked \in [Interfaces -> Seq(Readers)]
  /\ head \in [Interfaces -> Msgs] /\ last \in [Interfaces -> Msgs]
  /\ len \in [Interfaces -> [Msgs -> Nat]] /\ ref \in [Interfaces -> [Msgs -> Nat]]
  /\ ocb \in [Readers -> OCBs] /\ got \in [Readers -> Seq(Data)]

Room == \A i \in Interfaces : last[i] <= IF quit THEN MaxMsgs + 1 ELSE MaxMsgs

CInv ==
  /\ Types /\ Room
  /\ \A i \in Interfaces : InterfaceInv(i, Server(i), blocked[i], armed, start)

-----------------------------------------------------------------------------
(* Bytes *)

\* What a read takes is a sequence.
LEMMA BytesType ==
  ASSUME NEW m \in Msgs, NEW off \in Nat, NEW n \in Nat
  PROVE  Bytes(m, off, n) \in Seq(Data) /\ Len(Bytes(m, off, n)) = n
<1>1. \A k \in 1..n : <<m, off + k - 1>> \in Data
  BY DEF Data
<1>2. Bytes(m, off, n) \in Seq(Data)
  BY <1>1 DEF Bytes
<1>3. Len(Bytes(m, off, n)) = n
  BY <1>1 DEF Bytes
<1> QED
  BY <1>2, <1>3

\* A message is read piece by piece.
LEMMA BytesJoin ==
  ASSUME NEW m \in Msgs, NEW a \in Nat, NEW n \in Nat
  PROVE  Bytes(m, 0, a) \o Bytes(m, a, n) = Bytes(m, 0, a + n)
<1>1. PICK p, q, u : p = Bytes(m, 0, a) /\ q = Bytes(m, a, n) /\ u = Bytes(m, 0, a + n)
  OBVIOUS
<1>2. /\ p \in Seq(Data) /\ Len(p) = a /\ q \in Seq(Data) /\ Len(q) = n
      /\ u \in Seq(Data) /\ Len(u) = a + n
  <2>1. a + n \in Nat /\ 0 \in Nat
    OBVIOUS
  <2> QED
    BY <1>1, <2>1, BytesType
<1>3. /\ \A k \in 1..a : p[k] = <<m, k - 1>>
      /\ \A k \in 1..n : q[k] = <<m, a + k - 1>>
      /\ \A k \in 1..a + n : u[k] = <<m, k - 1>>
  BY <1>1 DEF Bytes
<1>4. p \o q \in Seq(Data) /\ Len(p \o q) = a + n
  BY <1>2
<1>5. ASSUME NEW k \in 1..a + n PROVE (p \o q)[k] = u[k]
  <2>1. (p \o q)[k] = IF k <= a THEN p[k] ELSE q[k - a]
    BY <1>2, ConcatProperties
  <2>2. CASE k <= a
    <3>1. k \in 1..a
      BY <2>2
    <3> QED
      BY <1>3, <2>1, <3>1
  <2>3. CASE ~(k <= a)
    <3>1. k - a \in 1..n /\ a + (k - a) - 1 = k - 1
      BY <2>3
    <3> QED
      BY <1>3, <2>1, <2>3, <3>1
  <2> QED
    BY <2>2, <2>3
<1>6. p \o q = u
  <2>1. PICK v \in Seq(Data) : v = p \o q
    BY <1>4
  <2> QED
    BY <1>2, <1>4, <1>5, <2>1, SeqEqual
<1> QED
  BY <1>1, <1>6

\* Concatenation.
LEMMA Joins ==
  ASSUME NEW X, NEW a \in Seq(X), NEW b \in Seq(X), NEW c \in Seq(X)
  PROVE  a \o b \in Seq(X) /\ (a \o b) \o c = a \o (b \o c) /\ a \o <<>> = a /\ <<>> \o a = a
BY ConcatProperties, ConcatAssociative, ConcatEmptySeq

\* The messages a reader has read whole are sequences, one more with each.
LEMMA WholesType ==
  ASSUME NEW l \in [Msgs -> Nat], NEW m \in Msgs, NEW n \in Msgs, m <= n
  PROVE  /\ Wholes(l, m, n) \in Seq(Seq(Data)) /\ WholeOf(l, n) \in Seq(Data)
         /\ Wholes(l, m, n + 1) = Append(Wholes(l, m, n), WholeOf(l, n))
         /\ Wholes(l, m, m) = <<>>
<1> DEFINE Y == Seq(Data)
<1>0. m \in Nat /\ n \in Nat
  BY DEF Msgs
<1>1. ASSUME NEW k \in Msgs PROVE WholeOf(l, k) \in Y
  <2>1. l[k] \in Nat
    OBVIOUS
  <2>2. Bytes(k, 0, l[k]) \in Y
    BY <2>1, BytesType
  <2>3. <<k, -1>> \in Data
    BY DEF Data
  <2>4. <<<<k, -1>>>> \in Y
    BY <2>3
  <2> QED
    BY <2>2, <2>4 DEF WholeOf
<1>2. \A k \in 1..(n + 1) - m : m + k - 1 \in Msgs
  BY <1>0, CommandServerAssumption DEF Msgs, CommandServerAssumption
<1> HIDE DEF Y
<1>3. PICK d \in Nat : d = n - m
  BY <1>0
<1>4. (n + 1) - m = d + 1 /\ m + (d + 1) - 1 = n
  BY <1>0, <1>3
<1>5. \A k \in 1..d + 1 : WholeOf(l, m + k - 1) \in Y
  BY <1>1, <1>2, <1>4
<1>6. PICK w, v : w = Wholes(l, m, n) /\ v = Wholes(l, m, n + 1)
  OBVIOUS
<1>7. w = [k \in 1..d |-> WholeOf(l, m + k - 1)] /\ v = [k \in 1..d + 1 |-> WholeOf(l, m + k - 1)]
  BY <1>3, <1>4, <1>6 DEF Wholes
<1>8. w \in Seq(Y) /\ Len(w) = d
  BY <1>5, <1>7
<1>9. v \in Seq(Y) /\ Len(v) = d + 1
  BY <1>5, <1>7
<1>10. PICK x \in Y : x = WholeOf(l, n)
  BY <1>1
<1>11. v = Append(w, x)
  <2>1. Append(w, x) \in Seq(Y) /\ Len(Append(w, x)) = d + 1
    BY <1>8, Appended
  <2>2. ASSUME NEW k \in 1..d + 1 PROVE v[k] = Append(w, x)[k]
    <3>1. CASE k = d + 1
      <4>1. v[k] = WholeOf(l, n)
        BY <1>4, <1>7, <3>1
      <4> QED
        BY <1>8, <1>10, <3>1, <4>1, Appended
    <3>2. CASE k # d + 1
      <4>1. k \in 1..d
        BY <3>2
      <4> QED
        BY <1>7, <1>8, <4>1, Appended
    <3> QED
      BY <3>1, <3>2
  <2>3. PICK z \in Seq(Y) : z = Append(w, x)
    BY <2>1
  <2> QED
    BY <1>9, <2>1, <2>2, <2>3
<1>12. Wholes(l, m, m) = <<>>
  <2>1. m - m = 0
    BY <1>0
  <2>2. 1..0 = {}
    OBVIOUS
  <2> QED
    BY <2>1, <2>2 DEF Wholes
<1> QED
  BY <1>1, <1>6, <1>8, <1>10, <1>11, <1>12 DEF Y

-----------------------------------------------------------------------------
(* read_reply *)

\* What is sent, and the counts when the reader goes on
Piece(o, rest, n) == IF rest = 0 THEN <<<<o.next, -1>>>> ELSE Bytes(o.next, o.off, n)

Moved(s, o) == [s.ref EXCEPT ![o.next] = @ - 1, ![o.next + 1] = @ + 1]

AfterThrough(s, r, o, rest) ==
  [s EXCEPT !.ocb = [s.ocb EXCEPT ![r] = Through(o)], !.ref = Moved(s, o),
            !.head = IF FreesHead(s, Moved(s, o)) THEN @ + 1 ELSE @,
            !.got = [s.got EXCEPT ![r] = @ \o Piece(o, rest, rest)]]

AfterPart(s, r, o, rest) ==
  [s EXCEPT !.ocb = [s.ocb EXCEPT ![r] = [o EXCEPT !.off = @ + o.want, !.want = 0]],
            !.got = [s.got EXCEPT ![r] = @ \o Piece(o, rest, o.want)]]

\* The reader is through with the message, or takes a part of it.
LEMMA ReplyIs ==
  ASSUME NEW s \in Servers, NEW r \in Readers,
         NEW o, o = s.ocb[r], NEW rest, rest = s.len[o.next] - o.off
  PROVE  /\ o.want >= rest => ReadReply(s, r) = AfterThrough(s, r, o, rest)
         /\ ~(o.want >= rest) => ReadReply(s, r) = AfterPart(s, r, o, rest)
<1> DEFINE n == IF o.want > rest THEN rest ELSE o.want
           through == n = rest
           ref1 == IF through THEN [s.ref EXCEPT ![o.next] = @ - 1, ![o.next + 1] = @ + 1]
                   ELSE s.ref
           o1 == IF through THEN Through(o) ELSE [o EXCEPT !.off = @ + n, !.want = 0]
           x == IF rest = 0 THEN <<<<o.next, -1>>>> ELSE Bytes(o.next, o.off, n)
           h == IF through /\ FreesHead(s, ref1) THEN s.head + 1 ELSE s.head
<1>1. ReadReply(s, r) = [s EXCEPT !.ocb[r] = o1, !.ref = ref1, !.head = h,
                                  !.got[r] = @ \o x]
  BY DEF ReadReply
<1>2. o \in OCBs /\ o.want \in Nat /\ rest \in Int
  <2>1. o \in OCBs
    BY DEF Servers
  <2>2. o.want \in Nat /\ o.next \in Msgs /\ o.off \in Nat
    BY <2>1 DEF OCBs
  <2>3. s.len[o.next] \in Nat
    BY SMTT(40), <2>2 DEF Servers
  <2> QED
    BY <2>1, <2>2, <2>3
<1>3. CASE o.want >= rest
  <2>1. n = rest
    BY <1>2, <1>3
  <2>2. through
    BY <2>1
  <2> DEFINE f == Moved(s, o)
  <2>3. ref1 = f /\ o1 = Through(o) /\ h = IF FreesHead(s, f) THEN s.head + 1 ELSE s.head
    BY <2>2 DEF Moved
  <2>4. x = Piece(o, rest, rest)
    BY <2>1 DEF Piece
  <2> HIDE DEF ref1, o1, h, x, through, n
  <2>5. ReadReply(s, r) = [s EXCEPT !.ocb = [s.ocb EXCEPT ![r] = Through(o)], !.ref = f,
                             !.head = IF FreesHead(s, f) THEN @ + 1 ELSE @,
                             !.got = [s.got EXCEPT ![r] = @ \o x]]
    BY <1>1, <2>3
  <2> QED
    BY <1>3, <2>4, <2>5 DEF AfterThrough
<1>4. CASE ~(o.want >= rest)
  <2>1. n = o.want /\ n # rest
    BY <1>2, <1>4
  <2>2. ~through
    BY <2>1
  <2>3. ref1 = s.ref /\ o1 = [o EXCEPT !.off = @ + o.want, !.want = 0] /\ h = s.head
    BY <2>1, <2>2
  <2>4. x = Piece(o, rest, o.want)
    BY <2>1 DEF Piece
  <2> HIDE DEF ref1, o1, h, x, through, n
  <2>5. ReadReply(s, r) = [s EXCEPT !.ocb = [s.ocb EXCEPT ![r] =
                                              [o EXCEPT !.off = @ + o.want, !.want = 0]],
                                    !.got = [s.got EXCEPT ![r] = @ \o x]]
    BY ZenonT(40), <1>1, <2>3 DEF Servers
  <2> QED
    BY <1>4, <2>4, <2>5 DEF AfterPart
<1> QED
  BY <1>3, <1>4

\* Counting the readers of a message.
LEMMA Counts ==
  ASSUME NEW S, NEW r, IsFiniteSet(S)
  PROVE  /\ Cardinality(S) \in Nat
         /\ Cardinality(S) = 0 => S = {}
         /\ r \in S => Cardinality(S) >= 1 /\ Cardinality(S \ {r}) = Cardinality(S) - 1
         /\ r \notin S => Cardinality(S \cup {r}) = Cardinality(S) + 1
<1>1. Cardinality(S) \in Nat /\ (Cardinality(S) = 0 <=> S = {})
  BY FS_CardinalityType, FS_EmptySet
<1>2. r \in S => Cardinality(S \ {r}) = Cardinality(S) - 1
  BY FS_RemoveElement
<1>3. r \notin S => Cardinality(S \cup {r}) = Cardinality(S) + 1
  BY FS_AddElement
<1>4. r \in S => Cardinality(S) >= 1
  BY <1>1
<1> QED
  BY <1>1, <1>2, <1>3, <1>4

\* The readers of a message are finitely many.
LEMMA AtFinite ==
  ASSUME NEW i, NEW s, NEW m
  PROVE  IsFiniteSet(At(i, s, m))
<1>1. At(i, s, m) \in SUBSET Readers
  BY DEF At, Has
<1> QED
  BY <1>1, FS_Subset, CommandServerAssumption DEF CommandServerAssumption

\* What is left to read, and the two outcomes
Rest(s, r) == s.len[s.ocb[r].next] - s.ocb[r].off

Replied(i, s, r, t, o, x) ==
  /\ ServerInv(i, t) /\ t.len = s.len /\ t.last = s.last
  /\ t.ocb[r] = o /\ t.got[r] = s.got[r] \o x
  /\ \A u \in Readers \ {r} : t.ocb[u] = s.ocb[u] /\ t.got[u] = s.got[u]

GoesOn(i, s, r, t) ==
  Replied(i, s, r, t, Through(s.ocb[r]), Piece(s.ocb[r], Rest(s, r), Rest(s, r)))

StaysWith(i, s, r, t) ==
  Replied(i, s, r, t, [s.ocb[r] EXCEPT !.off = @ + s.ocb[r].want, !.want = 0],
          Bytes(s.ocb[r].next, s.ocb[r].off, s.ocb[r].want))

\* A reader that is through with a message goes on to the next.
LEMMA ReplyThrough ==
  ASSUME NEW i, NEW s, ServerInv(i, s), NEW r \in Has(i, s), s.ocb[r].next < s.last,
         s.ocb[r].want >= Rest(s, r)
  PROVE  GoesOn(i, s, r, ReadReply(s, r))
<1> SUFFICES ASSUME NEW o, o = s.ocb[r], NEW rest, rest = Rest(s, r),
                    NEW t, t = ReadReply(s, r)
             PROVE  GoesOn(i, s, r, t)
  OBVIOUS
<1>0. o.next < s.last /\ rest = s.len[o.next] - o.off /\ o.want >= rest
  BY DEF Rest
<1> USE <1>0
<1>1. /\ s \in Servers /\ r \in Readers /\ o \in OCBs /\ o.open /\ NodeOf[r] = i
      /\ s.head \in Msgs /\ s.last \in Msgs /\ s.ref \in [Msgs -> Nat]
      /\ s.ocb \in [Readers -> OCBs] /\ s.got \in [Readers -> Seq(Data)]
      /\ s.len \in [Msgs -> Nat]
  BY DEF ServerInv, Has, Servers
<1>2. o.next \in Msgs /\ o.off \in Nat /\ o.want \in Nat /\ s.head <= o.next
  BY <1>1 DEF OCBs, ServerInv
<1>3. /\ Msgs \subseteq Nat /\ o.next + 1 \in Msgs /\ s.head < s.last /\ s.head + 1 \in Msgs
      /\ o.next + 1 <= s.last /\ s.head + 1 <= s.last
  <2>1. PICK N \in Nat : N = MaxMsgs + 2
    BY CommandServerAssumption DEF CommandServerAssumption
  <2>2. Msgs = 0..N
    BY <2>1 DEF Msgs
  <2>3. PICK a, b, c \in 0..N : a = s.head /\ b = o.next /\ c = s.last
    BY <1>1, <1>2, <2>2
  <2>4. a <= b /\ b < c
    BY <1>2, <2>3
  <2>5. b + 1 \in 0..N /\ a < c /\ a + 1 \in 0..N /\ b + 1 <= c /\ a + 1 <= c
    BY <2>4
  <2> QED
    BY <2>2, <2>3, <2>5
<1>4. PICK p : p = Through(o)
  OBVIOUS
<1>5. p \in OCBs /\ p.next = o.next + 1 /\ p.off = 0 /\ p.want = 0 /\ p.open = o.open
  <2>1. PICK n \in Msgs : n = o.next + 1
    BY <1>3
  <2>2. p = [o EXCEPT !.next = n, !.off = 0, !.want = 0]
    BY <1>4, <2>1 DEF Through
  <2>3. p \in OCBs /\ p.next = n /\ p.off = 0 /\ p.want = 0 /\ p.open = o.open
    BY <1>1, <2>2 DEF OCBs
  <2> QED
    BY <1>1, <2>1, <2>3
<1>6. PICK b : b = [s.ocb EXCEPT ![r] = p]
  OBVIOUS
<1>7. b \in [Readers -> OCBs] /\ b[r] = p /\ \A u \in Readers \ {r} : b[u] = s.ocb[u]
  BY SMTT(40), <1>1, <1>5, <1>6
<1>8. PICK x \in Seq(Data) : x = Piece(o, rest, rest)
  <2>1. rest \in Nat
    <3>1. s.len[o.next] \in Nat
      BY <1>1, <1>2
    <3>2. o.off = 0 \/ o.off < s.len[o.next]
      BY <1>1 DEF ServerInv
    <3> QED
      BY <1>2, <3>1, <3>2
  <2>2. Bytes(o.next, o.off, rest) \in Seq(Data)
    BY <1>2, <2>1, BytesType
  <2>3. <<o.next, -1>> \in Data
    BY <1>2 DEF Data
  <2>4. <<<<o.next, -1>>>> \in Seq(Data)
    BY <2>3
  <2> QED
    BY <2>2, <2>4 DEF Piece
<1>9. PICK g : g = [s.got EXCEPT ![r] = @ \o x]
  OBVIOUS
<1>10. g \in [Readers -> Seq(Data)] /\ g[r] = s.got[r] \o x
       /\ \A u \in Readers \ {r} : g[u] = s.got[u]
  <2>1. s.got[r] \o x \in Seq(Data)
    BY <1>1, <1>8, ConcatProperties
  <2> QED
    BY SMTT(40), <1>1, <1>9, <2>1
<1>11. PICK f : f = Moved(s, o)
  OBVIOUS
<1>12. \A m \in Msgs : f[m] = IF m = o.next + 1 THEN s.ref[m] + 1
                              ELSE IF m = o.next THEN s.ref[m] - 1 ELSE s.ref[m]
  BY <1>1, <1>2, <1>3, <1>11 DEF Moved
<1>13. DOMAIN f = Msgs
  BY <1>1, <1>11 DEF Moved
\* the counts of the readers of each message
<1> DEFINE A(m) == At(i, s, m)
           B(m) == {u \in Has(i, s) : b[u].next = m}
<1>14. /\ r \in A(o.next) /\ r \notin A(o.next + 1)
       /\ B(o.next) = A(o.next) \ {r} /\ B(o.next + 1) = A(o.next + 1) \cup {r}
       /\ \A m \in Msgs : m # o.next /\ m # o.next + 1 => B(m) = A(m)
  <2>0. \A k \in Nat : k # k + 1
    OBVIOUS
  <2>1. Has(i, s) \subseteq Readers /\ s.ocb[r].next = o.next /\ b[r].next = o.next + 1
        /\ o.next # o.next + 1
    <3>1. o.next # o.next + 1
      BY <1>2, <1>3, <2>0
    <3>2. b[r].next = o.next + 1 /\ s.ocb[r].next = o.next
      BY <1>5, <1>7
    <3> QED
      BY <3>1, <3>2 DEF Has
  <2>2. \A u \in Has(i, s) : u # r => b[u].next = s.ocb[u].next
    BY <1>7, <2>1
  <2> QED
    BY <2>1, <2>2 DEF At
<1>15. ASSUME NEW m \in Msgs
       PROVE  f[m] = (IF m < s.head THEN 0 ELSE Cardinality(B(m))) /\ f[m] \in Nat
  <2>1. IsFiniteSet(A(m)) /\ s.ref[m] = IF m < s.head THEN 0 ELSE Cardinality(A(m))
    BY AtFinite DEF ServerInv
  <2>2. m \in Nat /\ o.next \in Nat /\ s.head \in Nat
    BY <1>1, <1>2, <1>3
  <2> HIDE DEF A, B
  <2>3. CASE m = o.next
    <3>1. ~(m < s.head) /\ m # o.next + 1
      BY <1>2, <2>2, <2>3
    <3>2. s.ref[m] = Cardinality(A(m)) /\ r \in A(m) /\ B(m) = A(m) \ {r}
      BY <1>14, <2>1, <2>3, <3>1
    <3>3. Cardinality(A(m)) \in Nat /\ Cardinality(A(m)) >= 1
          /\ Cardinality(B(m)) = Cardinality(A(m)) - 1
      BY <2>1, <3>2, Counts
    <3> QED
      BY <1>12, <2>3, <3>1, <3>2, <3>3
  <2>4. CASE m = o.next + 1
    <3>1. ~(m < s.head)
      BY <1>2, <2>2, <2>4
    <3>2. s.ref[m] = Cardinality(A(m)) /\ r \notin A(m) /\ B(m) = A(m) \cup {r}
      BY <1>14, <2>1, <2>4, <3>1
    <3>3. Cardinality(A(m)) \in Nat /\ Cardinality(B(m)) = Cardinality(A(m)) + 1
      BY <2>1, <3>2, Counts
    <3> QED
      BY <1>12, <2>4, <3>1, <3>2, <3>3
  <2>5. CASE m # o.next /\ m # o.next + 1
    <3>1. f[m] = s.ref[m] /\ B(m) = A(m) /\ s.ref[m] \in Nat
      BY <1>1, <1>12, <1>14, <2>5
    <3> QED
      BY <2>1, <3>1
  <2> QED
    BY <2>3, <2>4, <2>5
<1>16. f \in [Msgs -> Nat]
  <2>1. f = [m \in Msgs |-> f[m]]
    BY <1>1, <1>11 DEF Moved
  <2> QED
    BY <1>15, <2>1
<1>17. PICK h : h = IF FreesHead(s, f) THEN s.head + 1 ELSE s.head
  OBVIOUS
<1>26. s.head \in Nat /\ s.head <= s.last /\ s.head <= s.head /\ s.head <= s.head + 1
  <2>1. \A k \in Nat : k <= k /\ k <= k + 1
    OBVIOUS
  <2> QED
    BY <1>1, <1>3, <2>1 DEF ServerInv
<1>18. h \in Msgs /\ h <= s.last /\ s.head <= h
       /\ (h # s.head => h = s.head + 1 /\ f[s.head] = 0)
  <2>1. CASE FreesHead(s, f)
    <3>1. h = s.head + 1 /\ f[s.head] = 0
      BY <1>17, <2>1 DEF FreesHead
    <3> QED
      BY <1>3, <1>26, <3>1
  <2>2. CASE ~FreesHead(s, f)
    <3>1. h = s.head
      BY SMTT(40), <1>17, <2>2
    <3> QED
      BY <1>1, <1>26, <3>1
  <2> QED
    BY <2>1, <2>2
<1>19. t = [s EXCEPT !.ocb = b, !.ref = f, !.head = h, !.got = g]
  <2>1. t = AfterThrough(s, r, o, rest)
    BY ZenonT(40), <1>1, ReplyIs
  <2> QED
    BY <1>4, <1>6, <1>8, <1>9, <1>11, <1>17, <2>1 DEF AfterThrough
<1>20. /\ t \in Servers /\ t.ocb = b /\ t.ref = f /\ t.head = h /\ t.got = g
       /\ t.len = s.len /\ t.last = s.last
  BY <1>1, <1>7, <1>10, <1>16, <1>18, <1>19 DEF Servers
<1>21. Has(i, t) = Has(i, s)
  <2>1. \A u \in Readers : b[u].open = s.ocb[u].open
    <3> HIDE DEF A, B
    <3>1. b[r].open = s.ocb[r].open
      BY <1>5, <1>7
    <3> QED
      BY <1>7, <3>1
  <2> QED
    BY <1>20, <2>1 DEF Has
<1>22. \A m \in Msgs : At(i, t, m) = B(m)
  BY <1>20, <1>21 DEF At
<1> HIDE DEF A, B
<1>23. \A m \in Msgs : t.ref[m] = IF m < t.head THEN 0 ELSE Cardinality(At(i, t, m))
  <2>1. SUFFICES ASSUME NEW m \in Msgs
                 PROVE  f[m] = IF m < h THEN 0 ELSE Cardinality(B(m))
    BY <1>20, <1>22
  <2>2. f[m] = IF m < s.head THEN 0 ELSE Cardinality(B(m))
    BY <1>15
  <2>3. m \in Nat /\ h \in Nat /\ s.head \in Nat
    BY <1>1, <1>3, <1>18
  <2>4. CASE h = s.head
    BY <2>2, <2>4
  <2>5. CASE h # s.head
    <3>1. h = s.head + 1 /\ f[s.head] = 0
      BY <1>18, <2>5
    <3> QED
      BY <2>2, <2>3, <3>1
  <2> QED
    BY <2>4, <2>5
<1>24. ASSUME NEW u \in Has(i, t)
       PROVE  /\ t.head <= t.ocb[u].next /\ t.ocb[u].next <= t.last
              /\ t.ocb[u].off = 0 \/ t.ocb[u].off < t.len[t.ocb[u].next]
  <2>1. u \in Has(i, s) /\ u \in Readers
    BY <1>21 DEF Has
  <2>2. /\ s.head <= b[u].next /\ b[u].next <= s.last
        /\ b[u].off = 0 \/ b[u].off < s.len[b[u].next]
    <3>1. CASE u = r
      <4>1. b[u].next = o.next + 1 /\ b[u].off = 0
        BY <1>5, <1>7, <3>1
      <4>2. PICK k, a \in Nat : k = o.next /\ a = s.head
        BY <1>2, <1>3, <1>26
      <4>3. a <= k
        BY <1>2, <4>2
      <4>4. a <= k + 1
        BY <4>3
      <4> QED
        BY <1>3, <4>1, <4>2, <4>4
    <3>2. CASE u # r
      BY <1>7, <2>1, <3>2 DEF ServerInv
    <3> QED
      BY <3>1, <3>2
  <2>3. h <= b[u].next
    <3>1. CASE h = s.head
      BY <2>2, <3>1
    <3>2. CASE h # s.head
      <4>1. h = s.head + 1 /\ f[s.head] = 0
        BY <1>18, <3>2
      <4>2. Cardinality(B(s.head)) = 0
        <5>1. ~(s.head < s.head)
          BY <1>1, <1>3
        <5> QED
          BY <1>1, <1>15, <4>1, <5>1
      <4>3. IsFiniteSet(B(s.head))
        BY <1>1, <1>22, AtFinite
      <4>4. B(s.head) = {}
        BY <4>2, <4>3, Counts
      <4>5. b[u].next # s.head
        BY <2>1, <4>4 DEF B
      <4>6. b[u].next \in Nat /\ s.head \in Nat
        BY <1>1, <1>3, <1>7, <2>1 DEF OCBs
      <4> QED
        BY <2>2, <4>1, <4>5, <4>6
    <3> QED
      BY <3>1, <3>2
  <2> QED
    BY <1>20, <2>2, <2>3
<1>25. ServerInv(i, t)
  BY <1>18, <1>20, <1>23, <1>24 DEF ServerInv
<1> QED
  BY <1>4, <1>7, <1>8, <1>10, <1>20, <1>25 DEF GoesOn, Replied

\* What is left to read of a message is nothing only if it has no bytes.
LEMMA RestOf ==
  ASSUME NEW i, NEW s, ServerInv(i, s), NEW r \in Has(i, s), NEW o, o = s.ocb[r],
         NEW rest, rest = s.len[o.next] - o.off
  PROVE  /\ o \in OCBs /\ o.next \in Msgs /\ o.off \in Nat /\ o.want \in Nat
         /\ s.len \in [Msgs -> Nat] /\ s.len[o.next] \in Nat /\ rest \in Nat
         /\ rest = 0 => o.off = 0 /\ s.len[o.next] = 0
<1>1. o \in OCBs /\ s.len \in [Msgs -> Nat]
  BY DEF ServerInv, Has, Servers
<1>2. o.next \in Msgs /\ o.off \in Nat /\ o.want \in Nat
  BY <1>1 DEF OCBs
<1>3. s.len[o.next] \in Nat
  BY <1>1, <1>2
<1>4. o.off = 0 \/ o.off < s.len[o.next]
  BY SMTT(40) DEF ServerInv
<1> QED
  BY <1>1, <1>2, <1>3, <1>4

\* A reader that asked for less than is left of the message stays with it.
LEMMA ReplyPart ==
  ASSUME NEW i, NEW s, ServerInv(i, s), NEW r \in Has(i, s), ~(s.ocb[r].want >= Rest(s, r))
  PROVE  StaysWith(i, s, r, ReadReply(s, r))
<1> SUFFICES ASSUME NEW o, o = s.ocb[r], NEW rest, rest = Rest(s, r),
                    NEW t, t = ReadReply(s, r)
             PROVE  StaysWith(i, s, r, t)
  OBVIOUS
<1>0. rest = s.len[o.next] - o.off /\ ~(o.want >= rest)
  BY DEF Rest
<1> USE <1>0
<1>1. /\ s \in Servers /\ r \in Readers /\ o.open
      /\ s.ocb \in [Readers -> OCBs] /\ s.got \in [Readers -> Seq(Data)]
  BY DEF ServerInv, Has, Servers
<1>2. /\ o \in OCBs /\ o.next \in Msgs /\ o.off \in Nat /\ o.want \in Nat
      /\ s.len[o.next] \in Nat /\ rest \in Nat
  BY RestOf
<1>3. PICK n \in Nat : n = o.off + o.want
  BY <1>2
<1>4. n < s.len[o.next] /\ rest # 0
  BY <1>2, <1>3
<1>5. PICK p : p = [o EXCEPT !.off = @ + o.want, !.want = 0]
  BY SMTT(40)
<1>6. p \in OCBs /\ p.next = o.next /\ p.off = n /\ p.want = 0 /\ p.open = o.open
  <2>1. p = [o EXCEPT !.off = n, !.want = 0]
    BY <1>3, <1>5
  <2> QED
    BY <1>2, <2>1 DEF OCBs
<1>7. PICK b : b = [s.ocb EXCEPT ![r] = p]
  OBVIOUS
<1>8. b \in [Readers -> OCBs] /\ b[r] = p /\ \A u \in Readers \ {r} : b[u] = s.ocb[u]
  BY <1>1, <1>6, <1>7
<1>9. PICK x \in Seq(Data) : x = Bytes(o.next, o.off, o.want)
  BY <1>2, BytesType
<1>10. PICK g : g = [s.got EXCEPT ![r] = @ \o x]
  OBVIOUS
<1>11. g \in [Readers -> Seq(Data)] /\ g[r] = s.got[r] \o x
       /\ \A u \in Readers \ {r} : g[u] = s.got[u]
  <2>1. s.got[r] \o x \in Seq(Data)
    BY SMTT(40), <1>1, <1>9, ConcatProperties
  <2> QED
    BY <1>1, <1>10, <2>1
<1>12. t = [s EXCEPT !.ocb = b, !.got = g]
  <2>1. t = AfterPart(s, r, o, rest)
    BY <1>1, ReplyIs
  <2>2. Piece(o, rest, o.want) = x
    BY <1>4, <1>9 DEF Piece
  <2> QED
    BY <1>5, <1>7, <1>10, <2>1, <2>2 DEF AfterPart
<1>13. /\ t \in Servers /\ t.ocb = b /\ t.got = g /\ t.ref = s.ref /\ t.head = s.head
       /\ t.len = s.len /\ t.last = s.last
  BY <1>1, <1>8, <1>11, <1>12 DEF Servers
<1>14. \A u \in Readers : b[u].open = s.ocb[u].open /\ b[u].next = s.ocb[u].next
  BY <1>6, <1>8
<1>15. Has(i, t) = Has(i, s)
  BY <1>13, <1>14 DEF Has
<1>16. \A m : At(i, t, m) = At(i, s, m)
  <2>1. Has(i, s) \subseteq Readers
    BY DEF Has
  <2> QED
    BY <1>13, <1>14, <1>15, <2>1 DEF At
<1>17. ASSUME NEW u \in Has(i, t)
       PROVE  /\ t.head <= t.ocb[u].next /\ t.ocb[u].next <= t.last
              /\ t.ocb[u].off = 0 \/ t.ocb[u].off < t.len[t.ocb[u].next]
  <2>1. u \in Has(i, s) /\ u \in Readers
    BY <1>15 DEF Has
  <2>2. s.head <= b[u].next /\ b[u].next <= s.last
    BY <1>14, <2>1 DEF ServerInv
  <2>3. b[u].off = 0 \/ b[u].off < s.len[b[u].next]
    <3>1. CASE u = r
      BY <1>4, <1>6, <1>8, <3>1
    <3>2. CASE u # r
      BY <1>8, <2>1, <3>2 DEF ServerInv
    <3> QED
      BY <3>1, <3>2
  <2> QED
    BY <1>13, <2>2, <2>3
<1>18. ServerInv(i, t)
  <2>1. /\ t.head <= t.last
        /\ \A m \in Msgs : m >= t.last => t.len[m] = 0
        /\ \A m \in Msgs : t.ref[m] = IF m < t.head THEN 0 ELSE Cardinality(At(i, t, m))
    BY <1>13, <1>16 DEF ServerInv
  <2> QED
    BY <1>13, <1>17, <2>1 DEF ServerInv
<1> QED
  BY <1>5, <1>8, <1>9, <1>11, <1>13, <1>18 DEF StaysWith, Replied

\* What the reader gets continues what it had.
LEMMA ReplyReads ==
  ASSUME NEW i, NEW s, ServerInv(i, s), NEW r \in Has(i, s), s.ocb[r].next < s.last,
         NEW m \in Msgs, ReadOk(s, m, r)
  PROVE  ReadOk(ReadReply(s, r), m, r)
<1> SUFFICES ASSUME NEW o, o = s.ocb[r], NEW t, t = ReadReply(s, r)
             PROVE  ReadOk(t, m, r)
  OBVIOUS
<1>1. PICK rest : rest = s.len[o.next] - o.off /\ rest = Rest(s, r)
  BY DEF Rest
<1>2. /\ o \in OCBs /\ o.next \in Msgs /\ o.off \in Nat /\ o.want \in Nat
      /\ s.len \in [Msgs -> Nat] /\ s.len[o.next] \in Nat /\ rest \in Nat
      /\ rest = 0 => o.off = 0 /\ s.len[o.next] = 0
  BY <1>1, RestOf
<1>3. PICK nx \in Msgs : nx = o.next
  BY <1>2
<1>4. m <= nx /\ m \in Nat /\ nx \in Nat
  BY <1>3 DEF ReadOk, Msgs
<1>5. PICK w \in Seq(Seq(Data)) : w = Wholes(s.len, m, nx)
  BY <1>2, <1>4, WholesType
<1>6. PICK x \in Seq(Data) : x = WholeOf(s.len, nx)
  BY <1>2, <1>4, WholesType
<1>7. Wholes(s.len, m, nx + 1) = Append(w, x)
  BY <1>2, <1>4, <1>5, <1>6, WholesType
<1>8. FlattenSeq(Append(w, x)) = FlattenSeq(w) \o x /\ FlattenSeq(w) \in Seq(Data)
  BY FlattenLast
<1>9. PICK p \in Seq(Data) : p = FlattenSeq(w)
  BY <1>8
<1>10. PICK a \in Seq(Data) : a = Bytes(nx, 0, o.off)
  BY <1>2, BytesType
<1>11. s.got[r] = p \o a
  BY <1>3, <1>5, <1>9, <1>10 DEF ReadOk
<1>12. CASE o.want >= rest
  <2>1. /\ t.len = s.len /\ t.ocb[r] = Through(o)
        /\ t.got[r] = s.got[r] \o Piece(o, rest, rest)
    <3>1. GoesOn(i, s, r, t)
      BY <1>1, <1>12, ReplyThrough
    <3> QED
      BY <1>1, <3>1 DEF GoesOn, Replied
  <2>2. t.ocb[r].next = nx + 1 /\ t.ocb[r].off = 0
    BY <1>2, <1>3, <2>1 DEF Through, OCBs
  <2>3. PICK z \in Seq(Data) : z = Piece(o, rest, rest) /\ a \o z = x
    <3>1. CASE rest = 0
      <4>1. Piece(o, rest, rest) = <<<<nx, -1>>>> /\ x = <<<<nx, -1>>>>
        BY <1>2, <1>3, <1>6, <3>1 DEF Piece, WholeOf
      <4>2. a = <<>>
        BY <1>2, <1>10, <3>1 DEF Bytes
      <4> QED
        BY <4>1, <4>2, Joins
    <3>2. CASE rest # 0
      <4>1. Piece(o, rest, rest) = Bytes(nx, o.off, rest)
        BY <1>3, <3>2 DEF Piece
      <4>2. o.off + rest = s.len[nx] /\ s.len[nx] # 0
        <5>1. PICK l, a1 \in Nat : l = s.len[nx] /\ a1 = o.off
          BY <1>2, <1>3
        <5>2. rest = l - a1 /\ rest \in Nat
          BY <1>1, <1>2, <1>3, <5>1
        <5>3. a1 + rest = l /\ l # 0
          BY <3>2, <5>2
        <5> QED
          BY <5>1, <5>3
      <4>3. x = Bytes(nx, 0, s.len[nx])
        BY <1>6, <4>2 DEF WholeOf
      <4>4. Bytes(nx, 0, o.off) \o Bytes(nx, o.off, rest) = Bytes(nx, 0, o.off + rest)
        BY ZenonT(40), <1>2, BytesJoin
      <4>5. Bytes(nx, o.off, rest) \in Seq(Data)
        BY <1>2, BytesType
      <4> QED
        BY <1>10, <4>1, <4>2, <4>3, <4>4, <4>5
    <3> QED
      BY <3>1, <3>2
  <2>4. t.got[r] = p \o x
    <3>1. t.got[r] = (p \o a) \o z
      BY <1>11, <2>1, <2>3
    <3>2. (p \o a) \o z = p \o (a \o z)
      BY SMTT(40), Joins
    <3> QED
      BY <2>3, <3>1, <3>2
  <2>5. Bytes(nx + 1, 0, 0) = <<>> /\ p \o x \in Seq(Data) /\ (p \o x) \o <<>> = p \o x
    <3>1. Bytes(nx + 1, 0, 0) = <<>>
      BY DEF Bytes
    <3>2. PICK y \in Seq(Data) : y = p \o x
      BY Joins
    <3>3. y \o <<>> = y
      BY Joins
    <3> QED
      BY <3>1, <3>2, <3>3
  <2>6. FlattenSeq(Wholes(t.len, m, t.ocb[r].next)) = p \o x
    BY <1>7, <1>8, <1>9, <2>1, <2>2
  <2>7. m <= nx + 1
    BY <1>4
  <2> QED
    BY SMTT(40), <2>2, <2>4, <2>5, <2>6, <2>7 DEF ReadOk
<1>13. CASE ~(o.want >= rest)
  <2>1. /\ t.len = s.len /\ t.ocb[r] = [o EXCEPT !.off = @ + o.want, !.want = 0]
        /\ t.got[r] = s.got[r] \o Bytes(o.next, o.off, o.want)
    <3>1. StaysWith(i, s, r, t)
      BY <1>1, <1>13, ReplyPart
    <3> QED
      BY <3>1 DEF StaysWith, Replied
  <2>2. t.ocb[r].next = nx /\ t.ocb[r].off = o.off + o.want
    BY <1>2, <1>3, <2>1 DEF OCBs
  <2>3. PICK z \in Seq(Data) : z = Bytes(nx, o.off, o.want)
    BY <1>2, BytesType
  <2>4. a \o z = Bytes(nx, 0, o.off + o.want)
    BY <1>2, <1>10, <2>3, BytesJoin
  <2>5. t.got[r] = p \o (a \o z)
    <3>1. t.got[r] = (p \o a) \o z
      BY <1>3, <1>11, <2>1, <2>3
    <3>2. (p \o a) \o z = p \o (a \o z)
      BY Joins
    <3> QED
      BY <3>1, <3>2
  <2> QED
    BY <1>4, <1>5, <1>9, <2>1, <2>2, <2>4, <2>5 DEF ReadOk
<1> QED
  BY <1>12, <1>13

\* Reading what others have read is not disturbed.
LEMMA SameReads ==
  ASSUME NEW s, NEW t, NEW m, NEW r, ReadOk(s, m, r), t.len = s.len,
         t.ocb[r] = s.ocb[r], t.got[r] = s.got[r]
  PROVE  ReadOk(t, m, r)
BY DEF ReadOk

\* All that read_reply does to an interface.
LEMMA ReplyKeeps ==
  ASSUME NEW i, NEW s, ServerInv(i, s), NEW r \in Has(i, s), s.ocb[r].next < s.last,
         NEW st \in [Readers -> Msgs], \A u \in Has(i, s) : ReadOk(s, st[u], u),
         NEW t, t = ReadReply(s, r)
  PROVE  /\ ServerInv(i, t) /\ t.len = s.len /\ t.last = s.last
         /\ t.ocb[r].open = s.ocb[r].open /\ t.ocb[r].want = 0
         /\ \A u \in Readers \ {r} : t.ocb[u] = s.ocb[u] /\ t.got[u] = s.got[u]
         /\ Has(i, t) = Has(i, s)
         /\ \A u \in Has(i, t) : ReadOk(t, st[u], u)
<1>1. PICK o : o = s.ocb[r]
  OBVIOUS
<1>2. o \in OCBs
  BY SMTT(40), <1>1 DEF ServerInv, Servers, Has
<1>3. /\ ServerInv(i, t) /\ t.len = s.len /\ t.last = s.last
      /\ t.ocb[r] \in {Through(o), [o EXCEPT !.off = @ + o.want, !.want = 0]}
      /\ \A u \in Readers \ {r} : t.ocb[u] = s.ocb[u] /\ t.got[u] = s.got[u]
  <2>1. GoesOn(i, s, r, t) \/ StaysWith(i, s, r, t)
    BY ReplyThrough, ReplyPart
  <2> QED
    BY <1>1, <2>1 DEF GoesOn, StaysWith, Replied
<1>4. t.ocb[r].open = s.ocb[r].open /\ t.ocb[r].want = 0
  BY <1>1, <1>2, <1>3 DEF OCBs, Through
<1>5. Has(i, t) = Has(i, s)
  BY <1>3, <1>4 DEF Has
<1>6. ASSUME NEW u \in Has(i, t) PROVE ReadOk(t, st[u], u)
  <2>1. u \in Has(i, s) /\ u \in Readers
    BY <1>5 DEF Has
  <2>2. CASE u = r
    <3>1. PICK m \in Msgs : m = st[r]
      BY <2>1, <2>2
    <3>2. ReadOk(s, m, r)
      BY <2>1, <2>2, <3>1
    <3>3. ReadOk(t, m, r)
      BY <1>1, <3>2, ReplyReads
    <3> QED
      BY <2>2, <3>1, <3>3
  <2>3. CASE u # r
    BY <1>3, <2>1, <2>3, SameReads
  <2> QED
    BY <2>2, <2>3
<1> QED
  BY <1>3, <1>4, <1>5, <1>6

-----------------------------------------------------------------------------
(* cmdif_rd::Turf *)

\* The empty message is filled: no reader has read any of it.
LEMMA FilledKeeps ==
  ASSUME NEW i, NEW s, ServerInv(i, s), s.last + 1 \in Msgs, NEW n \in Nat,
         NEW st \in [Readers -> Msgs], \A u \in Has(i, s) : ReadOk(s, st[u], u),
         NEW t, t = Filled(s, n)
  PROVE  /\ ServerInv(i, t) /\ t.last = s.last + 1 /\ t.ocb = s.ocb /\ t.got = s.got
         /\ Has(i, t) = Has(i, s)
         /\ \A u \in Has(i, t) : ReadOk(t, st[u], u)
<1>1. /\ s \in Servers /\ s.last \in Msgs /\ s.head \in Msgs /\ s.len \in [Msgs -> Nat]
      /\ s.last \in Nat /\ s.head \in Nat /\ s.head <= s.last
  <2>1. s \in Servers /\ s.head <= s.last
    BY DEF ServerInv
  <2>2. s.last \in Msgs /\ s.head \in Msgs /\ s.len \in [Msgs -> Nat]
    BY <2>1 DEF Servers
  <2> QED
    BY <2>1, <2>2 DEF Msgs
<1>2. PICK z \in Msgs : z = s.last + 1
  OBVIOUS
<1>3. PICK l : l = [s.len EXCEPT ![s.last] = n]
  OBVIOUS
<1>4. l \in [Msgs -> Nat] /\ l[s.last] = n /\ \A m \in Msgs \ {s.last} : l[m] = s.len[m]
  BY <1>1, <1>3
<1>5. t = [s EXCEPT !.len = l, !.last = z]
  BY <1>2, <1>3 DEF Filled
<1>6. /\ t \in Servers /\ t.len = l /\ t.last = z /\ t.ocb = s.ocb /\ t.ref = s.ref
      /\ t.head = s.head /\ t.got = s.got
  BY <1>1, <1>4, <1>5 DEF Servers
<1>7. Has(i, t) = Has(i, s) /\ \A m : At(i, t, m) = At(i, s, m)
  BY <1>6 DEF Has, At
<1>8. ASSUME NEW u \in Has(i, s)
      PROVE  /\ s.head <= s.ocb[u].next /\ s.ocb[u].next <= z
             /\ s.ocb[u].next \in Msgs /\ s.ocb[u].next <= s.last
             /\ s.ocb[u].off = 0 \/ s.ocb[u].off < l[s.ocb[u].next]
  <2>1. PICK o : o = s.ocb[u]
    OBVIOUS
  <2>2. o \in OCBs
    BY <1>1, <2>1 DEF Has, Servers
  <2>3. o.next \in Msgs /\ o.off \in Nat /\ o.next \in Nat
    BY <2>2 DEF OCBs, Msgs
  <2>4. s.head <= o.next /\ o.next <= s.last /\ (o.off = 0 \/ o.off < s.len[o.next])
    BY <2>1 DEF ServerInv
  <2>5. o.off = 0 \/ o.off < l[o.next]
    <3>1. CASE o.next = s.last
      <4>1. s.last >= s.last
        BY <1>1
      <4>2. s.len[s.last] = 0
        BY <1>1, <4>1 DEF ServerInv
      <4> QED
        BY <2>3, <2>4, <3>1, <4>2
    <3>2. CASE o.next # s.last
      BY <1>4, <2>3, <2>4, <3>2
    <3> QED
      BY <3>1, <3>2
  <2>6. o.next <= z
    BY <1>1, <1>2, <2>3, <2>4
  <2> QED
    BY <2>1, <2>3, <2>4, <2>5, <2>6
<1>9. ServerInv(i, t)
  <2>1. t.head <= t.last
    BY <1>1, <1>2, <1>6
  <2>2. ASSUME NEW m \in Msgs, m >= t.last PROVE t.len[m] = 0
    <3>1. m \in Nat /\ m >= s.last /\ m # s.last
      BY <1>1, <1>2, <1>6, <2>2 DEF Msgs
    <3>2. s.len[m] = 0
      BY <3>1 DEF ServerInv
    <3> QED
      BY <1>4, <1>6, <3>1, <3>2
  <2>3. \A m \in Msgs : t.ref[m] = IF m < t.head THEN 0 ELSE Cardinality(At(i, t, m))
    BY <1>6, <1>7 DEF ServerInv
  <2>4. \A u \in Has(i, t) :
          /\ t.head <= t.ocb[u].next /\ t.ocb[u].next <= t.last
          /\ t.ocb[u].off = 0 \/ t.ocb[u].off < t.len[t.ocb[u].next]
    BY <1>6, <1>7, <1>8
  <2> QED
    BY <1>6, <2>1, <2>2, <2>3, <2>4 DEF ServerInv
<1>10. ASSUME NEW u \in Has(i, t) PROVE ReadOk(t, st[u], u)
  <2>1. u \in Has(i, s) /\ u \in Readers
    BY <1>7 DEF Has
  <2>2. PICK m \in Msgs : m = st[u]
    BY <2>1
  <2>3. PICK k \in Msgs : k = s.ocb[u].next
    BY <1>8, <2>1
  <2>4. ReadOk(s, m, u) /\ k <= s.last
    BY <1>8, <2>1, <2>2, <2>3
  <2>5. m \in Nat /\ k \in Nat /\ m <= k
    BY <2>3, <2>4 DEF ReadOk, Msgs
  <2>6. Wholes(l, m, k) = Wholes(s.len, m, k)
    <3>1. ASSUME NEW j \in 1..k - m PROVE WholeOf(l, m + j - 1) = WholeOf(s.len, m + j - 1)
      <4>1. PICK x \in Nat : x = m + j - 1
        BY <2>5
      <4>2. x < k
        BY <2>5, <4>1
      <4>3. x \in Msgs /\ x # s.last
        <5>1. k <= MaxMsgs + 2 /\ MaxMsgs \in Nat
          BY <2>3, CommandServerAssumption DEF Msgs, CommandServerAssumption
        <5>2. x <= MaxMsgs + 2
          BY <2>5, <4>2, <5>1
        <5>3. x # s.last
          BY <1>1, <2>4, <2>5, <4>2
        <5> QED
          BY <5>1, <5>2, <5>3 DEF Msgs
      <4>4. l[x] = s.len[x]
        BY <1>4, <4>3
      <4> QED
        BY <4>1, <4>4 DEF WholeOf
    <3> QED
      BY <3>1 DEF Wholes
  <2> QED
    BY <1>6, <2>2, <2>3, <2>4, <2>6 DEF ReadOk
<1> QED
  BY <1>2, <1>6, <1>7, <1>9, <1>10

Turf == INSTANCE Lemmas WITH Op <- ReadReply

\* The first k of the blocked readers q are answered, from state f on.
Answered(i, f, st, q, k, t) ==
  /\ ServerInv(i, t) /\ t.last = f.last /\ Has(i, t) = Has(i, f)
  /\ \A u \in Has(i, t) : ReadOk(t, st[u], u)
  /\ \A u \in Readers : t.ocb[u].open = f.ocb[u].open
  /\ \A u \in Readers \ ToSet(q) : t.ocb[u] = f.ocb[u] /\ t.got[u] = f.got[u]
  /\ \A j \in 1..Len(q) : IF j <= k THEN t.ocb[q[j]].want = 0
                          ELSE t.ocb[q[j]] = f.ocb[q[j]]

\* One more is answered.
LEMMA AnswersOne ==
  ASSUME NEW i, NEW f, NEW st \in [Readers -> Msgs], NEW q \in Seq(Readers),
         IsInjective(q),
         \A u \in ToSet(q) : u \in Has(i, f) /\ f.ocb[u].next < f.last,
         NEW k \in 1..Len(q), NEW s, Answered(i, f, st, q, k - 1, s),
         NEW t, t = ReadReply(s, q[k])
  PROVE  Answered(i, f, st, q, k, t)
<1>1. PICK r \in Readers : r = q[k]
  OBVIOUS
<1>2. Len(q) \in Nat /\ DOMAIN q = 1..Len(q) /\ r \in ToSet(q)
  BY <1>1 DEF ToSet
<1>3. ServerInv(i, s) /\ r \in Has(i, s) /\ s.ocb[r].next < s.last
  <2>1. s.ocb[r] = f.ocb[r]
    <3>1. ~(k <= k - 1)
      OBVIOUS
    <3> QED
      BY <1>1, <3>1 DEF Answered
  <2> QED
    BY <1>2, <2>1 DEF Answered
<1>4. \A u \in Has(i, s) : ReadOk(s, st[u], u)
  BY DEF Answered
<1>5. /\ ServerInv(i, t) /\ t.last = s.last
      /\ t.ocb[r].open = s.ocb[r].open /\ t.ocb[r].want = 0
      /\ \A u \in Readers \ {r} : t.ocb[u] = s.ocb[u] /\ t.got[u] = s.got[u]
      /\ Has(i, t) = Has(i, s)
      /\ \A u \in Has(i, t) : ReadOk(t, st[u], u)
  BY <1>1, <1>3, <1>4, ReplyKeeps
<1>6. \A u \in Readers : t.ocb[u].open = f.ocb[u].open
  BY <1>5 DEF Answered
<1>7. \A u \in Readers \ ToSet(q) : t.ocb[u] = f.ocb[u] /\ t.got[u] = f.got[u]
  BY <1>2, <1>5 DEF Answered
<1>8. ASSUME NEW j \in 1..Len(q)
      PROVE  IF j <= k THEN t.ocb[q[j]].want = 0 ELSE t.ocb[q[j]] = f.ocb[q[j]]
  <2>1. q[j] \in Readers
    OBVIOUS
  <2>2. CASE j = k
    BY <1>1, <1>5, <2>2
  <2>3. CASE j # k
    <3>1. q[j] # r
      BY <1>1, <1>2, <2>3 DEF IsInjective
    <3>2. t.ocb[q[j]] = s.ocb[q[j]]
      BY <1>5, <2>1, <3>1
    <3>3. (j <= k) <=> (j <= k - 1)
      BY <1>2, <2>3
    <3> QED
      BY <3>2, <3>3 DEF Answered
  <2> QED
    BY <2>2, <2>3
<1> QED
  BY <1>5, <1>6, <1>7, <1>8 DEF Answered

\* All are.
LEMMA AnswersAll ==
  ASSUME NEW i, NEW f, NEW st \in [Readers -> Msgs], NEW q \in Seq(Readers),
         IsInjective(q),
         \A u \in ToSet(q) : u \in Has(i, f) /\ f.ocb[u].next < f.last,
         ServerInv(i, f), \A u \in Has(i, f) : ReadOk(f, st[u], u)
  PROVE  Answered(i, f, st, q, Len(q), FoldLeft(ReadReply, f, q))
<1> DEFINE V == [k \in 0..Len(q) |-> {t \in Servers : Answered(i, f, st, q, k, t)}]
<1>1. Len(q) \in Nat /\ 0 \in 0..Len(q) /\ Len(q) \in 0..Len(q)
  OBVIOUS
<1>2. \A k \in 1..Len(q) : k \in 0..Len(q) /\ k - 1 \in 0..Len(q)
  BY <1>1
<1>3. \A k \in 0..Len(q) : \A t : t \in V[k] <=> Answered(i, f, st, q, k, t)
  BY DEF Answered, ServerInv
<1>4. Answered(i, f, st, q, 0, f)
  <2>1. \A j \in 1..Len(q) : ~(j <= 0)
    OBVIOUS
  <2> QED
    BY <2>1 DEF Answered
<1>5. \A k \in 1..Len(q) : \A s : Answered(i, f, st, q, k - 1, s) =>
        Answered(i, f, st, q, k, ReadReply(s, q[k]))
  BY AnswersOne
<1> HIDE DEF V
<1>6. /\ f \in V[0]
      /\ \A k \in 1..Len(q) : \A s \in V[k - 1] : ReadReply(s, q[k]) \in V[k]
  <2>1. f \in V[0]
    BY <1>1, <1>3, <1>4
  <2>2. ASSUME NEW k \in 1..Len(q), NEW s \in V[k - 1] PROVE ReadReply(s, q[k]) \in V[k]
    BY <1>2, <1>3, <1>5
  <2> QED
    BY <2>1, <2>2
<1>7. Turf!FoldLeft(ReadReply, f, q) \in V[Len(q)]
  <2> HIDE DEF ReadReply
  <2> QED
    BY <1>6, Turf!FoldInduction
<1>8. Turf!FoldLeft(ReadReply, f, q) = FoldLeft(ReadReply, f, q)
  BY DEF FoldLeft, Turf!FoldLeft, MapThenFoldSet, Turf!MapThenFoldSet, Max, Turf!Max
<1> QED
  BY <1>1, <1>3, <1>7, <1>8

Turfs(i, s, a, st, t) ==
  /\ InterfaceInv(i, t, <<>>, a, st) /\ t.last = s.last + 1
  /\ \A r \in Readers : t.ocb[r].open = s.ocb[r].open
  /\ \A r \in Readers : NodeOf[r] # i => t.ocb[r] = s.ocb[r] /\ t.got[r] = s.got[r]

\* A message, or the end of file, for every reader of the interface: nobody
\* is left waiting.
LEMMA TurfedKeeps ==
  ASSUME NEW i, NEW s, NEW a, NEW st \in [Readers -> Msgs],
         InterfaceInv(i, s, blocked[i], a, st), s.last + 1 \in Msgs, NEW n \in Nat,
         NEW a2, \A r \in a2 : NodeOf[r] # i
  PROVE  Turfs(i, s, a2, st, Turfed(i, s, n))
<1> SUFFICES ASSUME NEW t, t = Turfed(i, s, n) PROVE Turfs(i, s, a2, st, t)
  OBVIOUS
<1>1. PICK f : f = Filled(s, n)
  OBVIOUS
<1>2. ServerInv(i, s) /\ \A u \in Has(i, s) : ReadOk(s, st[u], u)
  BY DEF InterfaceInv
<1>3. /\ ServerInv(i, f) /\ f.last = s.last + 1 /\ f.ocb = s.ocb /\ f.got = s.got
      /\ Has(i, f) = Has(i, s) /\ \A u \in Has(i, f) : ReadOk(f, st[u], u)
  BY <1>1, <1>2, FilledKeeps
<1>4. PICK q \in Seq(Readers) : q = blocked[i]
  BY DEF InterfaceInv, Waiting
<1>5. IsInjective(q) /\ ToSet(q) = {r \in Has(i, s) : s.ocb[r].want > 0}
  BY <1>4 DEF InterfaceInv, Waiting
<1>6. \A u \in ToSet(q) : u \in Has(i, f) /\ f.ocb[u].next < f.last
  <2>1. s.last \in Nat
    BY <1>2 DEF ServerInv, Servers, Msgs
  <2>2. \A u \in ToSet(q) : u \in Has(i, s) /\ s.ocb[u].next = s.last
    BY <1>5 DEF InterfaceInv, Waiting
  <2>3. s.last < s.last + 1
    BY <2>1
  <2> QED
    BY <1>3, <2>2, <2>3
<1>7. t = FoldLeft(ReadReply, f, q)
  BY <1>1, <1>4 DEF Turfed
<1>8. Answered(i, f, st, q, Len(q), t)
  BY <1>3, <1>5, <1>6, <1>7, AnswersAll
<1>9. \A r \in Has(i, t) : t.ocb[r].want = 0
  <2> SUFFICES ASSUME NEW r \in Has(i, t) PROVE t.ocb[r].want = 0
    OBVIOUS
  <2>1. r \in Readers /\ r \in Has(i, s)
    BY <1>3, <1>8 DEF Answered, Has
  <2>2. CASE r \in ToSet(q)
    <3>1. PICK j \in 1..Len(q) : r = q[j]
      BY <2>2 DEF ToSet
    <3>2. j <= Len(q)
      OBVIOUS
    <3> QED
      BY <1>8, <3>1, <3>2 DEF Answered
  <2>3. CASE r \notin ToSet(q)
    <3>1. t.ocb[r] = s.ocb[r] /\ ~(s.ocb[r].want > 0)
      BY <1>3, <1>5, <1>8, <2>1, <2>3 DEF Answered
    <3>2. s.ocb[r].want \in Nat
      BY <1>2, <2>1 DEF ServerInv, Servers, OCBs
    <3> QED
      BY <3>1, <3>2
  <2> QED
    BY <2>2, <2>3
<1>10. Waiting(i, t, <<>>, a2)
  <2>1. \A r \in Has(i, t) : ~(t.ocb[r].want > 0) /\ r \notin a2
    BY <1>9 DEF Has
  <2>2. <<>> \in Seq(Readers) /\ IsInjective(<<>>) /\ ToSet(<<>>) = {}
    BY DEF IsInjective, ToSet
  <2> QED
    BY <2>1, <2>2 DEF Waiting
<1>11. \A r \in Readers : NodeOf[r] # i => t.ocb[r] = s.ocb[r] /\ t.got[r] = s.got[r]
  <2>1. \A r \in ToSet(q) : NodeOf[r] = i
    BY <1>5 DEF Has
  <2> QED
    BY <1>3, <1>8, <2>1 DEF Answered
<1>12. InterfaceInv(i, t, <<>>, a2, st)
  BY <1>8, <1>10 DEF InterfaceInv, Answered
<1> QED
  BY <1>3, <1>8, <1>11, <1>12 DEF Answered, Turfs

-----------------------------------------------------------------------------
(* The handlers, on one interface *)

\* An interface whose list and whose readers are as they were.
LEMMA Untouched ==
  ASSUME NEW i, NEW s, NEW t \in Servers, NEW q, NEW a, NEW a2, NEW st, NEW st2,
         InterfaceInv(i, s, q, a, st),
         t.len = s.len, t.ref = s.ref, t.head = s.head, t.last = s.last,
         \A r \in Readers : NodeOf[r] = i =>
           t.ocb[r] = s.ocb[r] /\ t.got[r] = s.got[r] /\ st2[r] = st[r],
         \A r \in a2 : r \in Readers /\ NodeOf[r] = i => r \in a
  PROVE  InterfaceInv(i, t, q, a2, st2)
<1>1. Has(i, t) = Has(i, s) /\ \A r \in Has(i, s) : r \in Readers /\ NodeOf[r] = i
  BY DEF Has
<1>2. \A m : At(i, t, m) = At(i, s, m)
  BY <1>1 DEF At
<1>3. ServerInv(i, t)
  BY <1>1, <1>2 DEF InterfaceInv, ServerInv
<1>4. Waiting(i, t, q, a2)
  BY <1>1 DEF InterfaceInv, Waiting
<1>5. \A r \in Has(i, t) : ReadOk(t, st2[r], r)
  BY <1>1 DEF InterfaceInv, ReadOk
<1> QED
  BY <1>3, <1>4, <1>5 DEF InterfaceInv

\* From s to t a reader opens, and its start is noted.
Opens(s, t, r, st, st2) ==
  /\ t.len = s.len /\ t.head = s.head /\ t.last = s.last
  /\ t.ref = [s.ref EXCEPT ![s.head] = @ + 1]
  /\ t.ocb = [s.ocb EXCEPT ![r] = [Closed EXCEPT !.open = TRUE, !.next = s.head]]
  /\ t.got = [s.got EXCEPT ![r] = <<>>]
  /\ st2[r] = s.head /\ \A u \in Readers \ {r} : st2[u] = st[u]

\* A reader that was closed begins with the head of the list.
LEMMA OpenKeeps ==
  ASSUME NEW i, NEW s, NEW q, NEW a, NEW st, InterfaceInv(i, s, q, a, st),
         NEW r \in Readers, NodeOf[r] = i, ~s.ocb[r].open, r \notin a,
         NEW t \in Servers, NEW st2, Opens(s, t, r, st, st2)
  PROVE  InterfaceInv(i, t, q, a, st2)
<1>0. /\ t.len = s.len /\ t.head = s.head /\ t.last = s.last
      /\ t.ref = [s.ref EXCEPT ![s.head] = @ + 1]
      /\ t.ocb = [s.ocb EXCEPT ![r] = [Closed EXCEPT !.open = TRUE, !.next = s.head]]
      /\ t.got = [s.got EXCEPT ![r] = <<>>]
      /\ st2[r] = s.head /\ \A u \in Readers \ {r} : st2[u] = st[u]
  BY DEF Opens
<1> USE <1>0
<1>1. /\ ServerInv(i, s) /\ s \in Servers /\ s.head \in Msgs /\ s.head <= s.last
      /\ s.ocb \in [Readers -> OCBs] /\ s.got \in [Readers -> Seq(Data)]
      /\ s.ref \in [Msgs -> Nat] /\ s.len \in [Msgs -> Nat]
      /\ s.head \in Nat /\ s.last \in Nat
  BY DEF InterfaceInv, ServerInv, Servers, Msgs
<1>2. /\ t.ocb[r].open /\ t.ocb[r].next = s.head /\ t.ocb[r].off = 0
      /\ t.ocb[r].want = 0 /\ t.got[r] = <<>>
  BY <1>1 DEF Closed
<1>3. \A u \in Readers \ {r} : t.ocb[u] = s.ocb[u] /\ t.got[u] = s.got[u]
  BY <1>1
<1>4. Has(i, t) = Has(i, s) \cup {r} /\ r \notin Has(i, s)
  BY <1>2, <1>3 DEF Has
<1>5. Has(i, s) \subseteq Readers \ {r}
  BY <1>4 DEF Has
<1>6. \A m : At(i, t, m) = IF m = s.head THEN At(i, s, m) \cup {r} ELSE At(i, s, m)
  BY <1>2, <1>3, <1>4, <1>5 DEF At
<1>7. ASSUME NEW m \in Msgs
      PROVE  t.ref[m] = IF m < t.head THEN 0 ELSE Cardinality(At(i, t, m))
  <2>1. IsFiniteSet(At(i, s, m)) /\ s.ref[m] = IF m < s.head THEN 0 ELSE Cardinality(At(i, s, m))
    BY <1>1, AtFinite DEF ServerInv
  <2>2. CASE m = s.head
    <3>1. ~(m < s.head) /\ r \notin At(i, s, m)
      BY <1>1, <1>4, <2>2 DEF At
    <3>2. Cardinality(At(i, t, m)) = Cardinality(At(i, s, m)) + 1
      <4>1. PICK S : S = At(i, s, m)
        OBVIOUS
      <4>2. Cardinality(S \cup {r}) = Cardinality(S) + 1
        BY <2>1, <3>1, <4>1, Counts
      <4> QED
        BY <1>6, <2>2, <4>1, <4>2
    <3> QED
      BY <1>1, <2>1, <2>2, <3>1, <3>2
  <2>3. CASE m # s.head
    BY <1>1, <1>6, <2>1, <2>3
  <2> QED
    BY <2>2, <2>3
<1>8. ServerInv(i, t)
  <2>1. ASSUME NEW u \in Has(i, t)
        PROVE  /\ t.head <= t.ocb[u].next /\ t.ocb[u].next <= t.last
               /\ t.ocb[u].off = 0 \/ t.ocb[u].off < t.len[t.ocb[u].next]
    <3>1. CASE u = r
      <4>1. t.head <= s.head
        BY <1>1
      <4> QED
        BY <1>1, <1>2, <3>1, <4>1
    <3>2. CASE u # r
      BY <1>1, <1>3, <1>4, <1>5, <3>2 DEF ServerInv
    <3> QED
      BY <3>1, <3>2
  <2>2. \A m \in Msgs : m >= t.last => t.len[m] = 0
    BY <1>1 DEF ServerInv
  <2> QED
    BY <1>1, <1>7, <2>1, <2>2 DEF ServerInv
<1>9. Waiting(i, t, q, a)
  <2>1. Waiting(i, s, q, a)
    BY DEF InterfaceInv
  <2>2. {u \in Has(i, t) : t.ocb[u].want > 0} = {u \in Has(i, s) : s.ocb[u].want > 0}
    <3>1. ~(t.ocb[r].want > 0)
      BY <1>2
    <3> QED
      BY <1>3, <1>4, <1>5, <3>1
  <2>3. \A u \in Has(i, t) : t.ocb[u].want > 0 \/ u \in a =>
          t.ocb[u].next = t.last /\ t.ocb[u].off = 0
    <3>1. ~(t.ocb[r].want > 0)
      BY <1>2
    <3> QED
      BY <1>3, <1>4, <1>5, <2>1, <3>1 DEF Waiting
  <2> QED
    BY <2>1, <2>2, <2>3 DEF Waiting
<1>10. ReadOk(t, st2[r], r)
  <2>1. Wholes(t.len, s.head, s.head) = <<>>
    <3>1. s.head <= s.head
      BY <1>1
    <3> QED
      BY <1>1, <3>1, WholesType
  <2>2. Bytes(s.head, 0, 0) = <<>>
    BY DEF Bytes
  <2>3. FlattenSeq(<<>>) = <<>> /\ <<>> \o <<>> = <<>>
    <3>1. FlattenSeq(<<>>) = <<>>
      BY DEF FlattenSeq
    <3>2. <<>> \in Seq(Data)
      OBVIOUS
    <3> QED
      BY <3>1, <3>2, ConcatEmptySeq
  <2>4. s.head <= s.head
    BY <1>1
  <2> QED
    <3>1. t.got[r] = FlattenSeq(Wholes(t.len, s.head, s.head)) \o Bytes(s.head, 0, 0)
      BY <1>2, <2>1, <2>2, <2>3, Zenon
    <3>2. PICK h : h = s.head
      OBVIOUS
    <3> QED
      BY <1>2, <2>4, <3>1, <3>2 DEF ReadOk
<1>11. ASSUME NEW u \in Has(i, t) PROVE ReadOk(t, st2[u], u)
  <2>1. CASE u = r
    BY <1>10, <2>1
  <2>2. CASE u # r
    <3>1. u \in Has(i, s) /\ u \in Readers \ {r}
      BY <1>4, <1>5, <2>2
    <3>2. ReadOk(s, st[u], u)
      BY <3>1 DEF InterfaceInv
    <3> QED
      BY <1>3, <3>1, <3>2, SameReads
  <2> QED
    BY <2>1, <2>2
<1> QED
  BY <1>8, <1>9, <1>11 DEF InterfaceInv

Closes(s, t, r) ==
  /\ t.len = s.len /\ t.head = s.head /\ t.last = s.last
  /\ t.ref = [s.ref EXCEPT ![s.ocb[r].next] = @ - 1]
  /\ t.ocb = [s.ocb EXCEPT ![r] = Closed]
  /\ t.got = [s.got EXCEPT ![r] = <<>>]
  /\ t = [ocb |-> t.ocb, len |-> t.len, ref |-> t.ref, head |-> t.head,
          last |-> t.last, got |-> t.got]

\* A reader that is not blocked closes; the message loses a reference.
LEMMA CloseKeeps ==
  ASSUME NEW i, NEW s, NEW q, NEW a, NEW st, InterfaceInv(i, s, q, a, st),
         NEW r \in Has(i, s), s.ocb[r].want = 0,
         NEW t, Closes(s, t, r)
  PROVE  InterfaceInv(i, t, q, a \ {r}, st) /\ t \in Servers
<1>0. /\ t.len = s.len /\ t.head = s.head /\ t.last = s.last
      /\ t.ref = [s.ref EXCEPT ![s.ocb[r].next] = @ - 1]
      /\ t.ocb = [s.ocb EXCEPT ![r] = Closed]
      /\ t.got = [s.got EXCEPT ![r] = <<>>]
      /\ t = [ocb |-> t.ocb, len |-> t.len, ref |-> t.ref, head |-> t.head,
              last |-> t.last, got |-> t.got]
  BY DEF Closes
<1> USE <1>0
<1>1. /\ ServerInv(i, s) /\ s \in Servers /\ s.head \in Msgs
      /\ s.last \in Msgs /\ s.head <= s.last
      /\ s.ocb \in [Readers -> OCBs] /\ s.got \in [Readers -> Seq(Data)]
      /\ s.ref \in [Msgs -> Nat] /\ s.len \in [Msgs -> Nat]
      /\ s.head \in Nat /\ r \in Readers
  BY DEF InterfaceInv, ServerInv, Servers, Msgs, Has
<1>2. Closed \in OCBs /\ ~Closed.open
  BY CommandServerAssumption DEF Closed, OCBs, Msgs, CommandServerAssumption
<1>3. t.ocb \in [Readers -> OCBs] /\ t.ocb[r] = Closed /\ t.got \in [Readers -> Seq(Data)]
  BY <1>1, <1>2
<1>4. \A u \in Readers \ {r} : t.ocb[u] = s.ocb[u] /\ t.got[u] = s.got[u]
  BY <1>1
<1>5. Has(i, t) = Has(i, s) \ {r}
  BY <1>2, <1>3, <1>4 DEF Has
<1>6. Has(i, s) \subseteq Readers
  BY DEF Has
<1>7. PICK k \in Msgs : k = s.ocb[r].next /\ k \in Nat
  BY <1>1 DEF OCBs, Msgs
<1>8. s.head <= k
  BY <1>1, <1>7 DEF ServerInv
<1>9. \A m : At(i, t, m) = IF m = k THEN At(i, s, m) \ {r} ELSE At(i, s, m)
  BY <1>4, <1>5, <1>6, <1>7 DEF At
<1>10. ASSUME NEW m \in Msgs
       PROVE  /\ t.ref[m] = IF m < t.head THEN 0 ELSE Cardinality(At(i, t, m))
              /\ t.ref[m] \in Nat
  <2>1. IsFiniteSet(At(i, s, m)) /\ s.ref[m] = IF m < s.head THEN 0 ELSE Cardinality(At(i, s, m))
    BY <1>1, AtFinite DEF ServerInv
  <2>2. CASE m = k
    <3>1. ~(m < s.head) /\ r \in At(i, s, m)
      BY <1>1, <1>7, <1>8, <2>2 DEF At
    <3>2. PICK S : S = At(i, s, m)
      OBVIOUS
    <3>3. Cardinality(S) \in Nat /\ Cardinality(S) >= 1 /\ Cardinality(S \ {r}) = Cardinality(S) - 1
      BY <2>1, <3>1, <3>2, Counts
    <3>4. t.ref[m] = s.ref[m] - 1
      BY <1>1, <1>7, <2>2
    <3>5. t.ref[m] = Cardinality(S \ {r}) /\ t.ref[m] \in Nat
      BY <2>1, <3>1, <3>2, <3>3, <3>4
    <3> QED
      BY <1>9, <2>2, <3>1, <3>2, <3>5
  <2>3. CASE m # k
    <3>1. t.ref[m] = s.ref[m] /\ At(i, t, m) = At(i, s, m)
      BY <1>1, <1>7, <1>9, <2>3
    <3> QED
      BY <1>1, <2>1, <3>1
  <2> QED
    BY <2>2, <2>3
<1>11. t \in Servers
  <2>1. t.ref \in [Msgs -> Nat]
    <3>1. t.ref = [m \in Msgs |-> t.ref[m]]
      BY <1>1
    <3> QED
      BY <1>10, <3>1
  <2>2. PICK b, f, g, l, h, z : /\ b = t.ocb /\ f = t.ref /\ g = t.got /\ l = t.len
                                /\ h = t.head /\ z = t.last
    OBVIOUS
  <2>3. /\ b \in [Readers -> OCBs] /\ f \in [Msgs -> Nat] /\ g \in [Readers -> Seq(Data)]
        /\ l \in [Msgs -> Nat] /\ h \in Msgs /\ z \in Msgs
    BY <1>1, <1>3, <2>1, <2>2
  <2>4. [ocb |-> b, len |-> l, ref |-> f, head |-> h, last |-> z, got |-> g] \in Servers
    BY <2>3 DEF Servers
  <2> QED
    BY <2>2, <2>4
<1>12. ServerInv(i, t)
  <2>1. \A u \in Has(i, t) :
          /\ t.head <= t.ocb[u].next /\ t.ocb[u].next <= t.last
          /\ t.ocb[u].off = 0 \/ t.ocb[u].off < t.len[t.ocb[u].next]
    BY <1>1, <1>4, <1>5, <1>6 DEF ServerInv
  <2>2. \A m \in Msgs : m >= t.last => t.len[m] = 0
    BY <1>1 DEF ServerInv
  <2> QED
    BY <1>1, <1>10, <1>11, <2>1, <2>2 DEF ServerInv
<1>13. Waiting(i, t, q, a \ {r})
  <2>1. Waiting(i, s, q, a)
    BY DEF InterfaceInv
  <2>2. {u \in Has(i, t) : t.ocb[u].want > 0} = {u \in Has(i, s) : s.ocb[u].want > 0}
    <3>1. ~(s.ocb[r].want > 0)
      OBVIOUS
    <3> QED
      BY <1>4, <1>5, <1>6, <3>1
  <2>3. \A u \in Has(i, t) : t.ocb[u].want > 0 \/ u \in a \ {r} =>
          t.ocb[u].next = t.last /\ t.ocb[u].off = 0
    BY <1>4, <1>5, <1>6, <2>1 DEF Waiting
  <2> QED
    BY <2>1, <2>2, <2>3 DEF Waiting
<1>14. ASSUME NEW u \in Has(i, t) PROVE ReadOk(t, st[u], u)
  <2>1. u \in Has(i, s) /\ u \in Readers \ {r}
    BY <1>5, <1>6
  <2>2. ReadOk(s, st[u], u)
    BY <2>1 DEF InterfaceInv
  <2> QED
    BY <1>4, <2>1, <2>2, SameReads
<1> QED
  BY <1>11, <1>12, <1>13, <1>14 DEF InterfaceInv

Asks(s, r, n) == [s EXCEPT !.ocb[r].want = n]

Asked(i, s, r, n, t) ==
  /\ ServerInv(i, t) /\ Has(i, t) = Has(i, s) /\ t.len = s.len /\ t.last = s.last
  /\ t.got = s.got
  /\ \A u \in Readers \ {r} : t.ocb[u] = s.ocb[u]
  /\ t.ocb[r].want = n /\ t.ocb[r].next = s.ocb[r].next
  /\ t.ocb[r].off = s.ocb[r].off /\ t.ocb[r].open = s.ocb[r].open
  /\ \A u \in Readers : \A m : ReadOk(s, m, u) => ReadOk(t, m, u)

\* A reader asks for n bytes.
LEMMA AskKeeps ==
  ASSUME NEW i, NEW s, ServerInv(i, s), NEW r \in Has(i, s), NEW n \in Nat
  PROVE  Asked(i, s, r, n, Asks(s, r, n))
<1> SUFFICES ASSUME NEW t, t = Asks(s, r, n) PROVE Asked(i, s, r, n, t)
  OBVIOUS
<1>1. s \in Servers /\ s.ocb \in [Readers -> OCBs] /\ r \in Readers
  BY DEF ServerInv, Servers, Has
<1>2. PICK p : p = [s.ocb[r] EXCEPT !.want = n]
  OBVIOUS
<1>3. /\ p \in OCBs /\ p.next = s.ocb[r].next /\ p.off = s.ocb[r].off /\ p.want = n
      /\ p.open = s.ocb[r].open
  BY <1>1, <1>2 DEF OCBs
<1>4. PICK b : b = [s.ocb EXCEPT ![r] = p]
  OBVIOUS
<1>5. b \in [Readers -> OCBs] /\ b[r] = p /\ \A u \in Readers \ {r} : b[u] = s.ocb[u]
  BY <1>1, <1>3, <1>4
<1>6. t = [s EXCEPT !.ocb = b]
  BY <1>2, <1>4 DEF Asks
<1>7. /\ t \in Servers /\ t.ocb = b /\ t.len = s.len /\ t.ref = s.ref /\ t.head = s.head
      /\ t.last = s.last /\ t.got = s.got
  BY <1>1, <1>5, <1>6 DEF Servers
<1>8. \A u \in Readers : /\ b[u].open = s.ocb[u].open /\ b[u].next = s.ocb[u].next
                         /\ b[u].off = s.ocb[u].off
  BY <1>3, <1>5
<1>9. Has(i, t) = Has(i, s) /\ Has(i, s) \subseteq Readers
  BY <1>7, <1>8 DEF Has
<1>10. \A m : At(i, t, m) = At(i, s, m)
  BY <1>7, <1>8, <1>9 DEF At
<1>11. ServerInv(i, t)
  <2>1. \A u \in Has(i, t) :
          /\ t.head <= t.ocb[u].next /\ t.ocb[u].next <= t.last
          /\ t.ocb[u].off = 0 \/ t.ocb[u].off < t.len[t.ocb[u].next]
    BY <1>7, <1>8, <1>9 DEF ServerInv
  <2> QED
    BY <1>7, <1>10, <2>1 DEF ServerInv
<1>12. \A u \in Readers : \A m : ReadOk(s, m, u) => ReadOk(t, m, u)
  BY <1>7, <1>8 DEF ReadOk
<1> QED
  BY <1>3, <1>5, <1>7, <1>9, <1>11, <1>12 DEF Asked

\* A read that finds input is answered at once.
LEMMA ReadAnswers ==
  ASSUME NEW i, NEW s, NEW q, NEW a, NEW st \in [Readers -> Msgs],
         InterfaceInv(i, s, q, a, st),
         NEW r \in Has(i, s), s.ocb[r].want = 0,
         s.len[s.ocb[r].next] > s.ocb[r].off \/ s.ocb[r].next < s.last,
         NEW n \in Nat, NEW t, t = ReadReply(Asks(s, r, n), r)
  PROVE  /\ InterfaceInv(i, t, q, a, st) /\ t.last = s.last
         /\ \A u \in Readers : t.ocb[u].open = s.ocb[u].open
         /\ \A u \in Readers \ {r} : t.ocb[u] = s.ocb[u] /\ t.got[u] = s.got[u]
<1>1. PICK x : x = Asks(s, r, n) /\ t = ReadReply(x, r)
  OBVIOUS
<1>2. ServerInv(i, s) /\ (\A u \in Has(i, s) : ReadOk(s, st[u], u)) /\ Waiting(i, s, q, a)
  BY DEF InterfaceInv
<1>3. /\ ServerInv(i, x) /\ Has(i, x) = Has(i, s) /\ x.len = s.len /\ x.last = s.last
      /\ x.got = s.got /\ \A u \in Readers \ {r} : x.ocb[u] = s.ocb[u]
      /\ x.ocb[r].next = s.ocb[r].next /\ x.ocb[r].open = s.ocb[r].open
      /\ \A u \in Readers : \A m : ReadOk(s, m, u) => ReadOk(x, m, u)
  <2>1. Asked(i, s, r, n, Asks(s, r, n))
    BY <1>2, AskKeeps
  <2> QED
    BY <1>1, <2>1 DEF Asked
<1>4. r \in Readers /\ Has(i, s) \subseteq Readers
  BY DEF Has
<1>10. \A u \in Has(i, x) : ReadOk(x, st[u], u)
  BY <1>2, <1>3, <1>4
<1>5. s.ocb[r].next < s.last
  <2>1. s.ocb[r] \in OCBs /\ s.last \in Nat /\ s.len \in [Msgs -> Nat]
    BY <1>2, <1>4 DEF ServerInv, Servers, Msgs
  <2>2. PICK o : o = s.ocb[r]
    OBVIOUS
  <2>3. o.next \in Msgs /\ o.off \in Nat /\ o.next \in Nat
    BY <2>1, <2>2 DEF OCBs, Msgs
  <2>4. ASSUME o.next >= s.last PROVE FALSE
    <3>1. s.len[o.next] = 0
      BY <1>2, <2>3, <2>4 DEF ServerInv
    <3>2. 0 > o.off
      BY <2>1, <2>2, <2>3, <2>4, <3>1
    <3> QED
      BY <2>3, <3>2
  <2> QED
    BY <2>1, <2>2, <2>3, <2>4
<1>6. r \in Has(i, x) /\ x.ocb[r].next < x.last
  BY <1>3, <1>5
<1>7. /\ ServerInv(i, t) /\ t.last = x.last
      /\ t.ocb[r].open = x.ocb[r].open /\ t.ocb[r].want = 0
      /\ \A u \in Readers \ {r} : t.ocb[u] = x.ocb[u] /\ t.got[u] = x.got[u]
      /\ Has(i, t) = Has(i, x)
      /\ \A u \in Has(i, t) : ReadOk(t, st[u], u)
  BY <1>1, <1>3, <1>6, <1>10, ReplyKeeps
<1>8. Waiting(i, t, q, a)
  <2>1. ~(t.ocb[r].want > 0) /\ ~(s.ocb[r].want > 0)
    BY <1>7
  <2>2. {u \in Has(i, t) : t.ocb[u].want > 0} = {u \in Has(i, s) : s.ocb[u].want > 0}
    BY <1>3, <1>4, <1>7, <2>1
  <2>3. r \notin a
    <3>1. s.ocb[r].next # s.last
      BY <1>2, <1>4, <1>5 DEF ServerInv, Servers, OCBs, Msgs
    <3> QED
      BY <1>2, <3>1 DEF Waiting
  <2>4. ASSUME NEW u \in Has(i, t), t.ocb[u].want > 0 \/ u \in a
        PROVE  t.ocb[u].next = t.last /\ t.ocb[u].off = 0
    <3>1. u # r
      BY <2>1, <2>3, <2>4
    <3>2. t.ocb[u] = s.ocb[u] /\ u \in Has(i, s)
      BY <1>3, <1>4, <1>7, <3>1
    <3> QED
      BY <1>2, <1>3, <1>7, <2>4, <3>2 DEF Waiting
  <2> QED
    BY <1>2, <2>2, <2>4 DEF Waiting
<1>9. \A u \in Readers : t.ocb[u].open = s.ocb[u].open
  BY <1>3, <1>7
<1> QED
  BY <1>3, <1>7, <1>8, <1>9 DEF InterfaceInv

\* One that does not is blocked, before those that came earlier.
LEMMA ReadBlocks ==
  ASSUME NEW i, NEW s, NEW q, NEW a, NEW st, InterfaceInv(i, s, q, a, st),
         NEW r \in Has(i, s), s.ocb[r].want = 0,
         ~(s.len[s.ocb[r].next] > s.ocb[r].off), ~(s.ocb[r].next < s.last),
         NEW n \in Nat \ {0}, NEW t, t = Asks(s, r, n)
  PROVE  /\ InterfaceInv(i, t, <<r>> \o q, a, st)
         /\ \A u \in Readers : t.ocb[u].open = s.ocb[u].open
<1>2. ServerInv(i, s) /\ (\A u \in Has(i, s) : ReadOk(s, st[u], u)) /\ Waiting(i, s, q, a)
  BY DEF InterfaceInv
<1>3. /\ ServerInv(i, t) /\ Has(i, t) = Has(i, s) /\ t.last = s.last
      /\ \A u \in Readers \ {r} : t.ocb[u] = s.ocb[u]
      /\ t.ocb[r].want = n /\ t.ocb[r].next = s.ocb[r].next
      /\ t.ocb[r].off = s.ocb[r].off /\ t.ocb[r].open = s.ocb[r].open
      /\ \A u \in Readers : \A m : ReadOk(s, m, u) => ReadOk(t, m, u)
  <2>1. Asked(i, s, r, n, Asks(s, r, n))
    BY <1>2, AskKeeps
  <2> QED
    BY <2>1 DEF Asked
<1>4. r \in Readers /\ Has(i, s) \subseteq Readers
  BY DEF Has
<1>8. \A u \in Has(i, t) : ReadOk(t, st[u], u)
  BY <1>2, <1>3, <1>4
<1>5. s.ocb[r].next = s.last /\ s.ocb[r].off = 0
  <2>1. s.ocb[r] \in OCBs /\ s.last \in Nat /\ s.len \in [Msgs -> Nat]
    BY <1>2, <1>4 DEF ServerInv, Servers, Msgs
  <2>2. PICK o : o = s.ocb[r]
    OBVIOUS
  <2>3. o.next \in Msgs /\ o.off \in Nat /\ o.next \in Nat
    BY <2>1, <2>2 DEF OCBs, Msgs
  <2>4. o.next <= s.last
    BY <1>2, <2>2 DEF ServerInv
  <2>5. o.next = s.last
    BY <2>1, <2>2, <2>3, <2>4
  <2>6. s.len[o.next] \in Nat /\ (o.off = 0 \/ o.off < s.len[o.next])
    BY <1>2, <2>1, <2>2, <2>3 DEF ServerInv
  <2>7. o.off = 0
    BY <2>2, <2>3, <2>6
  <2> QED
    BY <2>2, <2>5, <2>7
<1>6. Waiting(i, t, <<r>> \o q, a)
  <2>1. q \in Seq(Readers) /\ IsInjective(q) /\ ToSet(q) = {u \in Has(i, s) : s.ocb[u].want > 0}
    BY <1>2 DEF Waiting
  <2>2. r \notin ToSet(q)
    BY <2>1
  <2>3. <<r>> \in Seq(Readers) /\ Len(<<r>>) = 1 /\ <<r>>[1] = r
    BY <1>4
  <2>4. PICK p : p = <<r>> \o q
    OBVIOUS
  <2>5. /\ p \in Seq(Readers) /\ Len(p) = Len(q) + 1 /\ p[1] = r
        /\ \A j \in 1..Len(q) : p[j + 1] = q[j]
        /\ \A j \in 1..Len(p) : j = 1 \/ (j - 1 \in 1..Len(q) /\ p[j] = q[j - 1])
        /\ Len(q) \in Nat
    <3>1. PICK one \in Seq(Readers) : one = <<r>> /\ Len(one) = 1 /\ one[1] = r
      BY <2>3
    <3>2. p = one \o q
      BY <2>4, <3>1
    <3>3. /\ one \o q \in Seq(Readers) /\ Len(one \o q) = Len(one) + Len(q)
          /\ \A j \in 1..Len(one) + Len(q) :
               (one \o q)[j] = IF j <= Len(one) THEN one[j] ELSE q[j - Len(one)]
      BY <2>1, ConcatProperties
    <3>4. /\ p \in Seq(Readers) /\ Len(p) = 1 + Len(q) /\ Len(q) \in Nat
          /\ \A j \in 1..1 + Len(q) : p[j] = IF j <= 1 THEN one[j] ELSE q[j - 1]
      BY <2>1, <3>1, <3>2, <3>3
    <3>5. Len(p) = Len(q) + 1
      BY <3>4
    <3>6. p[1] = r
      <4>1. 1 \in 1..1 + Len(q) /\ 1 <= 1
        BY <3>4
      <4> QED
        BY <3>1, <3>4, <4>1
    <3>7. ASSUME NEW j \in 1..Len(q) PROVE p[j + 1] = q[j]
      <4>1. j + 1 \in 1..1 + Len(q) /\ ~(j + 1 <= 1) /\ (j + 1) - 1 = j
        BY <3>4
      <4> QED
        BY <3>4, <4>1
    <3>8. ASSUME NEW j \in 1..Len(p), j # 1 PROVE j - 1 \in 1..Len(q) /\ p[j] = q[j - 1]
      <4>1. j \in 1..1 + Len(q) /\ ~(j <= 1) /\ j - 1 \in 1..Len(q)
        BY <3>4, <3>8
      <4> QED
        BY <3>4, <4>1
    <3> QED
      BY <3>4, <3>5, <3>6, <3>7, <3>8
  <2>6. DOMAIN p = 1..Len(p) /\ DOMAIN q = 1..Len(q)
    BY <2>1, <2>5
  <2>7. ToSet(p) = ToSet(q) \cup {r}
    <3>1. ASSUME NEW u \in ToSet(p) PROVE u \in ToSet(q) \cup {r}
      <4>1. PICK j \in 1..Len(p) : u = p[j]
        BY <2>6, <3>1 DEF ToSet
      <4> QED
        BY <2>5, <2>6, <4>1 DEF ToSet
    <3>2. ASSUME NEW u \in ToSet(q) PROVE u \in ToSet(p)
      <4>1. PICK j \in 1..Len(q) : u = q[j]
        BY <2>6, <3>2 DEF ToSet
      <4>2. j + 1 \in 1..Len(p) /\ p[j + 1] = u
        BY <2>5, <4>1
      <4> QED
        BY <2>6, <4>2 DEF ToSet
    <3>3. r \in ToSet(p)
      <4>1. 1 \in 1..Len(p)
        BY <2>5
      <4> QED
        BY <2>5, <2>6, <4>1 DEF ToSet
    <3> QED
      BY <3>1, <3>2, <3>3
  <2>8. IsInjective(p)
    <3> SUFFICES ASSUME NEW j \in 1..Len(p), NEW k \in 1..Len(p), p[j] = p[k] PROVE j = k
      BY <2>6 DEF IsInjective
    <3>1. \A l \in 1..Len(q) : q[l] \in ToSet(q)
      BY <2>6 DEF ToSet
    <3>2. CASE j = 1 \/ k = 1
      BY <2>2, <2>5, <3>1, <3>2
    <3>3. CASE j # 1 /\ k # 1
      <4>1. j - 1 \in 1..Len(q) /\ k - 1 \in 1..Len(q) /\ q[j - 1] = q[k - 1]
        BY <2>5, <3>3
      <4>2. j - 1 = k - 1
        BY <2>1, <2>6, <4>1 DEF IsInjective
      <4> QED
        BY <4>2
    <3> QED
      BY <3>2, <3>3
  <2>9. ToSet(p) = {u \in Has(i, t) : t.ocb[u].want > 0}
    <3>1. t.ocb[r].want > 0
      BY <1>3
    <3>2. {u \in Has(i, t) : t.ocb[u].want > 0} = {u \in Has(i, s) : s.ocb[u].want > 0} \cup {r}
      BY <1>3, <1>4, <3>1
    <3> QED
      BY <2>1, <2>7, <3>2
  <2>10. \A u \in Has(i, t) : t.ocb[u].want > 0 \/ u \in a =>
           t.ocb[u].next = t.last /\ t.ocb[u].off = 0
    <3>1. t.ocb[r].next = t.last /\ t.ocb[r].off = 0
      BY <1>3, <1>5
    <3> QED
      BY <1>2, <1>3, <1>4, <3>1 DEF Waiting
  <2> QED
    BY <2>4, <2>5, <2>8, <2>9, <2>10 DEF Waiting
<1>7. \A u \in Readers : t.ocb[u].open = s.ocb[u].open
  BY <1>3
<1> QED
  BY <1>3, <1>6, <1>7, <1>8 DEF InterfaceInv

-----------------------------------------------------------------------------
(* The steps of ci_server *)

\* An interface's part of the state is of its type.
LEMMA ServerTyped ==
  ASSUME Types, NEW i \in Interfaces
  PROVE  /\ Server(i) \in Servers /\ Server(i).ocb = ocb /\ Server(i).got = got
         /\ Server(i).len = len[i] /\ Server(i).ref = ref[i]
         /\ Server(i).head = head[i] /\ Server(i).last = last[i]
<1>1. /\ ocb \in [Readers -> OCBs] /\ len[i] \in [Msgs -> Nat] /\ ref[i] \in [Msgs -> Nat]
      /\ head[i] \in Msgs /\ last[i] \in Msgs /\ got \in [Readers -> Seq(Data)]
  BY DEF Types
<1>2. PICK l, f, h, z : l = len[i] /\ f = ref[i] /\ h = head[i] /\ z = last[i]
  OBVIOUS
<1>3. Server(i) = [ocb |-> ocb, len |-> l, ref |-> f, head |-> h, last |-> z, got |-> got]
  BY <1>2 DEF Server
<1> QED
  BY <1>1, <1>2, <1>3 DEF Servers

\* What a handler leaves of the interface, and of the others.
LEMMA SetsServer ==
  ASSUME Types, NEW i \in Interfaces, NEW s \in Servers, SetServer(i, s)
  PROVE  /\ Server(i)' = s
         /\ ocb' = s.ocb /\ got' = s.got
         /\ ocb' \in [Readers -> OCBs] /\ got' \in [Readers -> Seq(Data)]
         /\ head' \in [Interfaces -> Msgs] /\ last' \in [Interfaces -> Msgs]
         /\ len' \in [Interfaces -> [Msgs -> Nat]] /\ ref' \in [Interfaces -> [Msgs -> Nat]]
         /\ last' = [last EXCEPT ![i] = s.last]
         /\ \A j \in Interfaces \ {i} : /\ head'[j] = head[j] /\ last'[j] = last[j]
                                        /\ len'[j] = len[j] /\ ref'[j] = ref[j]
<1>1. PICK b, l, f, h, z, g : /\ b = s.ocb /\ l = s.len /\ f = s.ref /\ h = s.head
                              /\ z = s.last /\ g = s.got
  OBVIOUS
<1>2. /\ b \in [Readers -> OCBs] /\ l \in [Msgs -> Nat] /\ f \in [Msgs -> Nat]
      /\ h \in Msgs /\ z \in Msgs /\ g \in [Readers -> Seq(Data)]
  BY <1>1 DEF Servers
<1>3. s = [ocb |-> b, len |-> l, ref |-> f, head |-> h, last |-> z, got |-> g]
  BY <1>1 DEF Servers
<1>4. /\ ocb' = b /\ got' = g
      /\ head' = [head EXCEPT ![i] = h] /\ last' = [last EXCEPT ![i] = z]
      /\ len' = [len EXCEPT ![i] = l] /\ ref' = [ref EXCEPT ![i] = f]
  BY <1>1 DEF SetServer
<1>5. /\ head \in [Interfaces -> Msgs] /\ last \in [Interfaces -> Msgs]
      /\ len \in [Interfaces -> [Msgs -> Nat]] /\ ref \in [Interfaces -> [Msgs -> Nat]]
  BY DEF Types
<1>6. /\ head' \in [Interfaces -> Msgs] /\ last' \in [Interfaces -> Msgs]
      /\ len' \in [Interfaces -> [Msgs -> Nat]] /\ ref' \in [Interfaces -> [Msgs -> Nat]]
  BY <1>2, <1>4, <1>5
<1>7. head'[i] = h /\ last'[i] = z /\ len'[i] = l /\ ref'[i] = f
  BY <1>4, <1>5
<1>8. \A j \in Interfaces \ {i} : /\ head'[j] = head[j] /\ last'[j] = last[j]
                                  /\ len'[j] = len[j] /\ ref'[j] = ref[j]
  BY <1>4, <1>5
<1>9. Server(i)' = [ocb |-> b, len |-> l, ref |-> f, head |-> h, last |-> z, got |-> g]
  BY <1>4, <1>7 DEF Server
<1> QED
  BY <1>1, <1>2, <1>3, <1>4, <1>6, <1>8, <1>9

\* The other interfaces are as they were.
LEMMA Elsewhere ==
  ASSUME CInv, Types', NEW i \in Interfaces,
         \A j \in Interfaces \ {i} : /\ head'[j] = head[j] /\ last'[j] = last[j]
                                     /\ len'[j] = len[j] /\ ref'[j] = ref[j]
                                     /\ blocked'[j] = blocked[j],
         \A r \in Readers : NodeOf[r] # i =>
           ocb'[r] = ocb[r] /\ got'[r] = got[r] /\ start'[r] = start[r],
         \A r \in armed' : r \in armed \/ NodeOf[r] = i,
         InterfaceInv(i, Server(i), blocked[i], armed, start)'
  PROVE  (\A j \in Interfaces : InterfaceInv(j, Server(j), blocked[j], armed, start))'
<1> SUFFICES ASSUME NEW j \in Interfaces
             PROVE  InterfaceInv(j, Server(j), blocked[j], armed, start)'
  OBVIOUS
<1>1. CASE j = i
  BY <1>1
<1>2. CASE j # i
  <2>1. PICK s, t : s = Server(j) /\ t = Server(j)'
    OBVIOUS
  <2>2. /\ s.len = len[j] /\ s.ref = ref[j] /\ s.head = head[j] /\ s.last = last[j]
        /\ s.ocb = ocb /\ s.got = got
    BY <2>1, ServerTyped DEF CInv
  <2>3. /\ t \in Servers /\ t.len = len'[j] /\ t.ref = ref'[j] /\ t.head = head'[j]
        /\ t.last = last'[j] /\ t.ocb = ocb' /\ t.got = got'
    <3>1. /\ ocb' \in [Readers -> OCBs] /\ got' \in [Readers -> Seq(Data)]
          /\ len'[j] \in [Msgs -> Nat] /\ ref'[j] \in [Msgs -> Nat]
          /\ head'[j] \in Msgs /\ last'[j] \in Msgs
      BY DEF Types
    <3>2. PICK l, f, h, z : l = len'[j] /\ f = ref'[j] /\ h = head'[j] /\ z = last'[j]
      OBVIOUS
    <3>3. t = [ocb |-> ocb', len |-> l, ref |-> f, head |-> h, last |-> z, got |-> got']
      BY <2>1, <3>2 DEF Server
    <3> QED
      BY <3>1, <3>2, <3>3 DEF Servers
  <2>4. InterfaceInv(j, s, blocked[j], armed, start)
    BY <2>1 DEF CInv
  <2>5. PICK q, a, a2, st, st2 : /\ q = blocked[j] /\ a = armed /\ a2 = armed'
                                 /\ st = start /\ st2 = start'
    OBVIOUS
  <2>6. \A r \in Readers : NodeOf[r] = j =>
          t.ocb[r] = s.ocb[r] /\ t.got[r] = s.got[r] /\ st2[r] = st[r]
    BY <1>2, <2>2, <2>3, <2>5
  <2>7. \A r \in a2 : r \in Readers /\ NodeOf[r] = j => r \in a
    BY <1>2, <2>5
  <2>8. t.len = s.len /\ t.ref = s.ref /\ t.head = s.head /\ t.last = s.last
    BY <1>2, <2>2, <2>3
  <2>9. InterfaceInv(j, t, q, a2, st2)
    BY <2>3, <2>4, <2>5, <2>6, <2>7, <2>8, Untouched
  <2>10. InterfaceInv(j, Server(j)', blocked'[j], armed', start')
    BY <1>2, <2>1, <2>5, <2>9
  <2> QED
    BY <2>10
<1> QED
  BY <1>1, <1>2

\* What the invariant says of the interface of a reader.
LEMMA OfReader ==
  ASSUME CInv, NEW r \in Readers
  PROVE  /\ NodeOf[r] \in Interfaces /\ Types /\ Room
         /\ ocb \in [Readers -> OCBs] /\ ocb[r] \in OCBs /\ ocb[r].next \in Msgs
         /\ InterfaceInv(NodeOf[r], Server(NodeOf[r]), blocked[NodeOf[r]], armed, start)
         /\ ocb[r].open => r \in Has(NodeOf[r], Server(NodeOf[r]))
         /\ r \in armed => ocb[r].open
<1>1. NodeOf[r] \in Interfaces
  BY CommandServerAssumption DEF CommandServerAssumption
<1>2. Types /\ Room
  BY DEF CInv
<1>3. Server(NodeOf[r]).ocb = ocb
  BY <1>1, <1>2, ServerTyped
<1>4. ocb \in [Readers -> OCBs] /\ ocb[r] \in OCBs /\ ocb[r].next \in Msgs
  BY <1>2 DEF Types, OCBs
<1>5. r \in armed => ocb[r].open
  BY <1>2 DEF Types
<1> QED
  BY <1>1, <1>2, <1>3, <1>4, <1>5 DEF CInv, Has

\* Open.
LEMMA OpenStep ==
  ASSUME CInv, NEW r \in Readers, Open(r)
  PROVE  CInv'
<1>1. PICK i \in Interfaces : i = NodeOf[r]
  BY OfReader
<1>2. /\ ~ocb[r].open
      /\ ref' = [ref EXCEPT ![i][head[i]] = @ + 1]
      /\ ocb' = [ocb EXCEPT ![r] = [Closed EXCEPT !.open = TRUE, !.next = head[i]]]
      /\ start' = [start EXCEPT ![r] = head[i]]
      /\ got' = [got EXCEPT ![r] = <<>>]
      /\ UNCHANGED <<alive, quit, up, head, last, len, blocked, armed, wopen>>
  BY <1>1 DEF Open, Referred
<1>3. PICK s : s = Server(i)
  OBVIOUS
<1>4. /\ s \in Servers /\ s.ocb = ocb /\ s.got = got /\ s.len = len[i] /\ s.ref = ref[i]
      /\ s.head = head[i] /\ s.last = last[i] /\ Types
      /\ InterfaceInv(i, s, blocked[i], armed, start)
  BY <1>3, ServerTyped DEF CInv
<1>5. head[i] \in Msgs /\ head[i] \in Nat /\ ref[i] \in [Msgs -> Nat]
  BY <1>4 DEF Servers, Msgs
<1>6. Types'
  <2>1. [Closed EXCEPT !.open = TRUE, !.next = head[i]] \in OCBs
    BY <1>5 DEF Closed, OCBs
  <2>2. ocb' \in [Readers -> OCBs]
    BY <1>2, <1>4, <2>1 DEF Types
  <2>3. ref' \in [Interfaces -> [Msgs -> Nat]]
    <3>1. PICK f : f = [ref[i] EXCEPT ![head[i]] = @ + 1]
      OBVIOUS
    <3>2. f \in [Msgs -> Nat]
      BY <1>5, <3>1
    <3>3. ref' = [ref EXCEPT ![i] = f]
      BY <1>2, <3>1
    <3> QED
      BY <1>4, <3>2, <3>3 DEF Types
  <2>4. start' \in [Readers -> Msgs] /\ got' \in [Readers -> Seq(Data)]
    BY <1>2, <1>4, <1>5 DEF Types
  <2>5. armed' \subseteq {u \in Readers : ocb'[u].open}
    <3>1. ASSUME NEW u \in armed PROVE u \in Readers /\ ocb'[u].open
      <4>1. u \in Readers /\ ocb[u].open /\ u # r
        BY <1>2, <1>4 DEF Types
      <4>2. ocb'[u] = ocb[u]
        BY <1>2, <1>4, <4>1 DEF Types
      <4> QED
        BY <4>1, <4>2
    <3> QED
      BY <1>2, <3>1
  <2> QED
    BY <1>2, <1>4, <2>2, <2>3, <2>4, <2>5 DEF Types
<1>7. PICK t : t = Server(i)'
  OBVIOUS
<1>8. /\ t.len = s.len /\ t.head = s.head /\ t.last = s.last /\ t \in Servers
      /\ t.ref = [s.ref EXCEPT ![s.head] = @ + 1]
      /\ t.ocb = [s.ocb EXCEPT ![r] = [Closed EXCEPT !.open = TRUE, !.next = s.head]]
      /\ t.got = [s.got EXCEPT ![r] = <<>>]
  <2>1. PICK f : f = [ref[i] EXCEPT ![head[i]] = @ + 1]
    OBVIOUS
  <2>2. ref'[i] = f
    BY <1>2, <1>4, <2>1 DEF Types
  <2>3. PICK l, h, z : l = len[i] /\ h = head[i] /\ z = last[i]
    OBVIOUS
  <2>4. t = [ocb |-> ocb', len |-> l, ref |-> f, head |-> h, last |-> z, got |-> got']
    BY <1>2, <1>7, <2>2, <2>3 DEF Server
  <2>5. /\ ocb' \in [Readers -> OCBs] /\ got' \in [Readers -> Seq(Data)]
        /\ l \in [Msgs -> Nat] /\ f \in [Msgs -> Nat] /\ h \in Msgs /\ z \in Msgs
    <3>1. ocb' \in [Readers -> OCBs] /\ got' \in [Readers -> Seq(Data)]
      BY <1>6 DEF Types
    <3>2. l \in [Msgs -> Nat] /\ h \in Msgs /\ z \in Msgs
      BY <1>4, <2>3 DEF Types
    <3>3. f \in [Msgs -> Nat]
      BY <1>5, <2>1
    <3> QED
      BY <3>1, <3>2, <3>3
  <2>6. /\ t.len = l /\ t.head = h /\ t.last = z /\ t.ref = f /\ t.ocb = ocb' /\ t.got = got'
        /\ t \in Servers
    BY <2>4, <2>5 DEF Servers
  <2> QED
    BY <1>2, <1>4, <2>1, <2>3, <2>6
<1>9. start'[r] = s.head /\ \A u \in Readers \ {r} : start'[u] = start[u]
  BY <1>2, <1>4 DEF Types
<1>10. InterfaceInv(i, t, blocked[i], armed, start')
  <2>1. PICK q, a, st, st2 : q = blocked[i] /\ a = armed /\ st = start /\ st2 = start'
    OBVIOUS
  <2>2. r \notin a /\ ~s.ocb[r].open
    BY <1>2, <1>4, <2>1 DEF Types
  <2>3. Opens(s, t, r, st, st2)
    BY <1>8, <1>9, <2>1 DEF Opens
  <2>4. t \in Servers /\ InterfaceInv(i, s, q, a, st) /\ NodeOf[r] = i
    BY <1>1, <1>4, <1>8, <2>1
  <2>5. InterfaceInv(i, t, q, a, st2)
    BY <2>2, <2>3, <2>4, OpenKeeps
  <2> QED
    BY <2>1, <2>5
<1>11. InterfaceInv(i, Server(i), blocked[i], armed, start)'
  BY <1>2, <1>7, <1>10
<1>12. \A u \in Readers : NodeOf[u] # i =>
         ocb'[u] = ocb[u] /\ got'[u] = got[u] /\ start'[u] = start[u]
  BY <1>1, <1>2, <1>4 DEF Types
<1>13. \A j \in Interfaces \ {i} : ref'[j] = ref[j]
  BY <1>2, <1>4 DEF Types
<1>14. (\A j \in Interfaces : InterfaceInv(j, Server(j), blocked[j], armed, start))'
  BY <1>2, <1>6, <1>11, <1>12, <1>13, Elsewhere
<1> QED
  BY <1>2, <1>6, <1>14 DEF CInv, Room

\* Leave only takes interfaces down.
LEMMA LeaveTypes ==
  ASSUME Types, NEW o, NEW w, Leave(o, w)
  PROVE  up' \in [Interfaces -> BOOLEAN] /\ alive' \in BOOLEAN
<1>1. CASE quit
  <2>1. up' = StillUp(o) /\ alive' = (w # {} \/ \E i \in Interfaces : up'[i])
    BY <1>1 DEF Leave
  <2>2. StillUp(o) \in [Interfaces -> BOOLEAN]
    <3>1. ASSUME NEW i \in Interfaces
          PROVE  (up[i] /\ \E r \in Readers : o[r].open /\ NodeOf[r] = i) \in BOOLEAN
      OBVIOUS
    <3> QED
      BY <3>1 DEF StillUp
  <2> QED
    BY <2>1, <2>2
<1>2. CASE ~quit
  BY <1>2 DEF Leave, Types
<1> QED
  BY <1>1, <1>2

\* Close.
LEMMA CloseStep ==
  ASSUME CInv, NEW r \in Readers, Close(r)
  PROVE  CInv'
<1>1. PICK i \in Interfaces : i = NodeOf[r]
  BY OfReader
<1>2. /\ ocb[r].open /\ ocb[r].want = 0
      /\ ref' = [ref EXCEPT ![i][ocb[r].next] = @ - 1]
      /\ ocb' = [ocb EXCEPT ![r] = Closed]
      /\ armed' = armed \ {r}
      /\ got' = [got EXCEPT ![r] = <<>>]
      /\ Leave(ocb', wopen)
      /\ UNCHANGED <<quit, head, last, len, blocked, wopen, start>>
  BY <1>1 DEF Close
<1>3. PICK s : s = Server(i)
  OBVIOUS
<1>4. /\ s \in Servers /\ s.ocb = ocb /\ s.got = got /\ s.len = len[i] /\ s.ref = ref[i]
      /\ s.head = head[i] /\ s.last = last[i] /\ Types
      /\ InterfaceInv(i, s, blocked[i], armed, start)
  BY <1>3, ServerTyped DEF CInv
<1>5. r \in Has(i, s) /\ s.ocb[r].want = 0
  BY <1>1, <1>2, <1>3, <1>4, OfReader
<1>6. PICK t : t = Server(i)'
  OBVIOUS
<1>7. PICK f : f = [ref[i] EXCEPT ![ocb[r].next] = @ - 1]
  OBVIOUS
<1>8. ref' = [ref EXCEPT ![i] = f] /\ ref'[i] = f /\ \A j \in Interfaces \ {i} : ref'[j] = ref[j]
  BY <1>2, <1>4, <1>7 DEF Types
<1>9. Closes(s, t, r) /\ t.ref = f
  <2>1. PICK l, h, z : l = len[i] /\ h = head[i] /\ z = last[i]
    OBVIOUS
  <2>2. t = [ocb |-> ocb', len |-> l, ref |-> f, head |-> h, last |-> z, got |-> got']
    BY <1>2, <1>6, <1>8, <2>1 DEF Server
  <2>3. t.len = l /\ t.head = h /\ t.last = z /\ t.ref = f /\ t.ocb = ocb' /\ t.got = got'
    BY <2>2
  <2>4. t = [ocb |-> t.ocb, len |-> t.len, ref |-> t.ref, head |-> t.head,
             last |-> t.last, got |-> t.got]
    BY <2>2, <2>3
  <2>5. t.ref = [s.ref EXCEPT ![s.ocb[r].next] = @ - 1]
    BY <1>4, <1>7, <2>3
  <2> QED
    BY <1>2, <1>4, <2>1, <2>3, <2>4, <2>5 DEF Closes
<1>10. InterfaceInv(i, t, blocked[i], armed \ {r}, start) /\ t \in Servers
  BY <1>4, <1>5, <1>9, CloseKeeps
<1>11. Types'
  <2>1. Closed \in OCBs /\ ~Closed.open
    BY CommandServerAssumption DEF Closed, OCBs, Msgs, CommandServerAssumption
  <2>2. ocb' \in [Readers -> OCBs]
    BY <1>2, <1>4, <2>1 DEF Types
  <2>3. ref' \in [Interfaces -> [Msgs -> Nat]]
    <3>1. f \in [Msgs -> Nat]
      BY <1>9, <1>10 DEF Servers
    <3> QED
      BY <1>4, <1>8, <3>1 DEF Types
  <2>4. got' \in [Readers -> Seq(Data)]
    BY <1>2, <1>4 DEF Types
  <2>5. armed' \subseteq {u \in Readers : ocb'[u].open}
    <3>1. ASSUME NEW u \in armed \ {r} PROVE u \in Readers /\ ocb'[u].open
      BY <1>2, <1>4, <3>1 DEF Types
    <3> QED
      BY <1>2, <3>1
  <2>6. up' \in [Interfaces -> BOOLEAN] /\ alive' \in BOOLEAN
    BY <1>2, <1>4, LeaveTypes
  <2> QED
    BY <1>2, <1>4, <2>2, <2>3, <2>4, <2>5, <2>6 DEF Types
<1>12. InterfaceInv(i, Server(i), blocked[i], armed, start)'
  BY <1>2, <1>6, <1>10
<1>13. \A u \in Readers : NodeOf[u] # i =>
         ocb'[u] = ocb[u] /\ got'[u] = got[u] /\ start'[u] = start[u]
  BY <1>1, <1>2, <1>4 DEF Types
<1>14. (\A j \in Interfaces : InterfaceInv(j, Server(j), blocked[j], armed, start))'
  BY ZenonT(40), <1>2, <1>8, <1>11, <1>12, <1>13, Elsewhere
<1> QED
  BY <1>2, <1>11, <1>14 DEF CInv, Room

\* Read.
LEMMA ReadStep ==
  ASSUME CInv, NEW r \in Readers, Read(r)
  PROVE  CInv'
<1>1. PICK i \in Interfaces : i = NodeOf[r]
  BY OfReader
<1>2. PICK s : s = Server(i)
  OBVIOUS
<1>3. /\ s \in Servers /\ s.ocb = ocb /\ s.got = got /\ s.len = len[i] /\ s.ref = ref[i]
      /\ s.head = head[i] /\ s.last = last[i] /\ Types
      /\ InterfaceInv(i, s, blocked[i], armed, start)
  BY <1>2, ServerTyped DEF CInv
<1>4. ocb[r].open /\ ocb[r].want = 0 /\ UNCHANGED <<alive, quit, up, armed, wopen, start>>
  BY DEF Read
<1>5. r \in Has(i, s) /\ s.ocb[r].want = 0
  BY <1>1, <1>2, <1>3, <1>4, OfReader
<1>6. HasInput(r) <=> s.len[s.ocb[r].next] > s.ocb[r].off \/ s.ocb[r].next < s.last
  BY <1>1, <1>3 DEF HasInput
<1>7. PICK n \in Nat \ {0} :
        IF HasInput(r)
        THEN SetServer(i, ReadReply([Server(i) EXCEPT !.ocb[r].want = n], r))
             /\ UNCHANGED blocked
        ELSE /\ ocb' = [ocb EXCEPT ![r].want = n]
             /\ blocked' = [blocked EXCEPT ![i] = <<r>> \o @]
             /\ UNCHANGED <<head, last, len, ref, got>>
  BY <1>1, CommandServerAssumption DEF Read, CommandServerAssumption
<1>8. start \in [Readers -> Msgs]
  BY <1>3 DEF Types
<1>9. CASE HasInput(r)
  <2>1. PICK t : t = ReadReply(Asks(s, r, n), r)
    OBVIOUS
  <2>2. SetServer(i, t) /\ blocked' = blocked
    BY <1>2, <1>7, <1>9, <2>1 DEF Asks
  <2>3. /\ InterfaceInv(i, t, blocked[i], armed, start) /\ t.last = s.last
        /\ \A u \in Readers : t.ocb[u].open = s.ocb[u].open
        /\ \A u \in Readers \ {r} : t.ocb[u] = s.ocb[u] /\ t.got[u] = s.got[u]
    BY <1>3, <1>5, <1>6, <1>8, <1>9, <2>1, ReadAnswers
  <2>4. t \in Servers
    BY <2>3 DEF InterfaceInv, ServerInv
  <2>5. /\ Server(i)' = t
        /\ ocb' = t.ocb /\ got' = t.got
        /\ ocb' \in [Readers -> OCBs] /\ got' \in [Readers -> Seq(Data)]
        /\ head' \in [Interfaces -> Msgs] /\ last' \in [Interfaces -> Msgs]
        /\ len' \in [Interfaces -> [Msgs -> Nat]] /\ ref' \in [Interfaces -> [Msgs -> Nat]]
        /\ last' = [last EXCEPT ![i] = t.last]
        /\ \A j \in Interfaces \ {i} : /\ head'[j] = head[j] /\ last'[j] = last[j]
                                       /\ len'[j] = len[j] /\ ref'[j] = ref[j]
    BY <1>3, <2>2, <2>4, SetsServer
  <2>6. Types'
    <3>1. armed' \subseteq {u \in Readers : ocb'[u].open}
      BY <1>3, <1>4, <2>3, <2>5 DEF Types
    <3> QED
      BY <1>3, <1>4, <2>2, <2>5, <3>1 DEF Types
  <2>7. last' = last
    BY <1>3, <2>3, <2>5 DEF Types
  <2>8. InterfaceInv(i, Server(i), blocked[i], armed, start)'
    BY <1>4, <2>2, <2>3, <2>5
  <2>9. \A u \in Readers : NodeOf[u] # i =>
          ocb'[u] = ocb[u] /\ got'[u] = got[u] /\ start'[u] = start[u]
    BY <1>1, <1>3, <1>4, <2>3, <2>5
  <2>10. (\A j \in Interfaces : InterfaceInv(j, Server(j), blocked[j], armed, start))'
    BY <1>4, <2>2, <2>5, <2>6, <2>8, <2>9, Elsewhere
  <2> QED
    BY <1>4, <2>6, <2>7, <2>10 DEF CInv, Room
<1>10. CASE ~HasInput(r)
  <2>1. PICK t : t = Asks(s, r, n)
    OBVIOUS
  <2>2. /\ ocb' = [ocb EXCEPT ![r].want = n]
        /\ blocked' = [blocked EXCEPT ![i] = <<r>> \o @]
        /\ UNCHANGED <<head, last, len, ref, got>>
    BY <1>7, <1>10
  <2>3. /\ InterfaceInv(i, t, <<r>> \o blocked[i], armed, start)
        /\ \A u \in Readers : t.ocb[u].open = s.ocb[u].open
    BY <1>3, <1>5, <1>6, <1>10, <2>1, ReadBlocks
  <2>4. t \in Servers /\ <<r>> \o blocked[i] \in Seq(Readers)
    BY <2>3 DEF InterfaceInv, ServerInv, Waiting
  <2>5. t = [s EXCEPT !.ocb = ocb']
    BY <1>3, <2>1, <2>2 DEF Asks
  <2>6. t.ocb = ocb' /\ ocb' \in [Readers -> OCBs]
    BY <1>3, <2>4, <2>5 DEF Servers
  <2>7. Server(i)' = t
    <3>1. PICK l, f, h, z : l = len[i] /\ f = ref[i] /\ h = head[i] /\ z = last[i]
      OBVIOUS
    <3>2. Server(i)' = [ocb |-> ocb', len |-> l, ref |-> f, head |-> h, last |-> z, got |-> got]
      BY <2>2, <3>1 DEF Server
    <3>3. s = [ocb |-> ocb, len |-> l, ref |-> f, head |-> h, last |-> z, got |-> got]
      BY <1>2, <3>1 DEF Server
    <3> QED
      BY <2>5, <3>2, <3>3
  <2>8. Types'
    <3>1. armed' \subseteq {u \in Readers : ocb'[u].open}
      BY <1>3, <1>4, <2>3, <2>6 DEF Types
    <3>2. blocked' \in [Interfaces -> Seq(Readers)]
      BY <1>3, <2>2, <2>4 DEF Types
    <3> QED
      BY <1>3, <1>4, <2>2, <2>6, <3>1, <3>2 DEF Types
  <2>9. /\ blocked'[i] = <<r>> \o blocked[i]
        /\ \A j \in Interfaces \ {i} : blocked'[j] = blocked[j]
    BY <1>3, <2>2 DEF Types
  <2>10. InterfaceInv(i, Server(i), blocked[i], armed, start)'
    BY <1>4, <2>3, <2>7, <2>9
  <2>11. \A u \in Readers : NodeOf[u] # i =>
           ocb'[u] = ocb[u] /\ got'[u] = got[u] /\ start'[u] = start[u]
    BY <1>1, <1>3, <1>4, <2>2 DEF Types
  <2>12. (\A j \in Interfaces : InterfaceInv(j, Server(j), blocked[j], armed, start))'
    BY <1>4, <2>2, <2>8, <2>9, <2>10, <2>11, Elsewhere
  <2> QED
    BY <1>4, <2>2, <2>8, <2>12 DEF CInv, Room
<1> QED
  BY <1>9, <1>10

\* Command.
LEMMA CommandStep ==
  ASSUME CInv, NEW i \in Interfaces, Command(i)
  PROVE  CInv'
<1>1. /\ MayWrite /\ last[i] < MaxMsgs
      /\ blocked' = [blocked EXCEPT ![i] = <<>>]
      /\ armed' = {r \in armed : NodeOf[r] # i}
      /\ UNCHANGED <<alive, quit, up, wopen, start>>
  BY DEF Command
<1>2. PICK n \in Nat : SetServer(i, Turfed(i, Server(i), n))
  BY CommandServerAssumption DEF Command, CommandServerAssumption
<1>3. PICK s, t : s = Server(i) /\ t = Turfed(i, s, n)
  OBVIOUS
<1>4. /\ s \in Servers /\ s.ocb = ocb /\ s.got = got /\ s.last = last[i] /\ Types
      /\ InterfaceInv(i, s, blocked[i], armed, start)
  BY <1>3, ServerTyped DEF CInv
<1>5. start \in [Readers -> Msgs] /\ s.last + 1 \in Msgs /\ s.last + 1 <= MaxMsgs
  <2>1. s.last \in Nat /\ MaxMsgs \in Nat
    BY <1>4, CommandServerAssumption DEF Servers, Msgs, CommandServerAssumption
  <2>2. s.last < MaxMsgs
    BY <1>1, <1>4
  <2>3. s.last + 1 \in Msgs /\ s.last + 1 <= MaxMsgs
    BY <2>1, <2>2 DEF Msgs
  <2> QED
    BY <1>4, <2>3 DEF Types
<1>6. \A r \in armed' : NodeOf[r] # i
  BY <1>1
<1>7. /\ InterfaceInv(i, t, <<>>, armed', start) /\ t.last = s.last + 1
      /\ \A r \in Readers : t.ocb[r].open = s.ocb[r].open
      /\ \A r \in Readers : NodeOf[r] # i => t.ocb[r] = s.ocb[r] /\ t.got[r] = s.got[r]
  <2>1. PICK a, a2, st : a = armed /\ a2 = armed' /\ st = start
    OBVIOUS
  <2>2. InterfaceInv(i, s, blocked[i], a, st) /\ st \in [Readers -> Msgs] /\ \A r \in a2 : NodeOf[r] # i
    BY <1>4, <1>5, <1>6, <2>1
  <2>3. Turfs(i, s, a2, st, t)
    BY <1>3, <1>5, <2>2, TurfedKeeps
  <2> QED
    BY <2>1, <2>3 DEF Turfs
<1>8. t \in Servers
  BY <1>7 DEF InterfaceInv, ServerInv
<1>9. /\ Server(i)' = t
      /\ ocb' = t.ocb /\ got' = t.got
      /\ ocb' \in [Readers -> OCBs] /\ got' \in [Readers -> Seq(Data)]
      /\ head' \in [Interfaces -> Msgs] /\ last' \in [Interfaces -> Msgs]
      /\ len' \in [Interfaces -> [Msgs -> Nat]] /\ ref' \in [Interfaces -> [Msgs -> Nat]]
      /\ last' = [last EXCEPT ![i] = t.last]
      /\ \A j \in Interfaces \ {i} : /\ head'[j] = head[j] /\ last'[j] = last[j]
                                     /\ len'[j] = len[j] /\ ref'[j] = ref[j]
  BY <1>2, <1>3, <1>4, <1>8, SetsServer
<1>10. blocked' \in [Interfaces -> Seq(Readers)] /\ blocked'[i] = <<>>
       /\ \A j \in Interfaces \ {i} : blocked'[j] = blocked[j]
  <2>1. <<>> \in Seq(Readers)
    OBVIOUS
  <2> QED
    BY <1>1, <1>4, <2>1 DEF Types
<1>11. Types'
  <2>1. armed' \subseteq {u \in Readers : ocb'[u].open}
    BY <1>1, <1>4, <1>7, <1>9 DEF Types
  <2> QED
    BY <1>1, <1>4, <1>9, <1>10, <2>1 DEF Types
<1>12. Room'
  <2>1. ASSUME NEW j \in Interfaces PROVE last'[j] <= IF quit THEN MaxMsgs + 1 ELSE MaxMsgs
    <3>1. CASE j = i
      <4>1. last'[j] = t.last
        BY <1>4, <1>9, <3>1 DEF Types
      <4>2. ~quit
        BY <1>1 DEF MayWrite
      <4> QED
        BY <1>5, <1>7, <4>1, <4>2
    <3>2. CASE j # i
      BY <1>9, <3>2 DEF CInv, Room
    <3> QED
      BY <3>1, <3>2
  <2> QED
    BY <1>1, <2>1 DEF Room
<1>13. InterfaceInv(i, Server(i), blocked[i], armed, start)'
  BY <1>1, <1>7, <1>9, <1>10
<1>14. \A u \in Readers : NodeOf[u] # i =>
         ocb'[u] = ocb[u] /\ got'[u] = got[u] /\ start'[u] = start[u]
  BY <1>1, <1>4, <1>7, <1>9
<1>15. \A r \in armed' : r \in armed \/ NodeOf[r] = i
  BY <1>1
<1>16. (\A j \in Interfaces : InterfaceInv(j, Server(j), blocked[j], armed, start))'
  BY <1>9, <1>10, <1>11, <1>13, <1>14, <1>15, Elsewhere
<1> QED
  BY <1>11, <1>12, <1>16 DEF CInv

\* The shutdown message to one interface.
LEMMA ShutKeeps ==
  ASSUME CInv, MayWrite, NEW i \in Interfaces
  PROVE  /\ InterfaceInv(i, Shut(i), <<>>, {}, start) /\ Shut(i) \in Servers
         /\ Shut(i).last = last[i] + 1 /\ Shut(i).last <= MaxMsgs + 1
         /\ \A r \in Readers : Shut(i).ocb[r].open = ocb[r].open
<1>1. PICK s, t : s = Server(i) /\ t = Shut(i)
  OBVIOUS
<1>2. /\ s \in Servers /\ s.ocb = ocb /\ s.last = last[i] /\ Types
      /\ InterfaceInv(i, s, blocked[i], armed, start)
  BY <1>1, ServerTyped DEF CInv
<1>3. start \in [Readers -> Msgs] /\ s.last + 1 \in Msgs /\ s.last + 1 <= MaxMsgs + 1
  <2>1. s.last \in Nat /\ MaxMsgs \in Nat
    BY <1>2, CommandServerAssumption DEF Servers, Msgs, CommandServerAssumption
  <2>2. s.last <= MaxMsgs
    BY <1>2 DEF MayWrite, CInv, Room
  <2>3. s.last + 1 \in Msgs /\ s.last + 1 <= MaxMsgs + 1
    BY <2>1, <2>2 DEF Msgs
  <2> QED
    BY <1>2, <2>3 DEF Types
<1>4. t = Turfed(i, s, 0)
  BY <1>1 DEF Shut
<1>5. /\ InterfaceInv(i, t, <<>>, {}, start) /\ t.last = s.last + 1
      /\ \A r \in Readers : t.ocb[r].open = s.ocb[r].open
  <2>1. PICK a, a2, st : a = armed /\ a2 = {} /\ st = start
    OBVIOUS
  <2>2. PICK n \in Nat : n = 0
    OBVIOUS
  <2>3. InterfaceInv(i, s, blocked[i], a, st) /\ st \in [Readers -> Msgs] /\ \A r \in a2 : NodeOf[r] # i
    BY <1>2, <1>3, <2>1
  <2>4. Turfs(i, s, a2, st, t)
    BY <1>3, <1>4, <2>2, <2>3, TurfedKeeps
  <2> QED
    BY <2>1, <2>4 DEF Turfs
<1>6. t \in Servers
  BY <1>5 DEF InterfaceInv, ServerInv
<1> QED
  BY <1>1, <1>2, <1>3, <1>5, <1>6

\* Quit.
LEMMA QuitStep ==
  ASSUME CInv, Quit
  PROVE  CInv'
<1>1. PICK s : s = [i \in Interfaces |-> Shut(i)]
  OBVIOUS
<1>2. /\ MayWrite /\ quit' = TRUE
      /\ ocb' = [r \in Readers |-> s[NodeOf[r]].ocb[r]]
      /\ got' = [r \in Readers |-> s[NodeOf[r]].got[r]]
      /\ head' = [i \in Interfaces |-> s[i].head]
      /\ last' = [i \in Interfaces |-> s[i].last]
      /\ len' = [i \in Interfaces |-> s[i].len]
      /\ ref' = [i \in Interfaces |-> s[i].ref]
      /\ blocked' = [i \in Interfaces |-> <<>>]
      /\ armed' = {} /\ up' = StillUp(ocb)
      /\ UNCHANGED <<alive, wopen, start>>
  BY <1>1 DEF Quit
<1>3. \A i \in Interfaces :
        /\ InterfaceInv(i, s[i], <<>>, {}, start) /\ s[i] \in Servers
        /\ s[i].last = last[i] + 1 /\ s[i].last <= MaxMsgs + 1
        /\ \A r \in Readers : s[i].ocb[r].open = ocb[r].open
  BY <1>1, <1>2, ShutKeeps
<1>4. \A r \in Readers : NodeOf[r] \in Interfaces
  BY CommandServerAssumption DEF CommandServerAssumption
<1>5. \A i \in Interfaces :
        /\ s[i].ocb \in [Readers -> OCBs] /\ s[i].got \in [Readers -> Seq(Data)]
        /\ s[i].head \in Msgs /\ s[i].last \in Msgs
        /\ s[i].len \in [Msgs -> Nat] /\ s[i].ref \in [Msgs -> Nat]
  BY <1>3 DEF Servers
<1>6. Types'
  <2>1. ocb' \in [Readers -> OCBs] /\ got' \in [Readers -> Seq(Data)]
    <3>1. \A r \in Readers : s[NodeOf[r]].ocb[r] \in OCBs /\ s[NodeOf[r]].got[r] \in Seq(Data)
      BY <1>4, <1>5
    <3> QED
      BY <1>2, <3>1
  <2>2. /\ head' \in [Interfaces -> Msgs] /\ last' \in [Interfaces -> Msgs]
        /\ len' \in [Interfaces -> [Msgs -> Nat]] /\ ref' \in [Interfaces -> [Msgs -> Nat]]
    BY <1>2, <1>5
  <2>3. blocked' \in [Interfaces -> Seq(Readers)]
    <3>1. <<>> \in Seq(Readers)
      OBVIOUS
    <3> QED
      BY <1>2, <3>1
  <2>4. up' \in [Interfaces -> BOOLEAN]
    <3>1. ASSUME NEW i \in Interfaces
          PROVE  (up[i] /\ \E r \in Readers : ocb[r].open /\ NodeOf[r] = i) \in BOOLEAN
      OBVIOUS
    <3> QED
      BY <1>2, <3>1 DEF StillUp
  <2> QED
    BY <1>2, <2>1, <2>2, <2>3, <2>4 DEF CInv, Types
<1>7. Room'
  BY <1>2, <1>3 DEF Room
<1>8. ASSUME NEW i \in Interfaces
      PROVE  InterfaceInv(i, Server(i), blocked[i], armed, start)'
  <2>1. PICK t, u : t = s[i] /\ u = Server(i)'
    OBVIOUS
  <2>2. PICK l, f, h, z : l = t.len /\ f = t.ref /\ h = t.head /\ z = t.last
    OBVIOUS
  <2>3. u = [ocb |-> ocb', len |-> l, ref |-> f, head |-> h, last |-> z, got |-> got']
    BY <1>2, <2>1, <2>2 DEF Server
  <2>4. /\ ocb' \in [Readers -> OCBs] /\ got' \in [Readers -> Seq(Data)]
        /\ l \in [Msgs -> Nat] /\ f \in [Msgs -> Nat] /\ h \in Msgs /\ z \in Msgs
    BY <1>5, <1>6, <2>1, <2>2 DEF Types
  <2>5. /\ u \in Servers /\ u.len = t.len /\ u.ref = t.ref /\ u.head = t.head
        /\ u.last = t.last /\ u.ocb = ocb' /\ u.got = got'
    BY <2>2, <2>3, <2>4 DEF Servers
  <2>6. \A r \in Readers : NodeOf[r] = i => u.ocb[r] = t.ocb[r] /\ u.got[r] = t.got[r]
    BY <1>2, <2>1, <2>5
  <2>7. InterfaceInv(i, t, <<>>, {}, start)
    BY <1>3, <2>1
  <2>8. InterfaceInv(i, u, <<>>, {}, start)
    <3>1. PICK q, a, st : q = <<>> /\ a = {} /\ st = start
      OBVIOUS
    <3> QED
      BY <2>5, <2>6, <2>7, <3>1, Untouched
  <2> QED
    BY <1>2, <2>1, <2>8
<1> QED
  BY <1>6, <1>7, <1>8 DEF CInv

\* Notify, and the writers' steps.
LEMMA OtherSteps ==
  ASSUME CInv,
         \/ \E r \in Readers : Notify(r)
         \/ \E w \in Writers : OpenWriter(w) \/ CloseWriter(w)
         \/ UNCHANGED vars
  PROVE  CInv'
<1>1. CASE \E r \in Readers : Notify(r)
  <2>1. PICK r \in Readers : Notify(r)
    BY <1>1
  <2>2. PICK i \in Interfaces : i = NodeOf[r]
    BY OfReader
  <2>3. /\ ocb[r].open /\ ~HasInput(r) /\ armed' = armed \cup {r}
        /\ UNCHANGED <<alive, quit, up, head, last, len, ref, blocked, ocb, wopen, got, start>>
    BY <2>1 DEF Notify
  <2>4. PICK s : s = Server(i)
    OBVIOUS
  <2>5. /\ s \in Servers /\ s.ocb = ocb /\ s.len = len[i] /\ s.last = last[i] /\ Types
        /\ InterfaceInv(i, s, blocked[i], armed, start)
    BY <2>4, ServerTyped DEF CInv
  <2>6. Server(i)' = s
    BY <2>3, <2>4 DEF Server
  <2>7. Types'
    BY <2>3, <2>5 DEF Types
  <2>8. ocb[r].next = last[i] /\ ocb[r].off = 0
    <3>1. PICK o : o = ocb[r]
      OBVIOUS
    <3>2. o.next \in Msgs /\ o.off \in Nat /\ o.next \in Nat /\ last[i] \in Nat
          /\ r \in Has(i, s)
      BY SMTT(40), <2>2, <2>3, <2>4, <2>5, <3>1, OfReader DEF OCBs, Servers, Msgs
    <3>3. /\ o.next <= last[i] /\ (o.off = 0 \/ o.off < s.len[o.next])
          /\ \A m \in Msgs : m >= last[i] => s.len[m] = 0
      BY <2>5, <3>1, <3>2 DEF InterfaceInv, ServerInv
    <3>4. ~(o.next < last[i])
      BY <2>2, <2>3, <3>1 DEF HasInput
    <3>5. o.next = last[i]
      BY <3>2, <3>3, <3>4
    <3>6. s.len[o.next] = 0
      BY <3>2, <3>3, <3>5
    <3>7. o.off = 0
      BY <3>2, <3>3, <3>6
    <3> QED
      BY <3>1, <3>5, <3>7
  <2>9. InterfaceInv(i, s, blocked[i], armed \cup {r}, start)
    <3>1. \A u \in Has(i, s) : s.ocb[u].want > 0 \/ u \in armed \cup {r} =>
            s.ocb[u].next = s.last /\ s.ocb[u].off = 0
      BY <2>5, <2>8 DEF InterfaceInv, Waiting
    <3> QED
      BY <2>5, <3>1 DEF InterfaceInv, Waiting
  <2>10. InterfaceInv(i, Server(i), blocked[i], armed, start)'
    BY <2>3, <2>6, <2>9
  <2>11. \A u \in armed' : u \in armed \/ NodeOf[u] = i
    BY <2>2, <2>3
  <2>12. (\A j \in Interfaces : InterfaceInv(j, Server(j), blocked[j], armed, start))'
    BY <2>3, <2>7, <2>10, <2>11, Elsewhere
  <2> QED
    BY <2>3, <2>7, <2>12 DEF CInv, Room
<1>2. ASSUME UNCHANGED <<quit, head, last, len, ref, blocked, armed, ocb, got, start>>,
             up' \in [Interfaces -> BOOLEAN], alive' \in BOOLEAN, wopen' \subseteq Writers
      PROVE  CInv'
  <2>1. Types'
    BY <1>2 DEF CInv, Types
  <2>2. \A i \in Interfaces : Server(i)' = Server(i)
    BY <1>2 DEF Server
  <2> QED
    BY <1>2, <2>1, <2>2 DEF CInv, Room
<1>3. CASE \E w \in Writers : OpenWriter(w)
  <2>1. /\ UNCHANGED <<quit, head, last, len, ref, blocked, armed, ocb, got, start>>
        /\ up' \in [Interfaces -> BOOLEAN] /\ alive' \in BOOLEAN /\ wopen' \subseteq Writers
    BY <1>3 DEF OpenWriter, CInv, Types
  <2> QED
    BY <1>2, <2>1
<1>4. CASE \E w \in Writers : CloseWriter(w)
  <2>1. /\ UNCHANGED <<quit, head, last, len, ref, blocked, armed, ocb, got, start>>
        /\ wopen' \subseteq Writers /\ Leave(ocb, wopen')
    BY <1>4 DEF CloseWriter, CInv, Types
  <2>2. up' \in [Interfaces -> BOOLEAN] /\ alive' \in BOOLEAN
    <3>1. PICK o, w : o = ocb /\ w = wopen'
      OBVIOUS
    <3>2. Leave(o, w) /\ Types
      BY <2>1, <3>1 DEF CInv
    <3> QED
      BY <3>2, LeaveTypes
  <2> QED
    BY <1>2, <2>1, <2>2
<1>5. CASE UNCHANGED vars
  <2>1. /\ UNCHANGED <<quit, head, last, len, ref, blocked, armed, ocb, got, start>>
        /\ up' \in [Interfaces -> BOOLEAN] /\ alive' \in BOOLEAN /\ wopen' \subseteq Writers
    BY <1>5 DEF vars, CInv, Types
  <2> QED
    BY <1>2, <2>1
<1> QED
  BY <1>1, <1>3, <1>4, <1>5

\* At first nobody has anything open.
LEMMA InitHolds ==
  Init => CInv
<1> SUFFICES ASSUME Init PROVE CInv
  OBVIOUS
<1>1. 0 \in Msgs /\ MaxMsgs \in Nat
  BY CommandServerAssumption DEF Msgs, CommandServerAssumption
<1>2. Closed \in OCBs /\ ~Closed.open
  BY <1>1 DEF Closed, OCBs
<1>3. Types
  <2>1. \A i \in Interfaces : blocked[i] = <<>>
    BY DEF Init
  <2>2. blocked \in [Interfaces -> Seq(Readers)]
    <3>1. <<>> \in Seq(Readers)
      OBVIOUS
    <3> QED
      BY <3>1 DEF Init
  <2>3. got \in [Readers -> Seq(Data)]
    <3>1. <<>> \in Seq(Data)
      OBVIOUS
    <3> QED
      BY <3>1 DEF Init
  <2>4. ocb \in [Readers -> OCBs]
    BY <1>2 DEF Init
  <2> QED
    BY <1>1, <2>2, <2>3, <2>4 DEF Init, Types
<1>4. Room
  BY <1>1 DEF Init, Room
<1>5. ASSUME NEW i \in Interfaces PROVE InterfaceInv(i, Server(i), blocked[i], armed, start)
  <2>1. PICK s : s = Server(i)
    OBVIOUS
  <2>2. /\ s \in Servers /\ s.ocb = ocb /\ s.len = len[i] /\ s.ref = ref[i]
        /\ s.head = head[i] /\ s.last = last[i]
    BY <1>3, <2>1, ServerTyped
  <2>3. s.head = 0 /\ s.last = 0 /\ \A m \in Msgs : s.len[m] = 0 /\ s.ref[m] = 0
    BY <2>2 DEF Init
  <2>4. Has(i, s) = {} /\ \A m : At(i, s, m) = {}
    BY <1>2, <2>2 DEF Has, At, Init
  <2>5. ServerInv(i, s)
    <3>1. Cardinality({}) = 0
      BY FS_EmptySet
    <3> QED
      BY <2>2, <2>3, <2>4, <3>1 DEF ServerInv
  <2>6. Waiting(i, s, <<>>, {})
    <3>1. <<>> \in Seq(Readers) /\ IsInjective(<<>>) /\ ToSet(<<>>) = {}
      BY DEF IsInjective, ToSet
    <3> QED
      BY <2>4, <3>1 DEF Waiting
  <2>7. blocked[i] = <<>> /\ armed = {}
    BY DEF Init
  <2> QED
    BY <2>1, <2>4, <2>5, <2>6, <2>7 DEF InterfaceInv
<1> QED
  BY <1>3, <1>4, <1>5 DEF CInv

\* The inductive invariant holds in every state.
LEMMA CInvHolds ==
  Spec => []CInv
<1>1. Init => CInv
  BY InitHolds
<1>2. CInv /\ [Next]_vars => CInv'
  <2> SUFFICES ASSUME CInv, [Next]_vars PROVE CInv'
    OBVIOUS
  <2>1. CASE \E r \in Readers : Open(r)
    BY <2>1, OpenStep
  <2>2. CASE \E r \in Readers : Read(r)
    BY <2>2, ReadStep
  <2>3. CASE \E r \in Readers : Close(r)
    BY <2>3, CloseStep
  <2>4. CASE \E i \in Interfaces : Command(i)
    BY <2>4, CommandStep
  <2>5. CASE Quit
    BY <2>5, QuitStep
  <2>6. CASE \/ \E r \in Readers : Notify(r)
             \/ \E w \in Writers : OpenWriter(w) \/ CloseWriter(w)
             \/ UNCHANGED vars
    BY <2>6, OtherSteps
  <2> QED
    BY <2>1, <2>2, <2>3, <2>4, <2>5, <2>6 DEF Next
<1> QED
  BY <1>1, <1>2, PTL DEF Spec

-----------------------------------------------------------------------------
(* The properties *)

\* Reference counts: read_reply, ocb_calloc and ocb_free keep the count of
\* every message, freed ones included, at the number of readers that refer to
\* it, so that no message is freed while a reader refers to it.
THEOREM RefCountsRight == Spec => []RefCounts
<1>1. CInv => RefCounts
  <2> SUFFICES ASSUME CInv PROVE RefCounts
    OBVIOUS
  <2>1. TypeOK
    <3>1. \A i \in Interfaces : \A k \in DOMAIN blocked[i] : blocked[i][k] \in Readers
      <4>1. \A i \in Interfaces : blocked[i] \in Seq(Readers)
        BY DEF CInv, Types
      <4> QED
        BY <4>1
    <3> QED
      BY <3>1 DEF CInv, Types, TypeOK, OCBs
  <2>2. ASSUME NEW i \in Interfaces, NEW m \in Msgs
        PROVE  ref[i][m] = IF m < head[i] THEN 0
                           ELSE Cardinality({r \in Users(i) : ocb[r].next = m})
    <3>1. PICK s : s = Server(i)
      OBVIOUS
    <3>2. s.ocb = ocb /\ s.ref = ref[i] /\ s.head = head[i] /\ ServerInv(i, s)
      BY <3>1, ServerTyped DEF CInv, InterfaceInv
    <3>3. At(i, s, m) = {r \in Users(i) : ocb[r].next = m}
      BY <3>2 DEF At, Has, Users
    <3> QED
      BY <3>2, <3>3 DEF ServerInv
  <2> QED
    BY <2>1, <2>2 DEF RefCounts
<1> QED
  BY <1>1, CInvHolds, PTL

\* Waiting: a reader that io_read has blocked, or that io_notify has armed, is
\* at the empty message at the end of the list; it is blocked once.
THEOREM WaitsRight == Spec => []WaitsAtTheEnd
<1>1. CInv => WaitsAtTheEnd
  <2> SUFFICES ASSUME CInv, NEW i \in Interfaces
               PROVE  /\ \A r \in Users(i) : ocb[r].want > 0 \/ r \in armed =>
                           ocb[r].next = last[i] /\ ocb[r].off = 0
                      /\ IsInjective(blocked[i])
                      /\ ToSet(blocked[i]) = {r \in Users(i) : ocb[r].want > 0}
    BY DEF WaitsAtTheEnd
  <2>1. PICK s : s = Server(i)
    OBVIOUS
  <2>2. s.ocb = ocb /\ s.last = last[i] /\ Waiting(i, s, blocked[i], armed)
    BY <2>1, ServerTyped DEF CInv, InterfaceInv
  <2>3. Has(i, s) = Users(i)
    BY <2>2 DEF Has, Users
  <2> QED
    BY <2>2, <2>3 DEF Waiting
<1> QED
  BY <1>1, CInvHolds, PTL

\* Reading: whatever sizes it reads by, and whether read_reply answers it at
\* once or from Turf, a reader gets every message whole, once and in order.
THEOREM ReadsRight == Spec => []ReadsInOrder
<1>1. CInv => ReadsInOrder
  <2> SUFFICES ASSUME CInv PROVE ReadsInOrder
    OBVIOUS
  <2>1. ASSUME NEW r \in Readers, ocb[r].open, NEW i, i = NodeOf[r]
        PROVE  /\ ocb[r].next >= start[r]
               /\ got[r] = FlattenSeq([k \in 1..ocb[r].next - start[r] |->
                                         Whole(i, start[r] + k - 1)])
                           \o Bytes(ocb[r].next, 0, ocb[r].off)
    <3>1. PICK s : s = Server(i)
      OBVIOUS
    <3>2. s.ocb = ocb /\ s.got = got /\ s.len = len[i]
      <4>1. i \in Interfaces /\ Types
        BY <2>1, OfReader
      <4> QED
        BY <3>1, <4>1, ServerTyped
    <3>3. ReadOk(s, start[r], r)
      BY <2>1, <3>1, OfReader DEF InterfaceInv
    <3>4. \A m : Whole(i, m) = WholeOf(s.len, m)
      BY <3>2 DEF Whole, WholeOf
    <3>5. Wholes(s.len, start[r], ocb[r].next)
            = [k \in 1..ocb[r].next - start[r] |-> Whole(i, start[r] + k - 1)]
      BY <3>4 DEF Wholes
    <3>6. start[r] \in Nat /\ ocb[r].next \in Nat
      <4>1. start[r] \in Msgs /\ ocb[r].next \in Msgs
        BY <2>1, OfReader DEF Types
      <4> QED
        BY <4>1 DEF Msgs
    <3> QED
      BY <3>2, <3>3, <3>5, <3>6 DEF ReadOk
  <2> QED
    BY <2>1 DEF ReadsInOrder
<1> QED
  BY <1>1, CInvHolds, PTL
=============================================================================
