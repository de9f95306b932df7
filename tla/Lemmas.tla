------------------------------- MODULE Lemmas -------------------------------
(***************************************************************************)
(* Facts the proofs share.  Remainders by a modulus that is a parameter,   *)
(* which the provers do not know enough about: the slots of a ring and     *)
(* counters that wrap.  Then induction on the natural numbers, in a form   *)
(* the provers can use, and over a fold: FoldLeft of SequencesExt takes    *)
(* its elements from the last, by a recursive function on sets of          *)
(* positions.                                                              *)
(*                                                                         *)
(* Op is what is folded.  It is a constant of this module, so that a proof *)
(* about a handler takes an instance of the module with that handler; what *)
(* comes before the folds holds whatever Op is.                            *)
(***************************************************************************)
EXTENDS Integers, SequencesExt, FiniteSetTheorems, SequenceTheorems,
        WellFoundedInduction, TLAPS

CONSTANT Op(_, _)   \* what is folded

\* The quotient and the remainder.
LEMMA ModRange ==
  ASSUME NEW T \in Nat \ {0}, NEW a \in Nat
  PROVE  a % T \in 0 .. T - 1 /\ a = T * (a \div T) + (a % T) /\ a \div T \in Nat
OBVIOUS

\* A larger quotient is a larger multiple.
LEMMA Mono ==
  ASSUME NEW T \in Nat \ {0}, NEW p \in Int, NEW q \in Int, p >= q + 1
  PROVE  T * p >= T * q + T
OBVIOUS

\* Remainders are unique.
LEMMA ModUnique ==
  ASSUME NEW T \in Nat \ {0}, NEW q \in Int, NEW r \in 0 .. T - 1,
         NEW q1 \in Int, NEW r1 \in 0 .. T - 1, T * q + r = T * q1 + r1
  PROVE  r = r1
<1>1. CASE q >= q1 + 1
  BY <1>1, Mono
<1>2. CASE q1 >= q + 1
  BY <1>2, Mono
<1>3. q = q1 \/ q >= q1 + 1 \/ q1 >= q + 1
  OBVIOUS
<1> QED
  BY <1>1, <1>2, <1>3

\* A remainder from its quotient.
LEMMA ModOf ==
  ASSUME NEW T \in Nat \ {0}, NEW a \in Nat, NEW q \in Int, NEW r \in 0 .. T - 1,
         a = T * q + r
  PROVE  a % T = r
BY ModRange, ModUnique

\* The remainder of a sum, from the remainder of one term: at most one turn is made.
LEMMA ModAdd ==
  ASSUME NEW T \in Nat \ {0}, NEW a \in Nat, NEW k \in 0 .. T
  PROVE  (a + k) % T = IF (a % T) + k >= T THEN (a % T) + k - T ELSE (a % T) + k
<1>1. a = T * (a \div T) + (a % T) /\ (a \div T) \in Nat /\ a % T \in 0 .. T - 1
  BY ModRange
<1>2. CASE (a % T) + k >= T
  <2>1. a + k = T * ((a \div T) + 1) + ((a % T) + k - T)
    BY <1>1
  <2>2. (a % T) + k - T \in 0 .. T - 1 /\ (a \div T) + 1 \in Int /\ a + k \in Nat
    BY <1>1, <1>2
  <2> QED
    BY <1>2, <2>1, <2>2, ModOf
<1>3. CASE ~((a % T) + k >= T)
  <2>1. a + k = T * (a \div T) + ((a % T) + k)
    BY <1>1
  <2>2. (a % T) + k \in 0 .. T - 1 /\ a + k \in Nat
    BY <1>1, <1>3
  <2> QED
    BY <1>1, <1>3, <2>1, <2>2, ModOf
<1> QED
  BY <1>2, <1>3

\* A product with a sum of three.
LEMMA Distr ==
  ASSUME NEW T \in Int, NEW c \in Int, NEW p \in Int, NEW q \in Int
  PROVE  T * (c + p - q) = T * c + T * p - T * q
OBVIOUS

\* Equal remainders stay equal when the same number is added.
LEMMA ModSame ==
  ASSUME NEW T \in Nat \ {0}, NEW a \in Nat, NEW b \in Nat, NEW i \in Nat, a % T = b % T
  PROVE  (a + i) % T = (b + i) % T
<1> DEFINE q == a \div T
           p == b \div T
           r == a % T
           c == (a + i) \div T
           m == (a + i) % T
<1>1. a = T * q + r /\ q \in Nat /\ r \in 0 .. T - 1 /\ b = T * p + r /\ p \in Nat
  BY ModRange
<1>2. b + i \in Nat /\ a + i \in Nat
  OBVIOUS
<1>3. a + i = T * c + m /\ c \in Nat /\ m \in 0 .. T - 1
  BY <1>2, ModRange
<1> HIDE DEF q, p, r, c, m
<1>4. b + i = T * c + T * p - T * q + m
  BY <1>1, <1>3
<1>5. b + i = T * (c + p - q) + m /\ c + p - q \in Int
  BY <1>1, <1>3, <1>4, Distr
<1>6. (b + i) % T = m
  BY <1>2, <1>3, <1>5, ModOf
<1> QED
  BY <1>6 DEF m

\* A number below the modulus is its own remainder.
LEMMA ModSmall == ASSUME NEW T \in Nat \ {0}, NEW a \in 0 .. T - 1 PROVE a % T = a
OBVIOUS

\* The remainder of a remainder.
LEMMA ModMod == ASSUME NEW T \in Nat \ {0}, NEW a \in Nat PROVE (a % T) % T = a % T
BY ModRange, ModSmall

\* The remainder of a sum, from the remainder of one term.
LEMMA ModSum ==
  ASSUME NEW T \in Nat \ {0}, NEW a \in Nat, NEW i \in Nat
  PROVE  ((a % T) + i) % T = (a + i) % T
<1>1. PICK b \in Nat : b = a % T
  BY ModRange
<1>2. b % T = a % T
  <2>1. (a % T) % T = a % T
    BY ModMod
  <2> QED
    BY <1>1, <2>1
<1>3. (b + i) % T = (a + i) % T
  BY ZenonT(40), <1>2, ModSame
<1> QED
  BY <1>1, <1>3

\* Numbers less than a turn apart have different remainders.
LEMMA ModApart ==
  ASSUME NEW T \in Nat \ {0}, NEW a \in Nat, NEW b \in Nat, a < b, b - a < T
  PROVE  a % T # b % T
<1>1. b - a \in 0 .. T /\ b = a + (b - a) /\ a % T \in 0 .. T - 1
  BY ModRange
<1>2. b % T = IF (a % T) + (b - a) >= T THEN (a % T) + (b - a) - T ELSE (a % T) + (b - a)
  BY <1>1, ModAdd
<1> QED
  BY <1>1, <1>2

\* The quotient and the remainder of an integer.
LEMMA IntModRange ==
  ASSUME NEW T \in Nat \ {0}, NEW a \in Int
  PROVE  a % T \in 0 .. T - 1 /\ a = T * (a \div T) + (a % T) /\ a \div T \in Int
OBVIOUS

\* Whole turns do not change a remainder.
LEMMA ModTurns ==
  ASSUME NEW T \in Nat \ {0}, NEW a \in Int, NEW k \in Int
  PROVE  (a + T * k) % T = a % T
<1> DEFINE q == a \div T
           r == a % T
           p == (a + T * k) \div T
           s == (a + T * k) % T
<1>1. a + T * k \in Int
  OBVIOUS
<1>2. a = T * q + r /\ q \in Int /\ r \in 0 .. T - 1
  BY IntModRange
<1>3. a + T * k = T * p + s /\ p \in Int /\ s \in 0 .. T - 1
  BY <1>1, IntModRange
<1> HIDE DEF q, r, p, s
<1>4. T * (q + k) + r = T * p + s /\ q + k \in Int
  BY <1>2, <1>3
<1>5. r = s
  BY <1>2, <1>3, <1>4, ModUnique
<1> QED
  BY <1>5 DEF r, s

\* The remainder of a sum, from that of one term.
LEMMA IntModSum ==
  ASSUME NEW T \in Nat \ {0}, NEW a \in Int, NEW b \in Int
  PROVE  ((a % T) + b) % T = (a + b) % T
<1> DEFINE q == a \div T
           r == a % T
<1>1. a = T * q + r /\ q \in Int /\ r \in 0 .. T - 1
  BY IntModRange
<1> HIDE DEF q, r
<1>2. r + b \in Int /\ a + b = (r + b) + T * q
  BY <1>1
<1>3. ((r + b) + T * q) % T = (r + b) % T
  BY <1>1, <1>2, ModTurns
<1>4. (a + b) % T = (r + b) % T
  BY <1>2, <1>3
<1> QED
  BY <1>4 DEF r

\* A number without a remainder is a multiple.
LEMMA MultipleOf ==
  ASSUME NEW T \in Nat \ {0}, NEW a \in Nat, a % T = 0
  PROVE  \E j \in Nat : a = T * j
<1>1. a = T * (a \div T) + 0 /\ a \div T \in Nat
  BY ModRange
<1>2. PICK j \in Nat : j = a \div T
  BY <1>1
<1>3. a = T * j
  BY <1>1, <1>2
<1> QED
  BY <1>3

\* A multiple is divided without a remainder.
LEMMA DivMultiple ==
  ASSUME NEW T \in Nat \ {0}, NEW z \in Int
  PROVE  (T * z) \div T = z /\ (T * z) % T = 0
<1> DEFINE q == (T * z) \div T
           r == (T * z) % T
<1>1. T * z \in Int
  OBVIOUS
<1>2. T * z = T * q + r /\ q \in Int /\ r \in 0 .. T - 1
  BY <1>1, IntModRange
<1> HIDE DEF q, r
<1>3. r = 0
  <2>1. T * z + 0 = T * q + r /\ 0 \in 0 .. T - 1
    BY <1>2
  <2> QED
    BY <1>2, <2>1, ModUnique
<1>4. q = z
  <2>1. T * z = T * q
    BY <1>2, <1>3
  <2>2. CASE z >= q + 1
    BY <1>2, <2>1, <2>2, Mono
  <2>3. CASE q >= z + 1
    BY <1>2, <2>1, <2>3, Mono
  <2> QED
    BY <1>2, <2>2, <2>3
<1> QED
  BY <1>3, <1>4 DEF q, r

-----------------------------------------------------------------------------
\* A set of naturals that is not empty has a least element.
LEMMA LeastElement ==
  ASSUME NEW U \in SUBSET Nat, U # {}
  PROVE  \E m \in U : \A n \in U : m <= n
<1> DEFINE R == StrictSubsetOrdering(Nat)
           Up(n) == 0 .. n
           T == {Up(n) : n \in U}
<1>1. IsWellFoundedOn(R, FiniteSubsetsOf(Nat))
  BY FS_StrictSubsetOrderingWellFounded
<1>2. T \subseteq FiniteSubsetsOf(Nat)
  <2>1. \A n \in U : n \in Int /\ Up(n) \in SUBSET Nat
    OBVIOUS
  <2>2. \A n \in U : IsFiniteSet(Up(n))
    BY <2>1, FS_Interval
  <2> QED BY <2>1, <2>2 DEF FiniteSubsetsOf
<1>3. T # {}
  OBVIOUS
<1> HIDE DEF R
<1>4. \E x \in T : \A y \in T : ~(<<y, x>> \in R)
  <2> HIDE DEF T
  <2> QED BY <1>1, <1>2, <1>3, WFMin
<1>5. PICK m \in U : \A n \in U : ~(<<Up(n), Up(m)>> \in R)
  BY <1>4
<1>6. ASSUME NEW n \in U, n < m PROVE FALSE
  <2>1. Up(n) \in SUBSET Up(m) /\ Up(n) # Up(m)
    BY <1>6
  <2>2. <<Up(n), Up(m)>> \in R
    BY <2>1 DEF R, StrictSubsetOrdering
  <2> QED BY <2>2, <1>5
<1> QED BY <1>5, <1>6

\* Induction, stated with a set: a set that contains 0 and is closed under
\* successor contains every natural number.
LEMMA SetInduction ==
  ASSUME NEW U, 0 \in U, \A n \in Nat : n \in U => n + 1 \in U
  PROVE  Nat \subseteq U
<1>1. SUFFICES ASSUME Nat \ U # {} PROVE FALSE
  OBVIOUS
<1>2. PICK m \in Nat \ U : \A n \in Nat \ U : m <= n
  <2>1. Nat \ U \in SUBSET Nat
    OBVIOUS
  <2> QED BY <1>1, <2>1, LeastElement
<1>3. m - 1 \in Nat /\ m - 1 \in U
  BY <1>2
<1> QED BY <1>2, <1>3

-----------------------------------------------------------------------------
(* Parts of sequences *)

\* How long the rest of a sequence is.
LEMMA RestLen ==
  ASSUME NEW a \in Nat, NEW b \in 0..a
  PROVE  (IF b + 1 <= a THEN a - (b + 1) + 1 ELSE 0) = a - b
OBVIOUS

\* The elements of a sequence from the n-th on.
LEMMA LeaveElems ==
  ASSUME NEW X, NEW s \in Seq(X), NEW n \in 0..Len(s)
  PROVE  /\ SubSeq(s, n + 1, Len(s)) \in Seq(X)
         /\ Len(SubSeq(s, n + 1, Len(s))) = Len(s) - n
         /\ \A i \in 1..Len(s) - n : SubSeq(s, n + 1, Len(s))[i] = s[n + i]
<1>1. Len(s) \in Nat /\ n \in Nat /\ n <= Len(s) /\ s \in [1..Len(s) -> X]
  BY LenProperties
<1>2. \A i \in n + 1 .. Len(s) : s[i] \in X
  BY <1>1
<1>3. n + 1 \in Int /\ Len(s) \in Int
  BY <1>1
<1>4. /\ SubSeq(s, n + 1, Len(s)) \in Seq(X)
      /\ Len(SubSeq(s, n + 1, Len(s))) = IF n + 1 <= Len(s) THEN Len(s) - (n + 1) + 1 ELSE 0
      /\ \A i \in 1 .. Len(s) - (n + 1) + 1 : SubSeq(s, n + 1, Len(s))[i] = s[n + 1 + i - 1]
  BY <1>2, <1>3, SubSeqProperties
<1>5. \A i \in 1..Len(s) - n : i \in 1 .. Len(s) - (n + 1) + 1 /\ n + 1 + i - 1 = n + i
  BY <1>1
<1>6. (IF n + 1 <= Len(s) THEN Len(s) - (n + 1) + 1 ELSE 0) = Len(s) - n
  BY <1>1, RestLen
<1> QED
  BY <1>4, <1>5, <1>6

\* The same when more is appended.
LEMMA LeaveConcat ==
  ASSUME NEW X, NEW s \in Seq(X), NEW t \in Seq(X), NEW n \in 0..Len(s)
  PROVE  /\ SubSeq(s \o t, n + 1, Len(s \o t)) = SubSeq(s, n + 1, Len(s)) \o t
         /\ SubSeq(s \o t, 1, n) = SubSeq(s, 1, n)
         /\ SubSeq(s, n + 1, Len(s)) \in Seq(X) /\ SubSeq(s, 1, n) \in Seq(X)
         /\ Len(SubSeq(s, n + 1, Len(s))) = Len(s) - n
<1>1. /\ Len(s) \in Nat /\ Len(t) \in Nat /\ n \in Nat /\ n <= Len(s)
      /\ s \in [1..Len(s) -> X] /\ t \in [1..Len(t) -> X]
  BY LenProperties
<1>2. PICK c \in Seq(X) : c = s \o t
  BY ConcatProperties
<1>3. /\ Len(c) = Len(s) + Len(t)
      /\ \A i \in 1 .. Len(s) + Len(t) : c[i] = IF i <= Len(s) THEN s[i] ELSE t[i - Len(s)]
      /\ \A i \in 1 .. Len(s) + Len(t) : c[i] \in X
  BY <1>1, <1>2, ConcatProperties, ElementOfSeq
<1>4. /\ SubSeq(s, n + 1, Len(s)) \in Seq(X)
      /\ Len(SubSeq(s, n + 1, Len(s))) = Len(s) - n
      /\ \A i \in 1..Len(s) - n : SubSeq(s, n + 1, Len(s))[i] = s[n + i]
  BY LeaveElems
<1>5. /\ SubSeq(c, n + 1, Len(c)) \in Seq(X)
      /\ Len(SubSeq(c, n + 1, Len(c))) = Len(c) - n
      /\ \A i \in 1..Len(c) - n : SubSeq(c, n + 1, Len(c))[i] = c[n + i]
  <2>1. n \in 0..Len(c)
    BY <1>1, <1>3
  <2> QED
    BY <2>1, LeaveElems
<1>6. PICK u \in Seq(X) : u = SubSeq(s, n + 1, Len(s))
  BY <1>4
<1>7. /\ u \o t \in Seq(X) /\ Len(u \o t) = Len(u) + Len(t)
      /\ \A i \in 1 .. Len(u) + Len(t) : (u \o t)[i] = IF i <= Len(u) THEN u[i] ELSE t[i - Len(u)]
  BY ConcatProperties
<1>8. SubSeq(c, n + 1, Len(c)) = u \o t
  <2>0. Len(u) = Len(s) - n /\ Len(u) \in Nat
    BY <1>4, <1>6, LenProperties
  <2>1. Len(u) = Len(s) - n /\ Len(c) - n = Len(u) + Len(t) /\ Len(u) \in Nat
    BY <1>1, <1>3, <2>0
  <2>2. ASSUME NEW i \in 1..Len(c) - n PROVE c[n + i] = (u \o t)[i]
    <3>1. i \in 1 .. Len(u) + Len(t) /\ n + i \in 1 .. Len(s) + Len(t)
      BY <1>1, <1>3, <2>1
    <3>2. CASE i <= Len(u)
      <4>1. n + i <= Len(s) /\ i \in 1..Len(s) - n
        BY <1>1, <2>1, <3>1, <3>2
      <4> QED
        BY <1>3, <1>4, <1>6, <1>7, <3>1, <3>2, <4>1
    <3>3. CASE ~(i <= Len(u))
      <4>1. ~(n + i <= Len(s)) /\ n + i - Len(s) = i - Len(u)
        BY <1>1, <2>1, <3>1, <3>3
      <4> QED
        BY <1>3, <1>7, <3>1, <3>3, <4>1
    <3> QED
      BY <3>2, <3>3
  <2>3. \A i \in 1..Len(SubSeq(c, n + 1, Len(c))) : SubSeq(c, n + 1, Len(c))[i] = (u \o t)[i]
    BY <1>5, <2>2
  <2>4. Len(SubSeq(c, n + 1, Len(c))) = Len(u \o t)
    BY <1>5, <1>7, <2>1
  <2> QED
    BY <1>5, <1>7, <2>3, <2>4, SeqEqual
<1>9. SubSeq(s \o t, 1, n) = SubSeq(s, 1, n) /\ SubSeq(s, 1, n) \in Seq(X)
  <2>1. /\ SubSeq(s, 1, n) \in Seq(X) /\ Len(SubSeq(s, 1, n)) = IF 1 <= n THEN n - 1 + 1 ELSE 0
        /\ \A i \in 1 .. n - 1 + 1 : SubSeq(s, 1, n)[i] = s[1 + i - 1]
    <3>1. \A i \in 1..n : s[i] \in X
      BY <1>1
    <3>2. n \in Int /\ 1 \in Int
      BY <1>1
    <3> QED
      BY <3>1, <3>2, SubSeqProperties
  <2>2. /\ SubSeq(c, 1, n) \in Seq(X) /\ Len(SubSeq(c, 1, n)) = IF 1 <= n THEN n - 1 + 1 ELSE 0
        /\ \A i \in 1 .. n - 1 + 1 : SubSeq(c, 1, n)[i] = c[1 + i - 1]
    <3>1. \A i \in 1..n : c[i] \in X
      BY <1>1, <1>3
    <3>2. n \in Int /\ 1 \in Int
      BY <1>1
    <3> QED
      BY <3>1, <3>2, SubSeqProperties
  <2>3. \A i \in 1..Len(SubSeq(s, 1, n)) :
          /\ i \in 1 .. n - 1 + 1 /\ 1 + i - 1 = i /\ i \in 1 .. Len(s) + Len(t) /\ i <= Len(s)
    BY <1>1, <2>1
  <2>4. \A i \in 1..Len(SubSeq(s, 1, n)) : SubSeq(s, 1, n)[i] = SubSeq(c, 1, n)[i]
    BY <1>3, <2>1, <2>2, <2>3
  <2>5. SubSeq(s, 1, n) = SubSeq(c, 1, n)
    BY <2>1, <2>2, <2>4, SeqEqual
  <2> QED
    BY <1>2, <2>1, <2>5
<1> QED
  BY <1>2, <1>4, <1>6, <1>8, <1>9

\* A sequence is its first n elements and the others.
LEMMA SplitSeq ==
  ASSUME NEW X, NEW s \in Seq(X), NEW n \in 0..Len(s)
  PROVE  s = SubSeq(s, 1, n) \o SubSeq(s, n + 1, Len(s))
<1>1. Len(s) \in Nat
  BY LenProperties
<1>2. 1 \in 1..Len(s) + 1 /\ n \in 1 - 1 .. Len(s) /\ Len(s) \in n..Len(s)
  BY <1>1
<1> QED
  BY <1>2, ConcatAdjacentSubSeq, SubSeqFull

-----------------------------------------------------------------------------
(* FlattenSeq, by the equation of its function *)

Flat(w, n, g) == g = [j \in 1..n |-> IF j = 1 THEN w[j] ELSE g[j - 1] \o w[j]]

\* There is such a function for any number of sequences.
LEMMA FlatExists ==
  ASSUME NEW w, NEW n \in Nat
  PROVE  \E g : Flat(w, n, g)
<1> DEFINE U == {k \in Nat : \E g : Flat(w, k, g)}
<1>1. 0 \in U
  <2> DEFINE g == [j \in 1..0 |-> <<>>]
  <2>1. Flat(w, 0, g)
    BY DEF Flat
  <2> QED
    BY <2>1
<1>2. ASSUME NEW k \in Nat, k \in U PROVE k + 1 \in U
  <2>1. PICK g : Flat(w, k, g)
    BY <1>2
  <2> DEFINE h == [j \in 1..k + 1 |-> IF j = 1 THEN w[j] ELSE g[j - 1] \o w[j]]
  <2>2. ASSUME NEW j \in 1..k PROVE h[j] = g[j]
    <3>1. j \in 1..k + 1
      OBVIOUS
    <3>2. h[j] = IF j = 1 THEN w[j] ELSE g[j - 1] \o w[j]
      BY <3>1
    <3>3. g[j] = IF j = 1 THEN w[j] ELSE g[j - 1] \o w[j]
      BY <2>1 DEF Flat
    <3> HIDE DEF h
    <3> QED
      BY <3>2, <3>3
  <2>3. \A j \in 1..k + 1 : j # 1 => j - 1 \in 1..k
    OBVIOUS
  <2>4. \A j \in 1..k + 1 : (IF j = 1 THEN w[j] ELSE g[j - 1] \o w[j])
                            = (IF j = 1 THEN w[j] ELSE h[j - 1] \o w[j])
    <3> HIDE DEF h
    <3> QED
      BY <2>2, <2>3
  <2>5. h = [j \in 1..k + 1 |-> IF j = 1 THEN w[j] ELSE g[j - 1] \o w[j]]
    OBVIOUS
  <2>6. Flat(w, k + 1, h)
    <3> HIDE DEF h
    <3> QED
      BY <2>4, <2>5 DEF Flat
  <2> HIDE DEF h
  <2> QED
    BY <2>6
<1> HIDE DEF U
<1>3. Nat \subseteq U
  BY <1>1, <1>2, SetInduction
<1> QED
  BY <1>3 DEF U

\* FlattenSeq is its last value.
LEMMA FlattenIsFlat ==
  ASSUME NEW X, NEW w \in Seq(X), w # <<>>
  PROVE  \E g : Flat(w, Len(w), g) /\ FlattenSeq(w) = g[Len(w)]
<1> DEFINE g == CHOOSE g : Flat(w, Len(w), g)
<1>1. Len(w) \in Nat /\ Len(w) # 0
  OBVIOUS
<1>2. Flat(w, Len(w), g)
  BY <1>1, FlatExists
<1>3. FlattenSeq(w) = g[Len(w)]
  BY <1>1 DEF FlattenSeq, Flat
<1> QED
  BY <1>2, <1>3

\* What Append does.
LEMMA Appended ==
  ASSUME NEW Y, NEW u \in Seq(Y), NEW y \in Y
  PROVE  /\ Len(u) \in Nat /\ Append(u, y) \in Seq(Y) /\ Append(u, y) # <<>>
         /\ Len(Append(u, y)) = Len(u) + 1
         /\ Append(u, y)[Len(u) + 1] = y
         /\ \A j \in 1..Len(u) : Append(u, y)[j] = u[j] /\ u[j] \in Y
<1>1. /\ Len(u) \in Nat /\ Append(u, y) \in Seq(Y) /\ Append(u, y) # <<>>
      /\ Len(Append(u, y)) = Len(u) + 1
      /\ Append(u, y)[Len(u) + 1] = y
  OBVIOUS
<1>2. \A j \in 1..Len(u) : Append(u, y)[j] = u[j] /\ u[j] \in Y
  OBVIOUS
<1> QED
  BY <1>1, <1>2

\* One more sequence is appended.
LEMMA FlattenLast ==
  ASSUME NEW X, NEW w \in Seq(Seq(X)), NEW x \in Seq(X)
  PROVE  FlattenSeq(Append(w, x)) = FlattenSeq(w) \o x /\ FlattenSeq(w) \in Seq(X)
<1> DEFINE n == Len(w)
           v == Append(w, x)
<1>1. /\ n \in Nat /\ v \in Seq(Seq(X)) /\ v # <<>> /\ Len(v) = n + 1
      /\ v[n + 1] = x /\ \A j \in 1..n : v[j] = w[j] /\ w[j] \in Seq(X)
  <2>1. PICK Y : Y = Seq(X)
    OBVIOUS
  <2>2. \A u \in Seq(Y) : \A y \in Y :
          /\ Len(u) \in Nat /\ Append(u, y) \in Seq(Y) /\ Append(u, y) # <<>>
          /\ Len(Append(u, y)) = Len(u) + 1
          /\ Append(u, y)[Len(u) + 1] = y
          /\ \A j \in 1..Len(u) : Append(u, y)[j] = u[j] /\ u[j] \in Y
    BY Appended
  <2>3. w \in Seq(Y) /\ x \in Y
    BY <2>1
  <2> QED
    BY <2>1, <2>2, <2>3
<1> HIDE DEF v, n
<1>2. PICK h : Flat(v, n + 1, h) /\ FlattenSeq(v) = h[n + 1]
  BY <1>1, FlattenIsFlat
<1>3. CASE w = <<>>
  <2>1. n = 0
    BY <1>3 DEF n
  <2>2. FlattenSeq(w) = <<>>
    BY <1>3 DEF FlattenSeq
  <2>3. FlattenSeq(v) = x
    BY <1>1, <1>2, <2>1 DEF Flat
  <2> QED
    BY <2>2, <2>3 DEF v
<1>4. CASE w # <<>>
  <2>1. PICK g : Flat(w, n, g) /\ FlattenSeq(w) = g[n]
    BY <1>4, FlattenIsFlat DEF n
  <2>2. n # 0
    BY <1>4 DEF n
  <2> DEFINE U == {j \in Nat : j \in 1..n => g[j] = h[j] /\ g[j] \in Seq(X)}
  <2>3. 0 \in U
    OBVIOUS
  <2>4. ASSUME NEW j \in Nat, j \in U PROVE j + 1 \in U
    <3>1. SUFFICES ASSUME j + 1 \in 1..n
                   PROVE  g[j + 1] = h[j + 1] /\ g[j + 1] \in Seq(X)
      OBVIOUS
    <3>2. /\ g[j + 1] = IF j + 1 = 1 THEN w[j + 1] ELSE g[j] \o w[j + 1]
          /\ h[j + 1] = IF j + 1 = 1 THEN v[j + 1] ELSE h[j] \o v[j + 1]
      <4>1. j + 1 \in 1..n + 1 /\ (j + 1) - 1 = j
        BY <1>1, <3>1
      <4> QED
        BY ZenonT(40), <1>2, <2>1, <3>1, <4>1 DEF Flat
    <3>3. v[j + 1] = w[j + 1] /\ w[j + 1] \in Seq(X)
      BY <1>1, <3>1
    <3>4. CASE j = 0
      BY <3>2, <3>3, <3>4
    <3>5. CASE j # 0
      <4>1. j \in 1..n /\ j + 1 # 1
        BY <1>1, <3>1, <3>5
      <4>2. g[j] = h[j] /\ g[j] \in Seq(X)
        BY <2>4, <4>1
      <4> QED
        BY <3>2, <3>3, <4>1, <4>2
    <3> QED
      BY <3>4, <3>5
  <2> HIDE DEF U
  <2>5. n \in U
    BY <1>1, <2>3, <2>4, SetInduction
  <2>6. n \in 1..n /\ n + 1 \in 1..n + 1 /\ n + 1 # 1 /\ (n + 1) - 1 = n
    BY <1>1, <2>2
  <2>7. g[n] = h[n] /\ g[n] \in Seq(X)
    BY <2>5, <2>6 DEF U
  <2>8. h[n + 1] = h[n] \o x
    BY <1>1, <1>2, <2>6 DEF Flat
  <2> QED
    BY <1>2, <2>1, <2>7, <2>8 DEF v
<1> QED
  BY <1>3, <1>4

\* No sequences.
LEMMA FlattenNone == FlattenSeq(<<>>) = <<>>
BY DEF FlattenSeq

\* One more sequence is appended, again: the provers do better when Seq(X),
\* whose members are sequences, has a name.
LEMMA FlattenAppend ==
  ASSUME NEW X, NEW Y, Y = Seq(X), NEW w \in Seq(Y), NEW x \in Seq(X)
  PROVE  FlattenSeq(Append(w, x)) = FlattenSeq(w) \o x /\ FlattenSeq(w) \in Seq(X)
<1>1. w \in Seq(Seq(X))
  OBVIOUS
<1> QED
  BY <1>1, FlattenLast

\* Three sequences, however they are joined.
LEMMA JoinThree ==
  ASSUME NEW X, NEW Y, Y = Seq(X), NEW r \in Y, NEW s \in Y, NEW t \in Y
  PROVE  (r \o s) \o t = r \o (s \o t)
<1>1. r \in Seq(X) /\ s \in Seq(X) /\ t \in Seq(X)
  OBVIOUS
<1> QED
  BY <1>1, ConcatAssociative

\* The last sequence grows.
LEMMA FlattenGrow ==
  ASSUME NEW X, NEW Y, Y = Seq(X), NEW u \in Seq(Y), NEW x \in Seq(X), NEW z \in Seq(X)
  PROVE  FlattenSeq(Append(u, x \o z)) = FlattenSeq(Append(u, x)) \o z
<1>1. x \o z \in Seq(X)
  BY ConcatProperties
<1>2. PICK y \in Seq(X) : y = x \o z
  BY <1>1
<1>3. FlattenSeq(u) \in Seq(X) /\ FlattenSeq(Append(u, x)) = FlattenSeq(u) \o x
  BY FlattenAppend
<1>4. FlattenSeq(Append(u, y)) = FlattenSeq(u) \o y
  BY <1>2, FlattenAppend
<1>5. PICK f \in Seq(X) : f = FlattenSeq(u)
  BY <1>3
<1>6. (f \o x) \o z = f \o (x \o z)
  <2>1. f \in Y /\ x \in Y /\ z \in Y
    BY <1>5
  <2> QED
    BY <2>1, JoinThree
<1> QED
  BY <1>2, <1>3, <1>4, <1>5, <1>6

\* The first sequence comes first.
LEMMA FlattenHead ==
  ASSUME NEW X, NEW Y, Y = Seq(X)
  PROVE  \A w \in Seq(Y) : w # <<>> => FlattenSeq(w) = Head(w) \o FlattenSeq(Tail(w))
<1> DEFINE U == {n \in Nat : \A v \in Seq(Y) :
                   Len(v) = n + 1 => FlattenSeq(v) = Head(v) \o FlattenSeq(Tail(v))}
           Ends(v, u, x) ==
             /\ v = Append(u, x) /\ Len(v) = Len(u) + 1
             /\ FlattenSeq(v) = FlattenSeq(u) \o x /\ FlattenSeq(u) \in Seq(X)
             /\ Head(v) = IF u = <<>> THEN x ELSE Head(u)
             /\ Tail(v) = IF u = <<>> THEN <<>> ELSE Append(Tail(u), x)
<1>0. ASSUME NEW v \in Seq(Y), v # <<>>
      PROVE  \E u \in Seq(Y), x \in Seq(X) : Ends(v, u, x)
  <2>1. PICK u \in Seq(Y), x \in Y : v = Append(u, x)
    BY <1>0, SequenceEmptyOrAppend
  <2>2. Len(v) = Len(u) + 1
    BY <2>1, AppendProperties
  <2>3. x \in Seq(X)
    BY <2>1
  <2>4. FlattenSeq(v) = FlattenSeq(u) \o x /\ FlattenSeq(u) \in Seq(X)
    BY <2>1, <2>3, FlattenAppend
  <2>5. /\ Head(v) = IF u = <<>> THEN x ELSE Head(u)
        /\ Tail(v) = IF u = <<>> THEN <<>> ELSE Append(Tail(u), x)
    BY <2>1, HeadTailAppend
  <2> QED
    BY <2>1, <2>2, <2>3, <2>4, <2>5
<1>1. 0 \in U
  <2>1. ASSUME NEW v \in Seq(Y), Len(v) = 0 + 1
        PROVE  FlattenSeq(v) = Head(v) \o FlattenSeq(Tail(v))
    <3>1. v # <<>>
      <4>1. Len(v) # 0
        BY <2>1
      <4> QED
        BY <4>1, EmptySeq
    <3>2. PICK u \in Seq(Y), x \in Seq(X) : Ends(v, u, x)
      BY <1>0, <3>1
    <3>3. Len(u) \in Nat
      BY <3>2, LenProperties
    <3>4. Len(u) = 0
      BY <2>1, <3>2, <3>3
    <3>5. u = <<>>
      BY <3>2, <3>4, EmptySeq
    <3>6. FlattenSeq(v) = <<>> \o x /\ Head(v) \o FlattenSeq(Tail(v)) = x \o <<>>
      BY <3>2, <3>5, FlattenNone
    <3> QED
      BY <3>2, <3>6, ConcatEmptySeq
  <2> QED
    BY <2>1
<1>2. ASSUME NEW n \in Nat, n \in U PROVE n + 1 \in U
  <2>1. ASSUME NEW v \in Seq(Y), Len(v) = (n + 1) + 1
        PROVE  FlattenSeq(v) = Head(v) \o FlattenSeq(Tail(v))
    <3>1. v # <<>>
      <4>1. Len(v) # 0
        BY <2>1
      <4> QED
        BY <4>1, EmptySeq
    <3>2. PICK u \in Seq(Y), x \in Seq(X) : Ends(v, u, x)
      BY <1>0, <3>1
    <3>3. Len(u) \in Nat
      BY <3>2, LenProperties
    <3>4. Len(u) = n + 1
      BY <2>1, <3>2, <3>3
    <3>5. u # <<>>
      BY <3>4, EmptySeq
    <3>6. FlattenSeq(u) = Head(u) \o FlattenSeq(Tail(u))
      BY <1>2, <3>2, <3>4
    <3>7. Head(u) \in Y /\ Tail(u) \in Seq(Y)
      BY <3>2, <3>5, HeadTailProperties
    <3>8. /\ FlattenSeq(Append(Tail(u), x)) = FlattenSeq(Tail(u)) \o x
          /\ FlattenSeq(Tail(u)) \in Seq(X)
      BY <3>2, <3>7, FlattenAppend
    <3>9. Head(u) \in Seq(X)
      BY <3>7
    <3>10. PICK h \in Seq(X), t \in Seq(X) : h = Head(u) /\ t = FlattenSeq(Tail(u))
      BY <3>8, <3>9
    <3>11. FlattenSeq(v) = (h \o t) \o x /\ Head(v) \o FlattenSeq(Tail(v)) = h \o (t \o x)
      BY <3>2, <3>5, <3>6, <3>8, <3>10
    <3>12. (h \o t) \o x = h \o (t \o x)
      <4> HIDE DEF U, Ends
      <4>1. h \in Y /\ t \in Y /\ x \in Y
        BY <3>2, <3>10
      <4> QED
        BY <4>1, JoinThree
    <3> QED
      BY <3>11, <3>12
  <2> QED
    BY <2>1
<1>3. Nat \subseteq U
  <2> HIDE DEF U
  <2> QED
    BY <1>1, <1>2, SetInduction
<1>4. ASSUME NEW w \in Seq(Y), w # <<>>
      PROVE  Len(w) - 1 \in Nat /\ Len(w) = (Len(w) - 1) + 1
  <2>1. Len(w) \in Nat /\ Len(w) # 0
    BY <1>4, LenProperties, EmptySeq
  <2> QED
    BY <2>1
<1> QED
  BY <1>3, <1>4

\* P[f] elements of m, the flattened w, precede those of w[f].
Places(w, m, P) ==
  /\ P[1] = 0 /\ P[Len(w) + 1] = Len(m)
  /\ \A f \in 1..Len(w) :
       /\ P[f] \in Nat /\ P[f + 1] = P[f] + Len(w[f])
       /\ \A k \in 1..Len(w[f]) : P[f] + k \in 1..Len(m) /\ m[P[f] + k] = w[f][k]

\* One more sequence is appended: its elements follow the others.
LEMMA PlacesAppend ==
  ASSUME NEW X, NEW Y, Y = Seq(X), NEW u \in Seq(Y), NEW x \in Y, NEW m \in Seq(X), NEW P,
         Places(u, m, P)
  PROVE  \E Q : Places(Append(u, x), m \o x, Q)
<1>1. /\ Len(u) \in Nat /\ Len(m) \in Nat /\ x \in Seq(X) /\ Len(x) \in Nat
      /\ \A f \in 1..Len(u) : u[f] \in Y
  BY LenProperties, ElementOfSeq
<1>2. PICK v : v = Append(u, x)
  OBVIOUS
<1>3. /\ Len(v) = Len(u) + 1 /\ v[Len(u) + 1] = x
      /\ \A f \in 1..Len(u) : v[f] = u[f]
  BY <1>2, AppendProperties
<1>4. PICK c : c = m \o x
  OBVIOUS
<1>5. /\ Len(c) = Len(m) + Len(x)
      /\ \A i \in 1 .. Len(m) + Len(x) : c[i] = IF i <= Len(m) THEN m[i] ELSE x[i - Len(m)]
  BY <1>1, <1>4, ConcatProperties
<1>6. PICK Q : Q = [i \in 1..Len(u) + 2 |-> IF i = Len(u) + 2 THEN Len(c) ELSE P[i]]
  OBVIOUS
<1>7. Q[Len(u) + 2] = Len(c) /\ \A i \in 1..Len(u) + 1 : Q[i] = P[i]
  <2>1. \A i \in 1..Len(u) + 1 : i \in 1..Len(u) + 2 /\ i # Len(u) + 2
    BY <1>1
  <2>2. Len(u) + 2 \in 1..Len(u) + 2
    BY <1>1
  <2> QED
    BY <1>6, <2>1, <2>2
<1>8. Q[1] = 0 /\ Q[Len(v) + 1] = Len(c)
  <2>1. 1 \in 1..Len(u) + 1 /\ Len(v) + 1 = Len(u) + 2
    BY <1>1, <1>3
  <2> QED
    BY <1>7, <2>1 DEF Places
<1>9. ASSUME NEW f \in 1..Len(v)
      PROVE  /\ Q[f] \in Nat /\ Q[f + 1] = Q[f] + Len(v[f])
             /\ \A k \in 1..Len(v[f]) : Q[f] + k \in 1..Len(c) /\ c[Q[f] + k] = v[f][k]
  <2>1. CASE f \in 1..Len(u)
    <3>1. f \in 1..Len(u) + 1 /\ f + 1 \in 1..Len(u) + 1
      BY <1>1, <2>1
    <3>2. Q[f] = P[f] /\ Q[f + 1] = P[f + 1] /\ v[f] = u[f]
      BY <1>3, <1>7, <2>1, <3>1
    <3>3. /\ P[f] \in Nat /\ P[f + 1] = P[f] + Len(u[f])
          /\ \A k \in 1..Len(u[f]) : P[f] + k \in 1..Len(m) /\ m[P[f] + k] = u[f][k]
      BY <2>1 DEF Places
    <3>4. \A j \in 1..Len(m) : j \in 1..Len(c) /\ c[j] = m[j]
      BY <1>1, <1>5
    <3> QED
      BY <3>2, <3>3, <3>4
  <2>2. CASE f = Len(u) + 1
    <3>1. f \in 1..Len(u) + 1 /\ f + 1 = Len(u) + 2
      BY <1>1, <2>2
    <3>2. Q[f] = Len(m) /\ Q[f + 1] = Len(c) /\ v[f] = x
      BY <1>3, <1>7, <2>2, <3>1 DEF Places
    <3>3. ASSUME NEW k \in 1..Len(x) PROVE Len(m) + k \in 1..Len(c) /\ c[Len(m) + k] = x[k]
      <4>1. Len(m) + k \in 1..Len(m) + Len(x) /\ ~(Len(m) + k <= Len(m))
            /\ Len(m) + k - Len(m) = k
        BY <1>1
      <4> QED
        BY <1>5, <4>1
    <3> QED
      BY <1>1, <1>5, <3>2, <3>3
  <2> QED
    BY <1>1, <1>3, <2>1, <2>2
<1>10. Places(v, c, Q)
  BY <1>8, <1>9 DEF Places
<1> QED
  BY <1>2, <1>4, <1>10

\* Where the elements of each sequence are in the flattened one.
LEMMA FlattenPlaces ==
  ASSUME NEW X, NEW Y, Y = Seq(X)
  PROVE  \A w \in Seq(Y) : \E P : Places(w, FlattenSeq(w), P)
<1> DEFINE U == {n \in Nat : \A w \in Seq(Y) :
                   Len(w) = n => \E P : Places(w, FlattenSeq(w), P)}
<1>1. 0 \in U
  <2>1. ASSUME NEW w \in Seq(Y), Len(w) = 0 PROVE \E P : Places(w, FlattenSeq(w), P)
    <3>1. w = <<>>
      BY <2>1, EmptySeq
    <3>2. FlattenSeq(w) = <<>>
      BY <3>1, FlattenNone
    <3>3. PICK P : P = [i \in {1} |-> 0]
      OBVIOUS
    <3>4. P[1] = 0 /\ Len(FlattenSeq(w)) = 0 /\ Len(w) = 0 /\ 1..0 = {}
      BY <2>1, <3>2, <3>3
    <3>5. Places(w, FlattenSeq(w), P)
      BY <3>4 DEF Places
    <3> QED
      BY <3>5
  <2> QED
    BY <2>1
<1>2. ASSUME NEW n \in Nat, n \in U PROVE n + 1 \in U
  <2>1. ASSUME NEW w \in Seq(Y), Len(w) = n + 1
        PROVE  \E P : Places(w, FlattenSeq(w), P)
    <3>1. w # <<>>
      <4>1. Len(w) # 0
        BY <2>1
      <4> QED
        BY <4>1, EmptySeq
    <3>2. PICK u \in Seq(Y), x \in Y : w = Append(u, x)
      BY <3>1, SequenceEmptyOrAppend
    <3>3. Len(w) = Len(u) + 1 /\ Len(u) \in Nat
      BY <3>2, AppendProperties, LenProperties
    <3>4. Len(u) = n
      BY <2>1, <3>3
    <3>5. PICK P : Places(u, FlattenSeq(u), P)
      BY <1>2, <3>4
    <3>6. x \in Seq(X)
      OBVIOUS
    <3>7. FlattenSeq(Append(u, x)) = FlattenSeq(u) \o x /\ FlattenSeq(u) \in Seq(X)
      BY <3>6, FlattenAppend
    <3>8. PICK m \in Seq(X) : m = FlattenSeq(u)
      BY <3>7
    <3>9. \E Q : Places(Append(u, x), m \o x, Q)
      BY <3>5, <3>8, PlacesAppend
    <3> QED
      BY <3>2, <3>7, <3>8, <3>9
  <2> QED
    BY <2>1
<1>3. Nat \subseteq U
  <2> HIDE DEF U
  <2> QED
    BY <1>1, <1>2, SetInduction
<1>4. \A w \in Seq(Y) : Len(w) \in Nat
  BY LenProperties
<1> QED
  BY <1>3, <1>4
-----------------------------------------------------------------------------
\* The part of the fold over the positions of a set, and its equation
Takes(base, q, n, g) ==
  g = [S \in SUBSET (1..n) |->
         IF S = {} THEN base ELSE Op(g[S \ {Max(S)}], q[Max(S)])]

\* A finite set of positions has a largest one.
LEMMA MaxOfPositions ==
  ASSUME NEW n \in Nat, NEW S \in SUBSET (1..n), S # {}
  PROVE  Max(S) \in S /\ \A y \in S : Max(S) >= y
<1> DEFINE U == {n - y : y \in S}
<1>0. \A y \in S : y \in 1..n /\ n - y \in Nat
  OBVIOUS
<1>1. U \in SUBSET Nat /\ U # {}
  BY <1>0
<1>2. PICK m \in U : \A u \in U : m <= u
  BY <1>1, LeastElement
<1>3. PICK x \in S : m = n - x
  BY <1>2
<1>4. \A y \in S : x >= y
  <2>1. ASSUME NEW y \in S PROVE x >= y
    <3>1. m <= n - y
      BY <1>2
    <3> HIDE DEF U
    <3> QED
      BY <1>0, <1>3, <3>1
  <2> QED
    BY <2>1
<1> QED
  BY <1>4 DEF Max

\* Such a function exists for the positions up to n.
LEMMA TakesExists ==
  ASSUME NEW base, NEW q, NEW n \in Nat
  PROVE  \E g : Takes(base, q, n, g)
<1> DEFINE U == {k \in Nat : \E g : Takes(base, q, k, g)}
<1>1. 0 \in U
  <2> DEFINE g == [S \in {{}} |-> base]
  <2>1. SUBSET (1..0) = {{}}
    OBVIOUS
  <2>2. Takes(base, q, 0, g)
    BY <2>1 DEF Takes
  <2> QED
    BY <2>2
<1>2. ASSUME NEW k \in Nat, k \in U PROVE k + 1 \in U
  <2>1. PICK g : Takes(base, q, k, g)
    BY <1>2
  <2> DEFINE h == [S \in SUBSET (1..k + 1) |->
                     IF S = {} THEN base
                     ELSE Op(g[S \ {Max(S)}], q[Max(S)])]
  <2>2. ASSUME NEW S \in SUBSET (1..k) PROVE h[S] = g[S]
    <3>1. S \in SUBSET (1..k + 1)
      OBVIOUS
    <3>2. h[S] = IF S = {} THEN base ELSE Op(g[S \ {Max(S)}], q[Max(S)])
      BY <3>1
    <3>3. g[S] = IF S = {} THEN base ELSE Op(g[S \ {Max(S)}], q[Max(S)])
      BY <2>1 DEF Takes
    <3> QED
      BY <3>2, <3>3
  <2>3. ASSUME NEW S \in SUBSET (1..k + 1), S # {}
        PROVE  S \ {Max(S)} \in SUBSET (1..k)
    <3>1. Max(S) \in S /\ \A y \in S : Max(S) >= y
      <4>1. k + 1 \in Nat
        OBVIOUS
      <4> QED
        BY <2>3, <4>1, MaxOfPositions
    <3>2. ASSUME NEW y \in S, y # Max(S) PROVE y \in 1..k
      <4>1. PICK m \in 1..k + 1 : m = Max(S)
        BY <3>1
      <4>2. y \in 1..k + 1 /\ m >= y /\ y # m
        BY <3>1, <3>2, <4>1
      <4> QED
        BY <4>2
    <3> QED
      BY <3>2
  <2>4. \A S \in SUBSET (1..k + 1) :
          S # {} => h[S \ {Max(S)}] = g[S \ {Max(S)}]
    <3> HIDE DEF h
    <3> QED
      BY <2>2, <2>3
  <2>5. \A S \in SUBSET (1..k + 1) :
          (IF S = {} THEN base ELSE Op(g[S \ {Max(S)}], q[Max(S)]))
            = (IF S = {} THEN base ELSE Op(h[S \ {Max(S)}], q[Max(S)]))
    <3> HIDE DEF h
    <3> QED
      BY <2>4
  <2>6. h = [S \in SUBSET (1..k + 1) |->
               IF S = {} THEN base ELSE Op(g[S \ {Max(S)}], q[Max(S)])]
    OBVIOUS
  <2>7. Takes(base, q, k + 1, h)
    <3> HIDE DEF h
    <3> QED
      BY <2>5, <2>6 DEF Takes
  <2> HIDE DEF h
  <2> QED
    BY <2>7
<1> HIDE DEF U
<1>3. Nat \subseteq U
  BY <1>1, <1>2, SetInduction
<1> QED
  BY <1>3 DEF U

\* The fold is such a function, at the set of all positions.
LEMMA FoldIsTaken ==
  ASSUME NEW X, NEW base, NEW q \in Seq(X)
  PROVE  \E g : /\ Takes(base, q, Len(q), g)
                /\ FoldLeft(Op, base, q) = g[1..Len(q)]
<1> DEFINE G == CHOOSE g : Takes(base, q, Len(q), g)
<1>1. Len(q) \in Nat /\ DOMAIN q = 1..Len(q)
  OBVIOUS
<1>2. Takes(base, q, Len(q), G)
  BY <1>1, TakesExists
<1>3. FoldLeft(Op, base, q) = G[1..Len(q)]
  BY <1>1 DEF FoldLeft, MapThenFoldSet, Takes
<1> QED
  BY <1>2, <1>3

\* The states g[0], g[1], ... that the elements lead to one after the other
FoldedBy(base, q, g) ==
  /\ g[0] = base
  /\ \A k \in 1..Len(q) : g[k] = Op(g[k - 1], q[k])

\* The fold is the last of them.
LEMMA FoldSteps ==
  ASSUME NEW X, NEW base, NEW q \in Seq(X)
  PROVE  \E g : FoldedBy(base, q, g) /\ FoldLeft(Op, base, q) = g[Len(q)]
<1>1. PICK h : Takes(base, q, Len(q), h) /\ FoldLeft(Op, base, q) = h[1..Len(q)]
  BY FoldIsTaken
<1>2. Len(q) \in Nat
  OBVIOUS
<1>3. PICK g : g = [k \in 0..Len(q) |-> h[1..k]]
  OBVIOUS
<1>4. \A k \in 0..Len(q) : g[k] = h[1..k]
  BY <1>3
<1>5. g[0] = base
  <2>1. 1..0 = {} /\ {} \in SUBSET (1..Len(q)) /\ 0 \in 0..Len(q)
    BY <1>2
  <2>2. h[{}] = base
    BY <1>1, <2>1 DEF Takes
  <2> QED
    BY <1>4, <2>1, <2>2
<1>6. ASSUME NEW k \in 1..Len(q) PROVE g[k] = Op(g[k - 1], q[k])
  <2>0. k \in Nat /\ k \in 1..k
    BY <1>2
  <2>1. k \in Nat /\ k \in 1..k /\ 1..k # {} /\ 1..k \in SUBSET (1..k)
    BY <2>0
  <2>2. Max(1..k) \in 1..k /\ \A y \in 1..k : Max(1..k) >= y
    BY <2>1, MaxOfPositions
  <2>3. Max(1..k) = k
    BY <2>1, <2>2
  <2>4. (1..k) \ {k} = 1..k - 1 /\ 1..k \in SUBSET (1..Len(q))
    BY <1>2
  <2>5. h[1..k] = Op(h[1..k - 1], q[k])
    BY <1>1, <2>1, <2>3, <2>4 DEF Takes
  <2>6. k \in 0..Len(q) /\ k - 1 \in 0..Len(q)
    BY <1>2
  <2> QED
    BY <1>4, <2>5, <2>6
<1>7. Len(q) \in 0..Len(q)
  BY <1>2
<1>8. FoldedBy(base, q, g)
  BY <1>5, <1>6 DEF FoldedBy
<1> QED
  BY <1>1, <1>4, <1>7, <1>8

\* If the base is one of the states that may be reached after no element, and
\* each element in turn takes the states V[k - 1] to states V[k], then the fold
\* is one of those that may be reached after all elements.
THEOREM FoldInduction ==
  ASSUME NEW X, NEW base, NEW q \in Seq(X), NEW V,
         base \in V[0],
         \A k \in 1..Len(q) : \A s \in V[k - 1] : Op(s, q[k]) \in V[k]
  PROVE  FoldLeft(Op, base, q) \in V[Len(q)]
<1>1. PICK g : FoldedBy(base, q, g) /\ FoldLeft(Op, base, q) = g[Len(q)]
  BY FoldSteps
<1> DEFINE U == {k \in Nat : k <= Len(q) => g[k] \in V[k]}
<1>2. Len(q) \in Nat
  OBVIOUS
<1>3. 0 \in U
  BY <1>1 DEF FoldedBy
<1>4. ASSUME NEW k \in Nat, k \in U PROVE k + 1 \in U
  <2>1. SUFFICES ASSUME k + 1 <= Len(q) PROVE g[k + 1] \in V[k + 1]
    OBVIOUS
  <2>2. g[k] \in V[k] /\ k + 1 \in 1..Len(q) /\ (k + 1) - 1 = k
    BY <1>2, <1>4, <2>1
  <2> QED
    BY <1>1, <2>2 DEF FoldedBy
<1>5. Nat \subseteq U
  <2> HIDE DEF U
  <2> QED
    BY <1>3, <1>4, SetInduction
<1> QED
  BY <1>1, <1>2, <1>5

\* A fold stays among the states that every element keeps.
COROLLARY FoldInvariant ==
  ASSUME NEW X, NEW base, NEW q \in Seq(X), NEW U,
         base \in U, \A s \in U : \A x \in X : Op(s, x) \in U
  PROVE  FoldLeft(Op, base, q) \in U
<1> DEFINE V == [k \in 0..Len(q) |-> U]
<1>1. Len(q) \in Nat /\ (\A k \in 0..Len(q) : V[k] = U) /\ (\A k \in 1..Len(q) : q[k] \in X)
  OBVIOUS
<1> HIDE DEF V
<1>2. \A k \in 1..Len(q) : k \in 0..Len(q) /\ k - 1 \in 0..Len(q)
  BY <1>1
<1>3. 0 \in 0..Len(q) /\ Len(q) \in 0..Len(q)
  BY <1>1
<1>4. base \in V[0] /\ \A k \in 1..Len(q) : \A s \in V[k - 1] : Op(s, q[k]) \in V[k]
  BY <1>1, <1>2, <1>3
<1>5. FoldLeft(Op, base, q) \in V[Len(q)]
  BY <1>4, FoldInduction
<1> QED
  BY <1>1, <1>3, <1>5
=============================================================================
