-------------------------- MODULE Collector_proofs --------------------------
(***************************************************************************)
(* Proofs about the labels and time stamps of a telemetry collector, for   *)
(* every frame that tmc may generate whose least common multiple fits in   *)
(* the counters (Frames).                                                  *)
(***************************************************************************)
EXTENDS Collector, Lemmas

\* LCMMN is small against the counter: in the code the limits are 2^15 - 1
\* and 2^16.
Frames == LCMMN <= TS_MFC_LIMIT + 1 /\ TS_MFC_LIMIT < Mfcs

-----------------------------------------------------------------------------
(* The inductive invariant, in terms of a collector's state c, since a     *)
(* single step restarts the collector and collects in one handler.         *)

Cols == [majf : 0..NROWMAJF - 1, minf : 0..NROWMINF - 1, next : 0..Mfcs - 1,
         mfc : 0..Mfcs - 1, needed : BOOLEAN,
         ts : [mfc_num : 0..Mfcs - 1, secs : 0..TimeValues - 1]]

\* Rows are collected, or will be when a pulse that is queued is handled
Collecting == started \/ timer \/ pulses > 0

\* The minor frame that next stands for: 0 is the one after the last
Coming(c) == IF c.next = 0 /\ ~c.needed THEN Mfcs ELSE c.next

\* The row of the major frame that is row r of minor frame m
Place(m, r) == (m * NROWMINF + r) % NROWMAJF

Labels(c) ==
  /\ c.minf = 0 => c.majf = Place(Coming(c), 0)
  /\ c.minf # 0 =>
       /\ c.majf = Place(c.mfc, c.minf)
       /\ \/ c.next = c.mfc + 1
          \/ c.mfc + 1 = Mfcs /\ c.next \in {0, ROLLOVER_MFC}
  /\ c.needed => c.next = 0 /\ c.majf = 0 /\ c.minf = 0

\* Where the next row is, counted from the minor frame that next stands for
Into(c) == IF c.minf = 0 THEN 0 ELSE c.minf - NROWMINF

Stamps(c, d) == ~c.needed =>
  /\ c.ts.mfc_num % MFSECNUM = 0 /\ c.ts.mfc_num <= Coming(c)
  /\ d = RowTime(c.ts, Coming(c), Into(c))

PhaseInv == (Collecting => Labels(col)) /\ PhaseKept

\* A row of the last minor frame after its first is sent under the stamp of
\* the roll-over when there is more than one
LastFrameRest == row.mfc = Mfcs - 1 /\ row.minf # 0

RowsTimed == row.sent =>
  /\ row.minf \in 0..NROWMINF - 1
  /\ LastFrameRest \/ RowTime(row.ts, row.mfc, row.minf) = row.at
  /\ row.minf = 0 => row.mfc - row.ts.mfc_num \in 0..TS_MFC_LIMIT

TimeInv == (Collecting => Stamps(col, due)) /\ RowsTimed

-----------------------------------------------------------------------------
(* What tmc computes.                                                      *)

\* lcm is a common multiple.
LEMMA LcmMultiple ==
  ASSUME NEW a \in Nat \ {0}, NEW b \in Nat \ {0}
  PROVE  lcm(a, b) \in 1..a * b /\ lcm(a, b) % a = 0 /\ lcm(a, b) % b = 0
<1> DEFINE U == {m \in 1..a * b : m % a = 0 /\ m % b = 0}
<1>1. U \in SUBSET Nat /\ a * b \in U
  <2>1. a * b \in Nat /\ a * b >= 1 /\ b * a = a * b
    OBVIOUS
  <2>2. (a * b) % a = 0 /\ (b * a) % b = 0
    BY DivMultiple
  <2>3. (a * b) % b = 0
    BY <2>1, <2>2
  <2>4. a * b \in 1..a * b
    BY <2>1
  <2> QED
    BY <2>2, <2>3, <2>4
<1>2. PICK m \in U : \A u \in U : m <= u
  BY <1>1, LeastElement
<1>3. \A k \in 1..m - 1 : k % a # 0 \/ k % b # 0
  <2>1. ASSUME NEW k \in 1..m - 1, k % a = 0, k % b = 0 PROVE FALSE
    <3>1. k \in U
      BY <2>1
    <3> HIDE DEF U
    <3> QED
      BY <1>1, <1>2, <2>1, <3>1
  <2> QED
    BY <2>1
<1>4. m \in 1..a * b /\ m % a = 0 /\ m % b = 0
  OBVIOUS
<1>5. \E x \in 1..a * b : /\ x % a = 0 /\ x % b = 0
                          /\ \A k \in 1..x - 1 : k % a # 0 \/ k % b # 0
  BY <1>3, <1>4
<1> HIDE DEF U
<1> QED
  BY <1>5 DEF lcm

\* The types of the constants.
LEMMA Params ==
  /\ NROWMINF \in Nat \ {0} /\ NROWMAJF \in Nat \ {0} /\ MFSECNUM \in Nat \ {0}
  /\ MFSECDEN \in Nat \ {0} /\ Mfcs \in Nat \ {0} /\ TimeValues \in Nat \ {0}
  /\ TS_MFC_LIMIT \in Nat /\ StartTimes \subseteq 0..TimeValues - 1
  /\ Second \in Nat \ {0} /\ TimeRange \in Nat \ {0} /\ RowPeriod = MFSECDEN
  /\ TimeRange = TimeValues * Second /\ Second = MFSECNUM * NROWMINF
<1>1. /\ NROWMINF \in Nat \ {0} /\ NROWMAJF \in Nat \ {0} /\ MFSECNUM \in Nat \ {0}
      /\ MFSECDEN \in Nat \ {0} /\ Mfcs \in Nat \ {0} /\ TimeValues \in Nat \ {0}
      /\ TS_MFC_LIMIT \in Nat /\ StartTimes \subseteq 0..TimeValues - 1
  BY CollectorAssumption DEF CollectorAssumption
<1>2. \A x, y \in Nat \ {0} : x * y \in Nat \ {0}
  OBVIOUS
<1>3. Second \in Nat \ {0}
  BY <1>1, <1>2 DEF Second
<1>4. TimeValues * Second \in Nat \ {0}
  BY <1>1, <1>2, <1>3
<1> QED
  BY <1>1, <1>3, <1>4 DEF Second, TimeRange, RowPeriod

\* LCMMN is a whole number of major frames and of MFSECNUM minor frames, and
\* the counter, when it rolls over, has gone through it a whole number of times.
LEMMA FrameFacts ==
  ASSUME Frames
  PROVE  /\ LCMMN \in Nat \ {0}
         /\ \E j \in Nat : LCMMN * NROWMINF = NROWMAJF * j
         /\ \E j \in Nat \ {0} : LCMMN = MFSECNUM * j
         /\ \E q \in Nat : Mfcs = LCMMN * q + ROLLOVER_MFC
         /\ ROLLOVER_MFC \in 0..TS_MFC_LIMIT /\ ROLLOVER_MFC < Mfcs
         /\ MFSECNUM <= TS_MFC_LIMIT + 1 /\ TS_MFC_LIMIT + 1 <= Mfcs
<1> DEFINE K == NROWMAJF \div NROWMINF
<1>1. K \in Nat \ {0} /\ NROWMAJF = NROWMINF * K
  <2>1. NROWMAJF % NROWMINF = 0
    BY CollectorAssumption DEF CollectorAssumption
  <2>2. NROWMAJF = NROWMINF * K + (NROWMAJF % NROWMINF) /\ K \in Nat
    BY Params, ModRange
  <2> HIDE DEF K
  <2> QED
    BY <2>1, <2>2, Params
<1> HIDE DEF K
<1>2. LCMMN \in 1..K * MFSECNUM /\ LCMMN % K = 0 /\ LCMMN % MFSECNUM = 0
  BY <1>1, Params, LcmMultiple DEF LCMMN, K
<1>3. LCMMN \in Nat \ {0}
  BY <1>1, <1>2, Params
<1>4. PICK j \in Nat : LCMMN = K * j
  BY <1>1, <1>2, <1>3, MultipleOf
<1>5. PICK h \in Nat : LCMMN = MFSECNUM * h
  BY <1>2, <1>3, Params, MultipleOf
<1>6. LCMMN * NROWMINF = NROWMAJF * j
  BY <1>1, <1>4, Params
<1>7. h \in Nat \ {0} /\ MFSECNUM <= LCMMN
  <2>1. h # 0
    BY <1>3, <1>5, Params
  <2>2. MFSECNUM * h >= MFSECNUM * 0 + MFSECNUM
    BY <2>1, Params, Mono
  <2> QED
    BY <1>5, <2>1, <2>2, Params
<1>8. /\ Mfcs = LCMMN * (Mfcs \div LCMMN) + ROLLOVER_MFC
      /\ Mfcs \div LCMMN \in Nat /\ ROLLOVER_MFC \in 0..LCMMN - 1
  BY <1>3, Params, ModRange DEF ROLLOVER_MFC
<1>9. /\ ROLLOVER_MFC \in 0..TS_MFC_LIMIT /\ ROLLOVER_MFC < Mfcs
      /\ MFSECNUM <= TS_MFC_LIMIT + 1 /\ TS_MFC_LIMIT + 1 <= Mfcs
  BY <1>3, <1>7, <1>8, Params DEF Frames
<1>10. \E q \in Nat : Mfcs = LCMMN * q + ROLLOVER_MFC
  BY <1>8
<1> QED
  BY <1>3, <1>5, <1>6, <1>7, <1>9, <1>10

-----------------------------------------------------------------------------
(* Places in the major frame.                                              *)

\* The next row is at the next place.
LEMMA PlaceNext ==
  ASSUME NEW m \in Nat, NEW r \in Nat
  PROVE  /\ (Place(m, r) + 1) % NROWMAJF = Place(m, r + 1)
         /\ Place(m, NROWMINF) = Place(m + 1, 0)
         /\ Place(m, r) \in 0..NROWMAJF - 1
<1>1. m * NROWMINF + r \in Nat /\ m * NROWMINF + (r + 1) = (m * NROWMINF + r) + 1
  BY Params
<1>2. (((m * NROWMINF + r) % NROWMAJF) + 1) % NROWMAJF
        = ((m * NROWMINF + r) + 1) % NROWMAJF
  <2>1. PICK a \in Nat : a = m * NROWMINF + r
    BY <1>1
  <2>2. ((a % NROWMAJF) + 1) % NROWMAJF = (a + 1) % NROWMAJF
    <3>1. PICK T \in Nat \ {0} : T = NROWMAJF
      BY Params
    <3>2. PICK i \in Nat : i = 1
      OBVIOUS
    <3>3. ((a % T) + i) % T = (a + i) % T
      BY ModSum
    <3> QED
      BY <3>1, <3>2, <3>3
  <2> QED
    BY <2>1, <2>2
<1>3. m * NROWMINF + NROWMINF = (m + 1) * NROWMINF + 0
  BY Params
<1>4. (m * NROWMINF + r) % NROWMAJF \in 0..NROWMAJF - 1
  BY <1>1, Params, ModRange
<1> QED
  BY <1>1, <1>2, <1>3, <1>4 DEF Place

\* The counter rolls over to the same place.
LEMMA PlaceRolls ==
  ASSUME Frames
  PROVE  Place(Mfcs, 0) = Place(ROLLOVER_MFC, 0)
<1>1. PICK j \in Nat : LCMMN * NROWMINF = NROWMAJF * j
  BY FrameFacts
<1>2. PICK q \in Nat : Mfcs = LCMMN * q + ROLLOVER_MFC
  BY FrameFacts
<1>3. LCMMN \in Nat /\ ROLLOVER_MFC \in Nat /\ NROWMINF \in Nat /\ NROWMAJF \in Nat \ {0}
  BY FrameFacts, Params
<1>4. Mfcs * NROWMINF = ROLLOVER_MFC * NROWMINF + (LCMMN * NROWMINF) * q
  BY <1>2, <1>3
<1>5. (NROWMAJF * j) * q = NROWMAJF * (j * q) /\ j * q \in Int
      /\ ROLLOVER_MFC * NROWMINF \in Int
  BY <1>3
<1>6. Mfcs * NROWMINF = ROLLOVER_MFC * NROWMINF + NROWMAJF * (j * q)
  BY <1>1, <1>4, <1>5
<1>7. (ROLLOVER_MFC * NROWMINF + NROWMAJF * (j * q)) % NROWMAJF
        = (ROLLOVER_MFC * NROWMINF) % NROWMAJF
  BY <1>3, <1>5, ModTurns
<1>8. /\ Mfcs * NROWMINF + 0 = ROLLOVER_MFC * NROWMINF + NROWMAJF * (j * q)
      /\ ROLLOVER_MFC * NROWMINF + 0 = ROLLOVER_MFC * NROWMINF
  BY <1>3, <1>5, <1>6
<1> QED
  BY <1>7, <1>8 DEF Place

-----------------------------------------------------------------------------
(* Times.                                                                  *)

TimeStamps == [mfc_num : 0..Mfcs - 1, secs : 0..TimeValues - 1]

\* A row's time before it wraps
Units(ts, m, r) ==
  ts.secs * Second + (m - ts.mfc_num) * MFSECDEN * NROWMINF + r * RowPeriod

\* It is an integer.
LEMMA UnitsInt ==
  ASSUME NEW ts \in TimeStamps, NEW m \in Int, NEW r \in Int
  PROVE  Units(ts, m, r) \in Int /\ RowTime(ts, m, r) = Units(ts, m, r) % TimeRange
         /\ RowTime(ts, m, r) \in 0..TimeRange - 1
<1>1. ts.secs \in Int /\ ts.mfc_num \in Int
  BY Params DEF TimeStamps
<1>2. \A a, b, c, d, e, f \in Int : a * b + (m - c) * d * e + r * f \in Int
  OBVIOUS
<1>3. Units(ts, m, r) \in Int
  BY <1>1, <1>2, Params DEF Units
<1>4. RowTime(ts, m, r) = Units(ts, m, r) % TimeRange
  BY DEF RowTime, Units
<1> QED
  BY ZenonT(40), <1>3, <1>4, Params, IntModRange

\* The next row is one period later, and so many rows are a minor frame.
LEMMA TimeNext ==
  ASSUME NEW ts \in TimeStamps, NEW m \in Int, NEW r \in Int
  PROVE  /\ (RowTime(ts, m, r) + RowPeriod) % TimeRange = RowTime(ts, m, r + 1)
         /\ RowTime(ts, m, r) = RowTime(ts, m + 1, r - NROWMINF)
<1>1. ts.secs \in Int /\ ts.mfc_num \in Int /\ r + 1 \in Int /\ m + 1 \in Int
      /\ r - NROWMINF \in Int
  BY Params DEF TimeStamps
<1>2. \A a, b, c, d, e \in Int :
        /\ (a * b + (m - c) * d * e + r * d) + d = a * b + (m - c) * d * e + (r + 1) * d
        /\ a * b + (m - c) * d * e + r * d
             = a * b + ((m + 1) - c) * d * e + (r - e) * d
  OBVIOUS
<1>3. Units(ts, m, r) + RowPeriod = Units(ts, m, r + 1)
      /\ Units(ts, m, r) = Units(ts, m + 1, r - NROWMINF)
  BY <1>1, <1>2, Params DEF Units
<1>4. ((Units(ts, m, r) % TimeRange) + RowPeriod) % TimeRange
        = (Units(ts, m, r) + RowPeriod) % TimeRange
  <2>1. PICK a \in Int : a = Units(ts, m, r)
    BY UnitsInt
  <2>2. RowPeriod \in Int /\ TimeRange \in Nat \ {0}
    BY Params
  <2>3. ((a % TimeRange) + RowPeriod) % TimeRange = (a + RowPeriod) % TimeRange
    BY <2>2, IntModSum
  <2> QED
    BY <2>1, <2>3
<1> QED
  BY <1>1, <1>3, <1>4, UnitsInt

\* A stamp that is q * MFSECNUM minor frames and q * MFSECDEN seconds later
\* gives every row the same time.
LEMMA TimeMoved ==
  ASSUME NEW ts \in TimeStamps, NEW tt \in TimeStamps,
         NEW q \in Int, NEW m \in Int, NEW n \in Int, NEW r \in Int
  PROVE  /\ n - tt.mfc_num = m - ts.mfc_num - q * MFSECNUM
         /\ tt.secs = (ts.secs + MFSECDEN * q) % TimeValues
         => RowTime(tt, n, r) = RowTime(ts, m, r)
<1>0. SUFFICES ASSUME n - tt.mfc_num = m - ts.mfc_num - q * MFSECNUM,
                      tt.secs = (ts.secs + MFSECDEN * q) % TimeValues
               PROVE  RowTime(tt, n, r) = RowTime(ts, m, r)
  OBVIOUS
<1>1. ts.secs \in Int /\ ts.mfc_num \in Int /\ tt.mfc_num \in Int /\ tt.secs \in Int
      /\ MFSECDEN \in Int /\ NROWMINF \in Int /\ MFSECNUM \in Int /\ TimeValues \in Int
      /\ Second \in Int
  BY Params DEF TimeStamps
<1>2. PICK z \in Int : z = ts.secs + MFSECDEN * q
  BY <1>1
<1>3. PICK k \in Int : z = TimeValues * k + tt.secs
  <2>1. z = TimeValues * (z \div TimeValues) + (z % TimeValues)
        /\ z \div TimeValues \in Int
    BY Params, IntModRange
  <2>2. tt.secs = z % TimeValues
    BY <1>0, <1>2
  <2> QED
    BY <2>1, <2>2
<1>4. PICK s \in Int : s = ts.secs
  BY <1>1
<1>5. PICK g \in Int : g = m - ts.mfc_num
  BY <1>1
<1>6. tt.secs = s + MFSECDEN * q - TimeValues * k /\ n - tt.mfc_num = g - q * MFSECNUM
  <2>1. n - tt.mfc_num = g - q * MFSECNUM
    BY <1>0, <1>5
  <2>2. PICK t \in Int : t = TimeValues * k
    BY <1>1
  <2>3. PICK d \in Int : d = MFSECDEN * q
    BY <1>1
  <2>4. z = t + tt.secs /\ z = s + d
    BY <1>2, <1>3, <1>4, <2>2, <2>3
  <2>5. tt.secs = s + d - t
    BY <1>1, <2>4
  <2>6. tt.secs = s + MFSECDEN * q - TimeValues * k
    BY <2>2, <2>3, <2>5
  <2> QED
    BY <2>1, <2>6
<1>7. (s + MFSECDEN * q - TimeValues * k) * (MFSECNUM * NROWMINF)
          + (g - q * MFSECNUM) * MFSECDEN * NROWMINF + r * MFSECDEN
        = (s * (MFSECNUM * NROWMINF) + g * MFSECDEN * NROWMINF + r * MFSECDEN)
          + (TimeValues * (MFSECNUM * NROWMINF)) * (-k)
  BY <1>1
<1>8. Units(tt, n, r) = Units(ts, m, r) + TimeRange * (-k)
  BY <1>4, <1>5, <1>6, <1>7, Params DEF Units
<1>9. (Units(ts, m, r) + TimeRange * (-k)) % TimeRange = Units(ts, m, r) % TimeRange
  <2>1. PICK a \in Int : a = Units(ts, m, r)
    BY UnitsInt
  <2>2. PICK h \in Int : h = -k
    OBVIOUS
  <2>3. (a + TimeRange * h) % TimeRange = a % TimeRange
    BY ZenonT(40), Params, ModTurns
  <2> QED
    BY <2>1, <2>2, <2>3
<1> QED
  BY <1>8, <1>9, UnitsInt

-----------------------------------------------------------------------------
(* Collecting a row.                                                       *)

\* What a stamp may be, and the counter with it.
LEMMA StampTypes ==
  ASSUME Frames, NEW c \in Cols, NEW s \in Stamped(c)
  PROVE  /\ s.next \in 0..Mfcs - 1 /\ s.ts \in TimeStamps
         /\ c.needed => s.next = c.next % LCMMN /\ s.ts.mfc_num = s.next
         /\ ~c.needed => s.next = IF c.next = 0 THEN ROLLOVER_MFC ELSE c.next
<1>1. c.next \in 0..Mfcs - 1 /\ c.ts \in TimeStamps /\ c.needed \in BOOLEAN
  BY DEF Cols, TimeStamps
<1>2. c.ts.secs \in Int /\ c.ts.mfc_num \in Int /\ LCMMN \in Nat \ {0}
      /\ ROLLOVER_MFC \in 0..Mfcs - 1 /\ 0 \in 0..Mfcs - 1
  BY <1>1, FrameFacts, Params DEF TimeStamps
<1>3. CASE c.needed
  <2>1. PICK t \in StartTimes : s = [next |-> c.next % LCMMN,
                                     ts |-> [mfc_num |-> c.next % LCMMN, secs |-> t]]
    BY <1>3 DEF Stamped
  <2>2. c.next % LCMMN \in 0..Mfcs - 1
    <3>1. c.next % LCMMN \in 0..LCMMN - 1
      <4>1. PICK T \in Nat \ {0} : T = LCMMN
        BY <1>2
      <4>2. PICK a \in Nat : a = c.next
        BY <1>1
      <4>3. a % T \in 0..T - 1
        BY ModRange
      <4> QED
        BY <4>1, <4>2, <4>3
    <3> QED
      BY <1>2, <3>1, Params DEF Frames
  <2>3. t \in 0..TimeValues - 1
    BY Params
  <2> QED
    BY <1>3, <2>1, <2>2, <2>3 DEF TimeStamps
<1>4. CASE ~c.needed /\ c.next = 0
  <2>1. s = RolledOver(c)
    BY <1>4 DEF Stamped
  <2>2. \A x \in Int : x % TimeValues \in 0..TimeValues - 1
    BY Params, IntModRange
  <2>3. c.ts.secs + (MFSECDEN * (Mfcs - c.ts.mfc_num - ROLLOVER_MFC)) \div MFSECNUM \in Int
    <3>1. MFSECDEN * (Mfcs - c.ts.mfc_num - ROLLOVER_MFC) \in Int
      BY <1>2, Params
    <3>2. (MFSECDEN * (Mfcs - c.ts.mfc_num - ROLLOVER_MFC)) \div MFSECNUM \in Int
      BY <3>1, Params, IntModRange
    <3> QED
      BY <1>2, <3>2
  <2>4. s.ts \in TimeStamps /\ s.next = ROLLOVER_MFC
    BY <1>2, <2>1, <2>2, <2>3 DEF RolledOver, TimeStamps
  <2> QED
    BY <1>2, <1>4, <2>4
<1>5. CASE ~c.needed /\ c.next # 0
  <2>1. s = Advanced(c) \/ s = [next |-> c.next, ts |-> c.ts]
    BY <1>5 DEF Stamped
  <2>2. CASE s = Advanced(c)
    <3> DEFINE q == (c.next - c.ts.mfc_num) \div MFSECNUM
    <3>1. q \in Int
      <4>1. PICK a \in Int : a = c.next - c.ts.mfc_num
        BY <1>1, <1>2
      <4>2. a \div MFSECNUM \in Int
        BY Params, IntModRange
      <4> QED
        BY <4>1, <4>2
    <3> HIDE DEF q
    <3>2. c.ts.mfc_num + q * MFSECNUM \in Int /\ c.ts.secs + MFSECDEN * q \in Int
      BY <1>2, <3>1, Params
    <3>3. /\ (c.ts.mfc_num + q * MFSECNUM) % Mfcs \in 0..Mfcs - 1
          /\ (c.ts.secs + MFSECDEN * q) % TimeValues \in 0..TimeValues - 1
      BY <3>2, Params, IntModRange
    <3>4. s = [next |-> c.next,
               ts |-> [mfc_num |-> (c.ts.mfc_num + q * MFSECNUM) % Mfcs,
                       secs |-> (c.ts.secs + MFSECDEN * q) % TimeValues]]
      BY <2>2 DEF Advanced, q
    <3> QED
      BY <1>1, <1>5, <3>3, <3>4 DEF TimeStamps
  <2> QED
    BY <1>1, <1>5, <2>1, <2>2
<1> QED
  BY <1>1, <1>3, <1>4, <1>5

\* The label of the next row of c under s
MfcOf(c, s) == IF c.minf = 0 THEN s.next ELSE c.mfc

\* The collector after a row.
LEMMA Collected ==
  ASSUME Frames, NEW c \in Cols, NEW s \in Stamped(c), NEW m, m = MfcOf(c, s),
         col' = [majf |-> (c.majf + 1) % NROWMAJF, minf |-> (c.minf + 1) % NROWMINF,
                 next |-> IF c.minf = 0 THEN NextMfc(s.next) ELSE s.next,
                 mfc |-> m, needed |-> FALSE, ts |-> s.ts]
  PROVE  /\ col' \in Cols /\ m \in 0..Mfcs - 1
         /\ col'.minf = IF c.minf + 1 = NROWMINF THEN 0 ELSE c.minf + 1
         /\ c.minf = 0 => /\ m = s.next
                          /\ col'.next = IF m + 1 = Mfcs THEN 0 ELSE m + 1
<1>1. s.next \in 0..Mfcs - 1 /\ s.ts \in TimeStamps
  BY StampTypes
<1>2. c.majf \in 0..NROWMAJF - 1 /\ c.minf \in 0..NROWMINF - 1 /\ c.mfc \in 0..Mfcs - 1
  BY DEF Cols
<1>3. m \in 0..Mfcs - 1
  BY <1>1, <1>2 DEF MfcOf
<1>4. (c.majf + 1) % NROWMAJF \in 0..NROWMAJF - 1
  <2>1. c.majf + 1 \in Nat
    BY <1>2, Params
  <2> QED
    BY <2>1, Params, ModRange
<1>5. \A T \in Nat \ {0} : \A a \in 0..T - 1 :
        (a + 1) % T = IF a + 1 = T THEN 0 ELSE a + 1
  <2>1. SUFFICES ASSUME NEW T \in Nat \ {0}, NEW a \in 0..T - 1
                 PROVE  (a + 1) % T = IF a + 1 = T THEN 0 ELSE a + 1
    OBVIOUS
  <2>2. CASE a + 1 = T
    <3>1. (T * 1) % T = 0 /\ T * 1 = T
      BY DivMultiple
    <3> QED
      BY <2>2, <3>1
  <2>3. CASE a + 1 # T
    <3>1. a + 1 \in 0..T - 1
      BY <2>3
    <3> QED
      BY <2>3, <3>1, ModSmall
  <2> QED
    BY <2>2, <2>3
<1>6. (c.minf + 1) % NROWMINF = IF c.minf + 1 = NROWMINF THEN 0 ELSE c.minf + 1
  BY <1>2, <1>5, Params
<1>7. NextMfc(s.next) = IF s.next + 1 = Mfcs THEN 0 ELSE s.next + 1
  BY <1>1, <1>5, Params DEF NextMfc
<1>8. /\ (c.minf + 1) % NROWMINF \in 0..NROWMINF - 1
      /\ NextMfc(s.next) \in 0..Mfcs - 1
  <2>1. \A T \in Nat \ {0} : \A a \in 0..T - 1 :
          (IF a + 1 = T THEN 0 ELSE a + 1) \in 0..T - 1
    OBVIOUS
  <2> QED
    BY <1>1, <1>2, <1>6, <1>7, <2>1, Params
<1>9. col' \in Cols
  BY <1>1, <1>3, <1>4, <1>8 DEF Cols, TimeStamps
<1> QED
  BY <1>3, <1>6, <1>7, <1>9 DEF MfcOf

\* A row is labelled with its place in the major frame, and so is the next.
LEMMA CollectPhase ==
  ASSUME Frames, NEW c \in Cols, Labels(c), PhaseKept, CollectRow(c)
  PROVE  Labels(col') /\ PhaseKept' /\ col' \in Cols
<1>1. PICK s \in Stamped(c) :
        /\ col' = [majf |-> (c.majf + 1) % NROWMAJF, minf |-> (c.minf + 1) % NROWMINF,
                   next |-> IF c.minf = 0 THEN NextMfc(s.next) ELSE s.next,
                   mfc |-> MfcOf(c, s), needed |-> FALSE, ts |-> s.ts]
        /\ \/ row' = row
           \/ \E at : row' = [sent |-> TRUE, mfc |-> MfcOf(c, s), minf |-> c.minf,
                              majf |-> c.majf, ts |-> s.ts, at |-> at]
  BY DEF CollectRow, MfcOf
<1>2. PICK m : m = MfcOf(c, s)
  OBVIOUS
<1>3. /\ col' \in Cols /\ m \in 0..Mfcs - 1
      /\ col'.minf = IF c.minf + 1 = NROWMINF THEN 0 ELSE c.minf + 1
      /\ c.minf = 0 => /\ m = s.next
                       /\ col'.next = IF m + 1 = Mfcs THEN 0 ELSE m + 1
  BY <1>1, <1>2, Collected
<1>4. /\ c.minf \in 0..NROWMINF - 1 /\ c.next \in 0..Mfcs - 1 /\ c.needed \in BOOLEAN
      /\ c.majf \in 0..NROWMAJF - 1 /\ c.mfc \in 0..Mfcs - 1
  BY DEF Cols
<1>5. /\ c.needed => s.next = 0
      /\ ~c.needed => s.next = IF c.next = 0 THEN ROLLOVER_MFC ELSE c.next
  <2>1. c.needed => s.next = 0
    <3>1. SUFFICES ASSUME c.needed PROVE s.next = 0
      OBVIOUS
    <3>2. s.next = c.next % LCMMN /\ c.next = 0
      BY <3>1, StampTypes DEF Labels
    <3>3. PICK T \in Nat \ {0} : T = LCMMN
      BY FrameFacts
    <3>4. 0 \in 0..T - 1
      OBVIOUS
    <3>5. 0 % T = 0
      BY <3>4, ModSmall
    <3> QED
      BY <3>2, <3>3, <3>5
  <2> QED
    BY <2>1, StampTypes
<1>6. c.majf = Place(m, c.minf)
  <2>1. CASE c.minf = 0
    <3>1. m = s.next /\ c.majf = Place(Coming(c), 0)
      BY <1>3, <2>1 DEF Labels
    <3>2. CASE c.needed
      BY <1>5, <2>1, <3>1, <3>2 DEF Labels, Coming
    <3>3. CASE ~c.needed
      BY <1>5, <2>1, <3>1, <3>3, PlaceRolls DEF Coming
    <3> QED
      BY <3>2, <3>3
  <2>2. CASE c.minf # 0
    BY <1>2, <2>2 DEF Labels, MfcOf
  <2> QED
    BY <2>1, <2>2
<1>7. \/ col'.next = m + 1
      \/ m + 1 = Mfcs /\ col'.next \in {0, ROLLOVER_MFC}
  <2>1. CASE c.minf = 0
    BY <1>3, <2>1
  <2>2. CASE c.minf # 0
    <3>1. ~c.needed /\ m = c.mfc /\ col'.next = s.next
      BY <1>1, <1>2, <2>2 DEF Labels, MfcOf
    <3>2. \/ c.next = m + 1
          \/ m + 1 = Mfcs /\ c.next \in {0, ROLLOVER_MFC}
      BY <2>2, <3>1 DEF Labels
    <3>3. m + 1 # 0
      BY <1>3
    <3> QED
      BY <1>5, <3>1, <3>2, <3>3
  <2> QED
    BY <2>1, <2>2
<1>8. /\ (Place(m, c.minf) + 1) % NROWMAJF = Place(m, c.minf + 1)
      /\ Place(m, NROWMINF) = Place(m + 1, 0)
  <2>1. m \in Nat /\ c.minf \in Nat
    BY <1>3, <1>4, Params
  <2>2. PICK r \in Nat : r = c.minf
    BY <2>1
  <2> QED
    BY <2>1, <2>2, PlaceNext
<1>9. col'.majf = Place(m, c.minf + 1) /\ col'.mfc = m /\ ~col'.needed
  BY <1>1, <1>2, <1>6, <1>8
<1>10. Labels(col')
  <2>1. CASE c.minf + 1 = NROWMINF
    <3>1. col'.minf = 0 /\ col'.majf = Place(m + 1, 0)
      BY <1>3, <1>8, <1>9, <2>1
    <3>2. Place(m + 1, 0) = Place(Coming(col'), 0)
      <4>1. CASE col'.next = m + 1
        <5>1. m + 1 # 0
          BY <1>3
        <5> QED
          BY <4>1, <5>1 DEF Coming
      <4>2. CASE m + 1 = Mfcs /\ col'.next \in {0, ROLLOVER_MFC}
        BY <1>9, <4>2, PlaceRolls DEF Coming
      <4> QED
        BY <1>7, <4>1, <4>2
    <3> QED
      BY <1>9, <3>1, <3>2 DEF Labels
  <2>2. CASE c.minf + 1 # NROWMINF
    <3>1. col'.minf = c.minf + 1 /\ col'.minf # 0
      BY <1>3, <1>4, <2>2, Params
    <3> QED
      BY <1>7, <1>9, <3>1 DEF Labels
  <2> QED
    BY <2>1, <2>2
<1>11. PhaseKept'
  <2>1. CASE row' = row
    BY <2>1 DEF PhaseKept
  <2>2. ASSUME NEW at, row' = [sent |-> TRUE, mfc |-> MfcOf(c, s), minf |-> c.minf,
                               majf |-> c.majf, ts |-> s.ts, at |-> at]
        PROVE  PhaseKept'
    <3>1. row'.mfc = m /\ row'.minf = c.minf /\ row'.majf = c.majf
      BY <1>2, <2>2
    <3> QED
      BY <1>6, <3>1 DEF PhaseKept, Place
  <2> QED
    BY <1>1, <2>1, <2>2
<1> QED
  BY <1>3, <1>10, <1>11

\* The stamp of the roll-over.
LEMMA RolledTimes ==
  ASSUME Frames, NEW c \in Cols, NEW e \in Int, c.ts.mfc_num % MFSECNUM = 0,
         RolledOver(c).ts \in TimeStamps
  PROVE  RowTime(RolledOver(c).ts, ROLLOVER_MFC, e) = RowTime(c.ts, Mfcs, e)
<1>1. c.ts \in TimeStamps /\ c.ts.mfc_num \in Nat /\ c.ts.secs \in Int
  BY Params DEF Cols, TimeStamps
<1>2. PICK i \in Nat : c.ts.mfc_num = MFSECNUM * i
  <2>1. PICK a \in Nat : a = c.ts.mfc_num
    BY <1>1
  <2>2. PICK T \in Nat \ {0} : T = MFSECNUM
    BY Params
  <2>3. \E i \in Nat : a = T * i
    BY <2>1, <2>2, MultipleOf
  <2> QED
    BY <2>1, <2>2, <2>3
<1>3. PICK h \in Int : Mfcs - ROLLOVER_MFC = MFSECNUM * h
  <2>1. PICK j \in Nat : LCMMN = MFSECNUM * j
    BY FrameFacts
  <2>2. PICK q \in Nat : Mfcs = LCMMN * q + ROLLOVER_MFC
    BY FrameFacts
  <2>3. (MFSECNUM * j) * q = MFSECNUM * (j * q) /\ j * q \in Int
        /\ MFSECNUM * (j * q) \in Int
    BY Params
  <2>4. Mfcs - ROLLOVER_MFC = MFSECNUM * (j * q)
    BY <2>1, <2>2, <2>3, FrameFacts, Params
  <2> QED
    BY <2>3, <2>4
<1>4. PICK q \in Int : q = h - i
  OBVIOUS
<1>5. MFSECNUM * h - MFSECNUM * i = q * MFSECNUM
  BY <1>4, Params
<1>6. Mfcs - c.ts.mfc_num - ROLLOVER_MFC = q * MFSECNUM
  <2>1. PICK x \in Int : x = MFSECNUM * h
    BY Params
  <2>2. Mfcs - c.ts.mfc_num - ROLLOVER_MFC = x - c.ts.mfc_num
    BY <1>1, <1>3, <2>1, FrameFacts, Params
  <2> QED
    BY <1>2, <1>5, <2>1, <2>2
<1>7. (MFSECDEN * (q * MFSECNUM)) \div MFSECNUM = MFSECDEN * q
  <2>1. PICK x \in Int : x = MFSECDEN * q
    BY Params
  <2>2. MFSECDEN * (q * MFSECNUM) = MFSECNUM * (MFSECDEN * q)
    BY Params
  <2>3. (MFSECNUM * x) \div MFSECNUM = x
    BY Params, DivMultiple
  <2> QED
    BY <2>1, <2>2, <2>3
<1>8. PICK tt \in TimeStamps : tt = RolledOver(c).ts
  OBVIOUS
<1>9. tt.mfc_num = 0 /\ tt.secs = (c.ts.secs + MFSECDEN * q) % TimeValues
  BY <1>6, <1>7, <1>8 DEF RolledOver
<1>10. ROLLOVER_MFC - tt.mfc_num = Mfcs - c.ts.mfc_num - q * MFSECNUM
  <2>1. PICK y \in Int : y = q * MFSECNUM
    BY Params
  <2> QED
    BY <1>1, <1>6, <1>9, <2>1, FrameFacts, Params
<1>11. ROLLOVER_MFC \in Int /\ Mfcs \in Int
  BY FrameFacts, Params
<1>12. RowTime(tt, ROLLOVER_MFC, e) = RowTime(c.ts, Mfcs, e)
  BY <1>1, <1>9, <1>10, <1>11, TimeMoved
<1> QED
  BY <1>8, <1>12

\* A stamp that is renewed.
LEMMA AdvancedTimes ==
  ASSUME Frames, NEW c \in Cols, NEW e \in Int, c.ts.mfc_num % MFSECNUM = 0,
         c.ts.mfc_num <= c.next, Advanced(c).ts \in TimeStamps
  PROVE  /\ RowTime(Advanced(c).ts, c.next, e) = RowTime(c.ts, c.next, e)
         /\ Advanced(c).ts.mfc_num % MFSECNUM = 0
         /\ c.next - Advanced(c).ts.mfc_num \in 0..TS_MFC_LIMIT
<1>1. c.ts \in TimeStamps /\ c.ts.mfc_num \in Nat /\ c.ts.secs \in Int
      /\ c.next \in 0..Mfcs - 1 /\ c.next \in Nat
  BY Params DEF Cols, TimeStamps
<1>2. PICK d \in Nat : d = c.next - c.ts.mfc_num
  BY <1>1
<1>3. PICK q \in Nat : q = d \div MFSECNUM
  BY Params, ModRange
<1>4. d = MFSECNUM * q + (d % MFSECNUM) /\ d % MFSECNUM \in 0..MFSECNUM - 1
  BY <1>3, Params, ModRange
<1>5. PICK x \in Nat : x = q * MFSECNUM /\ x = MFSECNUM * q
  BY Params
<1>6. c.ts.mfc_num + x \in 0..Mfcs - 1 /\ c.next - (c.ts.mfc_num + x) = d % MFSECNUM
  BY <1>1, <1>2, <1>4, <1>5, Params
<1>7. (c.ts.mfc_num + x) % Mfcs = c.ts.mfc_num + x
  <2>1. PICK a \in 0..Mfcs - 1 : a = c.ts.mfc_num + x
    BY <1>6
  <2>2. a % Mfcs = a
    BY Params, ModSmall
  <2> QED
    BY <2>1, <2>2
<1>8. PICK tt \in TimeStamps : tt = Advanced(c).ts
  OBVIOUS
<1>9. /\ tt.mfc_num = c.ts.mfc_num + x
      /\ tt.secs = (c.ts.secs + MFSECDEN * q) % TimeValues
  BY <1>2, <1>3, <1>5, <1>7, <1>8 DEF Advanced
<1>10. c.next - tt.mfc_num = c.next - c.ts.mfc_num - q * MFSECNUM
  BY <1>1, <1>5, <1>9
<1>11. RowTime(tt, c.next, e) = RowTime(c.ts, c.next, e)
  <2>1. PICK m \in Int : m = c.next
    BY <1>1
  <2>2. RowTime(tt, m, e) = RowTime(c.ts, m, e)
    BY <1>1, <1>9, <1>10, <2>1, TimeMoved
  <2> QED
    BY <2>1, <2>2
<1>12. tt.mfc_num % MFSECNUM = 0
  <2>1. PICK a \in Int : a = c.ts.mfc_num
    BY <1>1
  <2>2. PICK T \in Nat \ {0} : T = MFSECNUM
    BY Params
  <2>3. PICK k \in Int : k = q
    OBVIOUS
  <2>4. (a + T * k) % T = a % T
    BY ModTurns
  <2> QED
    BY <1>5, <1>9, <2>1, <2>2, <2>3, <2>4
<1>13. c.next - tt.mfc_num \in 0..TS_MFC_LIMIT
  BY <1>4, <1>6, <1>9, FrameFacts, Params
<1> QED
  BY <1>8, <1>11, <1>12, <1>13

\* The stamp that the next row of c is sent under gives the time d that the row
\* is due, and is not much older than the row's minor frame.
LEMMA StampTimes ==
  ASSUME Frames, NEW c \in Cols, NEW s \in Stamped(c), NEW d, Labels(c), Stamps(c, d),
         NEW at, at = IF c.needed THEN s.ts.secs * Second ELSE d
  PROVE  /\ at = RowTime(s.ts, s.next, Into(c))
         /\ s.ts.mfc_num % MFSECNUM = 0
         /\ s.next - s.ts.mfc_num \in 0..TS_MFC_LIMIT
<1>1. /\ c.next \in 0..Mfcs - 1 /\ c.ts \in TimeStamps /\ c.needed \in BOOLEAN
      /\ c.ts.mfc_num \in Nat /\ Into(c) \in Int /\ s.ts \in TimeStamps
  BY StampTypes, Params DEF Cols, TimeStamps, Into
<1>2. CASE c.needed
  <2>1. s.next = 0 /\ s.ts.mfc_num = 0 /\ Into(c) = 0
    <3>1. s.next = c.next % LCMMN /\ s.ts.mfc_num = s.next /\ c.next = 0 /\ c.minf = 0
      BY <1>2, StampTypes DEF Labels
    <3>2. PICK T \in Nat \ {0} : T = LCMMN
      BY FrameFacts
    <3>3. 0 \in 0..T - 1
      OBVIOUS
    <3>4. 0 % T = 0
      BY <3>3, ModSmall
    <3> QED
      BY <3>1, <3>2, <3>4 DEF Into
  <2>2. PICK t \in 0..TimeValues - 1 : t = s.ts.secs
    BY <1>1 DEF TimeStamps
  <2>3. t * Second \in 0..TimeRange - 1
    <3>1. Second * TimeValues >= Second * t + Second
      <4>1. TimeValues >= t + 1 /\ TimeValues \in Int /\ t \in Int
        BY Params
      <4> QED
        BY <4>1, Params, Mono
    <3>2. t * Second = Second * t /\ TimeRange = Second * TimeValues /\ Second * t \in Nat
      BY Params
    <3> QED
      BY <3>1, <3>2, Params
  <2>4. (t * Second) % TimeRange = t * Second
    <3>1. PICK a \in 0..TimeRange - 1 : a = t * Second
      BY <2>3
    <3>2. a % TimeRange = a
      BY Params, ModSmall
    <3> QED
      BY <3>1, <3>2
  <2>5. t * Second + (0 - 0) * MFSECDEN * NROWMINF + 0 * RowPeriod = t * Second
    BY <2>3, Params
  <2>6. RowTime(s.ts, 0, 0) = t * Second
    BY <2>1, <2>2, <2>4, <2>5 DEF RowTime
  <2>7. 0 % MFSECNUM = 0
    <3>1. 0 \in 0..MFSECNUM - 1
      BY Params
    <3> QED
      BY <3>1, Params, ModSmall
  <2>8. at = t * Second
    BY <1>2, <2>2
  <2> QED
    BY <2>1, <2>6, <2>7, <2>8, Params
<1>3. CASE ~c.needed
  <2>1. /\ c.ts.mfc_num % MFSECNUM = 0 /\ c.ts.mfc_num <= Coming(c)
        /\ at = RowTime(c.ts, Coming(c), Into(c))
    BY <1>3 DEF Stamps
  <2>2. CASE c.next = 0
    <3>1. s = RolledOver(c) /\ s.next = ROLLOVER_MFC /\ s.ts.mfc_num = 0
      BY <1>3, <2>2 DEF Stamped, RolledOver
    <3>2. Coming(c) = Mfcs
      BY <1>3, <2>2 DEF Coming
    <3>3. RowTime(s.ts, ROLLOVER_MFC, Into(c)) = RowTime(c.ts, Mfcs, Into(c))
      BY <1>1, <2>1, <3>1, RolledTimes
    <3>4. 0 % MFSECNUM = 0
      <4>1. 0 \in 0..MFSECNUM - 1
        BY Params
      <4> QED
        BY <4>1, Params, ModSmall
    <3> QED
      BY <2>1, <3>1, <3>2, <3>3, <3>4, FrameFacts, Params
  <2>3. CASE c.next # 0 /\ TooOld(c)
    <3>1. s = Advanced(c) /\ s.next = c.next /\ Coming(c) = c.next
      BY <1>3, <2>3 DEF Stamped, Advanced, Coming
    <3> QED
      BY <1>1, <2>1, <3>1, AdvancedTimes
  <2>4. CASE c.next # 0 /\ ~TooOld(c)
    <3>1. s = [next |-> c.next, ts |-> c.ts] /\ Coming(c) = c.next
      BY <1>3, <2>4 DEF Stamped, Coming
    <3>2. c.next - c.ts.mfc_num \in 0..TS_MFC_LIMIT
      BY <1>1, <2>1, <2>4, <3>1, Params DEF TooOld
    <3> QED
      BY <2>1, <3>1, <3>2
  <2> QED
    BY <2>2, <2>3, <2>4
<1> QED
  BY <1>1, <1>2, <1>3

\* A row is sent under a stamp that gives its time, and so is the next.
LEMMA CollectTimes ==
  ASSUME Frames, NROWMINF = 1 \/ ROLLOVER_MFC # 0, NEW c \in Cols, Labels(c),
         Stamps(c, due), RowsTimed, CollectRow(c)
  PROVE  Stamps(col', due') /\ RowsTimed'
<1>0. PICK s \in Stamped(c) :
        /\ col' = [majf |-> (c.majf + 1) % NROWMAJF, minf |-> (c.minf + 1) % NROWMINF,
                   next |-> IF c.minf = 0 THEN NextMfc(s.next) ELSE s.next,
                   mfc |-> MfcOf(c, s), needed |-> FALSE, ts |-> s.ts]
        /\ \E at : /\ at = IF c.needed THEN s.ts.secs * Second ELSE due
                   /\ due' = (at + RowPeriod) % TimeRange
                   /\ \/ row' = row
                      \/ row' = [sent |-> TRUE, mfc |-> MfcOf(c, s), minf |-> c.minf,
                                 majf |-> c.majf, ts |-> s.ts, at |-> at]
  BY DEF CollectRow, MfcOf
<1>1. PICK at : /\ at = IF c.needed THEN s.ts.secs * Second ELSE due
                /\ due' = (at + RowPeriod) % TimeRange
                /\ \/ row' = row
                   \/ row' = [sent |-> TRUE, mfc |-> MfcOf(c, s), minf |-> c.minf,
                              majf |-> c.majf, ts |-> s.ts, at |-> at]
  BY <1>0
<1>2. PICK m : m = MfcOf(c, s)
  OBVIOUS
<1>3. /\ col' \in Cols /\ m \in 0..Mfcs - 1
      /\ col'.minf = IF c.minf + 1 = NROWMINF THEN 0 ELSE c.minf + 1
      /\ c.minf = 0 => /\ m = s.next
                       /\ col'.next = IF m + 1 = Mfcs THEN 0 ELSE m + 1
  BY <1>0, <1>2, Collected
<1>4. /\ c.minf \in 0..NROWMINF - 1 /\ c.next \in 0..Mfcs - 1 /\ c.needed \in BOOLEAN
  BY DEF Cols
<1>5. s.next \in 0..Mfcs - 1 /\ s.ts \in TimeStamps /\ s.ts.mfc_num \in Nat
      /\ m \in Nat /\ s.next \in Nat /\ c.minf \in Nat
  BY <1>3, <1>4, StampTypes, Params DEF TimeStamps
<1>6. /\ at = RowTime(s.ts, s.next, Into(c)) /\ s.ts.mfc_num % MFSECNUM = 0
      /\ s.next - s.ts.mfc_num \in 0..TS_MFC_LIMIT
  BY <1>1, StampTimes
<1>7. /\ ~col'.needed /\ col'.ts = s.ts /\ due' = RowTime(s.ts, s.next, Into(c) + 1)
  <2>1. PICK n \in Int, e \in Int : n = s.next /\ e = Into(c)
    BY <1>5, Params DEF Into
  <2>2. (RowTime(s.ts, n, e) + RowPeriod) % TimeRange = RowTime(s.ts, n, e + 1)
    BY <1>5, TimeNext
  <2> QED
    BY <1>0, <1>1, <1>6, <2>1, <2>2
<1>8. Stamps(col', due')
  <2>1. CASE c.minf = 0
    <3>1. m = s.next /\ Coming(col') = m + 1
      BY <1>3, <1>5, <1>7, <2>1 DEF Coming
    <3>2. Into(col') = 1 - NROWMINF
      BY <1>3, <2>1, Params DEF Into
    <3>3. due' = RowTime(s.ts, m + 1, 1 - NROWMINF)
      <4>1. Into(c) + 1 = 1
        BY <2>1 DEF Into
      <4>2. RowTime(s.ts, m, 1) = RowTime(s.ts, m + 1, 1 - NROWMINF)
        BY <1>5, TimeNext
      <4> QED
        BY <1>7, <3>1, <4>1, <4>2
    <3>4. s.ts.mfc_num <= m + 1
      BY <1>5, <1>6, <3>1, Params
    <3> QED
      BY <1>6, <1>7, <3>1, <3>2, <3>3, <3>4 DEF Stamps
  <2>2. CASE c.minf # 0
    <3>1. ROLLOVER_MFC # 0 /\ ~c.needed /\ col'.next = s.next
      BY <1>0, <1>4, <2>2, Params DEF Labels
    <3>2. s.next # 0
      BY <3>1, StampTypes
    <3>3. Coming(col') = s.next
      BY <3>1, <3>2 DEF Coming
    <3>4. Into(col') = Into(c) + 1
      BY <1>3, <1>5, <2>2, Params DEF Into
    <3>5. s.ts.mfc_num <= s.next
      BY <1>5, <1>6, Params
    <3> QED
      BY <1>6, <1>7, <3>3, <3>4, <3>5 DEF Stamps
  <2> QED
    BY <2>1, <2>2
<1>9. RowsTimed'
  <2>1. CASE row' = row
    BY <2>1 DEF RowsTimed, LastFrameRest
  <2>2. CASE row' = [sent |-> TRUE, mfc |-> MfcOf(c, s), minf |-> c.minf,
                     majf |-> c.majf, ts |-> s.ts, at |-> at]
    <3>1. row'.mfc = m /\ row'.minf = c.minf /\ row'.ts = s.ts /\ row'.at = at
      BY <1>2, <2>2
    <3>2. CASE c.minf = 0
      <4>1. Into(c) = 0 /\ m = s.next
        BY <1>3, <3>2 DEF Into
      <4> QED
        BY <1>4, <1>6, <3>1, <3>2, <4>1 DEF RowsTimed
    <3>3. CASE c.minf # 0 /\ m # Mfcs - 1
      <4>1. ~c.needed /\ c.next = m + 1
        BY <1>2, <1>3, <3>3, Params DEF Labels, MfcOf
      <4>2. s.next = m + 1 /\ Into(c) = c.minf - NROWMINF
        BY <1>5, <3>3, <4>1, StampTypes DEF Into
      <4>3. RowTime(s.ts, m, c.minf) = RowTime(s.ts, m + 1, c.minf - NROWMINF)
        <5>1. PICK i \in Int, r \in Int : i = m /\ r = c.minf
          BY <1>5
        <5> QED
          BY <1>5, <5>1, TimeNext
      <4> QED
        BY <1>4, <1>6, <3>1, <3>3, <4>2, <4>3 DEF RowsTimed
    <3>4. CASE c.minf # 0 /\ m = Mfcs - 1
      BY <1>4, <3>1, <3>4 DEF RowsTimed, LastFrameRest
    <3> QED
      BY <3>2, <3>3, <3>4
  <2> QED
    BY <1>1, <2>1, <2>2
<1> QED
  BY <1>8, <1>9

\* Collecting a row keeps the types.
LEMMA CollectTypes ==
  ASSUME Frames, NEW c \in Cols, TypeOK, CollectRow(c)
  PROVE  /\ col' \in Cols /\ due' \in 0..TimeRange - 1 /\ written' \in BOOLEAN
         /\ blocked' \in Writers \cup {NoWriter, Garbage}
         /\ wr' \in [Writers -> {"closed", "open", "waiting"}] /\ armed' \subseteq Writers
<1>1. PICK s \in Stamped(c) :
        /\ col' = [majf |-> (c.majf + 1) % NROWMAJF, minf |-> (c.minf + 1) % NROWMINF,
                   next |-> IF c.minf = 0 THEN NextMfc(s.next) ELSE s.next,
                   mfc |-> MfcOf(c, s), needed |-> FALSE, ts |-> s.ts]
        /\ \E at : /\ at = IF c.needed THEN s.ts.secs * Second ELSE due
                   /\ due' = (at + RowPeriod) % TimeRange
        /\ Synch \/ UNCHANGED devVars
  BY DEF CollectRow, MfcOf
<1>2. col' \in Cols
  <2>1. PICK m : m = MfcOf(c, s)
    OBVIOUS
  <2> QED
    BY <1>1, <2>1, Collected
<1>3. due' \in 0..TimeRange - 1
  <2>1. PICK at : /\ at = IF c.needed THEN s.ts.secs * Second ELSE due
                  /\ due' = (at + RowPeriod) % TimeRange
    BY <1>1
  <2>2. s.ts.secs \in Int
    BY StampTypes, Params DEF TimeStamps
  <2>3. \A x, y \in Int : x * y \in Int
    OBVIOUS
  <2>4. due \in Int
    BY Params DEF TypeOK
  <2>5. at \in Int
    BY <2>1, <2>2, <2>3, <2>4, Params
  <2>6. at + RowPeriod \in Int
    BY <2>5, Params
  <2> QED
    BY <2>1, <2>6, Params, IntModRange
<1>4. CASE UNCHANGED devVars
  BY <1>2, <1>3, <1>4 DEF TypeOK, devVars
<1>5. CASE Synch
  BY <1>2, <1>3, <1>5 DEF TypeOK, Synch
<1> QED
  BY <1>1, <1>4, <1>5

-----------------------------------------------------------------------------
(* Every step.                                                             *)

\* A start leaves the collector before row 0 of minor frame 0.
LEMMA RestartedFacts ==
  ASSUME NEW c \in Cols
  PROVE  Restarted(c) \in Cols /\ Labels(Restarted(c)) /\ \A d : Stamps(Restarted(c), d)
<1>1. /\ 0 \in 0..NROWMAJF - 1 /\ 0 \in 0..NROWMINF - 1 /\ 0 \in 0..Mfcs - 1
  BY Params
<1>2. Restarted(c) \in Cols
  BY <1>1 DEF Restarted, Cols
<1>3. /\ Restarted(c).majf = 0 /\ Restarted(c).minf = 0 /\ Restarted(c).next = 0
      /\ Restarted(c).needed
  BY DEF Restarted, Cols
<1>4. Place(0, 0) = 0
  <2>1. 0 * NROWMINF + 0 = 0
    BY Params
  <2>2. 0 % NROWMAJF = 0
    BY <1>1, Params, ModSmall
  <2> QED
    BY <2>1, <2>2 DEF Place
<1> QED
  BY <1>2, <1>3, <1>4 DEF Labels, Stamps, Coming

\* What a step does to the collector: nothing, unless rows are collected; a
\* restart; or a row, after a restart if nothing was collected.
LEMMA Steps ==
  ASSUME TypeOK, [Next]_vars
  PROVE  \/ UNCHANGED <<col, due, row>> /\ (Collecting' => Collecting)
         \/ col' = Restarted(col) /\ UNCHANGED <<due, row>>
         \/ Collecting /\ CollectRow(col)
         \/ CollectRow(Restarted(col))
<1>1. CASE Start
  BY <1>1 DEF Start
<1>2. CASE Stop /\ UNCHANGED pulses
  BY <1>2 DEF Stop, Settime, Collecting
<1>3. CASE SingleStep
  BY <1>3 DEF SingleStep, Collecting
<1>4. CASE Play
  BY <1>4 DEF Play, Collecting
<1>5. CASE Quit /\ UNCHANGED pulses
  BY <1>5 DEF Quit, Settime, Collecting
<1>6. CASE CloseCmd
  BY <1>6 DEF CloseCmd, genVars, Collecting
<1>7. CASE Tick
  BY <1>7 DEF Tick, genVars, Collecting
<1>8. CASE TimerPulse
  BY <1>8 DEF TimerPulse, Collecting
<1>9. ASSUME NEW w \in Writers,
             Open(w) \/ Close(w) \/ BlockingWrite(w) \/ AnsweredWrite(w) \/ Arm(w)
      PROVE  UNCHANGED <<col, due, row>> /\ (Collecting' => Collecting)
  BY <1>9 DEF Open, Close, BlockingWrite, AnsweredWrite, Arm, clientRest, genVars,
              Collecting
<1>10. CASE UNCHANGED vars
  BY <1>10 DEF vars, genVars, Collecting
<1>11. Command => (Start \/ Stop \/ SingleStep \/ Play \/ Quit) /\ UNCHANGED pulses
  BY DEF Command
<1> QED
  BY <1>1, <1>2, <1>3, <1>4, <1>5, <1>6, <1>7, <1>8, <1>9, <1>10, <1>11 DEF Next

\* The initial states.
LEMMA InitTypes == Init => TypeOK
<1> SUFFICES ASSUME Init PROVE TypeOK
  OBVIOUS
<1>1. /\ 0 \in 0..NROWMAJF - 1 /\ 0 \in 0..NROWMINF - 1 /\ 0 \in 0..Mfcs - 1
      /\ 0 \in 0..TimeValues - 1 /\ 0 \in 0..TimeRange - 1
  BY Params
<1>2. 0 \in 0..MaxPulses /\ 0 \in 0..MaxCommands
  BY CollectorAssumption DEF CollectorAssumption
<1>3. col \in [majf : 0..NROWMAJF - 1, minf : 0..NROWMINF - 1, next : 0..Mfcs - 1,
              mfc : 0..Mfcs - 1, needed : BOOLEAN,
              ts : [mfc_num : 0..Mfcs - 1, secs : 0..TimeValues - 1]]
  BY <1>1 DEF Init
<1> QED
  BY <1>1, <1>2, <1>3 DEF Init, TypeOK

\* Every step keeps the types.
LEMMA TypesKept ==
  ASSUME Frames, TypeOK, [Next]_vars
  PROVE  TypeOK'
<1>1. col \in Cols
  BY DEF TypeOK, Cols
<1>2. Restarted(col) \in Cols
  BY <1>1, RestartedFacts
<1>3. ASSUME Command PROVE TypeOK'
  <2>1. ncmd' \in 0..MaxCommands /\ cmdOpen' = TRUE /\ UNCHANGED <<attached, ended, pulses>>
    BY <1>3, CollectorAssumption DEF Command, AfterCommand, TypeOK, CollectorAssumption
  <2>2. CASE Start
    BY <1>2, <2>1, <2>2 DEF Start, Settime, TypeOK, devVars, Cols
  <2>3. CASE Stop
    BY <2>1, <2>3 DEF Stop, Settime, TypeOK, devVars
  <2>4. CASE SingleStep
    <3>1. PICK c \in Cols : CollectRow(c)
      BY <1>1, <1>2, <2>4 DEF SingleStep
    <3>2. /\ col' \in Cols /\ due' \in 0..TimeRange - 1 /\ written' \in BOOLEAN
          /\ blocked' \in Writers \cup {NoWriter, Garbage}
          /\ wr' \in [Writers -> {"closed", "open", "waiting"}] /\ armed' \subseteq Writers
      BY <3>1, CollectTypes
    <3> QED
      BY <2>1, <2>4, <3>2 DEF SingleStep, Settime, TypeOK, Cols
  <2>5. CASE Play
    BY <1>1, <1>2, <2>1, <2>5 DEF Play, Settime, TypeOK, devVars, Cols
  <2>6. CASE Quit
    BY <2>1, <2>6 DEF Quit, Settime, TypeOK, devVars
  <2> QED
    BY <1>3, <2>2, <2>3, <2>4, <2>5, <2>6 DEF Command
<1>4. ASSUME AfterMessage PROVE attached' \in BOOLEAN /\ ended' \in BOOLEAN
  BY <1>4 DEF AfterMessage, TypeOK
<1>5. ASSUME CloseCmd PROVE TypeOK'
  <2>1. attached' \in BOOLEAN /\ ended' \in BOOLEAN
    BY <1>4, <1>5 DEF CloseCmd
  <2> QED
    BY <1>5, <2>1 DEF CloseCmd, TypeOK, genVars, devVars
<1>6. ASSUME Tick PROVE TypeOK'
  BY <1>6, CollectorAssumption DEF Tick, TypeOK, genVars, devVars, CollectorAssumption
<1>7. ASSUME TimerPulse PROVE TypeOK'
  <2>1. attached' \in BOOLEAN /\ ended' \in BOOLEAN
    BY <1>4, <1>7 DEF TimerPulse
  <2>2. /\ col' \in Cols /\ due' \in 0..TimeRange - 1 /\ written' \in BOOLEAN
        /\ blocked' \in Writers \cup {NoWriter, Garbage}
        /\ wr' \in [Writers -> {"closed", "open", "waiting"}] /\ armed' \subseteq Writers
    BY <1>1, <1>7, CollectTypes DEF TimerPulse
  <2>3. pulses' \in 0..MaxPulses
    BY <1>7, CollectorAssumption DEF TimerPulse, TypeOK, CollectorAssumption
  <2> QED
    BY <1>7, <2>1, <2>2, <2>3 DEF TimerPulse, TypeOK, genVars, Cols
<1>8. ASSUME NEW w \in Writers,
             Open(w) \/ Close(w) \/ BlockingWrite(w) \/ AnsweredWrite(w) \/ Arm(w)
      PROVE  TypeOK'
  <2>1. attached' \in BOOLEAN /\ ended' \in BOOLEAN
    BY <1>4, <1>8 DEF Open, Close, BlockingWrite, AnsweredWrite, Arm, AfterCommand, TypeOK
  <2>2. CASE Open(w)
    BY <2>1, <2>2 DEF Open, clientRest, genVars, TypeOK
  <2>3. CASE Close(w)
    BY <2>1, <2>3 DEF Close, clientRest, genVars, TypeOK
  <2>4. CASE BlockingWrite(w)
    BY <2>1, <2>4 DEF BlockingWrite, clientRest, genVars, TypeOK
  <2>5. CASE AnsweredWrite(w)
    BY <2>1, <2>5 DEF AnsweredWrite, clientRest, genVars, TypeOK
  <2>6. CASE Arm(w)
    BY <2>1, <2>6 DEF Arm, clientRest, genVars, TypeOK
  <2> QED
    BY <1>8, <2>2, <2>3, <2>4, <2>5, <2>6
<1>9. ASSUME UNCHANGED vars PROVE TypeOK'
  BY <1>9 DEF vars, genVars, devVars, TypeOK
<1> QED
  BY <1>3, <1>5, <1>6, <1>7, <1>8, <1>9 DEF Next

-----------------------------------------------------------------------------
(* The theorems.                                                           *)

\* For every frame tmc generates, every variable of a collector is always of
\* its type: no counter leaves its range when rows are collected, stamped,
\* single-stepped or restarted in any order.
THEOREM TypesRight ==
  ASSUME Frames
  PROVE  Spec => []TypeOK
<1>1. Init => TypeOK
  BY InitTypes
<1>2. TypeOK /\ [Next]_vars => TypeOK'
  BY TypesKept
<1> QED
  BY <1>1, <1>2, PTL DEF Spec

\* The label of every row tells its place in the major frame, however the
\* collector was started, stopped and stepped and across every roll-over: what
\* an extraction unpacks is what the collector packed.
THEOREM PhaseRight ==
  ASSUME Frames
  PROVE  Spec => []PhaseKept
<1>1. Init => TypeOK /\ PhaseInv
  <2>1. Init => PhaseInv
    BY DEF Init, PhaseInv, PhaseKept, Collecting
  <2>2. Init => TypeOK
    BY InitTypes
  <2> QED
    BY <2>1, <2>2
<1>2. TypeOK /\ PhaseInv /\ [Next]_vars => (TypeOK /\ PhaseInv)'
  <2>1. SUFFICES ASSUME TypeOK, PhaseInv, [Next]_vars PROVE PhaseInv'
    BY TypesKept
  <2>2. col \in Cols /\ Restarted(col) \in Cols /\ Labels(Restarted(col)) /\ PhaseKept
    <3>1. col \in Cols
      BY <2>1 DEF TypeOK, Cols
    <3> QED
      BY <2>1, <3>1, RestartedFacts DEF PhaseInv
  <2>3. CASE UNCHANGED <<col, due, row>> /\ (Collecting' => Collecting)
    BY <2>1, <2>3 DEF PhaseInv, Labels, PhaseKept
  <2>4. CASE col' = Restarted(col) /\ UNCHANGED <<due, row>>
    BY <2>2, <2>4 DEF PhaseInv, PhaseKept
  <2>5. CASE Collecting /\ CollectRow(col)
    <3>1. Labels(col') /\ PhaseKept'
      BY <2>1, <2>2, <2>5, CollectPhase DEF PhaseInv
    <3> QED
      BY <3>1 DEF PhaseInv
  <2>6. CASE CollectRow(Restarted(col))
    <3>1. Labels(col') /\ PhaseKept'
      BY <2>2, <2>6, CollectPhase
    <3> QED
      BY <3>1 DEF PhaseInv
  <2> QED
    BY <2>1, <2>3, <2>4, <2>5, <2>6, Steps
<1>3. PhaseInv => PhaseKept
  BY DEF PhaseInv
<1> QED
  BY <1>1, <1>2, <1>3, PTL DEF Spec

\* The stamp of every row but those after the first of the last minor frame
\* before a roll-over gives the time it was due, and when a minor frame
\* begins its stamp is not too old, for every frame whose counter does
\* not roll over to 0 inside a minor frame.
THEOREM TimesRight ==
  ASSUME Frames, NROWMINF = 1 \/ ROLLOVER_MFC # 0
  PROVE  Spec => [](TypeOK /\ RowsTimed)
<1> DEFINE Inv == TypeOK /\ PhaseInv /\ TimeInv
<1>1. Init => Inv
  <2>1. Init => PhaseInv /\ TimeInv
    BY DEF Init, PhaseInv, PhaseKept, TimeInv, RowsTimed, Collecting
  <2>2. Init => TypeOK
    BY InitTypes
  <2> QED
    BY <2>1, <2>2
<1>2. Inv /\ [Next]_vars => Inv'
  <2>1. SUFFICES ASSUME TypeOK, PhaseInv, TimeInv, [Next]_vars PROVE PhaseInv' /\ TimeInv'
    BY TypesKept
  <2>2. col \in Cols /\ Restarted(col) \in Cols /\ Labels(Restarted(col)) /\ PhaseKept
        /\ RowsTimed /\ \A d : Stamps(Restarted(col), d)
    <3>1. col \in Cols
      BY <2>1 DEF TypeOK, Cols
    <3> QED
      BY <2>1, <3>1, RestartedFacts DEF PhaseInv, TimeInv
  <2>3. CASE UNCHANGED <<col, due, row>> /\ (Collecting' => Collecting)
    <3>1. PhaseInv'
      BY <2>1, <2>3 DEF PhaseInv, Labels, PhaseKept
    <3>2. TimeInv'
      BY <2>1, <2>3 DEF TimeInv, Stamps, RowsTimed, LastFrameRest
    <3> QED
      BY <3>1, <3>2
  <2>4. CASE col' = Restarted(col) /\ UNCHANGED <<due, row>>
    <3>1. PhaseInv'
      BY <2>2, <2>4 DEF PhaseInv, PhaseKept
    <3>2. TimeInv'
      BY <2>2, <2>4 DEF TimeInv, RowsTimed, LastFrameRest
    <3> QED
      BY <3>1, <3>2
  <2>5. CASE Collecting /\ CollectRow(col)
    <3>1. Labels(col) /\ Stamps(col, due)
      BY <2>1, <2>5 DEF PhaseInv, TimeInv
    <3>2. Labels(col') /\ PhaseKept' /\ Stamps(col', due') /\ RowsTimed'
      BY <2>2, <2>5, <3>1, CollectPhase, CollectTimes
    <3> QED
      BY <3>2 DEF PhaseInv, TimeInv
  <2>6. CASE CollectRow(Restarted(col))
    <3>1. Labels(col') /\ PhaseKept' /\ Stamps(col', due') /\ RowsTimed'
      BY <2>2, <2>6, CollectPhase, CollectTimes
    <3> QED
      BY <3>1 DEF PhaseInv, TimeInv
  <2> QED
    BY <2>1, <2>3, <2>4, <2>5, <2>6, Steps
<1>3. Inv => TypeOK /\ RowsTimed
  BY DEF TimeInv
<1> QED
  BY <1>1, <1>2, <1>3, PTL DEF Spec

\* With one row to the minor frame, every row's stamp and label give the time
\* it was due, and the label is at most TS_MFC_LIMIT after the stamp, across
\* roll-overs, renewed stamps and restarts.
THEOREM RowTimesRight ==
  ASSUME Frames, NROWMINF = 1
  PROVE  Spec => []RowTimes
<1>1. TypeOK /\ RowsTimed => RowTimes
  BY DEF RowsTimed, LastFrameRest, RowTimes, StampGivesTime
<1>2. Spec => [](TypeOK /\ RowsTimed)
  BY TimesRight
<1> QED
  BY <1>1, <1>2, PTL
=============================================================================
