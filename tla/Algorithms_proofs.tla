-------------------------- MODULE Algorithms_proofs --------------------------
(***************************************************************************)
(* Commands and time-outs of an algorithm keep the time of their state and *)
(* nothing that is due is left when a second ends: TimesKept and CaughtUp, *)
(* for any program whose commands come in the order of their times.        *)
(***************************************************************************)
EXTENDS Algorithms, TLAPS, Lemmas

-----------------------------------------------------------------------------
(* The inductive invariant.  What it says of one partition is said of its  *)
(* record x in tma_partitions, of r, sc and st, its part of the history,   *)
(* and of the time t.                                                      *)

CmdsOf(x) == Program[x.state].cmds
Here(x)   == CmdsOf(x)[x.next]
Latest(x)   == Max({x.last, x.base})
Slack(x)  == IF \E i \in 1..Len(CmdsOf(x)) :
                     CmdsOf(x)[i].k = "hold" /\ CmdsOf(x)[i].dt = 0
             THEN 1 ELSE 0

\* next_cmd is a command of the state, at a hold as long as it waits; what is
\* left of a time-out counts from lastcheck
Common(p, x, sc, st) ==
  /\ Program[x.state].part = p
  /\ x.next \in 0..Len(CmdsOf(x))
  /\ x.waiting # 0 => x.next # 0 /\ Here(x).k = "hold"
  /\ x.waiting > 0 => x.waiting = Here(x).timeout + sc - Latest(x)
  /\ st.at + Slack(x) >= st.dt

\* While second t is processed: a partition is never behind, but for the first
\* second of a state, which may come too late for it; the clock of a hold has
\* not been set back before its time; and the state has run for what its clock
\* shows
During(x, r, t) ==
  /\ x.last < t /\ x.base <= t /\ Latest(x) >= t - 1
  /\ x.next # 0 /\ Here(x).k # "end" =>
       t - x.base <= Here(x).dt \/ t - x.base <= 1
  /\ x.waiting # 0 => Here(x).dt <= t - x.base
  /\ r + Slack(x) >= t - x.base

\* What is left to do when tma_process has passed over a partition
Settled(x, sc, t, hd) ==
  /\ x.waiting = 0 => x.next = 0 \/ hd \/ Here(x).dt > t - x.base
  /\ x.waiting > 0 => t - sc < Here(x).timeout \/ NeverTimesOut(Here(x))

Done(x, t, hd) ==
  /\ x.last = t
  /\ x.next # 0 /\ ~hd /\ x.waiting = 0 =>
       Here(x).dt > t - x.base \/ NeverTimesOut(Here(x))

InSecond  == phase \in {"enter", "run", "end"}
Passed(p) == phase = "end" \/ (phase \in {"enter", "run"} /\ p < at)
NextRun(p) == IF held[p] THEN run[p] ELSE run[p] + 1

Prtn(t) == [state : DOMAIN Program, next : Nat, waiting : Int, base : 0..t, last : -1..t]
Table(t) == [Parts -> Prtn(t)]
Sent == [dt : Int, at : Int]

Types ==
  /\ now \in 0..MaxTime /\ events \in 0..MaxEvents /\ holding \in BOOLEAN
  /\ phase \in {"enter", "run", "end", "done", "idle"} /\ at \in Parts
  /\ until \in [Parts -> BOOLEAN]
  /\ prt \in [Parts -> Prtn(now)] /\ run \in [Parts -> Nat] /\ held \in [Parts -> BOOLEAN]
  /\ since \in [Parts -> Int] /\ sent \in [Parts -> Sent]

PartInv(p) ==
  /\ Common(p, prt[p], since[p], sent[p])
  /\ InSecond => During(prt[p], run[p], now) /\ (holding => prt[p].base < now)
  /\ ~InSecond => During(prt[p], NextRun(p), now + 1) /\ Latest(prt[p]) = now
  /\ phase = "done" => Done(prt[p], now, holding)
  /\ Passed(p) => Settled(prt[p], since[p], now, holding)

\* The partition whose commands are taken waits for nothing; time begins with
\* the first second
Turn ==
  /\ phase = "run" => prt[at].waiting = 0 /\ prt[at].next # 0 /\ ~holding
  /\ InSecond => now > 0
  /\ now = 0 => ~holding /\ phase # "done" /\ \A p \in Parts : prt[p].waiting = 0

IInv == Types /\ Turn /\ \A p \in Parts : PartInv(p)

-----------------------------------------------------------------------------
(* The constants.                                                          *)

LEMMA Sizes == N \in Nat \ {0} /\ MaxTime \in Nat /\ MaxEvents \in Nat
BY AlgorithmsAssumption

\* The commands of a state end, and come in order.
LEMMA CommandFacts ==
  ASSUME NEW s \in DOMAIN Program
  PROVE  /\ Program[s].part \in Parts /\ Len(Program[s].cmds) \in Nat \ {0}
         /\ \A i \in 1..Len(Program[s].cmds) :
              /\ Program[s].cmds[i] \in Command
              /\ Program[s].cmds[i].k = "end" <=> i = Len(Program[s].cmds)
              /\ Program[s].cmds[i].k = "hold" =>
                   i + Program[s].cmds[i].success <= Len(Program[s].cmds)
              /\ \A j \in i..Len(Program[s].cmds) - 1 :
                   Program[s].cmds[i].dt <= Program[s].cmds[j].dt
<1>1. Program[s].part \in Parts /\ Commands(Program[s].cmds)
  BY AlgorithmsAssumption DEF Parts
<1> DEFINE c == Program[s].cmds
<1>2. c \in Seq(Command) /\ c # <<>>
  BY <1>1 DEF Commands
<1>3. Len(c) \in Nat \ {0} /\ \A i \in 1..Len(c) : c[i] \in Command
  <2> HIDE DEF c
  <2>1. ASSUME NEW C, c \in Seq(C)
        PROVE  Len(c) \in Nat \ {0} /\ \A i \in 1..Len(c) : c[i] \in C
    BY <1>2, <2>1
  <2> QED
    BY <1>2, <2>1
<1> QED
  BY <1>1, <1>3 DEF Commands

\* What a command is made of.
LEMMA CommandParts ==
  ASSUME NEW c \in Command
  PROVE  /\ c.dt \in Int /\ (c.k # "end" => c.dt \in Nat) /\ (c.k = "end" => c.dt = -1)
         /\ c.k = "hold" => /\ c.success \in Nat \ {0} /\ c.timeout \in Int /\ c.timeout # 0
         /\ c.k \in {"validate", "resume"} => c.state \in DOMAIN Program
BY DEF Command

\* The larger and the smaller of two.
LEMMA Largest ==
  ASSUME NEW a \in Int, NEW b \in Int
  PROVE  Max({a, b}) = IF a >= b THEN a ELSE b
<1>1. \E x \in {a, b} : \A y \in {a, b} : x >= y
  OBVIOUS
<1>2. Max({a, b}) \in {a, b} /\ \A y \in {a, b} : Max({a, b}) >= y
  BY <1>1 DEF Max
<1> QED
  BY <1>2

LEMMA Smallest ==
  ASSUME NEW a \in Int, NEW b \in Int
  PROVE  Min({a, b}) = IF a <= b THEN a ELSE b
<1>1. \E x \in {a, b} : \A y \in {a, b} : x <= y
  OBVIOUS
<1>2. Min({a, b}) \in {a, b} /\ \A y \in {a, b} : Min({a, b}) <= y
  BY <1>1 DEF Min
<1> QED
  BY <1>2

-----------------------------------------------------------------------------
(* What may happen to a partition.                                         *)

\* Where next_cmd is.
LEMMA HereRight ==
  ASSUME NEW t \in Nat, NEW x \in Prtn(t), NEW p, NEW sc \in Int, NEW st \in Sent,
         Common(p, x, sc, st), x.next # 0
  PROVE  /\ Here(x) \in Command /\ x.next \in 1..Len(CmdsOf(x)) /\ Len(CmdsOf(x)) \in Nat
         /\ Here(x).dt \in Int
         /\ Here(x).k = "end" <=> x.next = Len(CmdsOf(x))
         /\ Here(x).k = "hold" => /\ Here(x).success \in Nat \ {0} /\ Here(x).timeout \in Int
                                  /\ Here(x).timeout # 0 /\ Here(x).dt \in Nat
                                  /\ x.next + Here(x).success <= Len(CmdsOf(x))
<1>1. x.state \in DOMAIN Program /\ x.next \in Nat
  BY DEF Prtn
<1>2. Len(CmdsOf(x)) \in Nat \ {0}
  BY <1>1, CommandFacts DEF CmdsOf
<1>3. x.next \in 1..Len(CmdsOf(x))
  BY <1>1, <1>2 DEF Common
<1>4. /\ Here(x) \in Command
      /\ Here(x).k = "end" <=> x.next = Len(CmdsOf(x))
      /\ Here(x).k = "hold" => x.next + Here(x).success <= Len(CmdsOf(x))
  BY <1>1, <1>3, CommandFacts DEF CmdsOf, Here
<1> QED
  BY <1>2, <1>3, <1>4, CommandParts

\* lastcheck, not earlier than basetime.
LEMMA LastRight ==
  ASSUME NEW t \in Nat, NEW x \in Prtn(t)
  PROVE  /\ x.base \in 0..t /\ x.last \in -1..t /\ x.waiting \in Int /\ x.next \in Nat
         /\ Latest(x) = (IF x.last >= x.base THEN x.last ELSE x.base) /\ Latest(x) \in 0..t
<1>1. x.base \in 0..t /\ x.last \in -1..t /\ x.waiting \in Int /\ x.next \in Nat
  BY DEF Prtn
<1>2. x.base \in Int /\ x.last \in Int
  BY <1>1
<1>3. Latest(x) = IF x.last >= x.base THEN x.last ELSE x.base
  BY <1>2, Largest DEF Latest
<1> QED
  BY <1>1, <1>3

\* The leeway of a state.
LEMMA SlackRight == ASSUME NEW x PROVE Slack(x) \in {0, 1}
BY DEF Slack

\* next_cmd moves on, and the partition waits no longer.
Moved(x, m) == [state |-> x.state, next |-> m, waiting |-> 0, base |-> x.base,
                last |-> x.last]

LEMMA Moves ==
  ASSUME NEW t \in Nat, NEW u \in Nat, NEW x \in Prtn(t), NEW p, NEW sc \in Int,
         NEW sd \in Int, NEW st \in Sent, NEW r \in Nat,
         Common(p, x, sc, st), During(x, r, u), x.next # 0,
         NEW m \in x.next..Len(CmdsOf(x))
  PROVE  /\ Moved(x, m) \in Prtn(t) /\ Common(p, Moved(x, m), sd, st)
         /\ During(Moved(x, m), r, u) /\ Latest(Moved(x, m)) = Latest(x)
<1>0. PICK y : y = Moved(x, m)
  OBVIOUS
<1>1. /\ x.next \in 1..Len(CmdsOf(x)) /\ Len(CmdsOf(x)) \in Nat /\ Here(x).dt \in Int
      /\ Here(x).k = "end" <=> x.next = Len(CmdsOf(x))
  BY HereRight
<1>2. /\ y.state = x.state /\ y.next = m /\ y.waiting = 0 /\ y.base = x.base
      /\ y.last = x.last
  BY <1>0 DEF Moved
<1>3. m \in Nat /\ m # 0 /\ x.state \in DOMAIN Program
  BY <1>1 DEF Prtn
<1>4. y \in Prtn(t)
  BY <1>0, <1>3 DEF Prtn, Moved
<1>5. CmdsOf(y) = CmdsOf(x) /\ Slack(y) = Slack(x) /\ Latest(y) = Latest(x)
  BY <1>2 DEF CmdsOf, Slack, Latest
<1>6. m \in 1..Len(CmdsOf(x)) /\ Here(y) = CmdsOf(x)[m] /\ Here(x) = CmdsOf(x)[x.next]
  BY <1>1, <1>2, <1>5 DEF Here
<1>7. Common(p, y, sd, st)
  BY <1>1, <1>2, <1>5, <1>6 DEF Common, CmdsOf
<1>8. ASSUME Here(y).k # "end"
      PROVE  Here(x).k # "end" /\ Here(y).dt \in Int /\ Here(x).dt <= Here(y).dt
  <2>1. CmdsOf(x)[m].k = "end" <=> m = Len(CmdsOf(x))
    BY <1>3, <1>6, CommandFacts DEF CmdsOf
  <2>2. m \in x.next..Len(CmdsOf(x)) - 1
    BY <1>1, <1>6, <1>8, <2>1
  <2>3. CmdsOf(x)[x.next].dt <= CmdsOf(x)[m].dt
    BY <1>1, <1>3, <2>2, CommandFacts DEF CmdsOf
  <2>4. CmdsOf(x)[m] \in Command
    BY <1>3, <1>6, CommandFacts DEF CmdsOf
  <2> QED
    BY <1>1, <1>6, <2>1, <2>2, <2>3, <2>4, CommandParts
<1>9. y.next # 0 /\ Here(y).k # "end" => u - y.base <= Here(y).dt \/ u - y.base <= 1
  <2>1. SUFFICES ASSUME Here(y).k # "end"
                 PROVE  u - y.base <= Here(y).dt \/ u - y.base <= 1
    OBVIOUS
  <2>2. u - x.base <= Here(x).dt \/ u - x.base <= 1
    BY <1>8, <2>1 DEF During
  <2>3. x.base \in Int
    BY LastRight
  <2> QED
    BY <1>1, <1>2, <1>8, <2>1, <2>2, <2>3
<1>10. During(y, r, u)
  BY <1>2, <1>5, <1>9 DEF During
<1> QED
  BY <1>0, <1>4, <1>5, <1>7, <1>10

\* The end of the commands: next_cmd is -1.
LEMMA Stops ==
  ASSUME NEW t \in Nat, NEW x \in Prtn(t), NEW p, NEW sc \in Int, NEW st \in Sent,
         NEW r \in Nat, Common(p, x, sc, st), During(x, r, t), x.waiting = 0, NEW y,
         y = [x EXCEPT !.next = 0], NEW hd
  PROVE  y \in Prtn(t) /\ Common(p, y, sc, st) /\ During(y, r, t) /\ Settled(y, sc, t, hd)
<1>1. /\ y.state = x.state /\ y.next = 0 /\ y.waiting = 0 /\ y.base = x.base
      /\ y.last = x.last /\ y \in Prtn(t)
  BY DEF Prtn
<1>2. CmdsOf(y) = CmdsOf(x) /\ Slack(y) = Slack(x) /\ Latest(y) = Latest(x)
  BY <1>1 DEF CmdsOf, Slack, Latest
<1>3. Len(CmdsOf(x)) \in Nat
  BY CommandFacts DEF CmdsOf, Prtn
<1>4. Common(p, y, sc, st)
  BY <1>1, <1>2, <1>3 DEF Common
<1>5. During(y, r, t)
  BY <1>1, <1>2 DEF During
<1> QED
  BY <1>1, <1>4, <1>5 DEF Settled

\* A state begins.
LEMMA Begins ==
  ASSUME NEW t \in Nat, NEW s \in DOMAIN Program, NEW y, NEW sc \in Int,
         y = [state |-> s, next |-> 1, waiting |-> 0, base |-> t, last |-> t - 1]
  PROVE  /\ y \in Prtn(t) /\ Common(Program[s].part, y, sc, [dt |-> 0, at |-> 0])
         /\ During(y, 0, t) /\ During(y, 1, t + 1) /\ Latest(y) = t
<1>1. /\ y.state = s /\ y.next = 1 /\ y.waiting = 0 /\ y.base = t /\ y.last = t - 1
      /\ y \in Prtn(t)
  BY DEF Prtn
<1>2. Latest(y) = t
  BY <1>1, LastRight
<1>3. Slack(y) \in {0, 1}
  BY SlackRight
<1>4. Len(CmdsOf(y)) \in Nat \ {0}
  BY <1>1, CommandFacts DEF CmdsOf
<1>5. Common(Program[s].part, y, sc, [dt |-> 0, at |-> 0])
  BY <1>1, <1>3, <1>4 DEF Common
<1>6. During(y, 0, t)
  BY <1>1, <1>2, <1>3 DEF During
<1>7. During(y, 1, t + 1)
  BY <1>1, <1>2, <1>3 DEF During
<1> QED
  BY <1>1, <1>2, <1>5, <1>6, <1>7

\* next_cmd stays at a hold, which waits for the time that is left.
TimeLeft(x) ==
  IF Here(x).timeout > 0 THEN Here(x).timeout + Here(x).dt + x.base - Latest(x)
  ELSE Here(x).timeout
Held(x)  == [x EXCEPT !.waiting = TimeLeft(x)]
DueAt(x) == x.base + Here(x).dt

LEMMA HoldBegins ==
  ASSUME NEW t \in Nat, NEW x \in Prtn(t), NEW p, NEW sc \in Int, NEW st \in Sent,
         NEW r \in Nat, Common(p, x, sc, st), During(x, r, t), x.waiting = 0, x.next # 0,
         Here(x).k = "hold", Here(x).dt <= t - x.base, NEW hd
  PROVE  /\ Held(x) \in Prtn(t) /\ Common(p, Held(x), DueAt(x), st)
         /\ During(Held(x), r, t) /\ Settled(Held(x), DueAt(x), t, hd)
<1>0. PICK y, w, sd : y = Held(x) /\ w = TimeLeft(x) /\ sd = DueAt(x)
  OBVIOUS
<1>0a. y = [x EXCEPT !.waiting = w] /\ sd = x.base + Here(x).dt
  BY <1>0 DEF Held, DueAt
<1>1. /\ Here(x) \in Command /\ Here(x).dt \in Nat /\ Here(x).timeout \in Int
      /\ Here(x).timeout # 0
  BY HereRight
<1>2. x.base \in 0..t /\ Latest(x) \in 0..t /\ x.last \in -1..t
  BY LastRight
<1>3. PICK d \in Nat, o \in Int, b \in Nat, l \in Nat :
        d = Here(x).dt /\ o = Here(x).timeout /\ b = x.base /\ l = Latest(x)
  BY <1>1, <1>2
<1>4. t - b <= d \/ t - b <= 1
  BY <1>3 DEF During
<1>5. l >= t - 1 /\ l <= t /\ b <= t /\ d <= t - b /\ o # 0
  BY <1>1, <1>2, <1>3 DEF During
<1>6. w = IF o > 0 THEN o + d + b - l ELSE o
  BY <1>0, <1>3 DEF TimeLeft
<1>6a. b + d - l >= 0
  <2>1. CASE t - b <= d
    BY <1>3, <1>5, <2>1
  <2>2. CASE t - b <= 1 /\ b = t
    BY <1>3, <1>5, <2>2
  <2>3. CASE t - b = 1
    <3>1. x.last < t /\ l = IF x.last >= b THEN x.last ELSE b
      BY <1>3, LastRight DEF During
    <3>2. l <= t - 1
      BY <1>2, <1>3, <2>3, <3>1
    <3> QED
      BY <1>3, <2>3, <3>2
  <2> QED
    BY <1>3, <1>4, <1>5, <2>1, <2>2, <2>3
<1>7. w \in Int /\ w # 0 /\ (w > 0 => o > 0) /\ sd \in Int /\ sd = b + d
  BY <1>0a, <1>3, <1>5, <1>6, <1>6a
<1>8. /\ y.state = x.state /\ y.next = x.next /\ y.waiting = w /\ y.base = x.base
      /\ y.last = x.last /\ y \in Prtn(t)
  BY <1>0a, <1>7 DEF Prtn
<1>9. CmdsOf(y) = CmdsOf(x) /\ Slack(y) = Slack(x) /\ Latest(y) = Latest(x) /\ Here(y) = Here(x)
  BY <1>8 DEF CmdsOf, Slack, Latest, Here
<1>10. w > 0 => w = o + sd - l
  BY <1>3, <1>6, <1>7
<1>11. Common(p, y, sd, st)
  BY <1>3, <1>8, <1>9, <1>10 DEF Common
<1>12. During(y, r, t)
  BY <1>8, <1>9 DEF During
<1>13. w > 0 => t - sd < o \/ (d = 0 /\ o = 1)
  BY <1>3, <1>4, <1>5, <1>7
<1>14. Settled(y, sd, t, hd)
  BY <1>3, <1>7, <1>8, <1>9, <1>13 DEF Settled, NeverTimesOut
<1> QED
  BY <1>0, <1>8, <1>11, <1>12, <1>14

\* The end of the second for a partition whose clock is set back.
SetBackTo(x, t) ==
  LET dt == t - Latest(x) IN
  [state |-> x.state, next |-> x.next,
   waiting |-> IF x.waiting > dt THEN x.waiting - dt ELSE Min({x.waiting, 0}),
   base |-> x.base + dt, last |-> t]

LEMMA SetBack ==
  ASSUME NEW t \in Nat, NEW x \in Prtn(t), NEW p, NEW sc \in Int, NEW st \in Sent,
         NEW r \in Nat, NEW hd \in BOOLEAN, Common(p, x, sc, st), During(x, r, t),
         Settled(x, sc, t, hd), hd => x.base < t, x.waiting # 0 \/ hd
  PROVE  /\ SetBackTo(x, t) \in Prtn(t) /\ Common(p, SetBackTo(x, t), sc, st)
         /\ During(SetBackTo(x, t), r, t + 1) /\ Latest(SetBackTo(x, t)) = t
         /\ Done(SetBackTo(x, t), t, hd)
<1>0. PICK dt, w, y :
        /\ dt = t - Latest(x) /\ y = SetBackTo(x, t)
        /\ w = (IF x.waiting > dt THEN x.waiting - dt ELSE Min({x.waiting, 0}))
        /\ y = [state |-> x.state, next |-> x.next, waiting |-> w, base |-> x.base + dt,
                last |-> t]
  BY DEF SetBackTo
<1>1. /\ x.base \in 0..t /\ x.last \in -1..t /\ x.waiting \in Int /\ x.next \in Nat
      /\ Latest(x) = (IF x.last >= x.base THEN x.last ELSE x.base) /\ Latest(x) \in 0..t
  BY LastRight
<1>2. PICK b \in Nat, l \in Nat, v \in Int, a \in Int :
        b = x.base /\ l = Latest(x) /\ v = x.waiting /\ a = x.last
  BY <1>1
<1>3. /\ b <= t /\ a < t /\ l = (IF a >= b THEN a ELSE b) /\ l >= t - 1 /\ l <= t
      /\ dt = t - l /\ dt \in {0, 1} /\ dt \in Nat
  <2>1. b <= t /\ a < t /\ l = (IF a >= b THEN a ELSE b) /\ l >= t - 1 /\ l <= t
    BY <1>1, <1>2 DEF During
  <2>2. dt = t - l
    BY <1>0, <1>2
  <2> QED
    BY <2>1, <2>2
<1>4. w = IF v > dt THEN v - dt ELSE IF v <= 0 THEN v ELSE 0
  BY <1>0, <1>1, <1>2, <1>3, Smallest
<1>5. w \in Int /\ (w # 0 => v # 0) /\ (w > 0 => v > 0 /\ w = v - dt) /\ (v < 0 => w = v)
  BY <1>2, <1>3, <1>4
<1>6. b + dt \in 0..t /\ b + dt = t - (l - b) /\ l - b >= 0
  BY <1>2, <1>3
<1>7. /\ y.state = x.state /\ y.next = x.next /\ y.waiting = w /\ y.base = b + dt
      /\ y.last = t /\ y \in Prtn(t)
  <2>1. x.state \in DOMAIN Program /\ x.next \in Nat
    BY DEF Prtn
  <2>2. b + dt \in 0..t /\ t \in -1..t /\ w \in Int /\ b = x.base
    BY <1>2, <1>5, <1>6
  <2> QED
    BY <1>0, <2>1, <2>2 DEF Prtn
<1>8. CmdsOf(y) = CmdsOf(x) /\ Slack(y) = Slack(x) /\ Here(y) = Here(x)
  BY <1>7 DEF CmdsOf, Slack, Here
<1>9. Latest(y) = t
  <2>1. Latest(y) = IF y.last >= y.base THEN y.last ELSE y.base
    BY <1>7, LastRight
  <2> QED
    BY <1>6, <1>7, <2>1
<1>10. Common(p, y, sc, st)
  <2>1. w > 0 => v = Here(x).timeout + sc - l
    BY <1>2, <1>5 DEF Common
  <2>2. ASSUME w > 0 PROVE w = Here(y).timeout + sc - Latest(y)
    <3>1. x.next # 0 /\ Here(x).k = "hold"
      BY <1>2, <1>5, <2>2 DEF Common
    <3>2. PICK o \in Int : o = Here(x).timeout
      BY <3>1, HereRight
    <3> QED
      BY <1>2, <1>3, <1>5, <1>8, <1>9, <2>1, <2>2, <3>2
  <2>3. w # 0 => y.next # 0 /\ Here(y).k = "hold"
    BY <1>2, <1>5, <1>7, <1>8 DEF Common
  <2> QED
    BY <1>7, <1>8, <2>2, <2>3 DEF Common
<1>11. \/ b = t /\ l = t /\ dt = 0
       \/ b < t /\ l = t - 1 /\ dt = 1
  BY <1>2, <1>3
<1>12. During(y, r, t + 1)
  <2>1. y.last < t + 1 /\ y.base <= t + 1 /\ Latest(y) >= (t + 1) - 1
    BY <1>6, <1>7, <1>9
  <2>2. (t + 1) - y.base <= t - b \/ (t + 1) - y.base <= 1
    BY <1>2, <1>7, <1>11
  <2>3. y.next # 0 /\ Here(y).k # "end" =>
          (t + 1) - y.base <= Here(y).dt \/ (t + 1) - y.base <= 1
    <3>1. SUFFICES ASSUME x.next # 0, Here(x).k # "end"
                   PROVE  (t + 1) - y.base <= Here(x).dt \/ (t + 1) - y.base <= 1
      BY <1>7, <1>8
    <3>2. PICK d \in Int : d = Here(x).dt
      BY <3>1, HereRight
    <3>3. t - b <= d \/ t - b <= 1
      BY <1>2, <3>1, <3>2 DEF During
    <3> QED
      BY <1>2, <1>7, <1>6, <2>2, <3>2, <3>3
  <2>4. w # 0 => Here(y).dt <= (t + 1) - y.base
    <3>1. SUFFICES ASSUME w # 0 PROVE Here(x).dt <= (t + 1) - y.base
      BY <1>8
    <3>2. x.next # 0
      BY <1>2, <1>5, <3>1 DEF Common
    <3>3. PICK d \in Int : d = Here(x).dt
      BY <3>2, HereRight
    <3>4. d <= t - b
      BY <1>2, <1>5, <3>1, <3>3 DEF During
    <3>5. PICK k \in Int : k = y.base /\ k = b + dt
      BY <1>2, <1>3, <1>7
    <3>6. d <= (t + 1) - k
      BY <1>2, <1>3, <3>3, <3>4, <3>5
    <3> QED
      BY <3>3, <3>5, <3>6
  <2>5. r + Slack(y) >= (t + 1) - y.base
    <3>1. Slack(x) \in {0, 1} /\ r + Slack(x) >= t - b
      BY <1>2, SlackRight DEF During
    <3>2. CASE dt = 1
      BY <1>2, <1>7, <1>8, <1>11, <3>1, <3>2
    <3>3. CASE dt = 0
      <4>1. b = t /\ ~hd /\ x.waiting # 0
        <5>1. b = t
          BY <1>3, <1>11, <3>3
        <5>2. ~(x.base < t)
          BY <1>2, <5>1
        <5>3. ~hd
          BY <5>2, Zenon
        <5> QED
          BY <5>1, <5>3, Zenon
      <4>2. x.next # 0 /\ Here(x).k = "hold"
        BY <4>1 DEF Common
      <4>3. Here(x).dt = 0 /\ x.next \in 1..Len(CmdsOf(x))
        <5>1. Here(x).dt \in Nat /\ x.next \in 1..Len(CmdsOf(x))
          BY <4>2, HereRight
        <5>2. Here(x).dt <= t - b
          BY <1>2, <4>1 DEF During
        <5> QED
          BY <1>2, <4>1, <5>1, <5>2
      <4>4. Slack(x) = 1
        BY <4>2, <4>3 DEF Slack, Here
      <4> QED
        BY <1>2, <1>7, <1>8, <3>3, <4>1, <4>4
    <3> QED
      BY <1>3, <3>2, <3>3
  <2> QED
    BY <1>7, <2>1, <2>3, <2>4, <2>5 DEF During
<1>13. Done(y, t, hd)
  <2>1. SUFFICES ASSUME x.next # 0, ~hd, w = 0
                 PROVE  NeverTimesOut(Here(x))
    BY <1>7, <1>8 DEF Done
  <2>2. v > 0 /\ v <= dt
    BY <1>2, <1>3, <1>4, <2>1
  <2>3. Here(x).k = "hold"
    BY <1>2, <2>2 DEF Common
  <2>4. PICK o \in Int : o = Here(x).timeout
    BY <2>1, <2>3, HereRight
  <2>5. v = o + sc - l
    BY <1>2, <2>2, <2>4 DEF Common
  <2>6. t - sc < o \/ NeverTimesOut(Here(x))
    BY <1>2, <2>2, <2>4 DEF Settled
  <2>7. ~(t - sc < o)
    BY <1>2, <1>3, <2>2, <2>4, <2>5
  <2> QED
    BY <2>6, <2>7
<1> QED
  BY <1>0, <1>7, <1>9, <1>10, <1>12, <1>13

\* The end of the second for a partition that is not held.
Counted(x, t) == [x EXCEPT !.last = t]

LEMMA GoesOn ==
  ASSUME NEW t \in Nat, NEW x \in Prtn(t), NEW p, NEW sc \in Int, NEW st \in Sent,
         NEW r \in Nat, Common(p, x, sc, st), During(x, r, t),
         Settled(x, sc, t, FALSE), x.waiting = 0
  PROVE  /\ Counted(x, t) \in Prtn(t) /\ Common(p, Counted(x, t), sc, st)
         /\ During(Counted(x, t), r + 1, t + 1) /\ Latest(Counted(x, t)) = t
         /\ Done(Counted(x, t), t, FALSE)
<1>0. PICK y : y = Counted(x, t) /\ y = [x EXCEPT !.last = t]
  BY DEF Counted
<1>1. x.base \in 0..t /\ x.last \in -1..t
  BY LastRight
<1>2. /\ y.state = x.state /\ y.next = x.next /\ y.waiting = 0 /\ y.base = x.base
      /\ y.last = t /\ y \in Prtn(t)
  BY <1>0 DEF Prtn
<1>3. CmdsOf(y) = CmdsOf(x) /\ Slack(y) = Slack(x) /\ Here(y) = Here(x)
  BY <1>2 DEF CmdsOf, Slack, Here
<1>4. Latest(y) = t
  <2>1. Latest(y) = IF y.last >= y.base THEN y.last ELSE y.base
    BY <1>2, LastRight
  <2> QED
    BY <1>1, <1>2, <2>1
<1>5. Common(p, y, sc, st)
  BY <1>2, <1>3 DEF Common
<1>6. x.next # 0 => Here(x).dt \in Int /\ Here(x).dt > t - x.base
  BY HereRight DEF Settled
<1>7. During(y, r + 1, t + 1)
  <2>1. (r + 1) + Slack(y) >= (t + 1) - y.base
    <3>1. Slack(x) \in {0, 1} /\ r + Slack(x) >= t - x.base
      BY SlackRight DEF During
    <3> QED
      BY <1>1, <1>2, <1>3, <3>1
  <2>2. y.next # 0 => (t + 1) - y.base <= Here(y).dt
    BY <1>1, <1>2, <1>3, <1>6
  <2> QED
    BY <1>1, <1>2, <1>4, <2>1, <2>2 DEF During
<1> QED
  BY <1>0, <1>2, <1>3, <1>4, <1>5, <1>6, <1>7 DEF Done

-----------------------------------------------------------------------------
(* The table of partitions.                                                *)

\* A partition that a step leaves alone.
LEMMA Rests ==
  ASSUME NEW p \in Parts, PartInv(p), prt'[p] = prt[p], run'[p] = run[p],
         since'[p] = since[p], sent'[p] = sent[p], now' = now, holding' = holding,
         InSecond, InSecond', Passed(p)' => Passed(p)
  PROVE  PartInv(p)'
<1>1. phase' # "done"
  BY DEF InSecond
<1> QED
  BY <1>1 DEF PartInv

\* A partition whose commands were taken.
LEMMA Acts ==
  ASSUME NEW p, InSecond', Common(p, prt'[p], since'[p], sent'[p]),
         During(prt'[p], run'[p], now'), holding' => prt'[p].base < now',
         Passed(p)' => Settled(prt'[p], since'[p], now', holding')
  PROVE  PartInv(p)'
<1>1. phase' # "done"
  BY DEF InSecond
<1> QED
  BY <1>1 DEF PartInv

\* The loop goes on to the next partition.
LEMMA OnToNext ==
  ASSUME Types, NextPartition, phase \in {"enter", "run"}
  PROVE  /\ InSecond' /\ at' \in Parts /\ phase' \in {"enter", "end"}
         /\ \A p \in Parts : Passed(p)' => p = at \/ Passed(p)
<1>1. N \in Nat \ {0} /\ at \in 1..N
  BY Sizes DEF Types, Parts
<1>2. CASE at = N
  BY <1>1, <1>2 DEF NextPartition, InSecond, Passed, Parts
<1>3. CASE at # N
  BY <1>1, <1>3 DEF NextPartition, InSecond, Passed, Parts
<1> QED
  BY <1>2, <1>3

\* The loop begins again.
LEMMA FromTheFirst ==
  ASSUME CallAgain
  PROVE  InSecond' /\ at' \in Parts /\ phase' = "enter" /\ \A p \in Parts : ~Passed(p)'
BY Sizes DEF CallAgain, InSecond, Passed, Parts

\* The command of the partition whose commands are taken.
LEMMA Current ==
  ASSUME IInv, phase = "run"
  PROVE  /\ at \in Parts /\ prt[at] \in Prtn(now) /\ prt[at].waiting = 0
         /\ prt[at].next # 0 /\ ~holding /\ InSecond /\ PartInv(at) /\ now \in Nat
         /\ since[at] \in Int /\ sent[at] \in Sent /\ run[at] \in Nat
         /\ Common(at, prt[at], since[at], sent[at]) /\ During(prt[at], run[at], now)
         /\ Cmd(at) = Here(prt[at]) /\ Elapsed(at) = now - prt[at].base
<1>1. at \in Parts /\ Types /\ Turn /\ PartInv(at) /\ InSecond
  BY DEF IInv, Types, InSecond
<1>2. now \in Nat
  BY <1>1, Sizes DEF Types
<1> QED
  BY <1>1, <1>2 DEF Types, Turn, PartInv, Cmd, Cmds, Here, CmdsOf, Elapsed

\* The next command of a partition's record.
Stepped(x) == Moved(x, x.next + 1)

LEMMA AdvancedRight ==
  ASSUME IInv, phase = "run", Cmd(at).k # "end"
  PROVE  /\ Advanced = [prt EXCEPT ![at] = Stepped(prt[at])]
         /\ Stepped(prt[at]) \in Prtn(now)
         /\ Common(at, Stepped(prt[at]), since[at], sent[at])
         /\ During(Stepped(prt[at]), run[at], now)
         /\ Stepped(prt[at]).waiting = 0 /\ Stepped(prt[at]).next # 0
<1> DEFINE x == prt[at]
<1>1. /\ at \in Parts /\ x \in Prtn(now) /\ x.waiting = 0 /\ x.next # 0 /\ now \in Nat
      /\ since[at] \in Int /\ sent[at] \in Sent /\ run[at] \in Nat
      /\ Common(at, x, since[at], sent[at]) /\ During(x, run[at], now)
      /\ Here(x).k # "end"
  BY Current
<1> HIDE DEF x
<1>2. /\ x.next \in 1..Len(CmdsOf(x)) /\ Len(CmdsOf(x)) \in Nat
      /\ x.next # Len(CmdsOf(x))
  BY <1>1, HereRight
<1>3. x.next + 1 \in x.next..Len(CmdsOf(x)) /\ x.next + 1 # 0
  BY <1>2
<1>4. /\ Stepped(x) \in Prtn(now) /\ Common(at, Stepped(x), since[at], sent[at])
      /\ During(Stepped(x), run[at], now)
  BY <1>1, <1>3, Moves DEF Stepped
<1>5. [x EXCEPT !.next = @ + 1] = Stepped(x)
  BY <1>1 DEF Stepped, Moved, Prtn
<1>6. Advanced = [prt EXCEPT ![at] = Stepped(x)]
  BY <1>5 DEF Advanced, x
<1> QED
  BY <1>3, <1>4, <1>6 DEF Stepped, Moved, x

\* tma_succeed, of a partition's record.
Succeeded(x, ok) ==
  IF x.next # 0 /\ Here(x).k = "hold" /\ ok THEN Moved(x, x.next + Here(x).success) ELSE x

LEMMA SucceedIs ==
  ASSUME NEW t \in Nat, NEW T \in Table(t), NEW q \in Parts, NEW ok \in BOOLEAN
  PROVE  Succeed(T, q, ok) = [T EXCEPT ![q] = Succeeded(T[q], ok)]
<1> DEFINE x == T[q]
           c == Here(x)
           Meant == x.next # 0 /\ c.k = "hold" /\ ok
           y == Moved(x, x.next + c.success)
<1>1. x \in Prtn(t) /\ T \in [Parts -> Prtn(t)]
  BY DEF Table
<1>2. /\ Succeed(T, q, ok)
            = IF Meant THEN [T EXCEPT ![q].waiting = 0, ![q].next = @ + c.success] ELSE T
      /\ Succeeded(x, ok) = IF Meant THEN y ELSE x
  BY DEF Succeed, Succeeded, Here, CmdsOf
<1>3. CASE ~Meant
  <2>1. T = [T EXCEPT ![q] = x]
    BY <1>1
  <2> QED
    BY <1>2, <1>3, <2>1
<1>4. CASE Meant
  <2>1. [x EXCEPT !.waiting = 0, !.next = @ + c.success] = y
    <3>1. PICK m : m = x.next + c.success
      OBVIOUS
    <3>2. PICK a, b, d, e, f :
            x = [state |-> a, next |-> b, waiting |-> d, base |-> e, last |-> f]
      BY <1>1 DEF Prtn
    <3>3. PICK z : z = [x EXCEPT !.waiting = 0]
      OBVIOUS
    <3>4. /\ z = [state |-> a, next |-> b, waiting |-> 0, base |-> e, last |-> f]
          /\ Moved(x, m)
               = [state |-> a, next |-> m, waiting |-> 0, base |-> e, last |-> f]
      BY <3>2, <3>3 DEF Moved
    <3>5. [z EXCEPT !.next = m] = Moved(x, m)
      <4> HIDE DEF x
      <4> QED
        BY <3>4
    <3> HIDE DEF c, x
    <3> QED
      BY <3>1, <3>3, <3>5
  <2>2. [T EXCEPT ![q].waiting = 0, ![q].next = @ + c.success]
          = [T EXCEPT ![q] = [x EXCEPT !.waiting = 0, !.next = @ + c.success]]
    BY <1>1
  <2> HIDE DEF y, c, x
  <2> QED
    BY <1>2, <1>4, <2>1, <2>2 DEF x
<1> QED
  BY <1>3, <1>4

LEMMA SucceedRight ==
  ASSUME NEW t \in Nat, NEW u \in Nat, NEW x \in Prtn(t), NEW q, NEW sc \in Int,
         NEW st \in Sent, NEW r \in Nat, NEW ok \in BOOLEAN, Common(q, x, sc, st),
         During(x, r, u)
  PROVE  /\ Succeeded(x, ok) \in Prtn(t) /\ Common(q, Succeeded(x, ok), sc, st)
         /\ During(Succeeded(x, ok), r, u) /\ Succeeded(x, ok).base = x.base
         /\ Latest(Succeeded(x, ok)) = Latest(x)
         /\ \/ Succeeded(x, ok) = x
            \/ Succeeded(x, ok).waiting = 0 /\ Succeeded(x, ok).next # 0
<1>1. PICK y : y = Succeeded(x, ok)
  OBVIOUS
<1>2. CASE x.next # 0 /\ Here(x).k = "hold" /\ ok
  <2>1. y = Moved(x, x.next + Here(x).success)
    BY <1>1, <1>2 DEF Succeeded
  <2>2. /\ x.next \in 1..Len(CmdsOf(x)) /\ Len(CmdsOf(x)) \in Nat
        /\ Here(x).success \in Nat \ {0} /\ x.next + Here(x).success <= Len(CmdsOf(x))
    BY <1>2, HereRight
  <2>3. PICK m \in Nat : m = x.next + Here(x).success
    BY <2>2
  <2>4. m \in x.next..Len(CmdsOf(x)) /\ m # 0 /\ y = Moved(x, m)
    BY <2>1, <2>2, <2>3
  <2>5. y \in Prtn(t) /\ Common(q, y, sc, st) /\ During(y, r, u) /\ Latest(y) = Latest(x)
    BY <1>2, <2>4, Moves
  <2>6. y.waiting = 0 /\ y.next # 0 /\ y.base = x.base
    BY <2>4 DEF Moved
  <2> QED
    BY <1>1, <2>5, <2>6
<1>3. CASE ~(x.next # 0 /\ Here(x).k = "hold" /\ ok)
  <2>1. y = x
    BY <1>1, <1>3 DEF Succeeded
  <2> QED
    BY <1>1, <2>1
<1> QED
  BY <1>2, <1>3

-----------------------------------------------------------------------------
(* The steps of a second.                                                  *)

\* Only the partition whose turn it is changes, and keeps its state.
LEMMA OneChanges ==
  ASSUME IInv, InSecond, NEW a, a = at, NEW y \in Prtn(now), prt' = [prt EXCEPT ![a] = y],
         now' = now, holding' = holding, events' = events, run' = run, held' = held,
         until' \in [Parts -> BOOLEAN], at' \in Parts, phase' \in {"enter", "run", "end"},
         since' \in [Parts -> Int], sent' \in [Parts -> Sent],
         \A p \in Parts \ {a} : since'[p] = since[p] /\ sent'[p] = sent[p],
         Common(a, y, since'[a], sent'[a]), During(y, run[a], now), y.base = prt[a].base,
         Passed(a)' => Settled(y, since'[a], now, holding),
         \A p \in Parts \ {a} : Passed(p)' => Passed(p),
         phase' = "run" => at' = a /\ y.waiting = 0 /\ y.next # 0 /\ ~holding
  PROVE  IInv'
<1>1. Types /\ Turn /\ a \in Parts /\ \A p \in Parts : PartInv(p)
  BY DEF IInv, Types
<1>2. prt \in [Parts -> Prtn(now)] /\ prt' \in [Parts -> Prtn(now)]
  BY <1>1 DEF Types
<1>3. Types'
  BY <1>1, <1>2 DEF Types
<1>4. prt'[a] = y /\ \A p \in Parts \ {a} : prt'[p] = prt[p]
  BY <1>1, <1>2
<1>5. InSecond'
  BY DEF InSecond
<1>6. Turn'
  <2>1. now > 0 /\ now \in Nat
    BY <1>1, Sizes DEF Turn, Types
  <2>2. phase' = "run" => prt'[at'].waiting = 0 /\ prt'[at'].next # 0 /\ ~holding'
    BY <1>4
  <2>3. now' # 0 /\ now' > 0
    BY <2>1
  <2> QED
    BY <2>2, <2>3 DEF Turn
<1>7. ASSUME NEW p \in Parts PROVE PartInv(p)'
  <2>1. CASE p = a
    <3>1. holding => y.base < now
      BY <1>1 DEF PartInv
    <3>2. Common(p, prt'[p], since'[p], sent'[p]) /\ During(prt'[p], run'[p], now')
      BY <1>4, <2>1
    <3>3. holding' => prt'[p].base < now'
      BY <1>4, <2>1, <3>1
    <3>4. Passed(p)' => Settled(prt'[p], since'[p], now', holding')
      BY <1>4, <2>1, Zenon
    <3> QED
      BY <1>5, <3>2, <3>3, <3>4, Acts
  <2>2. CASE p # a
    BY <1>1, <1>4, <1>5, <2>2, Rests
  <2> QED
    BY <2>1, <2>2
<1> QED
  BY <1>3, <1>6, <1>7 DEF IInv

\* A time-out that has passed moves a partition on; one that waits, has ended
\* or finds the clocks stopped is passed over.
LEMMA EnterKeeps == ASSUME IInv, Enter PROVE IInv'
<1>0. PICK a \in Parts : a = at
  BY DEF IInv, Types
<1> DEFINE x == prt[a]
           y == prt'[a]
<1>1. /\ a = at /\ a \in Parts /\ Types /\ Turn /\ PartInv(a) /\ InSecond /\ phase = "enter"
      /\ x \in Prtn(now) /\ since[a] \in Int /\ sent[a] \in Sent /\ run[a] \in Nat
      /\ now \in Nat /\ prt \in [Parts -> Prtn(now)] /\ holding \in BOOLEAN
  BY <1>0, Sizes DEF IInv, Types, Enter, InSecond
<1>2. Common(a, x, since[a], sent[a]) /\ During(x, run[a], now)
  BY <1>1 DEF PartInv
<1>3. now # prt[a].last /\ LastCheck(a) = Latest(x) /\ Latest(x) \in 0..now /\ x.waiting \in Int
  <2>1. x.last < now /\ x.last \in Int /\ Latest(x) \in 0..now /\ x.waiting \in Int
    BY <1>1, <1>2, LastRight DEF During
  <2> QED
    BY <2>1 DEF LastCheck, Latest
<1>4. /\ prt' = [prt EXCEPT ![a] = y] /\ y \in Prtn(now) /\ y.base = x.base
      /\ Common(a, y, since[a], sent[a]) /\ During(y, run[a], now)
      /\ y.waiting # 0 => y = x /\ ~Expired(a)
  <2>1. CASE Expired(a)
    <3>1. prt' = [prt EXCEPT ![a].waiting = 0, ![a].next = @ + 1]
      BY <1>0, <1>3, <2>1 DEF Enter
    <3>2. x.waiting # 0 /\ x.next # 0 /\ Here(x).k = "hold"
      BY <1>2, <2>1 DEF Expired, Common
    <3>3. x.next + 1 \in x.next..Len(CmdsOf(x))
      <4>1. x.next \in 1..Len(CmdsOf(x)) /\ Len(CmdsOf(x)) \in Nat /\ x.next # Len(CmdsOf(x))
        BY <1>1, <1>2, <3>2, HereRight
      <4> QED
        BY <4>1
    <3>4. prt' = [prt EXCEPT ![a] = Stepped(x)]
      <4>1. PICK m : m = x.next + 1
        OBVIOUS
      <4>2. PICK s, b, d, e, f :
              x = [state |-> s, next |-> b, waiting |-> d, base |-> e, last |-> f]
        BY <1>1 DEF Prtn
      <4>3. PICK z : z = [x EXCEPT !.waiting = 0]
        OBVIOUS
      <4>4. /\ z = [state |-> s, next |-> b, waiting |-> 0, base |-> e, last |-> f]
            /\ Moved(x, m)
                 = [state |-> s, next |-> m, waiting |-> 0, base |-> e, last |-> f]
        BY <4>2, <4>3 DEF Moved
      <4>5. [z EXCEPT !.next = m] = Moved(x, m)
        <5> HIDE DEF x
        <5> QED
          BY <4>4
      <4>6. [x EXCEPT !.waiting = 0, !.next = x.next + 1] = Stepped(x)
        <5> HIDE DEF x
        <5> QED
          BY <4>1, <4>3, <4>5 DEF Stepped
      <4>7. prt' = [prt EXCEPT ![a] = [x EXCEPT !.waiting = 0, !.next = x.next + 1]]
        BY <3>1
      <4> HIDE DEF x
      <4> QED
        BY <4>6, <4>7
    <3>5. /\ Stepped(x) \in Prtn(now) /\ Common(a, Stepped(x), since[a], sent[a])
          /\ During(Stepped(x), run[a], now)
      <4> HIDE DEF x
      <4> QED
        BY <1>1, <1>2, <3>2, <3>3, Moves DEF Stepped
    <3>6. Stepped(x).waiting = 0 /\ Stepped(x).base = x.base
      BY DEF Stepped, Moved
    <3>7. y = Stepped(x)
      <4> HIDE DEF x
      <4> QED
        BY <1>1, <3>4
    <3> HIDE DEF x, y
    <3> QED
      BY <3>4, <3>5, <3>6, <3>7
  <2>2. CASE ~Expired(a)
    <3>1. prt' = prt
      BY <1>0, <2>2 DEF Enter
    <3>2. y = x /\ prt' = [prt EXCEPT ![a] = y]
      BY <1>1, <3>1
    <3> QED
      BY <1>1, <1>2, <2>2, <3>2
  <2> QED
    BY <2>1, <2>2
<1>5. Settled(y, since[a], now, holding) \/ (y.waiting = 0 /\ ~holding /\ y.next # 0)
  <2>1. CASE y.waiting = 0
    BY <2>1 DEF Settled
  <2>2. CASE y.waiting # 0
    <3>1. y = x /\ ~Expired(a)
      BY <1>4, <2>2
    <3>2. ASSUME x.waiting > 0 PROVE now - since[a] < Here(x).timeout
      <4>1. now - Latest(x) < x.waiting
        BY <1>1, <1>3, <3>1, <3>2 DEF Expired
      <4>2. x.next # 0 /\ Here(x).k = "hold"
        BY <1>2, <3>2 DEF Common
      <4>3. PICK o \in Int : o = Here(x).timeout
        BY <1>1, <1>2, <4>2, HereRight
      <4>4. x.waiting = o + since[a] - Latest(x)
        BY <1>2, <3>2, <4>3 DEF Common
      <4> HIDE DEF x
      <4> QED
        BY <1>1, <1>3, <4>1, <4>3, <4>4
    <3> QED
      BY <2>2, <3>1, <3>2 DEF Settled
  <2> QED
    BY <2>1, <2>2
<1>6. /\ now' = now /\ holding' = holding /\ until' = until /\ events' = events
      /\ run' = run /\ held' = held /\ since' = since /\ sent' = sent
  BY DEF Enter, hist
<1>7. /\ until' \in [Parts -> BOOLEAN] /\ since' \in [Parts -> Int]
      /\ sent' \in [Parts -> Sent]
  BY <1>1, <1>6 DEF Types
<1>8. CASE y.waiting = 0 /\ ~holding /\ y.next # 0
  <2>1. phase' = "run" /\ at' = at
    BY <1>0, <1>3, <1>8 DEF Enter
  <2>2. \A p \in Parts : Passed(p)' => Passed(p) /\ p # a
    BY <1>1, <2>1 DEF Passed, Parts
  <2> HIDE DEF x, y
  <2> QED
    BY <1>1, <1>4, <1>6, <1>7, <1>8, <2>1, <2>2, OneChanges DEF x
<1>9. CASE ~(y.waiting = 0 /\ ~holding /\ y.next # 0)
  <2>1. NextPartition
    BY <1>0, <1>9 DEF Enter
  <2>2. /\ at' \in Parts /\ phase' \in {"enter", "end"}
        /\ \A p \in Parts : Passed(p)' => p = a \/ Passed(p)
    BY <1>1, <2>1, OnToNext
  <2>3. Settled(y, since[a], now, holding)
    BY <1>5, <1>9
  <2> HIDE DEF x, y
  <2> QED
    BY <1>1, <1>4, <1>6, <1>7, <2>2, <2>3, OneChanges DEF x
<1> QED
  BY <1>8, <1>9

\* The end of a state.
LEMMA EndOfStateKeeps == ASSUME IInv, EndOfState PROVE IInv'
<1>0. PICK a \in Parts : a = at
  BY DEF IInv, Types
<1> DEFINE x == prt[a]
<1>1. PICK y : y = [x EXCEPT !.next = 0]
  OBVIOUS
<1>2. /\ phase = "run" /\ NextPartition /\ prt' = [prt EXCEPT ![a] = y]
      /\ now' = now /\ holding' = holding /\ until' = until /\ events' = events
      /\ run' = run /\ held' = held /\ since' = since /\ sent' = sent
  BY <1>0, <1>1 DEF EndOfState, Step, hist
<1>3. /\ x \in Prtn(now) /\ x.waiting = 0 /\ InSecond /\ now \in Nat
      /\ since[a] \in Int /\ sent[a] \in Sent /\ run[a] \in Nat
      /\ Common(a, x, since[a], sent[a]) /\ During(x, run[a], now)
  BY <1>0, <1>2, Current
<1>4. /\ y \in Prtn(now) /\ Common(a, y, since[a], sent[a]) /\ During(y, run[a], now)
      /\ Settled(y, since[a], now, holding) /\ y.base = x.base
  <2>1. y.base = x.base
    BY <1>1, <1>3 DEF Prtn
  <2> HIDE DEF x
  <2> QED
    BY <1>1, <1>3, <2>1, Stops
<1>5. /\ at' \in Parts /\ phase' \in {"enter", "end"}
      /\ \A p \in Parts : Passed(p)' => p = a \/ Passed(p)
  BY <1>0, <1>2, OnToNext DEF IInv
<1>6. /\ until' \in [Parts -> BOOLEAN] /\ since' \in [Parts -> Int]
      /\ sent' \in [Parts -> Sent]
  BY <1>2 DEF IInv, Types
<1> HIDE DEF x
<1> QED
  BY <1>0, <1>2, <1>3, <1>4, <1>5, <1>6, OneChanges DEF x

\* The next command is not due.
LEMMA NotYetKeeps == ASSUME IInv, NotYet PROVE IInv'
<1>0. PICK a \in Parts : a = at
  BY DEF IInv, Types
<1> DEFINE x == prt[a]
<1>2. /\ phase = "run" /\ NextPartition /\ prt' = prt /\ Cmd(at).dt > Elapsed(at)
      /\ now' = now /\ holding' = holding /\ until' = until /\ events' = events
      /\ run' = run /\ held' = held /\ since' = since /\ sent' = sent
  BY DEF NotYet, hist
<1>3. /\ x \in Prtn(now) /\ x.waiting = 0 /\ InSecond /\ now \in Nat
      /\ since[a] \in Int /\ sent[a] \in Sent /\ run[a] \in Nat
      /\ Common(a, x, since[a], sent[a]) /\ During(x, run[a], now)
      /\ Here(x).dt > now - x.base
  BY <1>0, <1>2, Current
<1>4. Settled(x, since[a], now, holding)
  BY <1>3 DEF Settled
<1>5. /\ at' \in Parts /\ phase' \in {"enter", "end"}
      /\ \A p \in Parts : Passed(p)' => p = a \/ Passed(p)
  BY <1>0, <1>2, OnToNext DEF IInv
<1>6. /\ until' \in [Parts -> BOOLEAN] /\ since' \in [Parts -> Int]
      /\ sent' \in [Parts -> Sent] /\ prt' = [prt EXCEPT ![a] = x]
  BY <1>2 DEF IInv, Types
<1> HIDE DEF x
<1> QED
  BY <1>0, <1>2, <1>3, <1>4, <1>5, <1>6, OneChanges DEF x

\* A command is sent when its state has run long enough.
LEMMA SendKeeps == ASSUME IInv, Send PROVE IInv'
<1>0. PICK a \in Parts : a = at
  BY DEF IInv, Types
<1> DEFINE x == prt[a]
           y == Stepped(x)
           st == [dt |-> Cmd(a).dt, at |-> run[a]]
<1>1. /\ Cmd(a) = Here(x) /\ phase = "run" /\ Cmd(a).k = "send"
      /\ Cmd(a).dt <= Elapsed(a) /\ prt' = Advanced /\ sent' = [sent EXCEPT ![a] = st]
      /\ now' = now /\ holding' = holding /\ until' = until /\ events' = events
      /\ run' = run /\ held' = held /\ since' = since /\ phase' = phase /\ at' = at
  BY <1>0, Current DEF Send, Step
<1>2. /\ x \in Prtn(now) /\ InSecond /\ now \in Nat /\ x.next # 0 /\ ~holding
      /\ since[a] \in Int /\ sent[a] \in Sent /\ run[a] \in Nat
      /\ Common(a, x, since[a], sent[a]) /\ During(x, run[a], now)
      /\ Elapsed(a) = now - x.base
  BY <1>0, <1>1, Current
<1>3. /\ prt' = [prt EXCEPT ![a] = y] /\ y \in Prtn(now) /\ y.waiting = 0 /\ y.next # 0
      /\ Common(a, y, since[a], sent[a]) /\ During(y, run[a], now)
  BY <1>0, <1>1, AdvancedRight
<1>4. y.base = x.base /\ Slack(y) = Slack(x)
  BY DEF Stepped, Moved, Slack, CmdsOf
<1>5. st \in Sent /\ st.dt = Here(x).dt /\ st.at = run[a]
  <2>1. Here(x).dt \in Int
    <3> HIDE DEF x
    <3> QED
      BY <1>2, HereRight
  <2> QED
    BY <1>1, <1>2, <2>1 DEF Sent
<1>6. st.at + Slack(y) >= st.dt
  <2>1. PICK d \in Int : d = Here(x).dt
    BY <1>5 DEF Sent
  <2>2. Slack(x) \in {0, 1} /\ x.base \in Int
    <3> HIDE DEF x
    <3> QED
      BY <1>2, SlackRight, LastRight
  <2>3. run[a] + Slack(x) >= now - x.base /\ d <= now - x.base
    BY <1>1, <1>2, <2>1 DEF During
  <2> HIDE DEF x, y, st
  <2> QED
    BY <1>2, <1>4, <1>5, <2>1, <2>2, <2>3
<1>7. Common(a, y, since[a], st)
  <2> HIDE DEF x, y, st
  <2> QED
    BY <1>3, <1>6 DEF Common
<1>8. /\ until' \in [Parts -> BOOLEAN] /\ since' \in [Parts -> Int]
      /\ sent' \in [Parts -> Sent] /\ sent'[a] = st
      /\ \A p \in Parts \ {a} : sent'[p] = sent[p]
  BY <1>1, <1>5 DEF IInv, Types
<1>9. \A p \in Parts : Passed(p)' => Passed(p) /\ p # a
  BY <1>0, <1>1 DEF Passed, Parts
<1> HIDE DEF x, y, st
<1> QED
  BY <1>0, <1>1, <1>2, <1>3, <1>4, <1>7, <1>8, <1>9, OneChanges DEF x

\* The idle substate: the loop begins again.
LEMMA IdleKeeps == ASSUME IInv, Idle PROVE IInv'
<1>0. PICK a \in Parts : a = at
  BY DEF IInv, Types
<1> DEFINE x == prt[a]
           y == Stepped(x)
<1>1. /\ phase = "run" /\ Cmd(a).k = "idle" /\ prt' = Advanced /\ CallAgain
      /\ until' = [until EXCEPT ![a] = FALSE]
      /\ now' = now /\ holding' = holding /\ events' = events
      /\ run' = run /\ held' = held /\ since' = since /\ sent' = sent
  BY <1>0 DEF Idle, Step, hist
<1>2. /\ prt' = [prt EXCEPT ![a] = y] /\ y \in Prtn(now)
      /\ Common(a, y, since[a], sent[a]) /\ During(y, run[a], now)
  BY <1>0, <1>1, AdvancedRight
<1>3. y.base = x.base
  BY DEF Stepped, Moved
<1>4. /\ until' \in [Parts -> BOOLEAN] /\ since' \in [Parts -> Int]
      /\ sent' \in [Parts -> Sent] /\ InSecond
  BY <1>1, Current DEF IInv, Types
<1>5. at' \in Parts /\ phase' = "enter" /\ \A p \in Parts : ~Passed(p)'
  BY <1>1, FromTheFirst
<1> HIDE DEF x, y
<1> QED
  BY <1>0, <1>1, <1>2, <1>3, <1>4, <1>5, OneChanges DEF x

\* The record of a partition that holds.
LEMMA WaitsRight ==
  ASSUME IInv, phase = "run", NEW a, a = at, Cmd(a).k = "hold", Cmd(a).dt <= Elapsed(a),
         NEW y, y = [prt[a] EXCEPT !.waiting = Timeout(Cmd(a))],
         NEW sd, sd = prt[a].base + Cmd(a).dt
  PROVE  /\ Waits = [prt EXCEPT ![a] = y] /\ y \in Prtn(now) /\ sd \in Int
         /\ Common(a, y, sd, sent[a]) /\ During(y, run[a], now)
         /\ Settled(y, sd, now, holding) /\ y.base = prt[a].base
<1> DEFINE x == prt[a]
<1>1. /\ x \in Prtn(now) /\ x.waiting = 0 /\ x.next # 0 /\ now \in Nat
      /\ since[a] \in Int /\ sent[a] \in Sent /\ run[a] \in Nat
      /\ Common(a, x, since[a], sent[a]) /\ During(x, run[a], now)
      /\ Cmd(a) = Here(x) /\ Elapsed(a) = now - x.base
  BY Current
<1>2. LastCheck(a) = Latest(x)
  BY DEF LastCheck, Latest
<1>3. Timeout(Cmd(a)) = TimeLeft(x)
  BY <1>1, <1>2 DEF Timeout, TimeLeft
<1>4. Waits = [prt EXCEPT ![a] = y]
  BY DEF Waits
<1>5. y.base = x.base
  BY <1>1 DEF Prtn
<1>7. y = Held(x) /\ sd = DueAt(x)
  BY <1>1, <1>3 DEF Held, DueAt
<1>8. Here(x).k = "hold" /\ Here(x).dt <= now - x.base
  BY <1>1
<1> HIDE DEF x
<1>10. /\ y \in Prtn(now) /\ Common(a, y, sd, sent[a]) /\ During(y, run[a], now)
       /\ Settled(y, sd, now, holding)
  BY <1>1, <1>7, <1>8, HoldBegins
<1>11. sd \in Int
  <2>1. x.base \in Int /\ Here(x).dt \in Int
    BY <1>1, HereRight, LastRight
  <2> QED
    BY <1>7, <2>1 DEF DueAt
<1> QED
  BY <1>4, <1>5, <1>10, <1>11 DEF x

\* A hold without a substate.
LEMMA HoldKeeps == ASSUME IInv, Hold PROVE IInv'
<1>0. PICK a \in Parts : a = at
  BY DEF IInv, Types
<1>1. PICK y, sd : /\ y = [prt[a] EXCEPT !.waiting = Timeout(Cmd(a))]
                   /\ sd = prt[a].base + Cmd(a).dt
  OBVIOUS
<1>2. /\ phase = "run" /\ Cmd(a).k = "hold" /\ Cmd(a).dt <= Elapsed(a)
      /\ prt' = Waits /\ NextPartition /\ since' = [since EXCEPT ![a] = sd]
      /\ now' = now /\ holding' = holding /\ until' = until /\ events' = events
      /\ run' = run /\ held' = held /\ sent' = sent
  BY <1>0, <1>1 DEF Hold, HoldStarts, Step
<1>3. /\ Waits = [prt EXCEPT ![a] = y] /\ y \in Prtn(now) /\ sd \in Int
      /\ Common(a, y, sd, sent[a]) /\ During(y, run[a], now)
      /\ Settled(y, sd, now, holding) /\ y.base = prt[a].base
  BY <1>0, <1>1, <1>2, WaitsRight
<1>4. /\ until' \in [Parts -> BOOLEAN] /\ since' \in [Parts -> Int] /\ since'[a] = sd
      /\ sent' \in [Parts -> Sent] /\ \A p \in Parts \ {a} : since'[p] = since[p]
  BY <1>2, <1>3 DEF IInv, Types
<1>5. /\ at' \in Parts /\ phase' \in {"enter", "end"}
      /\ \A p \in Parts : Passed(p)' => p = a \/ Passed(p)
  BY <1>0, <1>2, OnToNext DEF IInv
<1>6. InSecond
  BY <1>2 DEF InSecond
<1> QED
  BY <1>0, <1>2, <1>3, <1>4, <1>5, <1>6, OneChanges

\* hold until: it waits, or its condition is met at once.
LEMMA HoldUntilKeeps == ASSUME IInv, HoldUntil PROVE IInv'
<1>0. PICK a \in Parts : a = at
  BY DEF IInv, Types
<1>1. PICK y, sd : /\ y = [prt[a] EXCEPT !.waiting = Timeout(Cmd(a))]
                   /\ sd = prt[a].base + Cmd(a).dt
  OBVIOUS
<1>2. /\ phase = "run" /\ Cmd(a).k = "hold" /\ Cmd(a).dt <= Elapsed(a) /\ InSecond
      /\ prt' = Waits \/ prt' = Succeed(Waits, at, TRUE)
      /\ CallAgain /\ since' = [since EXCEPT ![a] = sd]
      /\ until' = [until EXCEPT ![at] = TRUE] \/ until' = [until EXCEPT ![at] = FALSE]
      /\ now' = now /\ holding' = holding /\ events' = events
      /\ run' = run /\ held' = held /\ sent' = sent
  BY <1>0, <1>1 DEF HoldUntil, HoldStarts, Step, InSecond
<1>3. /\ Waits = [prt EXCEPT ![a] = y] /\ y \in Prtn(now) /\ sd \in Int
      /\ Common(a, y, sd, sent[a]) /\ During(y, run[a], now) /\ y.base = prt[a].base
  BY <1>0, <1>1, <1>2, WaitsRight
<1>4. /\ until' \in [Parts -> BOOLEAN] /\ since' \in [Parts -> Int] /\ since'[a] = sd
      /\ sent' \in [Parts -> Sent] /\ \A p \in Parts \ {a} : since'[p] = since[p]
  BY <1>2, <1>3 DEF IInv, Types
<1>5. at' \in Parts /\ phase' = "enter" /\ \A p \in Parts : ~Passed(p)'
  BY <1>2, FromTheFirst
<1>6. /\ Waits \in [Parts -> Prtn(now)] /\ Waits[a] = y /\ prt \in [Parts -> Prtn(now)]
      /\ \A p \in Parts \ {a} : Waits[p] = prt[p]
  BY <1>3 DEF IInv, Types
<1>7. PICK z : /\ prt' = [prt EXCEPT ![a] = z] /\ z \in Prtn(now) /\ z.base = prt[a].base
               /\ Common(a, z, sd, sent[a]) /\ During(z, run[a], now)
  <2>1. CASE prt' = Waits
    BY <1>3, <2>1
  <2>2. CASE prt' = Succeed(Waits, at, TRUE)
    <3>1. now \in Nat /\ sent[a] \in Sent /\ run[a] \in Nat /\ a \in Parts
      BY <1>0, <1>2, Current
    <3>2. PICK ok \in BOOLEAN : ok = TRUE
      OBVIOUS
    <3>3. /\ Succeeded(y, ok) \in Prtn(now) /\ Common(a, Succeeded(y, ok), sd, sent[a])
          /\ During(Succeeded(y, ok), run[a], now) /\ Succeeded(y, ok).base = y.base
      BY <1>3, <3>1, SucceedRight
    <3>4. Waits \in Table(now)
      BY <1>6 DEF Table
    <3>5. Succeed(Waits, a, ok) = [Waits EXCEPT ![a] = Succeeded(Waits[a], ok)]
      BY <3>1, <3>4, SucceedIs
    <3>6. prt' = [prt EXCEPT ![a] = Succeeded(y, ok)]
      BY <1>0, <1>3, <1>6, <2>2, <3>1, <3>2, <3>5
    <3> QED
      BY <1>3, <3>3, <3>6
  <2> QED
    BY <1>2, <2>1, <2>2
<1> QED
  BY <1>0, <1>2, <1>4, <1>5, <1>7, OneChanges

\* A state is validated by a command of a partition.
LEMMA Validated ==
  ASSUME IInv, phase = "run", NEW a, a = at, NEW y \in Prtn(now), y.base = prt[a].base,
         since' \in [Parts -> Int], \A p \in Parts \ {a} : since'[p] = since[p],
         Common(a, y, since'[a], sent[a]), During(y, run[a], now),
         NEW s \in DOMAIN Program, prt' = Entered([prt EXCEPT ![a] = y], s), ResetFor(s),
         CallAgain, now' = now, holding' = holding, events' = events
  PROVE  IInv'
<1> DEFINE q == Program[s].part
           z == [state |-> s, next |-> 1, waiting |-> 0, base |-> now, last |-> now - 1]
           T == [prt EXCEPT ![a] = y]
           none == [dt |-> 0, at |-> 0]
<1>1. /\ Types /\ Turn /\ now \in Nat /\ a \in Parts /\ ~holding /\ InSecond
      /\ \A p \in Parts : PartInv(p)
  BY Current DEF IInv
<1>2. q \in Parts
  BY CommandFacts
<1>3. T \in [Parts -> Prtn(now)] /\ T[a] = y /\ \A p \in Parts \ {a} : T[p] = prt[p]
  BY <1>1 DEF Types
<1>4. /\ prt' = [T EXCEPT ![q] = z] /\ until' = [until EXCEPT ![q] = FALSE]
      /\ run' = [run EXCEPT ![q] = 0] /\ held' = [held EXCEPT ![q] = FALSE]
      /\ sent' = [sent EXCEPT ![q] = none]
  BY DEF Entered, ResetFor
<1>5. since'[q] \in Int
  BY <1>2
<1>6. z \in Prtn(now) /\ Common(q, z, since'[q], none) /\ During(z, 0, now)
  <2>1. PICK v : v = z
    OBVIOUS
  <2> HIDE DEF z
  <2>2. v \in Prtn(now) /\ Common(q, v, since'[q], none) /\ During(v, 0, now)
    BY <1>1, <1>5, <2>1, Begins DEF z
  <2> QED
    BY <2>1, <2>2
<1>7. none \in Sent
  BY DEF Sent
<1> HIDE DEF z, T, none, q
<1>8. /\ prt' \in [Parts -> Prtn(now)] /\ prt'[q] = z
      /\ \A p \in Parts \ {q} : prt'[p] = T[p]
  BY <1>2, <1>3, <1>4, <1>6
<1>9. /\ run' \in [Parts -> Nat] /\ run'[q] = 0
      /\ \A p \in Parts \ {q} : run'[p] = run[p]
  BY <1>1, <1>2, <1>4 DEF Types
<1>10. /\ sent' \in [Parts -> Sent] /\ sent'[q] = none
       /\ \A p \in Parts \ {q} : sent'[p] = sent[p]
  BY <1>1, <1>2, <1>4, <1>7 DEF Types
<1>11. until' \in [Parts -> BOOLEAN] /\ held' \in [Parts -> BOOLEAN]
  BY <1>1, <1>4 DEF Types
<1>12. InSecond' /\ at' \in Parts /\ phase' = "enter" /\ \A p \in Parts : ~Passed(p)'
  BY FromTheFirst
<1>13. Types'
  BY <1>1, <1>8, <1>9, <1>10, <1>11, <1>12 DEF Types
<1>14. Turn'
  BY <1>1, <1>12 DEF Turn
<1>15. ASSUME NEW p \in Parts PROVE PartInv(p)'
  <2>1. CASE p = q
    <3>1. Common(p, prt'[p], since'[p], sent'[p]) /\ During(prt'[p], run'[p], now')
      BY <1>6, <1>8, <1>9, <1>10, <2>1
    <3> QED
      BY <1>1, <1>12, <3>1, Acts
  <2>2. CASE p # q /\ p = a
    <3>1. Common(p, prt'[p], since'[p], sent'[p]) /\ During(prt'[p], run'[p], now')
      BY <1>3, <1>8, <1>9, <1>10, <2>2
    <3> QED
      BY <1>1, <1>12, <3>1, Acts
  <2>3. CASE p # q /\ p # a
    BY <1>1, <1>3, <1>8, <1>9, <1>10, <1>12, <2>3, Rests
  <2> QED
    BY <2>1, <2>2, <2>3
<1> QED
  BY <1>13, <1>14, <1>15 DEF IInv

\* Return the case of a state.
LEMMA ValidateKeeps == ASSUME IInv, Validate PROVE IInv'
<1>0. PICK a \in Parts : a = at
  BY DEF IInv, Types
<1>1. /\ phase = "run" /\ Cmd(a).k = "validate" /\ CallAgain
      /\ prt' = Entered(Advanced, Cmd(a).state) /\ ResetFor(Cmd(a).state)
      /\ now' = now /\ holding' = holding /\ events' = events /\ since' = since
  BY <1>0 DEF Validate, Step
<1>2. PICK y : y = Stepped(prt[a])
  OBVIOUS
<1>3. /\ Advanced = [prt EXCEPT ![a] = y] /\ y \in Prtn(now)
      /\ Common(a, y, since[a], sent[a]) /\ During(y, run[a], now)
  BY <1>0, <1>1, <1>2, AdvancedRight
<1>4. y.base = prt[a].base
  BY <1>2 DEF Stepped, Moved
<1>5. PICK s \in DOMAIN Program : s = Cmd(a).state
  <2>1. /\ prt[a] \in Prtn(now) /\ now \in Nat /\ since[a] \in Int /\ sent[a] \in Sent
        /\ Common(a, prt[a], since[a], sent[a]) /\ prt[a].next # 0 /\ Cmd(a) = Here(prt[a])
    BY <1>0, <1>1, Current
  <2>2. Cmd(a) \in Command
    BY <2>1, HereRight
  <2> QED
    BY <1>1, <2>2, CommandParts
<1>6. prt' = Entered([prt EXCEPT ![a] = y], s) /\ ResetFor(s)
  BY <1>1, <1>3, <1>5
<1>7. since' \in [Parts -> Int] /\ \A p \in Parts \ {a} : since'[p] = since[p]
  BY <1>1 DEF IInv, Types
<1> QED
  BY <1>0, <1>1, <1>3, <1>4, <1>6, <1>7, Validated

\* hold and validate.
LEMMA HoldAndValidateKeeps == ASSUME IInv, HoldAndValidate PROVE IInv'
<1>0. PICK a \in Parts : a = at
  BY DEF IInv, Types
<1>1. PICK y, sd : /\ y = [prt[a] EXCEPT !.waiting = Timeout(Cmd(a))]
                   /\ sd = prt[a].base + Cmd(a).dt
  OBVIOUS
<1>2. PICK s \in DOMAIN Program : s = Cmd(a).goes
  BY <1>0 DEF HoldAndValidate
<1>3. /\ phase = "run" /\ Cmd(a).k = "hold" /\ Cmd(a).dt <= Elapsed(a)
      /\ prt' = Entered(Waits, s) /\ ResetFor(s) /\ CallAgain
      /\ since' = [since EXCEPT ![a] = sd]
      /\ now' = now /\ holding' = holding /\ events' = events
  BY <1>0, <1>1, <1>2 DEF HoldAndValidate, HoldStarts, Step
<1>4. /\ Waits = [prt EXCEPT ![a] = y] /\ y \in Prtn(now) /\ sd \in Int
      /\ Common(a, y, sd, sent[a]) /\ During(y, run[a], now) /\ y.base = prt[a].base
  BY <1>0, <1>1, <1>3, WaitsRight
<1>5. /\ since' \in [Parts -> Int] /\ since'[a] = sd
      /\ \A p \in Parts \ {a} : since'[p] = since[p]
  BY <1>3, <1>4 DEF IInv, Types
<1>6. prt' = Entered([prt EXCEPT ![a] = y], s)
  BY <1>3, <1>4
<1> QED
  BY <1>0, <1>3, <1>4, <1>5, <1>6, Validated

\* Resume: a partition that was passed over already is looked at again.
LEMMA ResumeKeeps == ASSUME IInv, Resume PROVE IInv'
<1>0. PICK a \in Parts : a = at
  BY DEF IInv, Types
<1>1. /\ prt[a] \in Prtn(now) /\ prt[a].next # 0 /\ ~holding /\ InSecond /\ now \in Nat
      /\ since[a] \in Int /\ sent[a] \in Sent /\ run[a] \in Nat /\ phase = "run"
      /\ Common(a, prt[a], since[a], sent[a]) /\ Cmd(a) = Here(prt[a])
      /\ Cmd(a).k = "resume"
  BY <1>0, Current DEF Resume, Step
<1>2. PICK s \in DOMAIN Program : s = Cmd(a).state
  <2>1. Cmd(a) \in Command
    BY <1>1, HereRight
  <2> QED
    BY <1>1, <2>1, CommandParts
<1>3. PICK q \in Parts : q = Program[s].part
  BY CommandFacts
<1>4. PICK ok \in BOOLEAN : ok = (prt[q].state = s)
  OBVIOUS
<1>5. PICK y : y = Stepped(prt[a])
  OBVIOUS
<1>6. /\ Advanced = [prt EXCEPT ![a] = y] /\ y \in Prtn(now) /\ y.waiting = 0 /\ y.next # 0
      /\ Common(a, y, since[a], sent[a]) /\ During(y, run[a], now)
  BY <1>0, <1>1, <1>5, AdvancedRight
<1>7. PICK T \in Table(now) : T = Advanced
  BY <1>6 DEF IInv, Types, Table
<1>8. T[a] = y /\ \A p \in Parts \ {a} : T[p] = prt[p]
  BY <1>6, <1>7 DEF IInv, Types
<1>9. /\ prt' = Succeed(T, q, ok) /\ now' = now /\ holding' = holding /\ until' = until
      /\ events' = events /\ run' = run /\ held' = held /\ since' = since /\ sent' = sent
      /\ IF q < a THEN CallAgain ELSE UNCHANGED <<phase, at>>
  BY <1>0, <1>2, <1>3, <1>4, <1>7 DEF Resume, hist
<1>10. PICK x \in Prtn(now) : x = T[q]
  BY DEF Table
<1>11. /\ since[q] \in Int /\ sent[q] \in Sent /\ run[q] \in Nat
       /\ Common(q, x, since[q], sent[q]) /\ During(x, run[q], now)
  <2>1. CASE q = a
    BY <1>1, <1>6, <1>8, <1>10, <2>1
  <2>2. CASE q # a
    BY <1>1, <1>8, <1>10, <2>2 DEF IInv, Types, PartInv
  <2> QED
    BY <2>1, <2>2
<1>12. PICK z : z = Succeeded(x, ok)
  OBVIOUS
<1>13. /\ z \in Prtn(now) /\ Common(q, z, since[q], sent[q]) /\ During(z, run[q], now)
       /\ z = x \/ (z.waiting = 0 /\ z.next # 0)
  <2>1. /\ Succeeded(x, ok) \in Prtn(now) /\ Common(q, Succeeded(x, ok), since[q], sent[q])
        /\ During(Succeeded(x, ok), run[q], now)
        /\ \/ Succeeded(x, ok) = x
           \/ Succeeded(x, ok).waiting = 0 /\ Succeeded(x, ok).next # 0
    BY <1>1, <1>11, SucceedRight
  <2> QED
    BY <1>12, <2>1
<1>14. prt' = [T EXCEPT ![q] = z]
  BY <1>1, <1>9, <1>10, <1>12, SucceedIs
<1>15. /\ prt' \in [Parts -> Prtn(now)] /\ prt'[q] = z
       /\ \A p \in Parts \ {q} : prt'[p] = T[p]
  BY <1>7, <1>13, <1>14 DEF Table
<1>16. /\ InSecond' /\ at' \in Parts /\ phase' \in {"enter", "run"}
       /\ phase' = "run" => at' = a
       /\ ~Passed(a)' /\ ~Passed(q)' /\ \A p \in Parts : Passed(p)' => Passed(p)
  <2>1. CASE q < a
    BY <1>9, <2>1, FromTheFirst
  <2>2. CASE ~(q < a)
    BY <1>0, <1>1, <1>9, <2>2 DEF InSecond, Passed, Parts
  <2> QED
    BY <2>1, <2>2
<1>17. Types'
  BY <1>9, <1>15, <1>16 DEF IInv, Types
<1>18. Turn'
  <2>1. prt'[a].waiting = 0 /\ prt'[a].next # 0
    BY <1>6, <1>8, <1>10, <1>13, <1>15
  <2>2. now > 0
    BY <1>1 DEF IInv, Turn
  <2> QED
    BY <1>1, <1>9, <1>16, <2>1, <2>2 DEF Turn
<1>19. ASSUME NEW p \in Parts PROVE PartInv(p)'
  <2>1. CASE p = q
    BY <1>1, <1>9, <1>13, <1>15, <1>16, <2>1, Acts
  <2>2. CASE p # q /\ p = a
    BY <1>1, <1>6, <1>8, <1>9, <1>15, <1>16, <2>2, Acts
  <2>3. CASE p # q /\ p # a
    BY <1>1, <1>8, <1>9, <1>15, <1>16, <2>3, Rests DEF IInv
  <2> QED
    BY <2>1, <2>2, <2>3
<1> QED
  BY <1>17, <1>18, <1>19 DEF IInv

\* The end of the second.
LEMMA EndOfSecondKeeps == ASSUME IInv, EndOfSecond PROVE IInv'
<1>1. /\ phase = "end" /\ InSecond /\ Types /\ Turn /\ now \in Nat /\ holding \in BOOLEAN
      /\ prt \in [Parts -> Prtn(now)] /\ \A p \in Parts : PartInv(p) /\ Passed(p)
  <2>1. phase = "end" /\ InSecond /\ \A p \in Parts : Passed(p)
    BY DEF EndOfSecond, InSecond, Passed
  <2>2. Types /\ Turn /\ \A p \in Parts : PartInv(p)
    BY DEF IInv
  <2>3. now \in Nat /\ holding \in BOOLEAN /\ prt \in [Parts -> Prtn(now)]
    BY <2>2, Sizes DEF Types
  <2> QED
    BY <2>1, <2>2, <2>3
<1>2. /\ held' = [p \in Parts |-> prt[p].waiting # 0 \/ holding]
      /\ phase' = "done" /\ at' = 1 /\ now' = now /\ holding' = holding /\ until' = until
      /\ events' = events /\ run' = run /\ since' = since /\ sent' = sent
  BY DEF EndOfSecond
<1>3. ASSUME NEW p \in Parts, Shifted(p) PROVE prt'[p] = SetBackTo(prt[p], now)
  <2>1. PICK x \in Prtn(now) : x = prt[p]
    BY <1>1
  <2>2. PICK dt, w : /\ dt = now - Latest(x)
                     /\ w = IF x.waiting > dt THEN x.waiting - dt ELSE Min({x.waiting, 0})
    OBVIOUS
  <2>3. prt'[p] = [x EXCEPT !.base = x.base + dt, !.last = now, !.waiting = w]
    BY <1>3, <2>1, <2>2 DEF EndOfSecond, LastCheck, Latest
  <2>4. PICK s, b, d, e, f :
          x = [state |-> s, next |-> b, waiting |-> d, base |-> e, last |-> f]
    BY DEF Prtn
  <2>5. PICK k, l : k = x.base + dt /\ l = now
    OBVIOUS
  <2>6. PICK v : v = [x EXCEPT !.base = k]
    OBVIOUS
  <2>7. PICK z : z = [v EXCEPT !.last = l]
    OBVIOUS
  <2>8. v = [state |-> s, next |-> b, waiting |-> d, base |-> k, last |-> f]
    BY <2>4, <2>6
  <2>9. z = [state |-> s, next |-> b, waiting |-> d, base |-> k, last |-> l]
    BY <2>7, <2>8
  <2>10. [z EXCEPT !.waiting = w]
           = [state |-> s, next |-> b, waiting |-> w, base |-> k, last |-> l]
    BY <2>9
  <2>11. prt'[p] = [z EXCEPT !.waiting = w]
    BY <2>3, <2>5, <2>6, <2>7
  <2>12. s = x.state /\ b = x.next
    BY <2>4
  <2>13. SetBackTo(x, now)
           = [state |-> s, next |-> b, waiting |-> w, base |-> k, last |-> l]
    BY <2>2, <2>5, <2>12 DEF SetBackTo
  <2> QED
    BY <2>1, <2>10, <2>11, <2>13
<1>4. ASSUME NEW p \in Parts, ~Shifted(p) PROVE prt'[p] = Counted(prt[p], now)
  BY <1>4 DEF EndOfSecond, Counted
<1>5. ASSUME NEW p \in Parts
      PROVE  /\ prt'[p] \in Prtn(now) /\ Common(p, prt'[p], since[p], sent[p])
             /\ During(prt'[p], NextRun(p)', now + 1) /\ Latest(prt'[p]) = now
             /\ Done(prt'[p], now, holding)
  <2>1. PICK x \in Prtn(now), sc \in Int, st \in Sent, r \in Nat :
          /\ x = prt[p] /\ sc = since[p] /\ st = sent[p] /\ r = run[p]
    BY <1>1 DEF Types
  <2>2. /\ Common(p, x, sc, st) /\ During(x, r, now) /\ Settled(x, sc, now, holding)
        /\ holding => x.base < now
    BY <1>1, <2>1 DEF PartInv
  <2>3. CASE Shifted(p)
    <3>1. x.waiting # 0 \/ holding
      BY <2>1, <2>3 DEF Shifted
    <3>2. /\ SetBackTo(x, now) \in Prtn(now) /\ Common(p, SetBackTo(x, now), sc, st)
          /\ During(SetBackTo(x, now), r, now + 1) /\ Latest(SetBackTo(x, now)) = now
          /\ Done(SetBackTo(x, now), now, holding)
      BY <1>1, <2>2, <3>1, SetBack
    <3>3. NextRun(p)' = r
      BY <1>2, <2>1, <3>1 DEF NextRun
    <3> QED
      BY <1>3, <2>1, <2>3, <3>2, <3>3
  <2>4. CASE ~Shifted(p)
    <3>1. x.waiting = 0 /\ holding = FALSE
      BY <1>1, <2>1, <2>4 DEF Shifted
    <3>2. /\ Counted(x, now) \in Prtn(now) /\ Common(p, Counted(x, now), sc, st)
          /\ During(Counted(x, now), r + 1, now + 1) /\ Latest(Counted(x, now)) = now
          /\ Done(Counted(x, now), now, FALSE)
      <4>1. Settled(x, sc, now, FALSE)
        BY <2>2, <3>1
      <4> QED
        BY <1>1, <2>2, <3>1, <4>1, GoesOn
    <3>3. NextRun(p)' = r + 1
      BY <1>2, <2>1, <3>1 DEF NextRun
    <3> QED
      BY <1>4, <2>1, <2>4, <3>1, <3>2, <3>3
  <2> QED
    BY <2>3, <2>4
<1>6. prt' \in [Parts -> Prtn(now)]
  <2>1. \A p \in Parts : prt'[p] \in Prtn(now)
    BY <1>5
  <2>2. prt' = [p \in Parts |-> prt'[p]]
    BY DEF EndOfSecond
  <2> QED
    BY <2>1, <2>2
<1>7. Types'
  <2>1. held' \in [Parts -> BOOLEAN]
    BY <1>1, <1>2
  <2>2. at' \in Parts
    BY <1>2, Sizes DEF Parts
  <2> QED
    BY <1>1, <1>2, <1>6, <2>1, <2>2 DEF Types
<1>8. Turn'
  BY <1>1, <1>2 DEF Turn, InSecond
<1>9. ~InSecond' /\ \A p \in Parts : ~Passed(p)'
  BY <1>2 DEF InSecond, Passed
<1>10. ASSUME NEW p \in Parts PROVE PartInv(p)'
  BY <1>2, <1>5, <1>9 DEF PartInv
<1> QED
  BY <1>7, <1>8, <1>10 DEF IInv

\* The clocks start.
Started(x) == [x EXCEPT !.base = 1, !.last = 0]

LEMMA Starts ==
  ASSUME NEW x \in Prtn(0), NEW p, NEW sc \in Int, NEW st \in Sent, NEW r \in Nat,
         Common(p, x, sc, st), x.waiting = 0
  PROVE  /\ Started(x) \in Prtn(1) /\ Common(p, Started(x), sc, st)
         /\ During(Started(x), r, 1)
<1>1. PICK y, z : y = [x EXCEPT !.base = 1] /\ z = [y EXCEPT !.last = 0]
  OBVIOUS
<1>2. Started(x) = z
  BY <1>1 DEF Started
<1>3. PICK s \in DOMAIN Program, n \in Nat, w \in Int, b \in Int, l \in Int :
        x = [state |-> s, next |-> n, waiting |-> w, base |-> b, last |-> l]
  BY DEF Prtn
<1>4. z = [state |-> s, next |-> n, waiting |-> w, base |-> 1, last |-> 0]
  BY <1>1, <1>3
<1>5. z \in Prtn(1)
  BY <1>4 DEF Prtn
<1>6. z.state = x.state /\ z.next = x.next /\ z.waiting = 0 /\ z.base = 1 /\ z.last = 0
  BY <1>3, <1>4
<1>7. CmdsOf(z) = CmdsOf(x) /\ Slack(z) = Slack(x)
  BY <1>6 DEF CmdsOf, Slack
<1>8. Common(p, z, sc, st)
  BY <1>6, <1>7 DEF Common
<1>9. Latest(z) = 1
  BY <1>5, <1>6, LastRight
<1>10. During(z, r, 1)
  BY <1>6, <1>9, SlackRight DEF During
<1> QED
  BY <1>2, <1>5, <1>8, <1>10

\* A second begins.
LEMMA SecondKeeps == ASSUME IInv, Second PROVE IInv'
<1>1. /\ Types /\ Turn /\ ~InSecond /\ now \in Nat /\ now < MaxTime
      /\ prt \in [Parts -> Prtn(now)] /\ run \in [Parts -> Nat]
      /\ held \in [Parts -> BOOLEAN] /\ \A p \in Parts : PartInv(p)
  <2>1. Types /\ Turn /\ \A p \in Parts : PartInv(p)
    BY DEF IInv
  <2>2. ~InSecond /\ now < MaxTime
    BY DEF Second, InSecond
  <2> QED
    BY <2>1, <2>2, Sizes DEF Types
<1>2. /\ now' = now + 1 /\ phase' = "enter" /\ at' = 1 /\ holding' = holding
      /\ until' = until /\ events' = events /\ held' = held /\ since' = since
      /\ sent' = sent
  BY DEF Second
<1>3. /\ prt' \in [Parts -> Prtn(now')] /\ run' \in [Parts -> Nat]
      /\ \A p \in Parts :
           /\ Common(p, prt'[p], since[p], sent[p])
           /\ During(prt'[p], run'[p], now') /\ (holding' => prt'[p].base < now')
  <2>1. CASE now = 0
    <3>1. run' = run /\ now' = 1 /\ ~holding' /\ \A p \in Parts : prt[p].waiting = 0
      <4>1. run' = run
        BY <2>1 DEF Second
      <4>2. ~holding /\ \A p \in Parts : prt[p].waiting = 0
        BY <1>1, <2>1 DEF Turn
      <4> QED
        BY <1>2, <2>1, <4>1, <4>2
    <3>2. prt' = [p \in Parts |-> Started(prt[p])]
      BY <2>1 DEF Second, Started
    <3>3. ASSUME NEW p \in Parts
          PROVE  /\ prt'[p] \in Prtn(1) /\ Common(p, prt'[p], since[p], sent[p])
                 /\ During(prt'[p], run[p], 1)
      <4>1. PICK x \in Prtn(0), sc \in Int, st \in Sent, r \in Nat :
              x = prt[p] /\ sc = since[p] /\ st = sent[p] /\ r = run[p]
        BY <1>1, <2>1 DEF Types
      <4>2. Common(p, x, sc, st) /\ x.waiting = 0
        BY <1>1, <3>1, <4>1 DEF PartInv
      <4>3. /\ Started(x) \in Prtn(1) /\ Common(p, Started(x), sc, st)
            /\ During(Started(x), r, 1)
        BY <4>2, Starts
      <4>4. prt'[p] = Started(x)
        BY <3>2, <4>1
      <4> QED
        BY <4>1, <4>3, <4>4
    <3>4. prt' \in [Parts -> Prtn(1)]
      BY <3>2, <3>3
    <3> QED
      BY <1>1, <3>1, <3>3, <3>4
  <2>2. CASE now # 0
    <3>1. /\ prt' = prt
          /\ run' = [p \in Parts |-> IF held[p] THEN run[p] ELSE run[p] + 1]
      BY <2>2 DEF Second
    <3>2. ASSUME NEW p \in Parts PROVE run'[p] = NextRun(p) /\ run'[p] \in Nat
      BY <1>1, <3>1 DEF NextRun
    <3>3. run' \in [Parts -> Nat]
      BY <3>1, <3>2
    <3>4. ASSUME NEW p \in Parts PROVE prt[p] \in Prtn(now + 1) /\ prt[p].base < now + 1
      <4>1. prt[p] \in Prtn(now)
        BY <1>1
      <4> QED
        BY <1>1, <4>1 DEF Prtn
    <3>5. prt' \in [Parts -> Prtn(now + 1)]
      BY <1>1, <3>1, <3>4
    <3>6. ASSUME NEW p \in Parts
          PROVE  Common(p, prt[p], since[p], sent[p]) /\ During(prt[p], run'[p], now + 1)
      BY <1>1, <3>2 DEF PartInv
    <3> QED
      BY <1>2, <3>1, <3>3, <3>4, <3>5, <3>6
  <2> QED
    BY <2>1, <2>2
<1>4. Types'
  <2>1. now' \in 0..MaxTime
    BY <1>1, <1>2, Sizes
  <2>2. at' \in Parts
    BY <1>2, Sizes DEF Parts
  <2> QED
    BY <1>1, <1>2, <1>3, <2>1, <2>2 DEF Types
<1>5. Turn'
  BY <1>1, <1>2 DEF Turn
<1>6. InSecond' /\ \A p \in Parts : ~Passed(p)'
  BY <1>2, Sizes DEF InSecond, Passed, Parts
<1>7. ASSUME NEW p \in Parts PROVE PartInv(p)'
  BY <1>2, <1>3, <1>6, Acts
<1> QED
  BY <1>4, <1>5, <1>7 DEF IInv

-----------------------------------------------------------------------------
(* Between two calls.                                                      *)

\* What these steps must keep, of the partition they change and of the others.
LEMMA BetweenKeeps ==
  ASSUME IInv, Between, NEW q \in Parts, NEW z \in Prtn(now), NEW r \in Nat, NEW st \in Sent,
         prt' = [prt EXCEPT ![q] = z], z.waiting = 0 \/ z = prt[q],
         until' \in [Parts -> BOOLEAN], holding' \in BOOLEAN,
         run' \in [Parts -> Nat], held' \in [Parts -> BOOLEAN], sent' \in [Parts -> Sent],
         NextRun(q)' = r, sent'[q] = st,
         \A p \in Parts \ {q} : /\ run'[p] = run[p] /\ held'[p] = held[p]
                                /\ sent'[p] = sent[p],
         Common(q, z, since[q], st), During(z, r, now + 1), Latest(z) = now
  PROVE  IInv'
<1>1. /\ Types /\ Turn /\ ~InSecond /\ now \in Nat /\ now > 0
      /\ prt \in [Parts -> Prtn(now)] /\ \A p \in Parts : PartInv(p)
  <2>1. Types /\ Turn /\ \A p \in Parts : PartInv(p)
    BY DEF IInv
  <2>2. ~InSecond /\ now > 0
    BY DEF Between, InSecond
  <2> QED
    BY <2>1, <2>2, Sizes DEF Types
<1>2. /\ now' = now /\ at' = at /\ since' = since /\ phase' = "idle"
      /\ events' = events + 1 /\ events < MaxEvents
  BY DEF Between
<1>3. /\ prt' \in [Parts -> Prtn(now)] /\ prt'[q] = z
      /\ \A p \in Parts \ {q} : prt'[p] = prt[p]
  BY <1>1
<1>4. Types'
  <2>1. events' \in 0..MaxEvents
    BY <1>1, <1>2, Sizes DEF Types
  <2> QED
    BY <1>1, <1>2, <1>3, <2>1 DEF Types
<1>5. ~InSecond' /\ \A p \in Parts : ~Passed(p)'
  BY <1>2 DEF InSecond, Passed
<1>6. Turn'
  BY <1>1, <1>2, <1>5 DEF Turn
<1>7. ASSUME NEW p \in Parts PROVE PartInv(p)'
  <2>1. CASE p = q
    BY <1>2, <1>3, <1>5, <2>1 DEF PartInv
  <2>2. CASE p # q
    <3>1. NextRun(p)' = NextRun(p)
      BY <2>2 DEF NextRun
    <3>2. /\ Common(p, prt[p], since[p], sent[p]) /\ During(prt[p], NextRun(p), now + 1)
          /\ Latest(prt[p]) = now
      BY <1>1 DEF PartInv
    <3> QED
      BY <1>2, <1>3, <1>5, <2>2, <3>1, <3>2 DEF PartInv
  <2> QED
    BY <2>1, <2>2
<1> QED
  BY <1>4, <1>6, <1>7 DEF IInv

\* A hold whose condition is met succeeds, if it still holds.
LEMMA ConditionMetKeeps == ASSUME IInv, NEW q \in Parts, ConditionMet(q) PROVE IInv'
<1>1. /\ Types /\ ~InSecond /\ now \in Nat /\ prt \in [Parts -> Prtn(now)] /\ PartInv(q)
      /\ prt \in Table(now)
  BY Sizes DEF IInv, Types, ConditionMet, Between, InSecond, Table
<1>2. PICK ok \in BOOLEAN : ok = (Cmd(q).goes = "until")
  OBVIOUS
<1>3. PICK x \in Prtn(now), r \in Nat :
        x = prt[q] /\ r = NextRun(q) /\ since[q] \in Int /\ sent[q] \in Sent
  BY <1>1 DEF Types, NextRun
<1>4. Common(q, x, since[q], sent[q]) /\ During(x, r, now + 1) /\ Latest(x) = now
  BY <1>1, <1>3 DEF PartInv
<1>5. /\ Succeeded(x, ok) \in Prtn(now) /\ Common(q, Succeeded(x, ok), since[q], sent[q])
      /\ During(Succeeded(x, ok), r, now + 1) /\ Latest(Succeeded(x, ok)) = Latest(x)
      /\ \/ Succeeded(x, ok) = x
         \/ Succeeded(x, ok).waiting = 0 /\ Succeeded(x, ok).next # 0
  <2>1. PICK u \in Nat : u = now + 1
    BY <1>1
  <2>2. During(x, r, u)
    BY <1>4, <2>1
  <2>3. /\ Succeeded(x, ok) \in Prtn(now) /\ Common(q, Succeeded(x, ok), since[q], sent[q])
        /\ During(Succeeded(x, ok), r, u) /\ Latest(Succeeded(x, ok)) = Latest(x)
        /\ \/ Succeeded(x, ok) = x
           \/ Succeeded(x, ok).waiting = 0 /\ Succeeded(x, ok).next # 0
    BY <1>1, <1>3, <1>4, <2>2, SucceedRight
  <2> QED
    BY <2>1, <2>3
<1>6. PICK z : z = Succeeded(x, ok)
  OBVIOUS
<1>7. /\ Between /\ prt' = Succeed(prt, q, ok) /\ until' = [until EXCEPT ![q] = FALSE]
      /\ holding' = holding /\ run' = run /\ held' = held /\ sent' = sent
  BY <1>2 DEF ConditionMet
<1>8. prt' = [prt EXCEPT ![q] = z]
  BY <1>1, <1>3, <1>6, <1>7, SucceedIs
<1>9. /\ until' \in [Parts -> BOOLEAN] /\ holding' \in BOOLEAN
      /\ run' \in [Parts -> Nat] /\ held' \in [Parts -> BOOLEAN] /\ sent' \in [Parts -> Sent]
  BY <1>1, <1>7 DEF Types
<1>10. NextRun(q)' = r
  BY <1>3, <1>7 DEF NextRun
<1> QED
  BY <1>3, <1>4, <1>5, <1>6, <1>7, <1>8, <1>9, <1>10, BetweenKeeps

\* A state that TMC validates begins.
LEMMA DataValidatesKeeps ==
  ASSUME IInv, NEW s \in DataStates, DataValidates(s) PROVE IInv'
<1>1. /\ Types /\ now \in Nat /\ s \in DOMAIN Program
  BY Sizes, AlgorithmsAssumption DEF IInv, Types
<1>2. PICK q \in Parts : q = Program[s].part
  BY <1>1, CommandFacts
<1>3. PICK z, none :
        /\ z = [state |-> s, next |-> 1, waiting |-> 0, base |-> now, last |-> now - 1]
        /\ none = [dt |-> 0, at |-> 0]
  OBVIOUS
<1>4. /\ Between /\ prt' = [prt EXCEPT ![q] = z] /\ until' = [until EXCEPT ![q] = FALSE]
      /\ run' = [run EXCEPT ![q] = 0] /\ held' = [held EXCEPT ![q] = FALSE]
      /\ sent' = [sent EXCEPT ![q] = none] /\ holding' = holding
  BY <1>2, <1>3 DEF DataValidates, Entered, ResetFor
<1>5. none \in Sent /\ since[q] \in Int
  BY <1>1, <1>3 DEF Sent, Types
<1>6. /\ z \in Prtn(now) /\ Common(q, z, since[q], none) /\ During(z, 1, now + 1)
      /\ Latest(z) = now
  BY <1>1, <1>2, <1>3, <1>5, Begins
<1>7. z.waiting = 0
  BY <1>3
<1>8. /\ until' \in [Parts -> BOOLEAN] /\ holding' \in BOOLEAN
      /\ run' \in [Parts -> Nat] /\ held' \in [Parts -> BOOLEAN] /\ sent' \in [Parts -> Sent]
      /\ run'[q] = 0 /\ held'[q] = FALSE /\ sent'[q] = none
      /\ \A p \in Parts \ {q} : /\ run'[p] = run[p] /\ held'[p] = held[p]
                                /\ sent'[p] = sent[p]
  BY <1>1, <1>4, <1>5 DEF Types
<1>9. NextRun(q)' = 1
  BY <1>8 DEF NextRun
<1> QED
  BY <1>4, <1>5, <1>6, <1>7, <1>8, <1>9, BetweenKeeps

\* The operator's hold leaves every partition as it is.
LEMMA tma_holdKeeps == ASSUME IInv, tma_hold PROVE IInv'
<1>1. /\ Types /\ ~InSecond /\ now \in Nat /\ prt \in [Parts -> Prtn(now)]
      /\ \A p \in Parts : PartInv(p)
  BY Sizes DEF IInv, Types, tma_hold, Between, InSecond
<1>2. PICK q \in Parts : q = 1
  BY Sizes DEF Parts
<1>3. PICK z \in Prtn(now), r \in Nat, st \in Sent :
        z = prt[q] /\ r = NextRun(q) /\ st = sent[q]
  BY <1>1 DEF Types, NextRun
<1>4. Common(q, z, since[q], st) /\ During(z, r, now + 1) /\ Latest(z) = now
  BY <1>1, <1>3 DEF PartInv
<1>5. /\ Between /\ holding' = ~holding /\ prt' = prt /\ until' = until /\ run' = run
      /\ held' = held /\ sent' = sent
  BY DEF tma_hold
<1>6. prt' = [prt EXCEPT ![q] = z]
  BY <1>1, <1>3, <1>5
<1>7. /\ until' \in [Parts -> BOOLEAN] /\ holding' \in BOOLEAN
      /\ run' \in [Parts -> Nat] /\ held' \in [Parts -> BOOLEAN] /\ sent' \in [Parts -> Sent]
  BY <1>1, <1>5 DEF Types
<1>8. NextRun(q)' = r
  BY <1>3, <1>5 DEF NextRun
<1> QED
  BY <1>3, <1>4, <1>5, <1>6, <1>7, <1>8, BetweenKeeps

-----------------------------------------------------------------------------
(* The invariant holds.                                                    *)

\* The commands that are sent when the program starts end before the last one.
LEMMA StartsUp ==
  ASSUME NEW s \in DOMAIN Program
  PROVE  StartUp(s) \in 1..Len(Program[s].cmds)
<1> DEFINE c == Program[s].cmds
           S == {i \in 1..Len(c) : c[i].dt # 0 \/ c[i].k # "send"}
<1>1. Len(c) \in Nat \ {0}
  BY CommandFacts
<1>2. Len(c) \in 1..Len(c) /\ c[Len(c)].k = "end"
  BY <1>1, CommandFacts
<1>3. S # {} /\ S \subseteq 1..Len(c)
  BY <1>2
<1>4. \E x \in S : \A y \in S : x <= y
  <2>1. S \in SUBSET Nat
    BY <1>1, <1>3
  <2> HIDE DEF S
  <2> QED
    BY <1>3, <2>1, LeastElement
<1>5. Min(S) \in S
  BY <1>4 DEF Min
<1> QED
  BY <1>3, <1>5 DEF StartUp

LEMMA InitRight == ASSUME Init PROVE IInv
<1>1. /\ now = 0 /\ holding = FALSE /\ events = 0 /\ phase = "idle" /\ at = 1
      /\ until = [p \in Parts |-> FALSE] /\ run = [p \in Parts |-> 0]
      /\ held = [p \in Parts |-> FALSE] /\ since = [p \in Parts |-> 0]
      /\ sent = [p \in Parts |-> [dt |-> 0, at |-> 0]]
      /\ prt = [p \in Parts |-> [state |-> FirstState[p],
                                 next |-> StartUp(FirstState[p]),
                                 waiting |-> 0, base |-> 0, last |-> -1]]
  BY DEF Init
<1>2. ASSUME NEW p \in Parts
      PROVE  /\ prt[p] \in Prtn(0) /\ prt[p].waiting = 0 /\ Latest(prt[p]) = 0
             /\ Common(p, prt[p], since[p], sent[p]) /\ During(prt[p], 1, 1)
  <2>1. PICK s \in DOMAIN Program : s = FirstState[p] /\ Program[s].part = p
    BY AlgorithmsAssumption DEF Parts
  <2>2. PICK n \in Nat : n = StartUp(s) /\ n \in 1..Len(Program[s].cmds)
    <3>1. StartUp(s) \in 1..Len(Program[s].cmds) /\ Len(Program[s].cmds) \in Nat
      BY StartsUp, CommandFacts
    <3> QED
      BY <3>1
  <2>3. PICK x : /\ x = [state |-> s, next |-> n, waiting |-> 0, base |-> 0, last |-> -1]
                 /\ x = prt[p]
    BY <1>1, <2>1, <2>2
  <2>4. /\ x.state = s /\ x.next = n /\ x.waiting = 0 /\ x.base = 0 /\ x.last = -1
        /\ x \in Prtn(0)
    BY <2>3 DEF Prtn
  <2>5. Latest(x) = 0
    BY <2>4, LastRight
  <2>6. Slack(x) \in {0, 1} /\ Len(CmdsOf(x)) \in Nat
    BY <2>4, SlackRight, CommandFacts DEF CmdsOf
  <2>7. sent[p].dt = 0 /\ sent[p].at = 0
    BY <1>1
  <2>8. Common(p, x, since[p], sent[p])
    BY <2>1, <2>2, <2>4, <2>6, <2>7 DEF Common, CmdsOf
  <2>9. During(x, 1, 1)
    BY <2>4, <2>5, <2>6 DEF During
  <2> QED
    BY <2>3, <2>4, <2>5, <2>8, <2>9
<1>3. Types
  <2>1. prt \in [Parts -> Prtn(0)]
    BY <1>1, <1>2
  <2>2. [dt |-> 0, at |-> 0] \in Sent
    BY DEF Sent
  <2>3. at \in Parts /\ now \in 0..MaxTime /\ events \in 0..MaxEvents
    BY <1>1, Sizes DEF Parts
  <2>4. sent \in [Parts -> Sent]
    BY <1>1, <2>2
  <2>5. /\ until \in [Parts -> BOOLEAN] /\ run \in [Parts -> Nat]
        /\ held \in [Parts -> BOOLEAN] /\ since \in [Parts -> Int]
    BY <1>1
  <2> QED
    BY <1>1, <2>1, <2>3, <2>4, <2>5 DEF Types
<1>4. Turn
  BY <1>1, <1>2 DEF Turn, InSecond
<1>5. ASSUME NEW p \in Parts PROVE PartInv(p)
  <2>1. ~InSecond /\ ~Passed(p) /\ phase # "done"
    BY <1>1 DEF InSecond, Passed
  <2>2. NextRun(p) = 1
    BY <1>1 DEF NextRun
  <2>3. During(prt[p], NextRun(p), now + 1) /\ Latest(prt[p]) = now
    <3>1. now = 0 /\ now + 1 = 1
      BY <1>1
    <3>2. During(prt[p], 1, 1) /\ Latest(prt[p]) = 0
      BY <1>2
    <3> QED
      BY <2>2, <3>1, <3>2
  <2> QED
    BY <1>2, <2>1, <2>3 DEF PartInv
<1> QED
  BY <1>3, <1>4, <1>5 DEF IInv

LEMMA StepKeeps == IInv /\ [Next]_vars => IInv'
<1> SUFFICES ASSUME IInv, [Next]_vars PROVE IInv'
  OBVIOUS
<1>1. CASE Second
  BY <1>1, SecondKeeps
<1>2. CASE Process
  <2>1. CASE Enter
    BY <2>1, EnterKeeps
  <2>2. CASE EndOfState
    BY <2>2, EndOfStateKeeps
  <2>3. CASE NotYet
    BY <2>3, NotYetKeeps
  <2>4. CASE Send
    BY <2>4, SendKeeps
  <2>5. CASE Validate
    BY <2>5, ValidateKeeps
  <2>6. CASE Idle
    BY <2>6, IdleKeeps
  <2>7. CASE Hold
    BY <2>7, HoldKeeps
  <2>8. CASE HoldUntil
    BY <2>8, HoldUntilKeeps
  <2>9. CASE HoldAndValidate
    BY <2>9, HoldAndValidateKeeps
  <2>10. CASE Resume
    BY <2>10, ResumeKeeps
  <2>11. CASE EndOfSecond
    BY <2>11, EndOfSecondKeeps
  <2> QED
    BY <1>2, <2>1, <2>2, <2>3, <2>4, <2>5, <2>6, <2>7, <2>8, <2>9, <2>10, <2>11
       DEF Process
<1>3. CASE tma_hold
  BY <1>3, tma_holdKeeps
<1>4. ASSUME NEW p \in Parts, ConditionMet(p) PROVE IInv'
  BY <1>4, ConditionMetKeeps
<1>5. ASSUME NEW s \in DataStates, DataValidates(s) PROVE IInv'
  BY <1>5, DataValidatesKeeps
<1>6. CASE UNCHANGED vars
  BY <1>6 DEF vars, hist, IInv, Types, Turn, PartInv, InSecond, Passed, NextRun
<1> QED
  BY <1>1, <1>2, <1>3, <1>4, <1>5, <1>6 DEF Next

\* What the invariant says of the times: what the properties ask for.
LEMMA TimesFollow == IInv => TimesKept
<1> SUFFICES ASSUME IInv PROVE TimesKept
  OBVIOUS
<1>1. Types /\ Turn /\ now \in Nat /\ \A p \in Parts : PartInv(p)
  BY Sizes DEF IInv, Types
<1>2. ASSUME NEW p \in Parts
      PROVE  /\ prt[p] \in Prtn(now) /\ Common(p, prt[p], since[p], sent[p])
             /\ since[p] \in Int /\ sent[p] \in Sent
  BY <1>1 DEF Types, PartInv
<1>3. TypeOK
  <2>1. ASSUME NEW p \in Parts
        PROVE  /\ Program[prt[p].state].part = p /\ prt[p].next \in 0..Len(Cmds(p))
               /\ prt[p].base \in 0..now /\ prt[p].last \in -1..now /\ prt[p].waiting \in Int
    BY <1>1, <1>2, LastRight DEF Common, Cmds, CmdsOf
  <2> QED
    BY <1>1, <2>1 DEF Types, TypeOK
<1>4. NeverEarly
  <2>1. ASSUME NEW p \in Parts PROVE sent[p].at >= sent[p].dt - Lead(p)
    <3>1. Lead(p) = Slack(prt[p]) /\ Slack(prt[p]) \in {0, 1}
      BY SlackRight DEF Lead, Slack, Cmds, CmdsOf
    <3>2. sent[p].at + Slack(prt[p]) >= sent[p].dt /\ sent[p].at \in Int /\ sent[p].dt \in Int
      BY <1>2 DEF Common, Sent
    <3> QED
      BY <3>1, <3>2
  <2> QED
    BY <2>1 DEF NeverEarly
<1>5. TimesOut
  <2>1. ASSUME phase = "done", NEW p \in Parts, prt[p].waiting > 0
        PROVE  Cmd(p).k = "hold" /\ prt[p].waiting = Cmd(p).timeout - (now - since[p])
    <3>1. PICK x \in Prtn(now) : x = prt[p]
      BY <1>2
    <3>2. /\ x.waiting # 0 /\ x.waiting > 0 /\ x.waiting \in Int
          /\ Common(p, x, since[p], sent[p])
      BY <1>1, <1>2, <2>1, <3>1, LastRight
    <3>3. Latest(x) = now
      BY <1>1, <2>1, <3>1 DEF PartInv, InSecond
    <3>4. x.next # 0 /\ Here(x).k = "hold" /\ x.waiting = Here(x).timeout + since[p] - now
      BY <3>2, <3>3 DEF Common
    <3>5. Here(x).timeout \in Int
      BY <1>1, <1>2, <3>2, <3>4, HereRight
    <3>6. Cmd(p) = Here(x)
      BY <3>1 DEF Cmd, Cmds, Here, CmdsOf
    <3> QED
      BY <1>1, <1>2, <3>1, <3>4, <3>5, <3>6
  <2> QED
    BY <2>1 DEF TimesOut
<1> QED
  BY <1>3, <1>4, <1>5 DEF TimesKept

LEMMA CaughtUpFollows == IInv => CaughtUp
<1> SUFFICES ASSUME IInv, phase = "done", NEW p \in Parts
             PROVE  /\ Active(p) /\ ~holding /\ prt[p].waiting = 0 =>
                         Cmd(p).dt > Elapsed(p) \/ NeverTimesOut(Cmd(p))
                    /\ prt[p].waiting # 0 => Cmd(p).k = "hold"
  BY DEF CaughtUp
<1>1. Common(p, prt[p], since[p], sent[p]) /\ Done(prt[p], now, holding)
  BY DEF IInv, PartInv
<1>2. Cmd(p) = Here(prt[p]) /\ Elapsed(p) = now - prt[p].base
  BY DEF Cmd, Cmds, Here, CmdsOf, Elapsed
<1> QED
  BY <1>1, <1>2 DEF Common, Done, Active

\* Commands and time-outs keep the time of their state, for every program.
THEOREM TimesRight == Spec => []TimesKept
BY InitRight, StepKeeps, TimesFollow, PTL DEF Spec

\* Nothing that is due is left when tma_process has returned 0.
THEOREM UpToDate == Spec => []CaughtUp
BY InitRight, StepKeeps, CaughtUpFollows, PTL DEF Spec
=============================================================================
