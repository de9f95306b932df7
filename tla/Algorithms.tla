------------------------------ MODULE Algorithms ------------------------------
(***************************************************************************)
(* The run time of telemetry algorithms: src/tmlib/src/tmaR2.c, tma.c and  *)
(* the main loop tmcalgo generates (src/tmcalgo/states.c).  Each partition *)
(* runs one state, a table of commands with the second at which each is    *)
(* due.  Once a second tma_process brings every partition up to date; it   *)
(* returns early when a state must be validated, and is called again until *)
(* it returns 0.  A hold stops the clock of its state until it times out,  *)
(* its condition is met or another partition resumes the state; the        *)
(* operator may stop all clocks (tma_hold).                                *)
(*                                                                         *)
(* basetime, the time the state began plus the time it was held, is moved  *)
(* at the end of each second; lastcheck tells what was already counted.    *)
(***************************************************************************)
EXTENDS Integers, Sequences, FiniteSetsExt

CONSTANTS
  N,           \* partitions
  Program,     \* state -> [part, cmds]
  FirstState,  \* partition -> its first state
  DataStates,  \* states validated by TMC code, outside tma_process
  MaxTime, MaxEvents  \* bounds: seconds, events between them

\* What tmcalgo (or a file that is read) makes of a command: the second at which
\* it is due, what it does and to which state.  A hold skips its else clause by
\* success commands, and is without a timeout if it is negative.
Command ==
  [dt : Nat, k : {"send", "idle"}] \cup [dt : {-1}, k : {"end"}] \cup
  [dt : Nat, k : {"validate", "resume"}, state : DOMAIN Program] \cup
  [dt : Nat, k : {"hold"}, success : Nat \ {0}, timeout : Int \ {0},
   goes : DOMAIN Program \cup {"none", "until"}]

\* The end is the last command; the others come in the order of their times
Commands(cmds) ==
  /\ cmds \in Seq(Command) /\ cmds # <<>>
  /\ \A i \in 1..Len(cmds) :
       /\ cmds[i].k = "end" <=> i = Len(cmds)
       /\ cmds[i].k = "hold" => i + cmds[i].success <= Len(cmds)
       /\ \A j \in i..Len(cmds) - 1 : cmds[i].dt <= cmds[j].dt

ASSUME AlgorithmsAssumption ==
  /\ N \in Nat \ {0} /\ {MaxTime, MaxEvents} \subseteq Nat
  /\ \A s \in DOMAIN Program : Program[s].part \in 1..N /\ Commands(Program[s].cmds)
  /\ FirstState \in [1..N -> DOMAIN Program] /\ DataStates \subseteq DOMAIN Program
  /\ \A p \in 1..N : Program[FirstState[p]].part = p

VARIABLES
  now,            \* data stream time; 0 until telemetry starts
  prt,            \* tma_partitions
  holding,        \* tma_is_holding
  until,          \* is the hold's substate valid, so that its condition is watched
  phase, at,      \* where tma_process is, and in which partition
  events,
  run, held,      \* history: seconds the state ran; was it held when the second ended
  since, sent     \* history: when the hold was due, the command sent last

hist == <<run, held, since, sent>>
vars == <<now, prt, holding, until, phase, at, events, hist>>

Parts == 1..N
Cmds(p) == Program[prt[p].state].cmds
Cmd(p)  == Cmds(p)[prt[p].next]
Active(p) == prt[p].next # 0        \* 0 stands for next_cmd == -1

\* Commands of a state sent when the program starts, before time is known
StartUp(s) == LET c == Program[s].cmds IN
              Min({i \in 1..Len(c) : c[i].dt # 0 \/ c[i].k # "send"})

Init ==
  /\ now = 0 /\ holding = FALSE /\ events = 0
  /\ prt = [p \in Parts |-> [state |-> FirstState[p], next |-> StartUp(FirstState[p]),
                             waiting |-> 0, base |-> 0, last |-> -1]]
  /\ until = [p \in Parts |-> FALSE]
  /\ phase = "idle" /\ at = 1
  /\ run = [p \in Parts |-> 0] /\ held = [p \in Parts |-> FALSE]
  /\ since = [p \in Parts |-> 0] /\ sent = [p \in Parts |-> [dt |-> 0, at |-> 0]]

\* lastcheck, not earlier than basetime
LastCheck(p) == Max({prt[p].last, prt[p].base})
Elapsed(p)   == now - prt[p].base

\* tma_init_state: what validating state s makes of table t, and of the rest
Entered(t, s) ==
  [t EXCEPT ![Program[s].part] =
     [state |-> s, next |-> 1, waiting |-> 0, base |-> now, last |-> now - 1]]
ResetFor(s) ==
  LET p == Program[s].part IN
  /\ until' = [until EXCEPT ![p] = FALSE]
  /\ run' = [run EXCEPT ![p] = 0] /\ held' = [held EXCEPT ![p] = FALSE]
  /\ sent' = [sent EXCEPT ![p] = [dt |-> 0, at |-> 0]]

\* tma_succeed on partition q of table t; ok says whether its hold is meant
Succeed(t, q, ok) ==
  LET c == Program[t[q].state].cmds[t[q].next] IN
  IF t[q].next # 0 /\ c.k = "hold" /\ ok
  THEN [t EXCEPT ![q].waiting = 0, ![q].next = @ + c.success]
  ELSE t

-----------------------------------------------------------------------------
(* One second: tma_process until it returns 0. *)

\* The first time, the clocks of all partitions start
Second ==
  /\ phase \in {"done", "idle"} /\ now < MaxTime
  /\ now' = now + 1
  /\ IF now = 0
     THEN prt' = [p \in Parts |-> [prt[p] EXCEPT !.base = 1, !.last = 0]] /\ UNCHANGED run
     ELSE /\ UNCHANGED prt
          /\ run' = [p \in Parts |-> IF held[p] THEN run[p] ELSE run[p] + 1]
  /\ phase' = "enter" /\ at' = 1
  /\ UNCHANGED <<holding, until, events, held, since, sent>>

NextPartition ==
  IF at = N THEN phase' = "end" /\ UNCHANGED at ELSE phase' = "enter" /\ at' = at + 1

CallAgain == phase' = "enter" /\ at' = 1

\* A timeout that has passed; then the partition's commands, unless it waits
Expired(p) == prt[p].waiting > 0 /\ now - LastCheck(p) >= prt[p].waiting

Enter ==
  /\ phase = "enter"
  /\ IF now # prt[at].last /\ Expired(at)
     THEN prt' = [prt EXCEPT ![at].waiting = 0, ![at].next = @ + 1]
     ELSE UNCHANGED prt
  /\ IF now # prt[at].last /\ prt'[at].waiting = 0 /\ ~holding /\ prt'[at].next # 0
     THEN phase' = "run" /\ UNCHANGED at
     ELSE NextPartition
  /\ UNCHANGED <<now, holding, until, events, hist>>

Step(k) == phase = "run" /\ Cmd(at).k = k /\ Cmd(at).dt <= Elapsed(at)
Advanced == [prt EXCEPT ![at].next = @ + 1]

EndOfState ==
  /\ Step("end")
  /\ prt' = [prt EXCEPT ![at].next = 0]
  /\ NextPartition
  /\ UNCHANGED <<now, holding, until, events, hist>>

NotYet ==
  /\ phase = "run" /\ Cmd(at).dt > Elapsed(at)
  /\ NextPartition
  /\ UNCHANGED <<now, prt, holding, until, events, hist>>

Send ==
  /\ Step("send")
  /\ prt' = Advanced
  /\ sent' = [sent EXCEPT ![at] = [dt |-> Cmd(at).dt, at |-> run[at]]]
  /\ UNCHANGED <<now, holding, until, phase, at, events, run, held, since>>

\* Return the case of a state, of this partition or another: it is validated
Validate ==
  /\ Step("validate")
  /\ prt' = Entered(Advanced, Cmd(at).state) /\ ResetFor(Cmd(at).state)
  /\ CallAgain
  /\ UNCHANGED <<now, holding, events, since>>

\* The idle substate: the hold before it is over
Idle ==
  /\ Step("idle")
  /\ prt' = Advanced
  /\ until' = [until EXCEPT ![at] = FALSE]
  /\ CallAgain
  /\ UNCHANGED <<now, holding, events, hist>>

\* next_cmd stays at a hold.  waiting counts from lastcheck; it is negative
\* without a timeout
Timeout_FromNow(c) == c.timeout
Timeout(c) ==
  IF c.timeout > 0 THEN c.timeout + c.dt + prt[at].base - LastCheck(at) ELSE c.timeout

Waits == [prt EXCEPT ![at].waiting = Timeout(Cmd(at))]

HoldStarts ==
  /\ Step("hold")
  /\ since' = [since EXCEPT ![at] = prt[at].base + Cmd(at).dt]
  /\ UNCHANGED <<now, holding, events>>

Hold ==
  /\ HoldStarts /\ Cmd(at).goes = "none"
  /\ prt' = Waits
  /\ NextPartition
  /\ UNCHANGED <<until, run, held, sent>>

\* hold until: the condition is looked at as soon as its substate is validated
HoldUntil ==
  /\ HoldStarts /\ Cmd(at).goes = "until"
  /\ \/ prt' = Waits /\ until' = [until EXCEPT ![at] = TRUE]
     \/ prt' = Succeed(Waits, at, TRUE) /\ until' = [until EXCEPT ![at] = FALSE]
  /\ CallAgain
  /\ UNCHANGED <<run, held, sent>>

\* hold and validate
HoldAndValidate ==
  /\ HoldStarts /\ Cmd(at).goes \in DOMAIN Program
  /\ prt' = Entered(Waits, Cmd(at).goes) /\ ResetFor(Cmd(at).goes)
  /\ CallAgain

\* Resume: the state is released if it is the one that holds in its partition;
\* a partition already passed over needs another call
Resume_NeverAgain ==
  /\ Step("resume")
  /\ LET s == Cmd(at).state
         q == Program[s].part
     IN  prt' = Succeed(Advanced, q, prt[q].state = s)
  /\ UNCHANGED <<phase, at, now, holding, until, events, hist>>
Resume ==
  /\ Step("resume")
  /\ LET s == Cmd(at).state
         q == Program[s].part
     IN  /\ prt' = Succeed(Advanced, q, prt[q].state = s)
         /\ IF q < at THEN CallAgain ELSE UNCHANGED <<phase, at>>
  /\ UNCHANGED <<now, holding, until, events, hist>>

\* The end of tma_process: the clocks of held partitions are set back by the
\* time since they were last looked at
Shifted(p) == prt[p].waiting # 0 \/ holding

EndOfSecond ==
  /\ phase = "end"
  /\ prt' = [p \in Parts |->
       LET dt == now - LastCheck(p) IN
       IF Shifted(p)
       THEN [prt[p] EXCEPT !.base = @ + dt, !.last = now,
                           !.waiting = IF @ > dt THEN @ - dt ELSE Min({@, 0})]
       ELSE [prt[p] EXCEPT !.last = now]]
  /\ held' = [p \in Parts |-> prt[p].waiting # 0 \/ holding]
  /\ phase' = "done" /\ at' = 1
  /\ UNCHANGED <<now, holding, until, events, run, since, sent>>

Process == \/ Enter \/ EndOfState \/ NotYet \/ Send \/ Validate \/ Idle \/ Hold
           \/ HoldUntil \/ HoldAndValidate \/ Resume \/ EndOfSecond

-----------------------------------------------------------------------------
(* What may happen between two calls. *)

Between ==
  /\ phase \in {"done", "idle"} /\ now > 0 /\ events < MaxEvents
  /\ events' = events + 1 /\ phase' = "idle"
  /\ UNCHANGED <<now, at, since>>

\* The condition of a hold is met, though the hold may have timed out
ConditionMet(p) ==
  /\ Between /\ until[p]
  /\ prt' = Succeed(prt, p, Cmd(p).goes = "until")
  /\ until' = [until EXCEPT ![p] = FALSE]
  /\ UNCHANGED <<holding, run, held, sent>>

\* A TMC statement validates a state
DataValidates(s) ==
  /\ Between
  /\ prt' = Entered(prt, s) /\ ResetFor(s)
  /\ UNCHANGED holding

\* The operator stops or starts the clocks
tma_hold ==
  /\ Between
  /\ holding' = ~holding
  /\ UNCHANGED <<prt, until, run, held, sent>>

Next == \/ Second \/ Process \/ tma_hold
        \/ \E p \in Parts : ConditionMet(p)
        \/ \E s \in DataStates : DataValidates(s)

Spec == Init /\ [][Next]_vars

-----------------------------------------------------------------------------
\* Every variable is of its type.
TypeOK ==
  /\ now \in 0..MaxTime /\ events \in 0..MaxEvents /\ holding \in BOOLEAN
  /\ phase \in {"enter", "run", "end", "done", "idle"} /\ at \in Parts
  /\ until \in [Parts -> BOOLEAN]
  /\ \A p \in Parts :
       /\ Program[prt[p].state].part = p /\ prt[p].next \in 0..Len(Cmds(p))
       /\ prt[p].base \in 0..now /\ prt[p].last \in -1..now /\ prt[p].waiting \in Int

\* A hold in the first second of a state stops its clock a second late: then
\* lastcheck is the same second, and nothing is set back in it.
Lead(p) == IF \E i \in 1..Len(Cmds(p)) : Cmds(p)[i].k = "hold" /\ Cmds(p)[i].dt = 0
           THEN 1 ELSE 0

\* A command is sent when its state has run for the seconds it was given, not
\* counting those it was held: never before, whoever held or released it.
NeverEarly == \A p \in Parts : sent[p].at >= sent[p].dt - Lead(p)

\* At the end of a second the partition waits for what is left of its timeout.
TimesOut ==
  phase = "done" =>
    \A p \in Parts : prt[p].waiting > 0 =>
      Cmd(p).k = "hold" /\ prt[p].waiting = Cmd(p).timeout - (now - since[p])

\* Commands and time-outs keep the time of their state, whoever holds, releases
\* or resumes what.
TimesKept == TypeOK /\ NeverEarly /\ TimesOut

\* A hold of one second in the first second of a state, when that second is over
\* before the state is looked at: waiting becomes 0 before it can time out, and
\* the hold is executed again in each second that follows.
NeverTimesOut(c) == c.k = "hold" /\ c.dt = 0 /\ c.timeout = 1

\* When tma_process has returned 0 nothing is left that is due: a state that
\* was validated or resumed in this second has caught up with it, also in a
\* partition passed over before, and only holds keep a partition back.
CaughtUp ==
  phase = "done" =>
    \A p \in Parts :
      /\ Active(p) /\ ~holding /\ prt[p].waiting = 0 =>
           Cmd(p).dt > Elapsed(p) \/ NeverTimesOut(Cmd(p))
      /\ prt[p].waiting # 0 => Cmd(p).k = "hold"
=============================================================================
