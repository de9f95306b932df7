------------------------------- MODULE Indexer -------------------------------
(***************************************************************************)
(* The stepper motor driver, src/drivers/idx64/idx64.c.  Each channel of a *)
(* board has a queue of commands; the board drives its channels on its own *)
(* and interrupts when a drive is done.  service_board, called for a new   *)
(* command and for an interrupt, goes on with the queues of the channels   *)
(* that have stopped.  A scan is a drive in steps of its own, one for each *)
(* pulse of the telemetry (service_scan); while it lasts, interrupts only  *)
(* record that the step is done.                                           *)
(*                                                                         *)
(* The driver has one thread: a handler is one action.  What interleaves   *)
(* is the motors, the interrupts, the telemetry's pulses and the commands; *)
(* an interrupt may come when its drive has long been noticed.             *)
(***************************************************************************)
EXTENDS Integers, Sequences

CONSTANTS
  Chans, BoardOf,        \* channels in use, and the board of each
  ScanBit, StatusBits,   \* channels with a scan bit, with on and supp bits
  Positions,             \* number of values of step_t
  Lines, StartPos,       \* what earlier commands have set
  Commands,              \* commands that may be queued
  Settings,              \* commands that only set a position
  Limits,                \* motors may run into a limit switch
  MaxCommands            \* bound on the commands sent

Kinds == {"in", "out", "to", "online", "offline", "altline", "preset", "speed"}

ASSUME IndexerAssumption ==
  /\ ScanBit \subseteq Chans /\ StatusBits \subseteq Chans
  /\ Positions \in Nat \ {0} /\ StartPos \in 0..Positions - 1
  /\ Commands \subseteq [k : Kinds, scan : BOOLEAN, steps : 0..Positions - 1,
                         dsteps : 0..Positions - 1]
  /\ \A cmd \in Commands : cmd.scan => cmd.k \in {"in", "out", "to"}
  /\ Limits \in BOOLEAN /\ MaxCommands \in Nat

Boards == {BoardOf[c] : c \in Chans}

VARIABLES
  line,   \* chandef: online, offline and altline positions, hysteresis
  st,     \* chandef's queue, its bits in request, scans and telemetry, the motor;
          \* history: a limit was hit, the drive was to overshoot past 0
  sent,   \* what telemetry was sent last
  quit, ncmd,
  ended   \* history: the command completed last

vars == <<line, st, sent, quit, ncmd, ended>>

NoTM == [scan |-> FALSE, line |-> "none"]

Init ==
  /\ line = Lines
  /\ st = [c \in Chans |->
             [q |-> <<>>, request |-> FALSE, scan |-> FALSE, tm |-> NoTM,
              pos |-> StartPos, dir |-> "in", left |-> 0, limit |-> "none",
              intr |-> FALSE, driven |-> FALSE, hit |-> FALSE, under |-> FALSE]]
  /\ sent = [c \in Chans |-> NoTM]
  /\ quit = FALSE /\ ncmd = 0
  /\ ended = [c \in Chans |-> [goal |-> 0, pos |-> 0, exact |-> FALSE]]

Step(n) == n % Positions

-----------------------------------------------------------------------------
(* A channel c works on its state s; its command is the front of s.q. *)

\* The steps are written to the board's register; no steps are done at once
WriteDrive(s, dir, n) ==
  [s EXCEPT !.dir = dir, !.left = IF s.limit = dir THEN 0 ELSE n,
            !.intr = @ \/ n = 0 \/ s.limit = dir]

\* tm_status_set of the on and supp bits
ShowLine(c, s, l) == IF c \in StatusBits THEN [s EXCEPT !.tm.line = l] ELSE s

Dequeue(s) == [s EXCEPT !.q = Tail(@)]

\* translate_steps: the positions the lines stand for, and what way it is to one
LinePos(c, k, steps) ==
  LET l == line[c] IN
  CASE k = "online"  -> l.online
    [] k = "offline" -> IF l.offline_pos # 0 THEN l.offline_pos
                        ELSE Step(l.online + l.offline_delta)
    [] k = "altline" -> IF l.altline_pos # 0 THEN l.altline_pos
                        ELSE Step(l.online + l.altline_delta)
    [] k = "to"      -> steps

Translate(c, s, k, steps) ==
  IF k = "out" THEN [dir |-> "out", steps |-> steps, dest |-> Step(s.pos + steps)]
  ELSE IF k = "in" THEN [dir |-> "in", steps |-> steps, dest |-> Step(s.pos - steps)]
  ELSE LET dest == LinePos(c, k, steps) IN
       IF s.pos < dest THEN [dir |-> "out", steps |-> dest - s.pos, dest |-> dest]
       ELSE [dir |-> "in", steps |-> s.pos - dest, dest |-> dest]

\* The end of drive_chan: no drive against a limit
RunDrive(s, dir, n) ==
  IF s.limit = dir THEN [s EXCEPT !.driven = FALSE, !.hit = TRUE]
  ELSE [WriteDrive(s, dir, n) EXCEPT !.driven = TRUE]

\* A drive inwards goes too far by the hysteresis, to come back outwards
Overshoots(c, t) ==
  t.dir = "in" /\ line[c].hysteresis # 0 /\ t.dest - t.steps < t.dest

FirstDrive(c, s) ==
  LET im == Head(s.q)
      t  == Translate(c, s, im.k, IF im.scan THEN im.dsteps ELSE im.steps)
      flags == {f \in {"hyst"} : Overshoots(c, t)} \cup
               {f \in {"status"} : im.k \in {"online", "offline", "altline"}}
  IN RunDrive(ShowLine(c, [s EXCEPT !.under = Overshoots(c, t) /\ t.dest < line[c].hysteresis,
                                    !.q[1].dest = t.dest,
                                    !.q[1].flags = (@ \ {"drive"}) \cup flags], "none"),
              t.dir,
              IF Overshoots(c, t) THEN Step(t.steps + line[c].hysteresis) ELSE t.steps)

\* The drive back; not needed where a limit kept the motor from the overshoot.
\* Past 0 step_t wraps: the motor seems not to have passed its goal, and stays.
HystDrive_Status(s) == [s EXCEPT !.q[1].flags = @ \ {"hyst"}, !.driven = FALSE]
HystDrive(s) ==
  IF Head(s.q).dest > s.pos
  THEN RunDrive([s EXCEPT !.q[1].flags = @ \ {"hyst"}], "out", Head(s.q).dest - s.pos)
  ELSE [s EXCEPT !.q[1].flags = @ \ {"hyst", "status"}, !.driven = FALSE]

drive_chan(c, s) == IF "drive" \in Head(s.q).flags THEN FirstDrive(c, s) ELSE HystDrive(s)

\* execute_cmd: the queue until a motor runs, a scan begins or nothing is left
RECURSIVE execute_cmd(_, _)
execute_cmd(c, s) ==
  IF s.q = <<>> THEN [s EXCEPT !.request = FALSE]
  ELSE
  LET im == Head(s.q)
      t  == Translate(c, s, im.k, im.steps)
      began == [s EXCEPT !.q[1].flags = {}, !.hit = FALSE, !.under = FALSE]
  IN
  CASE "init" \in im.flags /\ im.k = "preset" ->
         execute_cmd(c, Dequeue([s EXCEPT !.pos = im.steps]))
    [] "init" \in im.flags /\ im.k = "speed" ->
         execute_cmd(c, Dequeue(s))
    [] "init" \in im.flags /\ im.scan ->
         [began EXCEPT !.scan = TRUE, !.request = FALSE, !.q[1].k = t.dir,
                       !.q[1].steps = t.steps, !.q[1].goal = t.dest]
    [] "init" \in im.flags /\ ~im.scan /\ im.k \notin {"preset", "speed"} ->
         execute_cmd(c, [began EXCEPT !.q[1].flags = {"drive"}, !.q[1].goal = t.dest])
    [] im.flags \cap {"drive", "hyst"} # {} ->
         LET d == drive_chan(c, s) IN
         IF d.driven THEN d ELSE execute_cmd(c, IF im.scan THEN d ELSE Dequeue(d))
    [] im.flags = {"status"} ->
         execute_cmd(c, ShowLine(c, [s EXCEPT !.q[1].flags = {}], im.k))
    [] im.flags = {} /\ im.scan -> [s EXCEPT !.request = FALSE]
    [] im.flags = {} /\ ~im.scan -> execute_cmd(c, Dequeue(s))

\* What the command at the front has come to, when it leaves the queue
Completed(c, s, s1) ==
  LET im == Head(s.q) IN
  IF s.q # <<>> /\ "init" \notin im.flags /\ Len(s1.q) < Len(s.q)
  THEN [goal |-> im.goal, pos |-> s.pos,
        exact |-> ~s.hit /\ ~s.under /\ ~(im.scan /\ im.k = "in" /\ line[c].hysteresis # 0)]
  ELSE ended[c]

-----------------------------------------------------------------------------
(* The handlers. *)

\* The channels' new states, and what became of their commands
Become(s1) ==
  /\ st' = s1
  /\ ended' = [c \in Chans |-> Completed(c, st[c], s1[c])]

\* service_board: the requests of channels that do not run
Stopped_Any(s) == TRUE
Stopped(s) == s.left = 0

Serviced(c, s) ==
  IF ~(s.request /\ Stopped(s)) THEN s
  ELSE IF s.scan THEN [s EXCEPT !.request = FALSE]
  ELSE execute_cmd(c, s)

service_board(b, s) ==
  [c \in Chans |-> IF BoardOf[c] = b THEN Serviced(c, s[c]) ELSE s[c]]

\* queue_request
Command(c) ==
  /\ ~quit /\ ncmd < MaxCommands
  /\ \E cmd \in Commands :
       LET im == [k |-> cmd.k, scan |-> cmd.scan, steps |-> cmd.steps,
                  dsteps |-> cmd.dsteps, flags |-> {"init"}, dest |-> 0, goal |-> 0]
       IN Become(service_board(BoardOf[c],
                   [st EXCEPT ![c].q = Append(@, im), ![c].request = TRUE]))
  /\ ncmd' = ncmd + 1
  /\ UNCHANGED <<line, sent, quit>>

\* stop_channel; the queue is freed and the motor driven out one step
StopChannel(s) ==
  WriteDrive([s EXCEPT !.q = <<>>, !.request = FALSE, !.scan = FALSE, !.tm = NoTM],
             "out", 1)

Stop(c) ==
  /\ ~quit /\ ncmd < MaxCommands
  /\ st' = [st EXCEPT ![c] = StopChannel(@)]
  /\ ncmd' = ncmd + 1
  /\ UNCHANGED <<line, sent, quit, ended>>

\* The commands of drive_command that do not touch the hardware
SetLine(l, set) ==
  CASE set.k = "move_online_out" -> [l EXCEPT !.online = Step(@ + l.online_delta)]
    [] set.k = "move_online_in"  -> [l EXCEPT !.online = Step(@ - l.online_delta)]
    [] set.k = "set_online"      -> [l EXCEPT !.online = set.v]
    [] set.k = "set_on_delta"    -> [l EXCEPT !.online_delta = set.v]
    [] set.k = "set_off_delta"   -> [l EXCEPT !.offline_delta = set.v, !.offline_pos = 0]
    [] set.k = "set_off_pos"     -> [l EXCEPT !.offline_pos = set.v]
    [] set.k = "set_alt_delta"   -> [l EXCEPT !.altline_delta = set.v, !.altline_pos = 0]
    [] set.k = "set_alt_pos"     -> [l EXCEPT !.altline_pos = set.v]
    [] set.k = "set_hysteresis"  -> [l EXCEPT !.hysteresis = set.v]

Set(c) ==
  /\ ~quit /\ ncmd < MaxCommands
  /\ \E set \in Settings : line' = [line EXCEPT ![c] = SetLine(@, set)]
  /\ ncmd' = ncmd + 1
  /\ UNCHANGED <<st, sent, quit, ended>>

\* expint.c and subbusd deliver the interrupt of a board
Interrupt(b) ==
  /\ ~quit /\ \E c \in Chans : BoardOf[c] = b /\ st[c].intr
  /\ Become(service_board(b,
       [c \in Chans |-> IF BoardOf[c] = b THEN [st[c] EXCEPT !.intr = FALSE] ELSE st[c]]))
  /\ UNCHANGED <<line, sent, quit, ncmd>>

\* service_scan: the scan bit is seen in telemetry before the first step and
\* until after the last
BitComesFirst_Never(c, s) == FALSE
BitComesFirst(c, s) == Head(s.q).steps # 0 /\ c \in ScanBit /\ ~s.tm.scan

StepOf(im) ==
  LET d == IF im.dsteps = 0 THEN 1 ELSE im.dsteps IN IF d > im.steps THEN im.steps ELSE d

ScanOver_NextWaits(c, s) == Dequeue([s EXCEPT !.scan = FALSE, !.request = TRUE])
ScanOver(c, s) == execute_cmd(c, Dequeue([s EXCEPT !.scan = FALSE, !.request = TRUE]))

service_scan(c, s) ==
  LET im == Head(s.q)
      n  == StepOf(im)
      d  == drive_chan(c, [s EXCEPT !.q[1].dsteps = n, !.q[1].steps = @ - n,
                                    !.q[1].flags = @ \cup {"drive"}])
  IN IF BitComesFirst(c, s) THEN [s EXCEPT !.tm.scan = TRUE]
     ELSE IF im.steps # 0
     THEN IF d.driven THEN [d EXCEPT !.request = TRUE] ELSE [d EXCEPT !.q[1].steps = 0]
     ELSE IF im.dsteps # 0 /\ c \in ScanBit
     THEN [s EXCEPT !.tm.scan = FALSE, !.q[1].dsteps = 0]
     ELSE ScanOver(c, s)

\* scan_pulse: telemetry is sent, then each scan whose step is done goes on
ScanPulse ==
  /\ ~quit
  /\ sent' = [c \in Chans |-> st[c].tm]
  /\ Become([c \in Chans |->
       LET s == [st[c] EXCEPT !.request = @ /\ ~(st[c].scan /\ Stopped(st[c]))] IN
       IF s.scan /\ ~s.request THEN service_scan(c, s) ELSE s])
  /\ UNCHANGED <<line, quit, ncmd>>

\* operate() returns and shutdown_boards stops every channel
Quit ==
  /\ ~quit /\ quit' = TRUE
  /\ st' = [c \in Chans |-> StopChannel(st[c])]
  /\ UNCHANGED <<line, sent, ncmd, ended>>

-----------------------------------------------------------------------------
(* The motors: a step, or the limit switch instead. *)

Moves(c) ==
  /\ st[c].left > 0
  /\ st' = [st EXCEPT ![c].pos = IF st[c].dir = "out" THEN Step(@ + 1) ELSE Step(@ - 1),
                      ![c].left = @ - 1, ![c].limit = "none",
                      ![c].intr = @ \/ st[c].left = 1]
  /\ UNCHANGED <<line, sent, quit, ncmd, ended>>

HitsLimit(c) ==
  /\ Limits /\ st[c].left > 0
  /\ st' = [st EXCEPT ![c].left = 0, ![c].limit = st[c].dir, ![c].intr = TRUE,
                      ![c].hit = TRUE]
  /\ UNCHANGED <<line, sent, quit, ncmd, ended>>

Runs(c) == Moves(c) \/ HitsLimit(c)

Next ==
  \/ \E c \in Chans : Command(c) \/ Stop(c) \/ Set(c) \/ Runs(c)
  \/ \E b \in Boards : Interrupt(b)
  \/ ScanPulse \/ Quit

Spec == Init /\ [][Next]_vars

\* Motors run, interrupts are delivered and telemetry goes on
Fairness ==
  /\ \A c \in Chans : WF_vars(Runs(c))
  /\ \A b \in Boards : WF_vars(Interrupt(b))
  /\ WF_vars(ScanPulse)

FairSpec == Spec /\ Fairness

-----------------------------------------------------------------------------
\* A motor that runs is left alone until it has stopped, unless it is told to
\* stop: neither a new command, a late interrupt nor a telemetry pulse that
\* comes early writes over the drive.
DrivesWhenStopped == [][\A c \in Chans :
  st[c].left > 0 /\ <<st[c].left, st[c].dir>>' # <<st[c].left, st[c].dir>>
    => Runs(c) \/ Stop(c) \/ Quit]_vars

\* A command that leaves the queue has brought the motor where it was to go,
\* hysteresis included, unless a limit was in the way.  Two kinds of drives
\* inwards with a hysteresis are exempt, for the code does not bring them there:
\* scans, for which service_scan never makes the drive back, and drives to a
\* position below the hysteresis, which overshoot past 0 (idx64.c:405).
Arrives == \A c \in Chans : ended[c].exact => ended[c].pos = ended[c].goal

\* Telemetry shows a scan before it makes its first step and until its last
\* is done, whatever the motor and the commands do between the pulses.
ScanSeen == \A c \in ScanBit : st[c].scan /\ st[c].left > 0 => sent[c].scan

\* Every queue is worked off: no command waits for an interrupt that was
\* taken for something else, or for a scan that is over.
Drained == \A c \in Chans : st[c].q # <<>> ~> st[c].q = <<>>
=============================================================================
