------------------------------ MODULE Collector ------------------------------
(***************************************************************************)
(* A telemetry collector: the main program tmc generates from              *)
(* src/tmc/colmain.skel over class collector (src/tmpplib/src/DGcol.cc)    *)
(* and data_generator (DG.cc).  Every timer pulse collects one row, labels *)
(* it with the minor frame counter and sends it to TM/DG, a new time stamp *)
(* first when one is due.  Rows of the frame may synch() a DG/data device  *)
(* (DG_data.cc), which answers the client that waits in a write to it.     *)
(*                                                                         *)
(* The program has one thread: a handler is one action.  Each row is       *)
(* written before the handler returns, so the data_queue between them is   *)
(* always empty and does not appear.                                       *)
(***************************************************************************)
EXTENDS Integers, FiniteSets

CONSTANTS
  NROWMINF, NROWMAJF,      \* rows of a minor, of a major frame
  MFSECNUM, MFSECDEN,      \* MFSECNUM minor frames take MFSECDEN seconds
  Mfcs,                    \* values of a minor frame counter, 2^16 in the code
  TS_MFC_LIMIT,            \* 32767 in the code
  TimeValues,              \* seconds before time_t wraps
  StartTimes,              \* what time(NULL) may return at a start
  SynchRows,               \* rows of the major frame that synch() the device
  Writers,                 \* clients of the device
  MaxCommands, MaxPulses   \* bounds: commands sent, timer pulses not handled

ASSUME CollectorAssumption ==
  /\ {NROWMINF, NROWMAJF, MFSECNUM, MFSECDEN, Mfcs, TimeValues} \subseteq Nat \ {0}
  /\ NROWMAJF % NROWMINF = 0
  /\ TS_MFC_LIMIT \in Nat /\ StartTimes \subseteq 0..TimeValues - 1
  /\ SynchRows \subseteq 0..NROWMAJF - 1
  /\ MaxCommands \in Nat /\ MaxPulses \in Nat \ {0}

NoWriter == "none"
Garbage  == "garbage"      \* a pointer nobody set

VARIABLES
  started, period, timer, quit, quitReceived,  \* data_generator, DG_dispatch
  attached, cmdOpen, pulses, ncmd, ended,      \* its loop, DG/cmd, DG_tmr
  col,                           \* majf_row, minf_row, next_minor_frame, MFCtr,
                                 \* ts_checks and tm_info.t_stmp
  written, blocked, wr, armed,   \* DG_data and its clients
  due, row                       \* history: when the next row is due, the last row

genVars == <<started, period, timer, quit, quitReceived>>
devVars == <<written, blocked, wr, armed>>
vars == <<genVars, attached, cmdOpen, pulses, ncmd, ended, col, devVars, due, row>>

-----------------------------------------------------------------------------
(* What tmc computes from the frame (postproc.c). *)

lcm(a, b) == CHOOSE m \in 1..a * b :
               /\ m % a = 0 /\ m % b = 0
               /\ \A k \in 1..m - 1 : k % a # 0 \/ k % b # 0

LCMMN == lcm(NROWMAJF \div NROWMINF, MFSECNUM)

ROLLOVER_MFC_Zero == 0
ROLLOVER_MFC == Mfcs % LCMMN

\* Time in units that divide both the second and the period of a row
Second    == MFSECNUM * NROWMINF
RowPeriod == MFSECDEN
TimeRange == TimeValues * Second

\* The time a reader of TM/DCo gives row r of minor frame m under stamp ts
RowTime(ts, m, r) ==
  (ts.secs * Second + (m - ts.mfc_num) * MFSECDEN * NROWMINF + r * RowPeriod)
    % TimeRange

Init ==
  /\ started = FALSE /\ period = "default" /\ timer = FALSE
  /\ quit = FALSE /\ quitReceived = FALSE
  /\ attached = TRUE /\ cmdOpen = FALSE /\ pulses = 0 /\ ncmd = 0 /\ ended = FALSE
  /\ col = [majf |-> 0, minf |-> 0, next |-> 0, mfc |-> 0, needed |-> FALSE,
            ts |-> [mfc_num |-> 0, secs |-> 0]]
  /\ written = FALSE
  /\ blocked \in {NoWriter, Garbage}     \* the constructor leaves it unset
  /\ wr = [w \in Writers |-> "closed"] /\ armed = {}
  /\ due = 0 /\ row = [sent |-> FALSE]

-----------------------------------------------------------------------------
(* Collecting a row.  The collector's state is a value c, because a single *)
(* step resets it and then collects from it in one handler.                *)

\* tmc_collector::event(dg_event_start)
Restarted(c) == [c EXCEPT !.next = 0, !.majf = 0, !.minf = 0, !.needed = TRUE]

\* The stamp the next row of c needs, with the counter after it
TooOld_Late(c) == c.next - c.ts.mfc_num > TS_MFC_LIMIT + 1
TooOld(c) == c.next - c.ts.mfc_num > TS_MFC_LIMIT

RolledOver(c) ==
  [next |-> ROLLOVER_MFC,
   ts |-> [mfc_num |-> 0,
           secs |-> (c.ts.secs +
                     (MFSECDEN * (Mfcs - c.ts.mfc_num - ROLLOVER_MFC)) \div MFSECNUM)
                       % TimeValues]]

Advanced(c) ==
  LET q == (c.next - c.ts.mfc_num) \div MFSECNUM IN
  [next |-> c.next,
   ts |-> [mfc_num |-> (c.ts.mfc_num + q * MFSECNUM) % Mfcs,
           secs |-> (c.ts.secs + MFSECDEN * q) % TimeValues]]

Stamped(c) ==
  IF c.needed
  THEN {[next |-> c.next % LCMMN, ts |-> [mfc_num |-> c.next % LCMMN, secs |-> t]] :
          t \in StartTimes}
  ELSE {IF c.next = 0 THEN RolledOver(c)
        ELSE IF TooOld(c) THEN Advanced(c)
        ELSE [next |-> c.next, ts |-> c.ts]}

\* DG_data::synch: answer the client that waits, notify those that asked
Synch ==
  /\ written' = FALSE /\ armed' = {}
  /\ wr' = [w \in Writers |-> IF w = blocked THEN "open" ELSE wr[w]]
  /\ blocked' = NoWriter

NextMfc(m) == (m + 1) % Mfcs

\* tmc_collector::service_row_timer; after quit nothing is written
CollectRow(c) ==
  \E s \in Stamped(c) :
    LET m == IF c.minf = 0 THEN s.next ELSE c.mfc IN
    /\ col' = [majf |-> (c.majf + 1) % NROWMAJF, minf |-> (c.minf + 1) % NROWMINF,
               next |-> IF c.minf = 0 THEN NextMfc(s.next) ELSE s.next,
               mfc |-> m, needed |-> FALSE, ts |-> s.ts]
    /\ LET at == IF c.needed THEN s.ts.secs * Second ELSE due IN
       /\ due' = (at + RowPeriod) % TimeRange
       /\ row' = IF quit THEN row
                 ELSE [sent |-> TRUE, mfc |-> m, minf |-> c.minf, majf |-> c.majf,
                       ts |-> s.ts, at |-> at]
    /\ IF c.majf \in SynchRows THEN Synch ELSE UNCHANGED devVars

-----------------------------------------------------------------------------
(* The dispatch loop. *)

\* After a message that is answered (rcvid is 0), once quit was received, the
\* clients of the loop detach; it ends when DG/cmd and DG/data are closed
AfterMessage_CountsBefore ==
  IF quitReceived'
  THEN /\ attached' = FALSE
       /\ ended' = (~cmdOpen /\ \A w \in Writers : wr[w] = "closed")
  ELSE UNCHANGED <<attached, ended>>
AfterMessage ==
  IF quitReceived'
  THEN /\ attached' = FALSE
       /\ ended' = (~cmdOpen' /\ \A w \in Writers : wr'[w] = "closed")
  ELSE UNCHANGED <<attached, ended>>

\* A command is answered before it is executed, and rcvid is left set
AfterCommand == UNCHANGED <<attached, ended>>

Settime(on) == timer' = (on /\ attached)

Start ==
  /\ started' = TRUE /\ Settime(period = "default")
  /\ col' = Restarted(col)
  /\ UNCHANGED <<period, quit, quitReceived, due, row, devVars>>

Stop ==
  /\ started' = FALSE /\ Settime(FALSE)
  /\ UNCHANGED <<period, quit, quitReceived, col, due, row, devVars>>

SingleStep ==
  /\ started' = TRUE /\ period' = "zero" /\ Settime(FALSE)
  /\ CollectRow(IF started THEN col ELSE Restarted(col))
  /\ UNCHANGED <<quit, quitReceived>>

Play ==
  /\ started' = TRUE /\ period' = "default" /\ Settime(TRUE)
  /\ col' = IF started THEN col ELSE Restarted(col)
  /\ UNCHANGED <<quit, quitReceived, due, row, devVars>>

Quit ==
  /\ started' = FALSE /\ quit' = TRUE /\ quitReceived' = TRUE /\ Settime(FALSE)
  /\ UNCHANGED <<period, col, due, row, devVars>>

\* A client opens DG/cmd, or has it open, and writes a command; those that
\* need regulation_optional do nothing here
Command ==
  /\ ~ended /\ ncmd < MaxCommands /\ (attached \/ cmdOpen)
  /\ Start \/ Stop \/ SingleStep \/ Play \/ Quit
  /\ ncmd' = ncmd + 1 /\ cmdOpen' = TRUE
  /\ AfterCommand
  /\ UNCHANGED pulses

CloseCmd ==
  /\ ~ended /\ cmdOpen
  /\ cmdOpen' = FALSE
  /\ UNCHANGED <<genVars, col, devVars, due, row, pulses, ncmd>>
  /\ AfterMessage

Tick ==
  /\ timer /\ attached /\ pulses < MaxPulses
  /\ pulses' = pulses + 1
  /\ UNCHANGED <<genVars, attached, cmdOpen, ncmd, ended, col, devVars, due, row>>

TimerPulse ==
  /\ pulses > 0 /\ attached
  /\ pulses' = pulses - 1
  /\ CollectRow(col)
  /\ UNCHANGED <<genVars, cmdOpen, ncmd>>
  /\ AfterMessage

-----------------------------------------------------------------------------
(* The clients of DG/data. *)

clientRest == <<genVars, cmdOpen, pulses, ncmd, col, due, row>>

Open(w) ==
  /\ attached /\ wr[w] = "closed"
  /\ wr' = [wr EXCEPT ![w] = "open"]
  /\ UNCHANGED <<clientRest, written, blocked, armed>>
  /\ AfterMessage

Close(w) ==
  /\ ~ended /\ wr[w] = "open"
  /\ wr' = [wr EXCEPT ![w] = "closed"] /\ armed' = armed \ {w}
  /\ UNCHANGED <<clientRest, written, blocked>>
  /\ AfterMessage

\* DG_data::io_write: the data is taken in any case; a blocking write waits
\* for synch() unless the program is quitting or somebody else waits (EBUSY)
CanBlock_Always == attached
CanBlock == attached /\ blocked = NoWriter

BlockingWrite(w) ==
  /\ ~ended /\ wr[w] = "open" /\ CanBlock
  /\ written' = TRUE /\ blocked' = w
  /\ wr' = [wr EXCEPT ![w] = "waiting"]
  /\ UNCHANGED <<clientRest, armed>>
  /\ AfterCommand                       \* not answered yet

AnsweredWrite(w) ==       \* O_NONBLOCK, refused, or quitting
  /\ ~ended /\ wr[w] = "open"
  /\ written' = TRUE
  /\ UNCHANGED <<clientRest, blocked, wr, armed>>
  /\ AfterMessage

\* DG_data_io_notify: ready at once, or when synch() has taken the data
Arm(w) ==
  /\ ~ended /\ wr[w] = "open"
  /\ armed' = IF written THEN armed \cup {w} ELSE armed
  /\ UNCHANGED <<clientRest, written, blocked, wr>>
  /\ AfterMessage

Next ==
  \/ Command \/ CloseCmd \/ Tick \/ TimerPulse
  \/ \E w \in Writers :
       Open(w) \/ Close(w) \/ BlockingWrite(w) \/ AnsweredWrite(w) \/ Arm(w)

Spec == Init /\ [][Next]_vars

\* The timer ticks, the loop serves its pulses, and clients that are not
\* waiting for an answer close in the end
Fairness ==
  /\ WF_vars(Tick) /\ WF_vars(TimerPulse) /\ WF_vars(CloseCmd)
  /\ \A w \in Writers : WF_vars(Close(w))

FairSpec == Spec /\ Fairness

-----------------------------------------------------------------------------
Running == started /\ timer /\ ~quit

\* Every variable is of its type.
TypeOK ==
  /\ {started, timer, quit, quitReceived, attached, cmdOpen, ended, written}
       \subseteq BOOLEAN
  /\ period \in {"default", "zero"}
  /\ pulses \in 0..MaxPulses /\ ncmd \in 0..MaxCommands
  /\ col \in [majf : 0..NROWMAJF - 1, minf : 0..NROWMINF - 1, next : 0..Mfcs - 1,
              mfc : 0..Mfcs - 1, needed : BOOLEAN,
              ts : [mfc_num : 0..Mfcs - 1, secs : 0..TimeValues - 1]]
  /\ blocked \in Writers \cup {NoWriter, Garbage}
  /\ wr \in [Writers -> {"closed", "open", "waiting"}] /\ armed \subseteq Writers
  /\ due \in 0..TimeRange - 1

\* The stamp sent last and the label of a row give the time the row was due:
\* start, plus the periods since, across every roll-over and every new stamp.
StampGivesTime == row.sent => RowTime(row.ts, row.mfc, row.minf) = row.at

\* Also, a row is never before its stamp nor more than TS_MFC_LIMIT minor
\* frames after it, so that readers may subtract the two as short integers.
RowTimes ==
  /\ TypeOK
  /\ StampGivesTime
  /\ row.sent => row.mfc - row.ts.mfc_num \in 0..TS_MFC_LIMIT

\* The label of a row also tells its place in the major frame, which is how
\* extractions choose what to unpack; the roll-over must not shift it.
PhaseKept == row.sent => row.majf = (row.mfc * NROWMINF + row.minf) % NROWMAJF

\* While rows are collected, a client that waits in a synchronized write is
\* answered and one that waits for room is notified, whoever else writes.
Answered ==
  \A w \in Writers :
    /\ (wr[w] = "waiting") ~> (wr[w] # "waiting" \/ ~Running)
    /\ (w \in armed) ~> (w \notin armed \/ ~Running)

\* Quit ends the program, unless it left a client waiting in a write.
QuitEnds == quit ~> (ended \/ \E w \in Writers : wr[w] = "waiting")
=============================================================================
