------------------------------ MODULE Playback ------------------------------
(***************************************************************************)
(* rdr, src/rdr/rdr.cc: logged telemetry is played back to the buffer by   *)
(* three threads.  The input thread reads the log files and commits rows   *)
(* to the data_queue; the output thread transmits them, one row per timer  *)
(* pulse (regulated) or as fast as it can; the control thread runs the     *)
(* dispatch loop of src/tmpplib/src/DG.cc: commands, timer pulses and the  *)
(* quit pulse.                                                             *)
(*                                                                         *)
(* One mutex guards the queue, the control flags and the output file.      *)
(* Every critical section but one is a few assignments and is one step     *)
(* here, taken when the mutex is free; the one that blocks, writev to      *)
(* TM/DG, is the state pcO = "writev", and that is when it is not free.    *)
(* it_blocked and ot_blocked tell whom to post: whoever clears them posts  *)
(* the semaphore.  A local that is not read again goes back to 0.          *)
(***************************************************************************)
EXTENDS DataQueue, SequencesExt

CONSTANTS
  Log,            \* the log files, each a sequence of messages
  Options,        \* -a/-A, regulated, -q
  Commands,       \* commands the operator may send
  DefaultPeriod,  \* row_period_nsec_default
  Resolution,     \* timer_resolution_nsec
  MaxCommands, MaxPulses  \* bounds: commands sent, timer pulses not yet handled

Message == [type : {"ts"}, ts : Nat \ {0}] \cup
           [type : {"data"}, label : 0..Labels - 1, n : Nat]

ASSUME PlaybackAssumption ==
  /\ Log \in Seq(Seq(Message))
  /\ \A f \in DOMAIN Log :     \* lgr begins every file with a time stamp
       Log[f] # <<>> /\ Log[f][1].type = "ts"
  /\ Options \subseteq [autostart : BOOLEAN, regulate : BOOLEAN, autoquit : BOOLEAN]
  /\ Commands \subseteq {"c", "e", "s", ">", "+", "-", "}", "quit"}
  /\ DefaultPeriod \in Nat \ {0} /\ Resolution \in Nat \ {0}
  /\ MaxCommands \in Nat /\ MaxPulses \in Nat \ {0}

VARIABLES
  opt,                           \* the command line
  started, regulated, period, timer, quit, fdOpen,  \* data_generator
  dcQuit, file, msg, chunk, lastTs, haveTs,         \* data_client: place in the log
  itBlocked, itSem, otBlocked, otSem,               \* the handshake
  pcI, left, label, room,        \* input thread, process_data's locals
  pcO, single, txN, nr,          \* output thread, transmit_data's locals
  pcC, cmd, rcv, todo, quitReceived, attached, cmdOpen,
  pulses, quitPulses, ncmd,      \* control thread
  taken, sent      \* history: items committed or passed over, items written

genVars  == <<started, regulated, period, timer, quit, fdOpen>>
logVars  == <<file, msg, chunk, lastTs, haveTs>>
hsVars   == <<itBlocked, itSem, otBlocked, otSem>>
inVars   == <<pcI, left, label, room>>
outVars  == <<pcO, single, txN, nr>>
ctlVars  == <<pcC, cmd, rcv, todo, quitReceived, attached, cmdOpen, ncmd>>
pulseVars == <<pulses, quitPulses>>
vars == <<dqVars, opt, genVars, dcQuit, logVars, hsVars, inVars, outVars,
          ctlVars, pulseVars, taken, sent>>

MutexFree == pcO # "writev"

Init ==
  /\ InitQueue
  /\ opt \in Options
  /\ started = FALSE /\ regulated = opt.regulate /\ period = DefaultPeriod
  /\ timer = 0 /\ quit = FALSE /\ fdOpen = TRUE
  /\ dcQuit = FALSE
  /\ file = 0 /\ msg = 0 /\ chunk = 0 /\ lastTs = 0
  /\ haveTs \in BOOLEAN          \* the constructor leaves it unset
  /\ itBlocked = "no" /\ itSem = 0 /\ otBlocked = "no" /\ otSem = 0
  /\ pcI = "read" /\ left = 0 /\ label = 0 /\ room = 0
  /\ pcO = "top" /\ single = FALSE /\ txN = 0 /\ nr = 0
  /\ pcC = IF opt.autostart THEN "exec" ELSE "loop"
  /\ cmd = IF opt.autostart THEN "c" ELSE "none"
  /\ rcv = FALSE /\ todo = <<>> /\ quitReceived = FALSE
  /\ attached = TRUE /\ cmdOpen = FALSE
  /\ pulses = 0 /\ quitPulses = 0 /\ ncmd = 0
  /\ taken = 0 /\ sent = <<>>

\* Clear the flag of a thread that waits for one of S, and post its semaphore
WakeOutput(S) ==
  IF otBlocked \in S THEN otBlocked' = "no" /\ otSem' = otSem + 1
  ELSE UNCHANGED <<otBlocked, otSem>>

WakeInput_KeepsFlag(S) ==
  IF itBlocked \in S THEN itSem' = itSem + 1 /\ UNCHANGED itBlocked
  ELSE UNCHANGED <<itBlocked, itSem>>
WakeInput(S) ==
  IF itBlocked \in S THEN itBlocked' = "no" /\ itSem' = itSem + 1
  ELSE UNCHANGED <<itBlocked, itSem>>

-----------------------------------------------------------------------------
(* The input thread. *)

\* data_client::read on a log file: dc_quit is looked at between messages'
\* buffers only; one read may bring several messages
ReadLog ==
  /\ pcI = "read" /\ ~dcQuit
  /\ file \in DOMAIN Log /\ msg < Len(Log[file])
  /\ chunk' \in 1..Len(Log[file]) - msg
  /\ pcI' = "msg"
  /\ UNCHANGED <<dqVars, opt, genVars, dcQuit, file, msg, lastTs, haveTs, hsVars,
                 left, label, room, outVars, ctlVars, pulseVars, taken, sent>>

\* process_eof: the next file, or with -q the quit pulse and then the wait
EndOfFile ==
  /\ pcI = "read" /\ ~dcQuit
  /\ file \in DOMAIN Log => msg = Len(Log[file])
  /\ IF file < Len(Log)
     THEN file' = file + 1 /\ UNCHANGED <<pcI, quitPulses>>
     ELSE /\ file' = Len(Log) + 1 /\ pcI' = "eof"
          /\ quitPulses' = IF opt.autoquit THEN quitPulses + 1 ELSE quitPulses
  /\ msg' = 0
  /\ UNCHANGED <<dqVars, opt, genVars, dcQuit, chunk, lastTs, haveTs, hsVars,
                 left, label, room, outVars, ctlVars, pulses, taken, sent>>

WaitAtEof ==
  /\ pcI = "eof" /\ MutexFree
  /\ IF dcQuit THEN pcI' = "read" /\ UNCHANGED itBlocked
     ELSE pcI' = "wait_eof" /\ itBlocked' = "eof"
  /\ UNCHANGED <<dqVars, opt, genVars, dcQuit, logVars, itSem, otBlocked, otSem,
                 left, label, room, outVars, ctlVars, pulseVars, taken, sent>>

InputWoken ==
  /\ pcI \in {"wait_eof", "wait_data"} /\ itSem > 0
  /\ itSem' = itSem - 1
  /\ pcI' = IF pcI = "wait_eof" THEN "read" ELSE "rows"
  /\ UNCHANGED <<dqVars, opt, genVars, dcQuit, logVars, itBlocked, otBlocked, otSem,
                 left, label, room, outVars, ctlVars, pulseVars, taken, sent>>

InputDone ==
  /\ pcI = "read" /\ dcQuit
  /\ pcI' = "done"
  /\ UNCHANGED <<dqVars, opt, genVars, dcQuit, logVars, hsVars, left, label, room,
                 outVars, ctlVars, pulseVars, taken, sent>>

\* process_message goes on to the next message of the buffer, if any
NextMessage(c) == pcI' = IF c = 0 THEN "read" ELSE "msg"

TakeMessage ==
  /\ msg' = msg + 1 /\ chunk' = chunk - 1
  /\ UNCHANGED <<opt, genVars, dcQuit, file, hsVars, room, outVars, ctlVars,
                 pulseVars, sent>>

\* Reader::process_tstamp: a stamp seen before is not queued again
ProcessTstamp ==
  /\ pcI = "msg" /\ Log[file][msg + 1].type = "ts"
  /\ LET ts == Log[file][msg + 1].ts IN
     IF ts = lastTs THEN UNCHANGED <<dqVars, lastTs, haveTs, taken>>
     ELSE /\ MutexFree
          /\ CommitTstamp(ts) /\ UNCHANGED row
          /\ lastTs' = ts /\ haveTs' = TRUE
          /\ taken' = taken + 1
  /\ TakeMessage /\ NextMessage(chunk')
  /\ UNCHANGED <<left, label>>

\* Reader::process_data, up to its loop
ProcessData ==
  /\ pcI = "msg" /\ Log[file][msg + 1].type = "data"
  /\ LET m == Log[file][msg + 1] IN
     IF ~haveTs \/ m.n = 0
     THEN NextMessage(chunk') /\ UNCHANGED <<left, label>>
     ELSE left' = m.n /\ label' = m.label /\ pcI' = "rows"
  /\ TakeMessage
  /\ UNCHANGED <<dqVars, lastTs, haveTs, taken>>

\* Its loop: room is asked for under the lock, the rows are copied without it;
\* after quit the rest of the message is passed over, not the rest of the buffer
FindRoom ==
  /\ pcI = "rows" /\ MutexFree
  /\ IF dcQuit
     THEN /\ NextMessage(chunk) /\ left' = 0 /\ label' = 0
          /\ taken' = taken + left /\ UNCHANGED <<room, itBlocked>>
     ELSE /\ IF AllocateRows > 0
             THEN /\ room' = IF AllocateRows > left THEN left ELSE AllocateRows
                  /\ pcI' = "fill" /\ UNCHANGED itBlocked
             ELSE itBlocked' = "data" /\ pcI' = "wait_data" /\ UNCHANGED room
          /\ UNCHANGED <<left, label, taken>>
  /\ UNCHANGED <<dqVars, opt, genVars, dcQuit, logVars, itSem, otBlocked, otSem,
                 outVars, ctlVars, pulseVars, sent>>

Fill ==
  /\ pcI = "fill"
  /\ FillRows([k \in 1..room |-> Plus(label, k - 1)])
  /\ pcI' = "commit"
  /\ UNCHANGED <<first, last, full, recs, opt, genVars, dcQuit, logVars, hsVars,
                 left, label, room, outVars, ctlVars, pulseVars, taken, sent>>

Commit ==
  /\ pcI = "commit" /\ MutexFree
  /\ CommitRows(label, room) /\ UNCHANGED row
  /\ left' = left - room /\ room' = 0
  /\ taken' = taken + room
  /\ IF left' = 0 THEN NextMessage(chunk) /\ label' = 0
     ELSE pcI' = "rows" /\ label' = Plus(label, room)
  /\ UNCHANGED <<opt, genVars, dcQuit, logVars, hsVars, outVars, ctlVars, pulseVars,
                 sent>>

InputStep == \/ ReadLog \/ EndOfFile \/ WaitAtEof \/ InputWoken \/ InputDone
             \/ ProcessTstamp \/ ProcessData \/ FindRoom \/ Fill \/ Commit

-----------------------------------------------------------------------------
(* The output thread. *)

outRest == <<row, opt, genVars, dcQuit, logVars, inVars, ctlVars, pulseVars, taken>>

\* The outer loop; the timed loop starts by waiting, the other by transmitting
Top ==
  /\ pcO = "top"
  /\ IF quit \/ dcQuit THEN pcO' = "done" /\ UNCHANGED <<single, hsVars>>
     ELSE IF ~started
     THEN pcO' = "wait_stopped" /\ otBlocked' = "stopped"
          /\ UNCHANGED <<single, itBlocked, itSem, otSem>>
     ELSE IF regulated
     THEN pcO' = "wait_time" /\ otBlocked' = "time" /\ single' = TRUE
          /\ UNCHANGED <<itBlocked, itSem, otSem>>
     ELSE pcO' = "look" /\ single' = FALSE /\ WakeInput({"data"})
          /\ UNCHANGED <<otBlocked, otSem>>
  /\ UNCHANGED <<first, last, full, recs, txN, nr, sent, outRest>>

\* The timed loop looks at the flags when it was woken
OutputWoken ==
  /\ pcO \in {"wait_stopped", "wait_time"} /\ otSem > 0
  /\ otSem' = otSem - 1
  /\ pcO' = IF pcO = "wait_stopped" \/ ~started \/ ~regulated \/ dcQuit
            THEN "top" ELSE "look"
  /\ UNCHANGED <<first, last, full, recs, single, txN, nr, otBlocked, itBlocked,
                 itSem, sent, outRest>>

\* After a row: is there room enough to be worth waking the input thread?
\* allocate_rows and the comparison read the ring without the lock
TimedRoom ==
  /\ pcO = "room"
  /\ nr' = AllocateRows /\ pcO' = "wake"
  /\ UNCHANGED <<first, last, full, recs, single, txN, hsVars, sent, outRest>>

EnoughRoom_Contiguous == nr >= LowWater
EnoughRoom == nr >= LowWater \/ (nr > 0 /\ first <= last)

\* Then the inner loop begins anew: it waits without looking at the flags
TimedWake ==
  /\ pcO = "wake"
  /\ IF EnoughRoom THEN WakeInput({"data"}) ELSE UNCHANGED <<itBlocked, itSem>>
  /\ otBlocked' = "time" /\ pcO' = "wait_time" /\ nr' = 0
  /\ UNCHANGED <<first, last, full, recs, single, txN, otSem, sent, outRest>>

UntimedLoop ==
  /\ pcO = "untimed"
  /\ WakeInput({"data"})
  /\ pcO' = IF ~started \/ dcQuit \/ regulated THEN "top" ELSE "look"
  /\ UNCHANGED <<first, last, full, recs, single, txN, nr, otBlocked, otSem, sent,
                 outRest>>

\* transmit_data returns
Transmitted == IF single THEN "room" ELSE "untimed"

\* transmit_data's loop: the first record is read without the lock
Look ==
  /\ pcO = "look"
  /\ IF recs = <<>> THEN pcO' = Transmitted /\ UNCHANGED txN
     ELSE IF recs[1].type = "ts" THEN pcO' = "lock" /\ txN' = 1
     ELSE IF recs[1].n = 0 THEN pcO' = "next" /\ UNCHANGED txN
     ELSE pcO' = "lock" /\ txN' = IF single THEN 1 ELSE recs[1].n
  /\ UNCHANGED <<first, last, full, recs, single, nr, hsVars, sent, outRest>>

\* An empty record is left behind when another follows
LookNext ==
  /\ pcO = "next"
  /\ IF Len(recs) > 1 THEN pcO' = "retire" /\ txN' = 0
     ELSE pcO' = Transmitted /\ UNCHANGED txN
  /\ UNCHANGED <<first, last, full, recs, single, nr, hsVars, sent, outRest>>

\* Take the lock to write; after quit there is no output file
LockOutput ==
  /\ pcO = "lock"
  /\ pcO' = IF fdOpen THEN "writev" ELSE "retire"
  /\ UNCHANGED <<first, last, full, recs, single, txN, nr, hsVars, sent, outRest>>

\* writev returns and the lock is released
Written ==
  /\ pcO = "writev"
  /\ sent' = sent \o IF recs[1].type = "ts" THEN <<[ts |-> recs[1].ts]>>
                     ELSE RowsOf(recs[1], txN)
  /\ pcO' = "retire"
  /\ UNCHANGED <<first, last, full, recs, single, txN, nr, hsVars, outRest>>

Retire ==
  /\ pcO = "retire"
  /\ IF recs[1].type = "ts" THEN RetireTstamp /\ pcO' = "look"
     ELSE RetireRows(txN) /\ pcO' = IF single /\ txN > 0 THEN "room" ELSE "look"
  /\ txN' = 0
  /\ UNCHANGED <<single, nr, hsVars, sent, outRest>>

OutputStep == \/ Top \/ OutputWoken \/ TimedRoom \/ TimedWake \/ UntimedLoop
              \/ Look \/ LookNext \/ LockOutput \/ Written \/ Retire

-----------------------------------------------------------------------------
(* The control thread. *)

ctlRest == <<dqVars, opt, logVars, inVars, outVars, taken, sent>>

\* The dispatch loop takes the next message: a command written to DG/cmd ...
Command ==
  /\ pcC = "loop" /\ ncmd < MaxCommands
  /\ \E c \in Commands :
       /\ cmd' = c
       /\ timer' = IF c = "quit" THEN 0 ELSE timer
  /\ ncmd' = ncmd + 1 /\ rcv' = TRUE /\ cmdOpen' = TRUE
  /\ pcC' = "exec"
  /\ UNCHANGED <<started, regulated, period, quit, fdOpen, dcQuit, hsVars, todo,
                 quitReceived, attached, pulseVars, ctlRest>>

\* ... a pulse of the timer, of the input thread ...
TimerPulse ==
  /\ pcC = "loop" /\ pulses > 0 /\ attached
  /\ pulses' = pulses - 1
  /\ rcv' = FALSE /\ todo' = <<"row">> /\ pcC' = "event"
  /\ UNCHANGED <<genVars, dcQuit, hsVars, cmd, quitReceived, attached, cmdOpen, ncmd,
                 quitPulses, ctlRest>>

QuitPulse ==
  /\ pcC = "loop" /\ quitPulses > 0 /\ attached
  /\ quitPulses' = quitPulses - 1
  /\ cmd' = "quit" /\ timer' = 0
  /\ rcv' = FALSE /\ pcC' = "exec"
  /\ UNCHANGED <<started, regulated, period, quit, fdOpen, dcQuit, hsVars, todo,
                 quitReceived, attached, cmdOpen, ncmd, pulses, ctlRest>>

\* After a message the loop ends if quit was received, nobody waits for an
\* answer and all_closed: DG/cmd is closed; the pulses are detached meanwhile
AfterMessage(q, r, o) ==
  IF q /\ ~r
  THEN /\ pcC' = IF o THEN "loop" ELSE "join_input"
       /\ attached' = FALSE
  ELSE pcC' = "loop" /\ UNCHANGED attached

\* ... or the close of DG/cmd
CloseCmd ==
  /\ pcC = "loop" /\ cmdOpen
  /\ cmdOpen' = FALSE /\ rcv' = FALSE
  /\ AfterMessage(quitReceived, FALSE, FALSE)
  /\ UNCHANGED <<genVars, dcQuit, hsVars, cmd, todo, quitReceived, ncmd, pulseVars,
                 ctlRest>>

Settime(t) == timer' = IF attached THEN t ELSE timer

TmStart == started' = TRUE /\ Settime(IF regulated' THEN period' ELSE 0)

TmPlay ==
  /\ regulated' = TRUE /\ period' = DefaultPeriod
  /\ TmStart
  /\ todo' = IF started THEN <<>> ELSE <<"start">>

Start ==
  /\ cmd = "c"
  /\ UNCHANGED <<regulated, period>> /\ TmStart
  /\ todo' = <<"start">>

Stop ==
  /\ cmd = "e"
  /\ started' = FALSE /\ Settime(0) /\ UNCHANGED <<regulated, period>>
  /\ todo' = <<"stop">>

SingleStep ==
  /\ cmd = "s"
  /\ regulated' = TRUE /\ period' = 0
  /\ IF started
     THEN /\ UNCHANGED started
          /\ IF period # 0 THEN Settime(0) ELSE UNCHANGED timer
          /\ todo' = <<"row">>
     ELSE TmStart /\ todo' = <<"start", "row">>

Play == cmd = ">" /\ TmPlay

Faster ==
  /\ cmd = "+"
  /\ IF ~started \/ (regulated /\ period = 0) THEN TmPlay
     ELSE IF regulated
     THEN /\ period' = (period * 2) \div 3 /\ UNCHANGED started
          /\ IF period' < Resolution
             THEN regulated' = FALSE /\ Settime(0) /\ todo' = <<"fast">>
             ELSE UNCHANGED regulated /\ Settime(period') /\ todo' = <<>>
     ELSE UNCHANGED <<started, regulated, period, timer>> /\ todo' = <<>>

Slower ==
  /\ cmd = "-"
  /\ IF ~started THEN TmPlay
     ELSE /\ period' = (period * 3) \div 2 /\ Settime(period')
          /\ regulated' = TRUE /\ UNCHANGED started /\ todo' = <<>>

FastForward ==
  /\ cmd = "}"
  /\ regulated' = FALSE /\ UNCHANGED period
  /\ started' = TRUE /\ Settime(0)
  /\ todo' = IF started THEN <<"fast">> ELSE <<"start">>

\* The handler's next event, or its end
Continue ==
  IF todo' # <<>> THEN pcC' = "event" /\ UNCHANGED <<rcv, attached>>
  ELSE AfterMessage(quitReceived, rcv, cmdOpen) /\ rcv' = FALSE

\* data_generator::execute, its locked part
Execute ==
  /\ pcC = "exec" /\ MutexFree /\ cmd # "quit"
  /\ \/ Start \/ Stop \/ SingleStep \/ Play \/ Faster \/ Slower \/ FastForward
  /\ cmd' = "none"
  /\ Continue
  /\ UNCHANGED <<quit, fdOpen, dcQuit, hsVars, quitReceived, cmdOpen, ncmd, pulseVars,
                 ctlRest>>

Quit ==
  /\ pcC = "exec" /\ MutexFree /\ cmd = "quit"
  /\ started' = FALSE /\ quit' = TRUE /\ fdOpen' = FALSE
  /\ quitReceived' = TRUE
  /\ todo' = <<"quit">> /\ pcC' = "event" /\ cmd' = "none"
  /\ UNCHANGED <<regulated, period, timer, dcQuit, hsVars, rcv, attached, cmdOpen, ncmd,
                 pulseVars, ctlRest>>

\* Reader::event
HandleEvent_QuitAtEof(e) ==
  /\ WakeOutput(IF started /\ e # "quit" THEN {"time"} ELSE {"time", "stopped"})
  /\ dcQuit' = (dcQuit \/ e = "quit")
  /\ IF e = "quit" THEN WakeInput({"eof"}) ELSE UNCHANGED <<itBlocked, itSem>>
HandleEvent(e) ==
  /\ CASE e = "start" -> WakeOutput({"stopped"})
       [] e = "stop"  -> WakeOutput({"time"})
       [] e = "fast"  -> WakeOutput({"time", "stopped"})
       [] e = "quit"  -> WakeOutput({"time", "stopped"})
       [] e = "row"   -> WakeOutput(IF started THEN {"time"} ELSE {"time", "stopped"})
  /\ dcQuit' = (dcQuit \/ e = "quit")
  /\ IF e = "quit" THEN WakeInput({"data", "eof"}) ELSE UNCHANGED <<itBlocked, itSem>>

\* Reader::event and Reader::service_row_timer, under the lock
Event ==
  /\ pcC = "event" /\ MutexFree
  /\ HandleEvent(Head(todo))
  /\ todo' = Tail(todo)
  /\ Continue
  /\ UNCHANGED <<genVars, cmd, quitReceived, cmdOpen, ncmd, pulseVars, ctlRest>>

\* control_loop joins the threads, then main ends
Join ==
  /\ \/ pcC = "join_input" /\ pcI = "done" /\ pcC' = "join_output"
     \/ pcC = "join_output" /\ pcO = "done" /\ pcC' = "exit"
  /\ UNCHANGED <<genVars, dcQuit, hsVars, cmd, rcv, todo, quitReceived, attached,
                 cmdOpen, ncmd, pulseVars, ctlRest>>

ControlStep == TimerPulse \/ QuitPulse \/ Execute \/ Quit \/ Event \/ Join

\* The interval timer of DG_tmr
Tick ==
  /\ timer > 0 /\ attached /\ pulses < MaxPulses
  /\ pulses' = pulses + 1
  /\ UNCHANGED <<genVars, dcQuit, hsVars, quitPulses, ctlVars, ctlRest>>

Next == InputStep \/ OutputStep \/ ControlStep \/ Command \/ CloseCmd \/ Tick

Spec == Init /\ [][Next]_vars

Fairness ==
  /\ WF_vars(InputStep) /\ WF_vars(OutputStep) /\ WF_vars(ControlStep)
  /\ WF_vars(Tick) /\ WF_vars(CloseCmd)

FairSpec == Spec /\ Fairness

-----------------------------------------------------------------------------
(* What the queue promises. *)

RowItems(l, n) == [k \in 1..n |-> [label |-> Plus(l, k - 1), data |-> Plus(l, k - 1)]]

\* The log as it is to be sent: a stamp repeated at the head of a file once
LogAdd(acc, m) ==
  IF m.type = "data" THEN [ts |-> acc.ts, items |-> acc.items \o RowItems(m.label, m.n)]
  ELSE IF m.ts = acc.ts THEN acc
  ELSE [ts |-> m.ts, items |-> Append(acc.items, [ts |-> m.ts])]

LogItems == FoldLeft(LogAdd, [ts |-> 0, items |-> <<>>], FlattenSeq(Log)).items

ItemsOf(d) == IF d.type = "ts" THEN <<[ts |-> d.ts]>> ELSE RowsOf(d, d.n)

Held == FlattenSeq([i \in DOMAIN recs |-> ItemsOf(recs[i])])

\* What the queue holds, without what is written and not yet retired
Waiting == IF pcO = "retire" THEN SubSeq(Held, txN + 1, Len(Held)) ELSE Held

Fifo == INSTANCE RowFifo WITH Source <- LogItems, Capacity <- Total,
                              queue <- Waiting, open <- fdOpen

\* The ring, its labels and the unlocked accesses of the two threads
\* implement a queue that sends the log in order, once and unaltered, every
\* row under its own MFCtr, and drops rows only after quit closed TM/DG.
FifoSpec == Fifo!Spec

\* Every variable is of its type.
TypeOK ==
  /\ TypeOKQueue
  /\ {started, regulated, quit, fdOpen, dcQuit, haveTs, single, rcv, quitReceived,
      attached, cmdOpen} \subseteq BOOLEAN
  /\ {period, timer, file, msg, chunk, lastTs, itSem, otSem, left, room, txN, nr, ncmd,
      quitPulses} \subseteq Nat
  /\ pulses \in 0..MaxPulses /\ label \in 0..Labels - 1
  /\ itBlocked \in {"no", "data", "eof"} /\ otBlocked \in {"no", "stopped", "time"}
  /\ pcI \in {"read", "msg", "rows", "fill", "commit", "eof", "wait_eof", "wait_data",
              "done"}
  /\ pcO \in {"top", "wait_stopped", "wait_time", "look", "next", "lock",
              "writev", "retire", "room", "wake", "untimed", "done"}
  /\ pcC \in {"loop", "exec", "event", "join_input", "join_output", "exit"}

\* The assertions of commit_rows hold although it reads full and last without
\* the lock, and so do those of retire_rows, its underflow errors included.
AssertionsHold ==
  /\ pcI = "commit" => CommitAsserts(room)
  /\ pcO = "retire" =>
       recs # <<>> /\ (recs[1].type = "data" => RetireAsserts(txN))

\* No wake-up is lost and none is left over: a thread that waits has its flag
\* set or its semaphore posted, one that does not has neither.
PostsMatchWaits ==
  /\ itSem + (IF itBlocked = "no" THEN 0 ELSE 1) =
     IF pcI \in {"wait_data", "wait_eof"} THEN 1 ELSE 0
  /\ otSem + (IF otBlocked = "no" THEN 0 ELSE 1) =
     IF pcO \in {"wait_stopped", "wait_time"} THEN 1 ELSE 0

\* While the timer runs the whole log is played: the input thread, blocked
\* on a full ring, is woken although the timed loop does so only now and then.
PlaysToTheEnd == <>[](started /\ timer > 0 /\ ~quit) => <>(sent = LogItems)

\* Quit always ends the input thread, wherever it finds it.
QuitEndsInput == quit ~> (pcI = "done")

\* Quit shuts the program down: every thread ends and is joined.
QuitShutsDown == quit ~> (pcC = "exit")
=============================================================================
