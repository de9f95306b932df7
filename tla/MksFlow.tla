------------------------------ MODULE MksFlow ------------------------------
(***************************************************************************)
(* A driver over Selector: mksflow, which asks flow controllers on one     *)
(* RS-485 line, one query at a time.  The event loop (Selector.cc) serves  *)
(* MKS_Ser (the line), MKS_Cmd (commands) and MKS_TM_Selectee (telemetry), *)
(* in that order; each handler is one action.  What interleaves is the     *)
(* boards' answers, the 100 ms timer, the commands and the frames.         *)
(*                                                                         *)
(* A query is [drive, req, persistent].  Which MKS_Query object carries it *)
(* is left out: free counts Free_queue, made the objects ever made.        *)
(***************************************************************************)
EXTENDS Integers, SequencesExt

CONSTANTS
  NDrives,     \* n_drives: drives 1..NDrives are configured
  Present,     \* the drives that are there and answer
  MFCs,        \* the drives whose device type is MFC
  FrameSlots,  \* queries there is time for between two frames
  MaxFaults,   \* bound on lost, erroneous and late answers
  MaxCmds      \* bound on commands

Drives == 1..NDrives

ASSUME MksFlowAssumption ==
  /\ NDrives \in Nat \ {0} /\ Present \subseteq Drives /\ MFCs \subseteq Drives
  /\ FrameSlots \in Nat /\ MaxFaults \in Nat /\ MaxCmds \in Nat

VARIABLES
  drv,   \* MKS_Ser: queues, pending query, timer, input buffer; board_id
  bus,   \* [owed: requests the boards have yet to answer, line: input unread]
  loop,  \* Selector::event_loop: at, the children ready, gflags, keep_going
  env    \* [tm: collector ready, cmd: command waiting, slots, cmds, faults]

vars == <<drv, bus, loop, env>>

None == [drive |-> 0, req |-> "none", persistent |-> FALSE]

IdRequests      == <<"MF", "MD", "SN", "DT", "SGN">>
PollRequests(m) == <<"FX", "TA", "T">> \o (IF m THEN <<"SX">> ELSE <<>>)
RetryDelay      == 4

-----------------------------------------------------------------------------
(* The handlers work on a state s of drv; s.sent is what they wrote.       *)

SetTO(s)   == [s EXCEPT !.timer = "on"]
ClearTO(s) == [s EXCEPT !.timer = "off"]
Consume(s) == [s EXCEPT !.buf = <<>>]

Ask(s, q) ==
  SetTO([s EXCEPT !.pending = q, !.watched = TRUE, !.sent = Append(@, q)])

ProcessRequests_PollsOn(s) ==
  IF s.pending # None THEN s
  ELSE IF s.transient # <<>>
  THEN Ask([s EXCEPT !.transient = Tail(@)], Head(s.transient))
  ELSE IF s.cur # 0
  THEN Ask([s EXCEPT !.cur = IF @ = Len(s.polls) THEN 1 ELSE @ + 1], s.polls[s.cur])
  ELSE s

\* cur is 0 at TM_queue.end(), where it stays when a query is added
ProcessRequests(s) ==
  IF s.pending # None THEN s
  ELSE IF s.transient # <<>>
  THEN Ask([s EXCEPT !.transient = Tail(@)], Head(s.transient))
  ELSE IF s.cur # 0
  THEN Ask([s EXCEPT !.cur = IF @ = Len(s.polls) THEN 0 ELSE @ + 1], s.polls[s.cur])
  ELSE s

NewQuery(s) == IF s.free > 0 THEN [s EXCEPT !.free = @ - 1] ELSE [s EXCEPT !.made = @ + 1]

EnqueueRequest(s, q) ==
  ProcessRequests(IF q.persistent THEN [s EXCEPT !.polls = Append(@, q)]
                                  ELSE [s EXCEPT !.transient = Append(@, q)])

\* new_query, setup_query and enqueue_request, for each of reqs
EnqueueNew(s, q) == EnqueueRequest(NewQuery(s), q)

Request(s, d, reqs, persistent) ==
  FoldLeft(EnqueueNew, s, [i \in DOMAIN reqs |->
             [drive |-> d, req |-> reqs[i], persistent |-> persistent]])

IdentifyBoard(s, d) == Request(s, d, IdRequests, FALSE)

PollBoard(s, d) ==
  IF s.polling[d] THEN s
  ELSE [Request(s, d, PollRequests(s.mfc[d]), TRUE) EXCEPT !.polling[d] = TRUE]

FreePending_AllFree(s) ==
  ProcessRequests(ClearTO([s EXCEPT !.pending = None,
    !.free = IF s.pending = None THEN @ ELSE @ + 1]))

FreePending(s) ==
  ProcessRequests(ClearTO([s EXCEPT !.pending = None,
    !.free = IF s.pending = None \/ s.pending.persistent THEN @ ELSE @ + 1]))

\* The callback of query q, given the answer of the request `to`: it is q's
\* own only if the answers and the queries have kept in step.
Callback(s, q, to) ==
  CASE q.req = "DT" /\ to.req = "DT" /\ to.drive \in MFCs ->
         Request([s EXCEPT !.mfc[q.drive] = TRUE], q.drive, <<"VT", "VPO">>, FALSE)
    [] q.req = "SGN" -> Request(s, q.drive, <<"GN">>, FALSE)
    [] q.req = "GN"  -> PollBoard(s, q.drive)
    [] OTHER -> s

\* An answer comes as a head, from which '@' is found, and a tail.  A head that
\* does not parse is acted on at once (saw_error); after a NAK the code goes on
\* to look for an ACK in the buffer it has emptied.  Without rs485_echos.
ProtocolInput(s) ==
  LET heads == {i \in DOMAIN s.buf : s.buf[i].part = "head"}
      first == CHOOSE i \in heads : \A j \in heads : i <= j
      r     == s.buf[first]
  IN IF s.pending = None \/ heads = {} THEN Consume(s)
     ELSE IF first = Len(s.buf) /\ r.code # "BAD" THEN s
     ELSE IF r.code # "ACK" THEN FreePending(Consume(s))
     ELSE LET step == IF r.to = s.pending THEN "kept" ELSE "lost"
          IN FreePending(Consume([Callback(s, s.pending, r.to) EXCEPT !.step = step]))

ProtocolTimeout(s) ==
  IF s.pending # None THEN FreePending(Consume(ClearTO(s))) ELSE Consume(ClearTO(s))

Reidentify_FromSecond(s, d) ==
  IF d = 1 \/ s.polling[d] THEN s ELSE [IdentifyBoard(s, d) EXCEPT !.allPolling = FALSE]

\* The boards not polled yet are asked again who they are
Reidentify(s, d) ==
  IF s.polling[d] THEN s ELSE [IdentifyBoard(s, d) EXCEPT !.allPolling = FALSE]

\* all_polling and retry_delay: that is at the first frame and then at every
\* fourth.
TmSync(s) ==
  LET counted == IF s.allPolling THEN s ELSE [s EXCEPT !.retry = @ - 1]
      asked   == FoldLeft(Reidentify, [counted EXCEPT !.allPolling = TRUE],
                          [d \in Drives |-> d])
      retried == IF s.allPolling \/ counted.retry > 0 THEN counted
                 ELSE IF asked.allPolling THEN asked
                 ELSE [asked EXCEPT !.retry = RetryDelay]
  IN ProcessRequests(IF retried.cur = 0 /\ retried.polls # <<>>
                     THEN [retried EXCEPT !.cur = 1] ELSE retried)

\* MKS_Ser::ProcessData, when gflag(0), Sel_Read or Sel_Timeout called it
ProcessData(s, flag) ==
  LET filled == ProtocolInput([s EXCEPT !.buf = @ \o bus.line])
      done   == CASE flag = "gflag"   -> TmSync(s)
                  [] flag = "read"    -> filled
                  [] flag = "timeout" ->
                       IF filled.timer = "expired" THEN ProtocolTimeout(filled) ELSE filled
  IN [done EXCEPT !.watched = (done.timer # "off")]

\* A handler's result t: what it wrote goes out to the boards that are there
Handled(t, line) ==
  /\ drv' = [t EXCEPT !.sent = <<>>]
  /\ bus' = [owed |-> bus.owed \o SelectSeq([i \in DOMAIN t.sent |->
                         [to |-> t.sent[i], code |-> "none"]],
                       LAMBDA o : o.to.drive \in Present),
             line |-> line]

Slots(t) == IF env.slots + Len(t.sent) > FrameSlots THEN FrameSlots
            ELSE env.slots + Len(t.sent)

-----------------------------------------------------------------------------
(* main and the event loop                                                 *)

\* The constructors, enqueue_requests, and the first pass of event_loop
Init ==
  LET idle == [transient |-> <<>>, polls |-> <<>>, cur |-> 0, pending |-> None,
               timer |-> "off", watched |-> FALSE, buf |-> <<>>, free |-> 0, made |-> 0,
               retry |-> 0, allPolling |-> FALSE, sent |-> <<>>, step |-> "kept",
               polling |-> [d \in Drives |-> FALSE], mfc |-> [d \in Drives |-> FALSE]]
      asked == FoldLeft(IdentifyBoard, idle, [d \in Drives |-> d])
  IN /\ drv = [asked EXCEPT !.sent = <<>>]
     /\ bus = [owed |-> IF 1 \in Present THEN <<[to |-> asked.pending, code |-> "none"]>>
                                         ELSE <<>>,
               line |-> <<>>]
     /\ loop = [at |-> "select", ready |-> {}, gflag |-> FALSE, going |-> TRUE]
     /\ env = [tm |-> FALSE, cmd |-> "none", slots |-> 1, cmds |-> 0, faults |-> 0]

\* The flags are looked at before every select(); only MKS_Ser asks for one,
\* and with no flag set the pass does nothing.
FlagPass ==
  /\ loop.at = "flags"
  /\ loop' = [loop EXCEPT !.at = "select", !.gflag = FALSE]
  /\ LET t == ProcessData(drv, "gflag")
     IN Handled(t, bus.line) /\ env' = [env EXCEPT !.slots = Slots(t)]

Ready == {c \in {"ser", "cmd", "tm"} :
            \/ c = "ser" /\ bus.line # <<>>
            \/ c = "cmd" /\ env.cmd # "none"
            \/ c = "tm" /\ env.tm}

\* select() returns the descriptors that are ready, or, if there are none,
\* 0 when the timer of a child that asked for it has expired
Select ==
  /\ loop.at = "select"
  /\ \/ Ready # {} /\ loop' = [loop EXCEPT !.at = "serve", !.ready = Ready]
     \/ /\ Ready = {} /\ drv.watched /\ drv.timer = "expired"
        /\ loop' = [loop EXCEPT !.at = "timeout"]
  /\ UNCHANGED <<drv, bus, env>>

Timeouts ==
  /\ loop.at = "timeout"
  /\ loop' = [loop EXCEPT !.at = "select"]
  /\ LET t == ProcessData(drv, "timeout")
     IN Handled(t, <<>>) /\ env' = [env EXCEPT !.slots = Slots(t)]

\* The next child of this pass is c; it asks for the end of the loop if quit
Serve(c, quit) ==
  LET rest  == loop.ready \ {c}
      going == loop.going /\ ~quit
      gflag == loop.gflag \/ c = "tm"
  IN /\ loop.at = "serve" /\ c \in loop.ready
     /\ loop' = [ready |-> rest, going |-> going, gflag |-> gflag,
                 at |-> CASE rest # {} -> "serve" [] rest = {} /\ ~going -> "ended"
                          [] OTHER -> IF gflag THEN "flags" ELSE "select"]

ServeSer ==
  /\ Serve("ser", FALSE)
  /\ LET t == ProcessData(drv, "read")
     IN Handled(t, <<>>) /\ env' = [env EXCEPT !.slots = Slots(t)]

\* MKS_Cmd::app_input: Q quits, R and W ask a drive
ServeCmd ==
  /\ "ser" \notin loop.ready
  /\ Serve("cmd", env.cmd = "quit")
  /\ IF env.cmd = "quit"
     THEN env' = [env EXCEPT !.cmd = "none"] /\ UNCHANGED <<drv, bus>>
     ELSE \E d \in Drives : LET t == Request(drv, d, <<"CMD">>, FALSE)
          IN Handled(t, bus.line) /\ env' = [env EXCEPT !.cmd = "none", !.slots = Slots(t)]

\* MKS_TM_Selectee::ProcessData: Col_send and set_gflag(0)
ServeTM ==
  /\ {"ser", "cmd"} \cap loop.ready = {}
  /\ Serve("tm", FALSE)
  /\ env' = [env EXCEPT !.tm = FALSE, !.slots = 0]
  /\ UNCHANGED <<drv, bus>>

Loop == FlagPass \/ Select \/ Timeouts \/ ServeSer \/ ServeCmd \/ ServeTM

-----------------------------------------------------------------------------
(* The boards, the clock, the collector and the operator                   *)

Fault == env.faults < MaxFaults /\ env' = [env EXCEPT !.faults = @ + 1]

Piece(p, o, code) == [part |-> p, to |-> o.to, code |-> code]

\* A board answers, with a pause in the middle or none before the driver
\* reads.  BAD does not parse in its head; ERR is a NAK, or does not parse in
\* its tail.
Answer ==
  /\ bus.owed # <<>>
  /\ LET o == Head(bus.owed)
     IN \/ /\ o.code # "none"
           /\ bus' = [owed |-> Tail(bus.owed), line |-> Append(bus.line, Piece("tail", o, o.code))]
           /\ UNCHANGED env
        \/ \E code \in {"ACK", "ERR", "BAD"} :
              /\ o.code = "none"
              /\ bus' = [owed |-> [bus.owed EXCEPT ![1].code = code],
                         line |-> Append(bus.line, Piece("head", o, code))]
              /\ IF code = "ACK" THEN UNCHANGED env ELSE Fault
  /\ UNCHANGED <<drv, loop>>

Lose ==
  /\ bus.owed # <<>> /\ Head(bus.owed).code = "none"
  /\ bus' = [bus EXCEPT !.owed = Tail(@)] /\ Fault
  /\ UNCHANGED <<drv, loop>>

\* The 100 ms are over; with an answer on its way, that answer is late
Expire ==
  /\ drv.timer = "on"
  /\ drv' = [drv EXCEPT !.timer = "expired"]
  /\ IF bus.owed # <<>> THEN Fault ELSE UNCHANGED env
  /\ UNCHANGED <<bus, loop>>

\* The collector is ready for the next frame.  Frames are far apart against
\* 100 ms: the queries of FrameSlots fit between two, and on a line that has
\* fallen idle a late answer arrives first.
Frame ==
  /\ ~env.tm
  /\ IF drv.pending = None THEN bus = [owed |-> <<>>, line |-> <<>>]
                           ELSE env.slots = FrameSlots
  /\ env' = [env EXCEPT !.tm = TRUE]
  /\ UNCHANGED <<drv, bus, loop>>

Command ==
  /\ env.cmd = "none" /\ env.cmds < MaxCmds
  /\ \E k \in {"ask", "quit"} : env' = [env EXCEPT !.cmd = k, !.cmds = @ + 1]
  /\ UNCHANGED <<drv, bus, loop>>

Running == loop.at # "ended"

Next == Running /\ (Loop \/ Answer \/ Lose \/ Expire \/ Frame \/ Command)

Spec == Init /\ [][Next]_vars

\* Where the loop can go on: ENABLED of Loop, spelled out
LoopBusy ==
  /\ Running
  /\ loop.at = "select" => Ready # {} \/ (drv.watched /\ drv.timer = "expired")

\* Weak fairness of the loop, the boards, the timer and the collector; none of
\* the faults or of the operator
FairSpec ==
  /\ Spec
  /\ []<>(~LoopBusy) \/ []<><<Loop>>_vars
  /\ WF_vars(Running /\ Answer)
  /\ WF_vars(Running /\ Expire) /\ WF_vars(Running /\ Frame)

-----------------------------------------------------------------------------
(* Properties                                                              *)

\* One query is pending exactly while its timer runs, and where the loop
\* waits it waits with that timer.
Timed ==
  /\ (drv.pending # None) <=> (drv.timer # "off")
  /\ drv.watched <=> (drv.timer # "off")

\* Every MKS_Query ever made is in one place: pending, in a queue or free.
QueriesKept ==
  drv.made = drv.free + Len(drv.transient) + Len(drv.polls)
             + (IF drv.pending = None \/ drv.pending.persistent THEN 0 ELSE 1)

\* Each query is somewhere, once, and the pending one will be freed by its
\* answer or by its timer (process_requests, free_pending, ProcessData).
QueriesServed == Timed /\ QueriesKept

\* A board that is there is identified and then asked for its readings for ever.
Polled ==
  \A d \in Present : \A r \in {"FX", "TA", "T"} :
    []<>(~Running \/ drv.pending = [drive |-> d, req |-> r, persistent |-> TRUE])

\* Answers carry no name: a late one is taken for the answer of the next
\* query.  Once answers are in time again, queries and answers are in step.
Resynchronised == <>[](~Running \/ drv.step = "kept")
=============================================================================
