----------------------------- MODULE SubbusCAN -----------------------------
(***************************************************************************)
(* The CAN back end of the subbus driver: subbusd_CAN.cc and               *)
(* subbusd_CAN_interface.cc over the pulses of sb_CAN.c.  The driver has   *)
(* one thread, so a handler (a client's request, input from the adapter, a *)
(* timer pulse) is one action; what interleaves is the clients, the        *)
(* boards' replies, the timer and the pulses it has already queued.        *)
(*                                                                         *)
(* A request of a client is a sequence of parts, one CAN request each.     *)
(* The queue reqs holds pointers to the clients' can_msg, as the code's    *)
(* does, so one client in it twice would be two uses of one message.       *)
(***************************************************************************)
EXTENDS Integers, FiniteSets, SequencesExt

CONSTANTS
  Clients,
  Requests,     \* the requests: sequences of parts
  MaxParts,     \* bound on the parts of a request
  Syntax,       \* a part in which process_mread finds a syntax error
  Stray,        \* an address followed by a character that is none of , : @ | or newline
  ReqIds,       \* CAN_ID_REQID: request numbers are taken modulo ReqIds
  MaxAsks,      \* bound on the requests of a client
  MaxInits,     \* bound on the init strings sent
  MaxLine,      \* bound on the frames received and not read
  BadWrites     \* which write of frames by a handler may fail; 0: none

\* A part of a request has at least one frame.  A multi-read names a number of
\* words, and a part whose reply has more does not fit.
Parts == [dev : Nat, frames : Nat \ {0}, reply : Nat, fits : BOOLEAN]

ASSUME SubbusCANAssumption ==
  /\ Requests \subseteq Seq(Parts \cup {Syntax, Stray})
  /\ Syntax \notin Parts /\ Stray \notin Parts \cup {Syntax}
  /\ MaxParts \in Nat /\ \A req \in Requests : Len(req) <= MaxParts
  /\ IsFiniteSet(Clients)
  /\ ReqIds \in Nat \ {0} /\ MaxAsks \in Nat /\ MaxInits \in Nat /\ MaxLine \in Nat
  /\ BadWrites \subseteq Nat

VARIABLES
  drv,     \* the memory of CAN_interface and CAN_serial
  clt,     \* subbusd_CAN_client: can_msg and reply, and the client's history
  bus,     \* CAN requests the boards have yet to answer
  adapter, \* closed, opening, open: the SLCAN adapter
  line,    \* characters received and not read yet, as a sequence of frames
  pulses   \* timer pulses queued for the driver

vars == <<drv, clt, bus, adapter, line, pulses>>

NoFrame == [tag |-> -1, id |-> <<>>]

Init ==
  /\ drv = [slcan |-> "init", reqs |-> <<>>, pending |-> FALSE, processing |-> FALSE,
            reqno |-> 0, reqfrm |-> NoFrame, repseq |-> 0, own |-> TRUE,
            early |-> FALSE, timer |-> "on", inits |-> 1]
  /\ clt = [c \in Clients |->
             [todo |-> <<>>, seq |-> 0, status |-> "none", vals |-> <<>>,
              asked |-> 0, answered |-> 0, parts |-> 0,
              answer |-> [status |-> "none", vals |-> <<>>]]]
  /\ bus = {} /\ adapter = "opening" /\ line = <<>> /\ pulses = 0

-----------------------------------------------------------------------------
(* The handlers work on a state s = [d, c, b, bad, drop, expired]: drv,    *)
(* clt and bus; the next write of a frame to fail, 0 for none; whether the *)
(* rest of the input was consumed; timeout_is_expired.                     *)

SetTO(s)   == [s EXCEPT !.d.timer = "on", !.expired = FALSE]
ClearTO(s) == [s EXCEPT !.d.timer = "off", !.expired = FALSE]

\* MsgReply
Reply(s, c, status) ==
  [s EXCEPT !.c[c].todo = <<>>, !.c[c].answered = @ + 1,
            !.c[c].answer = [status |-> status, vals |-> s.c[c].vals]]

\* A request number, as the frames carry it
Id(dev, n) == <<dev, n % ReqIds>>

\* The frames of the front request go out, up to one whose write fails; the last
\* one makes it pending.  A sb_can_seq beyond the frames is the failure of
\* nl_assert(offset < sb_nb).
SendFrames(s) ==
  LET c     == Head(s.d.reqs)
      part  == Head(s.c[c].todo)
      left  == IF s.c[c].seq < part.frames THEN part.frames - s.c[c].seq ELSE 1
      fails == s.bad \in 1..left
      upto  == s.c[c].seq + (IF fails THEN s.bad ELSE left)
      last  == upto >= part.frames
      out   == [tag |-> s.d.reqno, id |-> Id(part.dev, s.d.reqno)]
      sent  == [s EXCEPT !.c[c].seq = upto,
                         !.d.reqfrm = out, !.d.repseq = 0,
                         !.d.own = TRUE, !.d.early = s.d.slcan # "operate",
                         !.d.pending = last,
                         !.d.reqno = IF last THEN @ + 1 ELSE @]
  IN IF fails
     THEN [sent EXCEPT !.d.processing = TRUE]
     ELSE SetTO([sent EXCEPT !.d.processing = FALSE,
                 !.bad = IF @ = 0 THEN 0 ELSE @ - left,
                 !.b = @ \cup {[tag |-> out.tag, id |-> out.id, next |-> 0, len |-> part.reply]}])

ProcessRequests(s) ==
  IF s.d.pending \/ s.d.processing \/ s.d.reqs = <<>> THEN s ELSE SendFrames(s)

\* Mutant: sb_can_seq is not reset for the next part of a multi-read.
EnqueueRequest_KeepsSeq(s, c) == ProcessRequests([s EXCEPT !.d.reqs = Append(@, c)])

EnqueueRequest(s, c) ==
  ProcessRequests([s EXCEPT !.d.reqs = Append(@, c), !.c[c].seq = 0])

\* incoming_sbreq, process_mread: the next part of the client's request.  The
\* switch on what follows an address has no default: at a stray character
\* nothing is queued and nothing is answered.
NextPart(s, c) ==
  IF s.c[c].todo = <<>> THEN Reply(s, c, s.c[c].status)
  ELSE IF Head(s.c[c].todo) = Syntax THEN Reply(s, c, "error")
  ELSE IF Head(s.c[c].todo) = Stray THEN s
  ELSE EnqueueRequest(s, c)

\* Mutant: an overrun is reported and process_mread not called, but the client
\* is not answered.
RequestComplete_Overrun(s, c, status, val) ==
  IF status = "error" THEN Reply(s, c, "error")
  ELSE IF ~Head(s.c[c].todo).fits THEN s
  ELSE NextPart([s EXCEPT !.c[c].status = status,
                          !.c[c].vals = Append(@, val),
                          !.c[c].todo = Tail(@)], c)

RequestComplete(s, c, status, val) ==
  IF status = "error" \/ ~Head(s.c[c].todo).fits THEN Reply(s, c, "error")
  ELSE NextPart([s EXCEPT !.c[c].status = status,
                          !.c[c].vals = Append(@, val),
                          !.c[c].todo = Tail(@)], c)

PopReq(s) == [s EXCEPT !.d.reqs = Tail(@)]

EndPending(s) == ProcessRequests([s EXCEPT !.d.pending = FALSE])

-----------------------------------------------------------------------------
(* protocol_input, a frame at a time. *)

DropAll(s) == [s EXCEPT !.drop = TRUE]  \* consume(nc)

InitAnswered(s) == DropAll([ClearTO(s) EXCEPT !.d.slcan = "operate"])

\* Mutant: the timer is cleared last.
ErrorFrame_ClearsLast(s, f) ==
  ClearTO(EndPending(PopReq(RequestComplete(s, Head(s.d.reqs), "error", "zero"))))

ErrorFrame(s, f) ==
  LET c == Head(s.d.reqs)
      done == IF f.kind = "nack" THEN RequestComplete(s, c, "noack", "zero")
                                 ELSE RequestComplete(s, c, "error", "zero")
  IN EndPending(ClearTO(PopReq(done)))

DataFrame(s, f) ==
  LET c   == Head(s.d.reqs)
      own == s.d.own /\ f.tag = s.d.reqfrm.tag
      got == [s EXCEPT !.d.repseq = @ + 1, !.d.own = own]
  IN IF f.seq + 1 = f.len
     THEN EndPending(RequestComplete(PopReq(ClearTO(got)), c, "ack",
                                     IF own THEN "own" ELSE "foreign"))
     ELSE SetTO(got)

\* Mutant: only the board is compared.
IdMatches_AnyNumber(s, f) == f.id[1] = s.d.reqfrm.id[1]

IdMatches(s, f) == f.id = s.d.reqfrm.id

ProcessFrame(s, f) ==
  IF s.drop THEN s
  ELSE IF s.d.slcan # "operate" THEN InitAnswered(s)
  ELSE IF f.kind \in {"noise", "id"} \/ ~s.d.pending THEN DropAll(s)
  ELSE IF ~IdMatches(s, f) THEN DropAll(s)
  ELSE IF f.kind \in {"nack", "err"} THEN ErrorFrame(s, f)
  ELSE IF f.seq # s.d.repseq THEN s
  ELSE DataFrame(s, f)

ProtocolInput(s) == FoldLeft(ProcessFrame, s, line)

IssueInit(s) == SetTO([s EXCEPT !.d.slcan = "init", !.d.inits = @ + 1])

ProtocolTimeout(s) ==
  LET t == ClearTO(s)
      c == Head(t.d.reqs)
  IN IF t.d.pending
     THEN EndPending(RequestComplete(PopReq(t), c, "noack", "zero"))
     ELSE IF t.d.slcan = "init" THEN SetTO([t EXCEPT !.d.slcan = "init_retry"])
     ELSE IF t.d.slcan = "init_retry" THEN IssueInit(t)
     ELSE t

-----------------------------------------------------------------------------
(* The actions. *)

Start(bad, expired) ==
  [d |-> drv, c |-> clt, b |-> bus, bad |-> bad, drop |-> FALSE, expired |-> expired]

\* What is written to a closed adapter is lost.
Finish(s) ==
  /\ drv' = s.d /\ clt' = s.c
  /\ adapter' = IF s.d.inits > drv.inits THEN "opening" ELSE adapter
  /\ bus' = IF adapter' = "closed" THEN {} ELSE s.b

\* incoming_sbreq: a client that is not blocked sends a request.
Ask(c, req) ==
  /\ clt[c].asked = clt[c].answered /\ clt[c].asked < MaxAsks
  /\ \E bad \in BadWrites :
       Finish(NextPart([Start(bad, FALSE) EXCEPT
                !.c[c].asked = @ + 1, !.c[c].todo = req, !.c[c].parts = Len(req),
                !.c[c].status = "ack", !.c[c].vals = <<>>], c))
  /\ UNCHANGED <<line, pulses>>

\* sb_data_ready
DataReady ==
  /\ line # <<>>
  /\ \E bad \in BadWrites : Finish(ProtocolInput(Start(bad, FALSE)))
  /\ line' = <<>>
  /\ UNCHANGED pulses

\* sb_timeout: what has arrived is read first; if that neither cleared nor
\* set the timer, it has expired.  The pulse may be one of an earlier timer.
TimerPulse ==
  /\ pulses > 0
  /\ pulses' = pulses - 1
  /\ line' = <<>>
  /\ \E bad \in BadWrites :
       LET read == ProtocolInput(Start(bad, TRUE))
       IN Finish(IF read.expired THEN ProtocolTimeout(read) ELSE read)

TimerFires ==
  /\ drv.timer = "on" /\ pulses = 0
  /\ drv.slcan = "init_retry" /\ ~drv.pending => drv.inits < MaxInits
  /\ pulses' = 1
  /\ UNCHANGED <<drv, clt, bus, adapter, line>>

\* A frame without data
Bare(kind, id, tag) == [kind |-> kind, id |-> id, seq |-> 0, len |-> 0, tag |-> tag]

\* The adapter takes the init string and answers with its version, or does not.
AdapterOpens ==
  /\ adapter = "opening"
  /\ adapter' = "open"
  /\ line' = Append(line, Bare("id", <<>>, -1))
  /\ UNCHANGED <<drv, clt, bus, pulses>>

AdapterIgnores ==
  /\ adapter = "opening"
  /\ adapter' = "closed" /\ bus' = {}
  /\ UNCHANGED <<drv, clt, line, pulses>>

\* A board sends the next frame of a reply, or an error frame instead of the
\* first; a frame may be lost or corrupted; a board may not answer at all.
BoardSends(r) ==
  /\ adapter = "open" /\ Len(line) < MaxLine
  /\ \/ /\ line' \in {line, Append(line, Bare("noise", <<>>, -1)),
                     Append(line, [kind |-> "data", id |-> r.id, seq |-> r.next,
                                   len |-> r.len, tag |-> r.tag])}
        /\ bus' = (bus \ {r}) \cup
                  (IF r.next + 1 = r.len THEN {} ELSE {[r EXCEPT !.next = @ + 1]})
     \/ /\ r.next = 0
        /\ \E kind \in {"nack", "err"} : line' = Append(line, Bare(kind, r.id, r.tag))
        /\ bus' = bus \ {r}
  /\ UNCHANGED <<drv, clt, adapter, pulses>>

Next ==
  \/ \E c \in Clients, req \in Requests : Ask(c, req)
  \/ DataReady \/ TimerFires \/ TimerPulse
  \/ AdapterOpens \/ AdapterIgnores
  \/ \E r \in bus : BoardSends(r)

Spec == Init /\ [][Next]_vars

\* The timer that is set fires, and the driver's one loop handles the pulses of
\* the adapter and of the timer.
Reads      == line # <<>> /\ line' = <<>>
TakesPulse == pulses > 0 /\ pulses' = pulses - 1
Fairness   == WF_line(Reads) /\ WF_pulses(TakesPulse) /\ WF_vars(TimerFires)

FairSpec == Spec /\ Fairness

-----------------------------------------------------------------------------
(* Properties. *)

\* The variables keep their types.
TypeOK ==
  /\ drv.slcan \in {"init", "init_retry", "operate"}
  /\ drv.pending \in BOOLEAN /\ drv.processing \in BOOLEAN
  /\ drv.own \in BOOLEAN /\ drv.early \in BOOLEAN
  /\ drv.reqs \in Seq(Clients) /\ drv.timer \in {"on", "off"}
  /\ {drv.reqno, drv.repseq, drv.inits} \subseteq Nat
  /\ \A c \in Clients : clt[c].answered \in 0..clt[c].asked
  /\ adapter \in {"closed", "opening", "open"} /\ pulses \in 0..1
  /\ \A i \in DOMAIN line : line[i].kind \in {"id", "data", "noise", "nack", "err"}

\* The multi-read of a client has come to a stray character: process_mread has
\* returned (subbusd_CAN.cc:233-340), and the client waits for ever.
Forgotten(m) == m.todo # <<>> /\ Head(m.todo) = Stray

\* Through retries, continued multi-reads, errors and timeouts, every client
\* that waits for a reply is in the queue, and only once: its can_msg is not
\* queued twice (subbusd_CAN.h, can_request) and it is not lost.  The one
\* exception is a client forgotten at a stray character.
WaitingAreQueued ==
  /\ IsInjective(drv.reqs)
  /\ ToSet(drv.reqs) = {c \in Clients : clt[c].asked > clt[c].answered /\ ~Forgotten(clt[c])}

\* The request under way is the one at the front of the queue, with all its
\* frames sent: the assertions of curreq and process_requests hold, and a
\* reply or a timeout is charged to the client that caused it.
PendingIsFront ==
  /\ TypeOK
  /\ drv.pending =>
       /\ drv.reqs # <<>>
       /\ LET c == Head(drv.reqs) IN
            /\ drv.reqfrm.id = Id(Head(clt[c].todo).dev, drv.reqno - 1)
            /\ clt[c].seq = Head(clt[c].todo).frames

\* Late replies, replies after a timeout, lost and corrupted frames never
\* reach a client as data of its own, and each request gets one reply.
Service == INSTANCE SubbusService WITH
  asked    <- [c \in Clients |-> clt[c].asked],
  answered <- [c \in Clients |-> clt[c].answered],
  parts    <- [c \in Clients |-> clt[c].parts],
  answer   <- [c \in Clients |-> clt[c].answer]
ServiceSpec == Service!Spec

\* No answer is read when as many requests have been sent since its own as there
\* are request numbers, so that one of them has the number it carries.
InTime == \A i \in DOMAIN line :
  line[i].kind \in {"data", "nack", "err"} => drv.reqno < line[i].tag + ReqIds

\* Every client gets its reply, whatever the boards do, with three exceptions.
\* Its multi-read has come to a stray character.  Or the request under way was
\* sent before the adapter had answered the init string: that answer clears the
\* timer (subbusd_CAN_interface.cc:349), and nothing sets it again for that
\* request.  Or a write failed: then request_processing stays set (line 100)
\* and nothing is sent any more.
Answered == \A c \in Clients :
  clt[c].asked > clt[c].answered
    ~> clt[c].asked = clt[c].answered \/ Forgotten(clt[c]) \/ drv.early \/ drv.processing

\* What lib/subbus.c says of a multi-read: the status tells whether some value
\* was not acknowledged.
AckMeansAllAcked ==
  \A c \in Clients : clt[c].answer.status = "ack" => "zero" \notin ToSet(clt[c].answer.vals)
=============================================================================
