------------------------------- MODULE TMbfr -------------------------------
(***************************************************************************)
(* The telemetry buffer, src/TMbfr/resmgr/TMbfr.c: one writer (TM/DG)      *)
(* streams INIT, TSTAMP and DATA records into a ring of rows, and any      *)
(* number of readers (TM/DCf, TM/DCo) read them back, each at its own      *)
(* pace.  A chain of descriptors (dqd) labels the rows of the ring: a new  *)
(* descriptor starts at a time stamp and where frames were skipped.        *)
(*                                                                         *)
(* The resource manager runs one request at a time (use_threads is 0), so  *)
(* a request is accepted only when pc = "idle"; pc walks through the loops *)
(* of the handler.  run_read_queue, run_write_queue and do_write call each *)
(* other only as their last act, so no stack is needed.                    *)
(*                                                                         *)
(* Bytes are counted in units of the excess, the part of a data record     *)
(* that arrives in the same fixed-size header block (tm_hdrs_t): the       *)
(* header proper of a data record is one unit, the block is two.           *)
(***************************************************************************)
EXTENDS Integers, FiniteSets, Sequences

CONSTANTS
  Readers,     \* clients that may open TM/DCf or TM/DCo
  NoReader,    \* not a reader
  NodeOf,      \* the node each reader opens
  TotalQrows,  \* Data_Queue.total_Qrows
  RowUnits,    \* Data_Queue.nbQrow; 1 is a row that fits in the excess
  DataType,    \* Data_Queue.output_tm_type
  Nonblock,    \* the writer sets O_NONBLOCK: collection does, playback not
  MfcMod,      \* number of values of mfc_t
  RecSizes,    \* n_rows of the data records written
  Skips,       \* frames missing in front of a data record
  Kinds,       \* records sent after the first: TSTAMP, DATA, BAD header
  Split,       \* a record may be spread over several writes
  MsgReadErrors, \* MsgRead may fail
  ReadSizes,   \* units asked for by a read
  MaxRecs      \* bound on the records written

HdrUnits  == 2  \* sizeof(tm_hdrs_t)
DataHdr   == 1  \* Data_Queue.nbDataHdr
Excess    == HdrUnits - DataHdr
InitUnits == 3  \* an INIT record

ASSUME TMbfrAssumption ==
  /\ IsFiniteSet(Readers) /\ NoReader \notin Readers
  /\ NodeOf \in [Readers -> {"DCf", "DCo"}]
  /\ TotalQrows \in Nat \ {0}
  /\ RowUnits \in {1, 2}
  /\ DataType \in {"T1", "T3"}
  /\ DataType = "T1" => RowUnits = 2  \* process_tm_info rejects shorter rows
  /\ Nonblock \in BOOLEAN
  /\ MfcMod \in Nat \ {0}
  /\ RecSizes \subseteq Nat \ {0} /\ Skips \subseteq Nat
  /\ Kinds \subseteq {"TSTAMP", "DATA", "BAD"}
  /\ Split \in BOOLEAN /\ MsgReadErrors \in BOOLEAN
  /\ ReadSizes \subseteq Nat \ {0}
  /\ MaxRecs \in Nat

VARIABLES
  first, last, full, row,       \* Data_Queue
  dFirst, dLast, dqd,           \* DQD_Queue: descriptors dFirst..dLast
  tsq, nts,                     \* live TS_queue_t's ref_count, last TS made
  dgOpened, blockedWriter, wr,  \* dg_opened, blocked_writer, the writer's ocb
  hdr, left, nrec,              \* the record being sent, its unsent units
  rd, reply,                    \* the readers' ocbs, the last reply to each
  pc, ret, newRows,             \* where the handler is
  nreq, nfree,                  \* allocate_qrows: nrows_req, nrows_free
  todo, rq, from, nonblk        \* run_read_queue's loop, read_reply's caller

ringVars  == <<first, last, full, row>>
chainVars == <<dFirst, dLast, dqd, tsq, nts>>
sendVars  == <<hdr, left, nrec>>
wrVars    == <<dgOpened, blockedWriter, wr>>
rdVars    == <<rd, reply>>
evalVars  == <<ret, newRows, nreq, nfree>>
readVars  == <<todo, rq, from, nonblk>>
vars == <<ringVars, chainVars, sendVars, wrVars, rdVars, pc, evalVars, readVars>>

Units(k) == k * RowUnits   \* the length of k rows

Lesser(a, b)  == IF a < b THEN a ELSE b
Greater(a, b) == IF a > b THEN a ELSE b

(***************************************************************************)
(* The descriptor chain.  A descriptor is named by its order of creation;  *)
(* the freed ones leave the domain of dqd.  pos is history: how many rows  *)
(* were committed before the descriptor was made.                          *)
(***************************************************************************)
Live == dFirst .. dLast
Rows(d) == dqd[d].expired + dqd[d].n   \* all the rows d ever got

NewDqd(ts, mfctr) ==
  [ref |-> 0, start |-> last, n |-> 0, expired |-> 0, ts |-> ts,
   mfctr |-> mfctr,
   pos |-> IF dLast = 0 THEN 0 ELSE dqd[dLast].pos + Rows(dLast)]

\* new_dq_descriptor(): append a descriptor to the chain
Append1(new) == [d \in dFirst .. dLast + 1 |-> IF d = dLast + 1 THEN new ELSE dqd[d]]

Garbage(q) == q.ref = 0 /\ q.n = 0

\* The slot k rows behind slot s, for rows that do not wrap
SlotAfter(s, k) == IF s + k = TotalQrows THEN 0 ELSE s + k

\* f is the head of the chain q after dq_expire_check(d)
HeadAfter(q, d, f) ==
  IF d = dFirst
  THEN /\ f \in Live
       /\ \A e \in dFirst .. f - 1 : Garbage(q[e])
       /\ f = dLast \/ ~Garbage(q[f])
  ELSE f = dFirst

\* The descriptors before f, and the time stamps only they used, are freed
FreeBefore(q, f) ==
  LET Freed(t) == Cardinality({e \in dFirst .. f - 1 : q[e].ts = t})
  IN  /\ dFirst' = f
      /\ dqd' = [e \in f .. dLast |-> q[e]]
      /\ tsq' = [t \in {t \in DOMAIN tsq : tsq[t] > Freed(t)} |-> tsq[t] - Freed(t)]

\* The chain with the reference to d dropped, the one to its successor taken
Moved_NextUncounted(d, useNext) == [dqd EXCEPT ![d].ref = @ - 1]
Moved(d, useNext) ==
  [e \in Live |->
     IF e = d THEN [dqd[e] EXCEPT !.ref = @ - 1]
     ELSE IF e = d + 1 /\ useNext THEN [dqd[e] EXCEPT !.ref = @ + 1]
     ELSE dqd[e]]

\* dq_deref(d, use_next)
Deref(d, useNext) ==
  LET q == Moved(d, useNext)
  IN  /\ IF q[d].ref = 0
         THEN \E f \in Live : HeadAfter(q, d, f) /\ FreeBefore(q, f)
         ELSE FreeBefore(q, dFirst)
      /\ UNCHANGED <<dLast, nts>>

(***************************************************************************)
(* Records.  A row is its frame number, unwrapped.                         *)
(***************************************************************************)
RecUnits(h) == IF h.kind = "DATA" THEN DataHdr + Units(h.n)
               ELSE IF h.kind = "INIT" THEN InitUnits ELSE HdrUnits

NextFrame == hdr.frame + hdr.n

NextRecs ==
  IF dLast = 0 THEN {[kind |-> "INIT", n |-> 0, frame |-> 0]}
  ELSE {[kind |-> k, n |-> 0, frame |-> NextFrame] : k \in Kinds \ {"DATA"}}
       \cup {[kind |-> "DATA", n |-> n, frame |-> NextFrame + s] :
               n \in IF "DATA" \in Kinds THEN RecSizes ELSE {}, s \in Skips}

\* The frame of the i-th row behind last, of the record being received
FrameAt(i) == hdr.frame + hdr.n - ((wr.nbrec + wr.offq) \div RowUnits) + i

ClosedReader == [open |-> FALSE, dqd |-> 0, n |-> 0, missing |-> 0,
                 blocked |-> FALSE, armed |-> FALSE, part |-> 0,
                 q |-> 0, max |-> 0, got |-> 0]
NoReply == [to |-> NoReader, kind |-> "NONE", mf |-> 0, rows |-> <<>>]
HdrState(w) == [w EXCEPT !.state = "HDR", !.nbdata = HdrUnits]

Init ==
  /\ first = 0 /\ last = 0 /\ full = FALSE
  /\ row = [s \in 0 .. TotalQrows - 1 |-> 0]
  /\ dFirst = 1 /\ dLast = 0 /\ dqd = [d \in 1 .. 0 |-> 0]
  /\ tsq = [t \in 1 .. 0 |-> 0] /\ nts = 0
  /\ dgOpened = 0 /\ blockedWriter = FALSE
  /\ wr = [state |-> "HDR", nbdata |-> HdrUnits, nbmsg |-> 0, nbrec |-> 0,
           offq |-> 0, pending |-> FALSE]
  /\ hdr = [kind |-> "NONE", n |-> 0, frame |-> 0] /\ left = 0 /\ nrec = 0
  /\ rd = [r \in Readers |-> ClosedReader]
  /\ reply = NoReply
  /\ pc = "idle" /\ ret = "write" /\ newRows = FALSE
  /\ nreq = 0 /\ nfree = 0
  /\ todo = {} /\ rq = NoReader /\ from = "queue" /\ nonblk = FALSE

\* The handler returns: its locals go
Return == pc' = "idle" /\ ret' = "write" /\ newRows' = FALSE
          /\ UNCHANGED <<nreq, nfree>>

\* run_read_queue() starts down the list of readers
ToReadQueue ==
  /\ pc' = "readq" /\ ret' = "write" /\ newRows' = FALSE
  /\ todo' = {r \in Readers : rd[r].open /\ rd[r].blocked}
  /\ UNCHANGED <<nreq, nfree, rq, from, nonblk>>

(***************************************************************************)
(* Opening and closing TM/DG                                               *)
(***************************************************************************)
OpenWriter ==
  /\ pc = "idle" /\ dgOpened = 0
  /\ dgOpened' = 1
  /\ UNCHANGED <<ringVars, chainVars, sendVars, blockedWriter, wr, rdVars, pc,
                 evalVars, readVars>>

CloseWriter_NoWakeup ==
  /\ pc = "idle" /\ dgOpened = 1 /\ ~wr.pending
  /\ dgOpened' = 2
  /\ UNCHANGED <<ringVars, chainVars, sendVars, blockedWriter, wr, rdVars, pc,
                 evalVars, readVars>>
CloseWriter ==
  /\ pc = "idle" /\ dgOpened = 1 /\ ~wr.pending
  /\ dgOpened' = 2
  /\ ToReadQueue
  /\ UNCHANGED <<ringVars, chainVars, sendVars, blockedWriter, wr, rdVars>>

(***************************************************************************)
(* io_write and do_write.  The client sends one record per writev (DG.cc), *)
(* or, with Split, pieces of one.                                          *)
(***************************************************************************)
IoWrite(h, nb) ==
  /\ pc = "idle" /\ dgOpened = 1 /\ ~wr.pending
  /\ IF left > 0 THEN h = hdr /\ UNCHANGED nrec
                 ELSE h \in NextRecs /\ nrec < MaxRecs /\ nrec' = nrec + 1
  /\ LET avail == IF left > 0 THEN left ELSE RecUnits(h)
     IN  /\ nb \in 1 .. avail
         /\ Split \/ nb = avail
         /\ left' = avail - nb
  /\ hdr' = h
  /\ wr' = [wr EXCEPT !.nbmsg = nb, !.pending = TRUE]
  /\ blockedWriter' = FALSE
  /\ pc' = "write"
  /\ UNCHANGED <<ringVars, chainVars, dgOpened, rdVars, evalVars, readVars>>

\* The writer's counts after nb units were read
Received(nb) ==
  LET data == IF wr.state = "DATA" THEN nb ELSE 0
  IN  [wr EXCEPT !.nbdata = @ - nb, !.nbmsg = @ - nb,
                 !.nbrec = @ - data, !.offq = @ + data]

MsgReadChunk ==
  /\ pc = "write" /\ wr.nbmsg > 0 /\ wr.nbdata > 0
  /\ LET nb == Lesser(wr.nbmsg, wr.nbdata)
         inData == wr.state = "DATA"
     IN  /\ wr' = Received(nb)
         /\ row' = [s \in DOMAIN row |->
                      IF inData /\ s - last \in wr.offq \div RowUnits ..
                                                (wr.offq + nb - 1) \div RowUnits
                      THEN FrameAt(s - last) ELSE row[s]]
         /\ pc' = IF nb < wr.nbdata THEN "write"
                  ELSE IF inData THEN "eval"
                  ELSE IF wr.state = "HDR" THEN "hdr" ELSE "info"
  /\ UNCHANGED <<first, last, full, chainVars, sendVars, dgOpened, blockedWriter,
                 rdVars, evalVars, readVars>>

\* The write ends in an error; what the client had left of the record is lost
FailWrite ==
  /\ wr' = HdrState([wr EXCEPT !.nbmsg = 0, !.pending = FALSE])
  /\ left' = 0
  /\ Return
  /\ UNCHANGED <<ringVars, chainVars, hdr, nrec, dgOpened, blockedWriter,
                 rdVars, readVars>>

MsgReadFails ==
  /\ MsgReadErrors
  /\ pc = "write" /\ wr.nbmsg > 0 /\ wr.nbdata > 0
  /\ FailWrite

BadHeader == pc = "hdr" /\ hdr.kind = "BAD" /\ FailWrite

InitHeader ==
  /\ pc = "hdr" /\ hdr.kind = "INIT"
  /\ wr' = [wr EXCEPT !.state = "INFO", !.nbdata = InitUnits - HdrUnits]
  /\ pc' = "write"
  /\ UNCHANGED <<ringVars, chainVars, sendVars, dgOpened, blockedWriter, rdVars,
                 evalVars, readVars>>

\* queue_tstamp()
QueueTstamp ==
  /\ nts' = nts + 1
  /\ tsq' = [t \in DOMAIN tsq \cup {nts + 1} |-> IF t = nts + 1 THEN 1 ELSE tsq[t]]
  /\ dqd' = Append1(NewDqd(nts + 1, 0))
  /\ dLast' = dLast + 1
  /\ UNCHANGED dFirst

TstampHeader_NoWakeup ==
  /\ pc = "hdr" /\ hdr.kind = "TSTAMP"
  /\ QueueTstamp
  /\ wr' = HdrState(wr)
  /\ pc' = "write"
  /\ UNCHANGED <<ringVars, sendVars, dgOpened, blockedWriter, rdVars, evalVars,
                 readVars>>
TstampHeader ==
  /\ pc = "hdr" /\ hdr.kind = "TSTAMP"
  /\ QueueTstamp
  /\ newRows' = TRUE
  /\ wr' = HdrState(wr)
  /\ pc' = "write"
  /\ UNCHANGED <<ringVars, sendVars, dgOpened, blockedWriter, rdVars, ret,
                 nreq, nfree, readVars>>

\* process_tm_info() and what follows it in do_write
ProcessTmInfo ==
  /\ pc = "info"
  /\ first' = 0 /\ last' = 0 /\ full' = FALSE /\ UNCHANGED row
  /\ QueueTstamp
  /\ newRows' = TRUE
  /\ wr' = HdrState(wr)
  /\ pc' = "write"
  /\ UNCHANGED <<sendVars, dgOpened, blockedWriter, rdVars, ret, nreq, nfree,
                 readVars>>

DataHeader ==
  /\ pc = "hdr" /\ hdr.kind = "DATA"
  /\ wr' = [wr EXCEPT !.nbrec = Units(hdr.n), !.offq = 0]
  /\ pc' = "eval"
  /\ UNCHANGED <<ringVars, chainVars, sendVars, dgOpened, blockedWriter, rdVars,
                 evalVars, readVars>>

(***************************************************************************)
(* data_state_T1 and data_state_T3: commit the rows that have arrived      *)
(* behind last, then allocate room for those still to come.                *)
(***************************************************************************)
\* Data_Queue.full after k rows were added
FullAfter(k) ==
  full \/ (k > 0 /\ DataType = "T3" /\ SlotAfter(last, k) = first)

CommitRows ==
  /\ pc = "eval"
  /\ \E k \in 0 .. TotalQrows :
       /\ wr.offq = Units(k)
       /\ last' = SlotAfter(last, k)
       /\ full' = FullAfter(k)
       /\ dqd' = [dqd EXCEPT ![dLast].n = @ + k]
       /\ newRows' = (newRows \/ k > 0)
  /\ wr' = [wr EXCEPT !.offq = 0]
  /\ pc' = IF wr.nbrec > 0 THEN "alloc" ELSE "evaldone"
  /\ UNCHANGED <<first, row, dFirst, dLast, tsq, nts, sendVars, dgOpened,
                 blockedWriter, rdVars, ret, nreq, nfree, readVars>>

RowsLeft == Greater(1, wr.nbrec \div RowUnits)

\* A record that does not continue the last descriptor starts one of its own.
\* The sum is an int, hdr.mfctr an mfc_t: they differ after every wrap.
NeedDqd_EmptyOnly ==
  /\ DataType = "T3" /\ Rows(dLast) = 0
  /\ dqd[dLast].mfctr # hdr.frame % MfcMod
NeedDqd ==
  /\ DataType = "T3" /\ RowsLeft = hdr.n
  /\ dqd[dLast].mfctr + Rows(dLast) # hdr.frame % MfcMod

\* allocate_qrows() up to its loop
AllocateQrows ==
  /\ pc = "alloc"
  /\ IF NeedDqd
     THEN LET ts == dqd[dLast].ts
          IN  /\ dqd' = Append1(NewDqd(ts, hdr.frame % MfcMod))
              /\ tsq' = [tsq EXCEPT ![ts] = @ + 1]
              /\ dLast' = dLast + 1
     ELSE UNCHANGED <<dqd, tsq, dLast>>
  /\ IF ~full /\ last >= first
     THEN nfree' = Lesser(TotalQrows - last, RowsLeft) /\ nreq' = 0
     ELSE nfree' = Lesser(first - last, RowsLeft) /\ nreq' = RowsLeft - nfree'
  /\ pc' = IF nreq' > 0 THEN "expire" ELSE "place"
  /\ UNCHANGED <<ringVars, dFirst, nts, sendVars, wrVars, rdVars, ret, newRows,
                 readVars>>

\* The descriptor allocate_qrows expires from: the first with rows, or the last
Oldest(d) ==
  /\ d \in Live
  /\ \A e \in dFirst .. d - 1 : dqd[e].n = 0
  /\ d = dLast \/ dqd[d].n > 0

On(d) == {r \in Readers : rd[r].dqd = d}

\* m = min_reader(d)
IsMinReader_AnyReader(d, m) ==
  IF d # dFirst THEN m = 0
  ELSE (m = Rows(d) /\ On(d) = {}) \/ \E r \in On(d) : m = rd[r].n
IsMinReader(d, m) ==
  IF d # dFirst THEN m = 0
  ELSE /\ m <= Rows(d) /\ \A r \in On(d) : m <= rd[r].n
       /\ m = Rows(d) \/ \E r \in On(d) : m = rd[r].n

\* The rows of d to expire if no reader minds
Expendable(d) ==
  Lesser(Lesser(nreq, Greater(0, TotalQrows - last - nfree)),
         Lesser(dqd[d].n, TotalQrows - dqd[d].start))

\* x = n_expire for descriptor d
IsExpirable(d, x) ==
  LET room == Expendable(d)
  IN  IF Nonblock THEN x = room
      ELSE \E m \in 0 .. Rows(d) :
             /\ IsMinReader(d, m)
             /\ x = Lesser(room, Greater(0, m - dqd[d].expired))

\* Take x > 0 rows from d; a descriptor that is spent goes, and its successor
\* is next
Expire(d, x) ==
  LET s == SlotAfter(dqd[d].start, x)
      q == [dqd EXCEPT ![d].start = s, ![d].n = @ - x, ![d].expired = @ + x]
      spent == q[d].n = 0 /\ d < dLast
  IN  /\ first' = s /\ full' = FALSE
      /\ nfree' = nfree + x /\ nreq' = nreq - x
      /\ IF spent
         THEN \E f \in Live : HeadAfter(q, d, f) /\ FreeBefore(q, f)
         ELSE FreeBefore(q, dFirst)
      /\ pc' = IF spent /\ nreq' > 0 THEN "expire" ELSE "place"
      /\ UNCHANGED <<dLast, nts>>

\* One turn of allocate_qrows's loop
ExpireRows ==
  /\ pc = "expire"
  /\ \E d \in Live : \E x \in 0 .. dqd[d].n :
       /\ Oldest(d) /\ IsExpirable(d, x)
       /\ IF x = 0
          THEN pc' = "place" /\ UNCHANGED <<first, full, chainVars, nreq, nfree>>
          ELSE Expire(d, x)
  /\ UNCHANGED <<last, row, sendVars, wrVars, rdVars, ret, newRows, readVars>>

\* The units of the record that came with its header and go first
ExcessHere == IF nfree > 0 /\ wr.state = "HDR" THEN Excess ELSE 0

\* nrowsfree && nbdata == 0: an entire row was in the excess
RowInHeader == nfree > 0 /\ Units(nfree) = ExcessHere

\* The end of allocate_qrows and the test of data_state_Tn's loop: the next
\* nfree rows behind last are to be filled; the excess goes there at once
PlaceRows ==
  /\ pc = "place"
  /\ LET ex == ExcessHere
     IN  /\ wr' = [wr EXCEPT !.state = IF nfree > 0 THEN "DATA" ELSE @,
                             !.nbdata = Units(nfree) - ex,
                             !.offq = ex, !.nbrec = @ - ex]
         /\ row' = IF ex > 0 THEN [row EXCEPT ![last] = hdr.frame] ELSE row
         /\ pc' = IF RowInHeader THEN "eval" ELSE "evaldone"
  /\ nfree' = 0 /\ nreq' = 0
  /\ UNCHANGED <<first, last, full, chainVars, sendVars, dgOpened, blockedWriter,
                 rdVars, ret, newRows, readVars>>

\* The record is complete, the next unit is a header's
EndRecord_Never == wr
EndRecord == IF wr.nbrec <= 0 THEN HdrState(wr) ELSE wr

\* Back in do_write, or in run_write_queue, which forgets the rows committed
\* when there is nothing more to read (nbdata = 0)
EvalReturn ==
  /\ pc = "evaldone"
  /\ IF ret = "write"
     THEN /\ wr' = EndRecord
          /\ pc' = "write"
          /\ UNCHANGED <<blockedWriter, evalVars>>
     ELSE /\ UNCHANGED wr
          /\ IF wr.nbdata > 0
             THEN /\ blockedWriter' = FALSE
                  /\ pc' = "write" /\ ret' = "write"
                  /\ UNCHANGED <<newRows, nreq, nfree>>
             ELSE Return /\ UNCHANGED blockedWriter
  /\ UNCHANGED <<ringVars, chainVars, sendVars, dgOpened, rdVars, readVars>>

\* The end of do_write: reply, or block until readers make room
DoWriteReply ==
  /\ pc = "write" /\ wr.nbmsg = 0
  /\ wr' = [wr EXCEPT !.pending = FALSE]
  /\ IF newRows THEN ToReadQueue ELSE Return /\ UNCHANGED readVars
  /\ UNCHANGED <<ringVars, chainVars, sendVars, dgOpened, blockedWriter, rdVars>>

DoWriteBlock ==
  /\ pc = "write" /\ wr.nbmsg > 0 /\ wr.nbdata = 0
  /\ blockedWriter' = TRUE
  /\ ToReadQueue
  /\ UNCHANGED <<ringVars, chainVars, sendVars, dgOpened, wr, rdVars>>

RunReadQueue ==
  /\ pc = "readq"
  /\ \/ \E r \in todo :
          /\ todo' = todo \ {r}
          /\ rd' = [rd EXCEPT ![r].blocked = FALSE]
          /\ rq' = r /\ from' = "queue" /\ nonblk' = FALSE
          /\ pc' = "read"
     \/ /\ todo = {}   \* iofunc_notify_trigger on both nodes
        /\ rd' = [r \in Readers |-> [rd[r] EXCEPT !.armed = FALSE]]
        /\ pc' = "writeq"
        /\ UNCHANGED readVars
  /\ reply' = NoReply
  /\ UNCHANGED <<ringVars, chainVars, sendVars, wrVars, evalVars>>

RunWriteQueue ==
  /\ pc = "writeq"
  /\ IF blockedWriter
     THEN /\ pc' = "eval" /\ ret' = "queue" /\ newRows' = FALSE
          /\ UNCHANGED <<nreq, nfree>>
     ELSE Return
  /\ reply' = NoReply
  /\ UNCHANGED <<ringVars, chainVars, sendVars, wrVars, rd, readVars>>

(***************************************************************************)
(* The readers                                                             *)
(***************************************************************************)
OpenReader(r) ==
  /\ pc = "idle" /\ ~rd[r].open
  /\ rd' = [rd EXCEPT ![r] = [ClosedReader EXCEPT !.open = TRUE]]
  /\ UNCHANGED <<ringVars, chainVars, sendVars, wrVars, reply, pc, evalVars, readVars>>

\* ocb_free() of a reader's ocb.  It does not look at the blocked writer.
CloseReader(r) ==
  /\ pc = "idle" /\ rd[r].open /\ ~rd[r].blocked
  /\ IF rd[r].dqd # 0 THEN Deref(rd[r].dqd, FALSE) ELSE UNCHANGED chainVars
  /\ rd' = [rd EXCEPT ![r] = ClosedReader]
  /\ UNCHANGED <<ringVars, sendVars, wrVars, reply, pc, evalVars, readVars>>

\* Rows of its descriptor the reader has not had, as io_notify counts them
RowsReady(r) ==
  dqd[rd[r].dqd].n - Greater(0, rd[r].n - dqd[rd[r].dqd].expired)

NotifyInput(r) ==
  \/ dgOpened = 2 \/ rd[r].part > 0
  \/ rd[r].dqd = 0 /\ dLast > 0
  \/ rd[r].dqd > 0 /\ (rd[r].dqd < dLast \/ RowsReady(r) # 0)

\* io_notify with an event armed for input
IoNotify(r) ==
  /\ pc = "idle" /\ rd[r].open /\ ~rd[r].blocked
  /\ rd' = [rd EXCEPT ![r].armed = ~NotifyInput(r)]
  /\ UNCHANGED <<ringVars, chainVars, sendVars, wrVars, reply, pc, evalVars, readVars>>

\* The rows that fit in a reply to a request for q units, and at least one
MaxQrows_Rounded(q) ==
  Lesser(TotalQrows, Greater(1, (q - DataHdr + RowUnits - 1) \div RowUnits))
MaxQrows(q) == Lesser(TotalQrows, Greater(1, (q - DataHdr) \div RowUnits))

IoRead(r, q, nb) ==
  /\ pc = "idle" /\ rd[r].open /\ ~rd[r].blocked
  /\ rd' = [rd EXCEPT ![r].q = q,
                      ![r].max = IF rd[r].dqd > 0 THEN MaxQrows(q) ELSE @]
  /\ rq' = r /\ from' = "io" /\ nonblk' = nb
  /\ pc' = "read"
  /\ UNCHANGED <<ringVars, chainVars, sendVars, wrVars, reply, evalVars, todo>>

(***************************************************************************)
(* read_reply(rq): one of the disjuncts below, by what the reader's ocb    *)
(* and the queue hold.                                                     *)
(***************************************************************************)
Reading == pc = "read"

ReplyDone_NoWriteQueue ==
  /\ pc' = IF from = "io" THEN "idle" ELSE "readq"
  /\ rq' = NoReader /\ from' = "queue" /\ nonblk' = FALSE
  /\ UNCHANGED todo
ReplyDone ==
  /\ pc' = IF from = "io" THEN "writeq" ELSE "readq"
  /\ rq' = NoReader /\ from' = "queue" /\ nonblk' = FALSE
  /\ UNCHANGED todo

Answer(kind, mf, rows) ==
  reply' = [to |-> rq, kind |-> kind, mf |-> mf, rows |-> rows]

\* do_read_reply(): what does not fit in the request waits in part.
\* (nbytes and maxQrows, not used again before the next io_read, are cleared.)
Give(ocb, kind, mf, rows, units) ==
  /\ rd' = [rd EXCEPT ![rq] = [ocb EXCEPT !.part = Greater(0, units - ocb.q),
                                           !.q = 0, !.max = 0]]
  /\ Answer(kind, mf, rows)
  /\ ReplyDone

\* enqueue_read()
EnqueueRead(ocb) ==
  /\ IF dgOpened = 2 \/ nonblk
     THEN /\ rd' = [rd EXCEPT ![rq] = [ocb EXCEPT !.q = 0, !.max = 0]]
          /\ Answer(IF dgOpened = 2 THEN "EOF" ELSE "EAGAIN", 0, <<>>)
     ELSE /\ rd' = [rd EXCEPT ![rq] = [ocb EXCEPT !.blocked = TRUE]]
          /\ UNCHANGED reply
  /\ ReplyDone

ReplyPartial ==
  /\ Reading /\ rd[rq].part > 0
  /\ Give(rd[rq], "PART", 0, <<>>, rd[rq].part)
  /\ UNCHANGED <<ringVars, chainVars, sendVars, wrVars, evalVars>>

ReplyInit ==
  /\ Reading /\ rd[rq].part = 0 /\ rd[rq].dqd = 0 /\ dLast > 0
  /\ dqd' = [dqd EXCEPT ![dFirst].ref = @ + 1]
  /\ Give([rd[rq] EXCEPT !.dqd = dFirst, !.n = 0, !.got = dqd[dFirst].pos],
          "INIT", 0, <<>>, InitUnits)
  /\ UNCHANGED <<ringVars, dFirst, dLast, tsq, nts, sendVars, wrVars, evalVars>>

ReadBeforeInit ==
  /\ Reading /\ rd[rq].part = 0 /\ rd[rq].dqd = 0 /\ dLast = 0
  /\ EnqueueRead(rd[rq])
  /\ UNCHANGED <<ringVars, chainVars, sendVars, wrVars, evalVars>>

\* The ocb after the rows that expired before the reader came are counted
CaughtUp_Uncounted == [rd[rq] EXCEPT !.n = Greater(@, dqd[rd[rq].dqd].expired)]
CaughtUp ==
  LET x == dqd[rd[rq].dqd].expired
  IN  [rd[rq] EXCEPT !.n = Greater(@, x), !.missing = @ + Greater(0, x - rd[rq].n)]

Ready == Rows(rd[rq].dqd) - CaughtUp.n

Attached == Reading /\ rd[rq].part = 0 /\ rd[rq].dqd > 0

\* TM/DCo waits for a full reply unless something prevents more rows
WantsMore_AfterEnd ==
  /\ ~blockedWriter /\ rd[rq].dqd = dLast
  /\ Ready < rd[rq].max /\ NodeOf[rq] = "DCo" /\ ~nonblk
WantsMore ==
  /\ ~blockedWriter /\ dgOpened < 2 /\ rd[rq].dqd = dLast
  /\ Ready < rd[rq].max /\ NodeOf[rq] = "DCo" /\ ~nonblk

\* The slot of the i-th row to return
SlotAt_ExpiredCounted(i) == (dqd[rd[rq].dqd].start + CaughtUp.n + i - 1) % TotalQrows
SlotAt(i) ==
  LET s == dqd[rd[rq].dqd].start + CaughtUp.n - dqd[rd[rq].dqd].expired
      p == (IF s > TotalQrows THEN s - TotalQrows ELSE s) + i - 1
  IN  IF p >= TotalQrows THEN p - TotalQrows ELSE p

ReplyRows ==
  /\ Attached /\ Ready > 0 /\ ~WantsMore
  /\ LET k == Lesser(Ready, rd[rq].max)
     IN  Give([CaughtUp EXCEPT !.n = @ + k, !.got = @ + k],
              "DATA", (dqd[rd[rq].dqd].mfctr + CaughtUp.n) % MfcMod,
              [i \in 1 .. k |-> row[SlotAt(i)]], DataHdr + Units(k))
  /\ UNCHANGED <<ringVars, chainVars, sendVars, wrVars, evalVars>>

ReplyDefer ==
  /\ Attached /\ Ready > 0 /\ WantsMore
  /\ EnqueueRead(CaughtUp)
  /\ UNCHANGED <<ringVars, chainVars, sendVars, wrVars, evalVars>>

\* On to the next descriptor, with a TSTAMP when the time stamp changes;
\* otherwise read_reply looks at the new descriptor
ReplyNextDqd ==
  /\ Attached /\ Ready = 0 /\ rd[rq].dqd < dLast
  /\ Deref(rd[rq].dqd, TRUE)
  /\ LET d   == rd[rq].dqd
         ocb == [CaughtUp EXCEPT !.dqd = d + 1, !.n = 0]
     IN  IF dqd[d].ts # dqd[d + 1].ts
         THEN Give(ocb, "TSTAMP", 0, <<>>, HdrUnits)
         ELSE /\ rd' = [rd EXCEPT ![rq] = ocb]
              /\ UNCHANGED <<reply, pc, readVars>>
  /\ UNCHANGED <<ringVars, sendVars, wrVars, evalVars>>

ReplyStarved ==
  /\ Attached /\ Ready = 0 /\ rd[rq].dqd = dLast
  /\ EnqueueRead(CaughtUp)
  /\ UNCHANGED <<ringVars, chainVars, sendVars, wrVars, evalVars>>

ReadReply == ReplyPartial \/ ReplyInit \/ ReadBeforeInit \/ ReplyRows
             \/ ReplyDefer \/ ReplyNextDqd \/ ReplyStarved

(***************************************************************************)
(* main() leaves its loop once every ocb is closed                         *)
(***************************************************************************)
AllClosed == dgOpened = 2 /\ \A r \in Readers : ~rd[r].open

Shutdown ==
  /\ pc = "idle" /\ AllClosed
  /\ pc' = "done"
  /\ UNCHANGED <<ringVars, chainVars, sendVars, wrVars, rdVars, evalVars, readVars>>

Terminated == pc = "done" /\ UNCHANGED vars

Handler ==
  \/ MsgReadChunk \/ BadHeader \/ InitHeader \/ TstampHeader \/ DataHeader
  \/ ProcessTmInfo \/ CommitRows \/ AllocateQrows \/ ExpireRows \/ PlaceRows
  \/ EvalReturn \/ DoWriteReply \/ DoWriteBlock
  \/ RunReadQueue \/ RunWriteQueue \/ ReadReply

Writing == \E h \in NextRecs \cup {hdr} : \E nb \in 1 .. RecUnits(h) : IoWrite(h, nb)
ReadRequest(r) == \E q \in ReadSizes, nb \in BOOLEAN : IoRead(r, q, nb)

StayNext ==
  \/ OpenWriter \/ CloseWriter \/ Writing \/ MsgReadFails \/ Handler
  \/ \E r \in Readers : OpenReader(r) \/ IoNotify(r) \/ ReadRequest(r)

Next == StayNext \/ (\E r \in Readers : CloseReader(r)) \/ Shutdown \/ Terminated

Spec == Init /\ [][Next]_vars

\* The server runs whatever request it has; every client opens its node and
\* keeps reading (neither is postponed for ever by the others).
FairSpec ==
  /\ Init /\ [][StayNext]_vars
  /\ WF_vars(Handler)
  /\ \A r \in Readers : SF_vars(OpenReader(r)) /\ SF_vars(ReadRequest(r))

-----------------------------------------------------------------------------
(***************************************************************************)
(* Properties                                                              *)
(***************************************************************************)
Dqds == [ref : Nat, start : 0 .. TotalQrows - 1, n : Nat, expired : Nat,
         ts : Nat, mfctr : 0 .. MfcMod - 1, pos : Nat]

Ocbs == [open : BOOLEAN, dqd : Nat, n : Nat, missing : Nat, blocked : BOOLEAN,
         armed : BOOLEAN, part : Nat, q : Nat, max : 0 .. TotalQrows,
         got : Nat]

RingType ==
  /\ first \in 0 .. TotalQrows - 1 /\ last \in 0 .. TotalQrows - 1
  /\ full \in BOOLEAN
  /\ row \in [0 .. TotalQrows - 1 -> Int]

ChainType ==
  /\ dFirst \in Nat \ {0} /\ dLast \in Nat /\ dFirst <= dLast + 1
  /\ dqd \in [dFirst .. dLast -> Dqds]
  /\ nts \in Nat /\ DOMAIN tsq \subseteq Nat /\ tsq \in [DOMAIN tsq -> Nat]

WriterType ==
  /\ dgOpened \in 0 .. 2 /\ blockedWriter \in BOOLEAN
  /\ wr \in [state : {"HDR", "INFO", "DATA"}, nbdata : Nat, nbmsg : Nat,
             nbrec : Nat, offq : Nat, pending : BOOLEAN]
  /\ hdr \in [kind : {"NONE", "INIT", "TSTAMP", "DATA", "BAD"}, n : Nat, frame : Nat]
  /\ left \in Nat /\ nrec \in Nat

ReplyType ==
  /\ reply.to \in Readers \cup {NoReader}
  /\ reply.kind \in {"NONE", "INIT", "TSTAMP", "DATA", "PART", "EOF", "EAGAIN"}
  /\ reply.mf \in 0 .. MfcMod - 1
  /\ \E k \in 0 .. TotalQrows : DOMAIN reply.rows = 1 .. k

ControlType ==
  /\ pc \in {"idle", "write", "hdr", "info", "eval", "alloc", "expire", "place",
             "evaldone", "readq", "writeq", "read", "done"}
  /\ ret \in {"write", "queue"} /\ newRows \in BOOLEAN
  /\ nreq \in Nat /\ nfree \in Nat
  /\ todo \subseteq Readers /\ rq \in Readers \cup {NoReader}
  /\ from \in {"io", "queue"} /\ nonblk \in BOOLEAN

\* Every variable has its type: ring indices in range, counters not negative.
TypeOK ==
  /\ RingType /\ ChainType /\ WriterType
  /\ rd \in [Readers -> Ocbs] /\ ReplyType
  /\ ControlType

Total == IF dLast = 0 THEN 0 ELSE dqd[dLast].pos + Rows(dLast)
Held(d) == {i \in 0 .. TotalQrows - 1 : i < dqd[d].n}

\* The descriptors partition the rows the ring holds: the p-th row of the
\* stream is in slot p modulo the ring, expired rows are the oldest ones,
\* first and last delimit what is held and full tells full from empty.
RingTiled ==
  \A d \in Live :
    /\ d < dLast => dqd[d + 1].pos = dqd[d].pos + Rows(d)
    /\ dqd[d].n > 0 =>
         /\ dqd[d].start = (dqd[d].pos + dqd[d].expired) % TotalQrows
         /\ \A e \in d + 1 .. dLast : dqd[e].expired = 0
         /\ Total - (dqd[d].pos + dqd[d].expired) <= TotalQrows
         /\ Oldest(d) => /\ first = dqd[d].start
                         /\ full <=> Total - (dqd[d].pos + dqd[d].expired) = TotalQrows
    /\ last = Total % TotalQrows
    /\ (\A e \in Live : dqd[e].n = 0) => first = last /\ ~full

\* A time stamp lives exactly as long as a descriptor uses it.
TsRefs ==
  /\ DOMAIN tsq = {dqd[d].ts : d \in Live}
  /\ \A t \in DOMAIN tsq : tsq[t] = Cardinality({d \in Live : dqd[d].ts = t})

\* The frames are those the MFCtr says, as TM readers compute it (mfc_t wraps).
FramesLabelled ==
  DataType = "T3" =>
    \A d \in Live : \A i \in Held(d) :
      row[(dqd[d].start + i) % TotalQrows] % MfcMod
        = (dqd[d].mfctr + dqd[d].expired + i) % MfcMod

\* Whatever was overwritten, expired or freed, the chain of descriptors says
\* what is in the ring: each row that is held belongs to one of them, is the
\* frame it is labelled, and has a time stamp that is still there.
RowsAreLabelled == RingTiled /\ TsRefs /\ FramesLabelled

\* ref_count is the number of open ocbs that point to a descriptor, and no ocb
\* points to one that was freed.
RefCounts ==
  /\ \A d \in Live : dqd[d].ref = Cardinality(On(d))
  /\ \A r \in Readers : rd[r].dqd # 0 => rd[r].dqd \in Live

\* From where a reader came in, it has been given every row or has it counted
\* in rows_missing: none is returned twice, none is lost in silence.  (got is
\* history: the stream position where it came in plus the rows returned.)
RowsAccounted ==
  \A r \in Readers : rd[r].dqd # 0 =>
    /\ rd[r].n <= Rows(rd[r].dqd)
    /\ rd[r].got + rd[r].missing = dqd[rd[r].dqd].pos + rd[r].n

\* A data record returned to a reader holds consecutive frames from the one in
\* its header (tm.h: "Subsequent rows are guaranteed to be consecutive").
RepliesConsecutive ==
  DataType = "T3" =>
    \A i \in DOMAIN reply.rows :
      reply.rows[i] % MfcMod = (reply.mf + i - 1) % MfcMod

PbufSize == Greater(InitUnits, DataHdr + RowUnits)

\* No assert() of do_write, allocate_qrows, data_state_Tn, dq_deref, read_reply
\* or do_read_reply fails.
AssertionsHold ==
  /\ pc = "write" /\ wr.nbmsg > 0 /\ wr.nbdata = 0 => ~Nonblock
  /\ pc = "eval" =>
       /\ wr.nbdata = 0 /\ wr.offq % RowUnits = 0
       /\ last + wr.offq \div RowUnits <= TotalQrows
  /\ pc = "expire" => \A d \in Live : Oldest(d) => dqd[d].start = first
  /\ pc \in {"expire", "place"} => last + nfree <= TotalQrows
  /\ pc = "place" => (nfree > 0 /\ wr.state = "HDR" => Excess <= Units(nfree))
  /\ Attached => dqd[rd[rq].dqd].ref > 0 /\ Ready >= 0
  /\ Attached /\ Ready > 0 /\ ~WantsMore =>
       LET nb == DataHdr + Units(Lesser(Ready, rd[rq].max))
       IN  nb <= Greater(PbufSize, rd[rq].q)

\* A read would return something: the rest of a record, rows or a time stamp
Deliverable(r) ==
  \/ rd[r].part > 0
  \/ rd[r].dqd = 0 /\ dLast > 0
  \/ /\ rd[r].dqd > 0
     /\ \/ RowsReady(r) > 0
        \/ \E d \in rd[r].dqd + 1 .. dLast :
             dqd[d].n > 0 \/ dqd[d].ts # dqd[rd[r].dqd].ts

\* When the server waits for a request, nobody is left waiting for what is
\* there: a blocked read has nothing to return, unless it is a TM/DCo read that
\* saves up rows of the newest descriptor while the writer is free to add more;
\* an armed notification has nothing to report.
NoMissedWakeup ==
  pc = "idle" =>
    \A r \in Readers :
      /\ rd[r].blocked =>
           /\ dgOpened < 2
           /\ Deliverable(r) =>
                /\ NodeOf[r] = "DCo" /\ ~blockedWriter /\ rd[r].part = 0
                /\ rd[r].dqd = dLast /\ RowsReady(r) < rd[r].max
      /\ rd[r].armed => dgOpened < 2 /\ ~Deliverable(r)

\* A read returns end of file only when the writer has closed and the reader
\* has had everything.
EofMeansDrained ==
  reply.kind = "EOF" => dgOpened = 2 /\ ~Deliverable(reply.to)

\* A step expires no row that an attached reader has yet to read
KeepsUnread ==
  ~Nonblock =>
    \A r \in Readers, d \in Live :
      rd[r].dqd # 0 /\ d >= rd[r].dqd =>
        LET had == IF d = rd[r].dqd THEN rd[r].n ELSE 0
        IN  d \in dFirst' .. dLast' =>
              Greater(0, dqd'[d].expired - had) <= Greater(0, dqd[d].expired - had)

\* A blocking writer overwrites no row that an attached reader has yet to read.
UnreadRowsKept == [][KeepsUnread]_vars

\* Once the write that ends a data record is answered, all of the record is in
\* the queue: the server expects a header and the newest row, and its label,
\* are the record's last.
AnsweredMeansStored ==
  pc = "idle" /\ ~wr.pending /\ left = 0 /\ hdr.kind = "DATA" =>
    /\ wr.state = "HDR" /\ wr.nbdata = HdrUnits
    /\ row[(last + TotalQrows - 1) % TotalQrows] = NextFrame - 1
    /\ (dqd[dLast].mfctr + Rows(dLast)) % MfcMod = NextFrame % MfcMod

\* While every client keeps reading, a write is answered.
WriteCompletes == wr.pending ~> ~wr.pending

\* After the writer closes, every reader that keeps reading comes to the end.
StreamEnds ==
  \A r \in Readers : (dgOpened = 2) ~> (reply.kind = "EOF" /\ reply.to = r)
=============================================================================
