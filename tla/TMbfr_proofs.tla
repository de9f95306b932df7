---------------------------- MODULE TMbfr_proofs ----------------------------
(***************************************************************************)
(* IInv of TMbfr_inv is an inductive invariant of TMbfr, and what follows  *)
(* from it.  One lemma per action; most actions leave the writer's side or *)
(* the queue's side of the state alone, which the lemmas of the first      *)
(* section say once.  Then what the invariant says to the readers: a       *)
(* writer that blocks takes nothing from them that they have not read, and *)
(* the end of file comes when nothing is left.                             *)
(*                                                                         *)
(* The second half is what is in the ring: StreamInv, RoomFound and        *)
(* RingInv of TMbfr_rows_inv hold from step to step, and with them         *)
(* RingTiled; the rows that are held have the frames and the time stamps   *)
(* that the chain of descriptors says, replies hold consecutive frames,    *)
(* and what a write was answered for is in the queue.                      *)
(*                                                                         *)
(* The last part is who waits: WakeInv of TMbfr_wake_inv holds from step   *)
(* to step, and with it NoMissedWakeup.                                    *)
(***************************************************************************)
EXTENDS TMbfr_wake_inv, TLAPS, FiniteSetTheorems, Lemmas

\* What the arithmetic below needs of the constants.
LEMMA ConstType ==
  /\ TotalQrows \in Nat \ {0} /\ MfcMod \in Nat \ {0} /\ RowUnits \in {1, 2}
BY TMbfrAssumption

\* Rows have at least one unit each.
LEMMA UnitsNat == ASSUME NEW k \in Nat PROVE Units(k) \in Nat /\ Units(k) >= k
BY ConstType DEF Units

\* No rows take no units.
LEMMA UnitsZero == Units(0) = 0
BY ConstType DEF Units

\* The units tell the number of rows.
LEMMA UnitsInjective ==
  ASSUME NEW j \in Nat, NEW k \in Nat, Units(j) = Units(k) PROVE j = k
BY ConstType DEF Units

\* More rows take more units.
LEMMA UnitsLeq ==
  ASSUME NEW j \in Nat, NEW k \in Nat PROVE (Units(j) <= Units(k)) <=> (j <= k)
BY ConstType DEF Units

\* The units of a difference.
LEMMA UnitsSub ==
  ASSUME NEW j \in Nat, NEW k \in Nat, j <= k PROVE Units(k - j) = Units(k) - Units(j)
BY ConstType DEF Units

\* n_rows computed back from nb_rec.
LEMMA UnitsRows == ASSUME NEW k \in Nat PROVE Units(k) \div RowUnits = k
BY ConstType DEF Units

-----------------------------------------------------------------------------
\* The writer's ocb and the ring; the descriptors and the readers; the handler
WriterInv == RingType /\ WriterType /\ EvalInv /\ PcInv /\ BlockFits
QueueInv  == ChainType /\ ChainInv /\ rd \in [Readers -> Ocbs] /\ RefCounts /\ RowsAccounted
ServerInv == ReplyType /\ ControlType /\ ReaderInv

\* The invariant by whose state it is about: the writer's ocb and the ring, the
\* descriptors and the readers, the handler's own.
LEMMA Parts == IInv <=> WriterInv /\ QueueInv /\ ServerInv
BY DEF IInv, WriterInv, QueueInv, ServerInv, TypeOK

\* The same, of the state after a step.
LEMMA NextParts == WriterInv' /\ QueueInv' /\ ServerInv' => IInv'
BY DEF IInv, WriterInv, QueueInv, ServerInv, TypeOK

\* What a step leaves alone, in facts the provers take one by one
SameRing  == first' = first /\ last' = last /\ full' = full /\ row' = row
SameChain == dFirst' = dFirst /\ dLast' = dLast /\ dqd' = dqd /\ tsq' = tsq /\ nts' = nts
SameSend  == hdr' = hdr /\ left' = left /\ nrec' = nrec
SameWriter == SameRing /\ SameSend /\ blockedWriter' = blockedWriter /\ wr' = wr
SameReader == rd' = rd /\ reply' = reply

\* Outside the writer's part of the handler the writer's side is left alone
LEMMA WriterWaits ==
  ASSUME WriterInv, SameWriter, dgOpened' \in 0 .. 2, dLast' = dLast,
         pc \in Waiting, pc' \in Waiting
  PROVE  WriterInv'
<1>1. RingType'
  BY DEF WriterInv, SameWriter, SameRing, RingType
<1>2. WriterType'
  BY DEF WriterInv, SameWriter, SameSend, WriterType
<1>3. EvalInv'
  BY DEF WriterInv, SameWriter, SameRing, EvalInv, Waiting, Evaluating, Settled,
     WholeRows
<1>4. PcInv'
  BY DEF WriterInv, SameWriter, SameSend, PcInv, Waiting, Evaluating
<1>5. BlockFits'
  BY DEF WriterInv, SameWriter, SameRing, BlockFits
<1> QED
  BY <1>1, <1>2, <1>3, <1>4, <1>5 DEF WriterInv

\* If no reader changes descriptors, the readers of each stay.
LEMMA OnSame ==
  ASSUME NEW d, \A r \in Readers : rd'[r].dqd = rd[r].dqd
  PROVE  On(d)' = On(d)
BY DEF On

\* An unchanged chain keeps its type and its order.
LEMMA ChainWaits ==
  ASSUME ChainType, ChainInv, SameChain PROVE ChainType' /\ ChainInv'
BY DEF SameChain, ChainType, ChainInv, Rows

\* Counts stay right while neither descriptors nor references change.
LEMMA RefsWait ==
  ASSUME RefCounts, SameChain, \A r \in Readers : rd'[r].dqd = rd[r].dqd
  PROVE  RefCounts'
<1>1. \A d \in Live : On(d)' = On(d)
  BY OnSame
<1>2. Live' = Live /\ dqd' = dqd
  BY DEF SameChain, Live
<1>3. \A d \in Live : dqd[d].ref = Cardinality(On(d)')
  BY <1>1 DEF RefCounts
<1>4. \A r \in Readers : rd'[r].dqd # 0 => rd'[r].dqd \in Live
  BY DEF RefCounts
<1> QED
  BY <1>2, <1>3, <1>4 DEF RefCounts

\* The account of a reader whose counts do not change.
LEMMA RowsWait ==
  ASSUME RowsAccounted, SameChain,
         \A r \in Readers :
           /\ rd'[r].dqd = rd[r].dqd /\ rd'[r].n = rd[r].n
           /\ rd'[r].missing = rd[r].missing /\ rd'[r].got = rd[r].got
  PROVE  RowsAccounted'
BY DEF SameChain, RowsAccounted, Rows

\* The queue's part of the invariant, when the chain and the readers' counts stay.
LEMMA QueueWaits ==
  ASSUME QueueInv, SameChain, rd' \in [Readers -> Ocbs],
         \A r \in Readers :
           /\ rd'[r].dqd = rd[r].dqd /\ rd'[r].n = rd[r].n
           /\ rd'[r].missing = rd[r].missing /\ rd'[r].got = rd[r].got
  PROVE  QueueInv'
BY ChainWaits, RefsWait, RowsWait DEF QueueInv

\* The invariant holds when the server starts.
LEMMA InitInv == Init => IInv
<1> SUFFICES ASSUME Init PROVE WriterInv /\ QueueInv /\ ServerInv
  BY Parts
<1>1. RingType
  BY ConstType DEF Init, RingType
<1>2. WriterType
  <2>1. wr \in [state : {"HDR", "INFO", "DATA"}, nbdata : Nat, nbmsg : Nat,
             nbrec : Nat, offq : Nat, pending : BOOLEAN]
    BY DEF Init, HdrUnits
  <2>2. hdr \in [kind : {"NONE", "INIT", "TSTAMP", "DATA", "BAD"}, n : Nat, frame : Nat]
    BY DEF Init
  <2>3. dgOpened \in 0 .. 2 /\ left \in Nat /\ nrec \in Nat
    BY DEF Init
  <2>4. blockedWriter \in BOOLEAN
    BY DEF Init
  <2> QED
    BY <2>1, <2>2, <2>3, <2>4 DEF WriterType
<1>3. EvalInv
  BY DEF Init, EvalInv, Waiting, Evaluating, HdrUnits
<1>4. PcInv
  BY DEF Init, PcInv, Evaluating, HdrUnits
<1>5. BlockFits
  BY DEF Init, BlockFits
<1>6. ChainType
  BY DEF Init, ChainType, Dqds
<1>7. ChainInv
  BY DEF Init, ChainInv
<1>8. rd \in [Readers -> Ocbs] /\ \A r \in Readers : rd[r].dqd = 0 /\ rd[r].missing = 0
  BY ConstType DEF Init, Ocbs, ClosedReader
<1>9. RefCounts
  BY <1>8 DEF Init, RefCounts, Live, On
<1>10. RowsAccounted
  BY <1>8 DEF RowsAccounted
<1>11. ReplyType
  BY ConstType DEF Init, ReplyType, NoReply
<1>12. ControlType
  BY DEF Init, ControlType
<1>13. ReaderInv
  BY <1>8 DEF Init, ReaderInv
<1> QED
  BY <1>1, <1>2, <1>3, <1>4, <1>5, <1>6, <1>7, <1>8, <1>9, <1>10, <1>11, <1>12,
     <1>13
     DEF WriterInv, QueueInv, ServerInv

-----------------------------------------------------------------------------
(* Requests that leave the writer's record and the chain alone *)

\* A step outside the writer's part that changes no chain and no reader's counts.
LEMMA Serving ==
  ASSUME IInv, SameWriter, SameChain, dgOpened' \in 0 .. 2,
         pc \in Waiting, pc' \in Waiting, rd' \in [Readers -> Ocbs],
         \A r \in Readers :
           /\ rd'[r].dqd = rd[r].dqd /\ rd'[r].n = rd[r].n
           /\ rd'[r].missing = rd[r].missing /\ rd'[r].got = rd[r].got,
         ReplyType', ControlType', ReaderInv'
  PROVE  IInv'
<1>0. WriterInv /\ QueueInv /\ ServerInv
  BY Parts
<1>1. WriterInv'
  BY <1>0, WriterWaits DEF SameChain
<1>2. QueueInv'
  BY <1>0, QueueWaits
<1> QED
  BY <1>1, <1>2, NextParts DEF ServerInv

\* Opening TM/DG.
LEMMA OpenWriterInv == ASSUME IInv, OpenWriter PROVE IInv'
<1>0. rd \in [Readers -> Ocbs] /\ ReplyType /\ ControlType /\ ReaderInv
  BY Parts DEF QueueInv, ServerInv
<1>1. SameWriter /\ SameChain /\ SameReader
  BY DEF OpenWriter, ringVars, sendVars, chainVars, rdVars, SameRing, SameSend,
         SameWriter, SameChain, SameReader
<1>2. pc = "idle" /\ pc' = pc /\ dgOpened' = 1
  BY DEF OpenWriter
<1>3. ret' = ret /\ newRows' = newRows /\ nreq' = nreq /\ nfree' = nfree
  BY DEF OpenWriter, evalVars
<1>4. todo' = todo /\ rq' = rq /\ from' = from /\ nonblk' = nonblk
  BY DEF OpenWriter, readVars
<1>5. ReplyType'
  BY <1>0, <1>1 DEF ReplyType, SameReader
<1>6. ControlType'
  BY <1>0, <1>2, <1>3, <1>4 DEF ControlType
<1>7. ReaderInv'
  BY <1>0, <1>1, <1>2, <1>4 DEF ReaderInv, SameReader
<1> QED
  BY <1>0, <1>1, <1>2, <1>5, <1>6, <1>7, Serving DEF SameReader, Waiting

\* Closing TM/DG, which starts on the readers' queue.
LEMMA CloseWriterInv == ASSUME IInv, CloseWriter PROVE IInv'
<1>0. rd \in [Readers -> Ocbs] /\ ReplyType /\ ControlType /\ ReaderInv
  BY Parts DEF QueueInv, ServerInv
<1>1. SameWriter /\ SameChain /\ SameReader
  BY DEF CloseWriter, ringVars, sendVars, chainVars, rdVars, SameRing, SameSend,
         SameWriter, SameChain, SameReader
<1>2. pc = "idle" /\ pc' = "readq" /\ dgOpened' = 2
  BY DEF CloseWriter, ToReadQueue
<1>3. ret' = "write" /\ newRows' = FALSE /\ nreq' = nreq /\ nfree' = nfree
  BY DEF CloseWriter, ToReadQueue
<1>4. /\ todo' = {r \in Readers : rd[r].open /\ rd[r].blocked}
      /\ rq' = rq /\ from' = from /\ nonblk' = nonblk
  BY DEF CloseWriter, ToReadQueue
<1>5. ReplyType'
  BY <1>0, <1>1 DEF ReplyType, SameReader
<1>6. ControlType'
  BY <1>0, <1>2, <1>3, <1>4 DEF ControlType
<1>7. ReaderInv'
  BY <1>0, <1>1, <1>2, <1>4 DEF ReaderInv, SameReader
<1> QED
  BY <1>0, <1>1, <1>2, <1>5, <1>6, <1>7, Serving DEF SameReader, Waiting

\* A cleared reply is a reply.
LEMMA NoReplyType == ASSUME reply' = NoReply PROVE ReplyType'
BY ConstType DEF ReplyType, NoReply

\* dg_opened counts to 2.
LEMMA WriterPart == IInv => dgOpened \in 0 .. 2
BY DEF IInv, TypeOK, WriterType

\* run_read_queue takes the next blocked reader, or ends.
LEMMA RunReadQueueInv == ASSUME IInv, RunReadQueue PROVE IInv'
<1>0. rd \in [Readers -> Ocbs] /\ ControlType /\ ReaderInv
  BY Parts DEF QueueInv, ServerInv
<1>1. SameWriter /\ SameChain /\ dgOpened' = dgOpened
  BY DEF RunReadQueue, ringVars, sendVars, chainVars, wrVars, SameRing,
     SameSend,
         SameWriter, SameChain
<1>2. pc = "readq" /\ reply' = NoReply
  BY DEF RunReadQueue
<1>3. ret' = ret /\ newRows' = newRows /\ nreq' = nreq /\ nfree' = nfree
  BY DEF RunReadQueue, evalVars
<1>4. ASSUME NEW r \in todo,
             todo' = todo \ {r}, rd' = [rd EXCEPT ![r].blocked = FALSE],
             rq' = r, from' = "queue", nonblk' = FALSE, pc' = "read"
      PROVE  IInv'
  <2>1. r \in Readers
    BY <1>0 DEF ControlType
  <2>2. rd' \in [Readers -> Ocbs]
    BY <1>0, <1>4, <2>1 DEF Ocbs
  <2>3. \A p \in Readers : /\ rd'[p].dqd = rd[p].dqd /\ rd'[p].n = rd[p].n
                           /\ rd'[p].missing = rd[p].missing /\ rd'[p].got = rd[p].got
    BY <1>0, <1>4, <2>1 DEF Ocbs
  <2>3a. \A p \in Readers : rd'[p].open = rd[p].open
    BY <1>0, <1>4, <2>1 DEF Ocbs
  <2>4. ControlType'
    BY <1>0, <1>3, <1>4, <2>1 DEF ControlType
  <2>5. ReaderInv'
    BY <1>0, <1>4, <2>1, <2>3, <2>3a DEF ReaderInv, ControlType
  <2> QED
    BY <1>1, <1>2, <1>4, <2>2, <2>3, <2>4, <2>5, Serving, NoReplyType,
       WriterPart DEF Waiting
<1>5. ASSUME todo = {}, rd' = [r \in Readers |-> [rd[r] EXCEPT !.armed = FALSE]],
             pc' = "writeq", UNCHANGED readVars
      PROVE  IInv'
  <2>1. todo' = todo /\ rq' = rq /\ from' = from /\ nonblk' = nonblk
    BY <1>5 DEF readVars
  <2>2. rd' \in [Readers -> Ocbs]
    BY <1>0, <1>5 DEF Ocbs
  <2>3. \A p \in Readers : /\ rd'[p].dqd = rd[p].dqd /\ rd'[p].n = rd[p].n
                           /\ rd'[p].missing = rd[p].missing /\ rd'[p].got = rd[p].got
    BY <1>0, <1>5 DEF Ocbs
  <2>3a. \A p \in Readers : rd'[p].open = rd[p].open
    BY <1>0, <1>5 DEF Ocbs
  <2>4. ControlType'
    BY <1>0, <1>3, <1>5, <2>1 DEF ControlType
  <2>5. ReaderInv'
    BY <1>0, <1>5, <2>1, <2>3, <2>3a DEF ReaderInv
  <2> QED
    BY <1>1, <1>2, <1>5, <2>2, <2>3, <2>4, <2>5, Serving, NoReplyType,
       WriterPart DEF Waiting
<1> QED
  BY <1>4, <1>5 DEF RunReadQueue

\* A closed ocb is an ocb.
LEMMA ClosedReaderType == ClosedReader \in Ocbs
<1>1. 0 \in 0 .. TotalQrows
  BY ConstType
<1> QED
  BY <1>1 DEF Ocbs, ClosedReader

\* A new ocb starts unattached.
LEMMA OpenReaderInv == ASSUME IInv, NEW r \in Readers, OpenReader(r) PROVE IInv'
<1>0. rd \in [Readers -> Ocbs] /\ ReplyType /\ ControlType /\ ReaderInv /\ QueueInv
  BY Parts DEF QueueInv, ServerInv
<1>1. SameWriter /\ SameChain /\ dgOpened' = dgOpened
  BY DEF OpenReader, ringVars, sendVars, chainVars, wrVars, SameRing, SameSend,
         SameWriter, SameChain
<1>2. /\ pc = "idle" /\ ~rd[r].open /\ pc' = pc /\ reply' = reply
      /\ rd' = [rd EXCEPT ![r] = [ClosedReader EXCEPT !.open = TRUE]]
  BY DEF OpenReader
<1>3. ret' = ret /\ newRows' = newRows /\ nreq' = nreq /\ nfree' = nfree
  BY DEF OpenReader, evalVars
<1>4. todo' = todo /\ rq' = rq /\ from' = from /\ nonblk' = nonblk
  BY DEF OpenReader, readVars
<1>5. ReplyType'
  BY <1>0, <1>2 DEF ReplyType
<1>6. ControlType'
  BY <1>0, <1>2, <1>3, <1>4 DEF ControlType
<1>7. rd' \in [Readers -> Ocbs]
  <2>0. ClosedReader \in Ocbs
    BY ClosedReaderType
  <2>1. [ClosedReader EXCEPT !.open = TRUE] \in Ocbs
    BY <2>0 DEF Ocbs
  <2> QED
    BY <1>0, <1>2, <2>1
<1>8. rd[r].dqd = 0 /\ rd[r].missing = 0
  BY <1>0, <1>2 DEF ReaderInv
<1>9. rd'[r].dqd = 0 /\ rd'[r].missing = 0 /\ rd'[r].open
  BY <1>0, <1>2 DEF ClosedReader
<1>10. \A p \in Readers \ {r} : rd'[p] = rd[p]
  BY <1>0, <1>2
<1>11. ReaderInv'
  BY <1>0, <1>2, <1>4, <1>8, <1>9, <1>10 DEF ReaderInv
<1>12. WriterInv'
  BY <1>1, <1>2, Parts, WriterWaits, WriterPart DEF SameChain, Waiting
<1>13. ChainType' /\ ChainInv'
  BY <1>0, <1>1, ChainWaits DEF QueueInv
<1>14. RefCounts'
  BY <1>0, <1>1, <1>8, <1>9, <1>10, RefsWait DEF QueueInv
<1>15. RowsAccounted'
  BY <1>0, <1>1, <1>8, <1>9, <1>10 DEF QueueInv, RowsAccounted, SameChain, Rows
<1> QED
  BY <1>5, <1>6, <1>7, <1>11, <1>12, <1>13, <1>14, <1>15, NextParts DEF
     ServerInv, QueueInv

\* io_notify only arms the event.
LEMMA IoNotifyInv == ASSUME IInv, NEW r \in Readers, IoNotify(r) PROVE IInv'
<1>0. rd \in [Readers -> Ocbs] /\ ReplyType /\ ControlType /\ ReaderInv
  BY Parts DEF QueueInv, ServerInv
<1>1. SameWriter /\ SameChain /\ dgOpened' = dgOpened
  BY DEF IoNotify, ringVars, sendVars, chainVars, wrVars, SameRing, SameSend,
         SameWriter, SameChain
<1>2. /\ pc = "idle" /\ pc' = pc /\ reply' = reply
      /\ rd' = [rd EXCEPT ![r].armed = ~NotifyInput(r)]
  BY DEF IoNotify
<1>3. ret' = ret /\ newRows' = newRows /\ nreq' = nreq /\ nfree' = nfree
  BY DEF IoNotify, evalVars
<1>4. todo' = todo /\ rq' = rq /\ from' = from /\ nonblk' = nonblk
  BY DEF IoNotify, readVars
<1>5. ReplyType'
  BY <1>0, <1>2 DEF ReplyType
<1>6. ControlType'
  BY <1>0, <1>2, <1>3, <1>4 DEF ControlType
<1>7. NotifyInput(r) \in BOOLEAN
  BY DEF NotifyInput
<1>8. rd' \in [Readers -> Ocbs]
  <2>1. PICK b \in BOOLEAN : rd' = [rd EXCEPT ![r].armed = b]
    BY <1>2, <1>7
  <2>2. [rd[r] EXCEPT !.armed = b] \in Ocbs
    BY <1>0 DEF Ocbs
  <2> QED
    BY <1>0, <2>1, <2>2
<1>9. \A p \in Readers : /\ rd'[p].dqd = rd[p].dqd /\ rd'[p].n = rd[p].n
                         /\ rd'[p].missing = rd[p].missing /\ rd'[p].got = rd[p].got
  BY <1>0, <1>2 DEF Ocbs
<1>10. \A p \in Readers : rd'[p].open = rd[p].open
  BY <1>0, <1>2 DEF Ocbs
<1>11. ReaderInv'
  BY <1>0, <1>2, <1>4, <1>9, <1>10 DEF ReaderInv, ControlType
<1> QED
  BY <1>1, <1>2, <1>5, <1>6, <1>8, <1>9, <1>11, Serving, WriterPart DEF Waiting

\* A read never asks for more rows than the ring has.
LEMMA MaxQrowsType == ASSUME NEW q \in Nat PROVE MaxQrows(q) \in 0 .. TotalQrows
BY ConstType DEF MaxQrows, Lesser, Greater, DataHdr

\* io_read records the request and turns to read_reply.
LEMMA IoReadInv ==
  ASSUME IInv, NEW r \in Readers, NEW q \in ReadSizes, NEW nb \in BOOLEAN, IoRead(r, q, nb)
  PROVE  IInv'
<1>0. rd \in [Readers -> Ocbs] /\ ReplyType /\ ControlType /\ ReaderInv
  BY Parts DEF QueueInv, ServerInv
<1>1. SameWriter /\ SameChain /\ dgOpened' = dgOpened
  BY DEF IoRead, ringVars, sendVars, chainVars, wrVars, SameRing, SameSend,
         SameWriter, SameChain
<1>2. pc = "idle" /\ rd[r].open /\ pc' = "read" /\ reply' = reply
  BY DEF IoRead
<1>2a. rd' = [rd EXCEPT ![r].q = q,
                      ![r].max = IF rd[r].dqd > 0 THEN MaxQrows(q) ELSE @]
  BY DEF IoRead
<1>3. ret' = ret /\ newRows' = newRows /\ nreq' = nreq /\ nfree' = nfree
  BY DEF IoRead, evalVars
<1>4. todo' = todo /\ rq' = r /\ from' = "io" /\ nonblk' = nb
  BY DEF IoRead
<1>5. ReplyType'
  BY <1>0, <1>2 DEF ReplyType
<1>6. ControlType'
  BY <1>0, <1>2, <1>3, <1>4 DEF ControlType
<1>7. q \in Nat /\ MaxQrows(q) \in 0 .. TotalQrows
  BY MaxQrowsType, TMbfrAssumption
<1>8. rd' \in [Readers -> Ocbs]
  <2> DEFINE m == IF rd[r].dqd > 0 THEN MaxQrows(q) ELSE rd[r].max
  <2>1. rd[r] \in Ocbs
    BY <1>0
  <2>2. m \in 0 .. TotalQrows
    BY <1>7, <2>1 DEF Ocbs
  <2>3. rd' = [rd EXCEPT ![r] = [rd[r] EXCEPT !.q = q, !.max = m]]
    BY <1>0, <1>2a DEF Ocbs
  <2> HIDE DEF m
  <2>4. [rd[r] EXCEPT !.q = q, !.max = m] \in Ocbs
    BY <1>7, <2>1, <2>2 DEF Ocbs
  <2> QED
    BY <1>0, <2>3, <2>4
<1>9. \A p \in Readers : /\ rd'[p].dqd = rd[p].dqd /\ rd'[p].n = rd[p].n
                         /\ rd'[p].missing = rd[p].missing /\ rd'[p].got = rd[p].got
  BY <1>0, <1>2a DEF Ocbs
<1>10. \A p \in Readers : rd'[p].open = rd[p].open
  BY <1>0, <1>2a DEF Ocbs
<1>11. ReaderInv'
  BY <1>0, <1>2, <1>4, <1>9, <1>10 DEF ReaderInv, ControlType
<1> QED
  BY <1>1, <1>2, <1>5, <1>6, <1>8, <1>9, <1>11, Serving, WriterPart DEF Waiting

\* main() leaves its loop.
LEMMA ShutdownInv == ASSUME IInv, Shutdown PROVE IInv'
<1>0. rd \in [Readers -> Ocbs] /\ ReplyType /\ ControlType /\ ReaderInv
  BY Parts DEF QueueInv, ServerInv
<1>1. SameWriter /\ SameChain /\ SameReader /\ dgOpened' = dgOpened
  BY DEF Shutdown, ringVars, sendVars, chainVars, rdVars, wrVars, SameRing,
     SameSend,
         SameWriter, SameChain, SameReader
<1>2. pc = "idle" /\ pc' = "done"
  BY DEF Shutdown
<1>3. ret' = ret /\ newRows' = newRows /\ nreq' = nreq /\ nfree' = nfree
  BY DEF Shutdown, evalVars
<1>4. todo' = todo /\ rq' = rq /\ from' = from /\ nonblk' = nonblk
  BY DEF Shutdown, readVars
<1>5. ReplyType'
  BY <1>0, <1>1 DEF ReplyType, SameReader
<1>6. ControlType'
  BY <1>0, <1>2, <1>3, <1>4 DEF ControlType
<1>7. ReaderInv'
  BY <1>0, <1>1, <1>2, <1>4 DEF ReaderInv, SameReader
<1> QED
  BY <1>0, <1>1, <1>2, <1>5, <1>6, <1>7, Serving, WriterPart DEF SameReader,
     Waiting

-----------------------------------------------------------------------------
(* read_reply *)

\* Replacing one ocb by one that is attached to the same descriptor and whose
\* counts add up.
LEMMA OneReader ==
  ASSUME QueueInv, SameChain, NEW r \in Readers, NEW o \in Ocbs,
         rd' = [rd EXCEPT ![r] = o], o.dqd = rd[r].dqd,
         o.dqd # 0 => /\ o.n <= Rows(o.dqd)
                      /\ o.got + o.missing = dqd[o.dqd].pos + o.n
  PROVE  QueueInv'
<1>1. rd' \in [Readers -> Ocbs]
  BY DEF QueueInv
<1>2. rd'[r] = o /\ \A p \in Readers \ {r} : rd'[p] = rd[p]
  BY DEF QueueInv
<1>3. ChainType' /\ ChainInv'
  BY ChainWaits DEF QueueInv
<1>4. RefCounts'
  BY <1>2, RefsWait DEF QueueInv
<1>5. RowsAccounted'
  BY <1>2 DEF QueueInv, RowsAccounted, SameChain, Rows
<1> QED
  BY <1>1, <1>3, <1>4, <1>5 DEF QueueInv

\* read_reply is done with the reader it serves.
LEMMA Replied ==
  ASSUME IInv, pc = "read", SameWriter, dgOpened' = dgOpened, dLast' = dLast,
         UNCHANGED evalVars, ReplyDone, NEW o \in Ocbs,
         rd' = [rd EXCEPT ![rq] = o], o.open, o.dqd = 0 => o.missing = 0,
         ReplyType', QueueInv'
  PROVE  IInv'
<1>0. rd \in [Readers -> Ocbs] /\ ControlType /\ ReaderInv
  BY Parts DEF QueueInv, ServerInv
<1>1. ret' = ret /\ newRows' = newRows /\ nreq' = nreq /\ nfree' = nfree
  BY DEF evalVars
<1>2. /\ pc' = IF from = "io" THEN "writeq" ELSE "readq"
      /\ rq' = NoReader /\ from' = "queue" /\ nonblk' = FALSE /\ todo' = todo
  BY DEF ReplyDone
<1>3. rq \in Readers
  BY <1>0 DEF ReaderInv
<1>4. rd'[rq] = o /\ \A p \in Readers \ {rq} : rd'[p] = rd[p]
  BY <1>0, <1>3
<1>5. ControlType'
  BY <1>0, <1>1, <1>2 DEF ControlType
<1>6. ReaderInv'
  BY <1>0, <1>2, <1>3, <1>4 DEF ReaderInv, ControlType
<1>7. pc' \in {"writeq", "readq"}
  BY <1>2
<1>8. WriterInv'
  BY <1>7, Parts, WriterWaits, WriterPart DEF Waiting
<1> QED
  BY <1>5, <1>6, <1>8, NextParts DEF ServerInv

\* Zero rows are within the ring.
LEMMA ZeroMax == 0 \in 0 .. TotalQrows
BY ConstType

\* A difference cut off at zero.
LEMMA GreaterNat == ASSUME NEW a \in Int PROVE Greater(0, a) \in Nat
BY DEF Greater

\* do_read_reply on a queue that is as it was
LEMMA GiveInv ==
  ASSUME IInv, pc = "read", SameWriter, SameChain, dgOpened' = dgOpened,
         UNCHANGED evalVars, NEW o \in Ocbs, NEW kind, NEW mf, NEW rows, NEW units \in Nat,
         Give(o, kind, mf, rows, units), o.open, o.dqd = rd[rq].dqd,
         o.dqd = 0 => o.missing = 0,
         o.dqd # 0 => /\ o.n <= Rows(o.dqd)
                      /\ o.got + o.missing = dqd[o.dqd].pos + o.n,
         kind \in {"NONE", "INIT", "TSTAMP", "DATA", "PART", "EOF", "EAGAIN"},
         mf \in 0 .. MfcMod - 1, \E k \in 0 .. TotalQrows : DOMAIN rows = 1 .. k
  PROVE  IInv'
<1> DEFINE left2 == Greater(0, units - o.q)
           o2 == [o EXCEPT !.part = left2, !.q = 0, !.max = 0]
<1>1. left2 \in Nat
  <2>1. units - o.q \in Int
    BY DEF Ocbs
  <2> QED
    BY <2>1, GreaterNat
<1>2. rd' = [rd EXCEPT ![rq] = o2] /\ ReplyDone
  BY DEF Give
<1>3. rq \in Readers
  BY Parts DEF ServerInv, ReaderInv
<1> HIDE DEF left2
<1>4. o2 \in Ocbs
  BY <1>1, ZeroMax DEF Ocbs
<1>5. o2.open = o.open /\ o2.dqd = o.dqd /\ o2.missing = o.missing /\ o2.n = o.n /\ o2.got = o.got
  BY DEF Ocbs
<1> HIDE DEF o2
<1>6. ReplyType'
  <2>1. reply' = [to |-> rq, kind |-> kind, mf |-> mf, rows |-> rows]
    BY DEF Give, Answer
  <2> QED
    BY <2>1, <1>3 DEF ReplyType
<1>7. QueueInv'
  BY <1>2, <1>3, <1>4, <1>5, Parts, OneReader
<1> QED
  BY <1>2, <1>4, <1>5, <1>6, <1>7, Replied DEF SameChain

\* enqueue_read: end of file, EAGAIN or the reader blocks.
LEMMA EnqueueReadInv ==
  ASSUME IInv, pc = "read", SameWriter, SameChain, dgOpened' = dgOpened,
         UNCHANGED evalVars, NEW o \in Ocbs, EnqueueRead(o), o.open, o.dqd = rd[rq].dqd,
         o.dqd = 0 => o.missing = 0,
         o.dqd # 0 => /\ o.n <= Rows(o.dqd)
                      /\ o.got + o.missing = dqd[o.dqd].pos + o.n
  PROVE  IInv'
<1>1. rq \in Readers /\ ReplyType
  BY Parts DEF ServerInv, ReaderInv
<1>2. ReplyDone
  BY DEF EnqueueRead
<1>3. CASE dgOpened = 2 \/ nonblk
  <2> DEFINE o2 == [o EXCEPT !.q = 0, !.max = 0]
  <2>1. rd' = [rd EXCEPT ![rq] = o2]
    BY <1>3 DEF EnqueueRead
  <2>2. o2 \in Ocbs
    BY ZeroMax DEF Ocbs
  <2>3. o2.open = o.open /\ o2.dqd = o.dqd /\ o2.missing = o.missing /\ o2.n = o.n /\ o2.got = o.got
    BY DEF Ocbs
  <2> HIDE DEF o2
  <2>4. ReplyType'
    <3>1. reply' = [to |-> rq, kind |-> IF dgOpened = 2 THEN "EOF" ELSE "EAGAIN", mf |-> 0, rows |-> <<>>]
      BY <1>3 DEF EnqueueRead, Answer
    <3> QED
      BY <3>1, <1>1, ConstType DEF ReplyType
  <2>5. QueueInv'
    BY <2>1, <1>1, <2>2, <2>3, Parts, OneReader
  <2> QED
    BY <2>1, <2>2, <2>3, <2>4, <2>5, <1>2, Replied DEF SameChain
<1>4. CASE ~(dgOpened = 2 \/ nonblk)
  <2> DEFINE o2 == [o EXCEPT !.blocked = TRUE]
  <2>1. rd' = [rd EXCEPT ![rq] = o2]
    BY <1>4 DEF EnqueueRead
  <2>2. o2 \in Ocbs
    BY DEF Ocbs
  <2>3. o2.open = o.open /\ o2.dqd = o.dqd /\ o2.missing = o.missing /\ o2.n = o.n /\ o2.got = o.got
    BY DEF Ocbs
  <2> HIDE DEF o2
  <2>4. ReplyType'
    <3>1. reply' = reply
      BY <1>4 DEF EnqueueRead
    <3> QED
      BY <3>1, <1>1 DEF ReplyType
  <2>5. QueueInv'
    BY <2>1, <1>1, <2>2, <2>3, Parts, OneReader
  <2> QED
    BY <2>1, <2>2, <2>3, <2>4, <2>5, <1>2, Replied DEF SameChain
<1> QED
  BY <1>3, <1>4

\* The reader that is served
LEMMA Served ==
  ASSUME IInv, pc = "read"
  PROVE  /\ rq \in Readers /\ rd[rq] \in Ocbs /\ rd[rq].open
         /\ rd[rq].dqd = 0 => rd[rq].missing = 0
         /\ rd[rq].dqd # 0 =>
              /\ rd[rq].dqd \in Live
              /\ rd[rq].n <= Rows(rd[rq].dqd)
              /\ rd[rq].got + rd[rq].missing = dqd[rd[rq].dqd].pos + rd[rq].n
BY Parts DEF QueueInv, ServerInv, ReaderInv, RefCounts, RowsAccounted

\* The type of a live descriptor.
LEMMA ChainFields ==
  ASSUME IInv, NEW d \in Live PROVE dqd[d] \in Dqds /\ Rows(d) \in Nat
<1>1. dqd[d] \in Dqds
  BY Parts DEF QueueInv, ChainType, Live
<1> QED
  BY <1>1 DEF Dqds, Rows

\* What CaughtUp does to the counts of the reader served
LEMMA CaughtUpType ==
  ASSUME IInv, pc = "read", rd[rq].dqd > 0
  PROVE  /\ CaughtUp \in Ocbs /\ CaughtUp.open /\ CaughtUp.dqd = rd[rq].dqd
         /\ CaughtUp.n <= Rows(CaughtUp.dqd) /\ CaughtUp.got = rd[rq].got
         /\ CaughtUp.max = rd[rq].max /\ CaughtUp.q = rd[rq].q
         /\ CaughtUp.got + CaughtUp.missing = dqd[CaughtUp.dqd].pos + CaughtUp.n
<1> DEFINE o == rd[rq]
           x == dqd[o.dqd].expired
           n2 == Greater(o.n, x)
           m2 == o.missing + Greater(0, x - o.n)
<1>1. o \in Ocbs /\ o.open /\ o.dqd \in Live /\ o.n <= Rows(o.dqd)
      /\ o.got + o.missing = dqd[o.dqd].pos + o.n
  BY Served DEF Ocbs
<1>2. dqd[o.dqd] \in Dqds
  BY <1>1, ChainFields
<1>3. x \in Nat /\ o.n \in Nat /\ o.missing \in Nat /\ o.got \in Nat /\ dqd[o.dqd].pos \in Nat
      /\ dqd[o.dqd].n \in Nat
  BY <1>1, <1>2 DEF Ocbs, Dqds
<1>4. CaughtUp = [o EXCEPT !.n = n2, !.missing = m2]
  BY DEF CaughtUp
<1>5. /\ n2 \in Nat /\ m2 \in Nat /\ n2 <= Rows(o.dqd)
      /\ o.got + m2 = dqd[o.dqd].pos + n2
  BY <1>1, <1>3 DEF Greater, Rows
<1> HIDE DEF n2, m2
<1>6. CaughtUp \in Ocbs
  BY <1>1, <1>4, <1>5 DEF Ocbs
<1>7. CaughtUp.open /\ CaughtUp.dqd = o.dqd /\ CaughtUp.n = n2 /\ CaughtUp.missing = m2
      /\ CaughtUp.got = o.got /\ CaughtUp.max = o.max /\ CaughtUp.q = o.q
  BY <1>1, <1>4 DEF Ocbs
<1> QED
  BY <1>5, <1>6, <1>7

\* The rest of a record that did not fit.
LEMMA ReplyPartialInv == ASSUME IInv, ReplyPartial PROVE IInv'
<1>1. SameWriter /\ SameChain /\ dgOpened' = dgOpened
  BY DEF ReplyPartial, ringVars, sendVars, chainVars, wrVars, SameRing,
     SameSend,
         SameWriter, SameChain
<1>2. pc = "read" /\ Give(rd[rq], "PART", 0, <<>>, rd[rq].part) /\ UNCHANGED evalVars
  BY DEF ReplyPartial, Reading
<1>3. rd[rq].part \in Nat
  BY <1>2, Served DEF Ocbs
<1>4. 0 \in 0 .. MfcMod - 1 /\ \E k \in 0 .. TotalQrows : DOMAIN <<>> = 1 .. k
  BY ConstType
<1> QED
  BY <1>1, <1>2, <1>3, <1>4, Served, GiveInv

\* A read before the writer sent TM info.
LEMMA ReadBeforeInitInv == ASSUME IInv, ReadBeforeInit PROVE IInv'
<1>1. SameWriter /\ SameChain /\ dgOpened' = dgOpened
  BY DEF ReadBeforeInit, ringVars, sendVars, chainVars, wrVars, SameRing,
     SameSend,
         SameWriter, SameChain
<1>2. pc = "read" /\ EnqueueRead(rd[rq]) /\ UNCHANGED evalVars
  BY DEF ReadBeforeInit, Reading
<1> QED
  BY <1>1, <1>2, Served, EnqueueReadInv

\* TM/DCo waits for more rows.
LEMMA ReplyDeferInv == ASSUME IInv, ReplyDefer PROVE IInv'
<1>1. SameWriter /\ SameChain /\ dgOpened' = dgOpened
  BY DEF ReplyDefer, ringVars, sendVars, chainVars, wrVars, SameRing, SameSend,
         SameWriter, SameChain
<1>2. pc = "read" /\ rd[rq].dqd > 0 /\ EnqueueRead(CaughtUp) /\ UNCHANGED evalVars
  BY DEF ReplyDefer, Attached, Reading
<1> QED
  BY <1>1, <1>2, CaughtUpType, EnqueueReadInv

\* Nothing new for the reader.
LEMMA ReplyStarvedInv == ASSUME IInv, ReplyStarved PROVE IInv'
<1>1. SameWriter /\ SameChain /\ dgOpened' = dgOpened
  BY DEF ReplyStarved, ringVars, sendVars, chainVars, wrVars, SameRing,
     SameSend,
         SameWriter, SameChain
<1>2. pc = "read" /\ rd[rq].dqd > 0 /\ EnqueueRead(CaughtUp) /\ UNCHANGED evalVars
  BY DEF ReplyStarved, Attached, Reading
<1> QED
  BY <1>1, <1>2, CaughtUpType, EnqueueReadInv

\* Rows are returned: got and dq's n move together.
LEMMA ReplyRowsInv == ASSUME IInv, ReplyRows PROVE IInv'
<1>1. SameWriter /\ SameChain /\ dgOpened' = dgOpened
  BY DEF ReplyRows, ringVars, sendVars, chainVars, wrVars, SameRing, SameSend,
         SameWriter, SameChain
<1> DEFINE k == Lesser(Ready, rd[rq].max)
           mf == (dqd[rd[rq].dqd].mfctr + CaughtUp.n) % MfcMod
           rows == [i \in 1 .. k |-> row[SlotAt(i)]]
           o == [CaughtUp EXCEPT !.n = @ + k, !.got = @ + k]
<1>2. /\ pc = "read" /\ rd[rq].dqd > 0 /\ Ready > 0 /\ UNCHANGED evalVars
      /\ Give(o, "DATA", mf, rows, DataHdr + Units(k))
  BY DEF ReplyRows, Attached, Reading
<1>3. /\ CaughtUp \in Ocbs /\ CaughtUp.open /\ CaughtUp.dqd = rd[rq].dqd
      /\ CaughtUp.n <= Rows(CaughtUp.dqd)
      /\ CaughtUp.got + CaughtUp.missing = dqd[CaughtUp.dqd].pos + CaughtUp.n
  BY <1>2, CaughtUpType
<1>4. rd[rq] \in Ocbs /\ rd[rq].dqd \in Live
  BY <1>2, Served DEF Ocbs
<1>5. /\ rd[rq].max \in 0 .. TotalQrows /\ Rows(rd[rq].dqd) \in Nat
      /\ dqd[rd[rq].dqd] \in Dqds
  BY <1>4, ChainFields DEF Ocbs
<1>6. /\ CaughtUp.n \in Nat /\ CaughtUp.got \in Nat /\ CaughtUp.missing \in Nat
      /\ dqd[rd[rq].dqd].pos \in Nat /\ dqd[rd[rq].dqd].mfctr \in Nat
  BY <1>3, <1>5, ConstType DEF Ocbs, Dqds
<1>7. k \in 0 .. TotalQrows /\ k <= Ready
  <2>1. Ready \in Int /\ Ready > 0
    BY <1>2, <1>5, <1>6 DEF Ready
  <2>2. rd[rq].max \in 0 .. TotalQrows /\ TotalQrows \in Nat
    BY <1>5, ConstType
  <2> QED
    BY <2>1, <2>2 DEF Lesser
<1>8. Units(k) \in Nat
  BY <1>7, UnitsNat, ConstType
<1>9. mf \in 0 .. MfcMod - 1
  BY <1>6, ConstType
<1>10. \E j \in 0 .. TotalQrows : DOMAIN rows = 1 .. j
  BY <1>7
<1> HIDE DEF k, mf, rows
<1>11. o \in Ocbs
  <2>1. CaughtUp.n + k \in Nat /\ CaughtUp.got + k \in Nat
    BY <1>6, <1>7, ConstType
  <2>2. o = [CaughtUp EXCEPT !.n = CaughtUp.n + k, !.got = CaughtUp.got + k]
    OBVIOUS
  <2> HIDE DEF o
  <2> QED
    BY <1>3, <2>1, <2>2 DEF Ocbs
<1>12. /\ o.open /\ o.dqd = rd[rq].dqd /\ o.n = CaughtUp.n + k
       /\ o.got = CaughtUp.got + k /\ o.missing = CaughtUp.missing
  BY <1>3 DEF Ocbs
<1> HIDE DEF o
<1>13. o.n <= Rows(o.dqd)
  BY <1>5, <1>6, <1>7, <1>12, ConstType DEF Ready
<1>14. o.got + o.missing = dqd[o.dqd].pos + o.n
  BY <1>3, <1>6, <1>7, <1>12, ConstType
<1>15. o.dqd # 0 /\ DataHdr + Units(k) \in Nat
  BY <1>2, <1>8, <1>12 DEF DataHdr
<1> QED
  BY <1>1, <1>2, <1>9, <1>10, <1>11, <1>12, <1>13, <1>14, <1>15, GiveInv

-----------------------------------------------------------------------------
(* References to descriptors *)

\* The readers of d after a step
OnNext(d) == {r \in Readers : rd'[r].dqd = d}

\* The readers of a descriptor are finitely many.
LEMMA OnFinite ==
  ASSUME NEW d PROVE IsFiniteSet(On(d)) /\ IsFiniteSet(OnNext(d))
<1>1. IsFiniteSet(Readers) /\ On(d) \in SUBSET Readers /\ OnNext(d) \in SUBSET Readers
  BY TMbfrAssumption DEF On, OnNext
<1> QED
  BY <1>1, FS_Subset

\* OnNext is On after the step.
LEMMA OnNextIsOn == ASSUME NEW d PROVE On(d)' = OnNext(d)
BY DEF On, OnNext

\* Freeing descriptors nobody refers to keeps the chain and the counts
LEMMA FreeBeforeInv ==
  ASSUME ChainType, ChainInv, NEW q \in [Live -> Dqds], NEW f \in Live,
         FreeBefore(q, f), dLast' = dLast, nts' = nts,
         \A d \in Live : q[d].pos = dqd[d].pos /\ q[d].expired + q[d].n = Rows(d)
  PROVE  /\ ChainType' /\ ChainInv' /\ dFirst' = f /\ Live' = f .. dLast
         /\ \A d \in f .. dLast : d \in Live /\ dqd'[d] = q[d] /\ Rows(d)' = Rows(d)
<1>1. /\ dFirst \in Nat \ {0} /\ dLast \in Nat /\ dFirst <= dLast + 1 /\ nts \in Nat
      /\ DOMAIN tsq \subseteq Nat /\ tsq \in [DOMAIN tsq -> Nat]
  BY DEF ChainType
<1>2. f \in Nat \ {0} /\ dFirst <= f /\ f <= dLast
  BY <1>1 DEF Live
<1>3. dFirst' = f /\ dqd' = [e \in f .. dLast |-> q[e]]
  BY DEF FreeBefore
<1>4. \A d \in f .. dLast : d \in Live /\ dqd'[d] = q[d]
  BY <1>1, <1>2, <1>3 DEF Live
<1>5. \A d \in f .. dLast : Rows(d)' = Rows(d)
  <2> SUFFICES ASSUME NEW d \in f .. dLast PROVE Rows(d)' = Rows(d)
    OBVIOUS
  <2>1. Rows(d)' = q[d].expired + q[d].n
    BY <1>4 DEF Rows
  <2> QED
    BY <2>1, <1>4
<1>6. dqd' \in [f .. dLast -> Dqds]
  BY <1>3, <1>4
<1>7. DOMAIN tsq' \subseteq Nat /\ tsq' \in [DOMAIN tsq' -> Nat]
  <2> DEFINE Freed(t) == Cardinality({e \in dFirst .. f - 1 : q[e].ts = t})
             T == {t \in DOMAIN tsq : tsq[t] > Freed(t)}
  <2>1. tsq' = [t \in T |-> tsq[t] - Freed(t)]
    BY DEF FreeBefore
  <2>2. ASSUME NEW t \in T PROVE tsq[t] - Freed(t) \in Nat
    <3>1. IsFiniteSet(dFirst .. f - 1)
      BY <1>1, <1>2, FS_Interval
    <3>2. IsFiniteSet({e \in dFirst .. f - 1 : q[e].ts = t})
      BY <3>1, FS_Subset
    <3>3. Freed(t) \in Nat
      BY <3>2, FS_CardinalityType
    <3>4. tsq[t] \in Nat /\ tsq[t] > Freed(t)
      BY <1>1
    <3> QED
      BY <3>3, <3>4
  <2>3. T \subseteq Nat
    BY <1>1
  <2> HIDE DEF T, Freed
  <2> QED
    BY <2>1, <2>2, <2>3
<1>8. ChainType'
  BY <1>1, <1>2, <1>3, <1>6, <1>7 DEF ChainType
<1>9. \A d \in f .. dLast - 1 : d \in f .. dLast /\ d + 1 \in f .. dLast /\ d \in dFirst .. dLast - 1
  BY <1>1, <1>2
<1>10. \A d \in f .. dLast - 1 : dqd'[d + 1].pos = dqd'[d].pos + Rows(d)'
  <2> SUFFICES ASSUME NEW d \in f .. dLast - 1
               PROVE  dqd'[d + 1].pos = dqd'[d].pos + Rows(d)'
    OBVIOUS
  <2>1. dqd[d + 1].pos = dqd[d].pos + Rows(d)
    BY <1>9 DEF ChainInv
  <2>2. dqd'[d].pos = dqd[d].pos /\ dqd'[d + 1].pos = dqd[d + 1].pos /\ Rows(d)' = Rows(d)
    BY <1>4, <1>5, <1>9
  <2> QED
    BY <2>1, <2>2
<1>11. ChainInv'
  BY <1>2, <1>3, <1>10 DEF ChainInv
<1> QED
  BY <1>3, <1>4, <1>5, <1>8, <1>11 DEF Live

\* A chain whose freed descriptors have no references left keeps the queue's part:
\* no reader is on a freed descriptor, and a live one keeps its rows' place.
LEMMA ReadersKept ==
  ASSUME QueueInv, NEW q \in [Live -> Dqds], NEW f \in Live,
         FreeBefore(q, f), dLast' = dLast, nts' = nts,
         \A d \in Live : q[d].pos = dqd[d].pos /\ q[d].expired + q[d].n = Rows(d),
         \A d \in dFirst .. f - 1 : q[d].ref = 0,
         \A d \in Live : q[d].ref = Cardinality(OnNext(d)),
         rd' \in [Readers -> Ocbs],
         \A r \in Readers : rd'[r].dqd # 0 =>
           /\ rd'[r].dqd \in Live /\ rd'[r].n <= Rows(rd'[r].dqd)
           /\ rd'[r].got + rd'[r].missing = dqd[rd'[r].dqd].pos + rd'[r].n
  PROVE  QueueInv'
<1>0. ChainType /\ ChainInv
  BY DEF QueueInv
<1>1. /\ ChainType' /\ ChainInv' /\ dFirst' = f /\ Live' = f .. dLast
      /\ \A d \in f .. dLast : d \in Live /\ dqd'[d] = q[d] /\ Rows(d)' = Rows(d)
  BY <1>0, FreeBeforeInv
<1>2. \A d \in f .. dLast : dqd'[d].ref = Cardinality(OnNext(d))
  BY <1>1
<1>3. \A d \in dFirst .. f - 1 : OnNext(d) = {}
  <2> SUFFICES ASSUME NEW d \in dFirst .. f - 1 PROVE OnNext(d) = {}
    OBVIOUS
  <2>1. d \in Live
    BY <1>0 DEF ChainType, Live
  <2>2. Cardinality(OnNext(d)) = 0
    BY <2>1
  <2> QED
    BY <2>2, OnFinite, FS_EmptySet
<1>4. ASSUME NEW r \in Readers, rd'[r].dqd # 0 PROVE rd'[r].dqd \in f .. dLast
  <2>1. rd'[r].dqd \in Live /\ r \in OnNext(rd'[r].dqd)
    BY <1>4 DEF OnNext
  <2>2. rd'[r].dqd \notin dFirst .. f - 1
    BY <2>1, <1>3
  <2> QED
    BY <2>1, <2>2, <1>0 DEF ChainType, Live
<1>5. RefCounts'
  BY <1>1, <1>2, <1>4, OnNextIsOn DEF RefCounts
<1>6. RowsAccounted'
  <2> SUFFICES ASSUME NEW r \in Readers, rd'[r].dqd # 0
               PROVE  /\ rd'[r].n <= dqd'[rd'[r].dqd].expired + dqd'[rd'[r].dqd].n
                      /\ rd'[r].got + rd'[r].missing = dqd'[rd'[r].dqd].pos + rd'[r].n
    BY DEF RowsAccounted, Rows
  <2>1. rd'[r].dqd \in f .. dLast
    BY <1>4
  <2>2. rd'[r].dqd \in Live /\ dqd'[rd'[r].dqd].pos = dqd[rd'[r].dqd].pos
    BY <1>1, <2>1
  <2>3. dqd'[rd'[r].dqd].expired + dqd'[rd'[r].dqd].n = Rows(rd'[r].dqd)
    BY <1>1, <2>1, <2>2
  <2> QED
    BY <2>2, <2>3
<1> QED
  BY <1>1, <1>5, <1>6 DEF QueueInv

\* dq_deref frees only descriptors with ref_count 0.
LEMMA DerefShape ==
  ASSUME ChainType, dLast > 0, ChainInv, NEW d \in Live, NEW u \in BOOLEAN, Deref(d, u)
  PROVE  \E f \in Live : /\ FreeBefore(Moved(d, u), f) /\ dLast' = dLast /\ nts' = nts
                         /\ \A e \in dFirst .. f - 1 : Moved(d, u)[e].ref = 0
<1>1. dFirst \in Live /\ dFirst \in Nat
  BY DEF ChainType, ChainInv, Live
<1>2. dLast' = dLast /\ nts' = nts
  BY DEF Deref
<1>3. dFirst .. dFirst - 1 = {}
  BY <1>1
<1>4. CASE Moved(d, u)[d].ref = 0
  <2>1. PICK f \in Live : HeadAfter(Moved(d, u), d, f) /\ FreeBefore(Moved(d, u), f)
    BY <1>4 DEF Deref
  <2>2. \A e \in dFirst .. f - 1 : Moved(d, u)[e].ref = 0
    BY <2>1, <1>3 DEF HeadAfter, Garbage
  <2> QED
    BY <1>2, <2>1, <2>2
<1>5. CASE Moved(d, u)[d].ref # 0
  <2>1. FreeBefore(Moved(d, u), dFirst)
    BY <1>5 DEF Deref
  <2> QED
    BY <1>1, <1>2, <1>3, <2>1
<1> QED
  BY <1>4, <1>5

\* One reader leaves descriptor d, for d + 1 if u
LEMMA DerefInv ==
  ASSUME QueueInv, NEW r \in Readers, NEW u \in BOOLEAN,
         NEW o \in Ocbs, rd' = [rd EXCEPT ![r] = o], rd[r].dqd # 0,
         Deref(rd[r].dqd, u), u => rd[r].dqd < dLast,
         o.dqd = IF u THEN rd[r].dqd + 1 ELSE 0,
         o.dqd # 0 => /\ o.n <= Rows(o.dqd)
                      /\ o.got + o.missing = dqd[o.dqd].pos + o.n
  PROVE  QueueInv' /\ dLast' = dLast
<1> DEFINE d == rd[r].dqd
           q == Moved(d, u)
<1>1. /\ ChainType /\ ChainInv /\ rd \in [Readers -> Ocbs] /\ RefCounts /\ RowsAccounted
  BY DEF QueueInv
<1>2. d \in Live
  BY <1>1 DEF RefCounts
<1>3. dFirst \in Nat \ {0} /\ dLast \in Nat /\ dLast > 0 /\ d \in Nat /\ d \in dFirst .. dLast
  BY <1>1, <1>2 DEF ChainType, Live
<1>4. \A e \in Live : dqd[e] \in Dqds
  BY <1>1 DEF ChainType, Live
<1>5. rd'[r] = o /\ \A p \in Readers \ {r} : rd'[p] = rd[p]
  BY <1>1
<1>6. \A e \in Live : dqd[e].ref = Cardinality(On(e)) /\ dqd[e].ref \in Nat
  BY <1>1, <1>4 DEF RefCounts, Dqds
<1>7. OnNext(d) = On(d) \ {r} /\ r \in On(d)
  <2>1. o.dqd # d
    BY <1>3
  <2> QED
    BY <1>5, <2>1 DEF On, OnNext
<1>8. u => OnNext(d + 1) = On(d + 1) \cup {r} /\ r \notin On(d + 1) /\ d + 1 \in Live
  <2> SUFFICES ASSUME u PROVE OnNext(d + 1) = On(d + 1) \cup {r} /\ r \notin On(d + 1) /\ d + 1 \in Live
    OBVIOUS
  <2>1. o.dqd = d + 1 /\ d # d + 1 /\ d + 1 \in Live
    BY <1>3 DEF Live
  <2> QED
    BY <1>5, <2>1 DEF On, OnNext
<1>9. \A e \in Live : e # d /\ (u => e # d + 1) => OnNext(e) = On(e)
  <2> SUFFICES ASSUME NEW e \in Live, e # d, u => e # d + 1 PROVE OnNext(e) = On(e)
    OBVIOUS
  <2>1. e # 0
    BY <1>3 DEF Live
  <2>2. o.dqd # e
    BY <2>1
  <2> QED
    BY <1>5, <2>2 DEF On, OnNext
<1>10. Cardinality(On(d) \ {r}) = dqd[d].ref - 1 /\ dqd[d].ref - 1 \in Nat
  <2>1. Cardinality(On(d) \ {r}) = Cardinality(On(d)) - 1
    BY <1>7, OnFinite, FS_RemoveElement
  <2>2. Cardinality(On(d) \ {r}) \in Nat
    BY OnFinite, FS_RemoveElement, FS_CardinalityType
  <2> QED
    BY <1>2, <1>6, <2>1, <2>2
<1>11. u => Cardinality(On(d + 1) \cup {r}) = dqd[d + 1].ref + 1
  <2> SUFFICES ASSUME u PROVE Cardinality(On(d + 1) \cup {r}) = dqd[d + 1].ref + 1
    OBVIOUS
  <2>1. r \notin On(d + 1) /\ dqd[d + 1].ref = Cardinality(On(d + 1))
    BY <1>6, <1>8
  <2>2. IsFiniteSet(On(d + 1))
    BY OnFinite
  <2>3. Cardinality(On(d + 1) \cup {r}) = Cardinality(On(d + 1)) + 1
    BY <2>1, <2>2, FS_AddElement
  <2> QED
    BY <2>1, <2>3
<1>12. /\ DOMAIN q = Live /\ q[d] = [dqd[d] EXCEPT !.ref = dqd[d].ref - 1]
       /\ u => q[d + 1] = [dqd[d + 1] EXCEPT !.ref = dqd[d + 1].ref + 1]
       /\ \A e \in Live : e # d /\ (u => e # d + 1) => q[e] = dqd[e]
  BY <1>2, <1>3, <1>8 DEF Moved
<1> HIDE DEF q
<1>13. ASSUME NEW e \in Live
       PROVE  /\ q[e] \in Dqds /\ q[e].ref = Cardinality(OnNext(e))
              /\ q[e].pos = dqd[e].pos /\ q[e].n = dqd[e].n /\ q[e].expired = dqd[e].expired
  <2>1. CASE e = d
    <3>1. q[e] = [dqd[e] EXCEPT !.ref = dqd[d].ref - 1] /\ dqd[e] \in Dqds
      BY <2>1, <1>12, <1>4
    <3>2. /\ q[e] \in Dqds /\ q[e].ref = dqd[d].ref - 1
          /\ q[e].pos = dqd[e].pos /\ q[e].n = dqd[e].n /\ q[e].expired = dqd[e].expired
      BY <3>1, <1>10 DEF Dqds
    <3> QED
      BY <2>1, <3>2, <1>7, <1>10
  <2>2. CASE u /\ e = d + 1
    <3>1. q[e] = [dqd[e] EXCEPT !.ref = dqd[e].ref + 1] /\ dqd[e] \in Dqds /\ dqd[e].ref \in Nat
      BY <2>2, <1>12, <1>4, <1>6
    <3>2. /\ q[e] \in Dqds /\ q[e].ref = dqd[e].ref + 1
          /\ q[e].pos = dqd[e].pos /\ q[e].n = dqd[e].n /\ q[e].expired = dqd[e].expired
      BY <3>1 DEF Dqds
    <3> QED
      BY <2>2, <3>2, <1>8, <1>11
  <2>3. CASE e # d /\ (u => e # d + 1)
    BY <2>3, <1>4, <1>6, <1>9, <1>12
  <2> QED
    BY <2>1, <2>2, <2>3
<1>14. q \in [Live -> Dqds]
  <2>1. q = [e \in Live |-> q[e]]
    BY DEF q, Moved
  <2> QED
    BY <2>1, <1>13
<1>15. PICK f \in Live : /\ FreeBefore(q, f) /\ dLast' = dLast /\ nts' = nts
                         /\ \A e \in dFirst .. f - 1 : q[e].ref = 0
  BY <1>1, <1>2, <1>3, DerefShape DEF q
<1>16. \A e \in Live : q[e].pos = dqd[e].pos /\ q[e].expired + q[e].n = Rows(e)
  BY <1>13 DEF Rows
<1>17. \A e \in Live : q[e].ref = Cardinality(OnNext(e))
  BY <1>13
<1>18. rd' \in [Readers -> Ocbs]
  BY <1>1
<1>19. \A p \in Readers : rd'[p].dqd # 0 =>
           /\ rd'[p].dqd \in Live /\ rd'[p].n <= Rows(rd'[p].dqd)
           /\ rd'[p].got + rd'[p].missing = dqd[rd'[p].dqd].pos + rd'[p].n
  <2>1. o.dqd # 0 => o.dqd \in Live
    BY <1>8
  <2>2. \A p \in Readers \ {r} : rd[p].dqd # 0 =>
           /\ rd[p].dqd \in Live /\ rd[p].n <= Rows(rd[p].dqd)
           /\ rd[p].got + rd[p].missing = dqd[rd[p].dqd].pos + rd[p].n
    BY <1>1 DEF RefCounts, RowsAccounted
  <2> QED
    BY <1>5, <2>1, <2>2
<1> QED
  BY <1>14, <1>15, <1>16, <1>17, <1>18, <1>19, ReadersKept

\* ocb_free drops the reader's reference.
LEMMA CloseReaderInv == ASSUME IInv, NEW r \in Readers, CloseReader(r) PROVE IInv'
<1>0. rd \in [Readers -> Ocbs] /\ ReplyType /\ ControlType /\ ReaderInv /\ QueueInv
  BY Parts DEF QueueInv, ServerInv
<1>1. SameWriter /\ dgOpened' = dgOpened
  BY DEF CloseReader, ringVars, sendVars, wrVars, SameRing, SameSend, SameWriter
<1>2. /\ pc = "idle" /\ pc' = pc /\ reply' = reply
      /\ rd' = [rd EXCEPT ![r] = ClosedReader]
  BY DEF CloseReader
<1>3. ret' = ret /\ newRows' = newRows /\ nreq' = nreq /\ nfree' = nfree
  BY DEF CloseReader, evalVars
<1>4. todo' = todo /\ rq' = rq /\ from' = from /\ nonblk' = nonblk
  BY DEF CloseReader, readVars
<1>5. ReplyType'
  BY <1>0, <1>2 DEF ReplyType
<1>6. ControlType'
  BY <1>0, <1>2, <1>3, <1>4 DEF ControlType
<1>7. ClosedReader \in Ocbs /\ ClosedReader.dqd = 0 /\ ClosedReader.missing = 0
  BY ClosedReaderType DEF ClosedReader
<1>8. rd'[r] = ClosedReader /\ \A p \in Readers \ {r} : rd'[p] = rd[p]
  BY <1>0, <1>2
<1>9. ReaderInv'
  BY <1>0, <1>2, <1>4, <1>7, <1>8 DEF ReaderInv
<1>10. QueueInv' /\ dLast' = dLast
  <2>1. CASE rd[r].dqd # 0
    BY <2>1, <1>0, <1>2, <1>7, DerefInv DEF CloseReader
  <2>2. CASE rd[r].dqd = 0
    <3>1. SameChain
      BY <2>2 DEF CloseReader, chainVars, SameChain
    <3> QED
      BY <3>1, <2>2, <1>0, <1>2, <1>7, OneReader DEF SameChain
  <2> QED
    BY <2>1, <2>2
<1>11. WriterInv'
  BY <1>1, <1>2, <1>10, Parts, WriterWaits, WriterPart DEF Waiting
<1> QED
  BY <1>5, <1>6, <1>9, <1>10, <1>11, NextParts DEF ServerInv

\* A reader that had all rows moves on: its position is where the successor starts.
LEMMA ReplyNextDqdInv == ASSUME IInv, ReplyNextDqd PROVE IInv'
<1> DEFINE d == rd[rq].dqd
           o == [CaughtUp EXCEPT !.dqd = d + 1, !.n = 0]
<1>0. QueueInv /\ ServerInv
  BY Parts
<1>1. SameWriter /\ dgOpened' = dgOpened /\ UNCHANGED evalVars
  BY DEF ReplyNextDqd, ringVars, sendVars, wrVars, SameRing, SameSend,
     SameWriter
<1>2. /\ pc = "read" /\ d > 0 /\ Ready = 0 /\ d < dLast /\ Deref(d, TRUE)
      /\ IF dqd[d].ts # dqd[d + 1].ts
         THEN Give(o, "TSTAMP", 0, <<>>, HdrUnits)
         ELSE rd' = [rd EXCEPT ![rq] = o] /\ UNCHANGED <<reply, pc, readVars>>
  BY DEF ReplyNextDqd, Attached, Reading
<1>3. /\ CaughtUp \in Ocbs /\ CaughtUp.open /\ CaughtUp.dqd = d
      /\ CaughtUp.got + CaughtUp.missing = dqd[d].pos + CaughtUp.n
  BY <1>2, CaughtUpType
<1>4. rq \in Readers /\ d \in Live /\ d + 1 \in Live /\ d \in dFirst .. dLast - 1 /\ d # 0
      /\ dLast \in Nat /\ d + 1 \in Nat \ {0}
  <2>1. rq \in Readers /\ d \in Live
    BY <1>2, Served DEF Ocbs
  <2>2. dFirst \in Nat \ {0} /\ dLast \in Nat
    BY <1>0 DEF QueueInv, ChainType
  <2> QED
    BY <2>1, <2>2, <1>2 DEF Live
<1>5. dqd[d + 1].pos = dqd[d].pos + Rows(d)
  BY <1>0, <1>4 DEF QueueInv, ChainInv
<1>6. Rows(d) \in Nat /\ Rows(d + 1) \in Nat /\ CaughtUp.n \in Nat
  BY <1>3, <1>4, ChainFields DEF Ocbs
<1>7. CaughtUp.n = Rows(d)
  BY <1>2, <1>6 DEF Ready
<1>8. o \in Ocbs
  BY <1>3, <1>4 DEF Ocbs
<1>9. o.open /\ o.dqd = d + 1 /\ o.n = 0 /\ o.got = CaughtUp.got /\ o.missing = CaughtUp.missing
  BY <1>3 DEF Ocbs
<1>10. dqd[d + 1] \in Dqds
  BY <1>4, ChainFields
<1>11. dqd[d + 1].pos \in Nat
  BY <1>10 DEF Dqds
<1> HIDE DEF o
<1>12. o.n <= Rows(o.dqd) /\ o.got + o.missing = dqd[o.dqd].pos + o.n
  BY <1>3, <1>5, <1>6, <1>7, <1>9, <1>11
<1>13. ASSUME NEW p \in Ocbs, rd' = [rd EXCEPT ![rq] = p], p.dqd = o.dqd, p.n = o.n,
              p.got = o.got, p.missing = o.missing
       PROVE  QueueInv' /\ dLast' = dLast
  BY <1>0, <1>2, <1>4, <1>9, <1>12, <1>13, DerefInv
<1>14. CASE dqd[d].ts # dqd[d + 1].ts
  <2> DEFINE p == [o EXCEPT !.part = Greater(0, HdrUnits - o.q), !.q = 0, !.max = 0]
  <2>1. rd' = [rd EXCEPT ![rq] = p] /\ ReplyDone
    BY <1>2, <1>14 DEF Give
  <2>2. HdrUnits - o.q \in Int
    BY <1>8 DEF Ocbs, HdrUnits
  <2>3. p \in Ocbs
    BY <1>8, <2>2, GreaterNat, ZeroMax DEF Ocbs
  <2>4. p.open = o.open /\ p.dqd = o.dqd /\ p.n = o.n /\ p.got = o.got /\ p.missing = o.missing
    BY <1>8 DEF Ocbs
  <2> HIDE DEF p
  <2>5. ReplyType'
    <3>1. reply' = [to |-> rq, kind |-> "TSTAMP", mf |-> 0, rows |-> <<>>]
      BY <1>2, <1>14 DEF Give, Answer
    <3> QED
      BY <3>1, <1>4, ConstType DEF ReplyType
  <2>6. QueueInv' /\ dLast' = dLast
    BY <1>13, <2>1, <2>3, <2>4
  <2>7. p.dqd # 0 /\ p.open
    BY <2>4, <1>9, <1>4
  <2> QED
    BY <1>1, <1>2, <2>1, <2>3, <2>5, <2>6, <2>7, Replied
<1>15. CASE dqd[d].ts = dqd[d + 1].ts
  <2>1. rd' = [rd EXCEPT ![rq] = o] /\ reply' = reply /\ pc' = pc
    BY <1>2, <1>15
  <2>2. todo' = todo /\ rq' = rq /\ from' = from /\ nonblk' = nonblk
    BY <1>2, <1>15 DEF readVars
  <2>3. ret' = ret /\ newRows' = newRows /\ nreq' = nreq /\ nfree' = nfree
    BY <1>1 DEF evalVars
  <2>4. QueueInv' /\ dLast' = dLast
    BY <1>8, <1>13, <2>1
  <2>5. WriterInv'
    BY <1>1, <1>2, <2>1, <2>4, Parts, WriterWaits, WriterPart DEF Waiting
  <2>6. ReplyType'
    BY <1>0, <2>1 DEF ServerInv, ReplyType
  <2>7. ControlType'
    BY <1>0, <2>1, <2>2, <2>3 DEF ServerInv, ControlType
  <2>8. rd'[rq] = o /\ \A p \in Readers \ {rq} : rd'[p] = rd[p]
    BY <1>0, <1>4, <2>1 DEF QueueInv
  <2>9. ReaderInv'
    BY <1>0, <1>4, <1>9, <2>1, <2>2, <2>8 DEF ServerInv, ReaderInv, ControlType
  <2> QED
    BY <2>4, <2>5, <2>6, <2>7, <2>9, NextParts DEF ServerInv
<1> QED
  BY <1>14, <1>15

\* A reader's first read attaches it to the head of the chain.
LEMMA ReplyInitInv == ASSUME IInv, ReplyInit PROVE IInv'
<1> DEFINE o == [rd[rq] EXCEPT !.dqd = dFirst, !.n = 0, !.got = dqd[dFirst].pos]
           p == [o EXCEPT !.part = Greater(0, InitUnits - o.q), !.q = 0, !.max = 0]
<1>0. QueueInv /\ ServerInv
  BY Parts
<1>1. SameWriter /\ dgOpened' = dgOpened /\ UNCHANGED evalVars
  BY DEF ReplyInit, ringVars, sendVars, wrVars, SameRing, SameSend, SameWriter
<1>2. /\ pc = "read" /\ rd[rq].dqd = 0 /\ dLast > 0
      /\ dqd' = [dqd EXCEPT ![dFirst].ref = @ + 1]
      /\ dFirst' = dFirst /\ dLast' = dLast /\ tsq' = tsq /\ nts' = nts
      /\ Give(o, "INIT", 0, <<>>, InitUnits)
  BY DEF ReplyInit, Reading
<1>3. /\ ChainType /\ ChainInv /\ rd \in [Readers -> Ocbs] /\ RefCounts /\ RowsAccounted
  BY <1>0 DEF QueueInv
<1>4. dFirst \in Live /\ dFirst \in Nat \ {0} /\ dLast \in Nat /\ dqd[dFirst] \in Dqds
  BY <1>2, <1>3 DEF ChainType, ChainInv, Live
<1>5. rq \in Readers /\ rd[rq] \in Ocbs /\ rd[rq].open /\ rd[rq].missing = 0
  BY <1>2, Served
<1>6. dqd[dFirst].pos \in Nat /\ dqd[dFirst].ref \in Nat /\ Rows(dFirst) \in Nat
  BY <1>4, ChainFields DEF Dqds
<1>7. o \in Ocbs
  BY <1>4, <1>5, <1>6 DEF Ocbs
<1>8. o.open /\ o.dqd = dFirst /\ o.n = 0 /\ o.got = dqd[dFirst].pos /\ o.missing = 0
  BY <1>5 DEF Ocbs
<1> HIDE DEF o
<1>9. rd' = [rd EXCEPT ![rq] = p] /\ ReplyDone
  BY <1>2 DEF Give
<1>10. InitUnits - o.q \in Int
  BY <1>7 DEF Ocbs, InitUnits
<1>11. p \in Ocbs
  BY <1>7, <1>10, GreaterNat, ZeroMax DEF Ocbs
<1>12. p.open = o.open /\ p.dqd = o.dqd /\ p.n = o.n /\ p.got = o.got /\ p.missing = o.missing
  BY <1>7 DEF Ocbs
<1> HIDE DEF p
<1>13. ReplyType'
  <2>1. reply' = [to |-> rq, kind |-> "INIT", mf |-> 0, rows |-> <<>>]
    BY <1>2 DEF Give, Answer
  <2> QED
    BY <2>1, <1>5, ConstType DEF ReplyType
<1>14. rd'[rq] = p /\ (\A r \in Readers \ {rq} : rd'[r] = rd[r]) /\ rd' \in [Readers -> Ocbs]
  BY <1>3, <1>5, <1>9, <1>11
<1>15. \A e \in Live : dqd[e] \in Dqds
  BY <1>3 DEF ChainType, Live
<1>16. /\ dqd'[dFirst] = [dqd[dFirst] EXCEPT !.ref = dqd[dFirst].ref + 1]
       /\ \A e \in Live \ {dFirst} : dqd'[e] = dqd[e]
       /\ DOMAIN dqd' = Live
  BY <1>2, <1>3, <1>4 DEF ChainType, Live
<1>17. /\ dqd'[dFirst] \in Dqds /\ dqd'[dFirst].ref = dqd[dFirst].ref + 1
       /\ dqd'[dFirst].pos = dqd[dFirst].pos /\ dqd'[dFirst].n = dqd[dFirst].n
       /\ dqd'[dFirst].expired = dqd[dFirst].expired
  BY <1>4, <1>6, <1>16 DEF Dqds
<1>18. \A e \in Live : /\ dqd'[e] \in Dqds /\ dqd'[e].pos = dqd[e].pos
                       /\ dqd'[e].n = dqd[e].n /\ dqd'[e].expired = dqd[e].expired
  BY <1>15, <1>16, <1>17
<1>19. \A e \in Live : Rows(e)' = Rows(e)
  BY <1>18 DEF Rows
<1>20. Live' = Live
  BY <1>2 DEF Live
<1>21. dqd' \in [dFirst .. dLast -> Dqds]
  <2>1. dqd' = [e \in Live |-> dqd'[e]]
    BY <1>2, <1>3 DEF ChainType, Live
  <2> QED
    BY <2>1, <1>18 DEF Live
<1>22. ChainType'
  BY <1>2, <1>3, <1>21 DEF ChainType
<1>23. ChainInv'
  <2>1. \A e \in dFirst .. dLast - 1 : e \in Live /\ e + 1 \in Live
    BY <1>4 DEF Live
  <2>2. \A e \in dFirst .. dLast - 1 : dqd'[e + 1].pos = dqd'[e].pos + Rows(e)'
    BY <2>1, <1>18, <1>19, <1>3 DEF ChainInv
  <2> QED
    BY <2>2, <1>2, <1>3 DEF ChainInv
<1>24. RefCounts'
  <2>1. OnNext(dFirst) = On(dFirst) \cup {rq} /\ rq \notin On(dFirst)
    BY <1>2, <1>4, <1>5, <1>8, <1>12, <1>14 DEF On, OnNext
  <2>2. Cardinality(OnNext(dFirst)) = dqd[dFirst].ref + 1
    BY <2>1, <1>3, <1>4, OnFinite, FS_AddElement DEF RefCounts
  <2>3. \A e \in Live \ {dFirst} : e # 0
    BY <1>4 DEF Live
  <2>4. \A e \in Live \ {dFirst} : OnNext(e) = On(e)
    BY <2>3, <1>2, <1>8, <1>12, <1>14 DEF On, OnNext
  <2>5. \A e \in Live : dqd'[e].ref = Cardinality(OnNext(e))
    <3>1. dqd'[dFirst].ref = Cardinality(OnNext(dFirst))
      BY <2>2, <1>4, <1>16, <1>17
    <3>2. \A e \in Live \ {dFirst} : dqd'[e].ref = Cardinality(OnNext(e))
      BY <2>4, <1>3, <1>16, <1>17 DEF RefCounts
    <3> QED
      BY <3>1, <3>2
  <2>6. \A r \in Readers : rd'[r].dqd # 0 => rd'[r].dqd \in Live
    BY <1>3, <1>4, <1>8, <1>12, <1>14 DEF RefCounts
  <2> QED
    BY <2>5, <2>6, <1>20, OnNextIsOn DEF RefCounts
<1>25. RowsAccounted'
  <2> SUFFICES ASSUME NEW r \in Readers, rd'[r].dqd # 0
               PROVE  /\ rd'[r].n <= dqd'[rd'[r].dqd].expired + dqd'[rd'[r].dqd].n
                      /\ rd'[r].got + rd'[r].missing = dqd'[rd'[r].dqd].pos + rd'[r].n
    BY DEF RowsAccounted, Rows
  <2>1. CASE r = rq
    BY <2>1, <1>6, <1>8, <1>12, <1>14, <1>17 DEF Rows
  <2>2. CASE r # rq
    <3>1. rd'[r] = rd[r] /\ rd[r].dqd \in Live
      BY <2>2, <1>3, <1>14 DEF RefCounts
    <3> QED
      BY <3>1, <1>3, <1>18 DEF RowsAccounted, Rows
  <2> QED
    BY <2>1, <2>2
<1>26. QueueInv'
  BY <1>14, <1>22, <1>23, <1>24, <1>25 DEF QueueInv
<1>27. p.dqd # 0 /\ p.open
  BY <1>4, <1>8, <1>12
<1> QED
  BY <1>1, <1>2, <1>9, <1>11, <1>13, <1>26, <1>27, Replied

-----------------------------------------------------------------------------
(* The writer *)

\* Writer's ocbs and record headers
Wrs == [state : {"HDR", "INFO", "DATA"}, nbdata : Nat, nbmsg : Nat,
        nbrec : Nat, offq : Nat, pending : BOOLEAN]
Hdrs == [kind : {"NONE", "INIT", "TSTAMP", "DATA", "BAD"}, n : Nat, frame : Nat]

\* The types of the writer's variables.
LEMMA WriterTypes ==
  WriterInv => /\ wr \in Wrs /\ hdr \in Hdrs /\ dgOpened \in 0 .. 2 /\ blockedWriter \in BOOLEAN
               /\ left \in Nat /\ nrec \in Nat
BY DEF WriterInv, WriterType, Wrs, Hdrs

\* WriterType of the next state, from its parts.
LEMMA NextWriterType ==
  ASSUME wr' \in Wrs, hdr' \in Hdrs, dgOpened' \in 0 .. 2, blockedWriter' \in BOOLEAN,
         left' \in Nat, nrec' \in Nat
  PROVE  WriterType'
BY DEF WriterType, Wrs, Hdrs

\* A step of the writer's part of the handler does not concern the readers
LEMMA WriterMoves ==
  ASSUME IInv, SameReader, UNCHANGED readVars,
         pc \notin {"read", "readq"},
         pc' \in {"idle", "write", "hdr", "info", "eval", "alloc", "expire", "place", "evaldone"},
         ret' \in {"write", "queue"}, newRows' \in BOOLEAN, nreq' \in Nat, nfree' \in Nat,
         WriterInv', QueueInv'
  PROVE  IInv'
<1>0. ReplyType /\ ControlType /\ ReaderInv
  BY Parts DEF ServerInv
<1>1. todo' = todo /\ rq' = rq /\ from' = from /\ nonblk' = nonblk
  BY DEF readVars
<1>2. ReplyType'
  BY <1>0 DEF ReplyType, SameReader
<1>3. ControlType'
  BY <1>0, <1>1 DEF ControlType
<1>4. ReaderInv'
  BY <1>0, <1>1 DEF ReaderInv, SameReader
<1> QED
  BY <1>2, <1>3, <1>4, NextParts DEF ServerInv

\* The queue's part when a step leaves chain and readers alone.
LEMMA SameQueue == ASSUME IInv, SameChain, SameReader PROVE QueueInv'
<1>1. QueueInv
  BY Parts
<1> QED
  BY <1>1, QueueWaits DEF QueueInv, SameReader

\* The types of the handler's locals.
LEMMA ControlTypes ==
  IInv => /\ ret \in {"write", "queue"} /\ newRows \in BOOLEAN /\ nreq \in Nat /\ nfree \in Nat
BY Parts DEF ServerInv, ControlType

\* What a client sends next is a record, and data follows TM info.
LEMMA NextRecType ==
  ASSUME NEW h \in NextRecs, hdr \in Hdrs
  PROVE  h \in Hdrs /\ (h.kind = "DATA" => dLast # 0)
<1>1. RecSizes \subseteq Nat /\ Skips \subseteq Nat /\ Kinds \subseteq {"TSTAMP", "DATA", "BAD"}
  BY TMbfrAssumption
<1>2. NextFrame \in Nat
  BY DEF NextFrame, Hdrs
<1>3. CASE dLast = 0
  BY <1>3 DEF NextRecs, Hdrs
<1>4. CASE dLast # 0
  BY <1>1, <1>2, <1>4 DEF NextRecs, Hdrs
<1> QED
  BY <1>3, <1>4

\* A write arrives.
LEMMA IoWriteInv ==
  ASSUME IInv, NEW h \in NextRecs \cup {hdr}, NEW nb \in 1 .. RecUnits(h), IoWrite(h, nb)
  PROVE  IInv'
<1> DEFINE avail == IF left > 0 THEN left ELSE RecUnits(h)
<1>0. WriterInv /\ wr \in Wrs /\ hdr \in Hdrs /\ dgOpened \in 0 .. 2 /\ left \in Nat /\ nrec \in Nat
  BY Parts, WriterTypes
<1>1. SameChain /\ SameRing /\ SameReader /\ dgOpened' = dgOpened
  BY DEF IoWrite, ringVars, chainVars, rdVars, SameRing, SameChain, SameReader
<1>2. /\ pc = "idle" /\ pc' = "write" /\ hdr' = h
      /\ wr' = [wr EXCEPT !.nbmsg = nb, !.pending = TRUE]
      /\ left' = avail - nb /\ nb \in 1 .. avail
  BY DEF IoWrite
<1>2a. blockedWriter' = FALSE /\ UNCHANGED readVars
  BY DEF IoWrite
<1>3. ret' = ret /\ newRows' = newRows /\ nreq' = nreq /\ nfree' = nfree
  BY DEF IoWrite, evalVars
<1>4. IF left > 0 THEN h = hdr /\ nrec' = nrec ELSE h \in NextRecs /\ nrec' = nrec + 1
  BY DEF IoWrite
<1>5. h \in Hdrs
  BY <1>0, NextRecType
<1>6. left' \in Nat /\ nb \in Nat /\ nrec' \in Nat
  <2>1. Units(h.n) \in Nat
    BY <1>5, UnitsNat DEF Hdrs
  <2>2. avail \in Nat
    BY <1>0, <2>1 DEF RecUnits, DataHdr, InitUnits, HdrUnits
  <2> HIDE DEF avail
  <2> QED
    BY <2>2, <1>0, <1>2, <1>4
<1>7. wr' \in Wrs
  BY <1>0, <1>2, <1>6 DEF Wrs
<1>8. /\ wr'.state = wr.state /\ wr'.nbdata = wr.nbdata /\ wr'.nbrec = wr.nbrec
      /\ wr'.offq = wr.offq
  BY <1>0, <1>2 DEF Wrs
<1>9. WriterType'
  BY <1>0, <1>1, <1>2, <1>2a, <1>5, <1>6, <1>7, NextWriterType
<1>10. RingType'
  BY <1>0, <1>1 DEF WriterInv, RingType, SameRing
<1>11. EvalInv'
  BY <1>0, <1>1, <1>2, <1>8 DEF WriterInv, EvalInv, SameRing, SameChain,
     Settled, WholeRows, Waiting, Evaluating
<1>12. hdr'.kind = "DATA" => dLast > 0
  <2>1. CASE left > 0
    BY <2>1, <1>0, <1>2, <1>4 DEF WriterInv, PcInv
  <2>2. CASE ~(left > 0)
    <3>1. h.kind = "DATA" => dLast # 0
      BY <2>2, <1>0, <1>4, NextRecType
    <3>2. dLast \in Nat
      BY Parts DEF QueueInv, ChainType
    <3> QED
      BY <3>1, <3>2, <1>2
  <2> QED
    BY <2>1, <2>2
<1>13. PcInv'
  BY <1>0, <1>1, <1>2, <1>2a, <1>8, <1>12 DEF WriterInv, PcInv, SameChain,
     Evaluating
<1>14. BlockFits'
  BY <1>0, <1>1, <1>8 DEF WriterInv, BlockFits, SameRing
<1> QED
  BY <1>1, <1>2, <1>2a, <1>3, <1>9, <1>10, <1>11, <1>13, <1>14, WriterMoves,
     SameQueue, ControlTypes DEF WriterInv

\* A write that ends in an error.
LEMMA FailWriteInv ==
  ASSUME IInv, FailWrite, pc \in {"write", "hdr"} PROVE IInv'
<1>0. WriterInv /\ wr \in Wrs /\ hdr \in Hdrs /\ dgOpened \in 0 .. 2 /\ nrec \in Nat
      /\ blockedWriter \in BOOLEAN
  BY Parts, WriterTypes
<1>1. SameChain /\ SameRing /\ SameReader /\ dgOpened' = dgOpened /\ blockedWriter' = blockedWriter
  BY DEF FailWrite, ringVars, chainVars, rdVars, SameRing, SameChain, SameReader
<1>2. /\ pc' = "idle" /\ hdr' = hdr /\ left' = 0 /\ nrec' = nrec
      /\ ret' = "write" /\ newRows' = FALSE /\ nreq' = nreq /\ nfree' = nfree /\ UNCHANGED readVars
  BY DEF FailWrite, Return
<1>3. wr' = [[wr EXCEPT !.nbmsg = 0, !.pending = FALSE] EXCEPT !.state = "HDR", !.nbdata = 2]
  BY DEF FailWrite, HdrState, HdrUnits
<1>4. wr' \in Wrs /\ wr'.state = "HDR" /\ wr'.nbdata = 2
  BY <1>0, <1>3 DEF Wrs
<1>5. WriterType'
  BY <1>0, <1>1, <1>2, <1>4, NextWriterType
<1>6. RingType'
  BY <1>0, <1>1 DEF WriterInv, RingType, SameRing
<1>7. EvalInv'
  BY <1>0, <1>1, <1>2, <1>4 DEF WriterInv, EvalInv, SameRing, Evaluating
<1>8. ~blockedWriter
  BY <1>0 DEF WriterInv, PcInv
<1>9. PcInv'
  BY <1>1, <1>2, <1>4, <1>8 DEF PcInv, Evaluating
<1>10. BlockFits'
  BY <1>4 DEF BlockFits
<1> QED
  BY <1>1, <1>2, <1>5, <1>6, <1>7, <1>9, <1>10, WriterMoves, SameQueue,
     ControlTypes DEF WriterInv

\* The header of TM info asks for the rest of it.
LEMMA InitHeaderInv == ASSUME IInv, InitHeader PROVE IInv'
<1>0. WriterInv /\ wr \in Wrs /\ hdr \in Hdrs /\ dgOpened \in 0 .. 2 /\ nrec \in Nat
      /\ blockedWriter \in BOOLEAN /\ left \in Nat
  BY Parts, WriterTypes
<1>1. /\ SameChain /\ SameRing /\ SameReader /\ SameSend
      /\ dgOpened' = dgOpened /\ blockedWriter' = blockedWriter
  BY DEF InitHeader, ringVars, chainVars, rdVars, sendVars, SameRing, SameChain,
     SameReader, SameSend
<1>2. pc = "hdr" /\ hdr.kind = "INIT" /\ pc' = "write" /\ UNCHANGED readVars
  BY DEF InitHeader
<1>3. ret' = ret /\ newRows' = newRows /\ nreq' = nreq /\ nfree' = nfree
  BY DEF InitHeader, evalVars
<1>4. wr' = [wr EXCEPT !.state = "INFO", !.nbdata = 1]
  BY DEF InitHeader, InitUnits, HdrUnits
<1>5. wr' \in Wrs /\ wr'.state = "INFO" /\ wr'.nbdata = 1
  BY <1>0, <1>4 DEF Wrs
<1>6. WriterType'
  BY <1>0, <1>1, <1>5, NextWriterType DEF SameSend
<1>7. RingType'
  BY <1>0, <1>1 DEF WriterInv, RingType, SameRing
<1>8. EvalInv'
  BY <1>0, <1>1, <1>2, <1>5 DEF WriterInv, EvalInv, SameRing, Evaluating
<1>9. ~blockedWriter
  BY <1>0, <1>2 DEF WriterInv, PcInv
<1>10. PcInv'
  BY <1>1, <1>2, <1>5, <1>9 DEF PcInv, Evaluating, SameSend
<1>11. BlockFits'
  BY <1>5 DEF BlockFits
<1> QED
  BY <1>1, <1>2, <1>3, <1>6, <1>7, <1>8, <1>10, <1>11, WriterMoves, SameQueue,
     ControlTypes DEF WriterInv

\* The header of a data record: whole rows are to come.
LEMMA DataHeaderInv == ASSUME IInv, DataHeader PROVE IInv'
<1>0. WriterInv /\ wr \in Wrs /\ hdr \in Hdrs /\ dgOpened \in 0 .. 2 /\ nrec \in Nat
      /\ blockedWriter \in BOOLEAN /\ left \in Nat
  BY Parts, WriterTypes
<1>1. /\ SameChain /\ SameRing /\ SameReader /\ SameSend
      /\ dgOpened' = dgOpened /\ blockedWriter' = blockedWriter
  BY DEF DataHeader, ringVars, chainVars, rdVars, sendVars, SameRing, SameChain,
     SameReader, SameSend
<1>2. pc = "hdr" /\ hdr.kind = "DATA" /\ pc' = "eval" /\ UNCHANGED readVars
  BY DEF DataHeader
<1>3. ret' = ret /\ newRows' = newRows /\ nreq' = nreq /\ nfree' = nfree
  BY DEF DataHeader, evalVars
<1>4. wr' = [wr EXCEPT !.nbrec = Units(hdr.n), !.offq = 0]
  BY DEF DataHeader
<1>4a. hdr.n \in Nat /\ Units(hdr.n) \in Nat /\ hdr.n <= Units(hdr.n)
  BY <1>0, UnitsNat DEF Hdrs
<1>5. /\ wr' \in Wrs /\ wr'.state = wr.state /\ wr'.nbdata = wr.nbdata
      /\ wr'.nbrec = Units(hdr.n) /\ wr'.offq = 0
  BY <1>0, <1>4, <1>4a DEF Wrs
<1>6. WriterType'
  BY <1>0, <1>1, <1>5, NextWriterType DEF SameSend
<1>7. RingType'
  BY <1>0, <1>1 DEF WriterInv, RingType, SameRing
<1>8. dLast > 0 /\ wr.nbdata = 0 /\ wr.state # "DATA" /\ ~blockedWriter
  BY <1>0, <1>2 DEF WriterInv, PcInv
<1>9. WholeRows'
  <2>1. hdr.n \in 0 .. Units(hdr.n)
    BY <1>4a
  <2> QED
    BY <2>1, <1>5 DEF WholeRows
<1>10. EvalInv'
  BY <1>0, <1>1, <1>2, <1>5, <1>8, <1>9 DEF WriterInv, EvalInv, SameRing,
     SameChain, Evaluating, Waiting
<1>11. PcInv'
  BY <1>1, <1>2, <1>5, <1>8 DEF PcInv, Evaluating, SameSend, SameChain
<1>12. BlockFits'
  BY <1>5, <1>8 DEF BlockFits
<1> QED
  BY <1>1, <1>2, <1>3, <1>6, <1>7, <1>10, <1>11, <1>12, WriterMoves, SameQueue,
     ControlTypes DEF WriterInv

\* Reading never takes more than the block behind last has room for.
LEMMA MsgReadChunkInv == ASSUME IInv, MsgReadChunk PROVE IInv'
<1> DEFINE nb == Lesser(wr.nbmsg, wr.nbdata)
           data == IF wr.state = "DATA" THEN nb ELSE 0
<1>0. WriterInv /\ wr \in Wrs /\ hdr \in Hdrs /\ dgOpened \in 0 .. 2 /\ nrec \in Nat
      /\ blockedWriter \in BOOLEAN /\ left \in Nat
  BY Parts, WriterTypes
<1>1. /\ SameChain /\ SameReader /\ SameSend /\ first' = first /\ last' = last /\ full' = full
      /\ dgOpened' = dgOpened /\ blockedWriter' = blockedWriter
  BY DEF MsgReadChunk, chainVars, rdVars, sendVars, SameChain, SameReader,
     SameSend
<1>2. /\ pc = "write" /\ wr.nbmsg > 0 /\ wr.nbdata > 0 /\ UNCHANGED readVars
      /\ pc' = IF nb < wr.nbdata THEN "write"
               ELSE IF wr.state = "DATA" THEN "eval"
               ELSE IF wr.state = "HDR" THEN "hdr" ELSE "info"
  BY DEF MsgReadChunk
<1>3. ret' = ret /\ newRows' = newRows /\ nreq' = nreq /\ nfree' = nfree
  BY DEF MsgReadChunk, evalVars
<1>4. wr' = [wr EXCEPT !.nbdata = wr.nbdata - nb, !.nbmsg = wr.nbmsg - nb,
                       !.nbrec = wr.nbrec - data, !.offq = wr.offq + data]
  BY DEF MsgReadChunk, Received
<1>5. wr.nbmsg \in Nat /\ wr.nbdata \in Nat /\ wr.nbrec \in Nat /\ wr.offq \in Nat
  BY <1>0 DEF Wrs
<1>6. nb \in Nat /\ nb > 0 /\ nb <= wr.nbdata /\ nb <= wr.nbmsg
  BY <1>2, <1>5 DEF Lesser
<1>7. data \in Nat /\ data <= wr.nbrec /\ (wr.state = "DATA" => data = nb)
  BY <1>0, <1>5, <1>6 DEF WriterInv, BlockFits
<1>7a. wr.state # "DATA" => data = 0
  OBVIOUS
<1> HIDE DEF nb, data
<1>8. /\ wr.nbdata - nb \in Nat /\ wr.nbmsg - nb \in Nat /\ wr.nbrec - data \in Nat
      /\ wr.offq + data \in Nat
  BY <1>5, <1>6, <1>7
<1>9. /\ wr' \in Wrs /\ wr'.state = wr.state /\ wr'.nbdata = wr.nbdata - nb
      /\ wr'.nbrec = wr.nbrec - data /\ wr'.offq = wr.offq + data
  BY <1>0, <1>4, <1>8 DEF Wrs
<1>10. WriterType'
  BY <1>0, <1>1, <1>9, NextWriterType DEF SameSend
<1>11. RingType'
  <2>1. /\ last \in Int /\ row \in [0 .. TotalQrows - 1 -> Int] /\ first \in 0 .. TotalQrows - 1
        /\ last \in 0 .. TotalQrows - 1 /\ full \in BOOLEAN
    BY <1>0, ConstType DEF WriterInv, RingType
  <2>2. \A s \in 0 .. TotalQrows - 1 : FrameAt(s - last) \in Int
    <3>1. wr.nbrec + wr.offq \in Int /\ hdr.frame \in Int /\ hdr.n \in Int
      BY <1>0, <1>5 DEF Hdrs
    <3>2. (wr.nbrec + wr.offq) \div RowUnits \in Int
      BY <3>1, ConstType
    <3> QED
      BY <2>1, <3>1, <3>2, ConstType DEF FrameAt
  <2>3. row' = [s \in DOMAIN row |->
                 IF wr.state = "DATA" /\ s - last \in wr.offq \div RowUnits ..
                                             (wr.offq + nb - 1) \div RowUnits
                 THEN FrameAt(s - last) ELSE row[s]]
    BY DEF MsgReadChunk, nb
  <2>4. row' \in [0 .. TotalQrows - 1 -> Int]
    BY <2>1, <2>2, <2>3
  <2> QED
    BY <1>1, <2>1, <2>4 DEF RingType
<1>12. ~blockedWriter
  BY <1>0, <1>2 DEF WriterInv, PcInv
<1>13. pc' \in {"write", "hdr", "info", "eval"}
  BY <1>2
<1>14. /\ pc' = "write" => wr'.nbdata > 0
       /\ pc' # "write" => wr'.nbdata = 0
       /\ pc' = "eval" => wr'.state = "DATA"
       /\ pc' \in {"hdr", "info"} => wr'.state # "DATA"
  BY <1>2, <1>5, <1>6, <1>9
<1>15. wr.state = "DATA" => dLast > 0 /\ \E m \in 0 .. wr.nbrec : wr.nbrec - wr.nbdata = Units(m)
  BY <1>0 DEF WriterInv, PcInv, BlockFits
<1>16. pc' = "eval" => WholeRows'
  <2> SUFFICES ASSUME pc' = "eval" PROVE WholeRows'
    OBVIOUS
  <2>1. wr.state = "DATA" /\ nb = wr.nbdata
    BY <1>14, <1>5, <1>6, <1>9
  <2>2. PICK m \in 0 .. wr.nbrec : wr.nbrec - wr.nbdata = Units(m)
    BY <1>15, <2>1
  <2>3. wr'.nbrec = Units(m) /\ m \in Nat
    BY <1>5, <1>7, <1>9, <2>1, <2>2
  <2>4. m \in 0 .. wr'.nbrec
    BY <2>3, UnitsNat
  <2> QED
    BY <2>3, <2>4 DEF WholeRows
<1>17. EvalInv'
  <2>1. full' => first' = last'
    BY <1>0, <1>1 DEF WriterInv, EvalInv
  <2>2. pc' \in Waiting \cup {"write", "evaldone"} /\ wr'.nbdata = 0 => FALSE
    BY <1>13, <1>14 DEF Waiting
  <2>3. pc' \in Evaluating => pc' = "eval"
    BY <1>13 DEF Evaluating
  <2>4. pc' = "eval" => wr'.nbdata = 0 /\ dLast' > 0 /\ wr'.state = "DATA"
    BY <1>1, <1>9, <1>14, <1>15 DEF SameChain
  <2>5. pc' \notin {"alloc", "expire", "place"}
    BY <1>13
  <2> QED
    BY <1>16, <2>1, <2>2, <2>3, <2>4, <2>5 DEF EvalInv
<1>18. PcInv'
  BY <1>0, <1>1, <1>2, <1>9, <1>12, <1>13, <1>14, <1>15 DEF WriterInv, PcInv,
     Evaluating, SameSend, SameChain
<1>19. BlockFits'
  <2> SUFFICES ASSUME wr.state = "DATA"
               PROVE  /\ wr'.nbdata <= wr'.nbrec
                      /\ \E m \in 0 .. wr'.nbrec : wr'.nbrec - wr'.nbdata = Units(m)
                      /\ \E b \in 0 .. TotalQrows - last' :
                           wr'.nbdata + wr'.offq = Units(b) /\ (b > 0 => ~full')
    BY <1>9 DEF BlockFits
  <2>1. PICK m \in 0 .. wr.nbrec : wr.nbrec - wr.nbdata = Units(m)
    BY <1>15
  <2>2. PICK b \in 0 .. TotalQrows - last :
           wr.nbdata + wr.offq = Units(b) /\ (b > 0 => ~full)
    BY <1>0 DEF WriterInv, BlockFits
  <2>3. /\ wr'.nbrec - wr'.nbdata = wr.nbrec - wr.nbdata
        /\ wr'.nbdata + wr'.offq = wr.nbdata + wr.offq
    BY <1>5, <1>6, <1>7, <1>9
  <2>4. m \in Nat /\ Units(m) \in Nat /\ m <= Units(m)
    BY <1>5, <2>1, UnitsNat
  <2>5. m \in 0 .. wr'.nbrec /\ wr'.nbdata <= wr'.nbrec
    BY <1>5, <1>8, <1>9, <2>1, <2>3, <2>4
  <2> QED
    BY <1>1, <2>1, <2>2, <2>3, <2>5
<1> QED
  BY <1>1, <1>2, <1>3, <1>10, <1>11, <1>13, <1>17, <1>18, <1>19, WriterMoves,
     SameQueue, ControlTypes DEF WriterInv

\* data_state_eval returns to do_write or to run_write_queue.
LEMMA EvalReturnInv == ASSUME IInv, EvalReturn PROVE IInv'
<1>0. WriterInv /\ wr \in Wrs /\ hdr \in Hdrs /\ dgOpened \in 0 .. 2 /\ nrec \in Nat
      /\ blockedWriter \in BOOLEAN /\ left \in Nat
  BY Parts, WriterTypes
<1>1. SameChain /\ SameRing /\ SameReader /\ SameSend /\ dgOpened' = dgOpened /\ UNCHANGED readVars
  BY DEF EvalReturn, ringVars, chainVars, rdVars, sendVars, SameRing, SameChain,
     SameReader, SameSend
<1>2. pc = "evaldone"
  BY DEF EvalReturn
<1>3. RingType'
  BY <1>0, <1>1 DEF WriterInv, RingType, SameRing
<1>4. dLast > 0 /\ (wr.nbdata = 0 => Settled)
  BY <1>0, <1>2 DEF WriterInv, EvalInv, PcInv
<1>5. CASE ret = "write"
  <2>1. /\ wr' = EndRecord /\ pc' = "write" /\ blockedWriter' = blockedWriter
        /\ ret' = ret /\ newRows' = newRows /\ nreq' = nreq /\ nfree' = nfree
    BY <1>5 DEF EvalReturn, evalVars
  <2>2. ~blockedWriter
    BY <1>0, <1>2, <1>5 DEF WriterInv, PcInv
  <2>3. CASE wr.nbrec <= 0
    <3>1. wr' = [wr EXCEPT !.state = "HDR", !.nbdata = 2]
      BY <2>1, <2>3 DEF EndRecord, HdrState, HdrUnits
    <3>2. wr' \in Wrs /\ wr'.state = "HDR" /\ wr'.nbdata = 2
      BY <1>0, <3>1 DEF Wrs
    <3>3. WriterType'
      BY <1>0, <1>1, <2>1, <3>2, NextWriterType DEF SameSend
    <3>4. EvalInv'
      BY <1>0, <1>1, <2>1, <3>2 DEF WriterInv, EvalInv, SameRing, Evaluating
    <3>5. PcInv'
      BY <1>1, <1>4, <2>1, <2>2, <3>2 DEF PcInv, Evaluating, SameChain
    <3>6. BlockFits'
      BY <3>2 DEF BlockFits
    <3> QED
      BY <1>1, <1>2, <1>3, <2>1, <3>3, <3>4, <3>5, <3>6, WriterMoves, SameQueue,
         ControlTypes DEF WriterInv
  <2>4. CASE ~(wr.nbrec <= 0)
    <3>1. wr' = wr
      BY <2>1, <2>4 DEF EndRecord
    <3>3. WriterType'
      BY <1>0, <1>1, <2>1, <3>1, NextWriterType DEF SameSend
    <3>4. EvalInv'
      BY <1>0, <1>1, <1>4, <2>1, <3>1 DEF WriterInv, EvalInv, SameRing,
         SameChain, Evaluating, Settled, WholeRows
    <3>5. PcInv'
      BY <1>1, <1>4, <2>1, <2>2, <3>1 DEF PcInv, Evaluating, SameChain
    <3>6. BlockFits'
      BY <1>0, <1>1, <3>1 DEF WriterInv, BlockFits, SameRing
    <3> QED
      BY <1>1, <1>2, <1>3, <2>1, <3>3, <3>4, <3>5, <3>6, WriterMoves, SameQueue,
         ControlTypes DEF WriterInv
  <2> QED
    BY <2>3, <2>4
<1>6. CASE ret # "write"
  <2>1. wr' = wr
    BY <1>6 DEF EvalReturn
  <2>2. BlockFits'
    BY <1>0, <1>1, <2>1 DEF WriterInv, BlockFits, SameRing
  <2>3. CASE wr.nbdata > 0
    <3>1. /\ blockedWriter' = FALSE /\ pc' = "write" /\ ret' = "write"
          /\ newRows' = newRows /\ nreq' = nreq /\ nfree' = nfree
      BY <1>6, <2>3 DEF EvalReturn
    <3>2. WriterType'
      BY <1>0, <1>1, <2>1, <3>1, NextWriterType DEF SameSend
    <3>3. EvalInv'
      BY <1>0, <1>1, <2>1, <2>3, <3>1 DEF WriterInv, EvalInv, SameRing,
         Evaluating, Wrs
    <3>4. PcInv'
      BY <1>1, <1>4, <2>1, <3>1 DEF PcInv, Evaluating, SameChain
    <3> QED
      BY <1>1, <1>2, <1>3, <2>2, <3>1, <3>2, <3>3, <3>4, WriterMoves, SameQueue,
         ControlTypes DEF WriterInv
  <2>4. CASE ~(wr.nbdata > 0)
    <3>1. /\ blockedWriter' = blockedWriter /\ pc' = "idle" /\ ret' = "write"
          /\ newRows' = FALSE /\ nreq' = nreq /\ nfree' = nfree
      BY <1>6, <2>4 DEF EvalReturn, Return
    <3>2. WriterType'
      BY <1>0, <1>1, <2>1, <3>1, NextWriterType DEF SameSend
    <3>2a. wr.nbdata = 0
      BY <1>0, <2>4 DEF Wrs
    <3>3. EvalInv'
      BY <1>0, <1>1, <1>4, <2>1, <3>1 DEF WriterInv, EvalInv, SameRing,
         SameChain, Evaluating, Settled, WholeRows
    <3>4. PcInv'
      BY <1>1, <1>4, <2>1, <3>1, <3>2a DEF PcInv, Evaluating, SameChain
    <3> QED
      BY <1>1, <1>2, <1>3, <2>2, <3>1, <3>2, <3>3, <3>4, WriterMoves, SameQueue,
         ControlTypes DEF WriterInv
  <2> QED
    BY <2>3, <2>4
<1> QED
  BY <1>5, <1>6

\* Back to the server's loop, or on to the readers' queue
LEMMA WriterDone ==
  ASSUME IInv, pc = "write", SameRing, SameSend, SameChain, SameReader,
         dgOpened' = dgOpened, blockedWriter' \in BOOLEAN,
         wr' \in Wrs, wr'.state = wr.state, wr'.nbdata = wr.nbdata,
         wr'.nbrec = wr.nbrec, wr'.offq = wr.offq,
         blockedWriter' => wr.nbdata = 0,
         ToReadQueue \/ (Return /\ UNCHANGED readVars)
  PROVE  IInv'
<1>0. WriterInv /\ wr \in Wrs /\ hdr \in Hdrs /\ dgOpened \in 0 .. 2 /\ nrec \in Nat
      /\ left \in Nat
  BY Parts, WriterTypes
<1>1. pc' \in {"idle", "readq"}
  BY DEF ToReadQueue, Return
<1>2. ret' = "write" /\ newRows' = FALSE /\ nreq' = nreq /\ nfree' = nfree
  BY DEF ToReadQueue, Return
<1>3. RingType'
  BY <1>0 DEF WriterInv, RingType, SameRing
<1>4. WriterType'
  BY <1>0, NextWriterType DEF SameSend
<1>5. EvalInv'
  BY <1>0, <1>1 DEF WriterInv, EvalInv, SameRing, SameChain, Evaluating,
     Waiting, Settled, WholeRows
<1>6. PcInv'
  BY <1>0, <1>1 DEF WriterInv, PcInv, Evaluating, SameSend, SameChain
<1>7. BlockFits'
  BY <1>0 DEF WriterInv, BlockFits, SameRing
<1>8. ReplyType /\ ControlType /\ ReaderInv
  BY Parts DEF ServerInv
<1>9. ReplyType'
  BY <1>8 DEF ReplyType, SameReader
<1>10. /\ rq' = rq /\ from' = from /\ nonblk' = nonblk
       /\ \/ pc' = "idle" /\ todo' = todo
          \/ pc' = "readq" /\ todo' = {r \in Readers : rd[r].open /\ rd[r].blocked}
  <2>1. CASE ToReadQueue
    BY <2>1 DEF ToReadQueue
  <2>2. CASE Return /\ UNCHANGED readVars
    <3>1. pc' = "idle" /\ UNCHANGED readVars
      BY <2>2 DEF Return
    <3> QED
      BY <3>1 DEF readVars
  <2> QED
    BY <2>1, <2>2
<1>11. todo' \subseteq Readers
  BY <1>8, <1>10 DEF ControlType
<1>12. ControlType'
  BY <1>1, <1>2, <1>8, <1>10, <1>11 DEF ControlType
<1>13. ReaderInv'
  BY <1>8, <1>10 DEF ReaderInv, SameReader
<1> QED
  BY <1>3, <1>4, <1>5, <1>6, <1>7, <1>9, <1>12, <1>13, SameQueue, NextParts DEF
     WriterInv, ServerInv

\* do_write answers the client.
LEMMA DoWriteReplyInv == ASSUME IInv, DoWriteReply PROVE IInv'
<1>0. wr \in Wrs /\ WriterInv /\ blockedWriter \in BOOLEAN
  BY Parts, WriterTypes
<1>1. /\ SameChain /\ SameRing /\ SameReader /\ SameSend
      /\ dgOpened' = dgOpened /\ blockedWriter' = blockedWriter
  BY DEF DoWriteReply, ringVars, chainVars, rdVars, sendVars, SameRing,
     SameChain, SameReader, SameSend
<1>2. pc = "write" /\ wr' = [wr EXCEPT !.pending = FALSE]
      /\ (ToReadQueue \/ (Return /\ UNCHANGED readVars))
  BY DEF DoWriteReply
<1>3. /\ wr' \in Wrs /\ wr'.state = wr.state /\ wr'.nbdata = wr.nbdata
      /\ wr'.nbrec = wr.nbrec /\ wr'.offq = wr.offq
  BY <1>0, <1>2 DEF Wrs
<1>4. ~blockedWriter
  BY <1>0, <1>2 DEF WriterInv, PcInv
<1> QED
  BY <1>0, <1>1, <1>2, <1>3, <1>4, WriterDone

\* do_write blocks the client.
LEMMA DoWriteBlockInv == ASSUME IInv, DoWriteBlock PROVE IInv'
<1>0. wr \in Wrs
  BY Parts, WriterTypes
<1>1. /\ SameChain /\ SameRing /\ SameReader /\ SameSend
      /\ dgOpened' = dgOpened /\ wr' = wr
  BY DEF DoWriteBlock, ringVars, chainVars, rdVars, sendVars, SameRing,
     SameChain, SameReader, SameSend
<1>2. pc = "write" /\ wr.nbdata = 0 /\ ToReadQueue
  BY DEF DoWriteBlock
<1>3. blockedWriter' \in BOOLEAN
  BY DEF DoWriteBlock
<1> QED
  BY <1>0, <1>1, <1>2, <1>3, WriterDone

\* run_write_queue resumes a blocked writer, which has nothing half placed.
LEMMA RunWriteQueueInv == ASSUME IInv, RunWriteQueue PROVE IInv'
<1>0. /\ WriterInv /\ rd \in [Readers -> Ocbs] /\ ControlType /\ ReaderInv /\ QueueInv
      /\ dgOpened \in 0 .. 2
  BY Parts, WriterTypes DEF QueueInv, ServerInv
<1>1. SameWriter /\ SameChain /\ dgOpened' = dgOpened
  BY DEF RunWriteQueue, ringVars, sendVars, chainVars, wrVars, SameRing,
     SameSend,
         SameWriter, SameChain
<1>2. pc = "writeq" /\ reply' = NoReply /\ rd' = rd
  BY DEF RunWriteQueue
<1>3. todo' = todo /\ rq' = rq /\ from' = from /\ nonblk' = nonblk
  BY DEF RunWriteQueue, readVars
<1>4. ReplyType'
  BY <1>2, NoReplyType
<1>5. QueueInv'
  BY <1>0, <1>1, <1>2, QueueWaits
<1>6. CASE blockedWriter
  <2>1. pc' = "eval" /\ ret' = "queue" /\ newRows' = FALSE /\ nreq' = nreq /\ nfree' = nfree
    BY <1>6 DEF RunWriteQueue
  <2>2. wr.nbdata = 0
    BY <1>0, <1>2, <1>6 DEF WriterInv, PcInv
  <2>3. Settled
    BY <1>0, <1>2, <2>2 DEF WriterInv, EvalInv, Waiting
  <2>4. RingType'
    BY <1>0, <1>1 DEF WriterInv, RingType, SameWriter, SameRing
  <2>5. WriterType'
    BY <1>0, <1>1 DEF WriterInv, WriterType, SameWriter, SameSend
  <2>6. EvalInv'
    BY <1>0, <1>1, <2>1, <2>2, <2>3 DEF WriterInv, EvalInv, SameWriter,
       SameRing, SameChain, Waiting, Evaluating, Settled, WholeRows
  <2>7. PcInv'
    BY <1>0, <1>1, <2>1, <2>2 DEF WriterInv, PcInv, SameWriter, SameSend,
       SameChain, Evaluating
  <2>8. BlockFits'
    BY <1>0, <1>1 DEF WriterInv, BlockFits, SameWriter, SameRing
  <2>9. ControlType'
    BY <1>0, <1>3, <2>1 DEF ControlType
  <2>10. ReaderInv'
    BY <1>0, <1>2, <1>3, <2>1 DEF ReaderInv
  <2> QED
    BY <1>4, <1>5, <2>4, <2>5, <2>6, <2>7, <2>8, <2>9, <2>10, NextParts DEF
       WriterInv, ServerInv
<1>7. CASE ~blockedWriter
  <2>1. pc' = "idle" /\ ret' = "write" /\ newRows' = FALSE /\ nreq' = nreq /\ nfree' = nfree
    BY <1>7 DEF RunWriteQueue, Return
  <2>2. WriterInv'
    BY <1>0, <1>1, <1>2, <2>1, WriterWaits DEF Waiting, SameChain
  <2>9. ControlType'
    BY <1>0, <1>3, <2>1 DEF ControlType
  <2>10. ReaderInv'
    BY <1>0, <1>2, <1>3, <2>1 DEF ReaderInv
  <2> QED
    BY <1>4, <1>5, <2>2, <2>9, <2>10, NextParts DEF ServerInv
<1> QED
  BY <1>6, <1>7

\* The block for nfree rows fits behind last, with the excess in it.
LEMMA PlaceRowsInv == ASSUME IInv, PlaceRows PROVE IInv'
<1> DEFINE ex == ExcessHere
<1>0. WriterInv /\ wr \in Wrs /\ hdr \in Hdrs /\ dgOpened \in 0 .. 2 /\ nrec \in Nat
      /\ blockedWriter \in BOOLEAN /\ left \in Nat
  BY Parts, WriterTypes
<1>1. /\ SameChain /\ SameReader /\ SameSend /\ first' = first /\ last' = last /\ full' = full
      /\ dgOpened' = dgOpened /\ blockedWriter' = blockedWriter
  BY DEF PlaceRows, chainVars, rdVars, sendVars, SameChain, SameReader, SameSend
<1>2. /\ pc = "place" /\ pc' = IF RowInHeader THEN "eval" ELSE "evaldone"
      /\ nreq' = 0 /\ nfree' = 0 /\ ret' = ret /\ newRows' = newRows /\ UNCHANGED readVars
  BY DEF PlaceRows
<1>3. wr' = [wr EXCEPT !.state = IF nfree > 0 THEN "DATA" ELSE wr.state,
                       !.nbdata = Units(nfree) - ex,
                       !.offq = ex, !.nbrec = wr.nbrec - ex]
  BY DEF PlaceRows
<1>4. wr.nbdata = 0 /\ wr.nbrec \in Nat /\ wr.offq = 0 /\ wr.nbrec > 0 /\ dLast > 0
  BY <1>0, <1>2 DEF WriterInv, EvalInv, Evaluating, Wrs
<1>5. nfree \in Nat /\ nreq \in Nat
  BY ControlTypes
<1>6. PICK m \in 0 .. wr.nbrec : wr.nbrec = Units(m)
  BY <1>0, <1>2 DEF WriterInv, EvalInv, Evaluating, WholeRows
<1>7. m \in Nat /\ m > 0
  BY <1>4, <1>6, UnitsZero
<1>8. RowsLeft = m
  <2>1. wr.nbrec \div RowUnits = m
    BY <1>6, <1>7, UnitsRows
  <2> QED
    BY <2>1, <1>7 DEF RowsLeft, Greater
<1>9. nfree + nreq <= RowsLeft /\ last + nfree <= TotalQrows /\ (nfree > 0 => ~full)
  BY <1>0, <1>2 DEF WriterInv, EvalInv
<1>10. nfree <= m
  BY <1>5, <1>7, <1>8, <1>9
<1>11. /\ Units(nfree) \in Nat /\ nfree <= Units(nfree) /\ Units(nfree) <= wr.nbrec
       /\ Units(m - nfree) = wr.nbrec - Units(nfree) /\ m - nfree \in Nat
  <2>1. Units(nfree) \in Nat /\ nfree <= Units(nfree)
    BY <1>5, UnitsNat
  <2>2. Units(nfree) <= Units(m)
    BY <1>5, <1>7, <1>10, UnitsLeq
  <2>3. Units(m - nfree) = Units(m) - Units(nfree)
    BY <1>5, <1>7, <1>10, UnitsSub
  <2> QED
    BY <1>5, <1>6, <1>7, <1>10, <2>1, <2>2, <2>3
<1>12. ex \in {0, 1} /\ (ex = 1 => nfree > 0)
  BY DEF ExcessHere, Excess, HdrUnits, DataHdr
<1>13. RowInHeader <=> nfree > 0 /\ Units(nfree) = ex
  BY DEF RowInHeader
<1> HIDE DEF ex
<1>14. Units(nfree) - ex \in Nat /\ wr.nbrec - ex \in Nat /\ ex \in Nat
  BY <1>4, <1>5, <1>11, <1>12
<1>15. /\ wr' \in Wrs /\ wr'.nbdata = Units(nfree) - ex /\ wr'.nbrec = wr.nbrec - ex
       /\ wr'.offq = ex /\ wr'.state = IF nfree > 0 THEN "DATA" ELSE wr.state
  BY <1>0, <1>3, <1>14 DEF Wrs
<1>16. WriterType'
  BY <1>0, <1>1, <1>15, NextWriterType DEF SameSend
<1>17. RingType'
  <2>1. /\ row \in [0 .. TotalQrows - 1 -> Int] /\ first \in 0 .. TotalQrows - 1
        /\ last \in 0 .. TotalQrows - 1 /\ full \in BOOLEAN
    BY <1>0 DEF WriterInv, RingType
  <2>2. hdr.frame \in Int
    BY <1>0 DEF Hdrs
  <2>3. row' = row \/ row' = [row EXCEPT ![last] = hdr.frame]
    BY DEF PlaceRows
  <2>4. row' \in [0 .. TotalQrows - 1 -> Int]
    BY <2>1, <2>2, <2>3
  <2> QED
    BY <1>1, <2>1, <2>4 DEF RingType
<1>18. m - nfree \in 0 .. wr.nbrec - ex /\ wr'.nbrec - wr'.nbdata = Units(m - nfree)
  <2>1. m - nfree <= Units(m - nfree)
    BY <1>11, UnitsNat
  <2> QED
    BY <2>1, <1>4, <1>11, <1>12, <1>14, <1>15
<1>19. wr'.nbdata = 0 => WholeRows'
  <2> SUFFICES ASSUME wr'.nbdata = 0 PROVE WholeRows'
    OBVIOUS
  <2>1. wr'.nbrec = Units(m - nfree)
    BY <1>14, <1>15, <1>18
  <2>2. m - nfree \in 0 .. wr'.nbrec
    BY <1>15, <1>18
  <2> QED
    BY <2>1, <2>2 DEF WholeRows
<1>20. wr'.nbdata = 0 /\ ~RowInHeader => wr'.offq = 0
  BY <1>5, <1>11, <1>12, <1>13, <1>15
<1>21. pc' \in {"eval", "evaldone"} /\ (pc' = "eval" <=> RowInHeader)
  BY <1>2
<1>22. EvalInv'
  <2>1. full' => first' = last'
    BY <1>0, <1>1 DEF WriterInv, EvalInv
  <2>2. pc' = "evaldone" /\ wr'.nbdata = 0 => Settled'
    BY <1>1, <1>4, <1>19, <1>20, <1>21 DEF Settled, SameChain
  <2>3. pc' = "eval" => wr'.nbdata = 0 /\ wr'.state = "DATA" /\ WholeRows' /\ dLast' > 0
    BY <1>1, <1>4, <1>5, <1>13, <1>15, <1>19, <1>21, <1>11, <1>12 DEF SameChain
  <2> QED
    BY <1>21, <2>1, <2>2, <2>3 DEF EvalInv, Waiting, Evaluating
<1>23. pc' = "eval" => wr'.nbdata = 0
  BY <1>13, <1>15, <1>21, <1>11, <1>12
<1>24. PcInv'
  BY <1>0, <1>1, <1>2, <1>4, <1>21, <1>23 DEF WriterInv, PcInv, Evaluating,
     SameSend, SameChain
<1>25. BlockFits'
  <2>1. wr'.nbdata <= wr'.nbrec
    BY <1>4, <1>11, <1>12, <1>15
  <2>2. nfree \in 0 .. TotalQrows - last /\ wr'.nbdata + wr'.offq = Units(nfree)
    <3>1. last \in Nat
      BY <1>0, ConstType DEF WriterInv, RingType
    <3> QED
      BY <3>1, <1>5, <1>9, <1>11, <1>12, <1>15, ConstType
  <2> QED
    BY <1>1, <1>9, <1>15, <1>18, <2>1, <2>2 DEF BlockFits
<1>26. nreq' \in Nat /\ nfree' \in Nat
  BY <1>2
<1>27. pc \notin {"read", "readq"} /\ pc' \in {"eval", "evaldone"}
  BY <1>2
<1> QED
  BY <1>1, <1>2, <1>16, <1>17, <1>22, <1>24, <1>25, <1>26, <1>27, WriterMoves,
     SameQueue, ControlTypes DEF WriterInv

\* Committing the rows that arrived keeps last in the ring and the readers' account.
LEMMA CommitRowsInv == ASSUME IInv, CommitRows PROVE IInv'
<1>0. /\ WriterInv /\ wr \in Wrs /\ hdr \in Hdrs /\ dgOpened \in 0 .. 2 /\ nrec \in Nat
      /\ blockedWriter \in BOOLEAN /\ left \in Nat
  BY Parts, WriterTypes
<1>0a. /\ ChainType /\ ChainInv /\ rd \in [Readers -> Ocbs] /\ RefCounts /\ RowsAccounted
  BY Parts DEF QueueInv
<1>1. PICK k \in 0 .. TotalQrows :
       /\ wr.offq = Units(k)
       /\ last' = SlotAfter(last, k)
       /\ full' = FullAfter(k)
       /\ dqd' = [dqd EXCEPT ![dLast].n = @ + k]
       /\ newRows' = (newRows \/ k > 0)
  BY DEF CommitRows
<1>2. /\ SameReader /\ SameSend /\ first' = first /\ row' = row
      /\ dgOpened' = dgOpened /\ blockedWriter' = blockedWriter
      /\ dFirst' = dFirst /\ dLast' = dLast /\ tsq' = tsq /\ nts' = nts
  BY DEF CommitRows, rdVars, sendVars, SameReader, SameSend
<1>3. /\ pc = "eval" /\ pc' = IF wr.nbrec > 0 THEN "alloc" ELSE "evaldone"
      /\ ret' = ret /\ nreq' = nreq /\ nfree' = nfree /\ UNCHANGED readVars
      /\ wr' = [wr EXCEPT !.offq = 0]
  BY DEF CommitRows, readVars
<1>4. newRows' \in BOOLEAN
  BY <1>1
<1>5. /\ wr' \in Wrs /\ wr'.state = wr.state /\ wr'.nbdata = wr.nbdata
      /\ wr'.nbrec = wr.nbrec /\ wr'.offq = 0
  BY <1>0, <1>3 DEF Wrs
<1>6. wr.nbdata = 0 /\ WholeRows /\ dLast > 0 /\ (wr.state # "DATA" => wr.offq = 0)
      /\ wr.nbrec \in Nat
  BY <1>0, <1>3 DEF WriterInv, EvalInv, Evaluating, Wrs
<1>7. k \in Nat /\ last \in 0 .. TotalQrows - 1 /\ first \in 0 .. TotalQrows - 1 /\ full \in BOOLEAN
  BY <1>0, ConstType DEF WriterInv, RingType
<1>8. last + k <= TotalQrows /\ (k > 0 => ~full)
  <2>1. CASE wr.state = "DATA"
    <3>1. PICK b \in 0 .. TotalQrows - last : Units(b) = Units(k) /\ (b > 0 => ~full)
      BY <2>1, <1>0, <1>1, <1>6, <1>7, UnitsNat DEF WriterInv, BlockFits
    <3>2. b \in Nat /\ b <= TotalQrows - last
      BY <1>7, ConstType
    <3>3. b = k
      BY <3>1, <3>2, <1>7, UnitsInjective
    <3> QED
      BY <3>1, <3>2, <3>3, <1>7, ConstType
  <2>2. CASE wr.state # "DATA"
    <3>1. Units(k) = Units(0)
      BY <2>2, <1>1, <1>6, UnitsZero
    <3>2. k = 0
      BY <3>1, <1>7, UnitsInjective
    <3> QED
      BY <3>2, <1>7, ConstType
  <2> QED
    BY <2>1, <2>2
<1>9. last' \in 0 .. TotalQrows - 1
  BY <1>1, <1>7, <1>8, ConstType DEF SlotAfter
<1>10. full' \in BOOLEAN
  BY <1>1, <1>7 DEF FullAfter
<1>11. RingType'
  BY <1>0, <1>2, <1>9, <1>10 DEF WriterInv, RingType
<1>12. WriterType'
  BY <1>0, <1>2, <1>5, NextWriterType DEF SameSend
<1>13. full' => first' = last'
  <2>1. CASE full
    <3>1. k = 0 /\ first = last
      BY <2>1, <1>0, <1>7, <1>8 DEF WriterInv, EvalInv
    <3>2. last' = last
      BY <3>1, <1>1, <1>7, ConstType DEF SlotAfter
    <3> QED
      BY <3>1, <3>2, <1>2
  <2>2. CASE ~full
    BY <2>2, <1>1, <1>2 DEF FullAfter
  <2> QED
    BY <2>1, <2>2
<1>14. WholeRows'
  BY <1>5, <1>6 DEF WholeRows
<1>15. pc' \in {"alloc", "evaldone"} /\ (pc' = "alloc" => wr.nbrec > 0)
  BY <1>3
<1>16. EvalInv'
  BY <1>2, <1>5, <1>6, <1>13, <1>14, <1>15 DEF EvalInv, Waiting, Evaluating,
     Settled
<1>17. PcInv'
  BY <1>0, <1>2, <1>3, <1>5, <1>6, <1>15 DEF WriterInv, PcInv, Evaluating,
     SameSend
<1>18. BlockFits'
  <2> SUFFICES ASSUME wr'.state = "DATA"
               PROVE  /\ wr'.nbdata <= wr'.nbrec
                      /\ \E j \in 0 .. wr'.nbrec : wr'.nbrec - wr'.nbdata = Units(j)
                      /\ \E b \in 0 .. TotalQrows - last' :
                           wr'.nbdata + wr'.offq = Units(b) /\ (b > 0 => ~full')
    BY DEF BlockFits
  <2>0. wr'.nbdata + wr'.offq = Units(0)
    BY <1>5, <1>6, UnitsZero
  <2>1. 0 \in 0 .. TotalQrows - last'
    <3>1. \A j \in 0 .. TotalQrows - 1 : 0 \in 0 .. TotalQrows - j
      BY ConstType
    <3> QED
      BY <3>1, <1>9
  <2>2. wr'.nbdata <= wr'.nbrec
    BY <1>5, <1>6
  <2>3. \E j \in 0 .. wr'.nbrec : wr'.nbrec - wr'.nbdata = Units(j)
    BY <1>5, <1>6 DEF WholeRows
  <2> QED
    BY <2>0, <2>1, <2>2, <2>3
<1>20. dLast \in Live /\ dFirst \in Nat \ {0} /\ dLast \in Nat /\ DOMAIN dqd = Live
  BY <1>0a, <1>6 DEF ChainType, ChainInv, Live
<1>21. \A d \in Live : dqd[d] \in Dqds
  BY <1>0a DEF ChainType, Live
<1>22. /\ dqd'[dLast] = [dqd[dLast] EXCEPT !.n = dqd[dLast].n + k]
       /\ \A d \in Live \ {dLast} : dqd'[d] = dqd[d]
       /\ DOMAIN dqd' = Live
  BY <1>1, <1>20
<1>23. dqd[dLast].n \in Nat /\ dqd[dLast].expired \in Nat
  BY <1>20, <1>21 DEF Dqds
<1>24. /\ dqd'[dLast] \in Dqds /\ dqd'[dLast].n = dqd[dLast].n + k
       /\ dqd'[dLast].pos = dqd[dLast].pos /\ dqd'[dLast].ref = dqd[dLast].ref
       /\ dqd'[dLast].expired = dqd[dLast].expired
  BY <1>7, <1>20, <1>21, <1>22, <1>23 DEF Dqds
<1>25. \A d \in Live : dqd'[d] \in Dqds /\ dqd'[d].pos = dqd[d].pos /\ dqd'[d].ref = dqd[d].ref
  BY <1>21, <1>22, <1>24
<1>26. ChainType'
  <2>1. dqd' = [d \in Live |-> dqd'[d]]
    BY <1>1, <1>0a DEF ChainType, Live
  <2>2. dqd' \in [dFirst .. dLast -> Dqds]
    BY <2>1, <1>25 DEF Live
  <2> QED
    BY <2>2, <1>0a, <1>2 DEF ChainType
<1>27. ChainInv'
  <2>1. \A d \in dFirst .. dLast - 1 : d \in Live /\ d + 1 \in Live /\ d # dLast
    BY <1>20 DEF Live
  <2>2. \A d \in dFirst .. dLast - 1 : dqd'[d + 1].pos = dqd'[d].pos + Rows(d)'
    <3> SUFFICES ASSUME NEW d \in dFirst .. dLast - 1
                 PROVE  dqd'[d + 1].pos = dqd'[d].pos + Rows(d)'
      OBVIOUS
    <3>1. dqd'[d] = dqd[d] /\ dqd'[d + 1].pos = dqd[d + 1].pos
      BY <2>1, <1>22, <1>25
    <3> QED
      BY <3>1, <1>0a DEF ChainInv, Rows
  <2> QED
    BY <2>2, <1>0a, <1>2 DEF ChainInv
<1>28. RefCounts'
  <2>1. \A d \in Live : On(d)' = On(d)
    BY <1>2, OnSame DEF SameReader
  <2>2. Live' = Live /\ rd' = rd
    BY <1>2 DEF Live, SameReader
  <2> QED
    BY <2>1, <2>2, <1>0a, <1>25 DEF RefCounts
<1>29. RowsAccounted'
  <2> SUFFICES ASSUME NEW r \in Readers, rd'[r].dqd # 0
               PROVE  /\ rd'[r].n <= dqd'[rd'[r].dqd].expired + dqd'[rd'[r].dqd].n
                      /\ rd'[r].got + rd'[r].missing = dqd'[rd'[r].dqd].pos + rd'[r].n
    BY DEF RowsAccounted, Rows
  <2>1. rd'[r] = rd[r] /\ rd[r].dqd \in Live /\ rd[r].n \in Nat
    BY <1>0a, <1>2 DEF RefCounts, SameReader, Ocbs
  <2>2. /\ rd[r].n <= dqd[rd[r].dqd].expired + dqd[rd[r].dqd].n
        /\ rd[r].got + rd[r].missing = dqd[rd[r].dqd].pos + rd[r].n
    BY <2>1, <1>0a DEF RowsAccounted, Rows
  <2>3. rd'[r].got + rd'[r].missing = dqd'[rd'[r].dqd].pos + rd'[r].n
    BY <2>1, <2>2, <1>25
  <2>4. CASE rd[r].dqd = dLast
    BY <2>1, <2>2, <2>3, <2>4, <1>7, <1>23, <1>24
  <2>5. CASE rd[r].dqd # dLast
    BY <2>1, <2>2, <2>3, <2>5, <1>22
  <2> QED
    BY <2>4, <2>5
<1>30. QueueInv' /\ WriterInv'
  BY <1>0a, <1>2, <1>11, <1>12, <1>16, <1>17, <1>18, <1>26, <1>27, <1>28, <1>29
     DEF QueueInv, WriterInv, SameReader
<1> QED
  BY <1>2, <1>3, <1>4, <1>15, <1>30, WriterMoves, ControlTypes

-----------------------------------------------------------------------------
(* New and expired descriptors *)

\* new_dq_descriptor
LEMMA AppendInv ==
  ASSUME IInv, NEW ts \in Nat, NEW m \in 0 .. MfcMod - 1,
         dqd' = Append1(NewDqd(ts, m)), dLast' = dLast + 1, dFirst' = dFirst,
         nts' \in Nat, DOMAIN tsq' \subseteq Nat, tsq' \in [DOMAIN tsq' -> Nat], rd' = rd
  PROVE  QueueInv'
<1> DEFINE new == NewDqd(ts, m)
<1>0. /\ ChainType /\ ChainInv /\ rd \in [Readers -> Ocbs] /\ RefCounts /\ RowsAccounted
      /\ last \in 0 .. TotalQrows - 1
  BY Parts DEF QueueInv, WriterInv, RingType
<1>1. dFirst \in Nat \ {0} /\ dLast \in Nat /\ dFirst <= dLast + 1
  BY <1>0 DEF ChainType
<1>2. \A d \in Live : d \in Nat \ {0} /\ d # dLast + 1 /\ d \in dFirst .. dLast + 1
  BY <1>1 DEF Live
<1>3. dqd' = [d \in dFirst .. dLast + 1 |-> IF d = dLast + 1 THEN new ELSE dqd[d]]
  BY DEF Append1
<1>4. dqd'[dLast + 1] = new /\ \A d \in Live : dqd'[d] = dqd[d]
  BY <1>1, <1>2, <1>3
<1>5. \A d \in Live : dqd[d] \in Dqds /\ Rows(d) \in Nat
  BY ChainFields
<1>6. IF dLast = 0 THEN new.pos = 0 ELSE new.pos = dqd[dLast].pos + Rows(dLast)
  BY DEF NewDqd
<1>7. new.pos \in Nat
  <2>1. CASE dLast = 0
    BY <2>1, <1>6
  <2>2. CASE dLast # 0
    <3>1. dLast \in Live
      BY <2>2, <1>0, <1>1 DEF ChainInv, Live
    <3>2. dqd[dLast].pos \in Nat /\ Rows(dLast) \in Nat
      BY <3>1, <1>5 DEF Dqds
    <3> QED
      BY <3>2, <2>2, <1>6
  <2> QED
    BY <2>1, <2>2
<1>8. new = [ref |-> 0, start |-> last, n |-> 0, expired |-> 0, ts |-> ts, mfctr |-> m,
             pos |-> new.pos]
  BY DEF NewDqd
<1> HIDE DEF new
<1>9. new \in Dqds /\ new.ref = 0
  BY <1>0, <1>7, <1>8 DEF Dqds
<1>10. ChainType'
  <2>1. dqd' \in [dFirst .. dLast + 1 -> Dqds]
    <3>1. \A d \in dFirst .. dLast + 1 : d # dLast + 1 => d \in Live
      BY <1>1 DEF Live
    <3> QED
      BY <3>1, <1>3, <1>5, <1>9
  <2> QED
    BY <2>1, <1>1 DEF ChainType
<1>11. ChainInv'
  <2>1. dFirst <= dLast + 1 /\ dLast' # 0
    BY <1>1
  <2>2. ASSUME NEW d \in dFirst .. dLast PROVE dqd'[d + 1].pos = dqd'[d].pos + Rows(d)'
    <3>1. d \in Live /\ dqd'[d] = dqd[d]
      BY <1>4 DEF Live
    <3>2. CASE d = dLast
      <4>1. dLast # 0
        BY <1>1, <3>2, <2>2
      <4> QED
        BY <4>1, <1>4, <1>6, <3>1, <3>2 DEF Rows
    <3>3. CASE d # dLast
      <4>1. d \in dFirst .. dLast - 1 /\ d + 1 \in Live
        BY <1>1, <3>1, <3>3 DEF Live
      <4>2. dqd[d + 1].pos = dqd[d].pos + Rows(d)
        BY <4>1, <1>0 DEF ChainInv
      <4> QED
        BY <4>1, <4>2, <1>4, <3>1 DEF Rows
    <3> QED
      BY <3>2, <3>3
  <2>3. dFirst' .. dLast' - 1 = dFirst .. dLast
    BY <1>1
  <2> QED
    BY <2>1, <2>2, <2>3, <1>1 DEF ChainInv
<1>12. RefCounts'
  <2>1. \A d \in Live' : d = dLast + 1 \/ d \in Live
    BY <1>1 DEF Live
  <2>2. \A d : On(d)' = On(d)
    BY OnSame
  <2>3. On(dLast + 1) = {}
    BY <1>0, <1>1, <1>2 DEF On, RefCounts
  <2>4. dqd'[dLast + 1].ref = Cardinality(On(dLast + 1))
    BY <2>3, <1>4, <1>9, FS_EmptySet
  <2>5. \A d \in Live' : dqd'[d].ref = Cardinality(On(d))
    BY <2>1, <2>4, <1>0, <1>4 DEF RefCounts
  <2>6. \A r \in Readers : rd'[r].dqd # 0 => rd'[r].dqd \in Live'
    BY <1>0, <1>1 DEF RefCounts, Live
  <2> QED
    BY <2>2, <2>5, <2>6 DEF RefCounts
<1>13. RowsAccounted'
  <2> SUFFICES ASSUME NEW r \in Readers, rd'[r].dqd # 0
               PROVE  /\ rd'[r].n <= dqd'[rd'[r].dqd].expired + dqd'[rd'[r].dqd].n
                      /\ rd'[r].got + rd'[r].missing = dqd'[rd'[r].dqd].pos + rd'[r].n
    BY DEF RowsAccounted, Rows
  <2>1. rd'[r] = rd[r] /\ rd[r].dqd \in Live
    BY <1>0 DEF RefCounts
  <2> QED
    BY <2>1, <1>0, <1>4 DEF RowsAccounted, Rows
<1> QED
  BY <1>0, <1>10, <1>11, <1>12, <1>13 DEF QueueInv

\* queue_tstamp appends a descriptor with a time stamp of its own.
LEMMA QueueTstampInv ==
  ASSUME IInv, QueueTstamp, rd' = rd PROVE QueueInv' /\ dLast' > 0
<1>1. /\ nts \in Nat /\ DOMAIN tsq \subseteq Nat /\ tsq \in [DOMAIN tsq -> Nat] /\ dLast \in Nat
  BY Parts DEF QueueInv, ChainType
<1>2. /\ nts' = nts + 1 /\ dqd' = Append1(NewDqd(nts + 1, 0)) /\ dLast' = dLast + 1
      /\ dFirst' = dFirst
      /\ tsq' = [t \in DOMAIN tsq \cup {nts + 1} |-> IF t = nts + 1 THEN 1 ELSE tsq[t]]
  BY DEF QueueTstamp
<1>3. nts + 1 \in Nat /\ 0 \in 0 .. MfcMod - 1 /\ dLast + 1 > 0
  BY <1>1, ConstType
<1>4. DOMAIN tsq' \subseteq Nat /\ tsq' \in [DOMAIN tsq' -> Nat]
  BY <1>1, <1>2, <1>3
<1> QED
  BY <1>2, <1>3, <1>4, AppendInv

\* Expecting a header.
LEMMA HdrStateType ==
  ASSUME NEW w \in Wrs
  PROVE  HdrState(w) \in Wrs /\ HdrState(w).state = "HDR" /\ HdrState(w).nbdata = 2
BY DEF HdrState, HdrUnits, Wrs

\* TSTAMP and INIT records end like this
LEMMA StampedInv ==
  ASSUME IInv, QueueTstamp, SameReader, SameSend, pc \in {"hdr", "info"}, pc' = "write",
         wr' = HdrState(wr), dgOpened' = dgOpened, blockedWriter' = blockedWriter,
         RingType', full' => full /\ first' = first /\ last' = last, newRows' = TRUE,
         ret' = ret, nreq' = nreq, nfree' = nfree, UNCHANGED readVars
  PROVE  IInv'
<1>0. /\ WriterInv /\ wr \in Wrs /\ hdr \in Hdrs /\ dgOpened \in 0 .. 2 /\ nrec \in Nat
      /\ blockedWriter \in BOOLEAN /\ left \in Nat
  BY Parts, WriterTypes
<1>1. QueueInv' /\ dLast' > 0
  BY QueueTstampInv DEF SameReader
<1>3. wr' \in Wrs /\ wr'.state = "HDR" /\ wr'.nbdata = 2
  BY <1>0, HdrStateType
<1>4. WriterType'
  BY <1>0, <1>3, NextWriterType DEF SameSend
<1>5. EvalInv'
  BY <1>0, <1>3 DEF WriterInv, EvalInv, Evaluating
<1>6. ~blockedWriter
  BY <1>0 DEF WriterInv, PcInv
<1>7. PcInv'
  BY <1>1, <1>3, <1>6 DEF PcInv, Evaluating
<1>8. BlockFits'
  BY <1>3 DEF BlockFits
<1>9. newRows' \in BOOLEAN
  OBVIOUS
<1>10. pc \notin {"read", "readq"}
  OBVIOUS
<1> QED
  BY <1>1, <1>4, <1>5, <1>7, <1>8, <1>9, <1>10, WriterMoves, ControlTypes DEF
     WriterInv

\* A TSTAMP record.
LEMMA TstampHeaderInv == ASSUME IInv, TstampHeader PROVE IInv'
<1>1. /\ SameRing /\ SameReader /\ SameSend
      /\ dgOpened' = dgOpened /\ blockedWriter' = blockedWriter
  BY DEF TstampHeader, ringVars, rdVars, sendVars, SameRing, SameReader,
     SameSend
<1>2. QueueTstamp /\ pc = "hdr" /\ pc' = "write" /\ wr' = HdrState(wr)
  BY DEF TstampHeader
<1>3. ret' = ret /\ newRows' = TRUE /\ nreq' = nreq /\ nfree' = nfree /\ UNCHANGED readVars
  BY DEF TstampHeader
<1>4. RingType'
  BY <1>1, Parts DEF WriterInv, RingType, SameRing
<1>5. full' => full /\ first' = first /\ last' = last
  BY <1>1 DEF SameRing
<1> QED
  BY <1>1, <1>2, <1>3, <1>4, <1>5, StampedInv

\* The TM info record empties the ring.
LEMMA ProcessTmInfoInv == ASSUME IInv, ProcessTmInfo PROVE IInv'
<1>1. /\ SameReader /\ SameSend /\ dgOpened' = dgOpened /\ blockedWriter' = blockedWriter
      /\ first' = 0 /\ last' = 0 /\ row' = row
  BY DEF ProcessTmInfo, rdVars, sendVars, SameReader, SameSend
<1>1a. full' = FALSE
  BY DEF ProcessTmInfo
<1>2. QueueTstamp /\ pc = "info" /\ pc' = "write" /\ wr' = HdrState(wr)
  BY DEF ProcessTmInfo
<1>3. ret' = ret /\ newRows' = TRUE /\ nreq' = nreq /\ nfree' = nfree /\ UNCHANGED readVars
  BY DEF ProcessTmInfo
<1>4. RingType'
  <2>1. row \in [0 .. TotalQrows - 1 -> Int]
    BY Parts DEF WriterInv, RingType
  <2>2. 0 \in 0 .. TotalQrows - 1
    BY ConstType
  <2>3. full' \in BOOLEAN
    BY <1>1a
  <2> QED
    BY <2>1, <2>2, <2>3, <1>1 DEF RingType
<1>5. full' => full /\ first' = first /\ last' = last
  BY <1>1a
<1> QED
  BY <1>1, <1>2, <1>3, <1>4, <1>5, StampedInv

\* The writer's side while allocate_qrows makes room
LEMMA MakingRoom ==
  ASSUME IInv, SameReader, SameSend, UNCHANGED readVars, wr' = wr,
         dgOpened' = dgOpened, blockedWriter' = blockedWriter,
         pc \in {"alloc", "expire"}, pc' \in {"expire", "place"},
         ret' = ret, newRows' = newRows, nreq' \in Nat, nfree' \in Nat,
         RingType', last' = last, full' => full /\ first' = first, dLast' > 0,
         nfree' + nreq' <= RowsLeft, last + nfree' <= TotalQrows,
         nfree' > 0 => ~full', QueueInv'
  PROVE  IInv'
<1>0. /\ WriterInv /\ wr \in Wrs /\ hdr \in Hdrs /\ dgOpened \in 0 .. 2 /\ nrec \in Nat
      /\ blockedWriter \in BOOLEAN /\ left \in Nat
  BY Parts, WriterTypes
<1>1. WriterType'
  BY <1>0, NextWriterType DEF SameSend
<1>2. RowsLeft' = RowsLeft
  BY DEF RowsLeft
<1>3. EvalInv'
  BY <1>0, <1>2 DEF WriterInv, EvalInv, Evaluating, Waiting, WholeRows
<1>4. PcInv'
  BY <1>0 DEF WriterInv, PcInv, Evaluating, SameSend
<1>5. wr.nbdata = 0 /\ wr.offq = 0 /\ WholeRows
  BY <1>0 DEF WriterInv, EvalInv, Evaluating
<1>6. BlockFits'
  <2> SUFFICES ASSUME wr.state = "DATA"
               PROVE  \E b \in 0 .. TotalQrows - last :
                           wr.nbdata + wr.offq = Units(b) /\ (b > 0 => ~full')
    BY <1>0 DEF WriterInv, BlockFits
  <2>1. wr.nbdata + wr.offq = Units(0)
    BY <1>5, UnitsZero
  <2>2. 0 \in 0 .. TotalQrows - last
    BY <1>0, ConstType DEF WriterInv, RingType
  <2> QED
    BY <2>1, <2>2
<1> QED
  BY <1>1, <1>3, <1>4, <1>6, WriterMoves, ControlTypes DEF WriterInv

\* At least one row is asked of allocate_qrows.
LEMMA RowsLeftNat == WriterInv => RowsLeft \in Nat /\ RowsLeft > 0
<1> SUFFICES ASSUME WriterInv PROVE RowsLeft \in Nat /\ RowsLeft > 0
  OBVIOUS
<1>1. wr.nbrec \in Nat
  BY WriterTypes DEF Wrs
<1>2. wr.nbrec \div RowUnits \in Int
  BY <1>1, ConstType
<1> QED
  BY <1>2 DEF RowsLeft, Greater

\* allocate_qrows claims the free slots behind last, first excluded.
LEMMA AllocateQrowsInv == ASSUME IInv, AllocateQrows PROVE IInv'
<1>0. WriterInv /\ hdr \in Hdrs /\ QueueInv
  BY Parts, WriterTypes
<1>1. /\ SameRing /\ SameReader /\ SameSend /\ wr' = wr
      /\ dgOpened' = dgOpened /\ blockedWriter' = blockedWriter
  BY DEF AllocateQrows, ringVars, rdVars, sendVars, wrVars, SameRing,
     SameReader, SameSend
<1>2. /\ pc = "alloc" /\ pc' \in {"expire", "place"} /\ UNCHANGED readVars
      /\ ret' = ret /\ newRows' = newRows /\ dFirst' = dFirst /\ nts' = nts
  BY DEF AllocateQrows
<1>3. /\ dLast > 0 /\ dLast \in Nat /\ nts \in Nat /\ DOMAIN tsq \subseteq Nat
      /\ tsq \in [DOMAIN tsq -> Nat]
  BY <1>0, <1>2 DEF WriterInv, EvalInv, Evaluating, QueueInv, ChainType
<1>4. QueueInv' /\ dLast' > 0
  <2>1. CASE NeedDqd
    <3> DEFINE ts == dqd[dLast].ts
    <3>1. /\ dqd' = Append1(NewDqd(ts, hdr.frame % MfcMod))
          /\ tsq' = [tsq EXCEPT ![ts] = @ + 1] /\ dLast' = dLast + 1
      BY <2>1 DEF AllocateQrows
    <3>2. dLast \in Live
      BY <1>0, <1>3 DEF QueueInv, ChainType, ChainInv, Live
    <3>3. ts \in Nat
      BY <3>2, ChainFields DEF Dqds
    <3>4. hdr.frame % MfcMod \in 0 .. MfcMod - 1
      BY <1>0, ConstType DEF Hdrs
    <3> HIDE DEF ts
    <3>5. DOMAIN tsq' \subseteq Nat /\ tsq' \in [DOMAIN tsq' -> Nat]
      <4>1. tsq' = [t \in DOMAIN tsq |-> IF t = ts THEN tsq[t] + 1 ELSE tsq[t]]
        BY <3>1, <1>3
      <4>2. \A t \in DOMAIN tsq : tsq[t] \in Nat /\ tsq[t] + 1 \in Nat
        BY <1>3
      <4> QED
        BY <4>1, <4>2, <1>3
    <3>6. QueueInv'
      BY <3>1, <3>3, <3>4, <3>5, <1>1, <1>2, <1>3, AppendInv DEF SameReader
    <3> QED
      BY <3>1, <3>6, <1>3
  <2>2. CASE ~NeedDqd
    <3>1. dqd' = dqd /\ tsq' = tsq /\ dLast' = dLast
      BY <2>2 DEF AllocateQrows
    <3>2. SameChain
      BY <3>1, <1>2 DEF SameChain
    <3> QED
      BY <3>1, <3>2, <1>1, <1>3, SameQueue
  <2> QED
    BY <2>1, <2>2
<1>5. RowsLeft \in Nat
  BY <1>0, RowsLeftNat
<1>6. /\ first \in Nat /\ last \in Nat /\ last < TotalQrows /\ first < TotalQrows
      /\ full => first = last
  BY <1>0, ConstType DEF WriterInv, RingType, EvalInv
<1>7. /\ nreq' \in Nat /\ nfree' \in Nat /\ nfree' + nreq' <= RowsLeft
      /\ last + nfree' <= TotalQrows /\ (nfree' > 0 => ~full)
  <2>1. CASE ~full /\ last >= first
    <3>1. nfree' = Lesser(TotalQrows - last, RowsLeft) /\ nreq' = 0
      BY <2>1 DEF AllocateQrows
    <3> QED
      BY <3>1, <2>1, <1>5, <1>6, ConstType DEF Lesser
  <2>2. CASE ~(~full /\ last >= first)
    <3>1. nfree' = Lesser(first - last, RowsLeft) /\ nreq' = RowsLeft - nfree'
      BY <2>2 DEF AllocateQrows
    <3>2. first - last >= 0 /\ (full => first - last = 0)
      BY <2>2, <1>6
    <3> QED
      BY <3>1, <3>2, <1>5, <1>6, ConstType DEF Lesser
  <2> QED
    BY <2>1, <2>2
<1>8. RingType' /\ last' = last /\ full' = full /\ first' = first
  BY <1>0, <1>1 DEF WriterInv, RingType, SameRing
<1> QED
  BY <1>1, <1>2, <1>4, <1>7, <1>8, MakingRoom

\* No more rows are expired than are wanted, fit behind last or are held
LEMMA ExpirableBound ==
  ASSUME IInv, NEW d \in Live, NEW x \in Nat, IsExpirable(d, x), x > 0
  PROVE  /\ x <= nreq /\ last + nfree + x <= TotalQrows
         /\ x <= dqd[d].n /\ dqd[d].start + x <= TotalQrows
<1>1. /\ nreq \in Nat /\ nfree \in Nat /\ last \in Nat /\ dqd[d].n \in Nat
      /\ dqd[d].start \in Nat /\ dqd[d].start < TotalQrows
  <2>1. dqd[d] \in Dqds
    BY ChainFields
  <2>2. dqd[d].n \in Nat /\ dqd[d].start \in 0 .. TotalQrows - 1
    BY <2>1 DEF Dqds
  <2>3. last \in 0 .. TotalQrows - 1
    BY Parts DEF WriterInv, RingType
  <2> QED
    BY <2>2, <2>3, ControlTypes, ConstType
<1>2. x <= Expendable(d)
  <2>1. CASE Nonblock
    BY <2>1 DEF IsExpirable
  <2>2. CASE ~Nonblock
    <3>1. PICK m \in 0 .. Rows(d) :
             x = Lesser(Expendable(d), Greater(0, m - dqd[d].expired))
      BY <2>2 DEF IsExpirable
    <3>2. Expendable(d) \in Int /\ m - dqd[d].expired \in Int
      <4>1. dqd[d].expired \in Nat /\ Rows(d) \in Nat
        BY ChainFields DEF Dqds
      <4>2. m \in Int
        BY <4>1
      <4> QED
        BY <4>1, <4>2, <1>1, ConstType DEF Expendable, Lesser, Greater
    <3> QED
      BY <3>1, <3>2 DEF Lesser, Greater
  <2> QED
    BY <2>1, <2>2
<1> QED
  BY <1>1, <1>2, ConstType DEF Expendable, Lesser, Greater

\* Expiring rows makes room and frees no descriptor that a reader is on.
LEMMA ExpireRowsInv == ASSUME IInv, ExpireRows PROVE IInv'
<1>0. WriterInv /\ QueueInv
  BY Parts
<1>1. /\ last' = last /\ row' = row /\ SameReader /\ SameSend /\ wr' = wr
      /\ dgOpened' = dgOpened /\ blockedWriter' = blockedWriter
  BY DEF ExpireRows, rdVars, sendVars, wrVars, SameReader, SameSend
<1>2. pc = "expire" /\ UNCHANGED readVars /\ ret' = ret /\ newRows' = newRows
  BY DEF ExpireRows
<1>3. /\ ChainType /\ ChainInv /\ rd \in [Readers -> Ocbs] /\ RefCounts /\ RowsAccounted
  BY <1>0 DEF QueueInv
<1>4. /\ nfree + nreq <= RowsLeft /\ last + nfree <= TotalQrows /\ (nfree > 0 => ~full)
      /\ dLast > 0 /\ nreq \in Nat /\ nfree \in Nat
  BY <1>0, <1>2, ControlTypes DEF WriterInv, EvalInv, Evaluating
<1>5. /\ first \in 0 .. TotalQrows - 1 /\ last \in 0 .. TotalQrows - 1 /\ full \in BOOLEAN
      /\ row \in [0 .. TotalQrows - 1 -> Int]
  BY <1>0 DEF WriterInv, RingType
<1>6. PICK d \in Live : \E x \in 0 .. dqd[d].n :
        /\ Oldest(d) /\ IsExpirable(d, x)
        /\ IF x = 0
           THEN pc' = "place" /\ UNCHANGED <<first, full, chainVars, nreq, nfree>>
           ELSE Expire(d, x)
  BY DEF ExpireRows
<1>6a. PICK x \in 0 .. dqd[d].n :
        /\ Oldest(d) /\ IsExpirable(d, x)
        /\ IF x = 0
           THEN pc' = "place" /\ UNCHANGED <<first, full, chainVars, nreq, nfree>>
           ELSE Expire(d, x)
  BY <1>6
<1>7. dqd[d] \in Dqds
  BY ChainFields
<1>8. dqd[d].n \in Nat /\ dqd[d].expired \in Nat /\ dqd[d].start \in 0 .. TotalQrows - 1 /\ x \in Nat
  BY <1>7 DEF Dqds
<1>9. CASE x = 0
  <2>1. pc' = "place" /\ first' = first /\ full' = full /\ nreq' = nreq /\ nfree' = nfree
    BY <1>6a, <1>9
  <2>2. SameChain
    <3>1. UNCHANGED chainVars
      BY <1>6a, <1>9
    <3> QED
      BY <3>1 DEF chainVars, SameChain
  <2>3. QueueInv' /\ dLast' > 0
    BY <2>2, <1>1, <1>4, SameQueue DEF SameChain
  <2>4. RingType'
    BY <2>1, <1>1, <1>5 DEF RingType
  <2>5. pc' \in {"expire", "place"} /\ (full' => full /\ first' = first)
    BY <2>1
  <2>6. /\ nreq' \in Nat /\ nfree' \in Nat /\ nfree' + nreq' <= RowsLeft
        /\ last + nfree' <= TotalQrows /\ (nfree' > 0 => ~full')
    BY <2>1, <1>4
  <2> QED
    BY <1>1, <1>2, <2>3, <2>4, <2>5, <2>6, MakingRoom
<1>10. CASE x # 0
  <2> DEFINE s == SlotAfter(dqd[d].start, x)
             q == [dqd EXCEPT ![d].start = s, ![d].n = @ - x, ![d].expired = @ + x]
             spent == q[d].n = 0 /\ d < dLast
  <2>1. /\ first' = s /\ nfree' = nfree + x /\ nreq' = nreq - x
        /\ dLast' = dLast /\ nts' = nts
        /\ IF spent THEN \E f \in Live : HeadAfter(q, d, f) /\ FreeBefore(q, f)
                    ELSE FreeBefore(q, dFirst)
    BY <1>6a, <1>10 DEF Expire
  <2>2. full' = FALSE
    BY <1>6a, <1>10 DEF Expire
  <2>3. pc' \in {"expire", "place"}
    BY <1>6a, <1>10 DEF Expire
  <2>4. /\ x <= nreq /\ last + nfree + x <= TotalQrows
        /\ x <= dqd[d].n /\ dqd[d].start + x <= TotalQrows
    BY <1>6a, <1>8, <1>10, ExpirableBound
  <2>5. s \in 0 .. TotalQrows - 1
    BY <2>4, <1>8, ConstType DEF SlotAfter
  <2>6. dqd[d].n - x \in Nat /\ dqd[d].expired + x \in Nat
    BY <2>4, <1>8
  <2> HIDE DEF s
  <2>7. /\ DOMAIN q = Live
        /\ q[d] = [dqd[d] EXCEPT !.start = s, !.n = dqd[d].n - x, !.expired = dqd[d].expired + x]
        /\ \A e \in Live \ {d} : q[e] = dqd[e]
    BY <1>3, <1>7 DEF ChainType, Live, Dqds
  <2>8. q = [e \in Live |-> q[e]]
    BY <1>3 DEF ChainType, Live
  <2> HIDE DEF q
  <2>9. /\ q[d] \in Dqds /\ q[d].pos = dqd[d].pos /\ q[d].ref = dqd[d].ref
        /\ q[d].expired = dqd[d].expired + x /\ q[d].n = dqd[d].n - x
    BY <2>5, <2>6, <2>7, <1>7 DEF Dqds
  <2>10. ASSUME NEW e \in Live
         PROVE  /\ q[e] \in Dqds /\ q[e].pos = dqd[e].pos /\ q[e].ref = dqd[e].ref
                /\ q[e].expired + q[e].n = Rows(e)
    <3>1. CASE e = d
      BY <3>1, <2>9, <1>8 DEF Rows
    <3>2. CASE e # d
      BY <3>2, <2>7, ChainFields DEF Rows
    <3> QED
      BY <3>1, <3>2
  <2>11. q \in [Live -> Dqds]
    BY <2>8, <2>10
  <2>12. dFirst \in Live /\ dFirst .. dFirst - 1 = {}
    BY <1>3, <1>4 DEF ChainType, ChainInv, Live
  <2>13. PICK f \in Live : FreeBefore(q, f) /\ \A e \in dFirst .. f - 1 : q[e].ref = 0
    <3>1. CASE spent
      <4>1. PICK f \in Live : HeadAfter(q, d, f) /\ FreeBefore(q, f)
        BY <3>1, <2>1
      <4> QED
        BY <4>1, <2>12 DEF HeadAfter, Garbage
    <3>2. CASE ~spent
      BY <3>2, <2>1, <2>12
    <3> QED
      BY <3>1, <3>2
  <2>14. \A e \in Live : OnNext(e) = On(e)
    BY <1>1 DEF OnNext, On, SameReader
  <2>15. \A e \in Live : q[e].ref = Cardinality(OnNext(e))
    BY <2>10, <2>14, <1>3 DEF RefCounts
  <2>16. \A r \in Readers : rd'[r].dqd # 0 =>
           /\ rd'[r].dqd \in Live /\ rd'[r].n <= Rows(rd'[r].dqd)
           /\ rd'[r].got + rd'[r].missing = dqd[rd'[r].dqd].pos + rd'[r].n
    BY <1>1, <1>3 DEF SameReader, RefCounts, RowsAccounted
  <2>17. QueueInv'
    BY <1>0, <1>1, <1>3, <2>1, <2>10, <2>11, <2>13, <2>15, <2>16, ReadersKept
       DEF SameReader
  <2>18. RingType'
    <3>1. full' \in BOOLEAN
      BY <2>2
    <3> QED
      BY <3>1, <2>1, <2>5, <1>1, <1>5 DEF RingType
  <2>19. full' => full /\ first' = first
    BY <2>2
  <2>20. nfree' > 0 => ~full'
    BY <2>2
  <2>21. /\ nreq' \in Nat /\ nfree' \in Nat /\ nfree' + nreq' <= RowsLeft
         /\ last + nfree' <= TotalQrows
    <3>1. last \in Nat /\ RowsLeft \in Nat
      BY <1>0, <1>5, ConstType, RowsLeftNat
    <3> QED
      BY <3>1, <2>1, <2>4, <1>4, <1>8, ConstType
  <2>22. dLast' > 0 /\ pc \in {"alloc", "expire"}
    BY <2>1, <1>2, <1>4
  <2> QED
    BY <1>1, <1>2, <2>3, <2>17, <2>18, <2>19, <2>20, <2>21, <2>22, MakingRoom
<1> QED
  BY <1>9, <1>10

-----------------------------------------------------------------------------
(* The invariant, and what follows from it *)

\* Nothing changes.
LEMMA StutterInv == ASSUME IInv, UNCHANGED vars PROVE IInv'
<1>1. /\ UNCHANGED ringVars /\ UNCHANGED chainVars /\ UNCHANGED sendVars /\ UNCHANGED wrVars
      /\ UNCHANGED rdVars /\ pc' = pc /\ UNCHANGED evalVars /\ UNCHANGED readVars
  BY DEF vars
<1>2. SameRing /\ SameChain /\ SameSend /\ SameReader
  BY <1>1 DEF ringVars, chainVars, sendVars, rdVars, SameRing, SameChain,
     SameSend, SameReader
<1>3. wr' = wr /\ dgOpened' = dgOpened /\ blockedWriter' = blockedWriter
  BY <1>1 DEF wrVars
<1>4. ret' = ret /\ newRows' = newRows /\ nreq' = nreq /\ nfree' = nfree
  BY <1>1 DEF evalVars
<1>5. todo' = todo /\ rq' = rq /\ from' = from /\ nonblk' = nonblk
  BY <1>1 DEF readVars
<1>6. WriterInv /\ ReplyType /\ ControlType /\ ReaderInv
  BY Parts DEF ServerInv
<1>7. RingType'
  BY <1>2, <1>6 DEF WriterInv, RingType, SameRing
<1>8. WriterType'
  BY <1>2, <1>3, <1>6 DEF WriterInv, WriterType, SameSend
<1>9. EvalInv'
  BY <1>1, <1>2, <1>3, <1>4, <1>6 DEF WriterInv, EvalInv, SameRing, SameChain,
     Settled, WholeRows, RowsLeft
<1>10. PcInv'
  BY <1>1, <1>2, <1>3, <1>4, <1>6 DEF WriterInv, PcInv, SameSend, SameChain
<1>11. BlockFits'
  BY <1>2, <1>3, <1>6 DEF WriterInv, BlockFits, SameRing
<1>12. QueueInv'
  BY <1>2, SameQueue
<1>13. ReplyType'
  BY <1>2, <1>6 DEF ReplyType, SameReader
<1>14. ControlType'
  BY <1>1, <1>4, <1>5, <1>6 DEF ControlType
<1>15. ReaderInv'
  BY <1>1, <1>2, <1>5, <1>6 DEF ReaderInv, SameReader
<1> QED
  BY <1>7, <1>8, <1>9, <1>10, <1>11, <1>12, <1>13, <1>14, <1>15, NextParts
     DEF WriterInv, ServerInv

\* Every step of the handler.
LEMMA HandlerInv == ASSUME IInv, Handler PROVE IInv'
<1>1. CASE BadHeader
  <2>1. FailWrite /\ pc \in {"write", "hdr"}
    BY <1>1 DEF BadHeader
  <2> QED
    BY <2>1, FailWriteInv
<1>2. CASE ReadReply
  BY <1>2, ReplyPartialInv, ReplyInitInv, ReadBeforeInitInv, ReplyRowsInv,
     ReplyDeferInv,
     ReplyNextDqdInv, ReplyStarvedInv DEF ReadReply
<1> QED
  BY <1>1, <1>2, MsgReadChunkInv, InitHeaderInv, TstampHeaderInv, DataHeaderInv,
     ProcessTmInfoInv, CommitRowsInv, AllocateQrowsInv, ExpireRowsInv, PlaceRowsInv,
     EvalReturnInv, DoWriteReplyInv, DoWriteBlockInv, RunReadQueueInv, RunWriteQueueInv
     DEF Handler

\* IInv is inductive.
LEMMA NextInv == IInv /\ [Next]_vars => IInv'
<1> SUFFICES ASSUME IInv, [Next]_vars PROVE IInv'
  OBVIOUS
<1>1. CASE Writing
  BY <1>1, IoWriteInv DEF Writing
<1>2. CASE MsgReadFails
  <2>1. FailWrite /\ pc \in {"write", "hdr"}
    BY <1>2 DEF MsgReadFails
  <2> QED
    BY <2>1, FailWriteInv
<1>3. CASE \E r \in Readers : OpenReader(r) \/ IoNotify(r) \/ ReadRequest(r)
  BY <1>3, OpenReaderInv, IoNotifyInv, IoReadInv DEF ReadRequest
<1>4. CASE Terminated \/ UNCHANGED vars
  BY <1>4, StutterInv DEF Terminated
<1> QED
  BY <1>1, <1>2, <1>3, <1>4, OpenWriterInv, CloseWriterInv, HandlerInv,
     CloseReaderInv,
     ShutdownInv DEF Next, StayNext

\* The invariant holds in every state the server can reach.
THEOREM Invariance == Spec => []IInv
BY InitInv, NextInv, PTL DEF Spec

\* Every variable keeps its type: whatever the sizes of the ring, the rows and
\* the records, and however many readers there are, no index leaves the ring
\* and no count goes below zero.
THEOREM TypeCorrect == Spec => []TypeOK
<1>1. IInv => TypeOK
  BY DEF IInv
<1> QED
  BY <1>1, Invariance, PTL

\* dq_deref and read_reply keep ref_count equal to the number of open ocbs that
\* point to a descriptor, so no reader is left with a freed one.
THEOREM ReferencesCounted == Spec => []RefCounts
<1>1. IInv => RefCounts
  BY DEF IInv
<1> QED
  BY <1>1, Invariance, PTL

\* Nothing is lost in silence: what a reader was given and rows_missing add up
\* to its position in the stream, however the writer overtakes it.
THEOREM NothingLostInSilence == Spec => []RowsAccounted
<1>1. IInv => RowsAccounted
  BY DEF IInv
<1> QED
  BY <1>1, Invariance, PTL

-----------------------------------------------------------------------------
(* A blocking writer expires only what every reader has had *)

\* No row of a descriptor that stays is expired
ExpiresNothing ==
  \A d \in Live : d \in dFirst' .. dLast' => dqd'[d].expired = dqd[d].expired

\* Nothing happens to the chain.
LEMMA SameChainExpires == ASSUME UNCHANGED chainVars PROVE ExpiresNothing
BY DEF chainVars, ExpiresNothing

\* A new descriptor leaves the others as they are.
LEMMA AppendExpires ==
  ASSUME IInv, NEW new, dqd' = Append1(new) PROVE ExpiresNothing
<1>1. dFirst \in Nat /\ dLast \in Nat
  BY Parts DEF QueueInv, ChainType
<1>2. dqd' = [e \in dFirst .. dLast + 1 |-> IF e = dLast + 1 THEN new ELSE dqd[e]]
  BY DEF Append1
<1> QED
  BY <1>1, <1>2 DEF ExpiresNothing, Live

\* A reader that leaves a descriptor frees some and expires nothing.
LEMMA DerefExpires ==
  ASSUME IInv, NEW d \in Live, NEW u \in BOOLEAN, Deref(d, u) PROVE ExpiresNothing
<1>1. ChainType /\ ChainInv /\ dFirst \in Nat /\ dLast \in Nat /\ dLast > 0
  BY Parts DEF QueueInv, ChainType, Live
<1>2. PICK f \in Live : FreeBefore(Moved(d, u), f) /\ dLast' = dLast
  BY <1>1, DerefShape
<1>3. dqd' = [e \in f .. dLast |-> Moved(d, u)[e]] /\ dFirst' = f
  BY <1>2 DEF FreeBefore
<1>4. ASSUME NEW e \in Live PROVE Moved(d, u)[e].expired = dqd[e].expired
  <2>1. dqd[e] \in Dqds
    BY ChainFields
  <2> QED
    BY <2>1 DEF Moved, Dqds
<1> QED
  BY <1>2, <1>3, <1>4 DEF ExpiresNothing

\* Only allocate_qrows expires rows.
LEMMA OthersExpireNothing ==
  ASSUME IInv, [Next]_vars, ~ExpireRows PROVE ExpiresNothing
<1>1. CASE UNCHANGED chainVars
  BY <1>1, SameChainExpires
<1>2. CASE TstampHeader \/ ProcessTmInfo
  BY <1>2, AppendExpires DEF TstampHeader, ProcessTmInfo, QueueTstamp
<1>3. CASE AllocateQrows
  <2>1. CASE NeedDqd
    BY <1>3, <2>1, AppendExpires DEF AllocateQrows
  <2>2. CASE ~NeedDqd
    BY <1>3, <2>2 DEF AllocateQrows, ExpiresNothing
  <2> QED
    BY <2>1, <2>2
<1>4. CASE CommitRows
  <2>1. PICK k \in 0 .. TotalQrows : dqd' = [dqd EXCEPT ![dLast].n = @ + k]
    BY <1>4 DEF CommitRows
  <2>2. \A e \in Live : dqd[e] \in Dqds /\ e \in DOMAIN dqd
    BY ChainFields, Parts DEF QueueInv, ChainType, Live
  <2> QED
    BY <2>1, <2>2 DEF ExpiresNothing, Dqds
<1>5. CASE ReplyInit
  <2>1. dqd' = [dqd EXCEPT ![dFirst].ref = @ + 1]
    BY <1>5 DEF ReplyInit
  <2>2. \A e \in Live : dqd[e] \in Dqds /\ e \in DOMAIN dqd
    BY ChainFields, Parts DEF QueueInv, ChainType, Live
  <2> QED
    BY <2>1, <2>2 DEF ExpiresNothing, Dqds
<1>6. CASE ReplyNextDqd
  <2>1. pc = "read" /\ rd[rq].dqd > 0 /\ Deref(rd[rq].dqd, TRUE)
    BY <1>6 DEF ReplyNextDqd, Attached, Reading
  <2>2. rd[rq].dqd \in Live
    BY <2>1, Served DEF Ocbs
  <2> QED
    BY <2>1, <2>2, DerefExpires
<1>7. ASSUME NEW r \in Readers, CloseReader(r) PROVE ExpiresNothing
  <2>1. CASE rd[r].dqd # 0
    <3>1. rd[r].dqd \in Live /\ Deref(rd[r].dqd, FALSE)
      BY <1>7, <2>1, Parts DEF CloseReader, QueueInv, RefCounts
    <3> QED
      BY <3>1, DerefExpires
  <2>2. CASE rd[r].dqd = 0
    BY <1>7, <2>2, SameChainExpires DEF CloseReader
  <2> QED
    BY <2>1, <2>2
<1>8. CASE UNCHANGED vars \/ Terminated \/ Shutdown \/ OpenWriter \/ CloseWriter \/ Writing
           \/ MsgReadFails \/ BadHeader
  BY <1>8, SameChainExpires
     DEF vars, Terminated, Shutdown, OpenWriter, CloseWriter, Writing, IoWrite,
         MsgReadFails, BadHeader, FailWrite
<1>9. CASE MsgReadChunk \/ InitHeader \/ DataHeader \/ PlaceRows \/ EvalReturn
           \/ DoWriteReply \/ DoWriteBlock \/ RunReadQueue \/ RunWriteQueue
  BY <1>9, SameChainExpires
     DEF MsgReadChunk, InitHeader, DataHeader, PlaceRows, EvalReturn, DoWriteReply,
         DoWriteBlock, RunReadQueue, RunWriteQueue
<1>10. CASE ReplyPartial \/ ReadBeforeInit \/ ReplyRows \/ ReplyDefer \/ ReplyStarved
  BY <1>10, SameChainExpires
     DEF ReplyPartial, ReadBeforeInit, ReplyRows, ReplyDefer, ReplyStarved
<1>11. CASE \E r \in Readers : OpenReader(r) \/ IoNotify(r) \/ ReadRequest(r)
  BY <1>11, SameChainExpires DEF OpenReader, IoNotify, ReadRequest, IoRead
<1> QED
  BY <1>2, <1>3, <1>4, <1>5, <1>6, <1>7, <1>8, <1>9, <1>10, <1>11
     DEF Next, StayNext, Handler, ReadReply

\* For a writer that blocks, min_reader() bounds what may be expired: rows of the
\* head of the chain only, and only those that each of its readers has had.
LEMMA MinReaderBounds ==
  ASSUME IInv, ~Nonblock, NEW d \in Live, NEW x \in Nat, x > 0, IsExpirable(d, x)
  PROVE  d = dFirst /\ \A r \in On(d) : dqd[d].expired + x <= rd[r].n
<1>1. /\ nreq \in Nat /\ nfree \in Nat /\ last \in Int /\ dqd[d].n \in Nat
      /\ dqd[d].start \in Int /\ dqd[d].expired \in Nat /\ Rows(d) \in Nat
  <2>1. dqd[d] \in Dqds /\ Rows(d) \in Nat
    BY ChainFields
  <2>2. last \in Int
    BY Parts DEF WriterInv, RingType
  <2> QED
    BY <2>1, <2>2, ControlTypes DEF Dqds
<1>2. PICK m \in 0 .. Rows(d) :
        IsMinReader(d, m) /\ x = Lesser(Expendable(d), Greater(0, m - dqd[d].expired))
  BY DEF IsExpirable
<1>3. Expendable(d) \in Int
  BY <1>1, ConstType DEF Expendable, Lesser, Greater
<1>4. m \in Int /\ x <= m - dqd[d].expired
  BY <1>1, <1>2, <1>3 DEF Lesser, Greater
<1>5. d = dFirst
  BY <1>1, <1>2, <1>4 DEF IsMinReader
<1>6. ASSUME NEW r \in On(d) PROVE dqd[d].expired + x <= rd[r].n
  <2>1. m <= rd[r].n
    BY <1>2, <1>5 DEF IsMinReader
  <2>2. rd[r].n \in Nat
    BY Parts DEF On, QueueInv, Ocbs
  <2> QED
    BY <1>1, <1>4, <2>1, <2>2
<1> QED
  BY <1>5, <1>6

\* One turn of allocate_qrows's loop takes nothing that is unread.
LEMMA ExpireKeepsUnread == ASSUME IInv, ExpireRows PROVE KeepsUnread
<1> SUFFICES ASSUME ~Nonblock, NEW r \in Readers, NEW e \in Live, rd[r].dqd # 0,
                    e >= rd[r].dqd, e \in dFirst' .. dLast'
             PROVE  LET had == IF e = rd[r].dqd THEN rd[r].n ELSE 0
                    IN  Greater(0, dqd'[e].expired - had)
                          <= Greater(0, dqd[e].expired - had)
  BY DEF KeepsUnread
<1>1. rd[r].dqd \in Live /\ rd[r].n \in Nat /\ dFirst \in Nat /\ dLast \in Nat
  BY Parts DEF QueueInv, RefCounts, Ocbs, ChainType
<1>2. PICK d \in Live : \E x \in 0 .. dqd[d].n :
        /\ IsExpirable(d, x)
        /\ IF x = 0 THEN UNCHANGED chainVars ELSE Expire(d, x)
  BY DEF ExpireRows, chainVars
<1>3. PICK x \in 0 .. dqd[d].n :
        IsExpirable(d, x) /\ IF x = 0 THEN UNCHANGED chainVars ELSE Expire(d, x)
  BY <1>2
<1>4. dqd[d] \in Dqds /\ dqd[d].n \in Nat /\ dqd[d].expired \in Nat /\ x \in Nat
      /\ dqd[e].expired \in Nat
  BY ChainFields DEF Dqds
<1>5. CASE x = 0
  BY <1>1, <1>3, <1>4, <1>5 DEF chainVars, Greater
<1>6. CASE x # 0
  <2> DEFINE q == [dqd EXCEPT ![d].start = SlotAfter(dqd[d].start, x),
                              ![d].n = @ - x, ![d].expired = @ + x]
  <2>1. \E f \in Live : FreeBefore(q, f)
    <3>1. dFirst \in Live
      BY <1>1, Parts DEF QueueInv, ChainInv, ChainType, Live
    <3> QED
      BY <3>1, <1>3, <1>6 DEF Expire
  <2>2. dqd'[e] = q[e]
    <3>1. dLast' = dLast
      BY <1>3, <1>6 DEF Expire
    <3> QED
      BY <2>1, <3>1 DEF FreeBefore
  <2>3. DOMAIN dqd = Live
    BY Parts DEF QueueInv, ChainType, Live
  <2>4. CASE e # d
    BY <1>1, <1>4, <2>2, <2>3, <2>4 DEF Greater
  <2>5. CASE e = d
    <3>1. d = dFirst /\ \A p \in On(d) : dqd[d].expired + x <= rd[p].n
      BY <1>3, <1>4, <1>6, MinReaderBounds
    <3>2. rd[r].dqd = d /\ dqd[d].expired + x <= rd[r].n
      BY <1>1, <2>5, <3>1 DEF Live, On
    <3>3. dqd'[d].expired = dqd[d].expired + x
      BY <2>2, <2>3, <2>5, <1>4 DEF Dqds
    <3> QED
      BY <1>1, <1>4, <2>5, <3>2, <3>3 DEF Greater
  <2> QED
    BY <2>4, <2>5
<1> QED
  BY <1>5, <1>6

\* No step of a blocking writer's server overwrites what a reader has yet to read.
LEMMA StepKeepsUnread == IInv /\ [Next]_vars => [KeepsUnread]_vars
<1> SUFFICES ASSUME IInv, [Next]_vars PROVE KeepsUnread
  OBVIOUS
<1>1. CASE ExpireRows
  BY <1>1, ExpireKeepsUnread
<1>2. CASE ~ExpireRows
  <2>1. ExpiresNothing
    BY <1>2, OthersExpireNothing
  <2>2. ASSUME NEW r \in Readers, NEW d \in Live, rd[r].dqd # 0
        PROVE  rd[r].n \in Nat /\ dqd[d].expired \in Nat
    BY ChainFields, Parts DEF QueueInv, Ocbs, Dqds
  <2> QED
    BY <2>1, <2>2 DEF KeepsUnread, ExpiresNothing, Greater
<1> QED
  BY <1>1, <1>2

\* A writer that blocks (playback) never overwrites a row that a reader attached
\* to the queue has yet to read, however many readers there are and wherever
\* each of them is: what min_reader() returns in allocate_qrows bounds n_expire.
THEOREM NothingUnreadOverwritten == Spec => UnreadRowsKept
BY Invariance, StepKeepsUnread, PTL DEF Spec, UnreadRowsKept

-----------------------------------------------------------------------------
(* End of file *)

\* The reply is there only until the server goes on down its queues
EofInv ==
  reply.kind = "EOF" =>
    pc \in {"readq", "writeq"} /\ dgOpened = 2 /\ ~Deliverable(reply.to)

\* A step from elsewhere that leaves the reply alone.
LEMMA NoEofKept ==
  ASSUME EofInv, pc \notin {"readq", "writeq"}, reply' = reply PROVE EofInv'
BY DEF EofInv

\* A step that replies with something else.
LEMMA OtherReply == ASSUME reply'.kind # "EOF" PROVE EofInv'
BY DEF EofInv

\* Give() never replies with the end of the file.
LEMMA GiveIsNoEof ==
  ASSUME NEW o, NEW k, NEW mf, NEW rows, NEW u, Give(o, k, mf, rows, u), k # "EOF"
  PROVE  EofInv'
<1>1. reply' = [to |-> rq, kind |-> k, mf |-> mf, rows |-> rows]
  BY DEF Give, Answer
<1> QED
  BY <1>1, OtherReply

\* enqueue_read() replies with the end of the file to a reader that has nothing left.
LEMMA EnqueueEof ==
  ASSUME IInv, EofInv, pc = "read", NEW o \in Ocbs, EnqueueRead(o), SameChain,
         dgOpened' = dgOpened, o.part = 0, o.dqd \in {0, dLast},
         o.dqd = 0 => dLast = 0,
         o.dqd > 0 /\ dgOpened = 2 => o.n = Rows(o.dqd)
  PROVE  EofInv'
<1>0. PICK r \in Readers : r = rq
  BY Served
<1>1. rd \in [Readers -> Ocbs]
  BY Parts DEF QueueInv
<1>2. pc' \in {"readq", "writeq"}
  BY DEF EnqueueRead, ReplyDone
<1>3. CASE dgOpened = 2
  <2>1. rd' = [rd EXCEPT ![rq] = [o EXCEPT !.q = 0, !.max = 0]]
    BY <1>3 DEF EnqueueRead
  <2>2. reply' = [to |-> r, kind |-> "EOF", mf |-> 0, rows |-> <<>>]
    BY <1>0, <1>3 DEF EnqueueRead, Answer
  <2>3. rd'[r].part = 0 /\ rd'[r].dqd = o.dqd /\ rd'[r].n = o.n
    BY <1>0, <1>1, <2>1 DEF Ocbs
  <2>4. dLast \in Nat /\ dLast' = dLast /\ dqd' = dqd /\ o.dqd \in Nat /\ o.n \in Nat
    BY Parts DEF SameChain, QueueInv, ChainType, Ocbs
  <2>5. CASE o.dqd = 0
    BY <1>2, <1>3, <2>2, <2>3, <2>4, <2>5 DEF EofInv, Deliverable
  <2>6. CASE o.dqd > 0
    <3>1. o.dqd = dLast /\ dLast \in Live
      BY <2>4, <2>6, Parts DEF QueueInv, ChainInv, ChainType, Live
    <3>2. dqd[dLast] \in Dqds
      BY <3>1, ChainFields
    <3>3. dqd[dLast].n - Greater(0, o.n - dqd[dLast].expired) = 0
      BY <1>3, <2>6, <3>1, <3>2 DEF Rows, Greater, Dqds
    <3>4. RowsReady(r)' = 0
      BY <2>3, <2>4, <3>1, <3>3 DEF RowsReady
    <3>5. dLast + 1 .. dLast = {}
      BY <2>4
    <3>6. ~Deliverable(r)'
      BY <2>3, <2>4, <2>6, <3>1, <3>4, <3>5 DEF Deliverable
    <3> QED
      BY <1>2, <1>3, <2>2, <3>6 DEF EofInv
  <2> QED
    BY <2>4, <2>5, <2>6
<1>4. CASE dgOpened # 2
  <2>1. CASE nonblk
    BY <1>4, <2>1, OtherReply DEF EnqueueRead, Answer
  <2>2. CASE ~nonblk
    BY <1>4, <2>2, NoEofKept DEF EnqueueRead
  <2> QED
    BY <2>1, <2>2
<1> QED
  BY <1>3, <1>4

\* read_reply().
LEMMA ReadReplyEof == ASSUME IInv, EofInv, ReadReply PROVE EofInv'
<1>0. pc = "read"
  BY DEF ReadReply, ReplyPartial, ReplyInit, ReadBeforeInit, ReplyRows, ReplyDefer,
         ReplyNextDqd, ReplyStarved, Attached, Reading
<1>1. CASE ReplyPartial \/ ReplyInit \/ ReplyRows
  BY <1>1, GiveIsNoEof DEF ReplyPartial, ReplyInit, ReplyRows
<1>2. CASE ReplyNextDqd
  <2>1. CASE dqd[rd[rq].dqd].ts # dqd[rd[rq].dqd + 1].ts
    BY <1>2, <2>1, GiveIsNoEof DEF ReplyNextDqd
  <2>2. CASE dqd[rd[rq].dqd].ts = dqd[rd[rq].dqd + 1].ts
    BY <1>0, <1>2, <2>2, NoEofKept DEF ReplyNextDqd
  <2> QED
    BY <2>1, <2>2
<1>3. CASE ReadBeforeInit
  <2>1. SameChain /\ dgOpened' = dgOpened
    BY <1>3 DEF ReadBeforeInit, chainVars, wrVars, SameChain
  <2>2. /\ EnqueueRead(rd[rq]) /\ rd[rq].part = 0 /\ rd[rq].dqd = 0 /\ dLast = 0
    BY <1>3 DEF ReadBeforeInit
  <2> QED
    BY <1>0, <2>1, <2>2, Served, EnqueueEof
<1>4. CASE ReplyDefer \/ ReplyStarved
  <2>1. SameChain /\ dgOpened' = dgOpened
    BY <1>4 DEF ReplyDefer, ReplyStarved, chainVars, wrVars, SameChain
  <2>2. /\ EnqueueRead(CaughtUp) /\ rd[rq].part = 0 /\ rd[rq].dqd > 0
        /\ rd[rq].dqd = dLast /\ (Ready = 0 \/ dgOpened < 2)
    BY <1>4 DEF ReplyDefer, ReplyStarved, Attached, WantsMore
  <2>3. CaughtUp \in Ocbs /\ CaughtUp.dqd = rd[rq].dqd
    BY <1>0, <2>2, CaughtUpType
  <2>4. CaughtUp.part = 0
    BY <1>0, <2>2, Served DEF CaughtUp, Ocbs
  <2>5. dgOpened = 2 => CaughtUp.n = Rows(CaughtUp.dqd)
    <3>1. CaughtUp.n \in Nat /\ rd[rq].dqd \in Live
      BY <1>0, <2>2, <2>3, Served DEF Ocbs
    <3>2. Rows(rd[rq].dqd) \in Nat
      BY <3>1, ChainFields
    <3> QED
      BY <2>2, <2>3, <3>1, <3>2 DEF Ready
  <2> QED
    BY <1>0, <2>1, <2>2, <2>3, <2>4, <2>5, EnqueueEof
<1> QED
  BY <1>1, <1>2, <1>3, <1>4 DEF ReadReply

\* Every step of the server.
LEMMA EofStep == IInv /\ EofInv /\ [Next]_vars => EofInv'
<1> SUFFICES ASSUME IInv, EofInv, [Next]_vars PROVE EofInv'
  OBVIOUS
<1>1. CASE RunReadQueue \/ RunWriteQueue
  BY <1>1, OtherReply DEF RunReadQueue, RunWriteQueue, NoReply
<1>2. CASE ReadReply
  BY <1>2, ReadReplyEof
<1>3. CASE OpenWriter \/ CloseWriter \/ Writing \/ MsgReadFails \/ BadHeader
           \/ InitHeader \/ TstampHeader \/ DataHeader \/ ProcessTmInfo \/ MsgReadChunk
  BY <1>3, NoEofKept
     DEF OpenWriter, CloseWriter, Writing, IoWrite, MsgReadFails, BadHeader, FailWrite,
         InitHeader, TstampHeader, DataHeader, ProcessTmInfo, MsgReadChunk, rdVars
<1>4. CASE CommitRows \/ AllocateQrows \/ ExpireRows \/ PlaceRows \/ EvalReturn
           \/ DoWriteReply \/ DoWriteBlock \/ Shutdown
  BY <1>4, NoEofKept
     DEF CommitRows, AllocateQrows, ExpireRows, PlaceRows, EvalReturn, DoWriteReply,
         DoWriteBlock, Shutdown, rdVars
<1>5. ASSUME NEW r \in Readers,
             OpenReader(r) \/ CloseReader(r) \/ IoNotify(r) \/ ReadRequest(r)
      PROVE  EofInv'
  BY <1>5, NoEofKept DEF OpenReader, CloseReader, IoNotify, ReadRequest, IoRead
<1>6. CASE Terminated \/ UNCHANGED vars
  BY <1>6 DEF Terminated, vars, ringVars, chainVars, wrVars, rdVars, EofInv, Deliverable,
              RowsReady
<1> QED
  BY <1>1, <1>2, <1>3, <1>4, <1>5, <1>6 DEF Next, StayNext, Handler

\* read_reply and enqueue_read end a reader's stream only after the writer has
\* closed and when the reader has had every row and time stamp there is, for
\* any number of readers at any places.
THEOREM EndIsTheEnd == Spec => []EofMeansDrained
<1>1. Init => EofInv
  BY DEF Init, EofInv, NoReply
<1>2. EofInv => EofMeansDrained
  BY DEF EofInv, EofMeansDrained
<1> QED
  BY <1>1, <1>2, EofStep, Invariance, PTL DEF Spec

-----------------------------------------------------------------------------
(* The stream of records *)

\* What a step leaves of the writer's ocb
SameCounts ==
  /\ wr'.state = wr.state /\ wr'.nbdata = wr.nbdata /\ wr'.nbmsg = wr.nbmsg
  /\ wr'.nbrec = wr.nbrec /\ wr'.offq = wr.offq
  /\ wr'.pending = wr.pending \/ (~wr'.pending /\ wr.nbmsg = 0)

SameStream == SameCounts /\ hdr' = hdr /\ left' = left /\ dLast' = dLast

OutOfEval == Waiting \cup {"write"}

\* The server waits or reads on.
LEMMA StreamWaits ==
  ASSUME StreamInv, RoomFound, SameStream, pc \in OutOfEval, pc' \in OutOfEval,
         ret' = "write", Nonblock => ~blockedWriter'
  PROVE  StreamInv' /\ RoomFound'
<1>1. StreamInv'
  BY DEF StreamInv, SameStream, SameCounts, OutOfEval, Waiting, Busy, Evaluating,
         AfterHeader, HeaderRead, FirstRows, InfoRead, RowsRead, Outstanding
<1>2. RoomFound'
  BY DEF RoomFound, SameStream, SameCounts, OutOfEval, Waiting, Busy, Evaluating
<1> QED
  BY <1>1, <1>2

\* The lengths of the records.
LEMMA RecordLengths ==
  ASSUME NEW h \in Hdrs
  PROVE  /\ h.kind = "DATA" => RecUnits(h) = 1 + Units(h.n)
         /\ h.kind = "INIT" => RecUnits(h) = 3
         /\ h.kind \notin {"DATA", "INIT"} => RecUnits(h) = 2
         /\ h.n \in Nat /\ Units(h.n) \in Nat /\ RecUnits(h) \in Nat
         /\ h.n > 0 => Units(h.n) > 0
BY UnitsNat DEF RecUnits, Hdrs, DataHdr, InitUnits, HdrUnits

\* A client writes on, or begins a record.
LEMMA IoWriteStream ==
  ASSUME Labelling, IInv, StreamInv, RoomFound,
         NEW h \in NextRecs \cup {hdr}, NEW nb \in 1 .. RecUnits(h), IoWrite(h, nb)
  PROVE  StreamInv' /\ RoomFound'
<1>0. wr \in Wrs /\ hdr \in Hdrs /\ left \in Nat /\ h \in Hdrs /\ WriterInv
  BY Parts, WriterTypes, NextRecType
<1>1. /\ pc = "idle" /\ ~wr.pending /\ pc' = "write" /\ hdr' = h /\ dLast' = dLast
      /\ ret' = ret /\ ~blockedWriter' /\ nfree' = nfree
      /\ IF left > 0 THEN h = hdr ELSE h \in NextRecs
      /\ nb \in 1 .. IF left > 0 THEN left ELSE RecUnits(h)
      /\ left' = (IF left > 0 THEN left ELSE RecUnits(h)) - nb
      /\ wr' = [wr EXCEPT !.nbmsg = nb, !.pending = TRUE]
  BY DEF IoWrite, chainVars, evalVars
<1>2. /\ wr'.state = wr.state /\ wr'.nbdata = wr.nbdata /\ wr'.nbmsg = nb
      /\ wr'.nbrec = wr.nbrec /\ wr'.offq = wr.offq /\ wr'.pending
  BY <1>0, <1>1 DEF Wrs
<1>3. /\ wr.nbdata \in Nat /\ wr.nbrec \in Nat /\ wr.nbmsg = 0 /\ nb \in Nat
      /\ RecUnits(h) \in Nat /\ RecUnits(hdr) \in Nat /\ wr.offq \in Nat
  BY <1>0, <1>1, RecordLengths DEF Wrs, StreamInv
<1>4. CASE left > 0
  <2>1. hdr' = hdr /\ Outstanding' = Outstanding
    BY <1>0, <1>1, <1>2, <1>3, <1>4 DEF Outstanding
  <2>2. StreamInv'
    BY <1>1, <1>2, <1>3, <2>1
       DEF StreamInv, Busy, Evaluating, AfterHeader, HeaderRead, FirstRows, InfoRead,
           RowsRead
  <2>3. RoomFound'
    BY <1>1, <1>2 DEF StreamInv, RoomFound, Busy, Evaluating, HdrUnits
  <2> QED
    BY <2>2, <2>3
<1>5. CASE left = 0
  <2>1. Outstanding = 0 /\ Outstanding' = RecUnits(h)
    BY <1>0, <1>1, <1>2, <1>3, <1>5 DEF Outstanding
  <2>2. wr.state # "INFO" /\ wr.state # "DATA"
    <3>1. wr.state # "DATA"
      BY <1>1, <1>3, <2>1 DEF StreamInv, RowsRead, Busy, Evaluating
    <3>2. wr.state = "INFO" => wr.nbdata = 0
      BY <2>1 DEF StreamInv, InfoRead
    <3>3. wr.nbdata = 0 /\ wr.state = "INFO" => FALSE
      BY <1>0, <1>1, <3>2 DEF WriterInv, EvalInv, Settled, Waiting, StreamInv, InfoRead
    <3> QED
      BY <3>1, <3>2, <3>3
  <2>3. ~AfterHeader
    <3>1. CASE Nonblock
      BY <1>1, <3>1 DEF RoomFound, AfterHeader, Busy, Evaluating
    <3>2. CASE RowUnits = 2
      BY <2>1, <3>2, <1>0 DEF StreamInv, FirstRows, Excess, HdrUnits, DataHdr, Units, Hdrs
    <3> QED
      BY <3>1, <3>2 DEF Labelling
  <2>4. wr.state = "HDR" /\ wr.nbdata = HdrUnits
    <3>1. wr.state = "HDR" /\ HeaderRead
      BY <1>0, <2>2, <2>3 DEF StreamInv, Wrs
    <3>2. RecUnits(hdr) >= 2 /\ wr.nbdata # 0
      <4>1. wr.nbdata # 0
        BY <1>1, <2>3, <3>1 DEF AfterHeader
      <4> QED
        BY <4>1, <1>0, RecordLengths DEF StreamInv, Hdrs
    <3> QED
      BY <1>3, <2>1, <3>1, <3>2 DEF HeaderRead, HdrUnits
  <2>5. h.kind = "INIT" => dLast = 0
    BY <1>0, <1>1, <1>5, TMbfrAssumption DEF NextRecs
  <2>6. h.kind = "DATA" => h.n > 0
    BY <1>0, <1>1, <1>5, TMbfrAssumption DEF NextRecs
  <2>7. HeaderRead' /\ ~AfterHeader'
    BY <1>1, <1>2, <1>3, <2>1, <2>4, <2>5
       DEF HeaderRead, AfterHeader, HdrUnits, Busy, Evaluating
  <2>8. StreamInv'
    BY <1>1, <1>2, <2>4, <2>6, <2>7 DEF StreamInv, Busy, Evaluating
  <2>9. RoomFound'
    BY <1>1, <1>2, <2>4 DEF StreamInv, RoomFound, Busy, Evaluating
  <2> QED
    BY <2>8, <2>9
<1> QED
  BY <1>0, <1>4, <1>5

\* A chunk of the message is read.
LEMMA MsgReadChunkStream ==
  ASSUME IInv, StreamInv, RoomFound, MsgReadChunk PROVE StreamInv' /\ RoomFound'
<1> DEFINE nb == Lesser(wr.nbmsg, wr.nbdata)
           data == IF wr.state = "DATA" THEN nb ELSE 0
<1>0. wr \in Wrs /\ hdr \in Hdrs /\ left \in Nat /\ WriterInv
  BY Parts, WriterTypes
<1>1. /\ pc = "write" /\ wr.nbmsg > 0 /\ wr.nbdata > 0 /\ hdr' = hdr /\ dLast' = dLast
      /\ left' = left /\ ret' = ret /\ blockedWriter' = blockedWriter /\ nfree' = nfree
      /\ pc' = IF nb < wr.nbdata THEN "write"
               ELSE IF wr.state = "DATA" THEN "eval"
               ELSE IF wr.state = "HDR" THEN "hdr" ELSE "info"
      /\ wr' = [wr EXCEPT !.nbdata = wr.nbdata - nb, !.nbmsg = wr.nbmsg - nb,
                          !.nbrec = wr.nbrec - data, !.offq = wr.offq + data]
  BY DEF MsgReadChunk, Received, chainVars, sendVars, evalVars
<1>2. /\ wr.nbmsg \in Nat /\ wr.nbdata \in Nat /\ wr.nbrec \in Nat /\ wr.offq \in Nat
      /\ wr.state \in {"HDR", "INFO", "DATA"} /\ wr.pending \in BOOLEAN
  BY <1>0 DEF Wrs
<1>3. /\ nb \in Nat /\ nb > 0 /\ nb <= wr.nbdata /\ nb <= wr.nbmsg
      /\ (wr.state = "DATA" => data = nb) /\ (wr.state # "DATA" => data = 0)
  BY <1>1, <1>2 DEF Lesser
<1> HIDE DEF nb, data
<1>4. /\ wr'.state = wr.state /\ wr'.nbdata = wr.nbdata - nb /\ wr'.nbmsg = wr.nbmsg - nb
      /\ wr'.nbrec = wr.nbrec - data /\ wr'.offq = wr.offq + data /\ wr'.pending = wr.pending
  BY <1>0, <1>1 DEF Wrs
<1>5. Outstanding' = Outstanding - nb /\ Outstanding >= nb /\ Outstanding \in Nat
  BY <1>0, <1>1, <1>2, <1>3, <1>4 DEF Outstanding
<1>6. ~AfterHeader /\ ret = "write" /\ wr.pending
  BY <1>1, <1>2 DEF AfterHeader, Busy, Evaluating, StreamInv
<1>7. CASE wr.state = "HDR"
  <2>1. /\ Outstanding = RecUnits(hdr) - HdrUnits + wr.nbdata
        /\ hdr.kind = "INIT" => dLast = 0
    BY <1>3, <1>5, <1>6, <1>7 DEF StreamInv, HeaderRead
  <2>2. RecUnits(hdr) \in Nat
    BY <1>0, RecordLengths
  <2>3. HeaderRead' /\ ~AfterHeader' /\ pc' \in {"write", "hdr"}
    BY <1>1, <1>2, <1>3, <1>4, <1>5, <1>7, <2>1, <2>2
       DEF HeaderRead, AfterHeader, Busy, Evaluating, HdrUnits, RecUnits
  <2> QED
    BY <1>1, <1>2, <1>3, <1>4, <1>6, <1>7, <2>3
       DEF StreamInv, RoomFound, Busy, Evaluating
<1>8. CASE wr.state = "INFO"
  <2>1. InfoRead' /\ ~AfterHeader' /\ pc' \in {"write", "info"}
    BY <1>1, <1>2, <1>3, <1>4, <1>5, <1>8 DEF StreamInv, InfoRead, AfterHeader
  <2> QED
    BY <1>1, <1>2, <1>3, <1>4, <1>6, <1>8, <2>1
       DEF StreamInv, RoomFound, Busy, Evaluating
<1>9. CASE wr.state = "DATA"
  <2>1. RowsRead
    BY <1>9 DEF StreamInv
  <2>2. wr.nbdata <= wr.nbrec
    BY <1>0, <1>9 DEF WriterInv, BlockFits
  <2>3. RowsRead'
    BY <1>0, <1>1, <1>2, <1>3, <1>4, <1>5, <1>6, <1>9, <2>1, <2>2 DEF RowsRead
  <2>4. ~AfterHeader' /\ pc' \in {"write", "eval"}
    BY <1>1, <1>4, <1>9 DEF AfterHeader
  <2> QED
    BY <1>1, <1>2, <1>3, <1>4, <1>6, <1>9, <2>3, <2>4
       DEF StreamInv, RoomFound, Busy, Evaluating
<1> QED
  BY <1>2, <1>7, <1>8, <1>9

\* The write ends in an error.
LEMMA FailWriteStream ==
  ASSUME IInv, StreamInv, RoomFound, FailWrite PROVE StreamInv' /\ RoomFound'
<1>0. wr \in Wrs
  BY Parts, WriterTypes
<1>1. /\ pc' = "idle" /\ ret' = "write" /\ left' = 0 /\ hdr' = hdr
      /\ blockedWriter' = blockedWriter
      /\ wr' = HdrState([wr EXCEPT !.nbmsg = 0, !.pending = FALSE])
  BY DEF FailWrite, Return
<1>2. wr'.state = "HDR" /\ wr'.nbdata = 2 /\ wr'.nbmsg = 0
  BY <1>0, <1>1 DEF Wrs, HdrState, HdrUnits
<1>3. HeaderRead' /\ ~AfterHeader'
  BY <1>1, <1>2 DEF HeaderRead, AfterHeader, Outstanding, Busy, Evaluating, HdrUnits
<1> QED
  BY <1>1, <1>2, <1>3 DEF StreamInv, RoomFound, Busy, Evaluating

\* What is known when a header is complete.
LEMMA HeaderComplete ==
  ASSUME IInv, StreamInv, pc = "hdr"
  PROVE  /\ wr \in Wrs /\ hdr \in Hdrs /\ wr.state = "HDR" /\ wr.nbdata = 0 /\ ret = "write"
         /\ Outstanding = RecUnits(hdr) - HdrUnits /\ RecUnits(hdr) \in Nat
         /\ hdr.kind = "INIT" => dLast = 0
<1>1. wr \in Wrs /\ hdr \in Hdrs /\ wr.nbdata = 0
  BY Parts, WriterTypes DEF WriterInv, PcInv
<1>2. ~AfterHeader /\ RecUnits(hdr) \in Nat
  BY <1>1, RecordLengths DEF AfterHeader, Busy, Evaluating
<1> QED
  BY <1>1, <1>2 DEF StreamInv, HeaderRead, Busy, Evaluating, HdrUnits

\* The header of an INIT record.
LEMMA InitHeaderStream ==
  ASSUME IInv, StreamInv, RoomFound, InitHeader PROVE StreamInv' /\ RoomFound'
<1>1. /\ pc = "hdr" /\ hdr.kind = "INIT" /\ pc' = "write" /\ ret' = ret /\ dLast' = dLast
      /\ hdr' = hdr /\ left' = left /\ blockedWriter' = blockedWriter
      /\ wr' = [wr EXCEPT !.state = "INFO", !.nbdata = 1]
  BY DEF InitHeader, sendVars, chainVars, evalVars, InitUnits, HdrUnits
<1>2. /\ wr \in Wrs /\ hdr \in Hdrs /\ ret = "write" /\ dLast = 0
      /\ Outstanding = RecUnits(hdr) - 2
  BY <1>1, HeaderComplete DEF HdrUnits
<1>3. wr'.state = "INFO" /\ wr'.nbdata = 1 /\ wr'.nbmsg = wr.nbmsg /\ wr'.pending = wr.pending
  BY <1>1, <1>2 DEF Wrs
<1>4. InfoRead' /\ ~AfterHeader'
  BY <1>1, <1>2, <1>3, RecordLengths DEF InfoRead, AfterHeader, Outstanding
<1> QED
  BY <1>1, <1>2, <1>3, <1>4 DEF StreamInv, RoomFound, Busy, Evaluating

\* A record without data is complete.
LEMMA RecordComplete ==
  ASSUME StreamInv, RoomFound, wr \in Wrs, Outstanding = 0, pc' = "write", ret' = "write",
         hdr' = hdr, left' = left, blockedWriter' = blockedWriter, wr' = HdrState(wr)
  PROVE  StreamInv' /\ RoomFound'
<1>1. /\ wr'.state = "HDR" /\ wr'.nbdata = 2 /\ wr'.nbmsg = wr.nbmsg
      /\ wr'.pending = wr.pending
  BY DEF Wrs, HdrState, HdrUnits
<1>2. HeaderRead' /\ ~AfterHeader'
  BY <1>1 DEF HeaderRead, AfterHeader, Outstanding, Busy, Evaluating, HdrUnits
<1> QED
  BY <1>1, <1>2 DEF StreamInv, RoomFound, Busy, Evaluating, HdrUnits

\* A time stamp.
LEMMA TstampHeaderStream ==
  ASSUME IInv, StreamInv, RoomFound, TstampHeader PROVE StreamInv' /\ RoomFound'
<1>1. /\ pc = "hdr" /\ hdr.kind = "TSTAMP" /\ pc' = "write" /\ ret' = ret
      /\ hdr' = hdr /\ left' = left /\ blockedWriter' = blockedWriter /\ wr' = HdrState(wr)
  BY DEF TstampHeader, sendVars
<1>2. wr \in Wrs /\ hdr \in Hdrs /\ ret = "write" /\ Outstanding = RecUnits(hdr) - 2
  BY <1>1, HeaderComplete DEF HdrUnits
<1>3. Outstanding = 0
  BY <1>1, <1>2, RecordLengths
<1> QED
  BY <1>1, <1>2, <1>3, RecordComplete

\* The rest of an INIT record.
LEMMA ProcessTmInfoStream ==
  ASSUME IInv, StreamInv, RoomFound, ProcessTmInfo PROVE StreamInv' /\ RoomFound'
<1>1. /\ pc = "info" /\ pc' = "write" /\ ret' = ret
      /\ hdr' = hdr /\ left' = left /\ blockedWriter' = blockedWriter /\ wr' = HdrState(wr)
  BY DEF ProcessTmInfo, sendVars
<1>2. wr \in Wrs /\ wr.nbdata = 0
  BY <1>1, Parts, WriterTypes DEF WriterInv, PcInv
<1>3. Outstanding = 0 /\ ret = "write"
  BY <1>1, <1>2 DEF StreamInv, InfoRead, Busy, Evaluating
<1> QED
  BY <1>1, <1>2, <1>3, RecordComplete

\* The header of a data record.
LEMMA DataHeaderStream ==
  ASSUME IInv, StreamInv, RoomFound, DataHeader PROVE StreamInv' /\ RoomFound'
<1>1. /\ pc = "hdr" /\ hdr.kind = "DATA" /\ pc' = "eval" /\ ret' = ret /\ dLast' = dLast
      /\ hdr' = hdr /\ left' = left /\ blockedWriter' = blockedWriter
      /\ wr' = [wr EXCEPT !.nbrec = Units(hdr.n), !.offq = 0]
  BY DEF DataHeader, sendVars, chainVars, evalVars
<1>2. /\ wr \in Wrs /\ hdr \in Hdrs /\ ret = "write" /\ wr.state = "HDR" /\ wr.nbdata = 0
      /\ Outstanding = RecUnits(hdr) - 2
  BY <1>1, HeaderComplete DEF HdrUnits
<1>3. /\ wr'.state = "HDR" /\ wr'.nbdata = 0 /\ wr'.nbmsg = wr.nbmsg
      /\ wr'.pending = wr.pending /\ wr'.nbrec = Units(hdr.n)
  BY <1>1, <1>2 DEF Wrs
<1>4. FirstRows' /\ AfterHeader'
  BY <1>1, <1>2, <1>3, RecordLengths
     DEF FirstRows, AfterHeader, Outstanding, Busy, Evaluating, Excess, HdrUnits, DataHdr
<1> QED
  BY <1>1, <1>2, <1>3, <1>4 DEF StreamInv, RoomFound, Busy, Evaluating

-----------------------------------------------------------------------------
(* The rows of a record *)

\* While a data record is evaluated, its header or part of its rows was read.
LEMMA Evaluation ==
  ASSUME IInv, StreamInv, pc \in Busy
  PROVE  /\ wr \in Wrs /\ hdr \in Hdrs /\ wr.state \in {"HDR", "DATA"} /\ dLast > 0
         /\ wr.state = "HDR" => AfterHeader /\ FirstRows /\ wr.nbrec > 0
         /\ wr.state = "DATA" => RowsRead
         /\ pc # "hdr" /\ pc # "info"
<1>1. wr \in Wrs /\ hdr \in Hdrs /\ dLast > 0
  BY Parts, WriterTypes DEF WriterInv, EvalInv, PcInv, Busy
<1>2. wr.state # "INFO"
  BY <1>1 DEF StreamInv, InfoRead
<1>3. wr.state = "HDR" => AfterHeader /\ FirstRows
  BY DEF AfterHeader, StreamInv
<1>4. wr.state = "HDR" => wr.nbrec > 0
  BY <1>1, <1>3, RecordLengths DEF StreamInv, FirstRows
<1> QED
  BY <1>1, <1>2, <1>3, <1>4 DEF StreamInv, Wrs, Busy, Evaluating

\* Rows are committed.
LEMMA CommitRowsStream ==
  ASSUME IInv, StreamInv, RoomFound, CommitRows PROVE StreamInv' /\ RoomFound'
<1>1. /\ pc = "eval" /\ ret' = ret /\ dLast' = dLast
      /\ hdr' = hdr /\ left' = left /\ blockedWriter' = blockedWriter
      /\ wr' = [wr EXCEPT !.offq = 0]
      /\ pc' = IF wr.nbrec > 0 THEN "alloc" ELSE "evaldone"
  BY DEF CommitRows, sendVars
<1>2. pc \in Busy
  BY <1>1 DEF Busy, Evaluating
<1>3. /\ wr \in Wrs /\ wr.state \in {"HDR", "DATA"} /\ hdr \in Hdrs
      /\ wr.state = "HDR" => FirstRows /\ wr.nbrec > 0
      /\ wr.state = "DATA" => RowsRead
  BY <1>2, Evaluation
<1>4. /\ wr'.state = wr.state /\ wr'.nbdata = wr.nbdata /\ wr'.nbmsg = wr.nbmsg
      /\ wr'.pending = wr.pending /\ wr'.nbrec = wr.nbrec /\ wr'.offq = 0
      /\ wr.nbrec \in Nat /\ wr.offq \in Nat
  BY <1>1, <1>3 DEF Wrs
<1>5. wr.state = "HDR" => FirstRows'
  BY <1>1, <1>3, <1>4 DEF FirstRows, Outstanding
<1>6. wr.state = "DATA" => RowsRead'
  <2>1. Units(hdr.n) \in Nat
    BY <1>3, RecordLengths
  <2> QED
    BY <1>1, <1>3, <1>4, <2>1 DEF RowsRead, Outstanding
<1>7. pc' \in Busy
  BY <1>1 DEF Busy, Evaluating
<1>8. StreamInv'
  BY <1>1, <1>3, <1>4, <1>5, <1>6, <1>7 DEF StreamInv, AfterHeader
<1>9. RoomFound'
  BY <1>1, <1>3, <1>4, <1>7 DEF RoomFound
<1> QED
  BY <1>8, <1>9

\* A step of the evaluation that leaves the writer's ocb alone.
LEMMA EvaluationGoesOn ==
  ASSUME IInv, StreamInv, pc \in {"alloc", "expire"}, pc' \in {"expire", "place"}, wr' = wr,
         hdr' = hdr, left' = left, ret' = ret
  PROVE  StreamInv'
<1>1. pc \in Busy /\ pc' \in Busy /\ pc' \notin {"hdr", "info", "eval", "evaldone"}
  BY DEF Busy, Evaluating
<1>2. /\ wr.state \in {"HDR", "DATA"}
      /\ wr.state = "HDR" => FirstRows
      /\ wr.state = "DATA" => RowsRead
  BY <1>1, Evaluation
<1>3. wr.state = "HDR" => FirstRows'
  BY <1>2 DEF FirstRows, Outstanding
<1>4. wr.state = "DATA" => RowsRead'
  BY <1>2 DEF RowsRead, Outstanding
<1> QED
  BY <1>1, <1>2, <1>3, <1>4 DEF StreamInv, AfterHeader

\* Room is sought behind last.
LEMMA AllocateQrowsStream ==
  ASSUME IInv, StreamInv, RoomFound, AllocateQrows PROVE StreamInv' /\ RoomFound'
<1>1. /\ pc = "alloc" /\ ret' = ret /\ hdr' = hdr /\ left' = left /\ wr' = wr
      /\ blockedWriter' = blockedWriter
      /\ pc' = IF nreq' > 0 THEN "expire" ELSE "place"
      /\ IF ~full /\ last >= first
         THEN nfree' = Lesser(TotalQrows - last, RowsLeft) /\ nreq' = 0
         ELSE nfree' = Lesser(first - last, RowsLeft) /\ nreq' = RowsLeft - nfree'
  BY DEF AllocateQrows, sendVars, wrVars
<1>2. StreamInv'
  BY <1>1, EvaluationGoesOn
<1>3. /\ last \in 0 .. TotalQrows - 1 /\ first \in 0 .. TotalQrows - 1
      /\ RowsLeft \in Nat /\ RowsLeft > 0
  BY Parts, RowsLeftNat DEF WriterInv, RingType
<1>4. pc' = "place" => nfree' > 0
  BY <1>1, <1>3, ConstType DEF Lesser
<1>5. RoomFound'
  BY <1>1, <1>4 DEF RoomFound, Busy, Evaluating
<1> QED
  BY <1>2, <1>5

\* A full ring that may be overwritten gives a row at least.
LEMMA RoomIsMade ==
  ASSUME IInv, RoomFound, RingPlaced, RoomKept, Nonblock, pc = "expire", nfree = 0,
         NEW d \in Live, NEW x \in Nat, Oldest(d), IsExpirable(d, x)
  PROVE  x > 0
<1>1. full /\ nreq > 0 /\ nreq \in Nat
  BY ControlTypes DEF RoomKept, RoomFound
<1>2. Total - Base(d) = TotalQrows
  BY <1>1 DEF RingPlaced, HeldRows
<1>3. dqd[d] \in Dqds /\ Rows(d) \in Nat
  BY ChainFields
<1>4. dqd[d].n > 0
  <2>1. CASE d = dLast
    BY <1>2, <1>3, <2>1, ConstType DEF Total, Base, Rows, Dqds, Live, Oldest
  <2>2. CASE d # dLast
    BY <2>2 DEF Oldest
  <2> QED
    BY <2>1, <2>2
<1>5. last \in 0 .. TotalQrows - 1 /\ dqd[d].start \in 0 .. TotalQrows - 1 /\ dqd[d].n \in Nat
  BY <1>3, Parts DEF WriterInv, RingType, Dqds
<1> QED
  BY <1>1, <1>4, <1>5, ConstType DEF IsExpirable, Expendable, Lesser, Greater

\* Rows are expired.
LEMMA ExpireRowsStream ==
  ASSUME IInv, StreamInv, RoomFound, RingPlaced, RoomKept, ExpireRows
  PROVE  StreamInv' /\ RoomFound'
<1>1. /\ pc = "expire" /\ ret' = ret /\ hdr' = hdr /\ left' = left /\ wr' = wr
      /\ blockedWriter' = blockedWriter
  BY DEF ExpireRows, sendVars, wrVars
<1>2. PICK d \in Live : \E x \in 0 .. dqd[d].n :
        /\ Oldest(d) /\ IsExpirable(d, x)
        /\ IF x = 0 THEN pc' = "place" /\ nfree' = nfree ELSE Expire(d, x)
  BY DEF ExpireRows
<1>3. PICK x \in 0 .. dqd[d].n :
        /\ Oldest(d) /\ IsExpirable(d, x)
        /\ IF x = 0 THEN pc' = "place" /\ nfree' = nfree ELSE Expire(d, x)
  BY <1>2
<1>4. x \in Nat /\ nfree \in Nat
  BY ChainFields, ControlTypes DEF Dqds
<1>5. x # 0 => /\ nfree' = nfree + x /\ pc' \in {"expire", "place"}
               /\ pc' = "expire" => nreq' > 0
  BY <1>3 DEF Expire
<1>6. StreamInv'
  BY <1>1, <1>3, <1>5, EvaluationGoesOn
<1>7. Nonblock /\ x = 0 => nfree > 0
  BY <1>1, <1>3, <1>4, RoomIsMade
<1>8. RoomFound'
  BY <1>1, <1>3, <1>4, <1>5, <1>7 DEF RoomFound, Busy, Evaluating
<1> QED
  BY <1>6, <1>8

\* The excess is placed, the rest of the rows is to be read.
LEMMA PlaceRowsStream ==
  ASSUME Labelling, IInv, StreamInv, RoomFound, PlaceRows PROVE StreamInv' /\ RoomFound'
<1> DEFINE ex == ExcessHere
<1>1. /\ pc = "place" /\ ret' = ret /\ hdr' = hdr /\ left' = left /\ dLast' = dLast
      /\ blockedWriter' = blockedWriter
      /\ wr' = [wr EXCEPT !.state = IF nfree > 0 THEN "DATA" ELSE wr.state,
                          !.nbdata = Units(nfree) - ex, !.offq = ex,
                          !.nbrec = wr.nbrec - ex]
      /\ pc' = IF RowInHeader THEN "eval" ELSE "evaldone"
  BY DEF PlaceRows, sendVars, chainVars
<1>2. pc \in Busy /\ pc' \in Busy /\ pc' \in {"eval", "evaldone"}
  BY <1>1 DEF Busy, Evaluating
<1>3. /\ wr \in Wrs /\ wr.state \in {"HDR", "DATA"} /\ hdr \in Hdrs
      /\ wr.state = "HDR" => FirstRows /\ wr.nbrec > 0
      /\ wr.state = "DATA" => RowsRead
  BY <1>2, Evaluation
<1>4. /\ wr.nbrec \in Nat /\ wr.nbrec > 0 /\ wr.offq = 0 /\ nfree \in Nat
      /\ Units(hdr.n) \in Nat /\ Units(nfree) \in Nat
      /\ Units(nfree) >= nfree
  BY <1>1, <1>3, ControlTypes, RecordLengths, UnitsNat, Parts
     DEF Wrs, WriterInv, EvalInv
<1>5. ex = IF nfree > 0 /\ wr.state = "HDR" THEN 1 ELSE 0
  BY DEF ExcessHere, Excess, HdrUnits, DataHdr
<1>6. RowInHeader <=> nfree > 0 /\ Units(nfree) = ex
  BY DEF RowInHeader
<1> HIDE DEF ex
<1>7. /\ wr'.state = (IF nfree > 0 THEN "DATA" ELSE wr.state)
      /\ wr'.nbdata = Units(nfree) - ex /\ wr'.offq = ex /\ wr'.nbrec = wr.nbrec - ex
      /\ wr'.nbmsg = wr.nbmsg /\ wr'.pending = wr.pending
  BY <1>1, <1>3 DEF Wrs
<1>8. CASE nfree = 0
  <2>1. wr'.nbdata = 0 /\ wr'.nbrec = wr.nbrec /\ wr'.offq = 0 /\ wr'.state = wr.state
    BY <1>4, <1>5, <1>7, <1>8, UnitsZero
  <2>2. wr.state = "HDR" => FirstRows'
    BY <1>1, <1>3, <1>7, <2>1 DEF FirstRows, Outstanding
  <2>3. wr.state = "DATA" => RowsRead'
    BY <1>1, <1>3, <1>4, <1>7, <2>1 DEF RowsRead, Outstanding
  <2>4. StreamInv'
    BY <1>1, <1>2, <1>3, <1>7, <2>1, <2>2, <2>3 DEF StreamInv, AfterHeader
  <2>5. RoomFound'
    BY <1>1, <1>2, <1>8 DEF RoomFound
  <2> QED
    BY <2>4, <2>5
<1>9. CASE nfree > 0
  <2>1. wr'.state = "DATA"
    BY <1>7, <1>9
  <2>2. wr.state = "HDR" => wr'.nbrec > 0 \/ ret = "write"
    <3>1. CASE Nonblock
      BY <3>1 DEF RoomFound
    <3>2. CASE RowUnits = 2
      BY <1>3, <1>4, <1>5, <1>7, <3>2 DEF FirstRows, Units, Hdrs
    <3> QED
      BY <3>1, <3>2 DEF Labelling
  <2>3. RowsRead'
    <3>1. CASE wr.state = "HDR"
      BY <1>1, <1>2, <1>3, <1>4, <1>5, <1>7, <1>9, <2>2, <3>1
         DEF RowsRead, FirstRows, Outstanding, Excess, HdrUnits, DataHdr, StreamInv
    <3>2. CASE wr.state = "DATA"
      BY <1>1, <1>2, <1>3, <1>4, <1>5, <1>7, <3>2 DEF RowsRead, Outstanding
    <3> QED
      BY <1>3, <3>1, <3>2
  <2>4. StreamInv'
    BY <1>1, <1>2, <1>7, <2>1, <2>3 DEF StreamInv, AfterHeader
  <2>5. pc' = "evaldone" => wr'.nbdata > 0
    BY <1>1, <1>4, <1>5, <1>6, <1>7, <1>9
  <2>6. RoomFound'
    BY <1>1, <1>2, <2>1, <2>5 DEF RoomFound
  <2> QED
    BY <2>4, <2>6
<1> QED
  BY <1>4, <1>8, <1>9

\* The evaluation is over.
LEMMA EvalReturnStream ==
  ASSUME IInv, StreamInv, RoomFound, EvalReturn PROVE StreamInv' /\ RoomFound'
<1>1. pc = "evaldone" /\ hdr' = hdr /\ left' = left /\ dLast' = dLast
  BY DEF EvalReturn, sendVars, chainVars
<1>2. pc \in Busy
  BY <1>1 DEF Busy
<1>3. /\ wr \in Wrs /\ wr.state \in {"HDR", "DATA"}
      /\ wr.state = "HDR" => FirstRows /\ wr.nbrec > 0
      /\ wr.state = "DATA" => RowsRead
  BY <1>2, Evaluation
<1>4. wr.nbrec \in Nat /\ wr.nbdata \in Nat
  BY <1>3 DEF Wrs
<1>5. CASE ret = "write" /\ wr.nbrec = 0
  <2>1. /\ pc' = "write" /\ ret' = "write" /\ wr' = HdrState(wr)
        /\ blockedWriter' = blockedWriter
    BY <1>4, <1>5 DEF EvalReturn, EndRecord, evalVars
  <2>2. Outstanding = 0
    BY <1>3, <1>5 DEF RowsRead
  <2> QED
    BY <1>1, <1>3, <2>1, <2>2, RecordComplete
<1>6. CASE ret = "write" /\ wr.nbrec # 0
  <2>1. /\ pc' = "write" /\ ret' = "write" /\ wr' = wr /\ blockedWriter' = blockedWriter
    BY <1>4, <1>6 DEF EvalReturn, EndRecord, evalVars
  <2>2. wr.state = "HDR" => FirstRows' /\ AfterHeader'
    BY <1>1, <1>3, <2>1 DEF FirstRows, Outstanding, AfterHeader
  <2>3. wr.state = "DATA" => RowsRead' /\ ~AfterHeader'
    BY <1>1, <1>3, <1>4, <1>6, <2>1 DEF RowsRead, Outstanding, AfterHeader
  <2>4. StreamInv'
    BY <1>1, <1>3, <2>1, <2>2, <2>3 DEF StreamInv, AfterHeader
  <2>5. RoomFound'
    BY <1>1, <1>6, <2>1 DEF RoomFound
  <2> QED
    BY <2>4, <2>5
<1>7. CASE ret # "write"
  <2>1. /\ wr' = wr /\ ret' = "write" /\ pc' \in {"write", "idle"} /\ ~Nonblock
    BY <1>7 DEF EvalReturn, Return, RoomFound
  <2>2. wr.state = "HDR" => FirstRows' /\ AfterHeader'
    BY <1>1, <1>3, <2>1 DEF FirstRows, Outstanding, AfterHeader
  <2>3. wr.state = "DATA" => RowsRead' /\ ~AfterHeader'
    BY <1>1, <1>3, <1>4, <1>7, <2>1 DEF RowsRead, Outstanding, AfterHeader
  <2>4. StreamInv'
    BY <1>1, <1>3, <2>1, <2>2, <2>3 DEF StreamInv, AfterHeader
  <2>5. RoomFound'
    BY <2>1 DEF RoomFound
  <2> QED
    BY <2>4, <2>5
<1> QED
  BY <1>5, <1>6, <1>7

\* A write ends, or waits for room.
LEMMA WriteEndsStream ==
  ASSUME IInv, StreamInv, RoomFound, DoWriteReply \/ DoWriteBlock
  PROVE  StreamInv' /\ RoomFound'
<1>0. wr \in Wrs
  BY Parts, WriterTypes
<1>1. /\ pc = "write" /\ pc' \in {"idle", "readq"} /\ ret' = "write"
      /\ hdr' = hdr /\ left' = left /\ dLast' = dLast
  BY DEF DoWriteReply, DoWriteBlock, ToReadQueue, Return, sendVars, chainVars
<1>2. SameCounts /\ (Nonblock => ~blockedWriter')
  <2>1. CASE DoWriteReply
    BY <1>0, <2>1 DEF DoWriteReply, SameCounts, RoomFound, Wrs
  <2>2. CASE DoWriteBlock
    BY <1>0, <1>1, <2>2 DEF DoWriteBlock, SameCounts, RoomFound, Wrs, Busy, Evaluating
  <2> QED
    BY <2>1, <2>2
<1> QED
  BY <1>1, <1>2, StreamWaits DEF SameStream, OutOfEval, Waiting

\* The blocked writer is tried again.
LEMMA RunWriteQueueStream ==
  ASSUME IInv, StreamInv, RoomFound, RunWriteQueue PROVE StreamInv' /\ RoomFound'
<1>1. /\ pc = "writeq" /\ hdr' = hdr /\ left' = left /\ dLast' = dLast /\ wr' = wr
      /\ blockedWriter' = blockedWriter
  BY DEF RunWriteQueue, sendVars, chainVars, wrVars
<1>2. CASE blockedWriter
  <2>1. pc' = "eval" /\ ret' = "queue" /\ ~Nonblock
    BY <1>2 DEF RunWriteQueue, RoomFound
  <2>2. wr \in Wrs /\ wr.nbdata = 0 /\ dLast > 0
    BY <1>1, <1>2, Parts, WriterTypes DEF WriterInv, PcInv, EvalInv, Settled, Waiting
  <2>3. wr.state \in {"HDR", "DATA"}
    BY <2>2 DEF Wrs, StreamInv, InfoRead
  <2>4. wr.state = "HDR" => FirstRows' /\ AfterHeader'
    BY <1>1, <2>1, <2>2
       DEF StreamInv, FirstRows, Outstanding, AfterHeader, Busy, Evaluating
  <2>5. wr.state = "DATA" => RowsRead' /\ ~AfterHeader'
    BY <1>1, <2>1 DEF StreamInv, RowsRead, Outstanding, AfterHeader
  <2>6. StreamInv'
    BY <1>1, <2>1, <2>3, <2>4, <2>5 DEF StreamInv, AfterHeader, Busy, Evaluating
  <2>7. RoomFound'
    BY <2>1 DEF RoomFound
  <2> QED
    BY <2>6, <2>7
<1>3. CASE ~blockedWriter
  <2>1. pc' = "idle" /\ ret' = "write" /\ SameCounts
    BY <1>1, <1>3 DEF RunWriteQueue, Return, SameCounts
  <2> QED
    BY <1>1, <1>3, <2>1, StreamWaits DEF SameStream, OutOfEval, Waiting
<1> QED
  BY <1>2, <1>3

\* The steps that concern readers, or end the server, leave the stream alone.
ReaderStep ==
  \/ RunReadQueue \/ ReadReply \/ OpenWriter \/ CloseWriter \/ Shutdown \/ Terminated
  \/ \E r \in Readers : OpenReader(r) \/ CloseReader(r) \/ IoNotify(r) \/ ReadRequest(r)

\* What these steps leave alone.
LEMMA ReaderSteps ==
  ASSUME StreamInv, ReaderStep
  PROVE  /\ wr' = wr /\ hdr' = hdr /\ left' = left /\ dLast' = dLast
         /\ first' = first /\ last' = last /\ full' = full /\ row' = row
         /\ blockedWriter' = blockedWriter /\ nfree' = nfree /\ nreq' = nreq
         /\ ret' = "write" /\ pc \in Waiting /\ pc' \in Waiting
<1> USE DEF ringVars, chainVars, sendVars, wrVars, rdVars, evalVars, Waiting, StreamInv, Busy,
            Evaluating, vars
<1>1. CASE RunReadQueue
  BY <1>1 DEF RunReadQueue
<1>2. CASE ReadReply
  <2>1. ReplyPartial \/ ReadBeforeInit \/ ReplyDefer \/ ReplyStarved
        => UNCHANGED <<ringVars, chainVars, sendVars, wrVars, evalVars>> /\ pc = "read"
    BY DEF ReplyPartial, ReadBeforeInit, ReplyDefer, ReplyStarved, Reading, Attached
  <2>2. ReplyRows => UNCHANGED <<ringVars, chainVars, sendVars, wrVars, evalVars>> /\ pc = "read"
    BY DEF ReplyRows, Reading, Attached
  <2>3. ReplyInit => UNCHANGED <<ringVars, dLast, sendVars, wrVars, evalVars>> /\ pc = "read"
    BY DEF ReplyInit, Reading
  <2>4. ReplyNextDqd => UNCHANGED <<ringVars, dLast, sendVars, wrVars, evalVars>> /\ pc = "read"
    BY DEF ReplyNextDqd, Reading, Attached, Deref
  <2>5. pc' \in {"idle", "readq", "writeq", "read"}
    <3>1. ReplyDone => pc' \in {"writeq", "readq"}
      BY DEF ReplyDone
    <3>2. ReplyPartial \/ ReplyInit \/ ReplyRows => ReplyDone
      BY DEF ReplyPartial, ReplyInit, ReplyRows, Give
    <3>3. ReadBeforeInit \/ ReplyDefer \/ ReplyStarved => ReplyDone
      BY DEF ReadBeforeInit, ReplyDefer, ReplyStarved, EnqueueRead
    <3>4. ReplyNextDqd => ReplyDone \/ (pc = "read" /\ pc' = pc)
      BY DEF ReplyNextDqd, Give, Reading, Attached
    <3> QED
      BY <1>2, <3>1, <3>2, <3>3, <3>4 DEF ReadReply
  <2> QED
    BY <1>2, <2>1, <2>2, <2>3, <2>4, <2>5 DEF ReadReply
<1>3. CASE OpenWriter \/ Shutdown \/ Terminated
  BY <1>3 DEF OpenWriter, Shutdown, Terminated
<1>4. CASE CloseWriter
  BY <1>4 DEF CloseWriter, ToReadQueue
<1>5. ASSUME NEW r \in Readers, OpenReader(r) \/ IoNotify(r) \/ ReadRequest(r)
      PROVE  /\ UNCHANGED <<ringVars, dLast, sendVars, wrVars, evalVars>>
             /\ pc = "idle" /\ pc' \in {"idle", "read"}
  BY <1>5 DEF OpenReader, IoNotify, ReadRequest, IoRead
<1>6. ASSUME NEW r \in Readers, CloseReader(r)
      PROVE  /\ UNCHANGED <<ringVars, dLast, sendVars, wrVars, evalVars>>
             /\ pc = "idle" /\ pc' = pc
  BY <1>6 DEF CloseReader, Deref
<1>7. CASE \E r \in Readers : OpenReader(r) \/ CloseReader(r) \/ IoNotify(r) \/ ReadRequest(r)
  BY <1>5, <1>6, <1>7
<1> QED
  BY <1>1, <1>2, <1>3, <1>4, <1>7 DEF ReaderStep

\* The other steps of Next
WriterStep ==
  \/ Writing \/ MsgReadFails \/ BadHeader \/ MsgReadChunk \/ InitHeader \/ TstampHeader
  \/ DataHeader \/ ProcessTmInfo \/ CommitRows \/ AllocateQrows \/ ExpireRows \/ PlaceRows
  \/ EvalReturn \/ DoWriteReply \/ DoWriteBlock \/ RunWriteQueue

\* Next is made of the two.
LEMMA Steps == [Next]_vars => ReaderStep \/ WriterStep \/ UNCHANGED vars
BY DEF Next, StayNext, Handler, ReaderStep, WriterStep

\* Every step.
LEMMA StreamStep ==
  ASSUME Labelling, IInv, StreamInv, RoomFound, RingPlaced, RoomKept, [Next]_vars
  PROVE  StreamInv' /\ RoomFound'
<1>1. CASE UNCHANGED vars
  <2>1. /\ wr' = wr /\ hdr' = hdr /\ left' = left /\ dLast' = dLast /\ pc' = pc /\ ret' = ret
        /\ blockedWriter' = blockedWriter /\ nfree' = nfree /\ nreq' = nreq
    BY <1>1 DEF vars, wrVars, sendVars, chainVars, evalVars
  <2> QED
    BY <2>1 DEF StreamInv, RoomFound, AfterHeader, HeaderRead, FirstRows, InfoRead, RowsRead,
                Outstanding
<1>2. CASE ReaderStep
  <2>1. SameStream /\ pc \in OutOfEval /\ pc' \in OutOfEval /\ ret' = "write"
        /\ blockedWriter' = blockedWriter
    BY <1>2, ReaderSteps DEF SameStream, SameCounts, OutOfEval
  <2> QED
    BY <2>1, StreamWaits DEF RoomFound
<1>3. CASE WriterStep
  <2>1. CASE Writing
    BY <2>1, IoWriteStream DEF Writing
  <2>2. CASE MsgReadFails \/ BadHeader
    BY <2>2, FailWriteStream DEF MsgReadFails, BadHeader
  <2> QED
    BY <1>3, <2>1, <2>2, MsgReadChunkStream, InitHeaderStream, TstampHeaderStream,
       DataHeaderStream, ProcessTmInfoStream, CommitRowsStream, AllocateQrowsStream,
       ExpireRowsStream, PlaceRowsStream, EvalReturnStream, WriteEndsStream,
       RunWriteQueueStream DEF WriterStep
<1> QED
  BY <1>1, <1>2, <1>3, Steps

-----------------------------------------------------------------------------
(* The place of the rows *)

\* The numbers of the ring and of the descriptors.
LEMMA RingNumbers ==
  ASSUME IInv
  PROVE  /\ first \in 0 .. TotalQrows - 1 /\ last \in 0 .. TotalQrows - 1
         /\ full \in BOOLEAN /\ (full => first = last)
         /\ TotalQrows \in Nat \ {0} /\ HeldRows \in 0 .. TotalQrows
         /\ (HeldRows = 0 <=> first = last /\ ~full) /\ (HeldRows = TotalQrows <=> full)
<1>1. /\ first \in 0 .. TotalQrows - 1 /\ last \in 0 .. TotalQrows - 1
      /\ full \in BOOLEAN /\ (full => first = last) /\ TotalQrows \in Nat \ {0}
  BY Parts, ConstType DEF WriterInv, RingType, EvalInv
<1> QED
  BY <1>1 DEF HeldRows

\* The numbers of a descriptor.
LEMMA ChainNumbers ==
  ASSUME IInv, NEW d \in Live
  PROVE  /\ dqd[d].pos \in Nat /\ dqd[d].n \in Nat /\ dqd[d].expired \in Nat
         /\ dqd[d].start \in 0 .. TotalQrows - 1 /\ dqd[d].mfctr \in 0 .. MfcMod - 1
         /\ Rows(d) \in Nat /\ Rows(d) = dqd[d].expired + dqd[d].n
         /\ Base(d) \in Nat /\ Base(d) = dqd[d].pos + dqd[d].expired
         /\ d \in Nat /\ dFirst <= d /\ d <= dLast
<1>1. dqd[d] \in Dqds
  BY ChainFields
<1>2. dFirst \in Nat /\ dLast \in Nat
  BY Parts DEF QueueInv, ChainType
<1>3. d \in Nat /\ dFirst <= d /\ d <= dLast
  BY <1>2 DEF Live
<1>4. /\ dqd[d].pos \in Nat /\ dqd[d].n \in Nat /\ dqd[d].expired \in Nat
      /\ dqd[d].start \in 0 .. TotalQrows - 1 /\ dqd[d].mfctr \in 0 .. MfcMod - 1
  BY <1>1 DEF Dqds
<1> QED
  BY <1>3, <1>4 DEF Rows, Base

\* The chain has a last descriptor as soon as it has any.
LEMMA ChainEnds ==
  ASSUME IInv
  PROVE  /\ dFirst \in Nat \ {0} /\ dLast \in Nat
         /\ dLast > 0 => dLast \in Live /\ dFirst \in Live
         /\ dLast = 0 => Live = {} /\ dFirst = 1
         /\ Live = dFirst .. dLast /\ DOMAIN dqd = Live
<1>1. ChainType /\ ChainInv
  BY Parts DEF QueueInv
<1> QED
  BY <1>1 DEF ChainType, ChainInv, Live

\* All rows of a descriptor are behind the newest.
LEMMA ChainTotal ==
  ASSUME IInv, ChainOrder
  PROVE  /\ Total \in Nat /\ (dLast = 0 => Total = 0)
         /\ dLast > 0 => Total = Base(dLast) + dqd[dLast].n
         /\ \A d \in Live : dqd[d].pos + Rows(d) <= Total /\ Base(d) + dqd[d].n <= Total
<1>1. CASE dLast = 0
  BY <1>1, ChainEnds DEF Total
<1>2. CASE dLast # 0
  <2>1. dLast \in Live /\ Total = dqd[dLast].pos + Rows(dLast)
    BY <1>2, ChainEnds DEF Total
  <2>2. Total \in Nat /\ Total = Base(dLast) + dqd[dLast].n
    BY <2>1, ChainNumbers
  <2>3. ASSUME NEW d \in Live
        PROVE  dqd[d].pos + Rows(d) <= Total /\ Base(d) + dqd[d].n <= Total
    <3>1. dqd[d].pos + Rows(d) = Base(d) + dqd[d].n /\ d \in Nat /\ d <= dLast
          /\ dqd[d].pos + Rows(d) \in Nat /\ dLast \in Nat
      <4>1. d \in Nat /\ d <= dLast /\ dLast \in Nat
        BY ChainNumbers, ChainEnds
      <4>2. /\ dqd[d].pos \in Nat /\ dqd[d].n \in Nat /\ dqd[d].expired \in Nat
            /\ Rows(d) = dqd[d].expired + dqd[d].n /\ Base(d) = dqd[d].pos + dqd[d].expired
        BY ChainNumbers
      <4> QED
        BY <4>1, <4>2
    <3>2. CASE d = dLast
      BY <2>1, <3>1, <3>2
    <3>3. CASE d # dLast
      <4>1. dqd[d].pos + Rows(d) <= dqd[dLast].pos
        BY <2>1, <3>1, <3>3 DEF ChainOrder
      <4>2. dqd[dLast].pos \in Nat /\ Rows(dLast) \in Nat
        BY <2>1, ChainNumbers
      <4> QED
        BY <2>1, <3>1, <4>1, <4>2
    <3> QED
      BY <3>2, <3>3
  <2> QED
    BY <1>2, <2>2, <2>3
<1> QED
  BY <1>1, <1>2

\* The oldest row is in slot first.
LEMMA OldestIsFirst ==
  ASSUME IInv, RingPlaced, NEW d \in Live, Oldest(d)
  PROVE  dqd[d].start = first /\ Total = Base(d) + HeldRows
<1>1. /\ last = Total % TotalQrows /\ dqd[d].start = Base(d) % TotalQrows
      /\ Total - Base(d) = HeldRows
  BY DEF RingPlaced
<1>2. /\ Base(d) \in Nat /\ HeldRows \in 0 .. TotalQrows /\ TotalQrows \in Nat \ {0}
      /\ first \in 0 .. TotalQrows - 1 /\ last \in 0 .. TotalQrows - 1
      /\ full \in BOOLEAN /\ (full => first = last)
      /\ dqd[d].start \in 0 .. TotalQrows - 1
  BY ChainNumbers, RingNumbers
<1>3. Total \in Int
  <2>1. dLast \in Live
    BY ChainEnds DEF Live
  <2> QED
    BY <2>1, ChainNumbers DEF Total
<1>4. Total = Base(d) + HeldRows
  BY <1>1, <1>2, <1>3
<1>5. last = IF dqd[d].start + HeldRows >= TotalQrows
             THEN dqd[d].start + HeldRows - TotalQrows ELSE dqd[d].start + HeldRows
  BY <1>1, <1>2, <1>4, ModAdd
<1>6. dqd[d].start = first
  BY <1>2, <1>5 DEF HeldRows
<1> QED
  BY <1>4, <1>6

\* What is left behind l has room beside what f to l holds.
LEMMA RoomBehind == \A n, f, l, t \in Int : f >= 0 /\ n <= t - l => n + (l - f) <= t
  OBVIOUS

\* What is left between l and f, where what is held wraps.
LEMMA RoomBetween == \A n, f, l, t \in Int : n <= f - l => n + (t + l - f) <= t
  OBVIOUS

\* Below a bound.
LEMMA Below == \A i, j, k \in Nat : j <= i /\ i < k => i \in j .. k - 1
OBVIOUS

\* Descriptors go that hold nothing, the others keep their rows.
LEMMA ShrinkRing ==
  ASSUME IInv, ChainOrder, RingPlaced, first' = first, last' = last, full' = full,
         dLast' = dLast, dFirst' \in Nat, dFirst <= dFirst', dLast > 0 => dFirst' <= dLast,
         \A d \in dFirst .. dFirst' - 1 : dqd[d].n = 0,
         \A d \in Live' :
           /\ dqd'[d].pos = dqd[d].pos /\ dqd'[d].n = dqd[d].n
           /\ dqd'[d].expired = dqd[d].expired /\ dqd'[d].start = dqd[d].start
  PROVE  ChainOrder' /\ RingPlaced' /\ HeldRows' = HeldRows
<1>1. /\ dFirst \in Nat /\ dLast \in Nat /\ Live = dFirst .. dLast
      /\ Live' = dFirst' .. dLast
  BY ChainEnds DEF Live
<1>2. \A d \in Live' : d \in Live /\ d \in Nat /\ dFirst' <= d /\ d <= dLast
  BY <1>1
<1>3. \A d \in Live' : Rows(d)' = Rows(d) /\ Base(d)' = Base(d)
  BY DEF Rows, Base
<1>4. HeldRows' = HeldRows
  BY DEF HeldRows
<1>5. Total' = Total
  <2>1. dLast > 0 => dLast \in Live'
    BY <1>1
  <2> QED
    BY <1>1, <1>3, <2>1 DEF Total
<1>6. ChainOrder'
  <2> SUFFICES ASSUME NEW d \in Live', NEW e \in Live', d < e
               PROVE  /\ dqd'[d].pos + Rows(d)' <= dqd'[e].pos
                      /\ (\A g \in d + 1 .. e - 1 : Rows(g)' = 0)
                           => dqd'[e].pos = dqd'[d].pos + Rows(d)'
                      /\ dqd'[d].n > 0 => dqd'[e].expired = 0
    BY DEF ChainOrder
  <2>1. d \in Live /\ e \in Live
    BY <1>2
  <2>2. \A g \in d + 1 .. e - 1 : Rows(g)' = Rows(g)
    BY <1>1, <1>2, <1>3
  <2>3. /\ dqd[d].pos + Rows(d) <= dqd[e].pos
        /\ (\A g \in d + 1 .. e - 1 : Rows(g) = 0) => dqd[e].pos = dqd[d].pos + Rows(d)
        /\ dqd[d].n > 0 => dqd[e].expired = 0
    BY <2>1 DEF ChainOrder
  <2> QED
    BY <1>3, <2>2, <2>3
<1>7. ASSUME NEW d \in Live'
      PROVE  /\ dqd'[d].start = Base(d)' % TotalQrows
             /\ dqd'[d].n > 0 => Total' - Base(d)' <= HeldRows'
             /\ Oldest(d)' => Total' - Base(d)' = HeldRows'
  <2>1. d \in Live /\ d \in Nat
    BY <1>2
  <2>2. Oldest(d)' => Oldest(d)
    <3> SUFFICES ASSUME Oldest(d)' PROVE Oldest(d)
      OBVIOUS
    <3>1. /\ \A e \in dFirst' .. d - 1 : dqd'[e].n = 0
          /\ d = dLast \/ dqd'[d].n > 0
      BY DEF Oldest
    <3>2. ASSUME NEW e \in dFirst .. d - 1 PROVE dqd[e].n = 0
      <4>0. e \in Nat /\ dFirst <= e /\ e <= d - 1
        BY <1>1, <2>1
      <4>1. CASE e < dFirst'
        <5>1. e \in dFirst .. dFirst' - 1
          BY <1>1, <4>0, <4>1, Below
        <5> QED
          BY <5>1
      <4>2. CASE e >= dFirst'
        <5>1. e \in Live' /\ e \in dFirst' .. d - 1
          BY <1>1, <1>2, <2>1, <4>2
        <5> QED
          BY <3>1, <5>1
      <4> QED
        BY <4>0, <4>1, <4>2
    <3> QED
      BY <2>1, <3>1, <3>2 DEF Oldest
  <2>3. /\ dqd[d].start = Base(d) % TotalQrows
        /\ dqd[d].n > 0 => Total - Base(d) <= HeldRows
        /\ Oldest(d) => Total - Base(d) = HeldRows
    BY <2>1 DEF RingPlaced
  <2> QED
    BY <1>3, <1>4, <1>5, <2>2, <2>3
<1>8. RingPlaced'
  BY <1>4, <1>5, <1>7 DEF RingPlaced
<1> QED
  BY <1>4, <1>6, <1>8

\* new_dq_descriptor: the new one is where the next row will be.
LEMMA AppendRing ==
  ASSUME IInv, ChainOrder, RingPlaced, first' = first, last' = last, full' = full,
         NEW ts, NEW m, dqd' = Append1(NewDqd(ts, m)), dLast' = dLast + 1, dFirst' = dFirst
  PROVE  ChainOrder' /\ RingPlaced' /\ HeldRows' = HeldRows
<1> DEFINE new == NewDqd(ts, m)
<1>0. PICK z : z = dLast + 1
  OBVIOUS
<1>1. /\ dFirst \in Nat /\ dLast \in Nat /\ Live = dFirst .. dLast /\ Live' = dFirst .. z
      /\ dFirst <= z /\ z = dLast + 1
  <2>1. dFirst <= z
    BY <1>0, ChainEnds
  <2> QED
    BY <1>0, <2>1, ChainEnds DEF Live
<1>2. dqd' = [d \in dFirst .. z |-> IF d = z THEN new ELSE dqd[d]]
  BY <1>0 DEF Append1
<1>3. dqd'[z] = new /\ \A d \in Live : dqd'[d] = dqd[d] /\ d # z
  BY <1>1, <1>2
<1>4. new.start = last /\ new.n = 0 /\ new.expired = 0 /\ new.pos = Total
  BY DEF NewDqd, Total
<1> HIDE DEF new
<1>5. Total \in Nat
  BY ChainTotal
<1>6. /\ \A d \in Live : Rows(d)' = Rows(d) /\ Base(d)' = Base(d)
      /\ Rows(z)' = 0 /\ Base(z)' = Total
  BY <1>3, <1>4, <1>5 DEF Rows, Base
<1>7. Total' = Total /\ HeldRows' = HeldRows
  <2>1. Total' = dqd'[z].pos + Rows(z)'
    BY <1>0, <1>1 DEF Total
  <2> QED
    BY <1>3, <1>4, <1>5, <1>6, <2>1 DEF HeldRows
<1>8. \A d \in Live' : d = z \/ (d \in Live /\ d < z)
  BY <1>1
<1>9. ChainOrder'
  <2> SUFFICES ASSUME NEW d \in Live', NEW e \in Live', d < e
               PROVE  /\ dqd'[d].pos + Rows(d)' <= dqd'[e].pos
                      /\ (\A g \in d + 1 .. e - 1 : Rows(g)' = 0)
                           => dqd'[e].pos = dqd'[d].pos + Rows(d)'
                      /\ dqd'[d].n > 0 => dqd'[e].expired = 0
    BY DEF ChainOrder
  <2>1. d \in Live /\ d < z /\ d \in Nat
    BY <1>1, <1>8
  <2>2. CASE e # z
    <3>1. e \in Live
      BY <1>8, <2>2
    <3>2. \A g \in d + 1 .. e - 1 : Rows(g)' = Rows(g)
      BY <1>1, <1>6, <2>1, <3>1
    <3>3. /\ dqd[d].pos + Rows(d) <= dqd[e].pos
          /\ (\A g \in d + 1 .. e - 1 : Rows(g) = 0) => dqd[e].pos = dqd[d].pos + Rows(d)
          /\ dqd[d].n > 0 => dqd[e].expired = 0
      BY <2>1, <3>1 DEF ChainOrder
    <3> QED
      BY <1>3, <1>6, <2>1, <3>1, <3>2, <3>3
  <2>3. CASE e = z
    <3>1. dqd'[d].pos + Rows(d)' <= Total
      BY <1>3, <1>6, <2>1, ChainTotal
    <3>2. ASSUME \A g \in d + 1 .. e - 1 : Rows(g)' = 0
          PROVE  Total = dqd[d].pos + Rows(d)
      <4>1. CASE d = dLast
        BY <1>1, <2>1, <4>1, ChainEnds DEF Total
      <4>2. CASE d # dLast
        <5>1. dLast \in Live /\ d < dLast /\ dLast \in d + 1 .. e - 1
          BY <1>1, <2>1, <2>3, <4>2
        <5>2. Rows(dLast) = 0
          BY <1>6, <3>2, <5>1
        <5>3. \A g \in d + 1 .. dLast - 1 : Rows(g) = 0
          BY <1>1, <1>6, <2>1, <2>3, <3>2
        <5>4. dqd[dLast].pos = dqd[d].pos + Rows(d)
          BY <2>1, <5>1, <5>3 DEF ChainOrder
        <5>5. Total = dqd[dLast].pos + Rows(dLast) /\ dqd[dLast].pos \in Nat
          BY <1>1, <2>1, <5>1, ChainNumbers, ChainEnds DEF Total
        <5> QED
          BY <5>2, <5>4, <5>5
      <4> QED
        BY <4>1, <4>2
    <3> QED
      BY <1>3, <1>4, <1>6, <2>1, <2>3, <3>1, <3>2
  <2> QED
    BY <2>2, <2>3
<1>10. ASSUME NEW d \in Live'
       PROVE  /\ dqd'[d].start = Base(d)' % TotalQrows
              /\ dqd'[d].n > 0 => Total' - Base(d)' <= HeldRows'
              /\ Oldest(d)' => Total' - Base(d)' = HeldRows'
  <2>1. CASE d # z
    <3>1. d \in Live
      BY <1>8, <2>1
    <3>2. Oldest(d)' => Oldest(d)
      <4>1. \A e \in dFirst .. d - 1 : dqd'[e] = dqd[e]
        BY <1>1, <1>3, <3>1
      <4>2. Oldest(d)' => (\A e \in dFirst .. d - 1 : dqd'[e].n = 0) /\ (dqd'[d].n > 0 \/ d = z)
        BY <1>1, <2>1, <3>1 DEF Oldest
      <4> QED
        BY <1>3, <2>1, <3>1, <4>1, <4>2 DEF Oldest
    <3> QED
      BY <1>3, <1>6, <1>7, <3>1, <3>2 DEF RingPlaced
  <2>2. CASE d = z
    <3>1. Oldest(d)' => HeldRows = 0
      <4> SUFFICES ASSUME Oldest(d)' PROVE HeldRows = 0
        OBVIOUS
      <4>1. \A e \in Live : dqd[e].n = 0
        BY <1>1, <1>3, <2>2 DEF Oldest
      <4>2. CASE dLast = 0
        BY <4>2, ChainTotal, RingNumbers DEF RingPlaced
      <4>3. CASE dLast # 0
        <5>1. dLast \in Live /\ Oldest(dLast)
          BY <1>1, <4>1, <4>3, ChainEnds DEF Oldest
        <5>2. Total = Base(dLast) + HeldRows /\ Total = Base(dLast) + dqd[dLast].n
          BY <1>1, <4>3, <5>1, OldestIsFirst, ChainTotal
        <5> QED
          BY <4>1, <5>1, <5>2, ChainNumbers, RingNumbers
      <4> QED
        BY <4>2, <4>3
    <3> QED
      BY <1>3, <1>4, <1>5, <1>6, <1>7, <2>2, <3>1 DEF RingPlaced
  <2> QED
    BY <2>1, <2>2
<1>11. RingPlaced'
  BY <1>7, <1>10 DEF RingPlaced
<1> QED
  BY <1>7, <1>9, <1>11

\* What commit_rows finds: k whole rows behind last, and the room they were given.
LEMMA RowsCommitted ==
  ASSUME IInv, RoomKept, CommitRows
  PROVE  \E k \in 0 .. TotalQrows :
           /\ wr.offq = Units(k) /\ last' = SlotAfter(last, k) /\ full' = FullAfter(k)
           /\ first' = first /\ row' = row /\ dFirst' = dFirst /\ dLast' = dLast
           /\ dqd' = [dqd EXCEPT ![dLast].n = dqd[dLast].n + k]
           /\ k \in Nat /\ HeldRows + k <= TotalQrows /\ last + k <= TotalQrows
           /\ (wr.state # "DATA" => k = 0)
           /\ wr \in Wrs /\ wr.nbdata = 0 /\ dLast > 0
<1>1. PICK k \in 0 .. TotalQrows :
        /\ wr.offq = Units(k) /\ last' = SlotAfter(last, k) /\ full' = FullAfter(k)
        /\ dqd' = [dqd EXCEPT ![dLast].n = dqd[dLast].n + k]
  BY DEF CommitRows
<1>2. pc = "eval" /\ first' = first /\ row' = row /\ dFirst' = dFirst /\ dLast' = dLast
  BY DEF CommitRows
<1>3. /\ wr.nbdata = 0 /\ dLast > 0 /\ (wr.state # "DATA" => wr.offq = 0) /\ wr \in Wrs
      /\ BlockFits
  BY <1>2, Parts, WriterTypes DEF WriterInv, EvalInv, Evaluating
<1>4. /\ k \in Nat /\ HeldRows \in Nat /\ HeldRows <= TotalQrows /\ TotalQrows \in Nat
      /\ last \in Nat /\ last < TotalQrows
  BY RingNumbers
<1>5. wr.state # "DATA" => k = 0
  BY <1>1, <1>3, <1>4, UnitsZero, UnitsInjective
<1>6. wr.state = "DATA" => HeldRows + k <= TotalQrows
  <2> SUFFICES ASSUME wr.state = "DATA" PROVE HeldRows + k <= TotalQrows
    OBVIOUS
  <2>1. Units(k) <= Units(TotalQrows - HeldRows)
    BY <1>1, <1>3, <1>4, UnitsNat DEF RoomKept
  <2>2. TotalQrows - HeldRows \in Nat
    BY <1>4
  <2>3. k <= TotalQrows - HeldRows
    BY <1>4, <2>1, <2>2, UnitsLeq
  <2> QED
    BY <1>4, <2>3
<1>7. wr.state = "DATA" => last + k <= TotalQrows
  <2> SUFFICES ASSUME wr.state = "DATA" PROVE last + k <= TotalQrows
    OBVIOUS
  <2>1. PICK b \in 0 .. TotalQrows - last : Units(b) = Units(k)
    BY <1>1, <1>3, <1>4, UnitsNat DEF BlockFits
  <2>2. b \in Nat /\ b <= TotalQrows - last
    BY <1>4
  <2>3. b = k
    BY <1>4, <2>1, <2>2, UnitsInjective
  <2> QED
    BY <1>4, <2>2, <2>3
<1>8. HeldRows + k <= TotalQrows /\ last + k <= TotalQrows
  BY <1>4, <1>5, <1>6, <1>7
<1> QED
  BY <1>1, <1>2, <1>3, <1>4, <1>5, <1>8

\* k rows are added behind last.
LEMMA HeldAfterCommit ==
  ASSUME IInv, DataType = "T3", NEW k \in Nat, HeldRows + k <= TotalQrows,
         last + k <= TotalQrows, last' = SlotAfter(last, k), full' = FullAfter(k),
         first' = first
  PROVE  /\ HeldRows' = HeldRows + k /\ (k > 0 => ~full)
         /\ last' = IF last + k >= TotalQrows THEN last + k - TotalQrows ELSE last + k
<1>1. /\ first \in 0 .. TotalQrows - 1 /\ last \in 0 .. TotalQrows - 1
      /\ full \in BOOLEAN /\ (full => first = last) /\ TotalQrows \in Nat \ {0}
  BY RingNumbers
<1>2. k > 0 => ~full
  BY <1>1 DEF HeldRows
<1>3. last' = IF last + k = TotalQrows THEN 0 ELSE last + k
  BY DEF SlotAfter
<1>4. full' = (full \/ (k > 0 /\ last' = first))
  BY DEF FullAfter
<1>5. HeldRows' = IF full' THEN TotalQrows
                  ELSE IF last' >= first THEN last' - first ELSE TotalQrows + last' - first
  BY DEF HeldRows
<1>6. CASE k = 0
  BY <1>1, <1>3, <1>4, <1>5, <1>6 DEF HeldRows
<1>7. CASE k > 0
  <2>1. ~full /\ HeldRows = IF last >= first THEN last - first ELSE TotalQrows + last - first
    BY <1>2, <1>7 DEF HeldRows
  <2>2. full' <=> last' = first
    BY <1>4, <1>7, <2>1
  <2>3. CASE last + k = TotalQrows
    BY <1>1, <1>3, <1>5, <1>7, <2>1, <2>2, <2>3
  <2>4. CASE last + k < TotalQrows
    BY <1>1, <1>3, <1>5, <1>7, <2>1, <2>2, <2>4
  <2> QED
    BY <1>1, <1>2, <1>3, <2>3, <2>4
<1> QED
  BY <1>1, <1>2, <1>3, <1>6, <1>7

\* commit_rows: the newest descriptor gets the rows behind last.
LEMMA CommitRing ==
  ASSUME IInv, DataType = "T3", ChainOrder, RingPlaced, RoomKept, CommitRows
  PROVE  ChainOrder' /\ RingPlaced' /\ RoomKept'
<1>1. PICK k \in 0 .. TotalQrows :
        /\ wr.offq = Units(k) /\ last' = SlotAfter(last, k) /\ full' = FullAfter(k)
        /\ first' = first /\ row' = row /\ dFirst' = dFirst /\ dLast' = dLast
        /\ dqd' = [dqd EXCEPT ![dLast].n = dqd[dLast].n + k]
        /\ k \in Nat /\ HeldRows + k <= TotalQrows /\ last + k <= TotalQrows
        /\ (wr.state # "DATA" => k = 0)
        /\ wr \in Wrs /\ wr.nbdata = 0 /\ dLast > 0
  BY RowsCommitted
<1>2. /\ HeldRows' = HeldRows + k
      /\ last' = IF last + k >= TotalQrows THEN last + k - TotalQrows ELSE last + k
  BY <1>1, HeldAfterCommit
<1>3. Live' = Live /\ dLast \in Live /\ Live = dFirst .. dLast /\ DOMAIN dqd = Live
      /\ dFirst \in Nat /\ dLast \in Nat
  BY <1>1, ChainEnds DEF Live
<1>4. /\ dqd[dLast].n \in Nat /\ dqd[dLast] \in Dqds /\ Rows(dLast) \in Nat
      /\ Rows(dLast) = dqd[dLast].expired + dqd[dLast].n /\ dqd[dLast].expired \in Nat
  BY <1>3, ChainNumbers, ChainFields
<1>5. /\ dqd'[dLast].n = dqd[dLast].n + k /\ dqd'[dLast].pos = dqd[dLast].pos
      /\ dqd'[dLast].expired = dqd[dLast].expired /\ dqd'[dLast].start = dqd[dLast].start
      /\ \A d \in Live : d # dLast => dqd'[d] = dqd[d]
  BY <1>1, <1>3, <1>4 DEF Dqds
<1>6. /\ \A d \in Live : d # dLast => Rows(d)' = Rows(d)
      /\ \A d \in Live : /\ Base(d)' = Base(d) /\ dqd'[d].pos = dqd[d].pos
                         /\ dqd'[d].expired = dqd[d].expired
                         /\ dqd'[d].start = dqd[d].start
      /\ Rows(dLast)' = Rows(dLast) + k
  <2>1. Rows(dLast)' = dqd'[dLast].expired + dqd'[dLast].n
    BY <1>1 DEF Rows
  <2> QED
    BY <1>4, <1>5, <2>1 DEF Rows, Base
<1>7. Total \in Nat /\ Total' = Total + k
  <2>1. Total = dqd[dLast].pos + Rows(dLast) /\ Total' = dqd'[dLast].pos + Rows(dLast)'
    BY <1>1 DEF Total
  <2> QED
    BY <1>1, <1>3, <1>5, <1>6, <2>1, ChainNumbers
<1>8. ChainOrder'
  <2> SUFFICES ASSUME NEW d \in Live', NEW e \in Live', d < e
               PROVE  /\ dqd'[d].pos + Rows(d)' <= dqd'[e].pos
                      /\ (\A g \in d + 1 .. e - 1 : Rows(g)' = 0)
                           => dqd'[e].pos = dqd'[d].pos + Rows(d)'
                      /\ dqd'[d].n > 0 => dqd'[e].expired = 0
    BY DEF ChainOrder
  <2>1. d \in Live /\ e \in Live /\ d # dLast /\ dqd'[d] = dqd[d] /\ Rows(d)' = Rows(d)
    BY <1>3, <1>5, <1>6
  <2>2. \A g \in d + 1 .. e - 1 : Rows(g)' = Rows(g)
    BY <1>3, <1>6, <2>1
  <2> QED
    BY <1>6, <2>1, <2>2 DEF ChainOrder
<1>9. last' = Total' % TotalQrows /\ HeldRows' <= Total'
  <2>1. last = Total % TotalQrows /\ HeldRows <= Total
    BY DEF RingPlaced
  <2> QED
    BY <1>1, <1>2, <1>7, <2>1, RingNumbers, ModAdd
<1>10. ASSUME NEW d \in Live'
       PROVE  /\ dqd'[d].start = Base(d)' % TotalQrows
              /\ dqd'[d].n > 0 => Total' - Base(d)' <= HeldRows'
              /\ Oldest(d)' => Total' - Base(d)' = HeldRows'
  <2>1. /\ d \in Live /\ d \in Nat /\ d <= dLast /\ Base(d) \in Nat
        /\ Base(d)' = Base(d) /\ dqd[d].n \in Nat
    BY <1>3, <1>6, ChainNumbers
  <2>2. /\ dqd[d].start = Base(d) % TotalQrows
        /\ dqd[d].n > 0 => Total - Base(d) <= HeldRows
        /\ Oldest(d) => Total - Base(d) = HeldRows
    BY <2>1 DEF RingPlaced
  <2>3. Oldest(d)' => Oldest(d)
    <3>1. \A e \in dFirst .. d - 1 : dqd'[e] = dqd[e]
      BY <1>3, <1>5, <2>1
    <3> QED
      BY <1>1, <1>5, <2>1, <3>1 DEF Oldest
  <2>4. dqd'[d].n > 0 => Total' - Base(d)' <= HeldRows'
    <3>1. CASE d = dLast
      BY <1>1, <1>2, <1>7, <2>1, <2>2, <3>1, ChainTotal, RingNumbers
    <3>2. CASE d # dLast
      BY <1>1, <1>2, <1>5, <1>7, <2>1, <2>2, <3>2, RingNumbers
    <3> QED
      BY <3>1, <3>2
  <2> QED
    BY <1>1, <1>2, <1>6, <1>7, <2>1, <2>2, <2>3, <2>4, RingNumbers
<1>11. RingPlaced'
  BY <1>9, <1>10 DEF RingPlaced
<1>12. RoomKept'
  <2>1. /\ wr' = [wr EXCEPT !.offq = 0] /\ pc' \notin {"expire", "place"}
    BY DEF CommitRows
  <2>2. wr'.nbdata = 0 /\ wr'.offq = 0
    BY <1>1, <2>1 DEF Wrs
  <2>3. TotalQrows - HeldRows' \in Nat
    BY <1>1, <1>2, RingNumbers
  <2>4. Units(TotalQrows - HeldRows') >= 0
    BY <2>3, UnitsNat
  <2> QED
    BY <2>1, <2>2, <2>4 DEF RoomKept, Units
<1> QED
  BY <1>8, <1>11, <1>12

\* The chain stays as it is.
LEMMA SameChainRing ==
  ASSUME IInv, ChainOrder, RingPlaced, SameChain, first' = first, last' = last, full' = full
  PROVE  ChainOrder' /\ RingPlaced' /\ HeldRows' = HeldRows
<1>1. /\ dFirst \in Nat /\ (dLast > 0 => dFirst <= dLast) /\ dFirst' = dFirst
      /\ dLast' = dLast /\ dqd' = dqd /\ dFirst .. dFirst' - 1 = {}
  BY ChainEnds DEF SameChain, Live
<1> QED
  BY <1>1, ShrinkRing

\* x rows are taken from the front.
LEMMA HeldAfterExpire ==
  ASSUME IInv, NEW x \in Nat, x > 0, x <= HeldRows, first + x <= TotalQrows,
         first' = SlotAfter(first, x), full' = FALSE, last' = last
  PROVE  HeldRows' = HeldRows - x
<1>1. /\ first \in 0 .. TotalQrows - 1 /\ last \in 0 .. TotalQrows - 1
      /\ full \in BOOLEAN /\ (full => first = last) /\ TotalQrows \in Nat \ {0}
  BY RingNumbers
<1>2. first' = IF first + x = TotalQrows THEN 0 ELSE first + x
  BY DEF SlotAfter
<1>3. HeldRows' = IF last >= first' THEN last - first' ELSE TotalQrows + last - first'
  BY DEF HeldRows
<1>4. CASE full
  BY <1>1, <1>2, <1>3, <1>4 DEF HeldRows
<1>5. CASE ~full
  <2>1. HeldRows = IF last >= first THEN last - first ELSE TotalQrows + last - first
    BY <1>5 DEF HeldRows
  <2>2. CASE first + x = TotalQrows
    BY <1>1, <1>2, <1>3, <2>1, <2>2
  <2>3. CASE first + x < TotalQrows
    BY <1>1, <1>2, <1>3, <2>1, <2>3
  <2> QED
    BY <1>1, <2>2, <2>3
<1> QED
  BY <1>1, <1>4, <1>5

\* What expiring x rows of the oldest descriptor leaves: q is the chain before
\* the descriptors that became garbage are freed.
LEMMA RowsExpired ==
  ASSUME IInv, NEW d \in Live, NEW x \in Nat, x > 0, Oldest(d), IsExpirable(d, x), Expire(d, x)
  PROVE  /\ first' = SlotAfter(dqd[d].start, x) /\ full' = FALSE /\ nfree' = nfree + x
         /\ dLast' = dLast /\ dFirst' \in Nat /\ dFirst <= dFirst' /\ dFirst' <= dLast
         /\ x <= dqd[d].n /\ dqd[d].start + x <= TotalQrows
         /\ pc' \in {"expire", "place"}
         /\ \A e \in dFirst .. dFirst' - 1 : e # d => dqd[e].n = 0
         /\ d < dFirst' => dqd[d].n = x
         /\ \A e \in Live' : e # d => dqd'[e] = dqd[e]
         /\ d \in Live' =>
              /\ dqd'[d].start = first' /\ dqd'[d].n = dqd[d].n - x
              /\ dqd'[d].expired = dqd[d].expired + x
              /\ dqd'[d].pos = dqd[d].pos /\ dqd'[d].mfctr = dqd[d].mfctr
<1> DEFINE s == SlotAfter(dqd[d].start, x)
           q == [dqd EXCEPT ![d].start = s, ![d].n = @ - x, ![d].expired = @ + x]
           spent == q[d].n = 0 /\ d < dLast
<1>1. /\ first' = s /\ full' = FALSE /\ nfree' = nfree + x /\ dLast' = dLast
      /\ pc' \in {"expire", "place"}
      /\ IF spent THEN \E f \in Live : HeadAfter(q, d, f) /\ FreeBefore(q, f)
                  ELSE FreeBefore(q, dFirst)
  BY DEF Expire
<1>2. x <= dqd[d].n /\ dqd[d].start + x <= TotalQrows
  BY ExpirableBound
<1>3. /\ dFirst \in Nat /\ dLast \in Nat /\ Live = dFirst .. dLast /\ DOMAIN dqd = Live
      /\ dqd[d] \in Dqds /\ dqd[d].n \in Nat /\ dFirst \in Live /\ d \in Nat
  BY ChainEnds, ChainFields, ChainNumbers DEF Live
<1> HIDE DEF s
<1>4. /\ q[d].start = s /\ q[d].n = dqd[d].n - x /\ q[d].expired = dqd[d].expired + x
      /\ q[d].pos = dqd[d].pos /\ q[d].mfctr = dqd[d].mfctr
      /\ \A e \in Live : e # d => q[e] = dqd[e]
  BY <1>3 DEF Dqds
<1> HIDE DEF q
<1>5. PICK f \in Live : FreeBefore(q, f) /\ \A e \in dFirst .. f - 1 : q[e].n = 0
  <2>1. CASE spent
    <3>1. PICK f \in Live : HeadAfter(q, d, f) /\ FreeBefore(q, f)
      BY <1>1, <2>1
    <3>2. \A e \in dFirst .. f - 1 : q[e].n = 0
      BY <1>3, <3>1 DEF HeadAfter, Garbage
    <3> QED
      BY <3>1, <3>2
  <2>2. CASE ~spent
    <3>1. FreeBefore(q, dFirst) /\ dFirst .. dFirst - 1 = {}
      BY <1>1, <1>3, <2>2
    <3> QED
      BY <1>3, <3>1
  <2> QED
    BY <2>1, <2>2
<1>6. dFirst' = f /\ dqd' = [e \in f .. dLast |-> q[e]]
  BY <1>5 DEF FreeBefore
<1>7. f \in Nat /\ dFirst <= f /\ f <= dLast /\ Live' = f .. dLast
  BY <1>1, <1>3, <1>6 DEF Live
<1>8. \A e \in Live' : dqd'[e] = q[e] /\ e \in Live
  BY <1>3, <1>6, <1>7
<1>9. \A e \in dFirst .. f - 1 : e \in Live /\ q[e].n = 0
  BY <1>3, <1>5, <1>7
<1>10. /\ \A e \in dFirst .. f - 1 : e # d => dqd[e].n = 0
       /\ d < f => dqd[d].n = x
  <2>1. d < f => d \in dFirst .. f - 1
    BY <1>3, <1>7
  <2> QED
    BY <1>2, <1>3, <1>4, <1>9, <2>1
<1> QED
  BY <1>1, <1>2, <1>4, <1>6, <1>7, <1>8, <1>10 DEF s

\* The oldest rows make room.
LEMMA ExpireRing ==
  ASSUME IInv, ChainOrder, RingPlaced, NEW d \in Live, NEW x \in Nat, x > 0, Oldest(d),
         IsExpirable(d, x), Expire(d, x), last' = last
  PROVE  ChainOrder' /\ RingPlaced' /\ HeldRows' = HeldRows - x
<1>1. /\ first' = SlotAfter(dqd[d].start, x) /\ full' = FALSE
      /\ dLast' = dLast /\ dFirst' \in Nat /\ dFirst <= dFirst' /\ dFirst' <= dLast
      /\ x <= dqd[d].n /\ dqd[d].start + x <= TotalQrows
  BY RowsExpired
<1>1a. /\ \A e \in dFirst .. dFirst' - 1 : e # d => dqd[e].n = 0
       /\ d < dFirst' => dqd[d].n = x
       /\ \A e \in Live' : e # d => dqd'[e] = dqd[e]
       /\ d \in Live' =>
            /\ dqd'[d].start = first' /\ dqd'[d].n = dqd[d].n - x
            /\ dqd'[d].expired = dqd[d].expired + x /\ dqd'[d].pos = dqd[d].pos
  BY RowsExpired
<1>2. dqd[d].start = first /\ Total = Base(d) + HeldRows
  BY OldestIsFirst
<1>3. /\ dFirst \in Nat /\ dLast \in Nat /\ Live = dFirst .. dLast /\ Live' = dFirst' .. dLast
      /\ dLast \in Live /\ dLast \in Live' /\ dLast > 0
  BY <1>1, ChainEnds DEF Live
<1>3a. /\ Total \in Nat /\ HeldRows \in Nat
       /\ TotalQrows \in Nat \ {0} /\ HeldRows <= TotalQrows
  BY ChainTotal, RingNumbers
<1>4. /\ dqd[d].pos \in Nat /\ dqd[d].n \in Nat /\ dqd[d].expired \in Nat /\ Base(d) \in Nat
      /\ Base(d) = dqd[d].pos + dqd[d].expired /\ d \in Nat /\ dFirst <= d /\ d <= dLast
      /\ dqd[d].start \in 0 .. TotalQrows - 1 /\ Rows(d) \in Nat
      /\ Rows(d) = dqd[d].expired + dqd[d].n /\ dqd[d].start = Base(d) % TotalQrows
  BY ChainNumbers DEF RingPlaced
<1>5. x \in Nat /\ x <= HeldRows /\ dqd[d].n <= HeldRows /\ x <= dqd[d].n
  <2>1. Base(d) + dqd[d].n <= Total
    BY ChainTotal
  <2> QED
    BY <1>1, <1>2, <1>3a, <1>4, <2>1
<1>6. HeldRows' = HeldRows - x
  BY <1>1, <1>2, <1>5, HeldAfterExpire
<1>7. \A e \in Live' : /\ e \in Live /\ Rows(e)' = Rows(e) /\ dqd'[e].pos = dqd[e].pos
                       /\ e # d => Base(e)' = Base(e)
                       /\ e = d => Base(e)' = Base(e) + x
                       /\ dqd'[e].n <= dqd[e].n
                       /\ e # d => dqd'[e].n = dqd[e].n /\ dqd'[e].expired = dqd[e].expired
  <2> SUFFICES ASSUME NEW e \in Live'
               PROVE  /\ e \in Live /\ Rows(e)' = Rows(e) /\ dqd'[e].pos = dqd[e].pos
                      /\ e # d => Base(e)' = Base(e)
                      /\ e = d => Base(e)' = Base(e) + x
                      /\ dqd'[e].n <= dqd[e].n
                      /\ e # d => dqd'[e].n = dqd[e].n /\ dqd'[e].expired = dqd[e].expired
    OBVIOUS
  <2>1. e \in Live
    BY <1>1, <1>3
  <2>2. Rows(e)' = dqd'[e].expired + dqd'[e].n /\ Base(e)' = dqd'[e].pos + dqd'[e].expired
    BY DEF Rows, Base
  <2>3. CASE e = d
    BY <1>1, <1>1a, <1>4, <2>1, <2>2, <2>3
  <2>4. CASE e # d
    BY <1>1, <1>1a, <2>1, <2>2, <2>4, ChainNumbers
  <2> QED
    BY <2>3, <2>4
<1>8. Total' = Total
  BY <1>1, <1>3, <1>7 DEF Total
<1>9. ChainOrder'
  <2> SUFFICES ASSUME NEW a \in Live', NEW e \in Live', a < e
               PROVE  /\ dqd'[a].pos + Rows(a)' <= dqd'[e].pos
                      /\ (\A g \in a + 1 .. e - 1 : Rows(g)' = 0)
                           => dqd'[e].pos = dqd'[a].pos + Rows(a)'
                      /\ dqd'[a].n > 0 => dqd'[e].expired = 0
    BY DEF ChainOrder
  <2>1. a \in Live /\ e \in Live /\ a \in Nat /\ e \in Nat
    BY <1>7, ChainNumbers
  <2>2. \A g \in a + 1 .. e - 1 : Rows(g)' = Rows(g)
    BY <1>1, <1>3, <1>7, <2>1
  <2>3. /\ dqd[a].pos + Rows(a) <= dqd[e].pos
        /\ (\A g \in a + 1 .. e - 1 : Rows(g) = 0) => dqd[e].pos = dqd[a].pos + Rows(a)
        /\ dqd[a].n > 0 => dqd[e].expired = 0
    BY <2>1 DEF ChainOrder
  <2>4. dqd'[a].n > 0 => dqd'[e].expired = 0
    <3>1. CASE e = d
      <4>1. a \in dFirst .. d - 1
        BY <1>3, <1>4, <2>1, <3>1
      <4>2. dqd[a].n = 0
        BY <4>1 DEF Oldest
      <4>3. a # d /\ dqd'[a].n = dqd[a].n
        BY <1>7, <2>1, <3>1
      <4> QED
        BY <4>2, <4>3
    <3>2. CASE e # d
      <4>1. dqd'[a].n > 0 => dqd[a].n > 0
        BY <1>1, <1>1a, <1>4, <1>7, <2>1
      <4> QED
        BY <1>7, <2>3, <3>2, <4>1
    <3> QED
      BY <3>1, <3>2
  <2> QED
    BY <1>7, <2>1, <2>2, <2>3, <2>4
<1>10. last' = Total' % TotalQrows /\ HeldRows' <= Total'
  <2>1. last = Total % TotalQrows /\ HeldRows <= Total
    BY DEF RingPlaced
  <2> QED
    BY <1>3a, <1>5, <1>6, <1>8, <2>1
<1>11. ASSUME NEW e \in Live, d < e
       PROVE  dqd[e].expired = 0 /\ Base(e) = dqd[e].pos /\ dqd[e].pos \in Nat
              /\ dqd[e].pos >= Base(d) + dqd[d].n
  <2>1. dqd[e].expired = 0 /\ dqd[e].pos >= dqd[d].pos + Rows(d)
    BY <1>1, <1>4, <1>11, ChainNumbers DEF ChainOrder
  <2>2. dqd[e].pos \in Nat /\ Base(e) = dqd[e].pos + dqd[e].expired
    BY ChainNumbers
  <2> QED
    BY <1>4, <2>1, <2>2
<1>12. ASSUME NEW e \in Live'
       PROVE  /\ dqd'[e].start = Base(e)' % TotalQrows
              /\ dqd'[e].n > 0 => Total' - Base(e)' <= HeldRows'
              /\ Oldest(e)' => Total' - Base(e)' = HeldRows'
  <2>1. e \in Live /\ e \in Nat /\ e <= dLast
    BY <1>7, ChainNumbers
  <2>2. CASE e = d
    <3>1. first' = IF dqd[d].start + x >= TotalQrows
                   THEN dqd[d].start + x - TotalQrows ELSE dqd[d].start + x
      <4>1. first' = IF dqd[d].start + x = TotalQrows THEN 0 ELSE dqd[d].start + x
        BY <1>1 DEF SlotAfter
      <4>2. dqd[d].start \in Nat /\ TotalQrows \in Nat /\ dqd[d].start + x <= TotalQrows
        BY <1>1, <1>3a, <1>4
      <4> QED
        BY <1>5, <4>1, <4>2
    <3>2. x \in 0 .. TotalQrows
      BY <1>3a, <1>5
    <3>3. first' = (Base(d) + x) % TotalQrows
      <4>1. (Base(d) + x) % TotalQrows
              = IF (Base(d) % TotalQrows) + x >= TotalQrows
                THEN (Base(d) % TotalQrows) + x - TotalQrows ELSE (Base(d) % TotalQrows) + x
        BY <1>3a, <1>4, <3>2, ModAdd
      <4> QED
        BY <1>4, <3>1, <4>1
    <3>4. dqd'[e].start = Base(e)' % TotalQrows
      BY <1>1, <1>1a, <1>7, <2>2, <3>3
    <3>5. Base(e)' = Base(d) + x
      BY <1>7, <2>2
    <3>6. Total' - Base(e)' = HeldRows'
      BY <1>2, <1>3a, <1>4, <1>5, <1>6, <1>8, <3>5
    <3> QED
      BY <1>3a, <1>5, <1>6, <3>4, <3>6
  <2>3. CASE e < d
    <3>1. dqd[e].n = 0
      BY <1>3, <1>4, <2>1, <2>3 DEF Oldest
    <3>2. dqd'[e].n = 0 /\ e # dLast /\ Base(e)' = Base(e) /\ dqd'[e].start = dqd[e].start
      BY <1>1, <1>1a, <1>4, <1>7, <2>1, <2>3, <3>1
    <3>3. ~Oldest(e)'
      BY <1>1, <3>2 DEF Oldest
    <3> QED
      BY <2>1, <3>2, <3>3 DEF RingPlaced
  <2>4. CASE d < e
    <3>1. /\ Base(e)' = Base(e) /\ dqd'[e].start = dqd[e].start
          /\ dqd[e].start = Base(e) % TotalQrows
      BY <1>1, <1>1a, <1>7, <2>1, <2>4 DEF RingPlaced
    <3>2. Base(e) = dqd[e].pos /\ Base(e) \in Nat /\ Base(e) >= Base(d) + dqd[d].n
      BY <1>11, <2>1, <2>4
    <3>3. Total' - Base(e)' <= HeldRows'
      BY <1>2, <1>3a, <1>4, <1>5, <1>6, <1>8, <3>1, <3>2
    <3>4. ASSUME Oldest(e)' PROVE Total' - Base(e)' = HeldRows'
      <4>1. \A g \in dFirst' .. e - 1 : dqd'[g].n = 0
        BY <3>4 DEF Oldest
      <4>2. dqd[d].n = x
        <5>1. CASE d < dFirst'
          BY <1>1, <1>1a, <5>1
        <5>2. CASE ~(d < dFirst')
          <6>1. d \in dFirst' .. e - 1 /\ d \in Live'
            BY <1>1, <1>3, <1>4, <2>1, <2>4, <5>2
          <6> QED
            BY <1>1, <1>1a, <1>4, <4>1, <6>1
        <5> QED
          BY <5>1, <5>2
      <4>3. ASSUME NEW g \in d + 1 .. e - 1 PROVE Rows(g) = 0
        <5>1. g \in Live /\ d < g /\ g # d /\ g \in Nat
          BY <1>3, <1>4, <2>1
        <5>2. dqd[g].n = 0
          <6>1. CASE g < dFirst'
            <7>1. g \in dFirst .. dFirst' - 1
              BY <1>1, <1>3, <5>1, <6>1, Below, ChainNumbers
            <7> QED
              BY <1>1, <1>1a, <5>1, <7>1
          <6>2. CASE ~(g < dFirst')
            <7>1. g \in dFirst' .. e - 1 /\ g \in Live'
              BY <1>1, <1>3, <2>1, <5>1, <6>2
            <7> QED
              BY <1>7, <4>1, <5>1, <7>1
          <6> QED
            BY <6>1, <6>2
        <5> QED
          BY <1>11, <5>1, <5>2, ChainNumbers
      <4>4. dqd[e].pos = dqd[d].pos + Rows(d)
        BY <2>1, <2>4, <4>3 DEF ChainOrder
      <4>5. Base(e) = Base(d) + dqd[d].n
        BY <1>4, <3>2, <4>4
      <4> QED
        BY <1>2, <1>3a, <1>4, <1>5, <1>6, <1>8, <3>1, <4>2, <4>5
    <3> QED
      BY <3>1, <3>3, <3>4
  <2> QED
    BY <1>4, <2>1, <2>2, <2>3, <2>4
<1>13. RingPlaced'
  BY <1>10, <1>12 DEF RingPlaced
<1> QED
  BY <1>6, <1>9, <1>13

\* dq_deref frees only descriptors without rows.
LEMMA DerefRing ==
  ASSUME IInv, ChainOrder, RingPlaced, NEW d \in Live, NEW u \in BOOLEAN, Deref(d, u),
         first' = first, last' = last, full' = full
  PROVE  ChainOrder' /\ RingPlaced' /\ HeldRows' = HeldRows
<1> DEFINE q == Moved(d, u)
<1>1. /\ dFirst \in Nat /\ dLast \in Nat /\ Live = dFirst .. dLast /\ dFirst \in Live
      /\ dLast > 0 /\ dFirst <= dLast
  BY ChainEnds DEF Live
<1>2. dLast' = dLast
  BY DEF Deref
<1>3. ASSUME NEW e \in Live
      PROVE  /\ q[e].pos = dqd[e].pos /\ q[e].n = dqd[e].n
             /\ q[e].expired = dqd[e].expired /\ q[e].start = dqd[e].start
  <2>1. dqd[e] \in Dqds
    BY ChainFields
  <2> QED
    BY <2>1 DEF Moved, Dqds
<1>4. PICK f \in Live : FreeBefore(q, f) /\ \A e \in dFirst .. f - 1 : q[e].n = 0
  <2>1. CASE q[d].ref = 0
    <3>1. PICK f \in Live : HeadAfter(q, d, f) /\ FreeBefore(q, f)
      BY <2>1 DEF Deref
    <3>2. \A e \in dFirst .. f - 1 : q[e].n = 0
      BY <1>1, <3>1 DEF HeadAfter, Garbage
    <3> QED
      BY <3>1, <3>2
  <2>2. CASE q[d].ref # 0
    <3>1. FreeBefore(q, dFirst) /\ dFirst .. dFirst - 1 = {}
      BY <1>1, <2>2 DEF Deref
    <3> QED
      BY <1>1, <3>1
  <2> QED
    BY <2>1, <2>2
<1> HIDE DEF q
<1>5. dFirst' = f /\ dqd' = [e \in f .. dLast |-> q[e]]
  BY <1>4 DEF FreeBefore
<1>6. f \in Nat /\ dFirst <= f /\ f <= dLast /\ Live' = f .. dLast
  BY <1>1, <1>2, <1>5 DEF Live
<1>7. \A e \in Live' : dqd'[e] = q[e] /\ e \in Live
  BY <1>1, <1>5, <1>6
<1>8. \A e \in dFirst .. f - 1 : dqd[e].n = 0
  <2>1. \A e \in dFirst .. f - 1 : e \in Live
    BY <1>1, <1>6
  <2> QED
    BY <1>3, <1>4, <2>1
<1>9. \A e \in Live' :
        /\ dqd'[e].pos = dqd[e].pos /\ dqd'[e].n = dqd[e].n
        /\ dqd'[e].expired = dqd[e].expired /\ dqd'[e].start = dqd[e].start
  BY <1>3, <1>7
<1> QED
  BY <1>2, <1>5, <1>6, <1>8, <1>9, ShrinkRing

\* A reader attaches to the first descriptor.
LEMMA ReplyInitRing ==
  ASSUME IInv, ChainOrder, RingPlaced, ReplyInit
  PROVE  ChainOrder' /\ RingPlaced' /\ HeldRows' = HeldRows
<1>1. /\ first' = first /\ last' = last /\ full' = full /\ dFirst' = dFirst /\ dLast' = dLast
      /\ dqd' = [dqd EXCEPT ![dFirst].ref = @ + 1]
  BY DEF ReplyInit, ringVars
<1>2. /\ dFirst \in Nat /\ (dLast > 0 => dFirst <= dLast) /\ DOMAIN dqd = Live /\ Live' = Live
      /\ dFirst .. dFirst' - 1 = {}
  BY <1>1, ChainEnds DEF Live
<1>3. \A e \in Live' :
        /\ dqd'[e].pos = dqd[e].pos /\ dqd'[e].n = dqd[e].n
        /\ dqd'[e].expired = dqd[e].expired /\ dqd'[e].start = dqd[e].start
  BY <1>1, <1>2, ChainFields DEF Dqds
<1> QED
  BY <1>1, <1>2, <1>3, ShrinkRing

\* The room found stays, while rows are neither sought nor placed.
LEMMA RoomStays ==
  ASSUME RoomKept, HeldRows' = HeldRows, pc' \notin {"expire", "place"},
         wr'.state # "DATA" \/ (wr.state = "DATA" /\ wr'.nbdata + wr'.offq = wr.nbdata + wr.offq)
  PROVE  RoomKept'
BY DEF RoomKept, Units

\* The steps that concern readers.
LEMMA ReaderRing ==
  ASSUME IInv, StreamInv, RingInv, ReaderStep PROVE RingInv'
<1>1. /\ wr' = wr /\ first' = first /\ last' = last /\ full' = full
      /\ pc' \in Waiting
  BY ReaderSteps
<1>2. ChainOrder /\ RingPlaced /\ RoomKept
  BY DEF RingInv
<1>3. ASSUME ChainOrder' /\ RingPlaced' /\ HeldRows' = HeldRows PROVE RingInv'
  <2>1. pc' \notin {"expire", "place"}
    BY <1>1 DEF Waiting
  <2>2. RoomKept'
    BY <1>1, <1>2, <1>3, <2>1, RoomStays
  <2> QED
    BY <1>3, <2>2 DEF RingInv
<1>4. ASSUME UNCHANGED chainVars PROVE RingInv'
  <2>1. SameChain
    BY <1>4 DEF chainVars, SameChain
  <2> QED
    BY <1>1, <1>2, <1>3, <2>1, SameChainRing
<1>5. CASE ReplyInit
  BY <1>2, <1>3, <1>5, ReplyInitRing
<1>6. CASE ReplyNextDqd
  <2>1. pc = "read" /\ rd[rq].dqd > 0 /\ Deref(rd[rq].dqd, TRUE)
    BY <1>6 DEF ReplyNextDqd, Attached, Reading
  <2>2. rd[rq].dqd \in Live
    BY <2>1, Served DEF Ocbs
  <2> QED
    BY <1>1, <1>2, <1>3, <2>1, <2>2, DerefRing
<1>7. ASSUME NEW r \in Readers, CloseReader(r) PROVE RingInv'
  <2>1. CASE rd[r].dqd # 0
    <3>1. rd[r].dqd \in Live /\ Deref(rd[r].dqd, FALSE)
      BY <1>7, <2>1, Parts DEF CloseReader, QueueInv, RefCounts
    <3> QED
      BY <1>1, <1>2, <1>3, <3>1, DerefRing
  <2>2. CASE rd[r].dqd = 0
    BY <1>4, <1>7, <2>2 DEF CloseReader
  <2> QED
    BY <2>1, <2>2
<1>8. CASE OpenWriter \/ CloseWriter \/ Shutdown \/ Terminated \/ RunReadQueue
  BY <1>4, <1>8 DEF OpenWriter, CloseWriter, Shutdown, Terminated, RunReadQueue, vars, chainVars
<1>9. CASE ReplyPartial \/ ReadBeforeInit \/ ReplyRows \/ ReplyDefer \/ ReplyStarved
  BY <1>4, <1>9 DEF ReplyPartial, ReadBeforeInit, ReplyRows, ReplyDefer, ReplyStarved
<1>10. CASE \E r \in Readers : OpenReader(r) \/ IoNotify(r) \/ ReadRequest(r)
  BY <1>4, <1>10 DEF OpenReader, IoNotify, ReadRequest, IoRead
<1> QED
  BY <1>5, <1>6, <1>7, <1>8, <1>9, <1>10 DEF ReaderStep, ReadReply

\* queue_tstamp in a ring that stays as it is.
LEMMA StampRing ==
  ASSUME IInv, ChainOrder, RingPlaced, QueueTstamp, first' = first, last' = last, full' = full
  PROVE  ChainOrder' /\ RingPlaced' /\ HeldRows' = HeldRows
BY AppendRing DEF QueueTstamp

\* TM info comes into an empty ring.
LEMMA ProcessTmInfoRing ==
  ASSUME IInv, StreamInv, ChainOrder, RingPlaced, ProcessTmInfo
  PROVE  ChainOrder' /\ RingPlaced' /\ HeldRows' = HeldRows
<1>1. pc = "info" /\ first' = 0 /\ last' = 0 /\ full' = FALSE /\ QueueTstamp
  BY DEF ProcessTmInfo
<1>2. Total = 0
  BY <1>1, ChainTotal DEF StreamInv, InfoRead
<1>3. HeldRows = 0 /\ last = 0 % TotalQrows /\ TotalQrows \in Nat \ {0}
  BY <1>2, RingNumbers DEF RingPlaced
<1>4. last = 0 /\ first = 0 /\ full = FALSE
  BY <1>3, RingNumbers
<1> QED
  BY <1>1, <1>4, StampRing

\* allocate_qrows, up to its loop.
LEMMA AllocateQrowsRing ==
  ASSUME IInv, RingInv, AllocateQrows PROVE RingInv'
<1>1. /\ first' = first /\ last' = last /\ full' = full /\ dFirst' = dFirst /\ wr' = wr
      /\ pc' = IF nreq' > 0 THEN "expire" ELSE "place"
      /\ IF ~full /\ last >= first
         THEN nfree' = Lesser(TotalQrows - last, RowsLeft) /\ nreq' = 0
         ELSE nfree' = Lesser(first - last, RowsLeft) /\ nreq' = RowsLeft - nfree'
  BY DEF AllocateQrows, ringVars, wrVars
<1>2. ChainOrder /\ RingPlaced /\ RoomKept
  BY DEF RingInv
<1>3. ChainOrder' /\ RingPlaced' /\ HeldRows' = HeldRows
  <2>1. CASE NeedDqd
    BY <1>1, <1>2, <2>1, AppendRing DEF AllocateQrows
  <2>2. CASE ~NeedDqd
    <3>1. dqd' = dqd /\ tsq' = tsq /\ dLast' = dLast /\ nts' = nts
      BY <2>2 DEF AllocateQrows
    <3> QED
      BY <1>1, <1>2, <3>1, SameChainRing DEF SameChain
  <2> QED
    BY <2>1, <2>2
<1>4. /\ first \in 0 .. TotalQrows - 1 /\ last \in 0 .. TotalQrows - 1
      /\ full \in BOOLEAN /\ (full => first = last) /\ TotalQrows \in Nat \ {0}
      /\ RowsLeft \in Nat /\ RowsLeft > 0
  BY Parts, RingNumbers, RowsLeftNat
<1>5. nfree' + HeldRows <= TotalQrows /\ (pc' = "expire" /\ nfree' = 0 => full')
  <2>1. CASE ~full /\ last >= first
    <3>1. nfree' <= TotalQrows - last /\ HeldRows = last - first /\ nreq' = 0 /\ nfree' \in Int
      BY <1>1, <1>4, <2>1 DEF Lesser, HeldRows
    <3>2. pc' = "place" /\ first \in Nat /\ last \in Nat /\ TotalQrows \in Nat
      BY <1>1, <1>4, <3>1
    <3>a. PICK n \in Int : n = nfree'
      BY <3>1
    <3>b. n <= TotalQrows - last /\ first \in Int /\ last \in Int /\ TotalQrows \in Int
      BY <3>1, <3>2, <3>a
    <3>c. first >= 0
      BY <3>2
    <3>3. n + (last - first) <= TotalQrows
      BY <3>b, <3>c, RoomBehind
    <3>4. nfree' + HeldRows <= TotalQrows
      BY <3>1, <3>3, <3>a
    <3> QED
      BY <3>2, <3>4
  <2>2. CASE full
    <3>1. nfree' = 0 /\ HeldRows = TotalQrows
      BY <1>1, <1>4, <2>2 DEF Lesser, HeldRows
    <3> QED
      BY <1>1, <1>4, <2>2, <3>1
  <2>3. CASE ~full /\ last < first
    <3>1. nfree' <= first - last /\ HeldRows = TotalQrows + last - first /\ nfree' > 0
          /\ nfree' \in Int
      BY <1>1, <1>4, <2>3 DEF Lesser, HeldRows
    <3>2. first \in Nat /\ last \in Nat /\ TotalQrows \in Nat
      BY <1>4
    <3>a. PICK n \in Int : n = nfree'
      BY <3>1
    <3>b. n <= first - last /\ first \in Int /\ last \in Int /\ TotalQrows \in Int
      BY <3>1, <3>2, <3>a
    <3>3. n + (TotalQrows + last - first) <= TotalQrows
      BY <3>b, RoomBetween
    <3>4. nfree' + HeldRows <= TotalQrows
      BY <3>1, <3>3, <3>a
    <3> QED
      BY <3>1, <3>4
  <2> QED
    BY <1>4, <2>1, <2>2, <2>3
<1>6. RoomKept'
  BY <1>1, <1>2, <1>3, <1>5 DEF RoomKept, Units
<1> QED
  BY <1>3, <1>6 DEF RingInv

\* One turn of allocate_qrows's loop.
LEMMA ExpireRowsRing ==
  ASSUME IInv, RingInv, ExpireRows PROVE RingInv'
<1>1. /\ pc = "expire" /\ last' = last /\ wr' = wr
      /\ ChainOrder /\ RingPlaced /\ RoomKept
  BY DEF ExpireRows, wrVars, RingInv
<1>2. PICK d \in Live : \E x \in 0 .. dqd[d].n :
        /\ Oldest(d) /\ IsExpirable(d, x)
        /\ IF x = 0
           THEN pc' = "place" /\ UNCHANGED <<first, full, chainVars, nreq, nfree>>
           ELSE Expire(d, x)
  BY DEF ExpireRows
<1>3. PICK x \in 0 .. dqd[d].n :
        /\ Oldest(d) /\ IsExpirable(d, x)
        /\ IF x = 0
           THEN pc' = "place" /\ UNCHANGED <<first, full, chainVars, nreq, nfree>>
           ELSE Expire(d, x)
  BY <1>2
<1>4. x \in Nat /\ nfree \in Nat /\ wr \in Wrs
  BY ChainNumbers, ControlTypes, Parts, WriterTypes
<1>5. CASE x = 0
  <2>1. pc' = "place" /\ first' = first /\ full' = full /\ nfree' = nfree /\ SameChain
    BY <1>3, <1>5 DEF chainVars, SameChain
  <2>2. ChainOrder' /\ RingPlaced' /\ HeldRows' = HeldRows
    BY <1>1, <2>1, SameChainRing
  <2>3. RoomKept'
    BY <1>1, <2>1, <2>2 DEF RoomKept, Units
  <2> QED
    BY <2>2, <2>3 DEF RingInv
<1>6. CASE x # 0
  <2>1. x > 0 /\ Expire(d, x) /\ Oldest(d) /\ IsExpirable(d, x)
    BY <1>3, <1>4, <1>6
  <2>2. ChainOrder' /\ RingPlaced' /\ HeldRows' = HeldRows - x
    BY <1>1, <1>4, <2>1, ExpireRing
  <2>3. nfree' = nfree + x
    BY <1>4, <2>1, RowsExpired
  <2>4. /\ HeldRows \in Nat /\ HeldRows <= TotalQrows /\ TotalQrows \in Nat
        /\ nfree + HeldRows <= TotalQrows
    BY <1>1, RingNumbers DEF RoomKept
  <2>5. wr.state = "DATA" => wr.nbdata + wr.offq <= Units(TotalQrows - HeldRows')
    <3>1. TotalQrows - HeldRows \in Nat /\ TotalQrows - HeldRows' \in Nat
          /\ TotalQrows - HeldRows <= TotalQrows - HeldRows'
      BY <1>4, <2>2, <2>4
    <3>2. /\ Units(TotalQrows - HeldRows) <= Units(TotalQrows - HeldRows')
          /\ Units(TotalQrows - HeldRows) \in Nat /\ Units(TotalQrows - HeldRows') \in Nat
      BY <3>1, UnitsLeq, UnitsNat
    <3>3. wr.nbdata \in Nat /\ wr.offq \in Nat
      BY <1>4 DEF Wrs
    <3> QED
      BY <1>1, <3>2, <3>3 DEF RoomKept
  <2>6. nfree' + HeldRows' <= TotalQrows /\ nfree' # 0
    BY <1>4, <2>1, <2>2, <2>3, <2>4
  <2>7. RoomKept'
    BY <1>1, <2>5, <2>6 DEF RoomKept, Units
  <2> QED
    BY <2>2, <2>7 DEF RingInv
<1> QED
  BY <1>5, <1>6

\* The rows found are to be filled.
LEMMA PlaceRowsRing ==
  ASSUME IInv, RingInv, PlaceRows PROVE RingInv'
<1>1. /\ pc = "place" /\ first' = first /\ last' = last /\ full' = full
      /\ pc' \notin {"expire", "place"} /\ SameChain
      /\ wr' = [wr EXCEPT !.state = IF nfree > 0 THEN "DATA" ELSE wr.state,
                          !.nbdata = Units(nfree) - ExcessHere, !.offq = ExcessHere,
                          !.nbrec = wr.nbrec - ExcessHere]
      /\ ChainOrder /\ RingPlaced /\ RoomKept
  BY DEF PlaceRows, chainVars, SameChain, RingInv
<1>2. ChainOrder' /\ RingPlaced' /\ HeldRows' = HeldRows
  BY <1>1, SameChainRing
<1>3. /\ nfree \in Nat /\ Units(nfree) \in Nat /\ ExcessHere \in Nat
      /\ HeldRows \in Nat /\ TotalQrows \in Nat /\ nfree + HeldRows <= TotalQrows
  BY <1>1, ControlTypes, UnitsNat, RingNumbers
     DEF RoomKept, ExcessHere, Excess, HdrUnits, DataHdr
<1>4. wr'.nbdata = Units(nfree) - ExcessHere /\ wr'.offq = ExcessHere
  BY <1>1, Parts, WriterTypes DEF Wrs
<1>5. wr'.nbdata + wr'.offq = Units(nfree)
  BY <1>3, <1>4
<1>6. Units(nfree) <= Units(TotalQrows - HeldRows)
  <2>1. TotalQrows - HeldRows \in Nat /\ nfree <= TotalQrows - HeldRows
    BY <1>3
  <2> QED
    BY <1>3, <2>1, UnitsLeq
<1>7. RoomKept'
  BY <1>1, <1>2, <1>5, <1>6 DEF RoomKept, Units
<1> QED
  BY <1>2, <1>7 DEF RingInv

\* The steps that read the message or end a write.
LEMMA ReceivingRing ==
  ASSUME IInv, StreamInv, RingInv,
         \/ Writing \/ MsgReadFails \/ BadHeader \/ MsgReadChunk \/ InitHeader
         \/ DataHeader \/ EvalReturn \/ DoWriteReply \/ DoWriteBlock \/ RunWriteQueue
  PROVE  RingInv'
<1>1. first' = first /\ last' = last /\ full' = full /\ SameChain
  BY DEF Writing, IoWrite, MsgReadFails, BadHeader, FailWrite, MsgReadChunk, InitHeader,
         DataHeader, EvalReturn, DoWriteReply, DoWriteBlock, RunWriteQueue, ringVars,
         chainVars, SameChain
<1>2. ChainOrder /\ RingPlaced /\ RoomKept
  BY DEF RingInv
<1>3. ChainOrder' /\ RingPlaced' /\ HeldRows' = HeldRows
  BY <1>1, <1>2, SameChainRing
<1>4. wr \in Wrs
  BY Parts, WriterTypes
<1>5. /\ pc' \notin {"expire", "place"}
      /\ \/ wr'.state # "DATA"
         \/ wr.state = "DATA" /\ wr'.nbdata + wr'.offq = wr.nbdata + wr.offq
  <2>1. CASE Writing
    BY <1>4, <2>1 DEF Writing, IoWrite, Wrs
  <2>2. CASE MsgReadFails \/ BadHeader
    <3>1. wr' = HdrState([wr EXCEPT !.nbmsg = 0, !.pending = FALSE]) /\ pc' = "idle"
      BY <2>2 DEF MsgReadFails, BadHeader, FailWrite, Return
    <3> QED
      BY <1>4, <3>1 DEF HdrState, Wrs
  <2>3. CASE MsgReadChunk
    <3> DEFINE nb == Lesser(wr.nbmsg, wr.nbdata)
    <3>1. wr' = Received(nb) /\ pc' \in {"write", "eval", "hdr", "info"}
      BY <2>3 DEF MsgReadChunk
    <3>2. nb \in Nat /\ wr.nbdata \in Nat /\ wr.offq \in Nat
      BY <1>4 DEF Wrs, Lesser
    <3> HIDE DEF nb
    <3>3. /\ wr'.state = wr.state /\ wr'.nbdata = wr.nbdata - nb
          /\ wr.state = "DATA" => wr'.offq = wr.offq + nb
      BY <1>4, <3>1 DEF Received, Wrs
    <3> QED
      BY <3>1, <3>2, <3>3
  <2>4. CASE InitHeader
    BY <1>4, <2>4 DEF InitHeader, Wrs
  <2>5. CASE DataHeader
    <3>1. pc = "hdr" /\ pc' = "eval" /\ wr' = [wr EXCEPT !.nbrec = Units(hdr.n), !.offq = 0]
      BY <2>5 DEF DataHeader
    <3> QED
      BY <1>4, <3>1 DEF StreamInv, Wrs
  <2>6. CASE EvalReturn
    <3>1. pc' \in {"write", "idle"} /\ (wr' = wr \/ wr' = HdrState(wr))
      BY <2>6 DEF EvalReturn, EndRecord, Return
    <3> QED
      BY <1>4, <3>1 DEF HdrState, Wrs
  <2>7. CASE DoWriteReply
    BY <1>4, <2>7 DEF DoWriteReply, ToReadQueue, Return, Wrs
  <2>8. CASE DoWriteBlock
    BY <1>4, <2>8 DEF DoWriteBlock, ToReadQueue, Wrs
  <2>9. CASE RunWriteQueue
    BY <1>4, <2>9 DEF RunWriteQueue, Return, wrVars, Wrs
  <2> QED
    BY <2>1, <2>2, <2>3, <2>4, <2>5, <2>6, <2>7, <2>8, <2>9
<1>6. RoomKept'
  BY <1>2, <1>3, <1>5, RoomStays
<1> QED
  BY <1>3, <1>6 DEF RingInv

\* Every step.
LEMMA RingStep ==
  ASSUME DataType = "T3", IInv, StreamInv, RingInv, [Next]_vars PROVE RingInv'
<1>1. ChainOrder /\ RingPlaced /\ RoomKept
  BY DEF RingInv
<1>2. CASE UNCHANGED vars
  <2>1. /\ SameChain /\ first' = first /\ last' = last /\ full' = full /\ wr' = wr
        /\ pc' = pc /\ nfree' = nfree
    BY <1>2 DEF vars, chainVars, ringVars, wrVars, evalVars, SameChain
  <2>2. ChainOrder' /\ RingPlaced' /\ HeldRows' = HeldRows
    BY <1>1, <2>1, SameChainRing
  <2> QED
    BY <1>1, <2>1, <2>2 DEF RingInv, RoomKept, Units
<1>3. CASE ReaderStep
  BY <1>3, ReaderRing
<1>4. CASE CommitRows
  BY <1>1, <1>4, CommitRing DEF RingInv
<1>5. CASE TstampHeader \/ ProcessTmInfo
  <2>1. ChainOrder' /\ RingPlaced' /\ HeldRows' = HeldRows
    <3>1. CASE TstampHeader
      BY <1>1, <3>1, StampRing DEF TstampHeader, ringVars
    <3> QED
      BY <1>1, <1>5, <3>1, ProcessTmInfoRing
  <2>2. wr' = HdrState(wr) /\ pc' = "write" /\ wr \in Wrs
    BY <1>5, Parts, WriterTypes DEF TstampHeader, ProcessTmInfo
  <2>3. wr'.state # "DATA"
    BY <2>2 DEF HdrState, Wrs
  <2> QED
    BY <1>1, <2>1, <2>2, <2>3, RoomStays DEF RingInv
<1> QED
  BY <1>2, <1>3, <1>4, <1>5, ReceivingRing, AllocateQrowsRing, ExpireRowsRing, PlaceRowsRing,
     Steps DEF WriterStep

\* The server starts with an empty ring, no descriptor and no record begun.
LEMMA RingInit == ASSUME Init PROVE StreamInv /\ RoomFound /\ RingInv
<1>1. /\ first = 0 /\ last = 0 /\ full = FALSE /\ dFirst = 1 /\ dLast = 0
      /\ pc = "idle" /\ ret = "write" /\ left = 0 /\ blockedWriter = FALSE /\ nfree = 0
      /\ hdr = [kind |-> "NONE", n |-> 0, frame |-> 0]
      /\ wr = [state |-> "HDR", nbdata |-> HdrUnits, nbmsg |-> 0, nbrec |-> 0,
               offq |-> 0, pending |-> FALSE]
  BY DEF Init
<1>2. ~AfterHeader /\ HeaderRead
  BY <1>1 DEF AfterHeader, HeaderRead, Outstanding, Busy, Evaluating, HdrUnits
<1>3. StreamInv /\ RoomFound
  BY <1>1, <1>2 DEF StreamInv, RoomFound, Busy, Evaluating, HdrUnits
<1>4. Live = {} /\ Total = 0 /\ HeldRows = 0 /\ 0 % TotalQrows = 0
  BY <1>1, ConstType DEF Live, Total, HeldRows
<1>5. RingInv
  BY <1>1, <1>4 DEF RingInv, ChainOrder, RingPlaced, RoomKept
<1> QED
  BY <1>3, <1>5

\* The parts of the ring's invariant say that it is tiled.
LEMMA Tiled == ASSUME IInv, RingInv PROVE RingTiled
<1>1. ChainOrder /\ RingPlaced /\ ChainInv
  BY DEF RingInv, IInv
<1>2. SUFFICES ASSUME NEW d \in Live
      PROVE  /\ d < dLast => dqd[d + 1].pos = dqd[d].pos + Rows(d)
             /\ dqd[d].n > 0 =>
                  /\ dqd[d].start = (dqd[d].pos + dqd[d].expired) % TotalQrows
                  /\ \A e \in d + 1 .. dLast : dqd[e].expired = 0
                  /\ Total - (dqd[d].pos + dqd[d].expired) <= TotalQrows
                  /\ Oldest(d) =>
                       /\ first = dqd[d].start
                       /\ full <=> Total - (dqd[d].pos + dqd[d].expired) = TotalQrows
             /\ last = Total % TotalQrows
             /\ (\A e \in Live : dqd[e].n = 0) => first = last /\ ~full
  BY DEF RingTiled
<1>3. d < dLast => dqd[d + 1].pos = dqd[d].pos + Rows(d)
  <2>1. d < dLast => d \in dFirst .. dLast - 1
    BY ChainEnds
  <2> QED
    BY <1>1, <2>1 DEF ChainInv
<1>4. last = Total % TotalQrows /\ dqd[d].start = Base(d) % TotalQrows
  BY <1>1 DEF RingPlaced
<1>5. Base(d) = dqd[d].pos + dqd[d].expired
  BY DEF Base
<1>6. ASSUME dqd[d].n > 0, NEW e \in d + 1 .. dLast PROVE dqd[e].expired = 0
  <2>1. e \in Live /\ d < e
    BY ChainEnds, ChainNumbers
  <2> QED
    BY <1>1, <1>6, <2>1 DEF ChainOrder
<1>7. dqd[d].n > 0 => Total - Base(d) <= TotalQrows
  <2>1. dqd[d].n > 0 => Total - Base(d) <= HeldRows
    BY <1>1 DEF RingPlaced
  <2> QED
    BY <1>1, <2>1, RingNumbers, ChainTotal, ChainNumbers
<1>8. ASSUME Oldest(d)
      PROVE  first = dqd[d].start /\ (full <=> Total - Base(d) = TotalQrows)
  <2>1. dqd[d].start = first /\ Total = Base(d) + HeldRows
    BY <1>1, <1>8, OldestIsFirst
  <2> QED
    BY <2>1, RingNumbers, ChainNumbers
<1>9. ASSUME \A e \in Live : dqd[e].n = 0 PROVE first = last /\ ~full
  <2>1. dLast \in Live /\ dLast > 0
    BY ChainEnds, ChainNumbers
  <2>2. Oldest(dLast)
    BY <1>9, <2>1 DEF Oldest, Live
  <2>3. Total = Base(dLast) + HeldRows /\ Total = Base(dLast) + dqd[dLast].n
    BY <1>1, <2>1, <2>2, OldestIsFirst, ChainTotal
  <2>4. HeldRows = 0
    BY <1>9, <2>1, <2>3, RingNumbers, ChainNumbers
  <2> QED
    BY <2>4, RingNumbers
<1> QED
  BY <1>3, <1>4, <1>5, <1>6, <1>7, <1>8, <1>9

\* What the step lemmas carry along, in every state the server can reach.
LEMMA RingStays ==
  ASSUME Labelling PROVE Spec => [](IInv /\ StreamInv /\ RoomFound /\ RingInv)
<1> DEFINE Inv == IInv /\ StreamInv /\ RoomFound /\ RingInv
<1>1. Init => Inv
  BY InitInv, RingInit
<1>2. Inv /\ [Next]_vars => Inv'
  <2> SUFFICES ASSUME Inv, [Next]_vars PROVE Inv'
    OBVIOUS
  <2>1. DataType = "T3" /\ RingPlaced /\ RoomKept
    BY DEF Labelling, RingInv
  <2>2. IInv'
    BY NextInv
  <2>3. StreamInv' /\ RoomFound'
    BY <2>1, StreamStep
  <2>4. RingInv'
    BY <2>1, RingStep
  <2> QED
    BY <2>2, <2>3, <2>4
<1> QED
  BY <1>1, <1>2, PTL DEF Spec

\* The descriptors partition the ring: whatever is committed, expired or freed,
\* in whatever order readers and writer take turns, commit_rows, allocate_qrows
\* and dq_deref keep first, last and full in step with the chain.
THEOREM RingPartitioned == ASSUME Labelling PROVE Spec => []RingTiled
<1>1. IInv /\ StreamInv /\ RoomFound /\ RingInv => RingTiled
  BY Tiled
<1> QED
  BY <1>1, RingStays, PTL

-----------------------------------------------------------------------------
(* The chain, as the rows see it *)

\* What a step may not change of a live descriptor
SameFields(e) ==
  /\ dqd'[e].pos = dqd[e].pos /\ dqd'[e].n = dqd[e].n /\ dqd'[e].expired = dqd[e].expired
  /\ dqd'[e].mfctr = dqd[e].mfctr /\ dqd'[e].ts = dqd[e].ts

\* The newest descriptor stays, others may go
ChainKept ==
  /\ dLast' = dLast /\ Live' \subseteq Live /\ (dLast > 0 => dLast \in Live')
  /\ dLast = 0 => dqd' = dqd
  /\ \A e \in Live' : SameFields(e)

\* Descriptors are freed, and the stamps that only they used.
LEMMA FreeStamps ==
  ASSUME IInv, TsInv, NEW q, NEW f \in Live, FreeBefore(q, f), dLast' = dLast, nts' = nts,
         \A e \in Live : q[e].ts = dqd[e].ts
  PROVE  TsInv'
<1>1. /\ dFirst \in Nat \ {0} /\ dLast \in Nat /\ Live = dFirst .. dLast
      /\ f \in Nat /\ dFirst <= f /\ f <= dLast
  BY ChainEnds, ChainNumbers
<1> DEFINE Freed(t) == Cardinality({e \in dFirst .. f - 1 : q[e].ts = t})
           Kept(t) == {e \in f .. dLast : q[e].ts = t}
           Used(t) == {e \in Live : dqd[e].ts = t}
           S == {t \in DOMAIN tsq : tsq[t] > Freed(t)}
<1>2. /\ dFirst' = f /\ dqd' = [e \in f .. dLast |-> q[e]]
      /\ tsq' = [t \in S |-> tsq[t] - Freed(t)]
  BY DEF FreeBefore
<1>3. Live' = f .. dLast
  BY <1>2 DEF Live
<1>4. ASSUME NEW t
      PROVE  /\ IsFiniteSet(Kept(t)) /\ Cardinality(Kept(t)) \in Nat /\ Freed(t) \in Nat
             /\ Cardinality(Used(t)) = Freed(t) + Cardinality(Kept(t))
  <2> DEFINE F == {e \in dFirst .. f - 1 : q[e].ts = t}
  <2>1. IsFiniteSet(dFirst .. f - 1) /\ IsFiniteSet(f .. dLast)
    BY <1>1, FS_Interval
  <2>2. IsFiniteSet(F) /\ IsFiniteSet(Kept(t))
    BY <2>1, FS_Subset
  <2>3. Used(t) = F \cup Kept(t) /\ F \cap Kept(t) = {}
    BY <1>1
  <2>4. /\ Cardinality(F) \in Nat /\ Cardinality(Kept(t)) \in Nat /\ Cardinality({}) = 0
        /\ Cardinality(F \cup Kept(t)) = Cardinality(F) + Cardinality(Kept(t)) - Cardinality(F \cap Kept(t))
    BY <2>2, FS_CardinalityType, FS_EmptySet, FS_Union
  <2>5. Freed(t) = Cardinality(F)
    OBVIOUS
  <2> HIDE DEF Used, Kept, Freed, F
  <2>6. /\ Cardinality(F \cap Kept(t)) = 0
        /\ Cardinality(Used(t)) = Cardinality(F) + Cardinality(Kept(t)) - Cardinality(F \cap Kept(t))
    <3>1. Cardinality(F \cap Kept(t)) = Cardinality({})
      BY <2>3
    <3>2. Cardinality(Used(t)) = Cardinality(F \cup Kept(t))
      BY <2>3
    <3> QED
      BY <2>4, <3>1, <3>2
  <2> QED
    BY <2>2, <2>4, <2>5, <2>6
<1>5. /\ DOMAIN tsq = {dqd[d].ts : d \in Live} /\ DOMAIN tsq \subseteq 1 .. nts
      /\ \A t \in DOMAIN tsq : tsq[t] = Cardinality(Used(t))
  BY DEF TsInv, TsRefs
<1>6. \A t \in DOMAIN tsq : tsq[t] - Freed(t) = Cardinality(Kept(t))
                            /\ (tsq[t] > Freed(t) <=> Cardinality(Kept(t)) # 0)
  <2> SUFFICES ASSUME NEW t \in DOMAIN tsq
               PROVE  /\ tsq[t] - Freed(t) = Cardinality(Kept(t))
                      /\ (tsq[t] > Freed(t) <=> Cardinality(Kept(t)) # 0)
    OBVIOUS
  <2>1. /\ tsq[t] = Freed(t) + Cardinality(Kept(t))
        /\ Freed(t) \in Nat /\ Cardinality(Kept(t)) \in Nat
    BY <1>4, <1>5
  <2> HIDE DEF Freed, Kept
  <2> QED
    BY <2>1
<1>7. \A t \in DOMAIN tsq : Cardinality(Kept(t)) # 0 <=> Kept(t) # {}
  BY <1>4, FS_EmptySet
<1>8. DOMAIN tsq' = S /\ \A t \in S : tsq'[t] = Cardinality(Kept(t))
  <2> HIDE DEF Freed, Kept
  <2> QED
    BY <1>2, <1>6
<1>9. S = {t \in DOMAIN tsq : Kept(t) # {}}
  BY <1>6, <1>7
<1>10. S = {dqd'[d].ts : d \in Live'}
  <2>1. \A t \in S : \E d \in Live' : dqd'[d].ts = t
    BY <1>2, <1>3, <1>9
  <2>2. ASSUME NEW d \in Live' PROVE dqd'[d].ts \in S
    <3>1. d \in f .. dLast /\ d \in Live /\ dqd'[d].ts = q[d].ts /\ q[d].ts = dqd[d].ts
      BY <1>1, <1>2, <1>3
    <3>2. dqd[d].ts \in DOMAIN tsq /\ d \in Kept(dqd[d].ts)
      BY <1>5, <3>1
    <3> QED
      BY <1>9, <3>1, <3>2
  <2> HIDE DEF S
  <2> QED
    BY <2>1, <2>2
<1>11. \A t \in S : tsq'[t] = Cardinality({d \in Live' : dqd'[d].ts = t})
  <2> SUFFICES ASSUME NEW t \in S PROVE tsq'[t] = Cardinality({d \in Live' : dqd'[d].ts = t})
    OBVIOUS
  <2>1. {d \in Live' : dqd'[d].ts = t} = Kept(t)
    BY <1>1, <1>2, <1>3
  <2> HIDE DEF S, Kept
  <2> QED
    BY <1>8, <2>1
<1>12. S \subseteq 1 .. nts
  BY <1>5
<1> HIDE DEF S, Kept, Used
<1> QED
  BY <1>8, <1>10, <1>11, <1>12 DEF TsInv, TsRefs

\* A step that changes other things about the descriptors.
LEMMA SameStamps ==
  ASSUME TsInv, tsq' = tsq, nts' = nts, Live' = Live, \A e \in Live : dqd'[e].ts = dqd[e].ts
  PROVE  TsInv'
<1>1. {dqd'[d].ts : d \in Live'} = {dqd[d].ts : d \in Live}
  OBVIOUS
<1>2. \A t : {d \in Live' : dqd'[d].ts = t} = {d \in Live : dqd[d].ts = t}
  OBVIOUS
<1> QED
  BY <1>1, <1>2 DEF TsInv, TsRefs

\* A descriptor is appended, with stamp ts.
LEMMA AppendStamp ==
  ASSUME IInv, TsInv, NEW ts, NEW m, dqd' = Append1(NewDqd(ts, m)), dFirst' = dFirst,
         dLast' = dLast + 1, nts' \in Nat, nts <= nts',
         \/ nts' = nts /\ ts \in DOMAIN tsq /\ tsq' = [tsq EXCEPT ![ts] = @ + 1]
         \/ /\ nts' = nts + 1 /\ ts = nts + 1
            /\ tsq' = [t \in DOMAIN tsq \cup {nts + 1} |-> IF t = nts + 1 THEN 1 ELSE tsq[t]]
  PROVE  TsInv'
<1>1. /\ dFirst \in Nat \ {0} /\ dLast \in Nat /\ Live = dFirst .. dLast /\ dFirst <= dLast + 1
      /\ nts \in Nat
  BY ChainEnds DEF IInv, TypeOK, ChainType
<1>2. Live' = Live \cup {dLast + 1} /\ dLast + 1 \notin Live
  BY <1>1 DEF Live
<1>3. dqd'[dLast + 1].ts = ts /\ \A e \in Live : dqd'[e].ts = dqd[e].ts
  BY <1>1 DEF Append1, NewDqd
<1> DEFINE Used(t) == {e \in Live : dqd[e].ts = t}
           Uses(t) == {d \in Live' : dqd'[d].ts = t}
<1>4. /\ DOMAIN tsq = {dqd[d].ts : d \in Live} /\ DOMAIN tsq \subseteq 1 .. nts
      /\ \A t \in DOMAIN tsq : tsq[t] = Cardinality(Used(t))
  BY DEF TsInv, TsRefs
<1>5. DOMAIN tsq' = DOMAIN tsq \cup {ts} /\ DOMAIN tsq' \subseteq 1 .. nts'
  <2>1. CASE nts' = nts
    <3>1. ts \in DOMAIN tsq /\ DOMAIN tsq' = DOMAIN tsq
      BY <1>1, <2>1
    <3> QED
      BY <1>4, <2>1, <3>1
  <2>2. CASE nts' # nts
    <3>1. nts' = nts + 1 /\ ts = nts + 1 /\ DOMAIN tsq' = DOMAIN tsq \cup {nts + 1}
      BY <2>2
    <3>2. 1 .. nts \subseteq 1 .. nts' /\ ts \in 1 .. nts'
      BY <1>1, <3>1
    <3> QED
      BY <1>4, <3>1, <3>2
  <2> QED
    BY <2>1, <2>2
<1>6. DOMAIN tsq' = {dqd'[d].ts : d \in Live'}
  BY <1>2, <1>3, <1>4, <1>5
<1>7. ASSUME NEW t \in DOMAIN tsq, t # ts PROVE tsq'[t] = Cardinality(Uses(t))
  <2>1. Uses(t) = Used(t)
    BY <1>2, <1>3, <1>7
  <2>2. tsq'[t] = tsq[t]
    BY <1>4, <1>7
  <2> HIDE DEF Uses, Used
  <2> QED
    BY <1>4, <2>1, <2>2
<1>8. tsq'[ts] = Cardinality(Uses(ts))
  <2>1. Uses(ts) = Used(ts) \cup {dLast + 1} /\ dLast + 1 \notin Used(ts)
    BY <1>2, <1>3
  <2>2. IsFiniteSet(Used(ts))
    <3>1. IsFiniteSet(Live) /\ Used(ts) \in SUBSET Live
      BY <1>1, FS_Interval
    <3> HIDE DEF Used
    <3> QED
      BY <3>1, FS_Subset
  <2>3. Cardinality(Uses(ts)) = Cardinality(Used(ts)) + 1
    BY <2>1, <2>2, FS_AddElement
  <2>4. CASE ts \in DOMAIN tsq
    <3>1. tsq'[ts] = tsq[ts] + 1
      BY <1>1, <1>4, <2>4
    <3> HIDE DEF Uses, Used
    <3> QED
      BY <1>4, <2>3, <2>4, <3>1
  <2>5. CASE ts \notin DOMAIN tsq
    <3>1. tsq'[ts] = 1
      BY <2>5
    <3>2. Used(ts) = {}
      BY <1>4, <2>5
    <3> HIDE DEF Uses, Used
    <3> QED
      BY <2>3, <3>1, <3>2, FS_EmptySet
  <2> QED
    BY <2>4, <2>5
<1>9. \A t \in DOMAIN tsq' : tsq'[t] = Cardinality(Uses(t))
  <2> HIDE DEF Uses
  <2> QED
    BY <1>5, <1>7, <1>8
<1> QED
  BY <1>5, <1>6, <1>9 DEF TsInv, TsRefs

\* dq_deref frees old descriptors and changes reference counts only.
LEMMA DerefKeeps ==
  ASSUME IInv, NEW d \in Live, NEW u \in BOOLEAN, Deref(d, u)
  PROVE  ChainKept /\ (TsInv => TsInv')
<1> DEFINE q == Moved(d, u)
<1>1. /\ dFirst \in Nat \ {0} /\ dLast \in Nat /\ Live = dFirst .. dLast /\ dFirst \in Live
      /\ dLast > 0 /\ dFirst <= dLast
  BY ChainEnds DEF Live
<1>2. dLast' = dLast /\ nts' = nts
  BY DEF Deref
<1>3. ASSUME NEW e \in Live
      PROVE  /\ q[e].pos = dqd[e].pos /\ q[e].n = dqd[e].n /\ q[e].expired = dqd[e].expired
             /\ q[e].mfctr = dqd[e].mfctr /\ q[e].ts = dqd[e].ts
  <2>1. dqd[e] \in Dqds
    BY ChainFields
  <2> QED
    BY <2>1 DEF Moved, Dqds
<1>4. PICK f \in Live : FreeBefore(q, f)
  BY <1>1 DEF Deref
<1> HIDE DEF q
<1>5. dFirst' = f /\ dqd' = [e \in f .. dLast |-> q[e]] /\ f \in Nat /\ dFirst <= f /\ f <= dLast
  BY <1>1, <1>4 DEF FreeBefore
<1>6. Live' = f .. dLast
  BY <1>2, <1>5 DEF Live
<1>7. \A e \in Live' : e \in Live /\ dqd'[e] = q[e]
  BY <1>1, <1>5, <1>6
<1>8. ChainKept
  BY <1>1, <1>2, <1>3, <1>5, <1>6, <1>7 DEF ChainKept, SameFields
<1>9. TsInv => TsInv'
  BY <1>2, <1>3, <1>4, FreeStamps
<1> QED
  BY <1>8, <1>9

\* Steps that leave the chain alone.
LEMMA ChainSame == ASSUME IInv, UNCHANGED chainVars PROVE ChainKept /\ (TsInv => TsInv')
<1>1. dFirst' = dFirst /\ dLast' = dLast /\ dqd' = dqd /\ tsq' = tsq /\ nts' = nts
  BY DEF chainVars
<1>2. Live' = Live
  BY <1>1 DEF Live
<1>3. ChainKept
  BY <1>1, <1>2, ChainEnds DEF ChainKept, SameFields
<1>4. TsInv => TsInv'
  BY <1>1, <1>2, SameStamps
<1> QED
  BY <1>3, <1>4

\* The steps that concern readers, for the chain.
LEMMA ReaderChain ==
  ASSUME IInv, ReaderStep PROVE ChainKept /\ (TsInv => TsInv')
<1>1. CASE ReplyInit
  <2>1. /\ dFirst' = dFirst /\ dLast' = dLast /\ tsq' = tsq /\ nts' = nts
        /\ dqd' = [dqd EXCEPT ![dFirst].ref = @ + 1]
    BY <1>1 DEF ReplyInit
  <2>2. Live' = Live
    BY <2>1 DEF Live
  <2>3. \A e \in Live : SameFields(e)
    BY <2>1, ChainEnds, ChainFields DEF Dqds, SameFields
  <2>4. ChainKept
    BY <1>1, <2>1, <2>2, <2>3, ChainEnds DEF ChainKept, ReplyInit
  <2> QED
    BY <2>1, <2>2, <2>3, <2>4, SameStamps DEF SameFields
<1>2. CASE ReplyNextDqd
  <2>1. pc = "read" /\ rd[rq].dqd > 0 /\ Deref(rd[rq].dqd, TRUE)
    BY <1>2 DEF ReplyNextDqd, Attached, Reading
  <2>2. rd[rq].dqd \in Live
    BY <2>1, Served DEF Ocbs
  <2> QED
    BY <2>1, <2>2, DerefKeeps
<1>3. ASSUME NEW r \in Readers, CloseReader(r) PROVE ChainKept /\ (TsInv => TsInv')
  <2>1. CASE rd[r].dqd # 0
    <3>1. rd[r].dqd \in Live /\ Deref(rd[r].dqd, FALSE)
      BY <1>3, <2>1, Parts DEF CloseReader, QueueInv, RefCounts
    <3> QED
      BY <3>1, DerefKeeps
  <2>2. CASE rd[r].dqd = 0
    BY <1>3, <2>2, ChainSame DEF CloseReader
  <2> QED
    BY <2>1, <2>2
<1>4. CASE OpenWriter \/ CloseWriter \/ Shutdown \/ Terminated \/ RunReadQueue
  BY <1>4, ChainSame DEF OpenWriter, CloseWriter, Shutdown, Terminated, RunReadQueue, vars, chainVars
<1>5. CASE ReplyPartial \/ ReadBeforeInit \/ ReplyRows \/ ReplyDefer \/ ReplyStarved
  BY <1>5, ChainSame DEF ReplyPartial, ReadBeforeInit, ReplyRows, ReplyDefer, ReplyStarved
<1>6. CASE \E r \in Readers : OpenReader(r) \/ IoNotify(r) \/ ReadRequest(r)
  BY <1>6, ChainSame DEF OpenReader, IoNotify, ReadRequest, IoRead
<1> QED
  BY <1>1, <1>2, <1>3, <1>4, <1>5, <1>6 DEF ReaderStep, ReadReply

\* The writer's steps other than the four that change the chain.
ChainFree ==
  \/ Writing \/ MsgReadFails \/ BadHeader \/ MsgReadChunk \/ InitHeader \/ DataHeader
  \/ PlaceRows \/ EvalReturn \/ DoWriteReply \/ DoWriteBlock \/ RunWriteQueue

\* They leave the chain alone.
LEMMA ChainFreeSteps == ChainFree => UNCHANGED chainVars
BY DEF ChainFree, Writing, IoWrite, MsgReadFails, FailWrite, BadHeader, MsgReadChunk, InitHeader,
       DataHeader, PlaceRows, EvalReturn, DoWriteReply, DoWriteBlock, RunWriteQueue

\* allocate_qrows expires rows and frees what is spent.
LEMMA ExpireStamps == ASSUME IInv, TsInv, ExpireRows PROVE TsInv'
<1>1. PICK d \in Live : \E x \in 0 .. dqd[d].n :
        /\ Oldest(d) /\ IsExpirable(d, x)
        /\ IF x = 0
           THEN pc' = "place" /\ UNCHANGED <<first, full, chainVars, nreq, nfree>>
           ELSE Expire(d, x)
  BY DEF ExpireRows
<1>2. PICK x \in 0 .. dqd[d].n :
        IF x = 0
        THEN pc' = "place" /\ UNCHANGED <<first, full, chainVars, nreq, nfree>>
        ELSE Expire(d, x)
  BY <1>1
<1>3. CASE x = 0
  BY <1>2, <1>3, ChainSame
<1>4. CASE x # 0
  <2> DEFINE q == [dqd EXCEPT ![d].start = SlotAfter(dqd[d].start, x), ![d].n = @ - x,
                              ![d].expired = @ + x]
  <2>1. Expire(d, x) /\ dLast' = dLast /\ nts' = nts
    BY <1>2, <1>4 DEF Expire
  <2>2. dFirst \in Live
    BY ChainEnds, ChainNumbers
  <2>3. \E f \in Live : FreeBefore(q, f)
    BY <2>1, <2>2 DEF Expire
  <2>4. \A e \in Live : q[e].ts = dqd[e].ts
    BY ChainEnds, ChainFields DEF Dqds
  <2> HIDE DEF q
  <2> QED
    BY <2>1, <2>3, <2>4, FreeStamps
<1> QED
  BY <1>3, <1>4

\* Every step.
LEMMA StampsStep == ASSUME IInv, TsInv, [Next]_vars PROVE TsInv'
<1>1. CASE UNCHANGED vars
  BY <1>1, ChainSame DEF vars
<1>2. CASE ReaderStep
  BY <1>2, ReaderChain
<1>3. CASE ChainFree
  BY <1>3, ChainFreeSteps, ChainSame
<1>4. CASE TstampHeader \/ ProcessTmInfo
  <2>1. QueueTstamp
    BY <1>4 DEF TstampHeader, ProcessTmInfo
  <2>2. nts \in Nat
    BY DEF IInv, TypeOK, ChainType
  <2>3. /\ nts' = nts + 1 /\ dqd' = Append1(NewDqd(nts + 1, 0)) /\ dLast' = dLast + 1
        /\ dFirst' = dFirst
        /\ tsq' = [t \in DOMAIN tsq \cup {nts + 1} |-> IF t = nts + 1 THEN 1 ELSE tsq[t]]
    BY <2>1 DEF QueueTstamp
  <2>4. nts' \in Nat /\ nts <= nts'
    BY <2>2, <2>3
  <2>5. PICK ts : ts = nts + 1
    OBVIOUS
  <2>6. /\ nts' = nts + 1 /\ ts = nts + 1
        /\ tsq' = [t \in DOMAIN tsq \cup {nts + 1} |-> IF t = nts + 1 THEN 1 ELSE tsq[t]]
    BY <2>3, <2>5
  <2>7. dqd' = Append1(NewDqd(ts, 0))
    BY <2>3, <2>5
  <2> QED
    BY <2>3, <2>4, <2>6, <2>7, AppendStamp
<1>5. CASE CommitRows
  <2>1. PICK k \in 0 .. TotalQrows : dqd' = [dqd EXCEPT ![dLast].n = @ + k]
    BY <1>5 DEF CommitRows
  <2>2. dFirst' = dFirst /\ dLast' = dLast /\ tsq' = tsq /\ nts' = nts
    BY <1>5 DEF CommitRows
  <2>3. Live' = Live /\ \A e \in Live : dqd'[e].ts = dqd[e].ts
    BY <2>1, <2>2, ChainEnds, ChainFields DEF Live, Dqds
  <2> QED
    BY <2>2, <2>3, SameStamps
<1>6. CASE AllocateQrows
  <2>1. CASE NeedDqd
    <3> DEFINE ts == dqd[dLast].ts
    <3>1. /\ dqd' = Append1(NewDqd(ts, hdr.frame % MfcMod)) /\ tsq' = [tsq EXCEPT ![ts] = @ + 1]
          /\ dLast' = dLast + 1 /\ dFirst' = dFirst /\ nts' = nts
      BY <1>6, <2>1 DEF AllocateQrows
    <3>2. dLast > 0 /\ nts \in Nat
      BY <1>6 DEF AllocateQrows, IInv, EvalInv, Evaluating, TypeOK, ChainType
    <3>3. ts \in DOMAIN tsq
      BY <3>2, ChainEnds DEF TsInv, TsRefs
    <3> HIDE DEF ts
    <3>4. nts' \in Nat /\ nts <= nts'
      BY <3>1, <3>2
    <3>5. nts' = nts /\ ts \in DOMAIN tsq /\ tsq' = [tsq EXCEPT ![ts] = @ + 1]
      BY <3>1, <3>3
    <3> QED
      BY <3>1, <3>4, <3>5, AppendStamp
  <2>2. CASE ~NeedDqd
    BY <1>6, <2>2, ChainSame DEF AllocateQrows, chainVars
  <2> QED
    BY <2>1, <2>2
<1>7. CASE ExpireRows
  BY <1>7, ExpireStamps
<1> QED
  BY <1>1, <1>2, <1>3, <1>4, <1>5, <1>6, <1>7, Steps DEF WriterStep, ChainFree

\* The server starts without a descriptor and without a time stamp.
LEMMA StampsInit == ASSUME Init PROVE TsInv
<1>1. dFirst = 1 /\ dLast = 0 /\ tsq = [t \in 1 .. 0 |-> 0] /\ nts = 0
  BY DEF Init
<1>2. Live = {} /\ DOMAIN tsq = {} /\ 1 .. nts = {}
  BY <1>1 DEF Live
<1> QED
  BY <1>2 DEF TsInv, TsRefs

\* A time stamp is freed with the last descriptor that uses it, and not before,
\* whatever the descriptors that dq_deref and allocate_qrows free at once.
THEOREM StampsCounted == Spec => []TsRefs
<1>1. Init => IInv /\ TsInv
  BY InitInv, StampsInit
<1>2. IInv /\ TsInv /\ [Next]_vars => (IInv /\ TsInv)'
  BY NextInv, StampsStep
<1>3. IInv /\ TsInv => TsRefs
  BY DEF TsInv
<1> QED
  BY <1>1, <1>2, <1>3, PTL DEF Spec

-----------------------------------------------------------------------------
(* The frames *)

\* Whole rows in a count of units.
LEMMA RowsOf ==
  ASSUME NEW x \in Nat, NEW k \in Nat
  PROVE  /\ x \div RowUnits \in Nat /\ (x + Units(k)) \div RowUnits = (x \div RowUnits) + k
         /\ x <= Units(k) => x \div RowUnits <= k
         /\ Units(k) < x <=> k <= (x - 1) \div RowUnits
         /\ Units(k) < x <=> k < (x + RowUnits - 1) \div RowUnits
         /\ k < x \div RowUnits => Units(k) < x
<1>1. CASE RowUnits = 1
  BY <1>1 DEF Units
<1>2. CASE RowUnits = 2
  BY <1>2 DEF Units
<1> QED
  BY <1>1, <1>2, ConstType

\* A count of units has a count of rows.
LEMMA RowsNat == ASSUME NEW x \in Nat PROVE x \div RowUnits \in Nat
<1>1. CASE RowUnits = 1
  BY <1>1
<1>2. CASE RowUnits = 2
  BY <1>2
<1> QED
  BY <1>1, <1>2, ConstType

\* What the newest descriptor promises is a number.
LEMMA NextLabelNat == ASSUME IInv, dLast > 0 PROVE NextLabel \in Nat
BY ChainEnds, ChainNumbers DEF NextLabel

\* A slot behind last holds no row of the chain.
LEMMA FreeSlots ==
  ASSUME IInv, ChainOrder, RingPlaced, NEW d \in Live, NEW p \in Base(d) .. Base(d) + dqd[d].n - 1,
         NEW j \in Nat, HeldRows + j < TotalQrows, last + j < TotalQrows
  PROVE  p % TotalQrows # last + j
<1>1. /\ TotalQrows \in Nat \ {0} /\ HeldRows \in Nat /\ Base(d) \in Nat /\ dqd[d].n \in Nat
      /\ Total \in Nat /\ last \in Nat
  BY RingNumbers, ChainNumbers, ChainTotal
<1>2. p \in Nat /\ Base(d) <= p /\ p < Base(d) + dqd[d].n /\ dqd[d].n > 0
  BY <1>1
<1>3. Base(d) + dqd[d].n <= Total /\ Total - Base(d) <= HeldRows /\ last = Total % TotalQrows
  BY <1>2, ChainTotal DEF RingPlaced
<1>4. p < Total + j /\ Total + j - p < TotalQrows /\ Total + j \in Nat /\ j \in 0 .. TotalQrows
  BY <1>1, <1>2, <1>3
<1>5. (Total + j) % TotalQrows = last + j
  <2>1. (Total + j) % TotalQrows
        = IF (Total % TotalQrows) + j >= TotalQrows THEN (Total % TotalQrows) + j - TotalQrows
          ELSE (Total % TotalQrows) + j
    BY <1>1, <1>4, ModAdd
  <2> QED
    BY <1>1, <1>3, <2>1
<1>6. PICK b \in Nat : b = Total + j
  BY <1>4
<1>7. p < b /\ b - p < TotalQrows
  BY <1>1, <1>2, <1>4, <1>6
<1>8. b % TotalQrows = last + j
  BY <1>5, <1>6
<1> QED
  BY <1>1, <1>2, <1>7, <1>8, ModApart

\* The rows held keep their labels while the ring's contents stay.
LEMMA HeldKept ==
  ASSUME HeldLabels, ChainKept, row' = row PROVE HeldLabels'
<1> SUFFICES ASSUME NEW d \in Live', NEW p \in Base(d)' .. Base(d)' + dqd'[d].n - 1
             PROVE  row[p % TotalQrows] % MfcMod = (dqd'[d].mfctr + (p - dqd'[d].pos)) % MfcMod
  BY DEF HeldLabels
<1>1. d \in Live /\ SameFields(d)
  BY DEF ChainKept
<1>2. Base(d)' = Base(d) /\ dqd'[d].n = dqd[d].n
  BY <1>1 DEF SameFields, Base
<1>3. p \in Base(d) .. Base(d) + dqd[d].n - 1
  BY <1>2
<1> QED
  BY <1>1, <1>3 DEF HeldLabels, SameFields

\* A new descriptor has no rows yet.
LEMMA HeldAppended ==
  ASSUME IInv, HeldLabels, NEW ts, NEW m, dqd' = Append1(NewDqd(ts, m)), dFirst' = dFirst,
         dLast' = dLast + 1, row' = row
  PROVE  HeldLabels'
<1>1. /\ dFirst \in Nat \ {0} /\ dLast \in Nat /\ Live = dFirst .. dLast /\ dFirst <= dLast + 1
  BY ChainEnds DEF IInv, TypeOK, ChainType
<1>2. Live' = Live \cup {dLast + 1}
  BY <1>1 DEF Live
<1>3. dqd'[dLast + 1] = NewDqd(ts, m) /\ \A e \in Live : dqd'[e] = dqd[e]
  BY <1>1 DEF Append1
<1> SUFFICES ASSUME NEW d \in Live', NEW p \in Base(d)' .. Base(d)' + dqd'[d].n - 1
             PROVE  row[p % TotalQrows] % MfcMod = (dqd'[d].mfctr + (p - dqd'[d].pos)) % MfcMod
  BY DEF HeldLabels
<1>4. CASE d \in Live
  <2>1. dqd'[d] = dqd[d] /\ Base(d)' = Base(d)
    BY <1>3, <1>4 DEF Base
  <2>2. p \in Base(d) .. Base(d) + dqd[d].n - 1
    BY <2>1
  <2> QED
    BY <1>4, <2>1, <2>2 DEF HeldLabels
<1>5. CASE d = dLast + 1
  <2>1. NewDqd(ts, m).n = 0 /\ NewDqd(ts, m).expired = 0 /\ NewDqd(ts, m).pos \in Nat
    BY ChainEnds, ChainNumbers DEF NewDqd
  <2>2. Base(d)' \in Nat /\ dqd'[d].n = 0
    BY <1>3, <1>5, <2>1 DEF Base
  <2> QED
    BY <2>2
<1> QED
  BY <1>2, <1>4, <1>5

\* No row is on its way.
LEMMA NoBlock ==
  ASSUME wr'.state # "DATA", pc' \notin {"expire", "place"} PROVE LabelGoesOn' /\ BlockFrames'
BY DEF LabelGoesOn, BlockFrames

\* The record goes on as it was.
LEMMA GoesOnKept ==
  ASSUME IInv, LabelGoesOn, BlockFrames, ChainKept, row' = row, last' = last, hdr' = hdr,
         wr'.nbrec = wr.nbrec, wr'.offq = wr.offq, wr'.state = "DATA" => wr.state = "DATA",
         wr'.state = "DATA" \/ pc' \in {"expire", "place"} =>
            wr.state = "DATA" \/ pc \in {"expire", "place"}
  PROVE  LabelGoesOn' /\ BlockFrames'
<1>1. RowsToCome' = RowsToCome /\ NextRow' = NextRow
  BY DEF RowsToCome, NextRow
<1>2. ASSUME wr.state = "DATA" \/ pc \in {"expire", "place"} PROVE NextLabel' = NextLabel
  <2>1. dLast > 0
    BY <1>2 DEF IInv, EvalInv, PcInv, Evaluating
  <2>2. dLast' = dLast /\ SameFields(dLast)
    BY <2>1 DEF ChainKept
  <2> QED
    BY <2>2 DEF NextLabel, Rows, SameFields
<1>3. LabelGoesOn'
  BY <1>1, <1>2 DEF LabelGoesOn
<1>4. BlockFrames'
  BY <1>1 DEF BlockFrames, Units
<1> QED
  BY <1>3, <1>4

\* The numbers of the record whose rows are on their way.
LEMMA RowNumbers ==
  ASSUME IInv, StreamInv, wr.state = "DATA" \/ pc \in {"alloc", "expire", "place"}
  PROVE  /\ wr \in Wrs /\ hdr \in Hdrs /\ hdr.kind = "DATA" /\ dLast > 0
         /\ RowsToCome \in Nat /\ RowsToCome <= hdr.n /\ NextRow \in Nat /\ NextLabel \in Nat
         /\ NextRow = hdr.frame + hdr.n - RowsToCome
         /\ wr.state # "DATA" => wr.state = "HDR" /\ NextRow = hdr.frame /\ wr.offq = 0
                                 /\ wr.nbrec = Units(hdr.n)
<1>1. wr \in Wrs /\ hdr \in Hdrs
  BY Parts, WriterTypes
<1>2. hdr.kind = "DATA" /\ dLast > 0
  <2>1. CASE wr.state = "DATA"
    BY <2>1 DEF StreamInv, RowsRead, IInv, PcInv
  <2>2. CASE wr.state # "DATA"
    <3>1. pc \in Busy
      BY <2>2 DEF Busy, Evaluating
    <3> QED
      BY <2>2, <3>1, Evaluation DEF FirstRows
  <2> QED
    BY <2>1, <2>2
<1>3. /\ wr.nbrec + wr.offq <= Units(hdr.n)
      /\ wr.state # "DATA" => wr.state = "HDR" /\ wr.nbrec = Units(hdr.n) /\ wr.offq = 0
  <2>1. CASE wr.state = "DATA"
    BY <2>1 DEF StreamInv, RowsRead
  <2>2. CASE wr.state # "DATA"
    <3>1. pc \in Busy
      BY <2>2 DEF Busy, Evaluating
    <3>2. wr.state = "HDR" /\ wr.nbrec = Units(hdr.n)
      BY <2>2, <3>1, Evaluation DEF FirstRows
    <3>3. wr.offq = 0
      BY <2>2 DEF IInv, EvalInv, Evaluating
    <3> QED
      BY <1>1, <2>2, <3>2, <3>3, UnitsNat DEF Hdrs
  <2> QED
    BY <2>1, <2>2
<1>4. hdr.n \in Nat /\ hdr.frame \in Nat /\ wr.nbrec + wr.offq \in Nat
  BY <1>1 DEF Wrs, Hdrs
<1>5. RowsToCome \in Nat /\ RowsToCome <= hdr.n
  BY <1>3, <1>4, RowsOf DEF RowsToCome
<1>6. wr.state # "DATA" => RowsToCome = hdr.n
  <2> SUFFICES ASSUME wr.state # "DATA" PROVE RowsToCome = hdr.n
    OBVIOUS
  <2>1. wr.nbrec + wr.offq = Units(hdr.n)
    BY <1>3, <1>4, UnitsNat
  <2> QED
    BY <1>4, <2>1, UnitsRows DEF RowsToCome
<1>7. NextRow \in Nat /\ NextRow = hdr.frame + hdr.n - RowsToCome
      /\ (wr.state # "DATA" => NextRow = hdr.frame)
  BY <1>4, <1>5, <1>6 DEF NextRow
<1> QED
  BY <1>1, <1>2, <1>3, <1>5, <1>7, NextLabelNat

\* Part of the block behind last arrives.
LEMMA BlockArrives ==
  ASSUME IInv, StreamInv, RingInv, LabelInv, MsgReadChunk, wr.state = "DATA"
  PROVE  LabelInv'
<1> DEFINE nb == Lesser(wr.nbmsg, wr.nbdata)
           lo == wr.offq \div RowUnits
           x == wr.offq + nb
           hi == (wr.offq + nb - 1) \div RowUnits
<1>1. /\ wr' = Received(nb) /\ last' = last /\ hdr' = hdr /\ UNCHANGED chainVars
      /\ wr.nbmsg > 0 /\ wr.nbdata > 0 /\ pc' \in {"write", "eval"}
      /\ row' = [s \in DOMAIN row |-> IF s - last \in lo .. hi THEN FrameAt(s - last) ELSE row[s]]
  BY DEF MsgReadChunk, sendVars
<1>2. /\ wr \in Wrs /\ hdr \in Hdrs /\ NextRow \in Nat
      /\ NextRow = hdr.frame + hdr.n - RowsToCome
  BY RowNumbers
<1>3. nb \in Nat /\ nb > 0 /\ nb <= wr.nbdata /\ wr.nbdata <= wr.nbrec
  BY <1>1, <1>2, Parts DEF Lesser, Wrs, WriterInv, BlockFits
<1>4. PICK c \in 0 .. TotalQrows - last : wr.nbdata + wr.offq = Units(c)
  BY Parts DEF WriterInv, BlockFits
<1> HIDE DEF nb
<1>5. /\ wr'.state = "DATA" /\ wr'.nbrec = wr.nbrec - nb /\ wr'.offq = wr.offq + nb
      /\ wr.nbrec \in Nat /\ wr.offq \in Nat /\ wr.nbdata \in Nat
  BY <1>1, <1>2 DEF Received, Wrs
<1>6. wr'.nbrec + wr'.offq = wr.nbrec + wr.offq
  BY <1>3, <1>5
<1>7. RowsToCome' = RowsToCome /\ NextRow' = NextRow
  BY <1>1, <1>6 DEF RowsToCome, NextRow
<1>8. /\ TotalQrows \in Nat /\ HeldRows \in 0 .. TotalQrows /\ last \in Nat /\ c \in Nat
      /\ HeldRows + c <= TotalQrows /\ last + c <= TotalQrows
  <2>1. TotalQrows \in Nat /\ HeldRows \in 0 .. TotalQrows /\ last \in Nat /\ c \in Nat
    BY RingNumbers
  <2>2. Units(c) <= Units(TotalQrows - HeldRows)
    BY <1>4 DEF RingInv, RoomKept
  <2>3. TotalQrows - HeldRows \in Nat
    BY <2>1
  <2>4. c <= TotalQrows - HeldRows
    BY <2>1, <2>2, <2>3, UnitsLeq
  <2> QED
    BY <2>1, <2>4
<1>9. ASSUME NEW j \in Nat, Units(j) < wr.offq + nb
      PROVE  HeldRows + j < TotalQrows /\ last + j < TotalQrows /\ (last + j \in DOMAIN row)
  <2>1. Units(j) < Units(c)
    BY <1>3, <1>4, <1>5, <1>9, <1>8, UnitsNat
  <2>2. j < c
    BY <1>8, <2>1, UnitsLeq, UnitsNat
  <2>3. DOMAIN row = 0 .. TotalQrows - 1
    BY Parts DEF WriterInv, RingType
  <2> QED
    BY <1>8, <2>2, <2>3
<1>10. x \in Nat /\ x > 0 /\ x - 1 \in Nat
  BY <1>3, <1>5
<1>11. lo \in Nat /\ hi = (x - 1) \div RowUnits /\ hi \in Nat
  <2>1. lo \in Nat
    BY <1>5, RowsNat
  <2>2. hi = (x - 1) \div RowUnits
    <3>1. wr.offq + nb - 1 = x - 1
      BY <1>3, <1>5
    <3> QED
      BY <3>1
  <2>3. \A y \in Nat : y \div RowUnits \in Nat
    BY RowsNat
  <2> HIDE DEF lo, hi, x
  <2> QED
    BY <1>10, <2>1, <2>2, <2>3
<1> HIDE DEF x
<1>12. \A j \in Nat : Units(j) < x <=> j <= hi
  BY <1>10, <1>11, RowsOf
<1>13. \A j \in lo .. hi : j \in Nat /\ Units(j) < x
  <2> HIDE DEF lo, hi
  <2> QED
    BY <1>11, <1>12
<1> HIDE DEF lo, hi
<1>14. HeldLabels'
  <2> SUFFICES ASSUME NEW d \in Live, NEW p \in Base(d) .. Base(d) + dqd[d].n - 1
               PROVE  row'[p % TotalQrows] % MfcMod = (dqd[d].mfctr + (p - dqd[d].pos)) % MfcMod
    BY <1>1 DEF HeldLabels, chainVars, Live, Base
  <2>1. p % TotalQrows \in DOMAIN row
    <3>1. p \in Nat /\ TotalQrows \in Nat \ {0}
      BY ChainNumbers, RingNumbers
    <3> QED
      BY <3>1, ModRange, Parts DEF WriterInv, RingType
  <2>2. ASSUME (p % TotalQrows) - last \in lo .. hi PROVE FALSE
    <3>1. PICK j : j = (p % TotalQrows) - last
      OBVIOUS
    <3>2. j \in Nat /\ Units(j) < x
      BY <1>13, <2>2, <3>1
    <3>3. HeldRows + j < TotalQrows /\ last + j < TotalQrows
      BY <1>9, <3>2 DEF x
    <3>4. p % TotalQrows # last + j
      BY <3>2, <3>3, FreeSlots DEF RingInv
    <3>5. p % TotalQrows \in Int
      BY ChainNumbers, RingNumbers
    <3> QED
      BY <1>8, <3>1, <3>2, <3>4, <3>5
  <2>3. row'[p % TotalQrows] = row[p % TotalQrows]
    BY <1>1, <2>1, <2>2
  <2> QED
    BY <2>3 DEF LabelInv, HeldLabels
<1>15. LabelGoesOn'
  <2>1. NextLabel' = NextLabel
    BY <1>1 DEF NextLabel, Rows, chainVars
  <2> QED
    BY <1>7, <2>1 DEF LabelInv, LabelGoesOn
<1>16. BlockFrames'
  <2> SUFFICES ASSUME NEW i \in 0 .. TotalQrows, Units(i) < wr.offq + nb
               PROVE  row'[last + i] = NextRow + i
    BY <1>1, <1>5, <1>7 DEF BlockFrames, Units
  <2>1. i \in Nat /\ last + i \in DOMAIN row /\ (last + i) - last = i
    BY <1>8, <1>9
  <2>2. CASE i \in lo .. hi
    <3>1. row'[last + i] = FrameAt(i)
      BY <1>1, <2>1, <2>2
    <3>2. FrameAt(i) = hdr.frame + hdr.n - RowsToCome + i
      BY DEF FrameAt, RowsToCome
    <3> QED
      BY <1>2, <3>1, <3>2
  <2>3. CASE i \notin lo .. hi
    <3>1. row'[last + i] = row[last + i]
      BY <1>1, <2>1, <2>3
    <3>2. lo \in Nat /\ hi \in Nat /\ i <= hi
      BY <1>11, <1>12, <2>1 DEF x
    <3>3. i < lo
      BY <2>1, <2>3, <3>2
    <3>4. Units(i) < wr.offq
      BY <1>5, <2>1, <3>3, RowsOf DEF lo
    <3> QED
      BY <3>1, <3>4 DEF LabelInv, BlockFrames
  <2> QED
    BY <2>2, <2>3
<1> QED
  BY <1>14, <1>15, <1>16 DEF LabelInv

\* commit_rows gives the rows behind last to the newest descriptor.
LEMMA CommitLabels ==
  ASSUME IInv, StreamInv, RingInv, LabelInv, CommitRows PROVE LabelInv'
<1>1. ChainOrder /\ RingPlaced /\ RoomKept
  BY DEF RingInv
<1>2. PICK k \in 0 .. TotalQrows :
        /\ wr.offq = Units(k) /\ row' = row /\ dFirst' = dFirst /\ dLast' = dLast
        /\ dqd' = [dqd EXCEPT ![dLast].n = dqd[dLast].n + k]
        /\ k \in Nat /\ last + k <= TotalQrows /\ (wr.state # "DATA" => k = 0)
        /\ wr \in Wrs /\ dLast > 0
  BY <1>1, RowsCommitted
<1>3. wr' = [wr EXCEPT !.offq = 0] /\ hdr' = hdr /\ pc' \in {"alloc", "evaldone"}
  BY DEF CommitRows, sendVars
<1>4. wr'.offq = 0 /\ wr'.nbrec = wr.nbrec /\ wr'.state = wr.state
  BY <1>2, <1>3 DEF Wrs
<1>5. Live' = Live /\ dLast \in Live /\ DOMAIN dqd = Live
  BY <1>2, ChainEnds DEF Live
<1>6. /\ dqd[dLast] \in Dqds /\ dqd[dLast].n \in Nat /\ dqd[dLast].mfctr \in Nat
      /\ dqd[dLast].pos \in Nat /\ Rows(dLast) = dqd[dLast].expired + dqd[dLast].n
      /\ dqd[dLast].expired \in Nat /\ Base(dLast) = dqd[dLast].pos + dqd[dLast].expired
      /\ TotalQrows \in Nat \ {0} /\ last \in Nat /\ Total \in Nat /\ MfcMod \in Nat \ {0}
  BY <1>1, <1>5, ChainNumbers, ChainFields, RingNumbers, ChainTotal, ConstType
<1>7. /\ dqd'[dLast].n = dqd[dLast].n + k /\ dqd'[dLast].pos = dqd[dLast].pos
      /\ dqd'[dLast].expired = dqd[dLast].expired /\ dqd'[dLast].mfctr = dqd[dLast].mfctr
      /\ \A d \in Live : d # dLast => dqd'[d] = dqd[d]
  BY <1>2, <1>5, <1>6 DEF Dqds
<1>8. Total = Base(dLast) + dqd[dLast].n /\ last = Total % TotalQrows
  BY <1>1, <1>2, ChainTotal DEF RingPlaced
<1>9. ASSUME NEW i \in Nat, i < k
      PROVE  /\ wr.state = "DATA" /\ (Total + i) % TotalQrows = last + i
             /\ row[last + i] = NextRow + i
  <2>1. wr.state = "DATA" /\ last + i < TotalQrows /\ i \in 0 .. TotalQrows
    BY <1>2, <1>6, <1>9
  <2>2. (Total + i) % TotalQrows
        = IF (Total % TotalQrows) + i >= TotalQrows THEN (Total % TotalQrows) + i - TotalQrows
          ELSE (Total % TotalQrows) + i
    BY <1>6, <2>1, ModAdd
  <2>3. Units(i) < Units(k)
    BY <1>2, <1>9, UnitsLeq, UnitsNat
  <2> QED
    BY <1>2, <1>6, <1>8, <2>1, <2>2, <2>3 DEF LabelInv, BlockFrames
<1>10. wr.state = "DATA" => /\ NextRow \in Nat /\ NextLabel \in Nat
                            /\ NextLabel % MfcMod = NextRow % MfcMod
  BY RowNumbers DEF LabelInv, LabelGoesOn
<1>11. ASSUME NEW i \in Nat, wr.state = "DATA"
       PROVE  (NextLabel + i) % MfcMod = (NextRow + i) % MfcMod
  BY <1>6, <1>10, <1>11, ModSame
<1>12. HeldLabels'
  <2> SUFFICES ASSUME NEW d \in Live, NEW p \in Base(d) .. Base(d) + dqd'[d].n - 1
               PROVE  row[p % TotalQrows] % MfcMod = (dqd[d].mfctr + (p - dqd[d].pos)) % MfcMod
    BY <1>2, <1>5, <1>7 DEF HeldLabels, Base
  <2>1. CASE p \in Base(d) .. Base(d) + dqd[d].n - 1
    BY <2>1 DEF LabelInv, HeldLabels
  <2>2. CASE p \notin Base(d) .. Base(d) + dqd[d].n - 1
    <3>1. d = dLast
      BY <1>7, <2>2
    <3>2. p >= Total /\ p < Total + k /\ p \in Nat
      BY <1>2, <1>6, <1>7, <1>8, <2>2, <3>1
    <3>3. PICK i \in Nat : p = Total + i /\ i < k
      <4>1. p - Total \in Nat /\ p = Total + (p - Total) /\ p - Total < k
        BY <1>2, <1>6, <3>2
      <4> QED
        BY <4>1
    <3>4. row[p % TotalQrows] = NextRow + i /\ wr.state = "DATA"
      BY <1>9, <3>3
    <3>5. dqd[d].mfctr + (p - dqd[d].pos) = NextLabel + i
      BY <1>6, <1>8, <3>1, <3>3 DEF NextLabel
    <3> QED
      BY <1>11, <3>4, <3>5
  <2> QED
    BY <2>1, <2>2
<1>13. LabelGoesOn'
  <2> SUFFICES ASSUME wr.state = "DATA" PROVE NextLabel' % MfcMod = NextRow' % MfcMod
    BY <1>3, <1>4 DEF LabelGoesOn
  <2>1. NextLabel' = NextLabel + k
    <3>1. NextLabel' = dqd'[dLast].mfctr + (dqd'[dLast].expired + dqd'[dLast].n)
      BY <1>2 DEF NextLabel, Rows
    <3> QED
      BY <1>2, <1>6, <1>7, <3>1 DEF NextLabel
  <2>2. RowsToCome = RowsToCome' + k /\ RowsToCome' \in Nat
    <3>1. wr.nbrec \in Nat
      BY <1>2 DEF Wrs
    <3>2. RowsToCome' = (wr.nbrec + 0) \div RowUnits
      BY <1>4 DEF RowsToCome
    <3>3. wr.nbrec + 0 = wr.nbrec
      BY <3>1
    <3> QED
      BY <1>2, <3>1, <3>2, <3>3, RowsOf DEF RowsToCome
  <2>3. NextRow' = NextRow + k
    <3>1. NextRow' = hdr.frame + hdr.n - RowsToCome' /\ NextRow = hdr.frame + hdr.n - RowsToCome
      BY <1>3 DEF NextRow
    <3>2. hdr.frame \in Nat /\ hdr.n \in Nat
      BY RowNumbers DEF Hdrs
    <3> QED
      BY <1>2, <2>2, <3>1, <3>2
  <2> QED
    BY <1>2, <1>11, <2>1, <2>3
<1>14. BlockFrames'
  <2>1. \A i \in 0 .. TotalQrows : ~(Units(i) < 0)
    <3>1. \A i \in Nat : Units(i) \in Nat
      BY UnitsNat
    <3> QED
      BY <3>1
  <2> QED
    BY <1>4, <2>1 DEF BlockFrames, Units
<1> QED
  BY <1>12, <1>13, <1>14 DEF LabelInv

\* The excess is the beginning of the record's first row.
LEMMA PlaceLabels ==
  ASSUME IInv, StreamInv, RingInv, LabelInv, PlaceRows PROVE LabelInv'
<1> DEFINE ex == ExcessHere
<1>1. /\ pc = "place" /\ last' = last /\ hdr' = hdr /\ UNCHANGED chainVars
      /\ wr' = [wr EXCEPT !.state = IF nfree > 0 THEN "DATA" ELSE @,
                          !.nbdata = Units(nfree) - ex,
                          !.offq = ex, !.nbrec = @ - ex]
      /\ row' = IF ex > 0 THEN [row EXCEPT ![last] = hdr.frame] ELSE row
      /\ pc' \in {"eval", "evaldone"}
  BY DEF PlaceRows, sendVars
<1>2. /\ wr \in Wrs /\ hdr \in Hdrs /\ dLast > 0 /\ NextRow \in Nat /\ NextLabel \in Nat
      /\ wr.state # "DATA" => wr.state = "HDR" /\ NextRow = hdr.frame
  BY <1>1, RowNumbers
<1>3. wr.offq = 0 /\ (nfree > 0 => ~full)
  BY <1>1 DEF IInv, EvalInv, Evaluating
<1>4. ex \in {0, 1} /\ (ex = 1 => nfree > 0 /\ wr.state = "HDR")
  BY DEF ExcessHere, Excess, HdrUnits, DataHdr
<1> HIDE DEF ex
<1>5. /\ wr'.offq = ex /\ wr'.nbrec = wr.nbrec - ex /\ wr.nbrec \in Nat
      /\ wr'.state = "DATA" => nfree > 0 \/ wr.state = "DATA"
  BY <1>1, <1>2 DEF Wrs
<1>6. RowsToCome' = RowsToCome /\ NextRow' = NextRow
  <2>1. wr'.nbrec + wr'.offq = wr.nbrec + wr.offq
    BY <1>3, <1>4, <1>5
  <2> QED
    BY <1>1, <2>1 DEF RowsToCome, NextRow
<1>7. Live' = Live /\ dLast' = dLast /\ dqd' = dqd
  BY <1>1 DEF chainVars, Live
<1>8. LabelGoesOn'
  <2>1. NextLabel' = NextLabel
    BY <1>7 DEF NextLabel, Rows
  <2>2. NextLabel % MfcMod = NextRow % MfcMod
    BY <1>1 DEF LabelInv, LabelGoesOn
  <2> QED
    BY <1>6, <2>1, <2>2 DEF LabelGoesOn
<1>9. last \in DOMAIN row /\ last \in Nat /\ TotalQrows \in Nat \ {0} /\ last < TotalQrows
  BY Parts, RingNumbers DEF WriterInv, RingType
<1>10. HeldLabels'
  <2> SUFFICES ASSUME NEW d \in Live, NEW p \in Base(d) .. Base(d) + dqd[d].n - 1
               PROVE  row'[p % TotalQrows] % MfcMod = (dqd[d].mfctr + (p - dqd[d].pos)) % MfcMod
    BY <1>7 DEF HeldLabels, Base
  <2>1. row'[p % TotalQrows] = row[p % TotalQrows]
    <3>1. CASE ex = 0
      BY <1>1, <3>1
    <3>2. CASE ex = 1
      <4>1. HeldRows + 0 < TotalQrows /\ last + 0 < TotalQrows /\ last + 0 = last
        BY <1>3, <1>4, <1>9, <3>2, RingNumbers
      <4>2. p % TotalQrows # last
        BY <4>1, FreeSlots DEF RingInv
      <4> QED
        BY <1>1, <3>2, <4>2
    <3> QED
      BY <1>4, <3>1, <3>2
  <2> QED
    BY <2>1 DEF LabelInv, HeldLabels
<1>11. BlockFrames'
  <2> SUFFICES ASSUME NEW i \in 0 .. TotalQrows, Units(i) < ex PROVE row'[last + i] = NextRow + i
    BY <1>1, <1>5, <1>6 DEF BlockFrames, Units
  <2>1. i \in Nat /\ Units(i) \in Nat /\ Units(i) >= i
    BY UnitsNat
  <2>2. ex = 1 /\ i = 0
    <3>1. ex = 1 /\ Units(i) = 0
      BY <1>4, <2>1
    <3> QED
      BY <2>1, <3>1
  <2>3. row'[last] = hdr.frame /\ last + 0 = last
    BY <1>1, <1>9, <2>2
  <2>4. NextRow = hdr.frame /\ NextRow + 0 = NextRow
    BY <1>2, <1>4, <2>2
  <2> QED
    BY <2>2, <2>3, <2>4
<1> QED
  BY <1>8, <1>10, <1>11 DEF LabelInv

\* A descriptor of its own, or the newest one, is labelled to go on with the record.
LEMMA AllocateLabels ==
  ASSUME DataType = "T3", IInv, StreamInv, LabelInv, AllocateQrows PROVE LabelInv'
<1>1. /\ pc = "alloc" /\ row' = row /\ last' = last /\ hdr' = hdr /\ wr' = wr /\ dFirst' = dFirst
      /\ nts' = nts
  BY DEF AllocateQrows, ringVars, wrVars, sendVars
<1>2. /\ wr \in Wrs /\ hdr \in Hdrs /\ dLast > 0 /\ RowsToCome \in Nat /\ NextRow \in Nat
      /\ NextRow = hdr.frame + hdr.n - RowsToCome
      /\ wr.state # "DATA" => wr.nbrec = Units(hdr.n)
  BY <1>1, RowNumbers
<1>3. MfcMod \in Nat \ {0} /\ hdr.frame \in Nat /\ hdr.n \in Nat
      /\ hdr.frame % MfcMod \in Nat /\ (hdr.frame % MfcMod) % MfcMod = hdr.frame % MfcMod
  <2>1. MfcMod \in Nat \ {0} /\ hdr.frame \in Nat /\ hdr.n \in Nat
    BY <1>2, ConstType DEF Hdrs
  <2> QED
    BY <2>1, ModMod, ModRange
<1>4. RowsLeft = RowsToCome /\ (wr.state # "DATA" => RowsLeft = hdr.n)
  <2>1. wr.offq = 0 /\ wr.nbrec > 0 /\ WholeRows /\ wr.nbrec \in Nat
    BY <1>1, <1>2 DEF IInv, EvalInv, Evaluating, Wrs
  <2>2. PICK m \in Nat : wr.nbrec = Units(m)
    BY <2>1 DEF WholeRows
  <2>3. wr.nbrec \div RowUnits = m /\ m # 0
    BY <2>1, <2>2, UnitsRows, UnitsZero
  <2>4. RowsLeft = m
    BY <2>3 DEF RowsLeft, Greater
  <2>5. wr.nbrec + wr.offq = wr.nbrec
    BY <2>1
  <2>6. wr.state # "DATA" => m = hdr.n
    BY <1>2, <1>3, <2>2, UnitsInjective
  <2> QED
    BY <2>3, <2>4, <2>5, <2>6 DEF RowsToCome
<1>5. NextRow' = NextRow /\ (RowsLeft = hdr.n => NextRow = hdr.frame)
  BY <1>1, <1>2, <1>3, <1>4 DEF NextRow, RowsToCome
<1>6. HeldLabels' /\ NextLabel' % MfcMod = NextRow % MfcMod
  <2>1. CASE NeedDqd
    <3>1. PICK ts : dqd' = Append1(NewDqd(ts, hdr.frame % MfcMod)) /\ dLast' = dLast + 1
      BY <2>1 DEF AllocateQrows
    <3>2. HeldLabels'
      BY <1>1, <3>1, HeldAppended DEF LabelInv
    <3>3. /\ dqd'[dLast'].mfctr = hdr.frame % MfcMod
          /\ dqd'[dLast'].n = 0 /\ dqd'[dLast'].expired = 0
      <4>1. dLast + 1 \in dFirst .. dLast + 1
        BY <1>2, ChainEnds, ChainNumbers
      <4> QED
        BY <3>1, <4>1 DEF Append1, NewDqd
    <3>4. NextLabel' = hdr.frame % MfcMod
      BY <1>3, <3>3 DEF NextLabel, Rows
    <3> QED
      BY <1>3, <1>5, <2>1, <3>2, <3>4 DEF NeedDqd
  <2>2. CASE ~NeedDqd
    <3>1. UNCHANGED chainVars
      BY <1>1, <2>2 DEF AllocateQrows, chainVars
    <3>2. HeldLabels'
      BY <1>1, <3>1, ChainSame, HeldKept DEF LabelInv
    <3>3. NextLabel' = NextLabel
      BY <3>1 DEF chainVars, NextLabel, Rows
    <3>4. CASE RowsLeft = hdr.n
      <4>1. NextLabel = hdr.frame % MfcMod
        BY <2>2, <3>4 DEF NeedDqd, NextLabel
      <4> QED
        BY <1>3, <1>5, <3>2, <3>3, <3>4, <4>1
    <3>5. CASE RowsLeft # hdr.n
      BY <1>4, <3>2, <3>3, <3>5 DEF LabelInv, LabelGoesOn
    <3> QED
      BY <3>4, <3>5
  <2> QED
    BY <2>1, <2>2
<1>7. BlockFrames'
  BY <1>1, <1>5 DEF LabelInv, BlockFrames, Units
<1> QED
  BY <1>5, <1>6, <1>7 DEF LabelInv, LabelGoesOn

\* Rows expire from the front of the oldest descriptor.
LEMMA ExpireLabels == ASSUME IInv, StreamInv, LabelInv, ExpireRows PROVE LabelInv'
<1>1. /\ pc = "expire" /\ row' = row /\ last' = last /\ hdr' = hdr /\ wr' = wr
  BY DEF ExpireRows, wrVars, sendVars
<1>2. PICK d \in Live : \E x \in 0 .. dqd[d].n :
        /\ Oldest(d) /\ IsExpirable(d, x)
        /\ IF x = 0
           THEN pc' = "place" /\ UNCHANGED <<first, full, chainVars, nreq, nfree>>
           ELSE Expire(d, x)
  BY DEF ExpireRows
<1>3. PICK x \in 0 .. dqd[d].n :
        /\ Oldest(d) /\ IsExpirable(d, x)
        /\ IF x = 0
           THEN pc' = "place" /\ UNCHANGED <<first, full, chainVars, nreq, nfree>>
           ELSE Expire(d, x)
  BY <1>2
<1>4. CASE x = 0
  <2>1. ChainKept
    BY <1>3, <1>4, ChainSame
  <2>2. HeldLabels'
    BY <1>1, <2>1, HeldKept DEF LabelInv
  <2>3. LabelGoesOn' /\ BlockFrames'
    BY <1>1, <2>1, GoesOnKept DEF LabelInv
  <2> QED
    BY <2>2, <2>3 DEF LabelInv
<1>5. CASE x # 0
  <2>1. x \in Nat /\ x > 0 /\ Expire(d, x)
    BY <1>3, <1>5, ChainNumbers
  <2>2. /\ dLast' = dLast /\ dFirst' \in Nat /\ dFirst <= dFirst' /\ dFirst' <= dLast
        /\ x <= dqd[d].n
        /\ \A e \in Live' : e # d => dqd'[e] = dqd[e]
        /\ d \in Live' =>
             /\ dqd'[d].n = dqd[d].n - x /\ dqd'[d].expired = dqd[d].expired + x
             /\ dqd'[d].pos = dqd[d].pos /\ dqd'[d].mfctr = dqd[d].mfctr
    BY <1>3, <2>1, RowsExpired
  <2>3. Live' \subseteq Live /\ dLast \in Live' /\ dLast \in Live
    <3>1. Live = dFirst .. dLast /\ Live' = dFirst' .. dLast
      BY <2>2 DEF Live
    <3>2. dFirst \in Nat /\ dLast \in Nat
      BY ChainEnds
    <3> QED
      BY <2>2, <3>1, <3>2
  <2>4. HeldLabels'
    <3> SUFFICES ASSUME NEW e \in Live', NEW p \in Base(e)' .. Base(e)' + dqd'[e].n - 1
                 PROVE  row[p % TotalQrows] % MfcMod
                          = (dqd'[e].mfctr + (p - dqd'[e].pos)) % MfcMod
      BY <1>1 DEF HeldLabels
    <3>1. e \in Live
      BY <2>3
    <3>2. CASE e # d
      <4>1. dqd'[e] = dqd[e] /\ Base(e)' = Base(e)
        BY <2>2, <3>2 DEF Base
      <4>2. p \in Base(e) .. Base(e) + dqd[e].n - 1
        BY <4>1
      <4> QED
        BY <3>1, <4>1, <4>2 DEF LabelInv, HeldLabels
    <3>3. CASE e = d
      <4>1. Base(e)' = dqd[d].pos + (dqd[d].expired + x) /\ dqd'[e].n = dqd[d].n - x
        BY <2>2, <3>3 DEF Base
      <4>2. p \in Base(d) .. Base(d) + dqd[d].n - 1
        BY <2>1, <2>2, <4>1, ChainNumbers
      <4> QED
        BY <2>2, <3>3, <4>2 DEF LabelInv, HeldLabels
    <3> QED
      BY <3>2, <3>3
  <2>5. NextLabel' = NextLabel
    <3>1. NextLabel' = dqd'[dLast].mfctr + (dqd'[dLast].expired + dqd'[dLast].n)
      BY <2>2 DEF NextLabel, Rows
    <3>2. CASE dLast # d
      BY <2>2, <2>3, <3>1, <3>2 DEF NextLabel, Rows
    <3>3. CASE dLast = d
      <4>1. dqd'[d].expired + dqd'[d].n = dqd[d].expired + dqd[d].n
        BY <2>1, <2>2, <2>3, <3>3, ChainNumbers
      <4> QED
        BY <2>2, <2>3, <3>1, <3>3, <4>1 DEF NextLabel, Rows
    <3> QED
      BY <3>2, <3>3
  <2>6. NextRow' = NextRow
    BY <1>1 DEF NextRow, RowsToCome
  <2>7. LabelGoesOn'
    BY <1>1, <2>5, <2>6 DEF LabelInv, LabelGoesOn
  <2>8. BlockFrames'
    BY <1>1, <2>6 DEF LabelInv, BlockFrames, Units
  <2> QED
    BY <2>4, <2>7, <2>8 DEF LabelInv
<1> QED
  BY <1>4, <1>5

\* The other steps of the writer that leave the ring's contents alone.
LEMMA OtherLabels ==
  ASSUME IInv, StreamInv, LabelInv,
         \/ Writing \/ MsgReadFails \/ BadHeader \/ InitHeader \/ DataHeader
         \/ EvalReturn \/ DoWriteReply \/ DoWriteBlock \/ RunWriteQueue
         \/ (MsgReadChunk /\ wr.state # "DATA")
  PROVE  LabelInv'
<1> USE DEF ringVars, wrVars, sendVars
<1>1. wr \in Wrs /\ hdr \in Hdrs
  BY Parts, WriterTypes
<1>2. row' = row /\ last' = last
  <2>1. CASE MsgReadChunk /\ wr.state # "DATA"
    <3>1. row' = [s \in DOMAIN row |-> row[s]] /\ last' = last
      BY <2>1 DEF MsgReadChunk
    <3> QED
      BY <3>1, Parts DEF WriterInv, RingType
  <2>2. CASE Writing
    BY <2>2 DEF Writing, IoWrite
  <2> QED
    BY <2>1, <2>2 DEF MsgReadFails, FailWrite, BadHeader, InitHeader, DataHeader, EvalReturn,
                      DoWriteReply, DoWriteBlock, RunWriteQueue
<1>3. ChainKept
  BY ChainFreeSteps, ChainSame DEF ChainFree
<1>4. HeldLabels'
  BY <1>2, <1>3, HeldKept DEF LabelInv
<1>5. LabelGoesOn' /\ BlockFrames'
  <2>1. CASE Writing
    <3>1. PICK h \in NextRecs \cup {hdr} : \E nb \in 1 .. RecUnits(h) : IoWrite(h, nb)
      BY <2>1 DEF Writing
    <3>2. /\ pc = "idle" /\ pc' = "write" /\ (left > 0 => hdr' = hdr) /\ ~wr.pending
          /\ wr'.state = wr.state /\ wr'.nbrec = wr.nbrec /\ wr'.offq = wr.offq
      BY <1>1, <3>1 DEF IoWrite, Wrs
    <3>3. CASE wr.state # "DATA"
      BY <3>2, <3>3, NoBlock
    <3>4. CASE wr.state = "DATA"
      <4>1. Outstanding = wr.nbrec /\ wr.nbrec > 0 /\ wr.nbmsg = 0
        BY <3>2, <3>4 DEF StreamInv, RowsRead
      <4>2. left > 0
        BY <1>1, <4>1, Parts, WriterTypes DEF Outstanding, Wrs
      <4> QED
        BY <1>2, <1>3, <3>2, <3>4, <4>2, GoesOnKept DEF LabelInv
    <3> QED
      BY <3>3, <3>4
  <2>2. CASE MsgReadFails \/ BadHeader
    <3>1. wr'.state = "HDR" /\ pc' = "idle"
      BY <1>1, <2>2 DEF MsgReadFails, BadHeader, FailWrite, HdrState, Return, Wrs
    <3> QED
      BY <3>1, NoBlock
  <2>3. CASE InitHeader
    <3>1. wr'.state = "INFO" /\ pc' = "write"
      BY <1>1, <2>3 DEF InitHeader, Wrs
    <3> QED
      BY <3>1, NoBlock
  <2>4. CASE DataHeader
    <3>1. wr'.state = "HDR" /\ pc' = "eval"
      BY <1>1, <2>4 DEF DataHeader, StreamInv, Wrs
    <3> QED
      BY <3>1, NoBlock
  <2>5. CASE MsgReadChunk /\ wr.state # "DATA"
    <3>1. wr'.state = wr.state /\ pc' \in {"write", "hdr", "info"}
      BY <1>1, <2>5 DEF MsgReadChunk, Received, Wrs
    <3> QED
      BY <2>5, <3>1, NoBlock
  <2>6. CASE EvalReturn
    <3>1. hdr' = hdr /\ pc' \in {"write", "idle"} /\ (wr' = wr \/ wr' = HdrState(wr))
      BY <2>6 DEF EvalReturn, EndRecord, Return
    <3>2. CASE wr' = wr
      BY <1>2, <1>3, <3>1, <3>2, GoesOnKept DEF LabelInv
    <3>3. CASE wr' = HdrState(wr)
      BY <1>1, <3>1, <3>3, NoBlock DEF HdrState, Wrs
    <3> QED
      BY <3>1, <3>2, <3>3
  <2>7. CASE DoWriteReply \/ DoWriteBlock \/ RunWriteQueue
    <3>1. /\ hdr' = hdr /\ pc' \in {"readq", "idle", "eval"}
          /\ wr'.state = wr.state /\ wr'.nbrec = wr.nbrec /\ wr'.offq = wr.offq
      BY <1>1, <2>7 DEF DoWriteReply, DoWriteBlock, RunWriteQueue, ToReadQueue, Return, Wrs
    <3> QED
      BY <1>2, <1>3, <3>1, GoesOnKept DEF LabelInv
  <2> QED
    BY <2>1, <2>2, <2>3, <2>4, <2>5, <2>6, <2>7
<1> QED
  BY <1>4, <1>5 DEF LabelInv

\* Every step.
LEMMA LabelStep ==
  ASSUME DataType = "T3", IInv, StreamInv, RingInv, LabelInv, [Next]_vars PROVE LabelInv'
<1>1. CASE UNCHANGED vars \/ ReaderStep
  <2>1. /\ row' = row /\ last' = last /\ hdr' = hdr /\ wr' = wr
        /\ pc' \in {"expire", "place"} => pc \in {"expire", "place"}
    BY <1>1, ReaderSteps DEF vars, ringVars, sendVars, wrVars, Waiting
  <2>2. ChainKept
    BY <1>1, ChainSame, ReaderChain DEF vars
  <2> QED
    BY <2>1, <2>2, HeldKept, GoesOnKept DEF LabelInv
<1>2. CASE TstampHeader \/ ProcessTmInfo
  <2>1. QueueTstamp /\ wr' = HdrState(wr) /\ pc' = "write" /\ row' = row
    BY <1>2 DEF TstampHeader, ProcessTmInfo, ringVars
  <2>2. HeldLabels'
    <3>1. PICK ts : ts = nts + 1
      OBVIOUS
    <3>2. dqd' = Append1(NewDqd(ts, 0)) /\ dFirst' = dFirst /\ dLast' = dLast + 1
      BY <2>1, <3>1 DEF QueueTstamp
    <3> QED
      BY <2>1, <3>2, HeldAppended DEF LabelInv
  <2>3. wr'.state = "HDR"
    BY <2>1, Parts, WriterTypes DEF HdrState, Wrs
  <2> QED
    BY <2>1, <2>2, <2>3, NoBlock DEF LabelInv
<1> QED
  BY <1>1, <1>2, OtherLabels, BlockArrives, CommitLabels, PlaceLabels, AllocateLabels,
     ExpireLabels, Steps DEF WriterStep

\* The server starts without rows.
LEMMA LabelInit == ASSUME Init PROVE LabelInv
<1>1. dFirst = 1 /\ dLast = 0 /\ pc = "idle" /\ wr.state = "HDR"
  BY DEF Init
<1>2. Live = {}
  BY <1>1 DEF Live
<1> QED
  BY <1>1, <1>2 DEF LabelInv, HeldLabels, LabelGoesOn, BlockFrames

-----------------------------------------------------------------------------
(* The newest row *)

\* The newest row stays the newest while the ring's contents stay.
LEMMA NewestKept ==
  ASSUME IInv, ChainKept, row' = row, last' = last, hdr' = hdr, NewestIs(NextFrame)
  PROVE  NewestIs(NextFrame)'
<1>1. NextFrame' = NextFrame
  BY DEF NextFrame
<1>2. NextLabel' = NextLabel
  <2>1. dLast \in Nat /\ (dLast = 0 => dqd' = dqd) /\ dLast' = dLast
    BY ChainEnds DEF ChainKept
  <2>2. CASE dLast = 0
    BY <2>1, <2>2 DEF NextLabel, Rows
  <2>3. CASE dLast > 0
    <3>1. SameFields(dLast)
      BY <2>3 DEF ChainKept
    <3> QED
      BY <2>1, <3>1 DEF NextLabel, Rows, SameFields
  <2> QED
    BY <2>1, <2>2, <2>3
<1> QED
  BY <1>1, <1>2 DEF NewestIs

\* A record is on its way, or was not of data.
LEMMA NotNewest ==
  ASSUME pc' \notin {"eval", "evaldone"},
         \/ wr'.state # "HDR" \/ hdr'.kind # "DATA" \/ Outstanding' # 0
         \/ wr'.nbdata # HdrUnits \/ MsgReadErrors
  PROVE  NewestInv'
BY DEF NewestInv, HdrUnits

\* Nothing new about the record.
LEMMA NewestQuiet ==
  ASSUME IInv, NewestInv, ChainKept, row' = row, last' = last, hdr' = hdr, left' = left,
         wr'.state = wr.state, wr'.nbdata = wr.nbdata, wr'.nbmsg = wr.nbmsg,
         pc' \notin {"eval", "evaldone"}, pc \notin Busy
  PROVE  NewestInv'
<1>1. SUFFICES ASSUME wr'.state = "HDR", hdr'.kind = "DATA", Outstanding' = 0,
                      wr'.nbdata = HdrUnits, ~MsgReadErrors
      PROVE  NewestIs(NextFrame)'
  BY DEF NewestInv
<1>2. ~AfterHeader
  BY <1>1 DEF AfterHeader, HdrUnits
<1>3. Outstanding = 0
  BY <1>1 DEF Outstanding
<1>4. NewestIs(NextFrame)
  BY <1>1, <1>2, <1>3 DEF NewestInv
<1> QED
  BY <1>4, NewestKept

\* The evaluation of a record goes on.
LEMMA StillEvaluating ==
  ASSUME pc' \in Busy,
         wr'.state = "DATA" /\ pc' = "eval" /\ wr'.nbrec = 0 => wr'.offq > 0,
         wr'.state = "DATA" /\ pc' = "evaldone" /\ wr'.nbrec = 0 => NewestIs(NextFrame)'
  PROVE  NewestInv'
BY DEF NewestInv, AfterHeader, Busy, Evaluating

\* The last rows are committed.
LEMMA CommitNewest ==
  ASSUME DataType = "T3", IInv, StreamInv, RingInv, LabelInv, NewestInv, CommitRows
  PROVE  NewestInv'
<1>1. RoomKept
  BY DEF RingInv
<1>2. PICK k \in 0 .. TotalQrows :
        /\ wr.offq = Units(k) /\ last' = SlotAfter(last, k) /\ row' = row
        /\ k \in Nat /\ last + k <= TotalQrows
        /\ wr \in Wrs /\ dLast > 0
  BY <1>1, RowsCommitted
<1>3. /\ wr' = [wr EXCEPT !.offq = 0] /\ hdr' = hdr /\ pc = "eval"
      /\ pc' = IF wr.nbrec > 0 THEN "alloc" ELSE "evaldone"
  BY DEF CommitRows, sendVars
<1>4. wr'.offq = 0 /\ wr'.nbrec = wr.nbrec /\ wr'.state = wr.state
  BY <1>2, <1>3 DEF Wrs
<1>5. ASSUME wr.state = "DATA", wr.nbrec = 0 PROVE NewestIs(NextFrame)'
  <2>1. hdr.frame \in Nat /\ hdr.n \in Nat /\ last \in Nat /\ TotalQrows \in Nat \ {0}
    BY <1>5, RowNumbers, RingNumbers DEF Hdrs
  <2>2. k > 0
    <3>1. wr.offq > 0
      BY <1>3, <1>5 DEF NewestInv
    <3>2. k # 0
      BY <1>2, <3>1, UnitsZero
    <3> QED
      BY <1>2, <3>2
  <2>3. RowsToCome = k
    <3>1. Units(k) \in Nat
      BY <1>2, UnitsNat
    <3>2. wr.nbrec + wr.offq = Units(k)
      BY <1>2, <1>5, <3>1
    <3> QED
      BY <1>2, <3>2, UnitsRows DEF RowsToCome
  <2>4. NextRow = hdr.frame + hdr.n - k
    BY <2>3 DEF NextRow
  <2>5. k - 1 \in 0 .. TotalQrows /\ k - 1 \in Nat /\ k - 1 < k
    BY <1>2, <2>1, <2>2
  <2>6. Units(k - 1) < Units(k)
    BY <1>2, <2>5, UnitsLeq, UnitsNat
  <2>7. row[last + (k - 1)] = NextRow + (k - 1)
    BY <1>2, <1>5, <2>5, <2>6 DEF LabelInv, BlockFrames
  <2>8. NextRow + (k - 1) = NextFrame - 1
    BY <1>2, <2>1, <2>4 DEF NextFrame
  <2>9. (last' + TotalQrows - 1) % TotalQrows = last + (k - 1)
    <3>1. CASE last + k = TotalQrows
      <4>1. last' = 0
        BY <1>2, <3>1 DEF SlotAfter
      <4>2. last' + TotalQrows - 1 = TotalQrows - 1 /\ last + (k - 1) = TotalQrows - 1
            /\ TotalQrows - 1 \in 0 .. TotalQrows - 1
        BY <1>2, <2>1, <3>1, <4>1
      <4> QED
        BY <2>1, <4>2, ModSmall
    <3>2. CASE last + k # TotalQrows
      <4>1. last' = last + k
        BY <1>2, <3>2 DEF SlotAfter
      <4>2. PICK r \in 0 .. TotalQrows - 1 : r = last + (k - 1)
        BY <1>2, <2>1, <2>5
      <4>3. last' + TotalQrows - 1 = TotalQrows * 1 + r /\ last' + TotalQrows - 1 \in Nat
        BY <1>2, <2>1, <4>1, <4>2
      <4>4. \A a \in Nat : a = TotalQrows * 1 + r => a % TotalQrows = r
        BY <2>1, ModOf
      <4> QED
        BY <4>2, <4>3, <4>4
    <3> QED
      BY <3>1, <3>2
  <2>10. NextLabel' % MfcMod = NextFrame % MfcMod
    <3>1. LabelGoesOn'
      BY CommitLabels DEF LabelInv
    <3>2. NextLabel' % MfcMod = NextRow' % MfcMod
      BY <1>4, <1>5, <3>1 DEF LabelGoesOn
    <3>3. wr'.nbrec + wr'.offq = Units(0)
      BY <1>4, <1>5, UnitsZero
    <3>4. RowsToCome' = 0
      BY <3>3, UnitsRows DEF RowsToCome
    <3>5. NextRow' = NextFrame
      BY <1>3, <2>1, <3>4 DEF NextRow, NextFrame
    <3> QED
      BY <3>2, <3>5
  <2>11. NextFrame' = NextFrame
    BY <1>3 DEF NextFrame
  <2>12. row'[(last' + TotalQrows - 1) % TotalQrows] = NextFrame - 1
    BY <1>2, <2>7, <2>8, <2>9
  <2> QED
    BY <2>10, <2>11, <2>12 DEF NewestIs
<1> QED
  BY <1>2, <1>3, <1>4, <1>5, StillEvaluating DEF Busy, Evaluating, Wrs

\* A row that came whole with its header is to be committed.
LEMMA PlaceNewest ==
  ASSUME IInv, StreamInv, PlaceRows PROVE NewestInv'
<1> DEFINE ex == ExcessHere
<1>1. /\ pc = "place" /\ hdr' = hdr
      /\ wr' = [wr EXCEPT !.state = IF nfree > 0 THEN "DATA" ELSE @,
                          !.nbdata = Units(nfree) - ex,
                          !.offq = ex, !.nbrec = @ - ex]
      /\ pc' = IF RowInHeader THEN "eval" ELSE "evaldone"
  BY DEF PlaceRows, sendVars
<1>2. /\ wr \in Wrs /\ hdr \in Hdrs
      /\ wr.state # "DATA" => wr.nbrec = Units(hdr.n)
  BY <1>1, RowNumbers
<1>3. wr.nbrec > 0 /\ nfree + nreq <= RowsLeft /\ nfree \in Nat /\ nreq \in Nat
  BY <1>1, ControlTypes DEF IInv, EvalInv, Evaluating
<1>4. ex \in {0, 1} /\ (ex = 1 => nfree > 0 /\ wr.state = "HDR")
  BY DEF ExcessHere, Excess, HdrUnits, DataHdr
<1>5. RowInHeader <=> nfree > 0 /\ Units(nfree) = ex
  BY DEF RowInHeader
<1> HIDE DEF ex
<1>6. wr'.offq = ex /\ wr'.nbrec = wr.nbrec - ex /\ wr.nbrec \in Nat
  BY <1>1, <1>2 DEF Wrs
<1>7. pc' = "eval" => wr'.offq > 0
  BY <1>1, <1>3, <1>4, <1>5, <1>6, UnitsNat
<1>8. ASSUME wr'.nbrec = 0 PROVE pc' = "eval"
  <2>1. ex = 1 /\ wr.nbrec = 1 /\ nfree > 0 /\ Units(hdr.n) = 1 /\ hdr.n \in Nat
    BY <1>2, <1>3, <1>4, <1>6, <1>8 DEF Hdrs
  <2>2. RowUnits = 1
    BY <2>1, ConstType DEF Units
  <2>3. RowsLeft = 1
    BY <2>1, <2>2 DEF RowsLeft, Greater
  <2>4. nfree = 1
    BY <1>3, <2>1, <2>3
  <2>5. Units(nfree) = 1
    BY <2>2, <2>4 DEF Units
  <2> QED
    BY <1>1, <1>5, <2>1, <2>5
<1> QED
  BY <1>1, <1>7, <1>8, StillEvaluating DEF Busy, Evaluating

\* What is left of the record is read.
LEMMA ReadNewest ==
  ASSUME IInv, StreamInv, MsgReadChunk PROVE NewestInv'
<1> DEFINE nb == Lesser(wr.nbmsg, wr.nbdata)
<1>1. /\ pc = "write" /\ wr' = Received(nb) /\ hdr' = hdr /\ left' = left
      /\ wr.nbmsg > 0 /\ wr.nbdata > 0
      /\ pc' = IF nb < wr.nbdata THEN "write"
               ELSE IF wr.state = "DATA" THEN "eval"
               ELSE IF wr.state = "HDR" THEN "hdr" ELSE "info"
  BY DEF MsgReadChunk, sendVars
<1>2. wr \in Wrs /\ hdr \in Hdrs /\ left \in Nat
  BY Parts, WriterTypes
<1>3. nb \in Nat /\ nb > 0 /\ nb <= wr.nbmsg /\ nb <= wr.nbdata
  BY <1>1, <1>2 DEF Lesser, Wrs
<1> HIDE DEF nb
<1>4. /\ wr'.state = wr.state /\ wr'.nbdata = wr.nbdata - nb /\ wr'.nbmsg = wr.nbmsg - nb
      /\ wr.state = "DATA" => wr'.offq = wr.offq + nb
      /\ wr.nbdata \in Nat /\ wr.nbmsg \in Nat /\ wr.offq \in Nat
  BY <1>1, <1>2 DEF Received, Wrs
<1>5. CASE wr.state = "DATA"
  <2>1. pc' \in {"write", "eval"} /\ wr'.offq > 0 /\ wr'.state = "DATA"
    BY <1>1, <1>3, <1>4, <1>5
  <2> QED
    BY <2>1 DEF NewestInv
<1>6. CASE wr.state # "DATA"
  <2>1. pc' \notin {"eval", "evaldone"}
    BY <1>1, <1>6
  <2>2. ASSUME wr'.state = "HDR", hdr'.kind = "DATA", Outstanding' = 0, wr'.nbdata = HdrUnits
        PROVE  FALSE
    <3>1. HeaderRead
      BY <1>1, <1>4, <2>2 DEF StreamInv, AfterHeader, Busy, Evaluating
    <3>2. Outstanding = left + wr.nbmsg /\ left + (wr.nbmsg - nb) = 0
      BY <1>1, <1>4, <2>2 DEF Outstanding
    <3>3. Outstanding > 0
      BY <1>1, <1>2, <1>4, <3>2
    <3>4. Outstanding = RecUnits(hdr) - 2 + wr.nbdata
      BY <3>1, <3>3 DEF HeaderRead, HdrUnits
    <3>5. RecUnits(hdr) = 1 + Units(hdr.n) /\ Units(hdr.n) \in Nat
      BY <1>1, <1>2, <2>2, RecordLengths
    <3>6. wr.nbdata - nb = 2
      BY <1>4, <2>2 DEF HdrUnits
    <3> QED
      BY <1>2, <1>3, <1>4, <3>2, <3>4, <3>5, <3>6
  <2> QED
    BY <2>1, <2>2, NotNewest
<1> QED
  BY <1>5, <1>6

\* Back from the evaluation, the record may be complete.
LEMMA ReturnNewest ==
  ASSUME IInv, StreamInv, NewestInv, EvalReturn PROVE NewestInv'
<1>1. /\ pc = "evaldone" /\ hdr' = hdr /\ left' = left /\ row' = row /\ last' = last
      /\ pc' \in {"write", "idle"} /\ (wr' = wr \/ wr' = EndRecord) /\ UNCHANGED chainVars
  BY DEF EvalReturn, Return, ringVars, sendVars
<1>2. /\ wr \in Wrs /\ wr.state \in {"HDR", "DATA"}
      /\ wr.state = "HDR" => wr.nbdata = 0 /\ wr.nbrec > 0
  BY <1>1, Evaluation DEF Busy, FirstRows
<1>3. CASE wr' = wr
  BY <1>1, <1>2, <1>3, NotNewest DEF HdrUnits
<1>4. CASE wr' # wr
  <2>1. wr' = HdrState(wr) /\ wr.nbrec = 0
    BY <1>1, <1>2, <1>4 DEF EndRecord, Wrs
  <2>2. NewestIs(NextFrame)
    BY <1>1, <1>2, <2>1 DEF NewestInv
  <2>3. NewestIs(NextFrame)'
    BY <1>1, <2>2, ChainSame, NewestKept
  <2> QED
    BY <1>1, <2>3 DEF NewestInv
<1> QED
  BY <1>3, <1>4

\* Every step.
LEMMA NewestStep ==
  ASSUME DataType = "T3", IInv, StreamInv, RingInv, LabelInv, NewestInv, [Next]_vars
  PROVE  NewestInv'
<1> USE DEF ringVars, wrVars, sendVars
<1>1. wr \in Wrs /\ hdr \in Hdrs /\ left \in Nat
  BY Parts, WriterTypes
<1>2. CASE UNCHANGED vars
  <2>1. /\ wr' = wr /\ hdr' = hdr /\ left' = left /\ pc' = pc /\ row' = row /\ last' = last
        /\ ChainKept
    BY <1>2, ChainSame DEF vars
  <2>2. AfterHeader' = AfterHeader /\ Outstanding' = Outstanding
    BY <2>1 DEF AfterHeader, Outstanding
  <2> QED
    BY <2>1, <2>2, NewestKept DEF NewestInv
<1>3. CASE ReaderStep
  <2>1. /\ wr' = wr /\ hdr' = hdr /\ left' = left /\ row' = row /\ last' = last /\ ChainKept
        /\ pc \in Waiting /\ pc' \in Waiting
    BY <1>3, ReaderSteps, ReaderChain
  <2>2. pc' \notin {"eval", "evaldone"} /\ pc \notin Busy
    BY <2>1 DEF Waiting, Busy, Evaluating
  <2> QED
    BY <2>1, <2>2, NewestQuiet
<1>4. CASE Writing
  <2>1. PICK h \in NextRecs \cup {hdr} : \E nb \in 1 .. RecUnits(h) : IoWrite(h, nb)
    BY <1>4 DEF Writing
  <2>2. PICK nb \in 1 .. RecUnits(h) : IoWrite(h, nb)
    BY <2>1
  <2>3. h \in Hdrs
    BY <1>1, <2>1, NextRecType
  <2>4. RecUnits(h) \in Nat
    BY <2>3, RecordLengths
  <2> DEFINE avail == IF left > 0 THEN left ELSE RecUnits(h)
  <2>5. pc' = "write" /\ nb \in 1 .. avail /\ left' = avail - nb
        /\ wr' = [wr EXCEPT !.nbmsg = nb, !.pending = TRUE]
    BY <2>2 DEF IoWrite
  <2>6. Outstanding' = (avail - nb) + nb /\ avail \in Nat /\ avail > 0
    <3>1. wr'.nbmsg = nb
      BY <1>1, <2>5 DEF Wrs
    <3>2. avail \in Nat
      BY <1>1, <2>4
    <3> HIDE DEF avail
    <3> QED
      BY <2>5, <3>1, <3>2 DEF Outstanding
  <2>7. Outstanding' # 0
    <3> HIDE DEF avail
    <3> QED
      BY <2>5, <2>6
  <2> QED
    BY <2>5, <2>7, NotNewest
<1>5. CASE MsgReadFails \/ BadHeader
  <2>1. pc' = "idle" /\ hdr' = hdr /\ (MsgReadErrors \/ hdr.kind = "BAD")
    BY <1>5 DEF MsgReadFails, BadHeader, FailWrite, Return
  <2> QED
    BY <2>1, NotNewest
<1>6. CASE InitHeader \/ TstampHeader \/ ProcessTmInfo
  <2>1. InitHeader => pc' = "write" /\ wr'.state = "INFO"
    BY <1>1 DEF InitHeader, Wrs
  <2>2. TstampHeader \/ ProcessTmInfo => pc' = "write" /\ hdr' = hdr /\ hdr.kind # "DATA"
    BY DEF TstampHeader, ProcessTmInfo, StreamInv, InfoRead
  <2> QED
    BY <1>6, <2>1, <2>2, NotNewest
<1>7. CASE DataHeader
  <2>1. pc' = "eval" /\ wr'.state = "HDR"
    BY <1>1, <1>7 DEF DataHeader, StreamInv, Wrs
  <2> QED
    BY <2>1, StillEvaluating DEF Busy, Evaluating
<1>8. CASE AllocateQrows \/ ExpireRows
  <2>1. pc' \in {"expire", "place"}
    <3>1. AllocateQrows => pc' \in {"expire", "place"}
      BY DEF AllocateQrows
    <3>2. ExpireRows => pc' \in {"expire", "place"}
      BY DEF ExpireRows, Expire
    <3> QED
      BY <1>8, <3>1, <3>2
  <2> QED
    BY <2>1, StillEvaluating DEF Busy, Evaluating
<1>9. CASE DoWriteReply \/ DoWriteBlock
  <2>1. /\ hdr' = hdr /\ left' = left /\ row' = row /\ last' = last /\ UNCHANGED chainVars
        /\ wr'.state = wr.state /\ wr'.nbdata = wr.nbdata /\ wr'.nbmsg = wr.nbmsg
        /\ pc = "write" /\ pc' \in {"readq", "idle"}
    BY <1>1, <1>9 DEF DoWriteReply, DoWriteBlock, ToReadQueue, Return, Wrs
  <2> QED
    BY <2>1, ChainSame, NewestQuiet DEF Busy, Evaluating
<1>10. CASE RunWriteQueue
  <2>1. /\ hdr' = hdr /\ left' = left /\ row' = row /\ last' = last /\ UNCHANGED chainVars
        /\ wr' = wr /\ pc = "writeq" /\ pc' \in {"eval", "idle"}
    BY <1>10 DEF RunWriteQueue, Return
  <2>2. CASE pc' = "eval"
    <3>1. wr.state = "DATA" => wr.nbrec > 0
      BY <2>1 DEF StreamInv, RowsRead
    <3> QED
      BY <1>1, <2>1, <2>2, <3>1, StillEvaluating DEF Busy, Evaluating, Wrs
  <2>3. CASE pc' = "idle"
    BY <2>1, <2>3, ChainSame, NewestQuiet DEF Busy, Evaluating
  <2> QED
    BY <2>1, <2>2, <2>3
<1> QED
  BY <1>2, <1>3, <1>4, <1>5, <1>6, <1>7, <1>8, <1>9, <1>10, ReadNewest, ReturnNewest,
     CommitNewest, PlaceNewest, Steps DEF WriterStep

-----------------------------------------------------------------------------
(* The readers' limits *)

\* An ocb with no limit, or the one of its request
Limited(o) == o.max \in {0, MaxQrows(o.q)} /\ (o.dqd = 0 => o.max = 0)

\* One ocb changes.
LEMMA OneLimit ==
  ASSUME IInv, LimitInv, NEW r \in Readers, NEW o, rd' = [rd EXCEPT ![r] = o], Limited(o)
  PROVE  LimitInv'
<1>1. DOMAIN rd = Readers
  BY Parts DEF QueueInv
<1>2. \A s \in Readers : rd'[s] = IF s = r THEN o ELSE rd[s]
  BY <1>1
<1> QED
  BY <1>2 DEF LimitInv, Limited

\* read_reply clears the limit with the answer, or keeps it.
LEMMA ReplyLimits ==
  ASSUME IInv, LimitInv, pc = "read", NEW o \in Ocbs,
         \/ \E kind, mf, rows, units : Give(o, kind, mf, rows, units)
         \/ EnqueueRead(o) /\ o.max = rd[rq].max /\ o.q = rd[rq].q /\ o.dqd = rd[rq].dqd
         \/ rd' = [rd EXCEPT ![rq] = o] /\ o.max = rd[rq].max /\ o.q = rd[rq].q /\ o.dqd # 0
  PROVE  LimitInv'
<1>1. rq \in Readers /\ Limited(rd[rq])
  BY Served DEF LimitInv, Limited
<1>2. \E n : rd' = [rd EXCEPT ![rq] = n] /\ Limited(n)
  <2>1. CASE \E kind, mf, rows, units : Give(o, kind, mf, rows, units)
    <3>1. PICK units : rd' = [rd EXCEPT ![rq] = [o EXCEPT !.part = Greater(0, units - o.q),
                                                          !.q = 0, !.max = 0]]
      BY <2>1 DEF Give
    <3>2. Limited([o EXCEPT !.part = Greater(0, units - o.q), !.q = 0, !.max = 0])
      BY DEF Limited, Ocbs
    <3> QED
      BY <3>1, <3>2
  <2>2. CASE EnqueueRead(o) /\ o.max = rd[rq].max /\ o.q = rd[rq].q /\ o.dqd = rd[rq].dqd
    <3>1. \/ rd' = [rd EXCEPT ![rq] = [o EXCEPT !.q = 0, !.max = 0]]
          \/ rd' = [rd EXCEPT ![rq] = [o EXCEPT !.blocked = TRUE]]
      BY <2>2 DEF EnqueueRead
    <3>2. Limited([o EXCEPT !.q = 0, !.max = 0])
      BY DEF Limited, Ocbs
    <3>3. Limited([o EXCEPT !.blocked = TRUE])
      BY <1>1, <2>2 DEF Limited, Ocbs
    <3> QED
      BY <3>1, <3>2, <3>3
  <2>3. CASE rd' = [rd EXCEPT ![rq] = o] /\ o.max = rd[rq].max /\ o.q = rd[rq].q /\ o.dqd # 0
    BY <1>1, <2>3 DEF Limited
  <2> QED
    BY <2>1, <2>2, <2>3
<1> QED
  BY <1>1, <1>2, OneLimit

\* Every step.
LEMMA LimitStep == ASSUME IInv, LimitInv, [Next]_vars PROVE LimitInv'
<1>1. ASSUME rd' = rd PROVE LimitInv'
  BY <1>1 DEF LimitInv
<1>2. rd \in [Readers -> Ocbs]
  BY Parts DEF QueueInv
<1>3. CASE UNCHANGED vars \/ OpenWriter \/ CloseWriter \/ Shutdown \/ Terminated
  BY <1>1, <1>3 DEF vars, rdVars, OpenWriter, CloseWriter, Shutdown, Terminated
<1>4. CASE RunReadQueue
  <2>1. \/ \E r \in todo : rd' = [rd EXCEPT ![r].blocked = FALSE]
        \/ rd' = [r \in Readers |-> [rd[r] EXCEPT !.armed = FALSE]]
    BY <1>4 DEF RunReadQueue
  <2>2. \A r \in Readers : /\ rd'[r].max = rd[r].max /\ rd'[r].q = rd[r].q
                           /\ rd'[r].dqd = rd[r].dqd
    BY <1>2, <2>1 DEF Ocbs
  <2> QED
    BY <2>2 DEF LimitInv
<1>5. ASSUME NEW r \in Readers, OpenReader(r) \/ CloseReader(r) \/ IoNotify(r) \/ ReadRequest(r)
      PROVE  LimitInv'
  <2>1. rd[r] \in Ocbs /\ Limited(rd[r])
    BY <1>2 DEF LimitInv, Limited
  <2>2. CASE OpenReader(r) \/ CloseReader(r)
    <3>1. CASE rd' = [rd EXCEPT ![r] = [ClosedReader EXCEPT !.open = TRUE]]
      <4>1. Limited([ClosedReader EXCEPT !.open = TRUE])
        BY DEF ClosedReader, Limited
      <4> QED
        BY <3>1, <4>1, OneLimit
    <3>2. CASE rd' = [rd EXCEPT ![r] = ClosedReader]
      <4>1. Limited(ClosedReader)
        BY DEF ClosedReader, Limited
      <4> QED
        BY <3>2, <4>1, OneLimit
    <3> QED
      BY <2>2, <3>1, <3>2 DEF OpenReader, CloseReader
  <2>3. CASE IoNotify(r)
    <3>1. rd' = [rd EXCEPT ![r] = [rd[r] EXCEPT !.armed = ~NotifyInput(r)]]
      BY <2>3 DEF IoNotify
    <3>2. Limited([rd[r] EXCEPT !.armed = ~NotifyInput(r)])
      BY <2>1 DEF Limited, Ocbs
    <3> QED
      BY <3>1, <3>2, OneLimit
  <2>4. CASE ReadRequest(r)
    <3>1. PICK q \in ReadSizes, nb \in BOOLEAN : IoRead(r, q, nb)
      BY <2>4 DEF ReadRequest
    <3> DEFINE o == [rd[r] EXCEPT !.q = q,
                                  !.max = IF rd[r].dqd > 0 THEN MaxQrows(q) ELSE rd[r].max]
    <3>2. rd' = [rd EXCEPT ![r] = o]
      BY <1>2, <3>1 DEF IoRead
    <3>3. Limited(o)
      BY <2>1 DEF Limited, Ocbs
    <3> HIDE DEF o
    <3> QED
      BY <3>2, <3>3, OneLimit
  <2> QED
    BY <1>5, <2>2, <2>3, <2>4
<1>6. ASSUME pc = "read" PROVE rd[rq] \in Ocbs
  BY <1>6, Served
<1>7. CASE ReplyPartial
  BY <1>6, <1>7, ReplyLimits DEF ReplyPartial, Reading
<1>8. CASE ReplyInit
  <2> DEFINE o == [rd[rq] EXCEPT !.dqd = dFirst, !.n = 0, !.got = dqd[dFirst].pos]
  <2>1. pc = "read" /\ Give(o, "INIT", 0, <<>>, InitUnits) /\ dLast > 0
    BY <1>8 DEF ReplyInit, Reading
  <2>2. o \in Ocbs
    <3>1. dFirst \in Nat /\ dqd[dFirst].pos \in Nat
      BY <2>1, ChainEnds, ChainNumbers
    <3> QED
      BY <1>6, <2>1, <3>1 DEF Ocbs
  <2> HIDE DEF o
  <2> QED
    BY <2>1, <2>2, ReplyLimits
<1>9. CASE ReadBeforeInit
  BY <1>6, <1>9, ReplyLimits DEF ReadBeforeInit, Reading
<1>10. CASE ReplyDefer \/ ReplyStarved
  <2>1. pc = "read" /\ rd[rq].dqd > 0 /\ EnqueueRead(CaughtUp)
    BY <1>10 DEF ReplyDefer, ReplyStarved, Attached, Reading
  <2> QED
    BY <2>1, CaughtUpType, ReplyLimits
<1>11. CASE ReplyRows
  <2> DEFINE k == Lesser(Ready, rd[rq].max)
             o == [CaughtUp EXCEPT !.n = @ + k, !.got = @ + k]
  <2>1. /\ pc = "read" /\ rd[rq].dqd > 0 /\ Ready > 0
        /\ \E kind, mf, rows, units : Give(o, kind, mf, rows, units)
    BY <1>11 DEF ReplyRows, Attached, Reading
  <2>2. k \in Nat
    <3>1. CaughtUp.n \in Nat /\ rd[rq].max \in Nat
      BY <2>1, CaughtUpType, <1>6, ConstType DEF Ocbs
    <3>2. Rows(rd[rq].dqd) \in Nat
      BY <2>1, Served, ChainFields DEF Ocbs
    <3> QED
      BY <2>1, <3>1, <3>2 DEF Ready, Lesser
  <2> HIDE DEF k
  <2>3. o \in Ocbs
    <3>1. PICK c \in Ocbs : c = CaughtUp
      BY <2>1, CaughtUpType
    <3>2. PICK n \in Nat, g \in Nat : n = c.n + k /\ g = c.got + k
      BY <2>2 DEF Ocbs
    <3>3. [c EXCEPT !.n = n, !.got = g] \in Ocbs
      BY DEF Ocbs
    <3> QED
      BY <3>1, <3>2, <3>3
  <2> HIDE DEF o
  <2> QED
    BY <2>1, <2>3, ReplyLimits
<1>12. CASE ReplyNextDqd
  <2> DEFINE o == [CaughtUp EXCEPT !.dqd = rd[rq].dqd + 1, !.n = 0]
  <2>1. /\ pc = "read" /\ rd[rq].dqd > 0
        /\ (\E kind, mf, rows, units : Give(o, kind, mf, rows, units)) \/ rd' = [rd EXCEPT ![rq] = o]
    BY <1>12 DEF ReplyNextDqd, Attached, Reading
  <2>2. rd[rq].dqd \in Nat
    BY <1>6, <2>1 DEF Ocbs
  <2>3. o \in Ocbs /\ o.max = rd[rq].max /\ o.q = rd[rq].q /\ o.dqd # 0
    <3>1. PICK c \in Ocbs : c = CaughtUp
      BY <2>1, CaughtUpType
    <3>2. c.max = rd[rq].max /\ c.q = rd[rq].q
      BY <2>1, <3>1, CaughtUpType
    <3>3. PICK d \in Nat : d = rd[rq].dqd + 1 /\ d # 0
      BY <2>2
    <3> DEFINE e == [c EXCEPT !.dqd = d, !.n = 0]
    <3>4. e \in Ocbs /\ e.max = c.max /\ e.q = c.q /\ e.dqd = d
      BY DEF Ocbs
    <3> QED
      BY <3>1, <3>2, <3>3, <3>4
  <2> HIDE DEF o
  <2> QED
    BY <2>1, <2>3, ReplyLimits
<1>13. CASE WriterStep
  <2>1. rd' = rd
    <3>1. CASE Writing
      BY <3>1 DEF Writing, IoWrite, rdVars
    <3> QED
      BY <1>13, <3>1 DEF WriterStep, rdVars, MsgReadFails, FailWrite, BadHeader, MsgReadChunk,
         InitHeader, TstampHeader, DataHeader, ProcessTmInfo, CommitRows, AllocateQrows,
         ExpireRows, PlaceRows, EvalReturn, DoWriteReply, DoWriteBlock, RunWriteQueue
  <2> QED
    BY <1>1, <2>1
<1> QED
  BY <1>3, <1>4, <1>5, <1>7, <1>8, <1>9, <1>10, <1>11, <1>12, <1>13, Steps
     DEF ReaderStep, ReadReply

-----------------------------------------------------------------------------
(* Replies *)

\* The rows of a reply are the next ones of its descriptor.
LEMMA ReplyFrames ==
  ASSUME DataType = "T3", IInv, RingInv, LabelInv, ReplyRows PROVE RepliesConsecutive'
<1> DEFINE d == rd[rq].dqd
           k == Lesser(Ready, rd[rq].max)
<1>1. /\ pc = "read" /\ d > 0 /\ Ready > 0
      /\ reply'.mf = (dqd[d].mfctr + CaughtUp.n) % MfcMod
      /\ reply'.rows = [i \in 1 .. k |-> row[SlotAt(i)]]
  BY DEF ReplyRows, Attached, Reading, Give, Answer
<1>2. d \in Live /\ CaughtUp.n <= Rows(d) /\ CaughtUp.n \in Nat /\ rd[rq] \in Ocbs
  BY <1>1, Served, CaughtUpType DEF Ocbs
<1> HIDE DEF d
<1>3. /\ dqd[d].pos \in Nat /\ dqd[d].n \in Nat /\ dqd[d].expired \in Nat /\ dqd[d].mfctr \in Nat
      /\ dqd[d].start \in 0 .. TotalQrows - 1 /\ Rows(d) = dqd[d].expired + dqd[d].n
      /\ Base(d) \in Nat /\ Base(d) = dqd[d].pos + dqd[d].expired
      /\ TotalQrows \in Nat \ {0} /\ MfcMod \in Nat \ {0}
  BY <1>2, ChainNumbers, RingNumbers, ConstType
<1>4. dqd[d].expired <= CaughtUp.n
  <2>1. CaughtUp.n = Greater(rd[rq].n, dqd[d].expired) /\ rd[rq].n \in Nat
    BY <1>2 DEF CaughtUp, Ocbs, d
  <2> QED
    BY <1>3, <2>1 DEF Greater
<1>5. k \in Nat /\ CaughtUp.n + k <= Rows(d)
  <2>1. Ready = Rows(d) - CaughtUp.n /\ rd[rq].max \in Nat
    BY <1>2, ConstType DEF Ready, d, Ocbs
  <2>2. PICK u \in Nat : u = Rows(d)
    BY <1>3
  <2>3. PICK c \in Nat : c = CaughtUp.n
    BY <1>2
  <2>4. PICK m \in Nat : m = rd[rq].max
    BY <2>1
  <2>5. k = Lesser(u - c, m) /\ u - c > 0
    BY <1>1, <2>1, <2>2, <2>3, <2>4
  <2>6. k \in Nat /\ c + k <= u
    BY <2>5 DEF Lesser
  <2> QED
    BY <2>2, <2>3, <2>6
<1> HIDE DEF k
<1> SUFFICES ASSUME NEW i \in 1 .. k
             PROVE  row[SlotAt(i)] % MfcMod = (reply'.mf + i - 1) % MfcMod
  <2>1. DOMAIN reply'.rows = 1 .. k /\ \A i \in 1 .. k : reply'.rows[i] = row[SlotAt(i)]
    BY <1>1
  <2> QED
    BY <2>1 DEF RepliesConsecutive
<1>6. PICK m \in Nat : m = i - 1
  BY <1>5
<1>7. PICK c \in Nat : c = CaughtUp.n
  BY <1>2
<1>8. PICK e \in Nat : e = (c - dqd[d].expired) + m
  BY <1>3, <1>4, <1>7
<1>9. e < dqd[d].n /\ dqd[d].n > 0
  BY <1>3, <1>4, <1>5, <1>6, <1>7, <1>8
<1>10. dqd[d].n <= TotalQrows /\ dqd[d].start = Base(d) % TotalQrows
  <2>1. Base(d) + dqd[d].n <= Total /\ Total - Base(d) <= HeldRows /\ HeldRows \in 0 .. TotalQrows
        /\ Total \in Nat /\ dqd[d].start = Base(d) % TotalQrows
    BY <1>2, <1>9, ChainTotal, RingNumbers DEF RingInv, RingPlaced
  <2> QED
    BY <1>3, <2>1
<1>11. SlotAt(i) = (Base(d) + e) % TotalQrows
  <2>1. e \in 0 .. TotalQrows
    BY <1>3, <1>9, <1>10
  <2>0. PICK z \in Nat : z = Base(d)
    BY <1>3
  <2>7. (z + e) % TotalQrows
        = IF (z % TotalQrows) + e >= TotalQrows THEN (z % TotalQrows) + e - TotalQrows
          ELSE (z % TotalQrows) + e
    BY <1>3, <2>1, ModAdd
  <2>2. (Base(d) + e) % TotalQrows
        = IF dqd[d].start + e >= TotalQrows THEN dqd[d].start + e - TotalQrows
          ELSE dqd[d].start + e
    BY <1>10, <2>0, <2>7
  <2> DEFINE s == dqd[d].start + (c - dqd[d].expired)
             q == (IF s > TotalQrows THEN s - TotalQrows ELSE s) + m
  <2>3. SlotAt(i) = IF q >= TotalQrows THEN q - TotalQrows ELSE q
    BY <1>6, <1>7 DEF SlotAt, d
  <2>4. s \in Nat /\ s + m = dqd[d].start + e /\ s + m < TotalQrows + TotalQrows
    BY <1>3, <1>4, <1>7, <1>8, <1>9, <1>10
  <2>8. PICK t \in Nat : t = dqd[d].start + e
    BY <1>3
  <2>9. PICK T \in Nat \ {0} : T = TotalQrows
    BY <1>3
  <2>10. PICK v \in Nat : v = s
    BY <2>4
  <2> HIDE DEF s
  <2>11. q = (IF v > T THEN v - T ELSE v) + m /\ v + m = t /\ v + m < T + T
    BY <2>4, <2>8, <2>9, <2>10
  <2> HIDE DEF q
  <2>12. (IF q >= T THEN q - T ELSE q) = (IF t >= T THEN t - T ELSE t)
    <3>1. CASE v > T
      BY <2>11, <3>1
    <3>2. CASE v <= T
      BY <2>11, <3>2
    <3> QED
      BY <3>1, <3>2
  <2>13. dqd[d].start + e - TotalQrows = t - T
    BY <1>3, <2>8, <2>9
  <2>14. (Base(d) + e) % TotalQrows = IF t >= T THEN t - T ELSE t
    BY <2>2, <2>8, <2>9, <2>13
  <2>15. SlotAt(i) = IF q >= T THEN q - T ELSE q
    BY <2>3, <2>9
  <2> QED
    BY <2>12, <2>14, <2>15
<1>12. row[SlotAt(i)] % MfcMod = ((dqd[d].mfctr + c) + m) % MfcMod
  <2>1. PICK p \in Nat : p = Base(d) + e
    BY <1>3
  <2>2. p \in Base(d) .. Base(d) + dqd[d].n - 1
    BY <1>3, <1>9, <2>1
  <2>3. row[p % TotalQrows] % MfcMod = (dqd[d].mfctr + (p - dqd[d].pos)) % MfcMod
    BY <1>2, <2>2 DEF LabelInv, HeldLabels
  <2>4. dqd[d].mfctr + (p - dqd[d].pos) = (dqd[d].mfctr + c) + m
    BY <1>3, <1>4, <1>8, <2>1
  <2> QED
    BY <1>11, <2>1, <2>3, <2>4
<1>13. PICK a \in Nat : a = dqd[d].mfctr + c
  BY <1>3
<1>14. ((a % MfcMod) + m) % MfcMod = (a + m) % MfcMod
  BY <1>3, ModSum
<1> QED
  BY <1>1, <1>6, <1>7, <1>12, <1>13, <1>14

\* A reply without rows.
LEMMA NoRows == ASSUME reply'.rows = <<>> PROVE RepliesConsecutive'
BY DEF RepliesConsecutive

\* Every step.
LEMMA RepliesStep ==
  ASSUME DataType = "T3", IInv, RingInv, LabelInv, RepliesConsecutive, [Next]_vars
  PROVE  RepliesConsecutive'
<1>1. ASSUME reply' = reply PROVE RepliesConsecutive'
  BY <1>1 DEF RepliesConsecutive
<1>2. ASSUME reply' = NoReply PROVE RepliesConsecutive'
  BY <1>2, NoRows DEF NoReply
<1>3. ASSUME NEW kind, NEW mf, Answer(kind, mf, <<>>) PROVE RepliesConsecutive'
  BY <1>3, NoRows DEF Answer
<1>4. CASE UNCHANGED vars \/ OpenWriter \/ CloseWriter \/ Shutdown \/ Terminated
  BY <1>1, <1>4 DEF vars, rdVars, OpenWriter, CloseWriter, Shutdown, Terminated
<1>5. CASE \E r \in Readers : OpenReader(r) \/ CloseReader(r) \/ IoNotify(r) \/ ReadRequest(r)
  BY <1>1, <1>5 DEF OpenReader, CloseReader, IoNotify, ReadRequest, IoRead
<1>6. CASE RunReadQueue \/ RunWriteQueue
  BY <1>2, <1>6 DEF RunReadQueue, RunWriteQueue
<1>7. CASE ReadReply
  <2>1. CASE ReplyPartial \/ ReplyInit
    BY <1>3, <2>1 DEF ReplyPartial, ReplyInit, Give
  <2>2. CASE ReadBeforeInit \/ ReplyDefer \/ ReplyStarved
    BY <1>1, <1>3, <2>2 DEF ReadBeforeInit, ReplyDefer, ReplyStarved, EnqueueRead
  <2>3. CASE ReplyNextDqd
    BY <1>1, <1>3, <2>3 DEF ReplyNextDqd, Give
  <2> QED
    BY <1>7, <2>1, <2>2, <2>3, ReplyFrames DEF ReadReply
<1>8. CASE WriterStep
  <2>1. reply' = reply \/ reply' = NoReply
    <3>1. CASE Writing
      BY <3>1 DEF Writing, IoWrite, rdVars
    <3> QED
      BY <1>8, <3>1 DEF WriterStep, rdVars, MsgReadFails, FailWrite, BadHeader, MsgReadChunk,
         InitHeader, TstampHeader, DataHeader, ProcessTmInfo, CommitRows, AllocateQrows,
         ExpireRows, PlaceRows, EvalReturn, DoWriteReply, DoWriteBlock, RunWriteQueue
  <2> QED
    BY <1>1, <1>2, <2>1
<1> QED
  BY <1>4, <1>5, <1>6, <1>7, <1>8, Steps DEF ReaderStep

-----------------------------------------------------------------------------
(* The theorems *)

\* Nothing is limited, received or answered before the first request.
LEMMA RowsInit == ASSUME Init PROVE NewestInv /\ LimitInv /\ RepliesConsecutive
<1>1. /\ pc = "idle" /\ hdr.kind = "NONE" /\ wr.state = "HDR" /\ reply = NoReply
      /\ rd = [r \in Readers |-> ClosedReader]
  BY DEF Init
<1>2. NewestInv
  BY <1>1 DEF NewestInv
<1>3. LimitInv
  BY <1>1 DEF LimitInv, ClosedReader
<1>4. RepliesConsecutive
  BY <1>1 DEF RepliesConsecutive, NoReply
<1> QED
  BY <1>2, <1>3, <1>4

\* The whole invariant, in every state the server can reach.
LEMMA RowsStay ==
  ASSUME Labelling PROVE Spec => [](IInv /\ RowsInv /\ RepliesConsecutive)
<1> DEFINE Inv == IInv /\ StreamInv /\ RoomFound /\ RingInv
           More == TsInv /\ LabelInv /\ NewestInv /\ LimitInv /\ RepliesConsecutive
<1>1. Init => More
  BY StampsInit, LabelInit, RowsInit
<1>2. Inv /\ More /\ [Next]_vars => More'
  <2> SUFFICES ASSUME Inv, More, [Next]_vars PROVE More'
    OBVIOUS
  <2>1. DataType = "T3"
    BY DEF Labelling
  <2> QED
    BY <2>1, StampsStep, LabelStep, NewestStep, LimitStep, RepliesStep
<1>3. Inv /\ More => IInv /\ RowsInv /\ RepliesConsecutive
  BY DEF RowsInv
<1>4. Spec => []Inv
  BY RingStays
<1> HIDE DEF Inv, More
<1> QED
  BY <1>1, <1>2, <1>3, <1>4, PTL DEF Spec

\* The frames a descriptor holds, slot by slot.
LEMMA Labelled == ASSUME IInv, RingInv, LabelInv PROVE FramesLabelled
<1> SUFFICES ASSUME NEW d \in Live, NEW i \in Held(d)
             PROVE  row[(dqd[d].start + i) % TotalQrows] % MfcMod
                      = (dqd[d].mfctr + dqd[d].expired + i) % MfcMod
  BY DEF FramesLabelled
<1>1. i \in Nat /\ i < dqd[d].n
  BY ConstType DEF Held
<1>2. /\ dqd[d].pos \in Nat /\ dqd[d].n \in Nat /\ dqd[d].expired \in Nat
      /\ Base(d) \in Nat /\ Base(d) = dqd[d].pos + dqd[d].expired
      /\ TotalQrows \in Nat \ {0} /\ dqd[d].mfctr \in Nat
  BY ChainNumbers, ConstType
<1>3. dqd[d].start = Base(d) % TotalQrows
  BY DEF RingInv, RingPlaced
<1>4. PICK p \in Nat : p = Base(d) + i
  BY <1>1, <1>2
<1>5. (dqd[d].start + i) % TotalQrows = p % TotalQrows
  <2>1. PICK b \in Nat : b = Base(d)
    BY <1>2
  <2>2. ((b % TotalQrows) + i) % TotalQrows = (b + i) % TotalQrows
    BY <1>1, <1>2, ModSum
  <2> QED
    BY <1>3, <1>4, <2>1, <2>2
<1>6. p \in Base(d) .. Base(d) + dqd[d].n - 1
  BY <1>1, <1>2, <1>4
<1>7. row[p % TotalQrows] % MfcMod = (dqd[d].mfctr + (p - dqd[d].pos)) % MfcMod
  BY <1>6 DEF LabelInv, HeldLabels
<1>8. dqd[d].mfctr + (p - dqd[d].pos) = dqd[d].mfctr + dqd[d].expired + i
  BY <1>1, <1>2, <1>4
<1> QED
  BY <1>5, <1>7, <1>8

\* Whatever is overwritten, expired or freed, each row that is held is the frame
\* its descriptor labels it with, in the slot where read_reply looks for it, and
\* the descriptor's time stamp is still there.
THEOREM RowsLabelled == ASSUME Labelling PROVE Spec => []RowsAreLabelled
<1>1. IInv /\ RowsInv /\ RepliesConsecutive => RowsAreLabelled
  BY Tiled, Labelled DEF RowsInv, TsInv, RowsAreLabelled
<1> QED
  BY <1>1, RowsStay, PTL

\* read_reply never returns a data record in which a frame is missing or wrong,
\* whatever was overwritten since the reader's last request.
THEOREM FramesConsecutive == ASSUME Labelling PROVE Spec => []RepliesConsecutive
BY RowsStay, PTL

\* Between requests a record that was sent completely is in the queue.
LEMMA Stored ==
  ASSUME Labelling, ~MsgReadErrors, IInv, RowsInv PROVE AnsweredMeansStored
<1> SUFFICES ASSUME pc = "idle", ~wr.pending, left = 0, hdr.kind = "DATA"
             PROVE  /\ wr.state = "HDR" /\ wr.nbdata = HdrUnits
                    /\ NewestIs(NextFrame)
  BY DEF AnsweredMeansStored, NewestIs, NextLabel
<1>1. /\ wr.state \in {"HDR", "INFO", "DATA"} /\ wr.nbdata \in Nat /\ wr.nbrec \in Nat
      /\ hdr.n \in Nat /\ StreamInv /\ RoomFound /\ NewestInv
  BY Parts, WriterTypes DEF RowsInv, Wrs, Hdrs
<1>2. Outstanding = 0 /\ hdr.n > 0 /\ pc \notin Busy
  BY <1>1 DEF StreamInv, Outstanding, Busy, Evaluating
<1>3. Units(hdr.n) \in Nat /\ Units(hdr.n) >= hdr.n
  BY <1>1, UnitsNat
<1>4. wr.state # "INFO"
  BY <1>1 DEF StreamInv, InfoRead
<1>5. wr.state # "DATA"
  BY <1>1, <1>2 DEF StreamInv, RowsRead
<1>6. wr.state = "HDR"
  BY <1>1, <1>4, <1>5
<1>7. ~AfterHeader
  <2> SUFFICES ASSUME AfterHeader PROVE FALSE
    OBVIOUS
  <2>1. wr.nbrec = Units(hdr.n) /\ wr.nbdata = 0 /\ Outstanding = wr.nbrec - 1
    BY <1>1 DEF StreamInv, FirstRows, Excess, HdrUnits, DataHdr
  <2>2. Units(hdr.n) = 1
    BY <1>1, <1>2, <2>1
  <2>3. RowUnits # 2
    BY <1>1, <1>2, <2>2 DEF Units
  <2>4. Nonblock
    BY <2>3 DEF Labelling
  <2>5. wr.nbdata > 0
    BY <1>1, <1>2, <2>4 DEF RoomFound
  <2> QED
    BY <2>1, <2>5
<1>8. wr.nbdata = HdrUnits
  <2>1. HeaderRead
    BY <1>1, <1>6, <1>7 DEF StreamInv
  <2>2. wr.nbdata # 0
    BY <1>6, <1>7 DEF AfterHeader
  <2>3. CASE Outstanding = RecUnits(hdr) - HdrUnits + wr.nbdata
    <3>1. RecUnits(hdr) = 1 + Units(hdr.n)
      BY DEF RecUnits, DataHdr
    <3> QED
      BY <1>1, <1>2, <1>3, <2>2, <2>3, <3>1 DEF HdrUnits
  <2> QED
    BY <2>1, <2>3 DEF HeaderRead
<1>9. NewestIs(NextFrame)
  BY <1>1, <1>2, <1>6, <1>7, <1>8 DEF NewestInv
<1> QED
  BY <1>6, <1>8, <1>9

\* When a write is answered and its record is complete, every row of the record
\* is in the queue and labelled, however many pieces it came in and however often
\* the writer was blocked in between.
THEOREM WritesStored ==
  ASSUME Labelling, ~MsgReadErrors PROVE Spec => []AnsweredMeansStored
<1>1. IInv /\ RowsInv /\ RepliesConsecutive => AnsweredMeansStored
  BY Stored
<1> QED
  BY <1>1, RowsStay, PTL

\* The block behind last is whole rows and ends before the ring does.
LEMMA EvalAsserts ==
  ASSUME IInv, pc = "eval"
  PROVE  /\ wr.nbdata = 0 /\ wr.offq % RowUnits = 0
         /\ last + wr.offq \div RowUnits <= TotalQrows
<1>1. wr.nbdata = 0 /\ (wr.state # "DATA" => wr.offq = 0)
  BY DEF IInv, EvalInv, Evaluating
<1>2. last \in 0 .. TotalQrows - 1 /\ TotalQrows \in Nat \ {0} /\ wr.offq \in Nat
  BY RingNumbers, Parts, WriterTypes DEF Wrs
<1>3. PICK b \in 0 .. TotalQrows - last : wr.offq = Units(b)
  <2>1. CASE wr.state = "DATA"
    BY <1>1, <1>2, <2>1 DEF IInv, BlockFits
  <2>2. CASE wr.state # "DATA"
    <3>1. 0 \in 0 .. TotalQrows - last
      BY <1>2
    <3> QED
      BY <1>1, <2>2, <3>1, UnitsZero
  <2> QED
    BY <2>1, <2>2
<1>4. b \in Nat /\ last + b <= TotalQrows
  BY <1>2, <1>3
<1>5. Units(b) \div RowUnits = b
  BY <1>4, UnitsRows
<1>6. Units(b) % RowUnits = 0
  <2>1. CASE RowUnits = 1
    BY <1>4, <2>1 DEF Units
  <2>2. CASE RowUnits = 2
    BY <1>4, <2>2 DEF Units
  <2> QED
    BY <2>1, <2>2, ConstType
<1> QED
  BY <1>1, <1>3, <1>4, <1>5, <1>6

\* The reply that the limit allows fits in the buffer or in the request.
LEMMA ReplyFits ==
  ASSUME NEW k \in Nat, NEW q \in Nat, NEW m \in {0, MaxQrows(q)}, k <= m
  PROVE  DataHdr + Units(k) <= Greater(PbufSize, q)
<1>1. TotalQrows \in Nat /\ RowUnits \in {1, 2}
  BY ConstType
<1>2. PbufSize = 3
  BY <1>1 DEF PbufSize, Greater, InitUnits, DataHdr
<1>3. k <= 1 \/ k <= (q - 1) \div RowUnits
  <2>1. CASE m = 0
    BY <2>1
  <2>2. CASE m = MaxQrows(q)
    <3>1. (q - 1) \div RowUnits \in Int
      BY <1>1
    <3>2. PICK z \in Int : z = (q - 1) \div RowUnits
      BY <3>1
    <3>3. m = Lesser(TotalQrows, Greater(1, z))
      BY <2>2, <3>2 DEF MaxQrows, DataHdr
    <3> QED
      BY <1>1, <3>2, <3>3 DEF Lesser, Greater
  <2> QED
    BY <2>1, <2>2
<1>4. 1 + Units(k) <= 3 \/ 1 + Units(k) <= q
  <2>1. CASE RowUnits = 1
    BY <1>3, <2>1 DEF Units
  <2>2. CASE RowUnits = 2
    BY <1>3, <2>2 DEF Units
  <2> QED
    BY <1>1, <2>1, <2>2
<1>5. Units(k) \in Nat
  BY UnitsNat
<1> QED
  BY <1>2, <1>4, <1>5 DEF Greater, DataHdr

\* The rows allocate_qrows finds fit behind last, the excess among them.
LEMMA PlaceAsserts ==
  ASSUME IInv, pc \in {"expire", "place"}
  PROVE  last + nfree <= TotalQrows /\ (nfree > 0 => Excess <= Units(nfree))
<1>1. last + nfree <= TotalQrows /\ nfree \in Nat
  BY Parts DEF IInv, EvalInv, ServerInv, ControlType
<1>2. Units(nfree) >= nfree /\ Units(nfree) \in Nat
  BY <1>1, UnitsNat
<1> QED
  BY <1>1, <1>2 DEF Excess, HdrUnits, DataHdr

\* The descriptor of the reader being served is counted and not overrun.
LEMMA ReadAsserts ==
  ASSUME IInv, LimitInv, Attached
  PROVE  /\ dqd[rd[rq].dqd].ref > 0 /\ Ready >= 0
         /\ DataHdr + Units(Lesser(Ready, rd[rq].max)) <= Greater(PbufSize, rd[rq].q)
<1> DEFINE d == rd[rq].dqd
<1>1. pc = "read" /\ d > 0
  BY DEF Attached, Reading
<1>2. rq \in Readers /\ rd[rq] \in Ocbs /\ d \in Live
  BY <1>1, Served
<1>3. dqd[d].ref > 0
  <2>1. rq \in On(d) /\ IsFiniteSet(On(d))
    BY <1>2, OnFinite DEF On
  <2>2. Cardinality(On(d)) \in Nat /\ Cardinality(On(d)) # 0
    BY <2>1, FS_EmptySet, FS_CardinalityType
  <2>3. dqd[d].ref = Cardinality(On(d))
    BY <1>2 DEF IInv, RefCounts
  <2> HIDE DEF d
  <2> QED
    BY <2>2, <2>3
<1>4. CaughtUp.n <= Rows(d) /\ CaughtUp.n \in Nat /\ Rows(d) \in Nat
  BY <1>1, <1>2, CaughtUpType, ChainFields DEF Ocbs
<1>5. Ready = Rows(d) - CaughtUp.n
  BY DEF Ready
<1>6. PICK r \in Nat : r = Ready
  <2> HIDE DEF d
  <2> QED
    BY <1>4, <1>5
<1>7. PICK q \in Nat : q = rd[rq].q
  BY <1>2 DEF Ocbs
<1>8. rd[rq].max \in {0, MaxQrows(q)}
  BY <1>2, <1>7 DEF LimitInv
<1>9. rd[rq].max \in Nat
  BY <1>2, ConstType DEF Ocbs
<1>10. PICK m \in {0, MaxQrows(q)} : m = rd[rq].max /\ m \in Nat
  BY <1>8, <1>9
<1>11. Lesser(r, m) \in Nat /\ Lesser(r, m) <= m
  BY <1>10 DEF Lesser
<1>12. DataHdr + Units(Lesser(r, m)) <= Greater(PbufSize, q)
  BY <1>11, ReplyFits
<1> QED
  BY <1>3, <1>6, <1>7, <1>10, <1>12

\* No assert() of the server fails: those of do_write, data_state_Tn and
\* allocate_qrows on the writer's counts and the room behind last, those of
\* dq_deref and read_reply on the reader's descriptor, and that of do_read_reply
\* on the length of what it returns.
THEOREM NoAssertFails == ASSUME Labelling PROVE Spec => []AssertionsHold
<1>1. ASSUME IInv, RowsInv PROVE AssertionsHold
  <2>1. RoomFound /\ RingPlaced /\ LimitInv
    BY <1>1 DEF RowsInv, RingInv
  <2>2. pc = "write" /\ wr.nbmsg > 0 /\ wr.nbdata = 0 => ~Nonblock
    BY <2>1 DEF RoomFound, Busy, Evaluating
  <2>3. pc = "expire" => \A d \in Live : Oldest(d) => dqd[d].start = first
    BY <1>1, <2>1, OldestIsFirst
  <2> QED
    BY <1>1, <2>1, <2>2, <2>3, EvalAsserts, PlaceAsserts, ReadAsserts DEF AssertionsHold
<1>2. IInv /\ RowsInv /\ RepliesConsecutive => AssertionsHold
  BY <1>1
<1> QED
  BY <1>2, RowsStay, PTL

-----------------------------------------------------------------------------
(* Who waits *)

\* No descriptor comes, none gets rows; those that readers are on stay
ChainShrinks ==
  /\ dLast' = dLast /\ Live' \subseteq Live
  /\ \A e \in Live' : /\ dqd'[e].ts = dqd[e].ts /\ dqd'[e].n <= dqd[e].n
                      /\ Rows(e)' = Rows(e)

\* A step without new rows gives a reader nothing that it did not have.
LEMMA NothingCame ==
  ASSUME IInv, IInv', ChainShrinks, NEW r \in Readers,
         rd'[r].part = rd[r].part, rd'[r].dqd = rd[r].dqd, rd'[r].n = rd[r].n
  PROVE  /\ Deliverable(r)' => Deliverable(r)
         /\ rd[r].dqd > 0 => RowsReady(r)' <= RowsReady(r)
<1>1. dLast' = dLast /\ dLast \in Nat /\ Live' = dFirst' .. dLast' /\ Live = dFirst .. dLast
  BY ChainEnds DEF ChainShrinks, Live
<1>2. rd[r] \in Ocbs /\ rd[r].n \in Nat /\ rd[r].dqd \in Nat
  <2>1. rd[r] \in Ocbs
    BY Parts DEF QueueInv
  <2> QED
    BY <2>1 DEF Ocbs
<1>3. ASSUME rd[r].dqd > 0 PROVE rd[r].dqd \in Live'
  BY <1>2, <1>3, Parts DEF IInv, RefCounts
<1>4. ASSUME NEW e \in Live'
      PROVE  /\ dqd[e].n \in Nat /\ dqd[e].expired \in Nat /\ dqd'[e].n \in Int
             /\ dqd'[e].expired = dqd[e].expired + (dqd[e].n - dqd'[e].n)
             /\ dqd'[e].n <= dqd[e].n /\ dqd'[e].ts = dqd[e].ts
  <2>1. e \in Live /\ dqd'[e].n <= dqd[e].n /\ dqd'[e].ts = dqd[e].ts
        /\ Rows(e)' = Rows(e)
    BY <1>4 DEF ChainShrinks
  <2>2. dqd'[e] \in Dqds
    <3>1. ChainType'
      BY DEF IInv, TypeOK
    <3> QED
      BY <1>4, <3>1 DEF ChainType, Live
  <2>3. dqd'[e].n \in Nat /\ dqd'[e].expired \in Nat
    BY <2>2 DEF Dqds
  <2>4. dqd[e].n \in Nat /\ dqd[e].expired \in Nat
    BY <2>1, ChainNumbers
  <2> QED
    BY <2>1, <2>3, <2>4 DEF Rows
<1>5. ASSUME rd[r].dqd > 0 PROVE RowsReady(r)' <= RowsReady(r)
  <2>1. PICK d : d = rd[r].dqd
    OBVIOUS
  <2>2. d \in Live' /\ rd'[r].dqd = d
    BY <1>3, <1>5, <2>1
  <2>3. /\ RowsReady(r) = dqd[d].n - Greater(0, rd[r].n - dqd[d].expired)
        /\ RowsReady(r)' = dqd'[d].n - Greater(0, rd[r].n - dqd'[d].expired)
    BY <2>1, <2>2 DEF RowsReady
  <2> QED
    BY <1>2, <1>4, <2>2, <2>3 DEF Greater
<1>6. ASSUME Deliverable(r)' PROVE Deliverable(r)
  <2>1. CASE rd'[r].part > 0 \/ (rd'[r].dqd = 0 /\ dLast' > 0)
    BY <1>1, <2>1 DEF Deliverable
  <2>2. CASE rd[r].dqd > 0 /\ RowsReady(r)' > 0
    <3>1. RowsReady(r) \in Int /\ RowsReady(r)' \in Int
      <4>1. PICK d : d = rd[r].dqd
        OBVIOUS
      <4>2. d \in Live' /\ rd'[r].dqd = d
        BY <1>3, <2>2, <4>1
      <4>3. /\ RowsReady(r) = dqd[d].n - Greater(0, rd[r].n - dqd[d].expired)
            /\ RowsReady(r)' = dqd'[d].n - Greater(0, rd[r].n - dqd'[d].expired)
        BY <4>1, <4>2 DEF RowsReady
      <4> QED
        BY <1>2, <1>4, <4>2, <4>3 DEF Greater
    <3>2. RowsReady(r) > 0
      BY <1>5, <2>2, <3>1
    <3> QED
      BY <2>2, <3>2 DEF Deliverable
  <2>3. ASSUME rd[r].dqd > 0, NEW d \in rd[r].dqd + 1 .. dLast,
               dqd'[d].n > 0 \/ dqd'[d].ts # dqd'[rd[r].dqd].ts
        PROVE  Deliverable(r)
    <3>1. d \in Live' /\ rd[r].dqd \in Live'
      <4>1. rd[r].dqd \in Live' /\ dFirst' \in Nat
        BY <1>3, <2>3 DEF IInv, TypeOK, ChainType
      <4> QED
        BY <1>1, <1>2, <2>3, <4>1
    <3>2. dqd'[d].n > 0 => dqd[d].n > 0
      BY <1>4, <3>1
    <3>3. dqd'[d].ts = dqd[d].ts /\ dqd'[rd[r].dqd].ts = dqd[rd[r].dqd].ts
      BY <1>4, <3>1
    <3> QED
      BY <2>3, <3>2, <3>3 DEF Deliverable
  <2> QED
    BY <1>1, <1>6, <2>1, <2>2, <2>3 DEF Deliverable
<1> QED
  BY <1>5, <1>6

\* Reference counts and freed descriptors are nothing to a reader.
LEMMA KeptShrinks == ASSUME IInv, ChainKept PROVE ChainShrinks
<1>1. \A e \in Live' : e \in Live /\ SameFields(e)
  BY DEF ChainKept
<1>2. \A e \in Live' : dqd[e].n \in Nat
  BY <1>1, ChainNumbers
<1> QED
  BY <1>1, <1>2 DEF ChainKept, ChainShrinks, SameFields, Rows

\* A reader that the step leaves alone waits as before.
LEMMA WaitsOn ==
  ASSUME IInv, IInv', ChainShrinks, NEW r \in Readers, rd'[r] = rd[r],
         dgOpened' < 2 \/ dgOpened' = dgOpened, blockedWriter' => blockedWriter
  PROVE  /\ (Awaited => Awaited') /\ Waits(r) => Waits(r)'
         /\ Armed(r) => Armed(r)'
<1>1. Deliverable(r)' => Deliverable(r)
  BY NothingCame
<1>2. dLast' = dLast /\ dLast \in Nat
  BY ChainEnds DEF ChainShrinks
<1>3. ASSUME Deliverable(r)', Saving(r) PROVE Saving(r)'
  <2>1. rd[r].dqd = dLast /\ rd[r].part = 0 /\ NodeOf[r] = "DCo" /\ ~blockedWriter
        /\ RowsReady(r) < rd[r].max
    BY <1>3 DEF Saving
  <2>2. rd'[r].dqd > 0
    BY <1>2, <1>3, <2>1 DEF Deliverable
  <2>3. RowsReady(r)' <= RowsReady(r)
    BY <2>2, NothingCame
  <2>4. RowsReady(r) \in Int /\ RowsReady(r)' \in Int /\ rd[r].max \in Int
    <3>1. rd[r] \in Ocbs /\ rd[r].dqd \in Live /\ rd[r].dqd \in Live'
      BY <2>2, Parts DEF QueueInv, IInv, RefCounts
    <3>2. dqd[rd[r].dqd] \in Dqds /\ dqd'[rd[r].dqd] \in Dqds
      BY <3>1 DEF IInv, TypeOK, ChainType, Live
    <3> QED
      BY <3>1, <3>2, ConstType DEF RowsReady, Greater, Dqds, Ocbs
  <2>5. RowsReady(r)' < rd[r].max
    BY <2>1, <2>3, <2>4
  <2> QED
    BY <1>2, <2>1, <2>5 DEF Saving
<1> QED
  BY <1>1, <1>3 DEF Waits, Armed

\* A step that leaves the readers alone and makes no rows available.
LEMMA QuietStep ==
  ASSUME IInv, IInv', ReadersInv, ChainShrinks, rd' = rd, dgOpened' = dgOpened,
         blockedWriter' => blockedWriter, newRows' = newRows, Awaited => Awaited',
         pc \notin {"readq", "read"}, pc' \notin {"readq", "read"}
  PROVE  ReadersInv'
<1>1. Unserved' = Unserved /\ Untriggered' = Untriggered
  BY DEF Unserved, Untriggered
<1>2. ASSUME NEW r \in Readers \ Unserved PROVE Waits(r)'
  BY <1>2, WaitsOn DEF ReadersInv
<1>3. ASSUME NEW r \in Readers, ~Untriggered PROVE Armed(r)'
  BY <1>3, WaitsOn DEF ReadersInv
<1> QED
  BY <1>1, <1>2, <1>3 DEF ReadersInv

\* run_read_queue will look at everybody, so nothing is due before.
LEMMA NotedStep ==
  ASSUME ReadersInv, rd' = rd, newRows', pc' # "read" PROVE ReadersInv'
BY DEF ReadersInv, Unserved, Untriggered

\* It begins with the list of those that are blocked.
LEMMA WokenStep == ASSUME ReadersInv, rd' = rd, ToReadQueue PROVE ReadersInv'
<1>1. /\ pc' = "readq" /\ newRows' = FALSE
      /\ todo' = {r \in Readers : rd[r].open /\ rd[r].blocked}
  BY DEF ToReadQueue
<1>2. Unserved' = todo' /\ Untriggered'
  BY <1>1 DEF Unserved, Untriggered
<1>3. ASSUME NEW r \in Readers \ todo' PROVE Waits(r)'
  BY <1>1, <1>3 DEF ReadersInv, Waits
<1> QED
  BY <1>1, <1>2, <1>3 DEF ReadersInv

-----------------------------------------------------------------------------
(* The writer's steps *)

\* io_write takes a record in one piece.
LEMMA IoWriteWakes ==
  ASSUME WholeWrites, IInv, IInv', RowsInv, WakeInv, Writing PROVE WakeInv'
<1>0. PICK h \in NextRecs \cup {hdr} : \E nb \in 1 .. RecUnits(h) : IoWrite(h, nb)
  BY DEF Writing
<1>1. PICK nb \in 1 .. RecUnits(h) : IoWrite(h, nb)
  BY <1>0
<1>2. /\ pc = "idle" /\ pc' = "write" /\ rd' = rd /\ dgOpened' = dgOpened
      /\ blockedWriter' = FALSE /\ newRows' = newRows /\ ret' = ret
      /\ UNCHANGED chainVars /\ wr' = [wr EXCEPT !.nbmsg = nb, !.pending = TRUE]
  BY <1>1 DEF IoWrite, rdVars, evalVars
<1>3. ChainShrinks
  BY <1>2, ChainSame, KeptShrinks
<1>4. ReadersInv'
  BY <1>2, <1>3, QuietStep DEF WakeInv, Awaited, Active, Busy, Evaluating
<1>5. ~newRows /\ ret = "write" /\ left = 0
  BY <1>2 DEF WakeInv, RowsNoted, Active, Busy, Evaluating, RowsInv, StreamInv
<1>6. left' = 0
  <2>1. LET avail == IF left > 0 THEN left ELSE RecUnits(h)
        IN  nb = avail /\ left' = avail - nb
    BY <1>1 DEF IoWrite, WholeWrites
  <2>2. nb \in Int
    OBVIOUS
  <2> QED
    BY <2>1, <2>2
<1>7. RowsNoted'
  BY <1>2, <1>5, <1>6 DEF RowsNoted
<1> QED
  BY <1>4, <1>7 DEF WakeInv

\* A bad header ends the write before anything was committed.
LEMMA BadHeaderWakes ==
  ASSUME IInv, IInv', RowsInv, WakeInv, BadHeader PROVE WakeInv'
<1>1. /\ pc = "hdr" /\ pc' = "idle" /\ ret' = "write" /\ newRows' = FALSE /\ left' = 0
      /\ rd' = rd /\ dgOpened' = dgOpened /\ blockedWriter' = blockedWriter
      /\ UNCHANGED chainVars
  BY DEF BadHeader, FailWrite, Return, rdVars
<1>2. newRows = FALSE /\ wr.state = "HDR" /\ ~AfterHeader
  BY <1>1, ControlTypes
     DEF WakeInv, RowsNoted, RowsInv, StreamInv, AfterHeader, Busy, Evaluating
<1>3. ChainShrinks
  BY <1>1, ChainSame, KeptShrinks
<1>4. ReadersInv'
  <2>1. ~Awaited /\ newRows' = newRows
    BY <1>1, <1>2 DEF Awaited
  <2> QED
    BY <1>1, <1>3, <2>1, QuietStep DEF WakeInv
<1>5. RowsNoted'
  BY <1>1 DEF RowsNoted
<1> QED
  BY <1>4, <1>5 DEF WakeInv

\* A chunk of the message is read into the block that is being filled.
LEMMA MsgReadChunkWakes ==
  ASSUME IInv, IInv', RowsInv, WakeInv, MsgReadChunk PROVE WakeInv'
<1>1. /\ pc = "write" /\ pc' \in {"write", "eval", "hdr", "info"} /\ rd' = rd
      /\ dgOpened' = dgOpened /\ blockedWriter' = blockedWriter /\ newRows' = newRows
      /\ ret' = ret /\ left' = left /\ UNCHANGED chainVars
      /\ wr.nbmsg > 0 /\ wr.nbdata > 0
      /\ wr' = Received(Lesser(wr.nbmsg, wr.nbdata))
      /\ (pc' = "eval" => wr.state = "DATA")
      /\ (pc' = "hdr" => wr.state = "HDR") /\ (pc' = "info" => wr.state = "INFO")
  <2>1. wr.state \in {"HDR", "INFO", "DATA"}
    BY Parts, WriterTypes DEF Wrs
  <2> QED
    BY <2>1 DEF MsgReadChunk, rdVars, evalVars, sendVars
<1>2. wr.state \in {"HDR", "INFO", "DATA"} /\ wr.nbmsg \in Nat /\ wr.nbdata \in Nat
  BY Parts, WriterTypes DEF Wrs
<1>3. wr'.state = wr.state
  BY <1>1, Parts, WriterTypes DEF Received, Wrs
<1>4. ~AfterHeader
  BY <1>1, <1>2 DEF AfterHeader, Busy, Evaluating
<1>5. ret = "write"
  BY <1>1 DEF RowsInv, StreamInv, Busy, Evaluating
<1>6. ChainShrinks
  BY <1>1, ChainSame, KeptShrinks
<1>7. ReadersInv'
  <2>1. Awaited => Awaited'
    BY <1>1, <1>3, <1>4 DEF Awaited, Active, Busy, Evaluating
  <2> QED
    BY <1>1, <1>6, <2>1, QuietStep DEF WakeInv
<1>8. RowsNoted'
  BY <1>1, <1>2, <1>3, <1>4, <1>5 DEF WakeInv, RowsNoted, Active, Busy, Evaluating
<1> QED
  BY <1>7, <1>8 DEF WakeInv

\* An INIT header: process_tm_info's data is to come.
LEMMA InitHeaderWakes ==
  ASSUME IInv, IInv', RowsInv, WakeInv, InitHeader PROVE WakeInv'
<1>1. /\ pc = "hdr" /\ pc' = "write" /\ rd' = rd /\ dgOpened' = dgOpened
      /\ blockedWriter' = blockedWriter /\ newRows' = newRows /\ ret' = ret /\ left' = left
      /\ UNCHANGED chainVars /\ wr'.state = "INFO"
  BY Parts, WriterTypes DEF InitHeader, rdVars, evalVars, sendVars, Wrs
<1>2. newRows = FALSE /\ wr.state = "HDR" /\ ~AfterHeader /\ ret = "write"
  BY <1>1, ControlTypes
     DEF WakeInv, RowsNoted, RowsInv, StreamInv, AfterHeader, Busy, Evaluating
<1>3. ReadersInv'
  <2>1. ~Awaited
    BY <1>2 DEF Awaited
  <2>2. ChainShrinks
    BY <1>1, ChainSame, KeptShrinks
  <2> QED
    BY <1>1, <2>1, <2>2, QuietStep DEF WakeInv
<1>4. RowsNoted'
  BY <1>1, <1>2 DEF WakeInv, RowsNoted
<1> QED
  BY <1>3, <1>4 DEF WakeInv

\* A data header: the rows' room is to be found.
LEMMA DataHeaderWakes ==
  ASSUME IInv, IInv', RowsInv, WakeInv, DataHeader PROVE WakeInv'
<1>1. /\ pc = "hdr" /\ pc' = "eval" /\ rd' = rd /\ dgOpened' = dgOpened
      /\ blockedWriter' = blockedWriter /\ newRows' = newRows /\ ret' = ret /\ left' = left
      /\ UNCHANGED chainVars /\ wr'.state = wr.state
  BY Parts, WriterTypes DEF DataHeader, rdVars, evalVars, sendVars, Wrs
<1>2. newRows = FALSE /\ wr.state = "HDR" /\ ~AfterHeader /\ ret = "write"
  BY <1>1, ControlTypes
     DEF WakeInv, RowsNoted, RowsInv, StreamInv, AfterHeader, Busy, Evaluating
<1>3. ReadersInv'
  <2>1. ~Awaited
    BY <1>2 DEF Awaited
  <2>2. ChainShrinks
    BY <1>1, ChainSame, KeptShrinks
  <2> QED
    BY <1>1, <2>1, <2>2, QuietStep DEF WakeInv
<1>4. RowsNoted'
  BY <1>1, <1>2 DEF WakeInv, RowsNoted
<1> QED
  BY <1>3, <1>4 DEF WakeInv

\* A time stamp is news, and ends its record.
LEMMA StampWakes ==
  ASSUME IInv, RowsInv, WakeInv, TstampHeader \/ ProcessTmInfo PROVE WakeInv'
<1>1. /\ pc \in {"hdr", "info"} /\ pc' = "write" /\ rd' = rd /\ newRows' = TRUE
      /\ ret' = ret /\ left' = left /\ wr' = HdrState(wr)
      /\ (pc = "hdr" => hdr.kind = "TSTAMP")
  BY DEF TstampHeader, ProcessTmInfo, rdVars, sendVars
<1>2. wr \in Wrs /\ hdr \in Hdrs /\ left = 0 /\ wr.nbmsg \in Nat
  BY Parts, WriterTypes DEF WakeInv, RowsNoted, Wrs
<1>3. wr'.state = "HDR" /\ wr'.nbmsg = wr.nbmsg
  BY <1>1, <1>2 DEF HdrState, Wrs
<1>4. ReadersInv'
  BY <1>1, NotedStep DEF WakeInv
<1>5. wr.nbmsg = 0
  <2>1. wr.nbdata = 0
    BY <1>1, Parts DEF WriterInv, PcInv
  <2>2. CASE pc = "hdr"
    <3>1. wr.state = "HDR" /\ ~AfterHeader
      BY <2>2 DEF RowsInv, StreamInv, AfterHeader, Busy, Evaluating
    <3>2. Outstanding = RecUnits(hdr) - HdrUnits + wr.nbdata
      BY <2>2, <3>1 DEF RowsInv, StreamInv, HeaderRead
    <3> QED
      BY <1>1, <1>2, <2>1, <2>2, <3>2 DEF Outstanding, RecUnits, HdrUnits
  <2>3. CASE pc = "info"
    BY <1>2, <2>1, <2>3 DEF RowsInv, StreamInv, InfoRead, Outstanding
  <2> QED
    BY <1>1, <2>2, <2>3
<1>6. ret = "write"
  BY <1>1 DEF RowsInv, StreamInv, Busy, Evaluating
<1>7. RowsNoted'
  BY <1>1, <1>2, <1>3, <1>5, <1>6 DEF RowsNoted, Active
<1> QED
  BY <1>4, <1>7 DEF WakeInv

\* At work on a data record, the writer is behind its header.
LEMMA AtRecord ==
  ASSUME IInv, RowsInv, pc \in Evaluating \cup {"evaldone"}
  PROVE  /\ wr.state = "DATA" \/ (wr.state = "HDR" /\ AfterHeader /\ FirstRows)
         /\ wr \in Wrs /\ hdr \in Hdrs
<1>1. wr \in Wrs /\ hdr \in Hdrs
  BY Parts, WriterTypes
<1>2. dLast > 0
  BY Parts DEF WriterInv, EvalInv, PcInv
<1>3. wr.state # "INFO"
  BY <1>2, ChainEnds DEF RowsInv, StreamInv, InfoRead
<1>4. wr.state = "HDR" => AfterHeader
  BY DEF AfterHeader, Busy
<1> QED
  BY <1>1, <1>3, <1>4 DEF Wrs, RowsInv, StreamInv

\* Rows that are committed are news.
LEMMA CommitRowsWakes ==
  ASSUME IInv, IInv', RowsInv, WakeInv, CommitRows PROVE WakeInv'
<1>1. /\ pc = "eval" /\ pc' \in {"alloc", "evaldone"} /\ rd' = rd /\ dgOpened' = dgOpened
      /\ blockedWriter' = blockedWriter /\ ret' = ret /\ left' = left
      /\ wr' = [wr EXCEPT !.offq = 0] /\ (pc' = "evaldone" => ~(wr.nbrec > 0))
      /\ dFirst' = dFirst /\ dLast' = dLast /\ tsq' = tsq /\ nts' = nts
  BY DEF CommitRows, rdVars, sendVars
<1>2. PICK k \in 0 .. TotalQrows :
        /\ wr.offq = Units(k) /\ dqd' = [dqd EXCEPT ![dLast].n = @ + k]
        /\ newRows' = (newRows \/ k > 0)
  BY DEF CommitRows
<1>3. wr \in Wrs /\ wr'.state = wr.state /\ wr'.nbmsg = wr.nbmsg /\ wr'.nbrec = wr.nbrec
      /\ wr'.offq = 0 /\ wr.nbrec \in Nat /\ k \in Nat
  BY <1>1, AtRecord DEF Evaluating, Wrs
<1>4. AfterHeader' = AfterHeader /\ (wr.state = "HDR" => AfterHeader)
  BY <1>1, <1>3 DEF AfterHeader, Busy, Evaluating
<1>5. (k = 0 <=> wr.offq = 0) /\ (ret = "queue" => k = 0 /\ blockedWriter /\ ~newRows)
  <2>1. k = 0 <=> wr.offq = 0
    BY <1>2, <1>3, UnitsZero, UnitsInjective
  <2> QED
    BY <1>1, <2>1 DEF WakeInv, RowsNoted
<1>6. wr.nbrec = 0 => k > 0
  <2>1. wr.nbrec = 0 /\ wr.state = "DATA" => wr.offq > 0
    BY <1>1 DEF RowsInv, NewestInv
  <2>2. wr.state = "DATA" \/ FirstRows
    BY <1>1, AtRecord DEF Evaluating
  <2>3. FirstRows => wr.nbrec > 0
    <3>1. hdr.kind = "DATA" => hdr.n > 0
      BY DEF RowsInv, StreamInv
    <3> QED
      BY <1>1, <3>1, AtRecord, UnitsNat DEF FirstRows, Evaluating, Hdrs
  <2> QED
    BY <1>3, <1>5, <2>1, <2>2, <2>3
<1>7. ReadersInv'
  <2>1. CASE k > 0
    BY <1>1, <1>2, <2>1, NotedStep DEF WakeInv
  <2>2. CASE k = 0
    <3>1. newRows' = newRows
      BY <1>2, <2>2, ControlTypes
    <3>2. dqd' = dqd
      <4>1. dLast \in Live => dqd[dLast].n + 0 = dqd[dLast].n
        BY ChainNumbers
      <4>2. dqd' = [dqd EXCEPT ![dLast].n = @ + 0]
        BY <1>2, <2>2
      <4>3. dLast > 0
        BY <1>1, Parts DEF WriterInv, EvalInv, Evaluating
      <4>4. dLast \in Live /\ dqd \in [Live -> Dqds]
        BY <4>3, ChainEnds, Parts DEF QueueInv, ChainType, Live
      <4>5. dqd[dLast] \in Dqds
        BY <4>4
      <4>6. [dqd[dLast] EXCEPT !.n = dqd[dLast].n] = dqd[dLast]
        BY <4>5 DEF Dqds
      <4> QED
        BY <4>1, <4>2, <4>4, <4>6
    <3>3. ChainShrinks
      BY <1>1, <3>2, ChainSame, KeptShrinks DEF chainVars
    <3>4. Awaited => Awaited'
      BY <1>1, <1>3, <1>4 DEF Awaited, Active, Busy, Evaluating
    <3> QED
      BY <1>1, <3>1, <3>3, <3>4, QuietStep DEF WakeInv
  <2> QED
    BY <1>3, <2>1, <2>2
<1>8. RowsNoted'
  <2>0. (k > 0 => newRows' = TRUE) /\ (k = 0 => newRows' = newRows)
    <3>1. k > 0 => newRows' = TRUE
      BY <1>2
    <3>2. k = 0 => newRows' = newRows
      BY <1>2, ControlTypes
    <3> QED
      BY <3>1, <3>2
  <2>1. newRows' => ret' = "write"
    <3>1. ret = "queue" => ~newRows'
      BY <1>5, <2>0
    <3> QED
      BY <1>1, <3>1, ControlTypes
  <2>2. pc' = "evaldone" => newRows'
    <3>1. pc' = "evaldone" => k > 0
      BY <1>1, <1>3, <1>6
    <3> QED
      BY <2>0, <3>1
  <2>3. wr'.state = "HDR" => AfterHeader'
    BY <1>3, <1>4
  <2>4. wr'.state # "INFO"
    BY <1>1, <1>3, AtRecord DEF Evaluating
  <2>5. left' = 0 /\ (ret' = "queue" => blockedWriter')
    BY <1>1, <1>5 DEF WakeInv, RowsNoted
  <2> QED
    BY <1>1, <2>1, <2>2, <2>3, <2>4, <2>5 DEF RowsNoted, Active, Busy, Evaluating
<1> QED
  BY <1>7, <1>8 DEF WakeInv

\* The rows behind the newest descriptor start one of their own, empty at first.
LEMMA AppendWakes ==
  ASSUME IInv, IInv', NEW r \in Readers, rd'[r] = rd[r], dLast > 0,
         NEW m \in 0 .. MfcMod - 1, dqd' = Append1(NewDqd(dqd[dLast].ts, m)),
         dFirst' = dFirst, dLast' = dLast + 1, ~Deliverable(r)
  PROVE  ~Deliverable(r)'
<1> DEFINE new == NewDqd(dqd[dLast].ts, m)
<1>1. dFirst \in Nat \ {0} /\ dLast \in Nat /\ Live = dFirst .. dLast /\ dLast \in Live
  BY ChainEnds
<1>2. new.n = 0 /\ new.ts = dqd[dLast].ts
  BY DEF NewDqd
<1> HIDE DEF new
<1>3. /\ dqd' = [d \in dFirst .. dLast + 1 |-> IF d = dLast + 1 THEN new ELSE dqd[d]]
      /\ \A d \in Live : dqd'[d] = dqd[d] /\ dqd'[dLast + 1] = new
  <2>1. dqd' = [d \in dFirst .. dLast + 1 |-> IF d = dLast + 1 THEN new ELSE dqd[d]]
    BY DEF Append1, new
  <2> QED
    BY <1>1, <2>1
<1>4. rd[r].part \in Nat /\ rd[r].dqd \in Nat /\ (rd[r].dqd # 0 => rd[r].dqd \in Live)
  <2>1. rd[r] \in Ocbs
    BY Parts DEF QueueInv
  <2> QED
    BY <2>1, Parts DEF QueueInv, RefCounts, Ocbs
<1>5. ~(rd[r].part > 0) /\ rd[r].dqd # 0
  BY <1>4 DEF Deliverable
<1>6. ~(RowsReady(r) > 0)' /\ dqd'[rd[r].dqd] = dqd[rd[r].dqd]
  BY <1>3, <1>4, <1>5 DEF Deliverable, RowsReady
<1>7. ASSUME NEW d \in rd[r].dqd + 1 .. dLast + 1
      PROVE  ~(dqd'[d].n > 0) /\ dqd'[d].ts = dqd'[rd[r].dqd].ts
  <2>1. CASE d = dLast + 1
    <3>1. dqd[dLast].ts = dqd[rd[r].dqd].ts
      <4>1. CASE rd[r].dqd = dLast
        BY <4>1
      <4>2. CASE rd[r].dqd # dLast
        <5>1. dLast \in rd[r].dqd + 1 .. dLast
          BY <1>1, <1>4, <1>5, <4>2
        <5> QED
          BY <1>4, <1>5, <5>1 DEF Deliverable
      <4> QED
        BY <4>1, <4>2
    <3> QED
      BY <1>1, <1>2, <1>3, <1>6, <2>1, <3>1
  <2>2. CASE d # dLast + 1
    <3>1. d \in rd[r].dqd + 1 .. dLast /\ d \in Live
      BY <1>1, <1>4, <1>5, <2>2
    <3>2. ~(dqd[d].n > 0) /\ dqd[d].ts = dqd[rd[r].dqd].ts
      BY <1>4, <1>5, <3>1 DEF Deliverable
    <3> QED
      BY <1>3, <1>6, <3>1, <3>2
  <2> QED
    BY <2>1, <2>2
<1> QED
  BY <1>4, <1>5, <1>6, <1>7 DEF Deliverable

\* allocate_qrows may start a descriptor: the rows for it are awaited, or it
\* was run_write_queue that came here and nobody has anything to read.
LEMMA AllocateQrowsWakes ==
  ASSUME IInv, IInv', RowsInv, WakeInv, AllocateQrows PROVE WakeInv'
<1>1. /\ pc = "alloc" /\ pc' \in {"expire", "place"} /\ rd' = rd /\ dgOpened' = dgOpened
      /\ blockedWriter' = blockedWriter /\ ret' = ret /\ left' = left /\ newRows' = newRows
      /\ wr' = wr /\ dFirst' = dFirst /\ nts' = nts
  BY DEF AllocateQrows, rdVars, sendVars, wrVars
<1>2. wr.state = "DATA" \/ (wr.state = "HDR" /\ AfterHeader /\ AfterHeader')
  BY <1>1, AtRecord DEF AfterHeader, Busy, Evaluating
<1>3. RowsNoted'
  BY <1>1, <1>2 DEF WakeInv, RowsNoted, AfterHeader, Active, Busy, Evaluating
<1>4. CASE ~NeedDqd
  <2>1. UNCHANGED chainVars
    BY <1>1, <1>4 DEF AllocateQrows, chainVars
  <2>2. ChainShrinks
    BY <2>1, ChainSame, KeptShrinks
  <2>3. Awaited => Awaited'
    BY <1>1, <1>2 DEF Awaited, Active, Busy, Evaluating
  <2>4. ReadersInv'
    BY <1>1, <2>2, <2>3, QuietStep DEF WakeInv
  <2> QED
    BY <1>3, <2>4 DEF WakeInv
<1>5. CASE NeedDqd
  <2>1. PICK m \in 0 .. MfcMod - 1 : m = hdr.frame % MfcMod
    BY ConstType, AtRecord, <1>1 DEF Evaluating, Hdrs
  <2>2. dqd' = Append1(NewDqd(dqd[dLast].ts, m)) /\ dLast' = dLast + 1
    BY <1>5, <2>1 DEF AllocateQrows
  <2>3. dLast > 0
    BY <1>1, Parts DEF WriterInv, EvalInv, Evaluating
  <2>4. ASSUME NEW r \in Readers, ~Deliverable(r) PROVE ~Deliverable(r)'
    BY <1>1, <2>2, <2>3, <2>4, AppendWakes
  <2>5. ASSUME NEW r \in Readers, Waits(r) PROVE Waits(r)'
    <3>1. CASE ret = "write"
      <4>1. Awaited'
        BY <1>1, <1>2, <3>1 DEF Awaited, Active, Busy, Evaluating
      <4> QED
        BY <1>1, <2>5, <4>1 DEF Waits
    <3>2. CASE ret = "queue"
      <4>1. blockedWriter
        BY <3>2 DEF WakeInv, RowsNoted
      <4>2. ~Awaited /\ ~Saving(r)
        BY <3>2, <4>1 DEF Awaited, Saving
      <4> QED
        BY <1>1, <2>4, <2>5, <4>2 DEF Waits
    <3> QED
      BY <3>1, <3>2, ControlTypes
  <2>6. ASSUME NEW r \in Readers, Armed(r) PROVE Armed(r)'
    BY <1>1, <2>4, <2>6 DEF Armed
  <2>7. Unserved' = Unserved /\ Untriggered' = Untriggered
    BY <1>1 DEF Unserved, Untriggered
  <2>8. ReadersInv'
    BY <1>1, <2>5, <2>6, <2>7 DEF WakeInv, ReadersInv
  <2> QED
    BY <1>3, <2>8 DEF WakeInv
<1> QED
  BY <1>4, <1>5

\* Rows that expire are taken from the readers, not given.
LEMMA ExpireShrinks == ASSUME IInv, ExpireRows PROVE ChainShrinks
<1>1. PICK d \in Live : \E x \in 0 .. dqd[d].n :
        IF x = 0
        THEN pc' = "place" /\ UNCHANGED <<first, full, chainVars, nreq, nfree>>
        ELSE Expire(d, x)
  BY DEF ExpireRows
<1>2. PICK x \in 0 .. dqd[d].n :
        IF x = 0
        THEN pc' = "place" /\ UNCHANGED <<first, full, chainVars, nreq, nfree>>
        ELSE Expire(d, x)
  BY <1>1
<1>3. CASE x = 0
  BY <1>2, <1>3, ChainSame, KeptShrinks
<1>4. CASE x # 0
  <2> DEFINE q == [dqd EXCEPT ![d].start = SlotAfter(dqd[d].start, x), ![d].n = @ - x,
                              ![d].expired = @ + x]
  <2>1. Expire(d, x) /\ dLast' = dLast
    BY <1>2, <1>4 DEF Expire
  <2>2. dFirst \in Live /\ Live = dFirst .. dLast /\ dFirst \in Nat /\ dLast \in Nat
    BY ChainEnds, ChainNumbers
  <2>3. PICK f \in Live : FreeBefore(q, f)
    BY <2>1, <2>2 DEF Expire
  <2>4. ASSUME NEW e \in Live
        PROVE  /\ q[e].ts = dqd[e].ts /\ q[e].n <= dqd[e].n
               /\ q[e].expired + q[e].n = dqd[e].expired + dqd[e].n
    <3>1. dqd[e] \in Dqds /\ dqd \in [Live -> Dqds]
      BY ChainFields, Parts DEF QueueInv, ChainType, Live
    <3>2. dqd[e].n \in Nat /\ dqd[e].expired \in Nat /\ x \in Nat
      BY <3>1, ChainNumbers
    <3>3. CASE e = d
      <4>1. PICK st, n, y : st = SlotAfter(dqd[d].start, x) /\ n = dqd[d].n - x
                            /\ y = dqd[d].expired + x
        OBVIOUS
      <4>2. q[e] = [dqd[e] EXCEPT !.start = st, !.n = n, !.expired = y]
        BY <3>1, <3>3, <4>1
      <4>3. q[e].ts = dqd[e].ts /\ q[e].n = n /\ q[e].expired = y
        BY <3>1, <4>2 DEF Dqds
      <4> QED
        BY <3>2, <3>3, <4>1, <4>3
    <3>4. CASE e # d
      BY <3>1, <3>2, <3>4
    <3> QED
      BY <3>3, <3>4
  <2> HIDE DEF q
  <2>5. Live' = f .. dLast /\ \A e \in f .. dLast : e \in Live /\ dqd'[e] = q[e]
    BY <2>1, <2>2, <2>3 DEF FreeBefore, Live
  <2> QED
    BY <2>1, <2>4, <2>5 DEF ChainShrinks, Rows
<1> QED
  BY <1>3, <1>4

\* allocate_qrows makes room.
LEMMA ExpireRowsWakes ==
  ASSUME IInv, IInv', RowsInv, WakeInv, ExpireRows PROVE WakeInv'
<1>1. /\ pc = "expire" /\ rd' = rd /\ dgOpened' = dgOpened /\ wr' = wr
      /\ blockedWriter' = blockedWriter /\ ret' = ret /\ left' = left /\ newRows' = newRows
  BY DEF ExpireRows, rdVars, sendVars, wrVars
<1>2. pc' \in {"expire", "place"}
  BY DEF ExpireRows, Expire
<1>3. wr.state = "DATA" \/ (wr.state = "HDR" /\ AfterHeader /\ AfterHeader')
  BY <1>1, <1>2, AtRecord DEF AfterHeader, Busy, Evaluating
<1>4. RowsNoted'
  BY <1>1, <1>2, <1>3 DEF WakeInv, RowsNoted, AfterHeader, Active, Busy, Evaluating
<1>5. Awaited => Awaited'
  BY <1>1, <1>2, <1>3 DEF Awaited, Active, Busy, Evaluating
<1>6. ReadersInv'
  BY <1>1, <1>2, <1>5, ExpireShrinks, QuietStep DEF WakeInv
<1> QED
  BY <1>4, <1>6 DEF WakeInv

\* Room is given to the rows to come.
LEMMA PlaceRowsWakes ==
  ASSUME Labelling, IInv, IInv', RowsInv, WakeInv, PlaceRows PROVE WakeInv'
<1>1. /\ pc = "place" /\ rd' = rd /\ dgOpened' = dgOpened /\ UNCHANGED chainVars
      /\ blockedWriter' = blockedWriter /\ ret' = ret /\ left' = left /\ newRows' = newRows
      /\ pc' = IF RowInHeader THEN "eval" ELSE "evaldone"
      /\ wr' = [wr EXCEPT !.state = IF nfree > 0 THEN "DATA" ELSE @,
                          !.nbdata = Units(nfree) - ExcessHere,
                          !.offq = ExcessHere, !.nbrec = @ - ExcessHere]
  BY DEF PlaceRows, rdVars, sendVars
<1>2. /\ wr.state = "DATA" \/ (wr.state = "HDR" /\ FirstRows)
      /\ wr \in Wrs /\ hdr \in Hdrs
  BY <1>1, AtRecord DEF Evaluating
<1>3. wr'.state \in {wr.state, "DATA"} /\ wr'.nbrec = wr.nbrec - ExcessHere
      /\ wr'.offq = ExcessHere
  BY <1>1, <1>2 DEF Wrs
<1>4. pc' \in {"eval", "evaldone"} /\ (wr'.state = "HDR" => AfterHeader')
  BY <1>1 DEF AfterHeader, Busy, Evaluating
<1>5. nfree \in Nat /\ nreq \in Nat /\ wr.nbrec \in Nat /\ wr.nbrec > 0
      /\ nfree + nreq <= RowsLeft /\ hdr.n \in Nat
  BY <1>1, <1>2, ControlTypes, Parts DEF WriterInv, EvalInv, Evaluating, Wrs, Hdrs
<1>6. RowInHeader => RowUnits = 1 /\ ret = "write"
  <2>1. ASSUME RowInHeader PROVE RowUnits = 1
    BY <1>5, <2>1, ConstType DEF RowInHeader, ExcessHere, Excess, HdrUnits, DataHdr, Units
  <2>2. RowUnits = 1 => Nonblock
    BY DEF Labelling
  <2>3. Nonblock => ret = "write"
    BY DEF RowsInv, RoomFound
  <2> QED
    BY <2>1, <2>2, <2>3
<1>7. ~RowInHeader => wr'.nbrec # 0
  <2>1. CASE ExcessHere = 0
    BY <1>3, <1>5, <2>1
  <2>2. CASE ExcessHere # 0
    <3>1. ExcessHere = 1 /\ nfree > 0 /\ wr.state = "HDR" /\ FirstRows
      BY <1>2, <2>2 DEF ExcessHere, Excess, HdrUnits, DataHdr
    <3>2. CASE RowUnits = 2
      BY <1>3, <1>5, <3>1, <3>2 DEF FirstRows, Units
    <3>3. CASE RowUnits = 1
      <4>1. RowsLeft = wr.nbrec
        BY <1>5, <3>3 DEF RowsLeft, Greater
      <4>2. nfree = 1 => RowInHeader
        BY <3>1, <3>3 DEF RowInHeader, Units
      <4> QED
        BY <1>3, <1>5, <3>1, <4>1, <4>2
    <3> QED
      BY <3>2, <3>3, ConstType
  <2> QED
    BY <2>1, <2>2
<1>8. RowsNoted'
  <2>1. left' = 0 /\ (newRows' => ret' = "write") /\ (ret' = "queue" => blockedWriter')
    BY <1>1 DEF WakeInv, RowsNoted
  <2>2. pc' = "evaldone" => wr'.nbrec # 0
    BY <1>1, <1>7
  <2>3. pc' = "eval" => ret' = "write"
    BY <1>1, <1>6
  <2> QED
    BY <1>2, <1>3, <1>4, <2>1, <2>2, <2>3 DEF RowsNoted, Active, Busy, Evaluating
<1>9. Awaited => Awaited'
  BY <1>1, <1>2, <1>3, <1>4 DEF Awaited, Active, Busy, Evaluating
<1>10. ReadersInv'
  <2>1. ChainShrinks
    BY <1>1, ChainSame, KeptShrinks
  <2> QED
    BY <1>1, <1>4, <1>9, <2>1, QuietStep DEF WakeInv
<1> QED
  BY <1>8, <1>10 DEF WakeInv

\* Back in do_write, the record is complete or more of it is to come; back in
\* run_write_queue, the writer goes on or stays blocked.
LEMMA EvalReturnWakes ==
  ASSUME IInv, IInv', RowsInv, WakeInv, EvalReturn PROVE WakeInv'
<1>1. /\ pc = "evaldone" /\ rd' = rd /\ dgOpened' = dgOpened /\ UNCHANGED chainVars
      /\ left' = left /\ left = 0
  BY DEF EvalReturn, rdVars, sendVars, WakeInv, RowsNoted
<1>2. /\ wr.state = "DATA" \/ (wr.state = "HDR" /\ FirstRows)
      /\ wr \in Wrs /\ hdr \in Hdrs /\ newRows \in BOOLEAN /\ wr.nbrec \in Nat
      /\ wr.nbmsg \in Nat
  BY <1>1, AtRecord, ControlTypes DEF Evaluating, Wrs
<1>3. ChainShrinks
  BY <1>1, ChainSame, KeptShrinks
<1>4. CASE ret = "write"
  <2>1. /\ wr' = EndRecord /\ pc' = "write" /\ ret' = "write" /\ newRows' = newRows
        /\ blockedWriter' = blockedWriter
    BY <1>4 DEF EvalReturn, evalVars
  <2>2. CASE wr.nbrec = 0
    <3>1. newRows
      BY <1>1, <2>2 DEF WakeInv, RowsNoted
    <3>2. wr.state = "DATA"
      <4>1. hdr.kind = "DATA" => hdr.n > 0
        BY DEF RowsInv, StreamInv
      <4> QED
        BY <1>2, <2>2, <4>1, UnitsNat DEF FirstRows, Hdrs
    <3>3. wr.nbmsg = 0
      BY <1>1, <1>2, <2>2, <3>2 DEF RowsInv, StreamInv, RowsRead, Outstanding
    <3>4. wr'.nbmsg = 0 /\ wr'.state = "HDR"
      BY <1>2, <2>1, <2>2, <3>3 DEF EndRecord, HdrState, Wrs
    <3>5. ReadersInv'
      BY <1>1, <2>1, <3>1, NotedStep DEF WakeInv
    <3>6. RowsNoted'
      BY <1>1, <2>1, <3>4 DEF RowsNoted, Active
    <3> QED
      BY <3>5, <3>6 DEF WakeInv
  <2>3. CASE wr.nbrec # 0
    <3>1. wr' = wr
      BY <1>2, <2>1, <2>3 DEF EndRecord
    <3>2. wr.state = "HDR" => AfterHeader'
      BY <1>2, <2>1, <3>1 DEF AfterHeader, FirstRows
    <3>3. Awaited'
      BY <1>2, <2>1, <3>1, <3>2 DEF Awaited, Active
    <3>4. ReadersInv'
      BY <1>1, <1>3, <2>1, <3>3, QuietStep DEF WakeInv
    <3>5. RowsNoted'
      BY <1>1, <1>2, <2>1, <3>1, <3>2 DEF RowsNoted, Active
    <3> QED
      BY <3>4, <3>5 DEF WakeInv
  <2> QED
    BY <2>2, <2>3
<1>5. CASE ret = "queue"
  <2>1. newRows = FALSE /\ blockedWriter /\ ~Awaited
    BY <1>2, <1>5 DEF WakeInv, RowsNoted, Awaited
  <2>2. /\ wr' = wr /\ pc' \in {"write", "idle"} /\ ret' = "write" /\ newRows' = FALSE
        /\ (blockedWriter' => blockedWriter)
    BY <1>5, <2>1 DEF EvalReturn, Return
  <2>3. ReadersInv'
    BY <1>1, <1>3, <2>1, <2>2, QuietStep DEF WakeInv
  <2>4. RowsNoted'
    BY <1>1, <2>2 DEF RowsNoted
  <2> QED
    BY <2>3, <2>4 DEF WakeInv
<1> QED
  BY <1>4, <1>5, ControlTypes

\* The write is answered: with news to the readers, or as nothing has come.
LEMMA DoWriteReplyWakes ==
  ASSUME Labelling, IInv, IInv', RowsInv, WakeInv, DoWriteReply PROVE WakeInv'
<1>1. /\ pc = "write" /\ wr.nbmsg = 0 /\ rd' = rd /\ dgOpened' = dgOpened /\ left' = left
      /\ UNCHANGED chainVars /\ blockedWriter' = blockedWriter /\ left = 0
      /\ wr' = [wr EXCEPT !.pending = FALSE]
  BY DEF DoWriteReply, rdVars, sendVars, WakeInv, RowsNoted
<1>2. wr \in Wrs /\ hdr \in Hdrs /\ newRows \in BOOLEAN
  BY Parts, WriterTypes, ControlTypes
<1>3. wr'.nbmsg = 0
  BY <1>1, <1>2 DEF Wrs
<1>4. ret' = "write" /\ newRows' = FALSE /\ pc' \in {"readq", "idle"}
  BY DEF DoWriteReply, ToReadQueue, Return
<1>5. RowsNoted'
  BY <1>1, <1>3, <1>4 DEF RowsNoted
<1>6. CASE newRows
  BY <1>1, <1>5, <1>6, WokenStep DEF DoWriteReply, WakeInv
<1>7. CASE ~newRows
  <2>1. pc' = "idle" /\ newRows' = newRows
    BY <1>2, <1>4, <1>7 DEF DoWriteReply, Return
  <2>2. ~Awaited
    <3>1. Outstanding = 0
      BY <1>1 DEF Outstanding
    <3>2. ASSUME wr.state = "DATA" PROVE FALSE
      BY <1>1, <3>1, <3>2 DEF RowsInv, StreamInv, RowsRead
    <3>3. ASSUME AfterHeader PROVE FALSE
      <4>1. wr.nbrec = Units(hdr.n) /\ wr.nbdata = 0 /\ wr.nbrec = 1 /\ hdr.n > 0 /\ hdr.n \in Nat
        BY <1>2, <3>1, <3>3 DEF RowsInv, StreamInv, FirstRows, Excess, HdrUnits, DataHdr, Wrs, Hdrs
      <4>2. RowUnits = 1
        BY <4>1, ConstType DEF Units
      <4>3. Nonblock
        BY <4>2 DEF Labelling
      <4> QED
        BY <1>1, <4>1, <4>3 DEF RowsInv, RoomFound, Busy, Evaluating
    <3> QED
      BY <1>2, <3>2, <3>3 DEF Awaited
  <2>3. ChainShrinks
    BY <1>1, ChainSame, KeptShrinks
  <2>4. ReadersInv'
    BY <1>1, <2>1, <2>2, <2>3, QuietStep DEF WakeInv
  <2> QED
    BY <1>5, <2>4 DEF WakeInv
<1> QED
  BY <1>6, <1>7

\* The writer blocks: whoever saves up rows is to be answered.
LEMMA DoWriteBlockWakes ==
  ASSUME IInv, WakeInv, DoWriteBlock PROVE WakeInv'
<1>1. /\ pc' = "readq" /\ ret' = "write" /\ newRows' = FALSE /\ rd' = rd /\ left' = left
      /\ wr' = wr /\ pc = "write"
  BY DEF DoWriteBlock, ToReadQueue, rdVars, sendVars
<1>2. wr \in Wrs /\ wr.nbdata = 0
  BY Parts, WriterTypes DEF DoWriteBlock
<1>3. RowsNoted'
  BY <1>1 DEF WakeInv, RowsNoted
<1>4. ReadersInv'
  BY <1>1, WokenStep DEF WakeInv, DoWriteBlock
<1> QED
  BY <1>3, <1>4 DEF WakeInv

\* run_write_queue goes on with a blocked writer.
LEMMA RunWriteQueueWakes ==
  ASSUME IInv, IInv', RowsInv, WakeInv, RunWriteQueue PROVE WakeInv'
<1>1. /\ pc = "writeq" /\ rd' = rd /\ dgOpened' = dgOpened /\ UNCHANGED chainVars
      /\ left' = left /\ wr' = wr /\ blockedWriter' = blockedWriter /\ left = 0
      /\ newRows' = FALSE
      /\ (blockedWriter /\ pc' = "eval" /\ ret' = "queue") \/ (pc' = "idle" /\ ret' = "write")
  BY DEF RunWriteQueue, Return, sendVars, wrVars, WakeInv, RowsNoted
<1>2. newRows = FALSE /\ ~Awaited
  BY <1>1, ControlTypes DEF WakeInv, RowsNoted, Awaited, Active, Busy, Evaluating
<1>3. blockedWriter => wr.offq = 0
  BY <1>1, Parts DEF WriterInv, PcInv, EvalInv, Waiting, Settled
<1>4. RowsNoted'
  BY <1>1, <1>3 DEF RowsNoted
<1>5. ChainShrinks
  BY <1>1, ChainSame, KeptShrinks
<1>6. pc' \notin {"readq", "read"} /\ newRows' = newRows
  BY <1>1, <1>2
<1>7. ReadersInv'
  BY <1>1, <1>2, <1>5, <1>6, QuietStep DEF WakeInv
<1> QED
  BY <1>4, <1>7 DEF WakeInv

\* The writer's steps together.
LEMMA WriterWakes ==
  ASSUME Labelling, WholeWrites, IInv, IInv', RowsInv, WakeInv, WriterStep PROVE WakeInv'
<1>1. ~MsgReadFails
  BY DEF WholeWrites, MsgReadFails
<1> QED
  BY <1>1, IoWriteWakes, BadHeaderWakes, MsgReadChunkWakes, InitHeaderWakes, StampWakes,
     DataHeaderWakes, CommitRowsWakes, AllocateQrowsWakes, ExpireRowsWakes, PlaceRowsWakes,
     EvalReturnWakes, DoWriteReplyWakes, DoWriteBlockWakes, RunWriteQueueWakes DEF WriterStep

-----------------------------------------------------------------------------
(* The readers' steps *)

\* The part about the writer is not touched by them.
LEMMA ReaderNoted ==
  ASSUME IInv, RowsInv, WakeInv, ReaderStep, newRows' = FALSE PROVE RowsNoted'
<1>1. StreamInv
  BY DEF RowsInv
<1>2. left' = left /\ ret' = "write" /\ pc' \in Waiting
  BY <1>1, ReaderSteps
<1> QED
  BY <1>2 DEF WakeInv, RowsNoted, Waiting

\* The news are for run_read_queue; these steps have none.
LEMMA ReaderQuiet ==
  ASSUME IInv, RowsInv, WakeInv, ReaderStep PROVE newRows = FALSE /\ newRows' = FALSE
<1>1. StreamInv
  BY DEF RowsInv
<1>2. pc \in Waiting
  BY <1>1, ReaderSteps
<1>3. newRows = FALSE
  BY <1>2, ControlTypes DEF WakeInv, RowsNoted, Waiting, Active, Busy, Evaluating
<1>4. newRows' = FALSE \/ newRows' = newRows
  BY DEF ReaderStep, RunReadQueue, ReadReply, OpenWriter, CloseWriter, Shutdown, Terminated,
         OpenReader, CloseReader, IoNotify, ReadRequest, IoRead, ReplyPartial, ReplyInit,
         ReadBeforeInit, ReplyRows, ReplyDefer, ReplyNextDqd, ReplyStarved, ToReadQueue,
         evalVars, vars
<1> QED
  BY <1>3, <1>4

\* TM/DG is opened or closed; the server ends.
LEMMA OpenCloseWakes ==
  ASSUME IInv, IInv', RowsInv, WakeInv, OpenWriter \/ CloseWriter \/ Shutdown \/ Terminated
  PROVE  ReadersInv'
<1>1. CASE CloseWriter
  BY <1>1, WokenStep DEF CloseWriter, WakeInv, rdVars
<1>2. CASE OpenWriter \/ Shutdown
  <2>1. /\ pc = "idle" /\ pc' \in {"idle", "done"} /\ UNCHANGED chainVars /\ rd' = rd
        /\ newRows' = newRows /\ blockedWriter' = blockedWriter
        /\ dgOpened' < 2 \/ dgOpened' = dgOpened
    BY <1>2 DEF OpenWriter, Shutdown, rdVars, evalVars, wrVars
  <2>2. ChainShrinks /\ ~Awaited
    BY <2>1, ChainSame, KeptShrinks DEF Awaited, Active, Busy, Evaluating
  <2>3. Unserved' = Unserved /\ Untriggered' = Untriggered
    BY <2>1 DEF Unserved, Untriggered
  <2>4. \A r \in Readers : (Waits(r) => Waits(r)') /\ (Armed(r) => Armed(r)')
    BY <2>1, <2>2, WaitsOn
  <2> QED
    BY <2>1, <2>3, <2>4 DEF WakeInv, ReadersInv
<1>3. CASE Terminated
  <2>1. UNCHANGED vars
    BY <1>3 DEF Terminated
  <2>2. /\ pc = "done" /\ pc' = "done" /\ rd' = rd /\ newRows' = newRows
        /\ blockedWriter' = blockedWriter /\ dgOpened' = dgOpened /\ UNCHANGED chainVars
    BY <1>3, <2>1 DEF Terminated, vars, rdVars, evalVars, wrVars
  <2>3. ChainShrinks /\ ~Awaited
    BY <2>2, ChainSame, KeptShrinks DEF Awaited, Active, Busy, Evaluating
  <2> QED
    BY <2>2, <2>3, QuietStep DEF WakeInv
<1> QED
  BY <1>1, <1>2, <1>3

\* A client opens, closes, asks to be notified, or reads.
LEMMA ClientWakes ==
  ASSUME IInv, IInv', RowsInv, WakeInv, NEW r \in Readers,
         OpenReader(r) \/ CloseReader(r) \/ IoNotify(r) \/ ReadRequest(r)
  PROVE  ReadersInv'
<1> USE DEF rdVars, wrVars, evalVars, readVars
<1>0. rd \in [Readers -> Ocbs] /\ rd[r] \in Ocbs
  BY Parts DEF QueueInv
<1>1. /\ pc = "idle" /\ pc' \in {"idle", "read"} /\ dgOpened' = dgOpened
      /\ blockedWriter' = blockedWriter /\ newRows' = newRows
      /\ \A p \in Readers \ {r} : rd'[p] = rd[p]
  BY <1>0 DEF OpenReader, CloseReader, IoNotify, ReadRequest, IoRead
<1>2. ChainShrinks
  <2>1. ReaderStep
    BY DEF ReaderStep
  <2> QED
    BY <2>1, ReaderChain, KeptShrinks
<1>3. ~Awaited /\ newRows = FALSE /\ Unserved = {} /\ ~Untriggered
  BY <1>1, ControlTypes
     DEF WakeInv, RowsNoted, Awaited, Active, Busy, Evaluating, Unserved, Untriggered
<1>4. \A p \in Readers \ {r} : Waits(p)' /\ Armed(p)' /\ (rd'[p].blocked => rd'[p].open)
  BY <1>1, <1>2, <1>3, WaitsOn DEF WakeInv, ReadersInv
<1>5. ~rd'[r].blocked /\ Armed(r)'
  <2>1. CASE OpenReader(r) \/ CloseReader(r)
    <3>1. rd'[r] = ClosedReader \/ rd'[r] = [ClosedReader EXCEPT !.open = TRUE]
      BY <1>0, <2>1 DEF OpenReader, CloseReader
    <3>2. ~rd'[r].blocked /\ ~rd'[r].armed
      BY <3>1 DEF ClosedReader
    <3> QED
      BY <3>2 DEF Armed
  <2>2. CASE IoNotify(r)
    <3>1. PICK a : a = ~NotifyInput(r)
      OBVIOUS
    <3>2. rd' = [rd EXCEPT ![r].armed = a] /\ ~rd[r].blocked
      BY <2>2, <3>1 DEF IoNotify
    <3>3. /\ rd'[r].part = rd[r].part /\ rd'[r].dqd = rd[r].dqd /\ rd'[r].n = rd[r].n
          /\ rd'[r].blocked = rd[r].blocked /\ rd'[r].armed = a
      BY <1>0, <3>2 DEF Ocbs
    <3>4. ASSUME a PROVE dgOpened < 2 /\ ~Deliverable(r)
      <4>1. ~NotifyInput(r)
        BY <3>1, <3>4
      <4>2. dgOpened < 2
        BY <4>1, WriterPart DEF NotifyInput
      <4>3. rd[r].dqd \in Nat /\ dLast \in Nat /\ rd[r].part \in Nat
        BY <1>0, ChainEnds DEF Ocbs
      <4>4. ASSUME rd[r].dqd > 0 PROVE RowsReady(r) = 0 /\ rd[r].dqd + 1 .. dLast = {}
        BY <4>1, <4>3, <4>4 DEF NotifyInput
      <4>5. ~(rd[r].part > 0) /\ ~(rd[r].dqd = 0 /\ dLast > 0)
        BY <4>1 DEF NotifyInput
      <4> QED
        BY <4>2, <4>4, <4>5 DEF Deliverable
    <3>5. Deliverable(r)' => Deliverable(r)
      BY <1>2, <3>3, NothingCame
    <3>6. ASSUME rd'[r].armed PROVE dgOpened' < 2 /\ ~Deliverable(r)'
      <4>1. dgOpened < 2 /\ ~Deliverable(r)
        BY <3>3, <3>4, <3>6
      <4> QED
        BY <1>1, <3>5, <4>1
    <3>7. ~rd'[r].blocked
      BY <3>2, <3>3
    <3> QED
      BY <3>6, <3>7 DEF Armed
  <2>3. CASE ReadRequest(r)
    <3>1. PICK q, m : rd' = [rd EXCEPT ![r].q = q, ![r].max = m] /\ ~rd[r].blocked
      BY <2>3 DEF ReadRequest, IoRead
    <3>2. /\ rd'[r].part = rd[r].part /\ rd'[r].dqd = rd[r].dqd /\ rd'[r].n = rd[r].n
          /\ rd'[r].blocked = rd[r].blocked /\ rd'[r].armed = rd[r].armed
      BY <1>0, <3>1 DEF Ocbs
    <3>3. Deliverable(r)' => Deliverable(r)
      BY <1>2, <3>2, NothingCame
    <3>4. Armed(r)
      BY <1>3 DEF WakeInv, ReadersInv
    <3> QED
      BY <1>1, <3>1, <3>2, <3>3, <3>4 DEF Armed
  <2> QED
    BY <2>1, <2>2, <2>3
<1>6. Waits(r)' /\ \A p \in Readers : rd'[p].blocked => rd'[p].open
  BY <1>4, <1>5 DEF Waits
<1>7. \A p \in Readers : Waits(p)' /\ Armed(p)'
  BY <1>4, <1>5, <1>6
<1>8. pc' = "read" => ~rd'[rq'].blocked
  <2>1. pc' = "read" => rq' = r
    BY <1>1 DEF OpenReader, CloseReader, IoNotify, ReadRequest, IoRead
  <2> QED
    BY <1>5, <2>1
<1> QED
  BY <1>6, <1>7, <1>8 DEF ReadersInv

\* run_read_queue takes the next blocked reader, or triggers the notifications.
LEMMA RunReadQueueWakes ==
  ASSUME IInv, IInv', RowsInv, WakeInv, RunReadQueue PROVE ReadersInv'
<1>0. rd \in [Readers -> Ocbs]
  BY Parts DEF QueueInv
<1>1. /\ pc = "readq" /\ dgOpened' = dgOpened /\ blockedWriter' = blockedWriter
      /\ newRows' = newRows /\ UNCHANGED chainVars
  BY DEF RunReadQueue, wrVars, evalVars
<1>2. newRows = FALSE /\ ~Awaited /\ Unserved = todo /\ todo \subseteq Readers
  BY <1>1, ControlTypes, Parts
     DEF WakeInv, RowsNoted, Awaited, Active, Busy, Evaluating, Unserved, ServerInv, ControlType
<1>3. ChainShrinks
  BY <1>1, ChainSame, KeptShrinks
<1>4. CASE \E r \in todo : /\ todo' = todo \ {r}
                           /\ rd' = [rd EXCEPT ![r].blocked = FALSE]
                           /\ rq' = r /\ from' = "queue" /\ pc' = "read"
  <2>1. PICK r \in todo : /\ todo' = todo \ {r}
                          /\ rd' = [rd EXCEPT ![r].blocked = FALSE]
                          /\ rq' = r /\ from' = "queue" /\ pc' = "read"
    BY <1>4
  <2>2. /\ r \in Readers /\ rd'[r].blocked = FALSE
        /\ \A p \in Readers \ {r} : rd'[p] = rd[p]
    BY <1>0, <1>2, <2>1 DEF Ocbs
  <2>3. Unserved' = todo \ {r} /\ Untriggered'
    BY <1>1, <1>2, <2>1 DEF Unserved, Untriggered
  <2>4. \A p \in Readers \ Unserved' : Waits(p)'
    <3>1. \A p \in Readers \ todo : p # r => Waits(p)'
      BY <1>1, <1>2, <1>3, <2>2, WaitsOn DEF WakeInv, ReadersInv
    <3>2. Waits(r)'
      BY <2>2 DEF Waits
    <3> QED
      BY <2>3, <3>1, <3>2
  <2>5. \A p \in Readers : rd'[p].blocked => rd'[p].open
    BY <2>2 DEF WakeInv, ReadersInv
  <2> QED
    BY <2>1, <2>2, <2>3, <2>4, <2>5 DEF ReadersInv
<1>5. CASE /\ todo = {} /\ rd' = [r \in Readers |-> [rd[r] EXCEPT !.armed = FALSE]]
           /\ pc' = "writeq"
  <2>1. ASSUME NEW r \in Readers
        PROVE  /\ rd'[r].part = rd[r].part /\ rd'[r].dqd = rd[r].dqd /\ rd'[r].n = rd[r].n
               /\ rd'[r].blocked = rd[r].blocked /\ rd'[r].open = rd[r].open
               /\ rd'[r].max = rd[r].max /\ ~rd'[r].armed
    <3>1. rd[r] \in Ocbs /\ rd'[r] = [rd[r] EXCEPT !.armed = FALSE]
      BY <1>0, <1>5
    <3> QED
      BY <3>1 DEF Ocbs
  <2>2. ASSUME NEW r \in Readers PROVE Waits(r)'
    <3>1. Waits(r) /\ (Deliverable(r)' => Deliverable(r))
      BY <1>2, <1>3, <1>5, <2>1, NothingCame DEF WakeInv, ReadersInv
    <3>2. dqd' = dqd /\ dLast' = dLast
      BY <1>1 DEF chainVars
    <3>3. Saving(r) => Saving(r)'
      BY <1>1, <2>1, <3>2 DEF Saving, RowsReady
    <3> QED
      BY <1>1, <1>2, <2>1, <3>1, <3>3 DEF Waits
  <2>3. ASSUME NEW r \in Readers PROVE Armed(r)' /\ (rd'[r].blocked => rd'[r].open)
    BY <2>1 DEF Armed, WakeInv, ReadersInv
  <2> QED
    BY <1>5, <2>2, <2>3 DEF ReadersInv
<1> QED
  BY <1>4, <1>5 DEF RunReadQueue

\* A reader gets its answer, or waits for what is not there.
LEMMA AnswerWakes ==
  ASSUME IInv, IInv', RowsInv, WakeInv, pc = "read", NEW r \in Readers, rq = r, ChainShrinks, ReplyDone,
         dgOpened' = dgOpened, blockedWriter' = blockedWriter, newRows' = newRows,
         NEW o, rd' = [rd EXCEPT ![r] = o], o.blocked => o.open, Waits(r)',
         from = "io" => Armed(r)'
  PROVE  ReadersInv'
<1>1. rd \in [Readers -> Ocbs] /\ (from = "io" => todo = {})
  BY Parts DEF QueueInv, ServerInv, ReaderInv
<1>2. newRows = FALSE /\ ~Awaited /\ Unserved = todo
  BY ControlTypes DEF WakeInv, RowsNoted, Awaited, Active, Busy, Evaluating, Unserved
<1>3. /\ todo' = todo /\ (from = "io" => pc' = "writeq") /\ (from # "io" => pc' = "readq")
  BY DEF ReplyDone
<1>4. rd'[r] = o /\ \A p \in Readers \ {r} : rd'[p] = rd[p]
  BY <1>1
<1>5. Unserved' = todo
  BY <1>1, <1>2, <1>3 DEF Unserved
<1>6. ASSUME NEW p \in Readers \ todo PROVE Waits(p)'
  <2>1. CASE p = r
    BY <2>1
  <2>2. CASE p # r
    <3>1. Waits(p) /\ rd'[p] = rd[p]
      BY <1>2, <1>4, <1>6, <2>2 DEF WakeInv, ReadersInv
    <3> QED
      BY <1>2, <3>1, WaitsOn
  <2> QED
    BY <2>1, <2>2
<1>7. ASSUME from = "io", NEW p \in Readers PROVE Armed(p)'
  <2>1. CASE p = r
    BY <1>7, <2>1
  <2>2. CASE p # r
    <3>1. ~Untriggered
      BY <1>2, <1>7 DEF Untriggered
    <3>2. Armed(p) /\ rd'[p] = rd[p]
      BY <1>4, <2>2, <3>1 DEF WakeInv, ReadersInv
    <3> QED
      BY <3>2, WaitsOn
  <2> QED
    BY <2>1, <2>2
<1>8. \A p \in Readers : rd'[p].blocked => rd'[p].open
  BY <1>4 DEF WakeInv, ReadersInv
<1>9. pc' # "read" /\ (from # "io" => Untriggered')
  BY <1>3 DEF Untriggered
<1> QED
  BY <1>5, <1>6, <1>7, <1>8, <1>9 DEF ReadersInv

\* read_reply and io_notify count the same rows.
LEMMA ReadyRows ==
  ASSUME IInv, pc = "read", rd[rq].dqd > 0
  PROVE  /\ Ready = RowsReady(rq) /\ Ready \in Nat
         /\ CaughtUp.dqd = rd[rq].dqd /\ CaughtUp.part = rd[rq].part
         /\ CaughtUp.max = rd[rq].max /\ CaughtUp.open /\ CaughtUp.blocked = rd[rq].blocked
         /\ CaughtUp.armed = rd[rq].armed
         /\ CaughtUp.n = Greater(rd[rq].n, dqd[rd[rq].dqd].expired)
<1>1. rd[rq] \in Ocbs /\ rd[rq].open /\ rd[rq].dqd \in Live /\ rd[rq].n <= Rows(rd[rq].dqd)
  BY Served DEF Ocbs
<1>2. /\ dqd[rd[rq].dqd].expired \in Nat /\ dqd[rd[rq].dqd].n \in Nat /\ rd[rq].n \in Nat
      /\ Rows(rd[rq].dqd) = dqd[rd[rq].dqd].expired + dqd[rd[rq].dqd].n
  BY <1>1, ChainNumbers DEF Ocbs
<1>3. PICK n, m : /\ CaughtUp = [rd[rq] EXCEPT !.n = n, !.missing = m]
                  /\ n = Greater(rd[rq].n, dqd[rd[rq].dqd].expired)
  BY DEF CaughtUp
<1>4. /\ CaughtUp.n = n /\ CaughtUp.dqd = rd[rq].dqd /\ CaughtUp.part = rd[rq].part
      /\ CaughtUp.max = rd[rq].max /\ CaughtUp.open /\ CaughtUp.blocked = rd[rq].blocked
      /\ CaughtUp.armed = rd[rq].armed
  <2>1. PICK o \in Ocbs : o = rd[rq] /\ o.open
    BY <1>1
  <2>2. PICK c : c = [o EXCEPT !.n = n, !.missing = m]
    OBVIOUS
  <2>3. /\ c.n = n /\ c.dqd = o.dqd /\ c.part = o.part /\ c.max = o.max /\ c.open = o.open
        /\ c.blocked = o.blocked /\ c.armed = o.armed
    BY <2>2 DEF Ocbs
  <2> QED
    BY <1>3, <2>1, <2>2, <2>3
<1>5. Ready = RowsReady(rq) /\ Ready \in Nat
  <2>1. Ready = Rows(rd[rq].dqd) - n
    BY <1>4 DEF Ready
  <2>2. RowsReady(rq) = dqd[rd[rq].dqd].n - Greater(0, rd[rq].n - dqd[rd[rq].dqd].expired)
    BY DEF RowsReady
  <2> QED
    BY <1>1, <1>2, <1>3, <2>1, <2>2 DEF Greater
<1> QED
  BY <1>3, <1>4, <1>5

\* Counting the expired rows as missing makes nothing available.
LEMMA SameAhead ==
  ASSUME IInv, IInv', pc = "read", NEW r \in Readers, rq = r, UNCHANGED chainVars,
         rd'[r].part = rd[r].part, rd'[r].dqd = rd[r].dqd,
         rd[r].dqd > 0 => rd'[r].n = Greater(rd[r].n, dqd[rd[r].dqd].expired)
  PROVE  /\ rd[r].dqd > 0 => RowsReady(r)' = RowsReady(r)
         /\ Deliverable(r)' <=> Deliverable(r)
<1>1. dqd' = dqd /\ dLast' = dLast
  BY DEF chainVars
<1>2. rd[r].dqd \in Nat
  BY Served DEF Ocbs
<1>3. ASSUME rd[r].dqd > 0 PROVE RowsReady(r)' = RowsReady(r)
  <2>1. rd[r] \in Ocbs /\ rd[r].dqd \in Live
    BY <1>3, Served
  <2>2. dqd[rd[r].dqd].expired \in Nat /\ rd[r].n \in Nat /\ rd[r].dqd \in Nat
    BY <2>1, ChainNumbers DEF Ocbs
  <2>3. /\ RowsReady(r) = dqd[rd[r].dqd].n - Greater(0, rd[r].n - dqd[rd[r].dqd].expired)
        /\ RowsReady(r)' = dqd[rd[r].dqd].n - Greater(0, rd'[r].n - dqd[rd[r].dqd].expired)
    BY <1>1 DEF RowsReady
  <2>4. Greater(0, rd'[r].n - dqd[rd[r].dqd].expired)
          = Greater(0, rd[r].n - dqd[rd[r].dqd].expired)
    BY <1>3, <2>2 DEF Greater
  <2> QED
    BY <2>3, <2>4
<1>4. CASE rd[r].dqd > 0
  <2>1. RowsReady(r)' = RowsReady(r)
    BY <1>3, <1>4
  <2> QED
    BY <1>1, <2>1 DEF Deliverable
<1>5. CASE rd[r].dqd = 0
  BY <1>1, <1>5 DEF Deliverable
<1> QED
  BY <1>2, <1>3, <1>4, <1>5

\* enqueue_read: a reader waits only for what is not there.
LEMMA EnqueueWakes ==
  ASSUME IInv, IInv', RowsInv, WakeInv, pc = "read", NEW r \in Readers, rq = r, UNCHANGED chainVars,
         dgOpened' = dgOpened, blockedWriter' = blockedWriter, newRows' = newRows,
         NEW o \in Ocbs, o.open, ~o.blocked, o.part = rd[r].part, o.dqd = rd[r].dqd,
         o.max = rd[r].max, o.armed = rd[r].armed,
         rd[r].dqd > 0 => o.n = Greater(rd[r].n, dqd[rd[r].dqd].expired),
         EnqueueRead(o), Deliverable(r) /\ ~nonblk /\ dgOpened < 2 => Saving(r)
  PROVE  ReadersInv'
<1>1. rd \in [Readers -> Ocbs]
  BY Parts DEF QueueInv
<1>2. PICK p : p = IF dgOpened = 2 \/ nonblk THEN [o EXCEPT !.q = 0, !.max = 0]
                                             ELSE [o EXCEPT !.blocked = TRUE]
  OBVIOUS
<1>3. rd' = [rd EXCEPT ![r] = p] /\ ReplyDone
  BY <1>2 DEF EnqueueRead
<1>4. /\ p.open /\ p.part = rd[r].part /\ p.dqd = rd[r].dqd /\ p.armed = rd[r].armed
      /\ p.n = o.n
  BY <1>2 DEF Ocbs
<1>5. p.blocked => /\ dgOpened # 2 /\ ~nonblk /\ p.max = rd[r].max
  BY <1>2 DEF Ocbs
<1>6. rd'[r] = p
  BY <1>1, <1>3
<1>7. /\ rd[r].dqd > 0 => RowsReady(r)' = RowsReady(r)
      /\ Deliverable(r)' <=> Deliverable(r)
  BY <1>4, <1>6, SameAhead
<1>8. ASSUME p.blocked PROVE dgOpened' < 2 /\ (Deliverable(r)' => Saving(r)')
  <2>1. dgOpened < 2
    BY <1>5, <1>8, WriterPart
  <2>2. ASSUME Saving(r), Deliverable(r) PROVE Saving(r)'
    <3>1. rd[r].dqd = dLast /\ dLast' = dLast /\ dLast \in Nat /\ rd[r].part = 0
      BY <2>2, ChainEnds DEF Saving, chainVars
    <3>2. rd[r].dqd > 0
      BY <2>2, <3>1 DEF Deliverable
    <3> QED
      BY <1>4, <1>5, <1>6, <1>7, <1>8, <2>2, <3>1, <3>2 DEF Saving
  <2> QED
    BY <1>5, <1>7, <1>8, <2>1, <2>2
<1>9. Waits(r)'
  BY <1>6, <1>8 DEF Waits
<1>10. from = "io" => Armed(r)'
  <2>1. newRows = FALSE
    BY ControlTypes DEF WakeInv, RowsNoted, Active, Busy, Evaluating
  <2>2. from = "io" => Armed(r)
    BY <1>1, <2>1 DEF WakeInv, ReadersInv, Untriggered
  <2> QED
    BY <1>4, <1>6, <1>7, <2>2 DEF Armed
<1>11. ChainShrinks
  BY ChainSame, KeptShrinks
<1> QED
  BY <1>3, <1>4, <1>9, <1>10, <1>11, AnswerWakes

\* do_read_reply: what an unarmed reader gets leaves nothing to be done; an
\* armed one had nothing to get.
LEMMA GiveWakes ==
  ASSUME IInv, IInv', RowsInv, WakeInv, pc = "read", NEW r \in Readers, rq = r, ChainShrinks,
         dgOpened' = dgOpened, blockedWriter' = blockedWriter, newRows' = newRows,
         NEW o \in Ocbs, ~o.blocked, o.armed = rd[r].armed, Deliverable(r),
         NEW kind, NEW mf, NEW rows, NEW units, Give(o, kind, mf, rows, units)
  PROVE  ReadersInv'
<1>1. rd \in [Readers -> Ocbs]
  BY Parts DEF QueueInv
<1>2. PICK u : u = Greater(0, units - o.q)
  OBVIOUS
<1>3. PICK p : p = [o EXCEPT !.part = u, !.q = 0, !.max = 0]
  OBVIOUS
<1>4. rd' = [rd EXCEPT ![r] = p] /\ ReplyDone
  BY <1>2, <1>3 DEF Give
<1>5. ~p.blocked /\ p.armed = rd[r].armed
  BY <1>3 DEF Ocbs
<1>6. rd'[r] = p
  BY <1>1, <1>4
<1>7. Waits(r)'
  BY <1>5, <1>6 DEF Waits
<1>8. from = "io" => Armed(r)'
  <2>1. newRows = FALSE
    BY ControlTypes DEF WakeInv, RowsNoted, Active, Busy, Evaluating
  <2>2. from = "io" => Armed(r)
    BY <1>1, <2>1 DEF WakeInv, ReadersInv, Untriggered
  <2> QED
    BY <1>5, <1>6, <2>2 DEF Armed
<1> QED
  BY <1>4, <1>5, <1>7, <1>8, AnswerWakes

\* read_reply, but for the step on to the next descriptor.
LEMMA ReadReplyWakes ==
  ASSUME IInv, IInv', RowsInv, WakeInv, ReadReply, ~ReplyNextDqd PROVE ReadersInv'
<1>1. /\ pc = "read" /\ blockedWriter' = blockedWriter /\ dgOpened' = dgOpened
      /\ newRows' = newRows
  BY DEF ReadReply, ReplyPartial, ReplyInit, ReadBeforeInit, ReplyRows, ReplyDefer,
         ReplyStarved, Attached, Reading, wrVars, evalVars
<1>2. PICK r \in Readers : rq = r
  BY <1>1, Served
<1>3. rd[r] \in Ocbs /\ rd[r].open /\ ~rd[r].blocked
  BY <1>1, <1>2, Served DEF WakeInv, ReadersInv
<1>4. ChainShrinks
  <2>1. ReaderStep
    BY DEF ReaderStep
  <2> QED
    BY <2>1, ReaderChain, KeptShrinks
<1>5. ASSUME rd[r].dqd > 0
      PROVE  /\ CaughtUp \in Ocbs /\ CaughtUp.open /\ ~CaughtUp.blocked
             /\ CaughtUp.part = rd[r].part /\ CaughtUp.dqd = rd[r].dqd
             /\ CaughtUp.max = rd[r].max /\ CaughtUp.armed = rd[r].armed
             /\ CaughtUp.n = Greater(rd[r].n, dqd[rd[r].dqd].expired)
             /\ Ready = RowsReady(r) /\ Ready \in Nat
  BY <1>1, <1>2, <1>3, <1>5, CaughtUpType, ReadyRows
<1>6. CASE ReplyPartial
  <2>1. Give(rd[r], "PART", 0, <<>>, rd[r].part) /\ rd[r].part > 0
    BY <1>2, <1>6 DEF ReplyPartial
  <2>2. Deliverable(r)
    BY <2>1 DEF Deliverable
  <2> QED
    BY <1>1, <1>2, <1>3, <1>4, <2>1, <2>2, GiveWakes
<1>7. CASE ReplyInit
  <2>1. PICK g : g = dqd[dFirst].pos /\ g \in Nat
    <3>1. dLast > 0
      BY <1>7 DEF ReplyInit
    <3> QED
      BY <3>1, ChainEnds, ChainNumbers
  <2>2. PICK o : o = [rd[r] EXCEPT !.dqd = dFirst, !.n = 0, !.got = g]
    OBVIOUS
  <2>3. Give(o, "INIT", 0, <<>>, InitUnits) /\ rd[r].dqd = 0 /\ dLast > 0
    BY <1>2, <1>7, <2>1, <2>2 DEF ReplyInit
  <2>4. o \in Ocbs /\ ~o.blocked /\ o.armed = rd[r].armed
    BY <1>3, <2>1, <2>2, ChainEnds DEF Ocbs
  <2>5. Deliverable(r)
    BY <2>3 DEF Deliverable
  <2> QED
    BY <1>1, <1>2, <1>4, <2>3, <2>4, <2>5, GiveWakes
<1>8. CASE ReadBeforeInit
  <2>1. EnqueueRead(rd[r]) /\ rd[r].part = 0 /\ rd[r].dqd = 0 /\ dLast = 0 /\ UNCHANGED chainVars
    BY <1>2, <1>8 DEF ReadBeforeInit
  <2>2. ~Deliverable(r)
    BY <2>1 DEF Deliverable
  <2> QED
    BY <1>1, <1>2, <1>3, <2>1, <2>2, EnqueueWakes
<1>9. CASE ReplyRows
  <2>1. PICK k : k = Lesser(Ready, rd[r].max)
    OBVIOUS
  <2>2. rd[r].dqd > 0 /\ Ready > 0
    BY <1>2, <1>9 DEF ReplyRows, Attached
  <2>3. Deliverable(r)
    BY <1>5, <2>2 DEF Deliverable
  <2>4. PICK o : o = [CaughtUp EXCEPT !.n = @ + k, !.got = @ + k]
    OBVIOUS
  <2>5. \E mf, rows : Give(o, "DATA", mf, rows, DataHdr + Units(k))
    BY <1>2, <1>9, <2>1, <2>4 DEF ReplyRows
  <2>6. k \in Nat /\ CaughtUp.n \in Nat /\ CaughtUp.got \in Nat
    BY <1>3, <1>5, <2>1, <2>2, ConstType DEF Ocbs, Lesser
  <2>7. o \in Ocbs /\ ~o.blocked /\ o.armed = rd[r].armed
    <3>1. PICK n2, g2 : n2 = CaughtUp.n + k /\ g2 = CaughtUp.got + k
      OBVIOUS
    <3>2. n2 \in Nat /\ g2 \in Nat
      BY <2>6, <3>1
    <3>3. o = [CaughtUp EXCEPT !.n = n2, !.got = g2]
      BY <2>4, <3>1
    <3> QED
      BY <1>5, <2>2, <3>2, <3>3 DEF Ocbs
  <2>8. PICK mf, rows : Give(o, "DATA", mf, rows, DataHdr + Units(k))
    BY <2>5
  <2> QED
    BY <1>1, <1>2, <1>4, <2>3, <2>7, <2>8, GiveWakes
<1>10. CASE ReplyDefer
  <2>1. /\ EnqueueRead(CaughtUp) /\ rd[r].part = 0 /\ rd[r].dqd > 0 /\ UNCHANGED chainVars
        /\ WantsMore
    BY <1>2, <1>10 DEF ReplyDefer, Attached
  <2>2. Saving(r)
    BY <1>2, <1>5, <2>1 DEF Saving, WantsMore
  <2> QED
    BY <1>1, <1>2, <1>5, <2>1, <2>2, EnqueueWakes
<1>11. CASE ReplyStarved
  <2>1. /\ EnqueueRead(CaughtUp) /\ rd[r].part = 0 /\ rd[r].dqd > 0 /\ UNCHANGED chainVars
        /\ Ready = 0 /\ rd[r].dqd = dLast
    BY <1>2, <1>11 DEF ReplyStarved, Attached
  <2>2. ~Deliverable(r)
    <3>1. rd[r].dqd + 1 .. dLast = {}
      BY <2>1, ChainEnds
    <3>2. RowsReady(r) = 0
      BY <1>5, <2>1
    <3> QED
      BY <2>1, <3>1, <3>2 DEF Deliverable
  <2> QED
    BY <1>1, <1>2, <1>5, <2>1, <2>2, EnqueueWakes
<1> QED
  BY <1>6, <1>7, <1>8, <1>9, <1>10, <1>11 DEF ReadReply

\* On to the next descriptor: either a time stamp is due, or what the reader
\* could get before it can get still.
LEMMA NextDqdWakes ==
  ASSUME IInv, IInv', RowsInv, WakeInv, ReplyNextDqd PROVE ReadersInv'
<1>1. /\ pc = "read" /\ blockedWriter' = blockedWriter /\ dgOpened' = dgOpened
      /\ newRows' = newRows /\ rd[rq].dqd > 0 /\ Ready = 0 /\ rd[rq].dqd < dLast
      /\ rd[rq].part = 0
  BY DEF ReplyNextDqd, Attached, Reading, wrVars, evalVars
<1>2. PICK r \in Readers : rq = r
  BY <1>1, Served
<1>3. rd \in [Readers -> Ocbs] /\ ~rd[r].blocked
  BY <1>1, <1>2, Parts DEF WakeInv, ReadersInv, QueueInv
<1>4. ChainShrinks
  <2>1. ReaderStep
    BY DEF ReaderStep, ReadReply
  <2> QED
    BY <2>1, ReaderChain, KeptShrinks
<1>5. /\ CaughtUp \in Ocbs /\ CaughtUp.open /\ ~CaughtUp.blocked
      /\ CaughtUp.part = rd[r].part /\ CaughtUp.armed = rd[r].armed
      /\ RowsReady(r) = 0
  BY <1>1, <1>2, <1>3, CaughtUpType, ReadyRows
<1>6. PICK d : d = rd[r].dqd
  OBVIOUS
<1>7. d \in Live /\ d + 1 \in Live /\ d \in Nat /\ dLast \in Nat /\ d < dLast
  <2>1. d \in Live
    BY <1>1, <1>2, <1>6, Served
  <2>2. d \in Nat /\ dFirst <= d /\ dFirst \in Nat /\ dLast \in Nat /\ d < dLast
    BY <1>1, <1>2, <1>6, <2>1, ChainEnds, ChainNumbers
  <2> QED
    BY <2>1, <2>2 DEF Live
<1>8. PICK u : u = d + 1
  OBVIOUS
<1>9. PICK o : o = [CaughtUp EXCEPT !.dqd = u, !.n = 0]
  OBVIOUS
<1>10. /\ o \in Ocbs /\ o.open /\ ~o.blocked /\ o.armed = rd[r].armed /\ o.part = 0
       /\ o.dqd = u /\ o.n = 0
  <2>1. u \in Nat /\ rd[r].part = 0
    BY <1>1, <1>2, <1>7, <1>8
  <2>2. o \in Ocbs
    BY <1>5, <1>9, <2>1 DEF Ocbs
  <2>3. /\ o.open = CaughtUp.open /\ o.blocked = CaughtUp.blocked /\ o.armed = CaughtUp.armed
        /\ o.part = CaughtUp.part /\ o.dqd = u /\ o.n = 0
    BY <1>5, <1>9 DEF Ocbs
  <2> QED
    BY <1>5, <2>1, <2>2, <2>3
<1>11. CASE dqd[d].ts # dqd[d + 1].ts
  <2>1. Give(o, "TSTAMP", 0, <<>>, HdrUnits)
    BY <1>2, <1>6, <1>8, <1>9, <1>11 DEF ReplyNextDqd
  <2>2. Deliverable(r)
    <3>1. d + 1 \in d + 1 .. dLast
      BY <1>7
    <3> QED
      BY <1>1, <1>2, <1>6, <1>11, <3>1 DEF Deliverable
  <2> QED
    BY <1>1, <1>2, <1>4, <1>10, <2>1, <2>2, GiveWakes
<1>12. CASE dqd[d].ts = dqd[d + 1].ts
  <2>1. /\ rd' = [rd EXCEPT ![r] = o] /\ pc' = pc /\ todo' = todo /\ rq' = rq /\ from' = from
    BY <1>2, <1>6, <1>8, <1>9, <1>12 DEF ReplyNextDqd, readVars
  <2>2. rd'[r] = o /\ \A p \in Readers \ {r} : rd'[p] = rd[p]
    BY <1>3, <2>1
  <2>3. newRows = FALSE /\ ~Awaited /\ Unserved = todo
    BY <1>1, ControlTypes DEF WakeInv, RowsNoted, Awaited, Active, Busy, Evaluating, Unserved
  <2>4. Unserved' = todo /\ (Untriggered' <=> Untriggered)
    BY <1>1, <2>1, <2>3 DEF Unserved, Untriggered
  <2>5. ASSUME NEW p \in Readers \ todo PROVE Waits(p)'
    <3>1. CASE p = r
      BY <1>10, <2>2, <3>1 DEF Waits
    <3>2. CASE p # r
      <4>1. Waits(p) /\ rd'[p] = rd[p]
        BY <2>2, <2>3, <2>5, <3>2 DEF WakeInv, ReadersInv
      <4> QED
        BY <1>1, <1>4, <2>3, <4>1, WaitsOn
    <3> QED
      BY <3>1, <3>2
  <2>6. ASSUME Deliverable(r)' PROVE Deliverable(r)
    <3>1. dLast' = dLast
      BY <1>4 DEF ChainShrinks
    <3>2. rd'[r].part = 0 /\ rd'[r].dqd = u /\ rd'[r].n = 0 /\ u \in Nat \ {0}
      BY <1>7, <1>8, <1>10, <2>2
    <3>3. u \in Live' /\ Live' = dFirst' .. dLast' /\ dFirst' \in Nat
      <4>1. rd'[r].dqd \in Live'
        BY <3>2, Parts DEF IInv, RefCounts
      <4>2. dFirst' \in Nat
        BY DEF IInv, TypeOK, ChainType
      <4> QED
        BY <3>2, <4>1, <4>2 DEF Live
    <3>4. ASSUME NEW e \in Live'
          PROVE  dqd'[e].ts = dqd[e].ts /\ (dqd'[e].n > 0 => dqd[e].n > 0)
                 /\ dqd'[e].n \in Nat /\ dqd'[e].expired \in Nat
      <4>1. e \in Live /\ dqd'[e].ts = dqd[e].ts /\ dqd'[e].n <= dqd[e].n
        BY <1>4, <3>4 DEF ChainShrinks
      <4>2. dqd[e].n \in Nat
        BY <4>1, ChainNumbers
      <4>3. dqd'[e] \in Dqds
        BY <3>3, <3>4 DEF IInv, TypeOK, ChainType
      <4>4. dqd'[e].n \in Nat /\ dqd'[e].expired \in Nat
        BY <4>3 DEF Dqds
      <4> QED
        BY <4>1, <4>2, <4>4
    <3>5. CASE RowsReady(r)' > 0
      <4>1. RowsReady(r)' = dqd'[u].n - Greater(0, 0 - dqd'[u].expired)
        BY <3>2 DEF RowsReady
      <4>2. dqd'[u].n > 0
        BY <3>3, <3>4, <3>5, <4>1 DEF Greater
      <4>3. dqd[d + 1].n > 0 /\ d + 1 \in d + 1 .. dLast
        BY <1>7, <1>8, <3>3, <3>4, <4>2
      <4> QED
        BY <1>1, <1>2, <1>6, <4>3 DEF Deliverable
    <3>6. ASSUME NEW e \in u + 1 .. dLast, dqd'[e].n > 0 \/ dqd'[e].ts # dqd'[u].ts
          PROVE  Deliverable(r)
      <4>1. e \in Live' /\ e \in d + 1 .. dLast
        BY <1>7, <1>8, <3>1, <3>3, <3>6
      <4>2. dqd[e].n > 0 \/ dqd[e].ts # dqd[d].ts
        BY <1>8, <1>12, <3>3, <3>4, <3>6, <4>1
      <4> QED
        BY <1>1, <1>2, <1>6, <4>1, <4>2 DEF Deliverable
    <3> QED
      BY <2>6, <3>1, <3>2, <3>5, <3>6 DEF Deliverable
  <2>7. ASSUME ~Untriggered, NEW p \in Readers PROVE Armed(p)'
    <3>1. CASE p = r
      <4>1. rd'[r].armed = rd[r].armed /\ Armed(r)
        BY <1>10, <2>2, <2>7 DEF WakeInv, ReadersInv
      <4> QED
        BY <1>1, <2>6, <3>1, <4>1 DEF Armed
    <3>2. CASE p # r
      <4>1. Armed(p) /\ rd'[p] = rd[p]
        BY <2>2, <2>7, <3>2 DEF WakeInv, ReadersInv
      <4> QED
        BY <1>1, <1>4, <4>1, WaitsOn
    <3> QED
      BY <3>1, <3>2
  <2>8. \A p \in Readers : rd'[p].blocked => rd'[p].open
    BY <1>10, <2>2 DEF WakeInv, ReadersInv
  <2>9. ~rd'[rq'].blocked
    BY <1>2, <1>10, <2>1, <2>2
  <2> QED
    BY <2>4, <2>5, <2>7, <2>8, <2>9 DEF ReadersInv
<1> QED
  BY <1>11, <1>12

\* The steps that concern readers.
LEMMA ReaderWakes ==
  ASSUME IInv, IInv', RowsInv, WakeInv, ReaderStep PROVE WakeInv'
<1>1. RowsNoted'
  BY ReaderQuiet, ReaderNoted
<1>2. ReadersInv'
  BY OpenCloseWakes, ClientWakes, RunReadQueueWakes, ReadReplyWakes, NextDqdWakes
     DEF ReaderStep, ReadReply
<1> QED
  BY <1>1, <1>2 DEF WakeInv

\* At the start nobody waits.
LEMMA WakeInit == Init => WakeInv
<1> SUFFICES ASSUME Init PROVE WakeInv
  OBVIOUS
<1>1. \A r \in Readers : ~rd[r].blocked /\ ~rd[r].armed
  BY DEF Init, ClosedReader
<1>2. pc = "idle" /\ newRows = FALSE /\ left = 0 /\ wr.nbmsg = 0 /\ ret = "write"
  BY DEF Init
<1>3. RowsNoted
  BY <1>2 DEF RowsNoted
<1> QED
  BY <1>1, <1>2, <1>3 DEF WakeInv, ReadersInv, Waits, Armed

\* Every step.
LEMMA WakeStep ==
  ASSUME Labelling, WholeWrites, IInv, IInv', RowsInv, WakeInv, [Next]_vars PROVE WakeInv'
<1>1. CASE UNCHANGED vars
  <2>1. /\ UNCHANGED <<rd, dgOpened, blockedWriter, newRows, pc, ret, left, wr, todo, rq, from>>
        /\ UNCHANGED chainVars
    BY <1>1 DEF vars, rdVars, evalVars, wrVars, sendVars, readVars
  <2>2. dqd' = dqd /\ dLast' = dLast
    BY <2>1 DEF chainVars
  <2>3. \A r \in Readers : (Waits(r)' <=> Waits(r)) /\ (Armed(r)' <=> Armed(r))
    BY <2>1, <2>2 DEF Waits, Armed, Deliverable, RowsReady, Saving, Awaited, AfterHeader
  <2>4. Unserved' = Unserved /\ (Untriggered' <=> Untriggered)
    BY <2>1 DEF Unserved, Untriggered
  <2>5. ReadersInv'
    BY <2>1, <2>3, <2>4 DEF WakeInv, ReadersInv
  <2>6. RowsNoted'
    BY <2>1 DEF WakeInv, RowsNoted, AfterHeader
  <2> QED
    BY <2>5, <2>6 DEF WakeInv
<1> QED
  BY <1>1, Steps, ReaderWakes, WriterWakes

\* At idle nobody is left to be served and nothing is left to be triggered.
LEMMA WakeEnough == WakeInv /\ newRows \in BOOLEAN => NoMissedWakeup
<1> SUFFICES ASSUME WakeInv, newRows \in BOOLEAN, pc = "idle", NEW r \in Readers
             PROVE  /\ rd[r].blocked =>
                         /\ dgOpened < 2
                         /\ Deliverable(r) =>
                              /\ NodeOf[r] = "DCo" /\ ~blockedWriter /\ rd[r].part = 0
                              /\ rd[r].dqd = dLast /\ RowsReady(r) < rd[r].max
                    /\ rd[r].armed => dgOpened < 2 /\ ~Deliverable(r)
  BY DEF NoMissedWakeup
<1>1. newRows = FALSE /\ ~Awaited
  BY DEF WakeInv, RowsNoted, Awaited, Active, Busy, Evaluating
<1>2. Unserved = {} /\ ~Untriggered
  BY <1>1 DEF Unserved, Untriggered
<1>3. Waits(r) /\ Armed(r)
  BY <1>2 DEF WakeInv, ReadersInv
<1> QED
  BY <1>1, <1>3 DEF Waits, Armed, Saving

\* When the server waits for a request nobody is left waiting for what is there
\* (run_read_queue after a write): for a writer that sends a record at a time
\* and frames of more than one row unit, or one that does not block.
THEOREM NobodyForgotten ==
  ASSUME Labelling, WholeWrites PROVE Spec => []NoMissedWakeup
<1>1. Spec => [](IInv /\ RowsInv /\ RepliesConsecutive)
  BY RowsStay
<1>2. Init => WakeInv
  BY WakeInit
<1>3. (IInv /\ RowsInv) /\ (IInv /\ RowsInv)' /\ WakeInv /\ [Next]_vars => WakeInv'
  BY WakeStep
<1>4. IInv /\ WakeInv => NoMissedWakeup
  BY WakeEnough, ControlTypes
<1> QED
  BY <1>1, <1>2, <1>3, <1>4, PTL DEF Spec
=============================================================================
