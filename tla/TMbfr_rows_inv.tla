--------------------------- MODULE TMbfr_rows_inv ---------------------------
(***************************************************************************)
(* What is in the ring: an inductive strengthening of RowsAreLabelled, for *)
(* type 3 data and rows that do not fit in the header block, or a writer   *)
(* that does not block (one-unit rows of a blocking writer lose their      *)
(* place when the ring is full).                                           *)
(***************************************************************************)
EXTENDS TMbfr_inv

Labelling == DataType = "T3" /\ (RowUnits = 2 \/ Nonblock)

(***************************************************************************)
(* The stream: the units still to come are those of the record begun       *)
(***************************************************************************)
Busy == Evaluating \cup {"evaldone"}

\* The header of a data record was read, none of its rows has its place yet
AfterHeader ==
  wr.state = "HDR" /\ (pc \in Busy \/ (wr.nbdata = 0 /\ pc # "hdr"))

Outstanding == left + wr.nbmsg

HeaderRead ==
  \/ wr.nbdata = HdrUnits /\ Outstanding = 0 /\ pc # "hdr"
  \/ /\ Outstanding = RecUnits(hdr) - HdrUnits + wr.nbdata
     /\ hdr.kind = "INIT" => dLast = 0

FirstRows ==
  /\ hdr.kind = "DATA" /\ wr.nbrec = Units(hdr.n) /\ wr.nbdata = 0
  /\ Outstanding = wr.nbrec - Excess

InfoRead == hdr.kind = "INIT" /\ dLast = 0 /\ Outstanding = wr.nbdata

RowsRead ==
  /\ hdr.kind = "DATA" /\ Outstanding = wr.nbrec
  /\ wr.nbrec + wr.offq <= Units(hdr.n)
  /\ wr.nbrec > 0 \/ (pc \in {"eval", "evaldone"} /\ ret = "write")

StreamInv ==
  /\ ~wr.pending => wr.nbmsg = 0
  /\ pc \notin Busy => ret = "write"
  /\ pc = "hdr" => wr.state = "HDR"
  /\ pc = "info" => wr.state = "INFO"
  /\ hdr.kind = "DATA" => hdr.n > 0
  /\ wr.state = "HDR" /\ ~AfterHeader => HeaderRead
  /\ AfterHeader => FirstRows
  /\ wr.state = "INFO" => InfoRead
  /\ wr.state = "DATA" => RowsRead

\* A writer that does not block always gets room
RoomFound ==
  /\ pc = "expire" => nreq > 0
  /\ Nonblock =>
       /\ ~blockedWriter /\ ret = "write"
       /\ pc = "place" => nfree > 0
       /\ pc \notin Busy \cup {"hdr", "info"} => wr.nbdata > 0
       /\ pc = "evaldone" => wr.state = "DATA" /\ (wr.nbdata > 0 \/ wr.nbrec = 0)

(***************************************************************************)
(* The ring: descriptors hold consecutive stretches of the stream          *)
(***************************************************************************)
HeldRows ==
  IF full THEN TotalQrows
  ELSE IF last >= first THEN last - first ELSE TotalQrows + last - first

Base(d) == dqd[d].pos + dqd[d].expired   \* where the rows d holds begin

ChainOrder ==
  \A d, e \in Live : d < e =>
    /\ dqd[d].pos + Rows(d) <= dqd[e].pos
    /\ (\A g \in d + 1 .. e - 1 : Rows(g) = 0) => dqd[e].pos = dqd[d].pos + Rows(d)
    /\ dqd[d].n > 0 => dqd[e].expired = 0

RingPlaced ==
  /\ last = Total % TotalQrows /\ HeldRows <= Total
  /\ \A d \in Live :
       /\ dqd[d].start = Base(d) % TotalQrows
       /\ dqd[d].n > 0 => Total - Base(d) <= HeldRows
       /\ Oldest(d) => Total - Base(d) = HeldRows

\* The rows being received have room besides those that are held
RoomKept ==
  /\ pc \in {"expire", "place"} => nfree + HeldRows <= TotalQrows
  /\ pc = "expire" /\ nfree = 0 => full
  /\ wr.state = "DATA" => wr.nbdata + wr.offq <= Units(TotalQrows - HeldRows)

RingInv == ChainOrder /\ RingPlaced /\ RoomKept

(***************************************************************************)
(* The frames                                                              *)
(***************************************************************************)
\* The rows that the record has yet to commit, and the first one's frame
RowsToCome == (wr.nbrec + wr.offq) \div RowUnits
NextRow == hdr.frame + hdr.n - RowsToCome

\* What the descriptor of the newest rows says of the next one
NextLabel == dqd[dLast].mfctr + Rows(dLast)

HeldLabels ==
  \A d \in Live : \A p \in Base(d) .. Base(d) + dqd[d].n - 1 :
    row[p % TotalQrows] % MfcMod = (dqd[d].mfctr + (p - dqd[d].pos)) % MfcMod

LabelGoesOn ==
  wr.state = "DATA" \/ pc \in {"expire", "place"} => NextLabel % MfcMod = NextRow % MfcMod

\* The rows that have come behind last
BlockFrames ==
  wr.state = "DATA" =>
    \A i \in 0 .. TotalQrows : Units(i) < wr.offq => row[last + i] = NextRow + i

LabelInv == HeldLabels /\ LabelGoesOn /\ BlockFrames

\* The record is in the queue, as far as the rows behind it tell
NewestIs(f) ==
  /\ row[(last + TotalQrows - 1) % TotalQrows] = f - 1
  /\ NextLabel % MfcMod = f % MfcMod

\* The last row of a data record has come before the next header is expected
NewestInv ==
  /\ wr.state = "DATA" /\ pc = "eval" /\ wr.nbrec = 0 => wr.offq > 0
  /\ wr.state = "DATA" /\ pc = "evaldone" /\ wr.nbrec = 0 => NewestIs(NextFrame)
  /\ wr.state = "HDR" /\ ~AfterHeader /\ hdr.kind = "DATA" /\ Outstanding = 0
       /\ wr.nbdata = HdrUnits /\ ~MsgReadErrors => NewestIs(NextFrame)

\* A blocked read still has its limit; one that comes before its turn has none
LimitInv ==
  \A r \in Readers :
    /\ rd[r].max \in {0, MaxQrows(rd[r].q)}
    /\ rd[r].dqd = 0 => rd[r].max = 0

TsInv == TsRefs /\ DOMAIN tsq \subseteq 1 .. nts

RowsInv == StreamInv /\ RoomFound /\ RingInv /\ TsInv /\ LabelInv /\ NewestInv /\ LimitInv
=============================================================================
