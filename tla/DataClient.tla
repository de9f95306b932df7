------------------------------ MODULE DataClient ------------------------------
(***************************************************************************)
(* The framing of a data client, src/tmpplib/src/DC.cc: what is read ends  *)
(* up in a buffer, of which complete records are handled and the rest is   *)
(* moved to the front.  Bytes are counted in words of two: every header,   *)
(* time stamp and row is a number of them.  A word is [w |-> what it is,   *)
(* v |-> its value, p |-> which part of a row].  A word of data never      *)
(* looks like the TM id.                                                   *)
(*                                                                         *)
(* d.buf is the part of the buffer that was read (bytes_read is its        *)
(* length).  What lies beyond it is whatever was there before: where the   *)
(* code looks at it, it finds junk.                                        *)
(***************************************************************************)
EXTENDS Integers, Sequences

CONSTANTS
  RowUnits,   \* nbQrow
  BufSize     \* bufsize

ASSUME DataClientAssumption == RowUnits \in Nat \ {0} /\ BufSize \in Nat

HdrUnits == 2   \* tm_hdr_t: id and type
TsUnits  == 3   \* tstamp_t
DataHdr  == 4   \* nbDataHdr: tm_hdr_t, n_rows, mfctr

Word(w, v, p) == [w |-> w, v |-> v, p |-> p]
Header(type)  == <<Word("id", 0, 0), Word("type", type, 0)>>
TsRecord(ts)  == Header("TSTAMP") \o [i \in 1..TsUnits |-> Word("ts", ts, i)]
RowWords(id)  == [i \in 1..RowUnits |-> Word("row", id, i)]

dc_init(d) == [d EXCEPT !.state = "hdr", !.toread = HdrUnits]

NewClient == [buf |-> <<>>, state |-> "hdr", toread |-> HdrUnits, msgs |-> <<>>, dead |-> FALSE]

\* seek_tmid: on to the next id
seek_tmid(d) ==
  LET at == {i \in 2..Len(d.buf) : d.buf[i].w = "id"}
  IN dc_init([d EXCEPT !.buf =
       IF at = {} THEN <<>>
       ELSE SubSeq(@, CHOOSE i \in at : \A j \in at : i <= j, Len(@))])

Field(d, i, w, junk) ==
  IF Len(d.buf) >= i /\ d.buf[i].w = w THEN d.buf[i].v ELSE junk

NRows(d, junk) == Field(d, 3, "n", junk)

\* A row of the record at the front; 0 is none of the rows that were written
RowAt(d, i) ==
  LET at == DataHdr + (i - 1) * RowUnits
      whole == /\ at + RowUnits <= Len(d.buf)
               /\ \A p \in 1..RowUnits : /\ d.buf[at + p].w = "row" /\ d.buf[at + p].p = p
                                         /\ d.buf[at + p].v = d.buf[at + 1].v
  IN IF whole THEN d.buf[at + 1].v ELSE 0

Message(d, junk) ==
  IF d.buf[2].v = "TSTAMP" THEN [k |-> "TSTAMP", ts |-> Field(d, 3, "ts", junk)]
  ELSE [k |-> "DATA", mfc |-> Field(d, 4, "mfc", junk),
        rows |-> [i \in 1..NRows(d, junk) |-> RowAt(d, i)]]

\* What is left once the record has been handled
Rest_None(d) == <<>>
Rest(d) == SubSeq(d.buf, d.toread + 1, Len(d.buf))

\* process_message: every record that is complete
RECURSIVE process_message(_, _)
process_message(d, junk) ==
  IF d.dead \/ Len(d.buf) < d.toread THEN d
  ELSE IF d.state = "data"
  THEN process_message(dc_init([d EXCEPT !.msgs = Append(@, Message(d, junk)),
                                         !.buf = Rest(d)]), junk)
  ELSE IF d.buf[2].w # "type" THEN seek_tmid(d)
  ELSE LET need == IF d.buf[2].v = "TSTAMP" THEN HdrUnits + TsUnits
                   ELSE DataHdr + RowUnits * NRows(d, junk)
       IN process_message([d EXCEPT !.toread = need, !.state = "data",
                                    !.dead = need > BufSize], junk)

\* read, when it has got some words, and when it is at the end
Received(d, words, junk) ==
  LET more == [d EXCEPT !.buf = @ \o words] IN
  IF Len(more.buf) < d.toread THEN more
  ELSE IF more.buf[1].w # "id" THEN seek_tmid(more)
  ELSE process_message(more, junk)

AtEof(d) == dc_init([d EXCEPT !.buf = <<>>])
==============================================================================
