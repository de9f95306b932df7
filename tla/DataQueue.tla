----------------------------- MODULE DataQueue -----------------------------
(***************************************************************************)
(* data_queue, src/tmpplib/src/DQ.cc: a ring of rows and the list of       *)
(* records that label them.  The writer asks for room (allocate_rows),     *)
(* fills rows of the ring and commits them; the reader looks at the first  *)
(* record of the list, sends its rows out of the ring and retires them.    *)
(* The operators are the methods; Playback calls them from its threads.    *)
(*                                                                         *)
(* MFCtr and mfrow of a row are kept as one label, MFCtr * nrowminf +      *)
(* mfrow, which append_rows and retire_rows step by the number of rows;    *)
(* it wraps where the 16 bits of MFCtr do.                                 *)
(***************************************************************************)
EXTENDS Integers, Sequences

CONSTANTS
  Total,     \* total_Qrows
  LowWater,  \* dq_low_water
  Labels     \* number of values of a label

ASSUME DataQueueAssumption ==
  /\ Total \in Nat \ {0}
  /\ LowWater \in 1..Total
  /\ Labels \in Nat \ {0}

VARIABLES
  first, last, full,  \* the ring: oldest row, next free row
  recs,               \* first_dqr .. last_dqr
  row                 \* what the rows of the ring hold

dqVars == <<first, last, full, recs, row>>

DataRec == [type : {"data"}, start : 0..Labels - 1, next : 0..Labels - 1,
            Qrow : 0..Total - 1, n : 0..Total]

Plus(label, n) == (label + n) % Labels

InitQueue ==
  /\ first = 0 /\ last = 0 /\ full = FALSE
  /\ recs = <<>>
  /\ row = [i \in 0..Total - 1 |-> -1]

\* Where the k-th row from Qrow is: transmit_data's two pieces of the ring
Slot(q, k) == IF q + k < Total THEN q + k ELSE q + k - Total

LastRec == recs[Len(recs)]

-----------------------------------------------------------------------------
AllocateRows_IgnoresFull == IF first > last THEN first - last ELSE Total - last
\* allocate_rows: the rows that may be filled without wrapping
AllocateRows == IF full THEN 0
                ELSE IF first > last THEN first - last
                ELSE Total - last

\* A caller's memcpy of rows into the room it was given
FillRows(rows) ==
  row' = [i \in DOMAIN row |-> IF i \in last..(last + Len(rows) - 1)
                               THEN rows[i - last + 1] ELSE row[i]]

\* What commit_rows asserts before it takes the lock
CommitAsserts(n) == ~full /\ last + n <= Total

ExtendsLast_AnyLabel(label) == recs # <<>> /\ LastRec.type = "data"
ExtendsLast(label) ==
  recs # <<>> /\ LastRec.type = "data" /\ LastRec.next = label

NextFree(n) == IF last + n = Total THEN 0 ELSE last + n

CommitRows(label, n) ==
  /\ recs' = IF ExtendsLast(label)
             THEN [recs EXCEPT ![Len(recs)].next = Plus(@, n),
                               ![Len(recs)].n = @ + n]
             ELSE Append(recs, [type |-> "data", start |-> label,
                                next |-> Plus(label, n), Qrow |-> last, n |-> n])
  /\ last' = NextFree(n)
  /\ full' = (full \/ last' = first)
  /\ UNCHANGED first

CommitTstamp(ts) ==
  /\ recs' = Append(recs, [type |-> "ts", ts |-> ts])
  /\ UNCHANGED <<first, last, full>>

\* What retire_rows asserts, and its two underflow errors
RetireAsserts(n) ==
  /\ recs[1].n >= n /\ recs[1].Qrow = first
  /\ first < last => first + n <= last
  /\ first >= last /\ first + n >= Total => first + n - Total <= last

RetireRows(n) ==
  /\ first' = IF first >= last /\ first + n >= Total THEN first + n - Total
              ELSE first + n
  /\ full' = (full /\ n = 0)
  /\ recs' = IF recs[1].n = n /\ Len(recs) > 1
             THEN Tail(recs)
             ELSE [recs EXCEPT ![1].Qrow = first', ![1].n = @ - n,
                               ![1].start = Plus(@, n)]
  /\ UNCHANGED last

RetireTstamp ==
  /\ recs' = Tail(recs)
  /\ UNCHANGED <<first, last, full>>

-----------------------------------------------------------------------------
\* The rows a record describes, each with the label it will be sent under
RowsOf(d, n) == [k \in 1..n |-> [label |-> Plus(d.start, k - 1),
                                 data  |-> row[Slot(d.Qrow, k - 1)]]]

TypeOKQueue ==
  /\ first \in 0..Total - 1 /\ last \in 0..Total - 1 /\ full \in BOOLEAN
  /\ \A i \in DOMAIN recs : recs[i].type = "data" => recs[i] \in DataRec
  /\ DOMAIN row = 0..Total - 1
=============================================================================
