--------------------------- MODULE TMbfr_wake_inv ---------------------------
(***************************************************************************)
(* Who waits, and for what: an inductive strengthening of NoMissedWakeup,  *)
(* on top of RowsInv, for a writer that sends a record in one piece        *)
(* (DG.cc) and does not fail in the middle of it.                          *)
(***************************************************************************)
EXTENDS TMbfr_rows_inv

WholeWrites == ~Split /\ ~MsgReadErrors

\* do_write or run_write_queue is at work
Active == Busy \cup {"write", "hdr", "info"}

\* A TM/DCo read that saves up rows of the newest descriptor
Saving(r) ==
  /\ NodeOf[r] = "DCo" /\ ~blockedWriter /\ rd[r].part = 0
  /\ rd[r].dqd = dLast /\ RowsReady(r) < rd[r].max

\* do_write will not return before rows were committed or the writer blocks
Awaited == pc \in Active /\ ret = "write" /\ (AfterHeader \/ wr.state = "DATA")

Waits(r) ==
  rd[r].blocked =>
    /\ dgOpened < 2
    /\ Deliverable(r) => Saving(r) \/ Awaited

Armed(r) == rd[r].armed => dgOpened < 2 /\ ~Deliverable(r)

\* The readers that run_read_queue has yet to look at
Unserved ==
  IF newRows THEN Readers ELSE IF pc \in {"readq", "read"} THEN todo ELSE {}

\* The notifications run_read_queue has yet to trigger
Untriggered == newRows \/ pc = "readq" \/ (pc = "read" /\ from = "queue")

ReadersInv ==
  /\ \A r \in Readers : rd[r].blocked => rd[r].open
  /\ pc = "read" => ~rd[rq].blocked
  /\ \A r \in Readers \ Unserved : Waits(r)
  /\ ~Untriggered => \A r \in Readers : Armed(r)

\* What run_read_queue is for: rows were committed, or a time stamp was queued
RowsNoted ==
  /\ left = 0
  /\ newRows => pc \in Active /\ ret = "write"
  /\ pc = "hdr" \/ (wr.state = "HDR" /\ ~AfterHeader /\ wr.nbmsg > 0) => ~newRows
  /\ pc = "info" \/ (wr.state = "INFO" /\ wr.nbmsg > 0) => ~newRows
  /\ pc = "evaldone" /\ wr.nbrec = 0 => newRows
  /\ ret = "queue" => blockedWriter /\ (pc = "eval" => wr.offq = 0)

WakeInv == ReadersInv /\ RowsNoted
=============================================================================
