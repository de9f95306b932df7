----------------------------- MODULE TMbfr_inv -----------------------------
(***************************************************************************)
(* An inductive invariant of TMbfr that implies TypeOK, RefCounts and      *)
(* RowsAccounted.  The counts of the writer's ocb only stay natural        *)
(* numbers, and last in the ring, because of how nbdata, nb_rec, off_queue *)
(* and the room behind last hang together at each point of the handler.    *)
(***************************************************************************)
EXTENDS TMbfr

Waiting == {"idle", "readq", "writeq", "read", "done"}
Evaluating == {"eval", "alloc", "expire", "place"}

\* A writer without room has nothing half placed: whole rows are to come
WholeRows == \E m \in 0 .. wr.nbrec : wr.nbrec = Units(m)
Settled == wr.offq = 0 /\ dLast > 0 /\ WholeRows

\* The block being filled fits behind last, and whole rows follow it
BlockFits ==
  wr.state = "DATA" =>
    /\ wr.nbdata <= wr.nbrec
    /\ \E m \in 0 .. wr.nbrec : wr.nbrec - wr.nbdata = Units(m)
    /\ \E b \in 0 .. TotalQrows - last :
         wr.nbdata + wr.offq = Units(b) /\ (b > 0 => ~full)

EvalInv ==
  /\ pc \in Waiting \cup {"write", "evaldone"} /\ wr.nbdata = 0 => Settled
  /\ pc \in Evaluating =>
       /\ wr.nbdata = 0 /\ dLast > 0 /\ WholeRows
       /\ wr.state # "DATA" => wr.offq = 0
  /\ pc \in {"alloc", "expire", "place"} => wr.offq = 0 /\ wr.nbrec > 0
  /\ pc \in {"expire", "place"} =>
       /\ nfree + nreq <= RowsLeft
       /\ last + nfree <= TotalQrows
       /\ nfree > 0 => ~full
  /\ full => first = last

PcInv ==
  /\ pc = "evaldone" => dLast > 0
  /\ pc \in {"hdr", "info"} => wr.nbdata = 0 /\ wr.state # "DATA"
  /\ wr.state = "DATA" => dLast > 0
  /\ pc \in {"hdr", "write"} \/ left > 0 => (hdr.kind = "DATA" => dLast > 0)
  /\ pc \in {"write", "hdr", "info"} => ~blockedWriter
  /\ pc \in Evaluating \cup {"evaldone"} /\ ret = "write" => ~blockedWriter
  /\ blockedWriter /\ pc # "evaldone" => wr.nbdata = 0

\* Each descriptor starts where its predecessor ends
ChainInv ==
  /\ dLast = 0 => dFirst = 1
  /\ dLast > 0 => dFirst <= dLast
  /\ \A d \in dFirst .. dLast - 1 : dqd[d + 1].pos = dqd[d].pos + Rows(d)

\* A closed ocb is attached to nothing; only open ones are served
ReaderInv ==
  /\ pc = "read" => rq \in Readers /\ rd[rq].open /\ (from = "io" => todo = {})
  /\ pc \notin {"read", "readq"} => todo = {}
  /\ \A r \in todo : rd[r].open
  /\ \A r \in Readers : rd[r].dqd = 0 => rd[r].missing = 0
  /\ \A r \in Readers : ~rd[r].open => rd[r].dqd = 0

IInv ==
  /\ TypeOK
  /\ EvalInv
  /\ PcInv
  /\ BlockFits
  /\ ChainInv
  /\ ReaderInv
  /\ RefCounts
  /\ RowsAccounted
=============================================================================
