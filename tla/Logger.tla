-------------------------------- MODULE Logger --------------------------------
(***************************************************************************)
(* From the telemetry buffer to the files of a log and back: the logger,   *)
(* src/lgr/lgr.cc, writes the records it reads from TM/DCo to files of     *)
(* limited size, and the reader, the input side of src/rdr/rdr.cc, reads   *)
(* the files when the experiment is over.  TMbfr answers each read of the  *)
(* logger with one whole record (see TMbfr), which is what is taken here.  *)
(*                                                                         *)
(* The logger may die at any point of what it does, having written part of *)
(* a record, or made a directory and not the file; it is then started      *)
(* again with -N and what mlf_find finds, and TMbfr sends it an INIT.      *)
(***************************************************************************)
EXTENDS MultiFile, DataClient, SequencesExt

CONSTANTS
  FileLimit,          \* file_limit
  Labels,             \* number of values of mfc_t
  RecSizes, Skips,    \* rows of a record; minor frames missing before one
  Selections,         \* the reader's -F and -L
  Junk,               \* what n_rows may be before it has been read
  MaxRecs, MaxCrashes

ASSUME LoggerAssumption ==
  /\ FileLimit \in Nat /\ Labels \in Nat \ {0} /\ MaxRecs \in Nat /\ MaxCrashes \in Nat
  /\ RecSizes \subseteq Nat \ {0} /\ Skips \subseteq Nat /\ Junk \subseteq Nat
  /\ Selections \subseteq [first : Nat, last : Nat]

VARIABLES
  tm,      \* TMbfr: next label, current time stamp, number of records sent
  lgr,     \* the logger: whether it runs, its file, nb_out, t_stmp, mlf
  disk,    \* directories, and the words of each file
  rows,    \* history: label and stamp of each row the logger was given,
           \* and whether it lived to log it
  crashes,
  rdr,     \* the reader: its state, options, mlf, offset, data_client, t_stmp
  got      \* the rows it has read

vars == <<tm, lgr, disk, rows, crashes, rdr, got>>

Init ==
  /\ tm = [mfc |-> Labels - 2, ts |-> 1, recs |-> 0]
  /\ lgr = [up |-> FALSE, open |-> FALSE, nb_out |-> 0, ts |-> 0,
            mlf |-> mlf_set_index(1)]
  /\ disk = [dirs |-> {}, files |-> <<>>]
  /\ rows = <<>> /\ got = <<>> /\ crashes = 0
  /\ rdr = [at |-> "off"]

-----------------------------------------------------------------------------
(* What the logger does to the disk: a list of single changes, so that it  *)
(* can stop after any of them.  s is the logger with that list, s.out.     *)

Done(dsk, out) ==
  LET Change(d, o) ==
        CASE o.do = "mkdir" -> [d EXCEPT !.dirs = @ \cup {o.dir}]
          [] o.do = "open"  -> [d EXCEPT !.files =
                 [p \in DOMAIN @ \cup {o.path} |-> IF p = o.path THEN <<>> ELSE @[p]]]
          [] o.do = "write" -> [d EXCEPT !.files[o.path] = Append(@, o.word)]
  IN FoldLeft(Change, dsk, out)

Path(s) == s.mlf.ix

lgr_write(s, words) ==
  [s EXCEPT !.out = @ \o [i \in DOMAIN words |->
                            [do |-> "write", path |-> Path(s), word |-> words[i]]],
            !.nb_out = @ + Len(words)]

write_tstamp(s) == lgr_write(s, TsRecord(s.ts))

\* mlf_next_file makes the directories it has moved to
OpenNext(s) ==
  LET m == Next_file(s.mlf)
      moved == {i \in 0..Deepest - 1 : \E j \in 0..i : m.ix[j] # s.mlf.ix[j]}
      dirs == [k \in 1..Deepest |-> k - 1]
  IN [s EXCEPT !.mlf = m, !.open = TRUE, !.nb_out = 0,
               !.out = @ \o [k \in 1..Len(SelectSeq(dirs, LAMBDA i : i \in moved)) |->
                               LET i == SelectSeq(dirs, LAMBDA l : l \in moved)[k]
                               IN [do |-> "mkdir", dir |-> [j \in 0..i |-> m.ix[j]]]]
                         \o <<[do |-> "open", path |-> m.ix]>>]

NextLogFile(s) == write_tstamp(OpenNext(s))   \* DClgr::next_file

process_tstamp(s, ts) ==
  LET t == [s EXCEPT !.ts = ts] IN
  IF ~s.open \/ s.nb_out + HdrUnits + TsUnits + DataHdr + RowUnits > FileLimit
  THEN NextLogFile(t)
  ELSE write_tstamp(t)

\* The rows that fit in the file; one at least in a file that is empty
RowsFit(s) ==
  LET fit == (FileLimit - s.nb_out - DataHdr) \div RowUnits IN
  IF fit < 1 /\ s.nb_out = HdrUnits + TsUnits THEN 1 ELSE fit

DataRecord(n, mfc, id) ==
  LET words[i \in 0..n] == IF i = 0 THEN <<>> ELSE words[i - 1] \o RowWords(id + i - 1)
  IN Header("DATA") \o <<Word("n", n, 0), Word("mfc", mfc, 0)>> \o words[n]

\* The label of what is left of a record
Advance_Not(mfc, n) == mfc
Advance(mfc, n) == (mfc + n) % Labels

RECURSIVE process_data_t3(_, _, _, _)
process_data_t3(s, n, mfc, id) ==
  IF n = 0 THEN s
  ELSE IF ~s.open \/ RowsFit(s) < 1 THEN process_data_t3(NextLogFile(s), n, mfc, id)
  ELSE LET k == IF RowsFit(s) > n THEN n ELSE RowsFit(s)
           t == lgr_write(s, DataRecord(k, mfc, id))
       IN process_data_t3(IF n > k THEN NextLogFile(t) ELSE t,
                          n - k, Advance(mfc, k), id + k)

-----------------------------------------------------------------------------
(* The logger's steps. *)

Undone == lgr @@ [out |-> <<>>]
WithoutOut(s) == [f \in DOMAIN lgr |-> s[f]]

\* It does all of s.out, or dies on the way
Does(s) == lgr' = WithoutOut(s) /\ disk' = Done(disk, s.out) /\ UNCHANGED crashes

Dies(s) ==
  /\ crashes < MaxCrashes /\ crashes' = crashes + 1
  /\ \E k \in 0..Len(s.out) - 1 : disk' = Done(disk, SubSeq(s.out, 1, k))
  /\ lgr' = [lgr EXCEPT !.up = FALSE, !.open = FALSE, !.nb_out = 0]

\* mlf_find: the last file of the last directory, as far as there is one
LastOf(S) == CHOOSE i \in S : \A j \in S : j <= i
Find ==
  LET Under(at, i) == \* the entries of level i in the directory that at names
        LET paths == IF i = Deepest THEN DOMAIN disk.files ELSE {d \in disk.dirs : DOMAIN d = 0..i}
        IN {p[i] : p \in {q \in paths : \A j \in 0..i - 1 : q[j] = at[j]}}
      found[i \in 0..NLevels] ==
        IF i = 0 THEN [j \in Levels |-> -1]
        ELSE LET at == found[i - 1] IN
             IF (i > 1 /\ at[i - 2] < 0) \/ Under(at, i - 1) = {} THEN at
             ELSE [at EXCEPT ![i - 1] = LastOf(Under(at, i - 1))]
  IN found[NLevels]

\* lgr is started, and gets the INIT record with the current time stamp
Start ==
  /\ ~lgr.up /\ rdr.at = "off"
  /\ lgr' = [lgr EXCEPT !.up = TRUE, !.ts = tm.ts, !.mlf = mlf_set_ixs(Find, TRUE)]
  /\ UNCHANGED <<tm, disk, rows, crashes, rdr, got>>

Sends == lgr.up /\ tm.recs < MaxRecs

Tstamp ==
  /\ Sends
  /\ tm' = [tm EXCEPT !.ts = @ + 1, !.recs = @ + 1]
  /\ LET s == process_tstamp(Undone, tm.ts + 1) IN Does(s) \/ Dies(s)
  /\ UNCHANGED <<rows, rdr, got>>

Data ==
  /\ Sends
  /\ \E n \in RecSizes, skip \in Skips :
       LET mfc == (tm.mfc + skip) % Labels
           s == process_data_t3(Undone, n, mfc, Len(rows) + 1)
           Given(lived) == rows' = rows \o [i \in 1..n |->
                [mfc |-> (mfc + i - 1) % Labels, ts |-> tm.ts, logged |-> lived]]
       IN /\ (Does(s) /\ Given(TRUE)) \/ (Dies(s) /\ Given(FALSE))
          /\ tm' = [tm EXCEPT !.mfc = (mfc + n) % Labels, !.recs = @ + 1]
  /\ UNCHANGED <<rdr, got>>

\* The buffer is at its end: process_eof
Quit ==
  /\ lgr.up /\ lgr' = [lgr EXCEPT !.up = FALSE]
  /\ rdr' = [at |-> "ready"]
  /\ UNCHANGED <<tm, disk, rows, crashes, got>>

-----------------------------------------------------------------------------
(* The reader. *)

\* Its constructor; have_tstamp is not set
RdrStart ==
  /\ rdr.at = "ready"
  /\ \E sel \in Selections, have \in BOOLEAN :
       rdr' = [at |-> "reading", first |-> sel.first, last |-> sel.last, fd |-> FALSE,
               mlf |-> mlf_set_index(sel.first), off |-> 0,
               dc |-> NewClient, ts |-> 0, have |-> have]
  /\ UNCHANGED <<tm, lgr, disk, rows, crashes, got>>

\* process_tstamp and process_data, without the queue they feed (see Playback)
Handle(r, m) ==
  IF m.k = "TSTAMP"
  THEN IF m.ts = r.ts THEN r ELSE [r EXCEPT !.ts = m.ts, !.have = TRUE]
  ELSE IF ~r.have THEN r
  ELSE [r EXCEPT !.new = @ \o [i \in DOMAIN m.rows |->
          [id |-> m.rows[i], mfc |-> (m.mfc + i - 1) % Labels, ts |-> r.ts]]]

RdrRead ==
  /\ rdr.at = "reading" /\ rdr.fd /\ rdr.off < Len(disk.files[rdr.mlf.ix])
  /\ \E junk \in Junk :
       LET file == disk.files[rdr.mlf.ix]
           to == LET want == rdr.off + BufSize - Len(rdr.dc.buf)
                 IN IF want > Len(file) THEN Len(file) ELSE want
           d == Received(rdr.dc, SubSeq(file, rdr.off + 1, to), junk)
           r == FoldLeft(Handle, [rdr EXCEPT !.off = to] @@ [new |-> <<>>], d.msgs)
       IN /\ rdr' = [f \in DOMAIN rdr |->
               CASE f = "dc" -> [d EXCEPT !.msgs = <<>>]
                 [] f = "at" -> IF d.dead THEN "dead" ELSE "reading"
                 [] OTHER -> r[f]]
          /\ got' = got \o r.new
  /\ UNCHANGED <<tm, lgr, disk, rows, crashes>>

\* process_eof: the next file, or the end
More(r) == r.mlf.index < r.last

RdrEof ==
  /\ rdr.at = "reading"
  /\ rdr.fd => rdr.off = Len(disk.files[rdr.mlf.ix])
  /\ LET m == Next_file(rdr.mlf)
         opened == More(rdr) /\ m.ix \in DOMAIN disk.files
     IN rdr' = [rdr EXCEPT !.dc = AtEof(@), !.off = 0, !.fd = opened,
                           !.mlf = IF More(rdr) THEN m ELSE @,
                           !.at = IF opened THEN @ ELSE "end"]
  /\ UNCHANGED <<tm, lgr, disk, rows, crashes, got>>

Next == Start \/ Tstamp \/ Data \/ Quit \/ RdrStart \/ RdrRead \/ RdrEof

Spec == Init /\ [][Next]_vars

-----------------------------------------------------------------------------
\* What is played back is what happened: the rows come in the order they were
\* given to the logger, none twice, each with its minor frame counter and
\* under the time stamp that was in force, whatever file it was moved to,
\* where reading starts and wherever the logger died.
ReplayIsRight ==
  /\ \A i \in DOMAIN got :
       /\ got[i].id \in DOMAIN rows
       /\ got[i].mfc = rows[got[i].id].mfc /\ got[i].ts = rows[got[i].id].ts
  /\ \A i, j \in DOMAIN got : i < j => got[i].id < got[j].id

\* The number of a file, counted from 1
FileNumber(p) == 1 + Value(p, NLevels)

\* Nothing is lost: no file is overwritten, no record is left in a buffer, and
\* the reader gets every row of the files it was told to read but those the
\* logger was writing when it died.  The reader itself dies only of a file
\* such a logger has left.
NothingLost ==
  /\ \A id \in DOMAIN rows : rows[id].logged =>
       \E p \in DOMAIN disk.files : \E i \in DOMAIN disk.files[p] :
         /\ disk.files[p][i].w = "row" /\ disk.files[p][i].v = id
         /\ rdr.at = "end" /\ FileNumber(p) \in rdr.first..rdr.last
              => \E j \in DOMAIN got : got[j].id = id
  /\ rdr.at = "dead" => crashes > 0
==============================================================================
