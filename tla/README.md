# A TLA+ verification of arp-das

arp-das is the data acquisition software of an airborne research group: programs
generated by its compilers collect telemetry, a resource manager (TMbfr) buffers
it for any number of clients, command servers distribute commands, drivers talk
to instruments, and logged telemetry can be played back. The programs are
single-threaded QNX servers and event loops that exchange messages, and in one
case (rdr) three threads; what is hard about them is who waits for whom and
whether counts that are kept in several places agree.

This directory models the path of the telemetry (collector, buffer, logger,
playback), the command server, the run time of the algorithms, and three drivers
that queue requests, one of them over the event loop of Selector. Sections: 1 inventory, 2 modules, 3 the telemetry buffer,
4 the other models, 5 runs and properties, 6 proofs, 7 what the code does not
do, 8 what is not modelled.

## 1. Inventory

| part | state it keeps | operations | interacts with |
|---|---|---|---|
| **TMbfr** (`TMbfr/resmgr`) | ring of rows (`Data_Queue`), chain of descriptors (`DQD_Queue`) and time stamps, one ocb per open, `blocked_writer`, blocked readers | open, write, read, notify, close on TM/DG, TM/DCf, TM/DCo | the generator writes, clients read |
| **data_queue, data_generator** (`tmpplib/src/DQ.cc`, `DG.cc`) | ring and a list of row and time stamp records, `started`, `regulated`, row period | allocate, commit and retire rows; start, stop, step, faster, slower, quit; transmit | TMbfr (write), commands, timer |
| **collector, timer** (`DGcol.cc`, `DG_tmr.cc`, `tmc/colmain.skel`) | timer, row and minor frame counters, time stamp | commit a row on each pulse | data_generator, DG/data |
| **rdr** (`rdr/rdr.cc`) | `it_blocked`, `ot_blocked`, two semaphores, current file | input, output and control thread | data_generator, log files |
| **DG dispatch** (`DG_Resmgr.cc`, `DG_data.cc`, `DG_cmd.cc`) | list of clients, one blocked writer per data node, quit flag | synchronized write, synch, stale count, quit | collection programs |
| **data_client** (`DC.cc`) | `dc_state`, `bytes_read`, `toread` | read, resynchronize, process a record | TMbfr, lgr, displays |
| **lgr** (`lgr.cc`, `nortlib2/src/mlf.c`) | output file and bytes in it | log rows, next file | data_client |
| **command server** (`cis.cc`, `cis.c`) | per node: list of commands with `ref_count`, blocked readers | write a command, turf output, read, notify, quit | command clients (`cic.c`) |
| **subbusd, CAN back end** | request queue, `req_no`, `request_pending`, `request_processing` | enqueue, send packets, reply, time out | subbus clients, CAN bus |
| **tma** (`tmaR2.c`, `tma.c`) | per partition: commands, `next_cmd`, `waiting`, `basetime`; `tma_is_holding` | process, hold, resume, succeed | generated algorithms, command server |
| **idx64** | per channel: queue of commands, position, scan and status bits; `request`, `scans` | drive, scan, stop, set positions; interrupt, telemetry pulse | command server, motors, telemetry |
| **Selector, SerSelector, Timeout**, with **mksflow** | children with flags and fds, `gflags`, an input buffer; queries queued, polled, pending | event loop; identify, poll, time out, command | flow controllers, collector, operator |
| subbusd core, cache and other back ends | register cache, one request | read, write, ack | subbus library |
| memo, nortlib2, tmlib helpers | a file; none | write; format | everything |
| tmc, tmcalgo, cmdgen, oui, cycle, table | a compilation | translate | build time only |
| displays, plots, drivers of single boards, scripts | widgets; registers | draw; port I/O | people; hardware |

What makes the parts correct, and what is hard about them:

- **TMbfr.** Many readers, each at its own pace, share one ring with one writer.
  Rows are labelled only by their place in a descriptor, descriptors and time
  stamps are counted references, a full ring and an empty one differ by a flag,
  data arrives in pieces, and two wait queues run each other. A reader must get
  consecutive rows with the right frame number, know what it missed, and be
  woken when there is something to get; a blocking writer must lose nothing and
  be woken when there is room.
- **data_queue, data_generator, rdr.** A ring between threads, with part of it
  read without the lock; semaphores posted only when a flag says that the other
  thread sleeps. Rows must leave in order and once; no thread may sleep for ever
  while the other has work for it; quit must end all three.
- **collector, DG dispatch.** The label and the stamp of a row must give its time
  and its place in the frame across the roll-over of a 16-bit counter. A
  synchronized write is answered at the next synch; quit waits for clients that
  may be blocked in one.
- **data_client, lgr.** Framing must recover from what a dead logger left, and must
  never take the middle of a record for a header while in step. Every row is in
  one file, in order, under its own counter and stamp.
- **command server.** Every reader gets every command once and in order; a command
  is freed when, and only when, nobody can still read it.
- **subbusd/CAN.** Every request is completed exactly once, with its own answer,
  though answers may come after the time-out.
- **tma.** Held time does not count, a hold ends once, and what one partition does
  to another is seen in the same second.
- **idx64.** A running motor is left alone, every queue is worked off, and
  telemetry shows a scan for as long as it lasts.
- **Selector, mksflow.** One query at a time on a line whose answers carry no name: a
  late answer must not be taken for that of the next query for ever. No query object may
  be lost or be in two queues, and polling must go on whatever the line does.

`PROJECT.json` lists each part with its sources and status, and under `hazards`
the places where these things can go wrong.

## 2. Modules

| module | models | extends or composes |
|---|---|---|
| `TMbfr` | the telemetry buffer | |
| `TMbfr_inv`, `TMbfr_rows_inv`, `TMbfr_wake_inv` | its inductive invariants: of references and accounts, of what is in the ring, of who waits and for what | `TMbfr`; each extends the one before |
| `TMbfr_proofs` | proofs: types, references, accounts, what readers still have to get; the ring's order, labels, stamps, replies, assertions; nobody waits for what is there | `TMbfr_wake_inv`, `Lemmas` |
| `Lemmas` | `%` with a modulus that is a parameter, least elements, induction over a set and over a fold, parts of sequences, flattening; the operator folded is its constant, which an instance names | |
| `DataQueue` | `data_queue`: the ring and its records, as operators | |
| `Playback` | rdr's three threads over `data_generator` and the queue | `DataQueue`; refines `RowFifo` |
| `RowFifo` | what a `data_generator` promises of its queue | |
| `Playback_proofs` | proofs: the semaphores, the assertions of the ring, types, the refinement of `RowFifo` | `Playback`, `Lemmas` |
| `Collector` | generated collection program, dispatch loop, DG/data | |
| `Collector_proofs` | proofs: types, labels, time stamps | `Collector`, `Lemmas` |
| `MultiFile`, `DataClient` | numbered files; framing of a byte stream | |
| `Logger` | lgr, its disk, its crashes, and the reading back by rdr's input side | `MultiFile`, `DataClient` |
| `CommandServer` | cis and its clients | |
| `CommandServer_proofs` | proofs: reference counts, who waits, what readers get | `CommandServer`, `Lemmas` |
| `SubbusCAN` | CAN back end of subbusd with its clients, the boards and the timer | refines `SubbusService` |
| `SubbusCAN_proofs` | proofs: who waits, the request under way, the refinement of `SubbusService` | `SubbusCAN`, `Lemmas` |
| `SubbusService` | what a subbus driver promises its clients | |
| `Algorithms` | tma and the main loop tmcalgo generates | |
| `Algorithms_proofs` | proofs: times of commands and time-outs, nothing due is left | `Algorithms`, `Lemmas` |
| `Indexer` | idx64 | |
| `MksFlow` | mksflow over Selector, SerSelector and Timeout | |
| `MksFlow_proofs` | proofs: each query is in one place, its timer runs while it is out | `MksFlow`, `Lemmas` |

`MC*.tla` are the instances for TLC, one per system; `MC<system>_<run>.cfg`
is one run. No module that is proved about reaches a `RECURSIVE` operator.

How they meet: what `Collector` and `Playback` write (a time stamp, then records of
rows whose labels go on or jump) is what the writer of `TMbfr` sends; what `TMbfr`
answers to TM/DCo (one whole record per read, `RepliesConsecutive`) is what
`Logger` takes; what `Logger` leaves on the disk (each file begins with a time
stamp, which may repeat) is what `Playback` assumes of `Log`.

Next in the plan: an abstract stream that `TMbfr` implements (a sequence of rows,
readers that consume or lose a prefix), and the proofs that section 6 names as left.

## 3. The model of the telemetry buffer

### State

| `TMbfr.tla` | `TMbfr.c` |
|---|---|
| `first`, `last`, `full`, `row` | `Data_Queue`; a row is its frame number, not wrapped |
| `dFirst..dLast`, `dqd` | the list `DQD_Queue.first .. last`; `[ref, start, n, expired, ts, mfctr]` are `ref_count`, `starting_Qrow`, `n_Qrows`, `Qrows_expired`, `TSq`, `MFCtr`. Descriptors are numbered as they are made; a freed one leaves the domain |
| `tsq`, `nts` | the `TS_queue_t`s that are allocated, with `ref_count` |
| `dgOpened`, `blockedWriter` | `dg_opened` (0, 1, 2), `blocked_writer` |
| `wr` | the writer's ocb: `state`, `part.nbdata`, `rw.write.nb_msg`, `nb_rec`, `off_queue`, and `pending`: its write has not been answered |
| `hdr`, `left`, `nrec` | the record the writer sends, the units it has not yet written, records so far |
| `rd` | each reader's ocb: `dqd`, `n` (`data.n_Qrows`), `missing` (`rows_missing`), `blocked`, `part` (`part.nbdata`), `q` (`nbytes`), `max` (`maxQrows`), and `armed`: a notification is set |
| `reply` | the last reply to a reader |
| `pc`, `ret`, `newRows`, `nreq`, `nfree`, `todo`, `rq`, `from`, `nonblk` | where the handler is and its locals |

`pos` of a descriptor and `got` of a reader are history variables for the
properties; no guard reads them.

### Steps

The server handles one message at a time (`use_threads` is 0 in `main`), so a
request is taken only when `pc = "idle"`. A request runs through the same loops
as the code, one action per turn: `IoWrite`, `MsgReadChunk` (one `MsgRead`),
`InitHeader`/`TstampHeader`/`DataHeader`/`BadHeader` (the switch of `do_write`),
`ProcessTmInfo`, `CommitRows`, `AllocateQrows`, `ExpireRows` (one turn of the
expiry loop), `PlaceRows` (`data_state_T1`/`T3` with `allocate_qrows`),
`EvalReturn`, `DoWriteReply`/`DoWriteBlock`, `RunReadQueue` (one reader),
`RunWriteQueue`, and `read_reply` as the seven disjuncts of `ReadReply`. These
call each other only as their last act, so the model needs no stack: `ret` says
whether the evaluation belongs to `do_write` or to `run_write_queue`, `from`
whether a `read_reply` belongs to `io_read` or to `run_read_queue`. Closing a
client is `CloseWriter` or `CloseReader`; `Shutdown` is the end of `main`'s loop.

The environment: the writer sends INIT, then TSTAMP and DATA records whose frame
numbers increase and may skip, as `data_generator::transmit_data` does, one
record per write, or (`Split`) any pieces of one; readers open, read any of
`ReadSizes` blocking or not, ask to be notified, and close.

### Abstractions

- **Bytes are units of the excess**, the part of a data record that is read with
  the fixed-size header `tm_hdrs_t` (two bytes for type 3 data, four for type 1).
  The block is two units, a data header one, a row `RowUnits`: 1 is a row that
  fits in the excess, 2 any longer one. That is all the control depends on. An INIT
  record is three units; its size matters only in that it exceeds the block.
- `queue_tstamp` also stores the stamp; stamps are told apart by number only.
- The order in which `run_read_queue` visits readers is left open (the code uses
  the order of the list, which depends on who opened last).
- `rows_missing` is not reported by the code to anyone; it is kept because the
  code keeps it.
- A write after a failed one starts with a new record: the client's next message
  is not the rest of the old one.
- The `dqd->n_Qrows` test of `dq_expire_check` is `HeadAfter`: the chosen head is
  the first descriptor that is not garbage, or the last.

Not modelled: type 2 data (`data_state_T2` only reports that it is not implemented), a
second INIT record in one stream, memory exhaustion, the statistics, `setup_rundir`.

## 4. The other models

### Playback (`DataQueue`, `Playback`, `RowFifo`)

`DataQueue` has the ring (`first`, `last`, `full`, `row`) and the list of records
(`recs`, `first_dqr` first); `AllocateRows`, `CommitRows`, `RetireRows` and so on
are the methods of `DQ.cc`, and `CommitAsserts`/`RetireAsserts` what they assert.
`MFCtr` and `mfrow` are one label that wraps.

`Playback` has a program counter for each thread. Every critical section but one is
a few assignments and is one step, taken when the mutex is free; the one
that blocks, `writev` to TM/DG, is the state `pcO = "writev"`. What is done without
the lock is a step of its own: the copy of rows into the ring (`Fill`), the
output thread's look at the first record (`Look`, `LookNext`), its
`allocate_rows` and the comparison after it (`TimedRoom`, `TimedWake`).

| `Playback.tla` | code |
|---|---|
| `ReadLog`, `EndOfFile`, `ProcessTstamp`, `ProcessData`, `FindRoom`, `Fill`, `Commit`, `WaitAtEof`, `InputWoken`, `InputDone` | the input thread: `data_client::read`, `Reader::process_*` |
| `Top`, `OutputWoken`, `TimedRoom`, `TimedWake`, `UntimedLoop` | `Reader::output_thread` |
| `Look`, `LookNext`, `LockOutput`, `Written`, `Retire` | `data_generator::transmit_data` |
| `Command`, `TimerPulse`, `QuitPulse`, `CloseCmd` | the dispatch loop takes a message |
| `Execute` (one disjunct per command), `Quit` | the locked part of `data_generator::execute` |
| `Event` | `Reader::event`, `Reader::service_row_timer` |
| `Join` | `Reader::control_loop` |
| `Tick` | the interval timer of `DG_tmr` |

`RowFifo` is the abstract queue: items are accepted in the order of the source, at
most `Capacity` rows wait, they are transmitted in order, once and unaltered, and
dropped only when the output is closed. `FifoSpec` says that `Playback` implements
it; what waits (`Waiting`) is read out of the ring through the records, less the
rows that were written and are not yet retired. `Skip` is what quit makes of the
input: `process_data` returns in the middle of a message (`rdr.cc:339`), and
`process_message` goes on with the rest of the buffer (`DC.cc:173`), so a time stamp
may be queued after rows that were passed over. Nothing of it is sent, since TM/DG was
closed before any thread hears of quit; only then may `RowFifo` skip.

### Collector

One action per message of the dispatch loop (`Command`, `CloseCmd`, `TimerPulse`,
the clients' `Open`, `Close`, `BlockingWrite`, `AnsweredWrite`, `Arm`), since the program
has one thread; the row is written before the handler returns, so the queue
between them is always empty. `CollectRow` is
`tmc_collector::service_row_timer`; `RolledOver` and `Advanced` are how it moves the
stamp; `ROLLOVER_MFC` and `LCMMN` are what `postproc.c` computes from the frame.
`due` (when the next row is due) and `row` (the last row, when it was
due) are history. Time is counted in units that divide both the second and the
period of a row, and wraps with `TimeValues`, as `time_t` does.

### Command server

Messages of an interface are numbered in the order of its list; `head` and `last`
are `first_cmd` and `last_cmd`, `last` the empty message to be written next. An
`ocb` has the reader's `next` message, its offset `off`, and `want`, the length it
asked for while it is blocked. `ReadReply` is `read_reply`, `Turfed` is
`cmdif_rd::Turf`, which answers everyone who waits; `Leave` is the test of
`ci_server` after a close. `got` (the bytes a reader got) and `start` are history.
A client that is blocked in a read does nothing else, as `cis.cc:65` says; no
client opens anything once it knows that the server quits.

### Subbus driver, CAN back end

A handler is one action (`Ask`, `DataReady`, `TimerPulse`) on a record of the
driver's memory; its operators are the methods: `NextPart` is
`incoming_sbreq`/`process_mread`, `EnqueueRequest`, `ProcessRequests` with
`SendFrames`, `RequestComplete`, `ProtocolInput` (frame by frame),
`ProtocolTimeout`, `IssueInit`. A request is a sequence of parts, each with the
number of frames it takes to send and to answer, and whether the answer fits the
number of words the multi-read has announced (`fits`; if not, the client gets an
error, `subbusd_CAN.cc:163`). Two parts stand for what is not well formed: `Syntax`, which
is answered with an error, and `Stray`, a character the switch of `process_mread` has no
case for, at which nothing is queued and nobody answered. `BadWrites` says which of the
frames a handler writes may fail to be written; the result of writing the init string is
ignored by the code. `tag` is the true request a
frame (an error frame too) belongs to, while `id` is what the frame carries: the code
sees only `id`. Boards answer late, in part, with an error or not at all; frames are
lost or corrupted; the adapter may ignore the init string; a timer
pulse may be one that was queued before the timer was set again.

`SubbusService` is what a client relies on: one reply per request, an error or one
value per part, which is that part's own or a zero. `ServiceSpec` says that
`SubbusCAN` implements it. A value that came from the answer to another request
would be `"foreign"`, which `SubbusService` does not allow.

### Logger

`lgr` is the logger, `disk` its directories and files as sequences of words
of two bytes, `rdr` the reader. What one record makes the logger do is a list of
single changes of the disk (make a directory, open, write a word): `Does` applies
all of them, `Dies` a proper prefix. `Start` is a new logger that goes on from what
`mlf_find` finds. `process_tstamp`, `process_data_t3`, `NextLogFile` are the
methods of `DClgr`; `Received`, `process_message`, `seek_tmid` (module
`DataClient`) those of `data_client`, which the reader runs; `mlf_set_index`,
`mlf_set_ixs`, `next_file` (module `MultiFile`) those of `mlf.c`. Bytes beyond
`bytes_read` are what was there before: `Junk`. `rows` is history.

### Algorithms

`Program` is any table of states: the commands tmcalgo generates for each, with the
second at which they are due. `Second` starts one round of the main loop, the
actions of `Process` are the turns of the loop of `tma_process`, one command
each, and `EndOfSecond` is its end, where the clocks of held partitions are set
back. Between rounds the condition of a hold may be met (`ConditionMet`), a TMC
statement may validate a state (`DataValidates`), the operator may stop the clocks
(`tma_hold`). `run`, `held`, `since`, `sent` are history.

### Indexer

A channel's state is its queue of `ixcmd`s with their flags, its bits in `request`
and `scans`, its status in telemetry, and the motor: position, direction, steps
left, limit, pending interrupt. `execute_cmd`, `drive_chan` (`FirstDrive`,
`HystDrive`), `service_board`, `service_scan`, `StopChannel` are the functions of the
same or a like name. `Runs` is the board, one step at a time or into a limit switch.
`ended`, the command completed last, is history.

### mksflow over Selector

`drv` is `MKS_Ser` with the queues, the pending query, the timer and the input buffer;
`loop` is the event loop: where it is, which children the last `select()` found
ready, the flag. `FlagPass`, `Select`, `Timeouts` are the parts of one turn of
`Selector::event_loop`, and `ServeSer`, `ServeCmd`, `ServeTM` one child each, in the
order in which `main` adds them. A handler is one action on `drv`; its operators are
the methods (`ProcessRequests`, `EnqueueRequest`, `FreePending`, `ProtocolInput`,
`ProtocolTimeout`, `TmSync`, `ProcessData`). `Request` is `new_query`, its set-up and
`enqueue_request` for a list of requests; `Callback` what `main.cc` does with an
answer. A query is known by its drive and request; which `MKS_Query` object carries
it is left out, but objects are counted (`made`, `free`).

The boards answer in two parts (`Answer`), wrongly or not at all (`Lose`), or after
the 100 ms (`Expire` while an answer is owed). Frames are far apart against 100 ms:
`FrameSlots` queries fit between two, and on a line that is idle what is still under
way arrives before the next frame (`Frame`).

## 5. Runs and properties

| run | instance | states | properties |
|---|---|---|---|
| collect | `TMbfr`, 3 slots, rows of 2 units, non-blocking writer, records in any pieces, bad headers, failing MsgReads, a DCf and a DCo reader, 3 records | 583 000 | `RowsAreLabelled`, `RefCounts`, `RowsAccounted`, `RepliesConsecutive`, `AssertionsHold`, `EofMeansDrained` |
| replay | `TMbfr`, 2 slots, blocking writer, a DCf and a DCo reader that read on, 3 records | 108 000 | `NoMissedWakeup`, `AnsweredMeansStored`, `UnreadRowsKept`, `WriteCompletes`, `StreamEnds` |
| play | `Playback`, 2 slots, two files, every command, with and without the timer, `-a` and `-q` | 98 000 | `AssertionsHold`, `PostsMatchWaits`, `FifoSpec`, `PlaysToTheEnd`, `QuitEndsInput` |
| rows | `Collector`, 3 rows to the major frame, 2 in 3 seconds, counter of 16 values, 2 clients | 42 000 | `RowTimes`, `PhaseKept`, `Answered`, `QuitEnds` |
| commands | `CommandServer`, 2 interfaces, 2 readers, 1 writer | 10 000 | `RefCounts`, `WaitsAtTheEnd`, `ReadsInOrder`, `Delivered`, `ServerEnds` |
| bus | `SubbusCAN`, 2 clients, all faults | 243 000 | `WaitingAreQueued`, `PendingIsFront`, `ServiceSpec`, `Answered` |
| log | `Logger`, files of a stamp and 3 rows, 2 to a directory, one crash | 160 000 | `ReplayIsRight`, `NothingLost` |
| states | `Algorithms`, two partitions that act on each other, 14 seconds | 483 000 | `TimesKept`, `CaughtUp` |
| motors | `Indexer`, two channels of a board, one with hysteresis and a scan bit | 74 000 | `Arrives`, `ScanSeen`, `DrivesWhenStopped`, `Drained` |
| flow | `MksFlow`, two flow controllers, one command, one answer lost, wrong or late | 350 000 | `QueriesServed`, `Polled`, `Resynchronised` |
| quit_hang | `Playback`, regulated, quit | violation | `QuitShutsDown` |
| status | `SubbusCAN`, a multi-read of two boards | violation | `AckMeansAllAcked` |

Each property is stated in words before its definition; in short:

- **TMbfr.** `RowsAreLabelled`: each held row belongs to one descriptor (the ring is
  tiled: `first`, `last` and `full` agree), is the frame its label says, modulo the
  width of `mfc_t`, and has a time stamp that is still there. `RefCounts`,
  `RowsAccounted`: references are exact, a reader was given or has counted as
  missing every row. `RepliesConsecutive`, `EofMeansDrained`: what a reply may
  contain. `AssertionsHold`: the code's `assert`s where they stand. `NoMissedWakeup`:
  when the server waits, no blocked reader has something to get (with the
  exception `read_reply` makes for TM/DCo), no notification is overdue.
  `AnsweredMeansStored`, `UnreadRowsKept`: what a blocking writer is promised.
- **Playback.** `FifoSpec`, the refinement; `PostsMatchWaits`: a semaphore is posted
  once for each wait; `AssertionsHold` although the ring is read unlocked;
  `PlaysToTheEnd`, `QuitEndsInput`: progress.
- **Collector.** `RowTimes`, `PhaseKept`: label and stamp tell a row's time and place
  across roll-overs; `Answered`, `QuitEnds`.
- **Command server.** `ReadsInOrder`, `RefCounts`, `WaitsAtTheEnd`; `Delivered`,
  `ServerEnds`.
- **SubbusCAN.** `ServiceSpec`, the refinement; `WaitingAreQueued`, `PendingIsFront`:
  a client is in the queue once while it waits, and a reply is charged to the
  client that caused it; `Answered`, with its three exceptions stated. The first and the
  last leave out the client of a multi-read that the code forgets (section 7).
- **Logger.** `ReplayIsRight`, `NothingLost`: what is read back is what was given to
  the logger, over file ends, crashes and any selection of files.
- **Algorithms.** `TimesKept`, `CaughtUp`: commands and time-outs keep their state's
  time; nothing that is due is left when the second ends.
- **Indexer.** `Arrives`, `ScanSeen`, `DrivesWhenStopped`, `Drained`.
- **mksflow.** `QueriesServed`: the pending query has a timer that runs and that the loop
  waits for, and every query object is in exactly one place; `Polled`: a board that is
  there is identified and polled for ever; `Resynchronised`: after an answer that came
  late, answers and queries fall into step again.

### Bounds

- **TMbfr.** `MaxRecs` (3 records, the INIT first) and the sets of sizes. Two or
  three slots with records of two rows make the ring wrap, fill exactly, and
  overflow; records in pieces put every wait inside a record. `Skips` and `TSTAMP` make chains of up to four descriptors; with `MfcMod`
  4 the frame counter wraps. Two readers are needed for one to be overtaken or to
  free what the other holds; a third adds no relation, as every test in the code is
  about one reader, the minimum over all, or the list as a whole. A read of 5
  units takes two rows, 4 takes one with a unit to spare, 2 is less than a row.
- **Playback.** A record longer than the ring; the stamp repeated at the head of the
  second file and a jump of the counter, so that rows of two labels meet in the queue; a
  stamp behind rows, which quit may pass over (without `Skip` in `RowFifo` TLC finds
  `FifoSpec` violated here); `MaxCommands` 1
  besides the command of `-a` and the quit of `-q`, `MaxPulses` 1 since a timer
  pulse that finds one queued changes nothing that a later one does not. `LowWater`
  equal to the ring is the hardest case for the wake-up of the input thread.
- **Collector.** 16 values of the counter with `LCMMN` 6 give a roll-over to 4,
  so not to 0, and a stamp that is renewed twice
  between two roll-overs; the clock wraps after 36 seconds, so every
  combination of counter, place and clock comes up. `MaxCommands` 2 restarts
  collection at another place.
- **Command server.** Messages of 2 bytes read by 1 or 2, two of them and the
  end of file: a reader may be ahead, behind, in the middle, blocked, or gone.
- **SubbusCAN.** `ReqIds` is the code's 64. One request of up to two parts
  (`MaxParts`) for each client is enough for two requests to be queued behind one under way, and
  for a multi-read to be continued behind another client; `MaxLine` 2
  frames received before the driver reads them makes a late answer and the right
  one arrive together. There is a request of each form: a word, a long one of two boards,
  one ill formed and one stray after its first part, one too long. `BadWrites` {0, 1, 2}:
  of the frames a handler writes none, the first or the second fails, which with requests of
  up to two frames is either frame of one request or the first of the next.
- **Logger.** Three records of 1 or 4 rows over files of 3 rows: a record that spans
  files, one that ends a file exactly, one that carries into the next directory.
  The reader's buffer holds one file, so that a record can end at its end.
- **Algorithms.** The two states of partition 1 and `B` of partition 2 use
  each form of command in both directions; `Brief`, which only TMC validates, holds
  twice in its first second, one second long the first time; 14 seconds are longer
  than the algorithm with every hold timed out; four events between seconds.
- **Indexer.** `MaxCommands` 2 for both channels together: a drive under a drive, a
  drive under a scan, a scan under a scan, a stop or a setting under each. One drive
  inwards ends below the hysteresis, so that it overshoots past 0.
- **mksflow.** Two drives, one of them an MFC with two more queries and one more
  reading; one fault at any of the queries, of the identification, the retry or the
  polling: lost, late, a NAK or ill formed in its tail, ill formed in its head (`saw_error`
  acts on that before the tail has come); `FrameSlots` 14 is what identification needs, so frames may come before it
  is over. With three slots, fewer than there are readings, section 7 applies.

### Fairness and deadlock

- **TMbfr** (`replay`): `WF(Handler)`, since nothing in a handler waits; `SF` of
  each reader's open and read: a request stays with the kernel until the server
  takes it, however often it is busy when looked at. `CloseReader` and `Shutdown` are
  left out, since a client that leaves has no claim to data. Nothing is assumed of
  the writer.
- **Playback**: the three threads are scheduled, the interval timer ticks, and the
  client that wrote a command closes DG/cmd.
- **Collector**: the timer ticks, its pulses are handled, clients that are not
  waiting for an answer close in the end.
- **Command server**: clients read on, close at the end of file, and writers close
  once the server quits, which is how `ci_server` is meant to end.
- **SubbusCAN**: the one loop handles the adapter's and the timer's pulses, and a
  timer that is set fires. Nothing is assumed of adapter or boards.
- **Indexer**: motors that are driven run, interrupts are delivered, telemetry goes
  on.
- **mksflow**: the loop goes on whenever something is ready (`LoopBusy`, which is
  `ENABLED Loop` spelled out), boards that are there answer, timers that run expire,
  the collector asks for frames. Nothing is assumed of faults or of the operator.

Deadlock is checked in `collect`. The other systems stop by design:
when the program has ended, when the bounded clients have asked all they may, or
when a server waits for requests; each .cfg says which. Who may be kept
waiting is what their properties say.

## 6. Proofs

`TMbfr_proofs.tla` proves for every value of the constants that
`TMbfrAssumption` admits (any number of readers, any ring, either data type,
blocking or not, any records, pieces and failures):

- `TypeCorrect`: `Spec => []TypeOK`
- `ReferencesCounted`: `Spec => []RefCounts`
- `NothingLostInSilence`: `Spec => []RowsAccounted`

all from `Invariance`: `Spec => []IInv`, where `IInv` (`TMbfr_inv.tla`) is
inductive. The three are not inductive by themselves. That `last` stays in the
ring and `nbdata`, `nb_rec` do not become negative needs `EvalInv`, `PcInv` and
`BlockFits`: at each point of the handler, how what is to be read, what has been
read and the room behind `last` hang together, always in whole rows. That a
reader's account carries over to the next descriptor needs `ChainInv` (each
descriptor starts where its predecessor ends). That a reference count which drops
to zero has no ocb behind it needs `RefCounts` together with `ReaderInv` (a closed
ocb is attached to nothing, only open ones are served).

The proof has one lemma per action, and splits `IInv` into the writer's part, the
queue's part and the server's part, so that an action which leaves a part alone
says so once. `FreeBeforeInv`, `ReadersKept` and `DerefInv` carry the freeing of
descriptors, `AppendInv` the making of them, `MakingRoom` the expiry of rows.
`IInv` was checked by TLC on the instances above before it was proved.

For the same constants it adds:

- `NothingUnreadOverwritten`: `Spec => UnreadRowsKept`. Only `ExpireRows` expires
  anything (`OthersExpireNothing`), and for a blocking writer at most up to what
  `min_reader()` returns, which no reader of the descriptor is behind
  (`MinReaderBounds`).
- `EndIsTheEnd`: `Spec => []EofMeansDrained`. An end of file is only in `reply` from
  `EnqueueRead` of a reader that has nothing left, and nothing changes for it before
  the next reply replaces it.

The second half of `TMbfr_proofs.tla` proves what is in the ring:

- `RingPartitioned`: `Spec => []RingTiled`
- `StampsCounted`: `Spec => []TsRefs`
- `RowsLabelled`: `Spec => []RowsAreLabelled`
- `FramesConsecutive`: `Spec => []RepliesConsecutive`
- `WritesStored`: `Spec => []AnsweredMeansStored` (when `MsgRead` does not fail)
- `NoAssertFails`: `Spec => []AssertionsHold`

`StampsCounted` needs nothing more. The others assume `Labelling`: type 3 data, and
rows of two units or a writer that does not block. The rest is the case of
section 7, in which a record of one short row is answered though there was no room
for it and the next record takes its place; with type 1 `full` is never set
and the ring's order is lost. Under `Labelling` the size of the ring, of records and
requests, the number of readers, the pieces and the wrap of `mfc_t` remain
arbitrary.

None of these is inductive either. `RowsInv` (`TMbfr_rows_inv.tla`) has seven parts:
`StreamInv` ties what the client has yet to send (`left`, `nbmsg`) to what the ocb
expects, so that a header is never read out of step with a record; `RoomFound` says
that a writer that does not block always gets room; `RingInv` places each
descriptor's rows in the ring by their position in the stream and bounds those
being received by the room left; `TsInv` counts the time stamps; `LabelInv` gives the
frame of each row held, of those that have arrived behind `last`, and says that the
last label goes on with the record being received; `NewestInv` follows the last row
of a record until the next header is expected; `LimitInv` keeps `maxQrows` of a blocked
read. Slots are remainders modulo a parameter, about which the provers know nothing:
`Lemmas.tla` proves the few facts needed from the quotient. The lemmas
`StreamStep`, `RingStep`, `StampsStep`, `LabelStep`, `NewestStep`, `LimitStep` and
`RepliesStep` carry one part each over every action; `RingStays` and `RowsStay`
put them together.

The last part of `TMbfr_proofs.tla` proves that `run_read_queue` forgets nobody:

- `NobodyForgotten`: `Spec => []NoMissedWakeup`, under `Labelling` and `WholeWrites`

`WholeWrites` says that the writer sends a record at a time, as `DG.cc` does, and that no
`MsgRead` fails. Both are needed. When records are split, a read of TM/DCo that saves up rows
may be left at a descriptor that is no longer the newest until the rest of the
record arrives (TLC shows it on `replay` with `Split` TRUE); for failures see section 7. At
rest the property is about the readers alone; between two steps a reader may well be blocked
before rows that are there, provided somebody is going to look at it. `WakeInv`
(`TMbfr_wake_inv.tla`) says who: `Unserved` are the readers `run_read_queue` has
yet to reach, all of them once `do_write` has set `newRows`; `Untriggered` is the same for
notifications; `Awaited` covers the rows that appear before `newRows` is set, in the
middle of `do_write`, which will not return before it has set it or the writer blocks; and
`Saving` is the read of a whole record that the newest descriptor does not fill yet. `RowsNoted`
says that `newRows` is only true while `do_write` runs, so that none of the excuses is left
when it ends. It matters that `run_write_queue` comes after the readers: it goes on with
a blocked writer and may begin a descriptor, which nobody looks at any more. It gives
nobody anything, since while the writer is blocked no read may save up rows, and
a descriptor without rows under the old time stamp is nothing to read.

`Playback_proofs.tla` proves, for every log, ring, set of options and commands,
and any number of timer pulses:

- `WakeupsMatch`: `Spec => []PostsMatchWaits`
- `RingAssertionsHold`: `Spec => []AssertionsHold`
- `TypesRight`: `Spec => []TypeOK`

`PostsMatchWaits` is not inductive. The strengthening (`Handshake`) adds that each
flag is "no" or the wait it announces, that what the control thread has yet to handle
are commands, and that it has one at hand while it handles it. No
action but those of the owner sets a flag, and `WakeInput`/`WakeOutput` clear it and
post in one step, under the lock: the lemmas `WakeInputKeeps` and `WakeOutputKeeps` say
that this moves the wait from the flag to the semaphore. `InputStepKeeps`,
`OutputStepKeeps` and `ControlStepKeeps` take the actions of one thread each, and
`HandshakeStep` combines them.

The assertions speak of `first`, `last` and one record; why they hold lies in all the
records between. `QInv` says so: there are offsets `off` such that the i-th record's rows
begin `off[i]` slots behind `first`, each record begins where its predecessor ends, the
last ends at `last`, and the ring is full exactly when they end a whole turn on (`Ring`).
`CommitKeeps`, `StampKeeps`, `DropKeeps` and `ShrinkKeeps` give the offsets after each
change of the list. What was read without the lock stays true because the other thread
can only help: retiring rows moves the end of the occupied slots away from the room that
was given (`Room`), committing adds rows to the first record or none (`HeadKeeps`).

- `FifoKept`: `Spec => FifoSpec`

This is the refinement: `Playback` implements `RowFifo`, step by step. The inductive
invariant (`FInv`) is `QInv` and `Handshake` with three parts more. `LogRight` says where in
the log the input thread is: `Place` messages were taken, the items accepted so far are
those that `LogItems` has after as many steps (`LogSteps`), less the rows of the last
message that are left, and these are the next in the log (`Carries`); rows that were
copied and not committed stand in the ring behind `last`. `OutRight` says that a
record's next label is the one after its last row's (`NextsRight`), without which a
record that grows would give its new rows wrong labels, and that what is written is at
least one row of the first record, or its stamp. `OpenRight` says that TM/DG is closed
before quit reaches any thread. What waits is a flattened list of records:
`HeldAppend`, `PieceGrows` and `RetireRowsHeld` say what a record more, a record that grows and
rows that are retired make of it, and `FreeSlots` that a copy into the room does
not touch a slot that is occupied. The log is flattened and folded at once; `Places`
finds a message of a file in the whole log, and `StepsPrefix` shows that what is accepted
is a prefix of `LogItems`. The proof also found what the instance of TLC lacked at first: a
stamp behind rows that are passed over (`Skip`, section 4).

`Collector_proofs.tla` proves of the collector that tmc generates:

- `TypesRight`: `Frames => (Spec => []TypeOK)`
- `PhaseRight`: `Frames => (Spec => []PhaseKept)`
- `TimesRight`: `Spec => [](TypeOK /\ RowsTimed)` if also `NROWMINF = 1` or
  `ROLLOVER_MFC # 0`
- `RowTimesRight`: `Spec => []RowTimes` if also `NROWMINF = 1`

`Frames` says that the least common multiple of the frame's periods fits below the
roll-over: `LCMMN <= TS_MFC_LIMIT + 1 < Mfcs + 1`, in the code 32768 against 65536. tmc
does not check it; for a frame that does not satisfy it, `ROLLOVER_MFC` is outside the
counter's range and the labels are wrong, so it is a condition on experiments. The
inductive invariant (`PhaseInv`, `TimeInv`) speaks of the counters between two rows:
`Labels` places them in the major frame by the minor frame that comes (`Coming`, which
is `Mfcs` when the counter has rolled over but its stamp is not renewed), `Stamps` says
that the stamp, so many minor frames on, gives the time the next row is due. It has to
hold while nothing is being collected too, if a queued pulse may restart the collector
(`Collecting`). `RowsTimed` is what `RowTimes` becomes with several rows to the minor
frame: it excepts the rows after the first of the last minor frame, which go out under
the stamp of the roll-over (section 7).

`SubbusCAN_proofs.tla` and `CommandServer_proofs.tla` are about handlers that fold
an operator over a buffer or a queue: `protocol_input` over the frames of a read,
`cmdif_rd::Turf` over the blocked readers. The induction theorems of the library take an
operator as a parameter and cannot be used, but a set can be one: `FoldInduction`
(`Lemmas.tla`) says that if each element `q[k]` takes the states of `V[k - 1]` to
states of `V[k]`, the fold ends in `V[Len(q)]`. The operator folded is a constant of the
module; a proof takes an instance for its handler.

- `WaitingQueued`: `Spec => []WaitingAreQueued`
- `PendingFront`: `Spec => []PendingIsFront`

for any clients, requests, boards, failing writes and bounds; the clients that wait but are
not in the queue are those whose multi-read came to a stray character, and the proof shows
that nothing else takes one out unanswered. The inductive invariant (`SInv`) is
stated of the handler's state between any two frames: the queue is that of the clients
that wait, the request under way is at its front and sent (`SentInv`), and a client whose
reply is being written is out of the queue already, which is `QueueInv(s, e)` with `e`
that client. Frames may be anything: no hypothesis on the bus is needed.

- `ServiceKept`: `Spec /\ []InTime => ServiceSpec`

This is the refinement: `SubbusCAN` implements `SubbusService`, step by step. It needs
`InTime`, since request numbers are taken modulo `ReqIds` (64 in the code): an answer that is
read when 64 requests have been sent since its own carries the number of a later one, and
is taken for the answer to that. TLC shows the violation with `ReqIds` 2, none with it
when the steps out of time are left out; with 64 every step of `bus` is in time. The
inductive invariant (`RInv`) adds to `SInv` what the clients are going to be told: those
that wait have values of their own or zeros only, one for each part that is done
(`Serving`); the frames that came for the request under way are its own, and those on
the bus or in the line carry numbers of requests that were sent (`ServeInv`, `LineInv`).
A step of the service gives one reply, so the proof has to show that a read gives
no more, however many frames it holds and whatever the timer does after it: the set
the fold goes through is `Before`, in which nothing has been said, and `After`, in which one
request was completed. No frame completes another: the next request was sent just
now, and an answer in time has no number but that of its own request (`Matches`).

- `RefCountsRight`: `Spec => []RefCounts`
- `WaitsRight`: `Spec => []WaitsAtTheEnd`
- `ReadsRight`: `Spec => []ReadsInOrder`

for any interfaces, readers, lengths and sizes of reads. The inductive invariant
(`CInv`) is a predicate on one interface and its readers (`InterfaceInv`), since a handler
works on one; `Untouched` says that another interface does not notice. The three
need each other: the head of the list is freed only when its count is 0, which
says that no reader is there only if the counts are right (`RefCounts`); the answers
of `Turf` are a fold over the blocked readers, each of which must be at the message
that was just filled (`WaitsAtTheEnd`); and a reader with part of a message read is
never at an empty one (`ServerInv`), or the message that fills it would be read from its
middle. `Answered` is the state after `k` of the answers: those readers that have been
answered wait no longer, the others are untouched. What has been read is a
flattened sequence of messages; `FlattenLast` proves what one message more does to it,
`BytesJoin` that pieces make up a whole.

`Algorithms_proofs.tla` proves, for any number of partitions and any program whose
commands come in the order of their times (`Commands`: tmcalgo and `tma_read_file` refuse
any other):

- `TimesRight`: `Spec => []TimesKept`
- `UpToDate`: `Spec => []CaughtUp`

Both follow from one inductive invariant (`IInv`), which says of each partition what
is true of it wherever `tma_process` is. `Common`: what is left of a time-out counts from
`lastcheck`, and a partition that waits is at a hold. `During`: while a second is
processed the next command is not overdue, unless the state is in its first second (it is
what makes `waiting` positive when it is computed from a late `lastcheck`), the clock of
a hold has not been set back before the time of the hold, and the state has run for what
its clock shows, give or take the first second (`Slack`). `Settled`: what `tma_process`
has passed over has nothing due; this is the part that `Resume` and `Validate` would break,
and why they call it again. `Done` is what `SetBack` and `GoesOn` make of `Settled` at the
end of the second. The invariant was checked by TLC first; it failed for a hold of
one second in the first second of a state, which is a flaw of the code (section 7), and
`CaughtUp` names that hold (`NeverTimesOut`) instead of leaving it out of the programs.

`MksFlow_proofs.tla` proves, for any drives, controllers on each, polls and answers of the
line:

- `QueriesRight`: `Spec => []QueriesServed`

The queries are objects that are handed from one queue to the next. `QueriesServed` says
between two events that each is in one place; within a handler it is not, since
`new_query` has taken an object from the free list that `enqueue_request` has not put in a
queue yet. The inductive invariant says how many are on the way (`Kept(q, n)`), and
that the pending query is the one the timer was started for (`Watch`). A
request for several objects, and one for several drives, are folds: `FoldInvariant`
carries `Kept` over them.

**Only model-checked.** Liveness and fairness are out of the prover's reach, and so are
the properties of `Logger` and `Indexer`, which declare `RECURSIVE` operators.

## 7. What the code does not do

Two runs show that the code does not do what it says; `findings` in `PROJECT.json`
has the quotations.

- `quit_hang`: a quit that arrives while rdr's output thread transmits a row finds
  `ot_blocked` clear and posts nothing; the thread then waits, with the timer
  stopped, without looking at `dc_quit`, and is never joined.
- `status`: a multi-read replies with the status of its last part only.

The passing properties are stated so that they hold, which leaves out these
cases, met while modelling. They are in the models unless marked (not modelled).

- **TMbfr.** Type 1 data never sets `full` (`TMbfr.c:743`), so the instances use
  type 3. An empty head descriptor that nobody refers to keeps a writer
  blocked (147); closing a reader wakes no writer (236): `replay` has readers that
  stay. A record of one row that arrives whole with its header is answered
  though there is no room (581, 814), and rows committed by `run_write_queue` itself
  wake nobody (109): both need rows of one unit and a blocking writer, so `replay`
  has rows of two. When a `MsgRead` fails in the middle of a message (492), the readers
  of the rows committed before it are not looked at.
- **rdr.** A stop in the same window as the quit above loses its wake-up too, and "}"
  and "+" while the output thread sleeps on the timed loop. `-q` drops the rows
  still queued. `have_tstamp` is not initialised. `-F k -L k` reads nothing
  (`rdr.cc:369`; the options' text says otherwise), so the selections of `Logger`
  span two files at least. A torn file can end rdr with "Record size exceeds": the
  length is computed from an `n_rows` that has not arrived (`DC.cc:197`).
- **Collector.** With two or more rows to the minor frame, the later rows of the
  last minor frame before the roll-over are sent under the stamp that
  belongs to the roll-over: `rows` has one row to the minor frame. When 65536 is a
  multiple of `LCMMN`, the roll-over repeats for each row of minor frame 0. A client
  that waits in a synchronized write at quit is never answered and the program
  does not end: `QuitEnds` exempts it (there is no unblock handler). A write that is
  refused with EBUSY has already replaced the datum. `DG_data` does not initialise `blocked`
  (`DG_data.cc:53-63`), which `synch` looks at (126): in the model it starts as none.
- **Command server.** Only one message is freed per read. A reader that opens after
  quit waits for ever: clients open nothing any more then. A command after quit
  would write through a freed attribute (`cis.cc:149`): writers write none.
- **SubbusCAN.** The answer to the init string clears the timer of a request that was
  sent before it (`subbusd_CAN_interface.cc:349`); after a failed write nothing is
  sent any more (100). The switch of `process_mread` (`subbusd_CAN.cc:233-340`) has no
  default: at an address followed by anything but `,` `:` `@` `|` or a newline, as in
  `M2#100 101`, it returns without queueing or answering, and the client waits for ever
  (`Forgotten`). These are the three exceptions of `Answered`, the last also that of
  `WaitingAreQueued`. A frame of the wrong id
  drops what follows it in the buffer (265). A timer pulse that was queued times out
  the next request early. An init string that is answered in part makes the driver
  spin (not modelled).
- **Algorithms.** A hold at the first second of a state stops its clock a second
  late (`Lead`). "hold or 1" there, when that second is over before the state is looked at
  (it was validated between two seconds, or a hold of the same second came first), is
  executed again every second and its else clause never reached: `waiting` is set to 0
  at the end of the second (`tmaR2.c:136`), before a time-out is looked for, though
  `tmcalgo/todo.R2` has the table advance when the count is reached (`NeverTimesOut`, in
  `Brief` of `states`). `tma_succeed` does not ask whether the hold waits.
- **mksflow.** Answers carry no name. When the queries of one frame take longer than
  the frame (`FrameSlots` below the number of readings), the line never falls idle and
  a late answer leaves every later one under the wrong query, for ever: TLC shows it
  on `flow` with one drive and `FrameSlots` 3. After a NAK the code looks for an ACK in
  the buffer it has just emptied. A lost answer of a FLOW query is not seen in the Stale
  register (its query uses bit 0; not modelled).
- **Indexer.** A scan inwards on a channel with hysteresis overshoots each step and
  the drive back is never made. A drive inwards to a destination below the hysteresis
  overshoots past 0, the unsigned comparison of the destination with the position
  (`idx64.c:405`) fails, and the drive back is not made either: `DT 0` from 10 with
  a hysteresis of 100 ends at 65436, though `idx64/todo` requires the hysteresis drive
  for every drive inwards that does not come to the limit. `Arrives` exempts both;
  `motors` makes both. A drive that a limit stopped
  still shows its line's status. A command with a character that is neither digit nor
  newline keeps the parser in a loop (not modelled).

## 8. Not modelled

- **Left out of modelled parts.** `TMbfr`: type 2 data, a second INIT record or one that
  fails the sanity checks (`TMbfr.c:868-882`), memory exhaustion, statistics. `Playback`: errors of `writev`, the `-k` option's
  renumbering, single rows of types T1 and T2. `Collector`: what an experiment
  puts into a row, devices that are not synchronized, `DG_data::stale`, `ts_check`
  (nothing calls it); `lcm` is exact, where `postproc.c:76-89` computes with shorts that
  can overflow for huge frames. `CommandServer`: the interpreter and its grammar, the
  version query, the log, an output that is too long for the buffer (`cis.cc:515-517`). `SubbusCAN`: words of a part one by one, the shutdown of the
  port, `SBC_QUIT`. `Logger`: the INIT record at the head of a file but for its
  size. `Algorithms`: `tma_read_file`, jumps of the telemetry's clock. `Indexer`: the
  parsing of commands and of the configuration, attaching interrupts. For these the
  components' status is "partly".
- **Selector.** EINTR and the error returns of `select()`, children that come and go
  (mksflow adds all before the loop). The other drivers over Selector (HCI, qcli,
  uDACS and so on) have the same loop under another protocol. Of mksflow: the ACK and
  Stale registers, writes of unknown parameters, check sums (which the code computes
  and ignores), VMIN and VTIME, the `-e` option for lines that echo the queries
  (`mks_ser.cc:125-126`).
- **cic, subbus client libraries.** One request, one reply, no state between: they are
  the clients of `CommandServer` and `SubbusCAN`.
- **Other subbus back ends, drivers of single boards, diagnostics.** A sequence of
  register accesses for each request; the boards' side is not in the repository.
- **Compilers and generators** (tmc, tmcalgo, cmdgen, oui, cycle, table). They
  translate a text in one pass, or search a placement, when an experiment is
  built, and interact with nothing; what they generate for the run time is modelled
  in `Collector` and `Algorithms`. They are the larger part of the source, which
  is why the share of lines modelled is small.
- **memo, displays, plots, scripts, packaging.** A file appended to; widgets; text.
