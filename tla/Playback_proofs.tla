-------------------------- MODULE Playback_proofs --------------------------
(***************************************************************************)
(* For every log, every ring and any number of commands and timer pulses:  *)
(* the handshake of rdr's three threads neither loses nor repeats a        *)
(* wake-up, the assertions of the data_queue that two of them share        *)
(* without the lock hold, and what is transmitted is what the log holds,   *)
(* once, in order and unaltered (the refinement of RowFifo).               *)
(***************************************************************************)
EXTENDS Playback, Lemmas, SequenceTheorems

Events == {"start", "stop", "fast", "row", "quit"}

Waits == {"wait_data", "wait_eof"}

\* What PostsMatchWaits needs to be inductive: the ranges of the flags and
\* semaphores, and that the control thread handles known events only.
Handshake ==
  /\ itSem \in Nat /\ itBlocked \in {"no", "data", "eof"}
  /\ otSem \in Nat /\ otBlocked \in {"no", "stopped", "time"}
  /\ todo \in Seq(Events)
  /\ pcC = "event" => todo # <<>>
  /\ PostsMatchWaits

\* The thread that clears a flag posts the semaphore: what the thread waits
\* for is moved from the one to the other.
LEMMA WakeInputKeeps ==
  ASSUME NEW S \in SUBSET {"data", "eof"}, WakeInput(S),
         itSem \in Nat, itBlocked \in {"no", "data", "eof"}
  PROVE  /\ itSem' \in Nat /\ itBlocked' \in {"no", "data", "eof"}
         /\ itSem' + (IF itBlocked' = "no" THEN 0 ELSE 1)
            = itSem + (IF itBlocked = "no" THEN 0 ELSE 1)
BY DEF WakeInput

\* The same, of the output thread.
LEMMA WakeOutputKeeps ==
  ASSUME NEW S \in SUBSET {"stopped", "time"}, WakeOutput(S),
         otSem \in Nat, otBlocked \in {"no", "stopped", "time"}
  PROVE  /\ otSem' \in Nat /\ otBlocked' \in {"no", "stopped", "time"}
         /\ otSem' + (IF otBlocked' = "no" THEN 0 ELSE 1)
            = otSem + (IF otBlocked = "no" THEN 0 ELSE 1)
BY DEF WakeOutput

\* No thread waits at first.
LEMMA HandshakeInit == Init => Handshake
BY DEF Init, Handshake, PostsMatchWaits, Events

\* Steps of the input thread
LEMMA InputStepKeeps == Handshake /\ InputStep => Handshake'
<1> SUFFICES ASSUME Handshake, InputStep PROVE Handshake'
  OBVIOUS
<1>1. UNCHANGED <<otSem, otBlocked, pcO, todo, pcC>>
  BY DEF InputStep, ReadLog, EndOfFile, WaitAtEof, InputWoken, InputDone, TakeMessage,
         ProcessTstamp, ProcessData, FindRoom, Fill, Commit, hsVars, outVars, ctlVars
<1>2. /\ itSem' \in Nat /\ itBlocked' \in {"no", "data", "eof"}
      /\ itSem' + (IF itBlocked' = "no" THEN 0 ELSE 1) = IF pcI' \in Waits THEN 1 ELSE 0
  <2> USE DEF Handshake, PostsMatchWaits, Waits
  <2>1. CASE ReadLog
    BY <2>1 DEF ReadLog, hsVars
  <2>2. CASE EndOfFile
    BY <2>2 DEF EndOfFile, hsVars
  <2>3. CASE WaitAtEof
    BY <2>3 DEF WaitAtEof
  <2>4. CASE InputWoken
    BY <2>4 DEF InputWoken
  <2>5. CASE InputDone
    BY <2>5 DEF InputDone, hsVars
  <2>6. CASE ProcessTstamp
    BY <2>6 DEF ProcessTstamp, TakeMessage, NextMessage, hsVars
  <2>7. CASE ProcessData
    BY <2>7 DEF ProcessData, TakeMessage, NextMessage, hsVars
  <2>8. CASE FindRoom
    BY <2>8 DEF FindRoom, NextMessage
  <2>9. CASE Fill
    BY <2>9 DEF Fill, hsVars
  <2>10. CASE Commit
    BY <2>10 DEF Commit, NextMessage, hsVars
  <2> QED
    BY <2>1, <2>2, <2>3, <2>4, <2>5, <2>6, <2>7, <2>8, <2>9, <2>10 DEF InputStep
<1> QED
  BY <1>1, <1>2 DEF Handshake, PostsMatchWaits, Waits

\* Steps of the output thread
LEMMA OutputStepKeeps == Handshake /\ OutputStep => Handshake'
<1> SUFFICES ASSUME Handshake, OutputStep PROVE Handshake'
  OBVIOUS
<1>1. UNCHANGED <<pcI, todo, pcC>>
  BY DEF OutputStep, Top, OutputWoken, TimedRoom, TimedWake, UntimedLoop, Look, LookNext,
         LockOutput, Written, Retire, outRest, inVars, ctlVars
<1> DEFINE Input == /\ itSem' \in Nat /\ itBlocked' \in {"no", "data", "eof"}
                    /\ itSem' + (IF itBlocked' = "no" THEN 0 ELSE 1)
                       = itSem + (IF itBlocked = "no" THEN 0 ELSE 1)
           Output == /\ otSem' \in Nat /\ otBlocked' \in {"no", "stopped", "time"}
                     /\ otSem' + (IF otBlocked' = "no" THEN 0 ELSE 1)
                        = IF pcO' \in {"wait_stopped", "wait_time"} THEN 1 ELSE 0
<1>2. Input /\ Output
  <2> USE DEF Handshake, PostsMatchWaits
  <2>1. CASE Top
    <3>1. WakeInput({"data"}) \/ UNCHANGED <<itBlocked, itSem>>
      BY <2>1 DEF Top, hsVars
    <3>2. Input
      BY <3>1, WakeInputKeeps
    <3>3. Output
      BY <2>1 DEF Top, hsVars
    <3> QED
      BY <3>2, <3>3
  <2>2. CASE OutputWoken
    BY <2>2 DEF OutputWoken
  <2>3. CASE TimedRoom
    BY <2>3 DEF TimedRoom, hsVars
  <2>4. CASE TimedWake
    <3>1. WakeInput({"data"}) \/ UNCHANGED <<itBlocked, itSem>>
      BY <2>4 DEF TimedWake
    <3>2. Input
      BY <3>1, WakeInputKeeps
    <3>3. Output
      BY <2>4 DEF TimedWake
    <3> QED
      BY <3>2, <3>3
  <2>5. CASE UntimedLoop
    <3>1. Input
      BY <2>5, WakeInputKeeps DEF UntimedLoop
    <3>2. Output
      BY <2>5 DEF UntimedLoop
    <3> QED
      BY <3>1, <3>2
  <2>6. CASE Look
    BY <2>6 DEF Look, Transmitted, hsVars
  <2>7. CASE LookNext
    BY <2>7 DEF LookNext, Transmitted, hsVars
  <2>8. CASE LockOutput
    BY <2>8 DEF LockOutput, hsVars
  <2>9. CASE Written
    BY <2>9 DEF Written, hsVars
  <2>10. CASE Retire
    BY <2>10 DEF Retire, hsVars
  <2> QED
    BY <2>1, <2>2, <2>3, <2>4, <2>5, <2>6, <2>7, <2>8, <2>9, <2>10 DEF OutputStep
<1> QED
  BY <1>1, <1>2 DEF Handshake, PostsMatchWaits

\* A command, other than quit, leaves these.
Played == {"start", "stop", "fast", "row"}

\* It leaves no others.
LEMMA CommandEvents ==
  ASSUME \/ Start \/ Stop \/ SingleStep \/ Play \/ Faster \/ Slower \/ FastForward
  PROVE  todo' \in Seq(Played)
<1> USE DEF Played
<1>1. /\ <<>> \in Seq(Played) /\ <<"start">> \in Seq(Played)
      /\ <<"stop">> \in Seq(Played) /\ <<"fast">> \in Seq(Played)
      /\ <<"row">> \in Seq(Played) /\ <<"start", "row">> \in Seq(Played)
  OBVIOUS
<1> HIDE DEF Played
<1>2. TmPlay => todo' \in Seq(Played)
  BY <1>1, Zenon DEF TmPlay
<1>3. CASE Start
  BY <1>1, <1>3, Zenon DEF Start
<1>4. CASE Stop
  BY <1>1, <1>4, Zenon DEF Stop
<1>5. CASE SingleStep
  BY <1>1, <1>5, Zenon DEF SingleStep
<1>6. CASE Play
  BY <1>2, <1>6, Zenon DEF Play
<1>7. CASE Faster
  BY <1>1, <1>2, <1>7, Zenon DEF Faster
<1>8. CASE Slower
  BY <1>1, <1>2, <1>8, Zenon DEF Slower
<1>9. CASE FastForward
  BY <1>1, <1>9, Zenon DEF FastForward
<1> QED
  BY <1>3, <1>4, <1>5, <1>6, <1>7, <1>8, <1>9

\* After an event the next one is handled only if there is one.
LEMMA ContinueEvents == Continue => (pcC' = "event" => todo' # <<>>)
BY DEF Continue, AfterMessage

\* Steps of the control thread, its environment and the timer
LEMMA ControlStepKeeps ==
  Handshake /\ (ControlStep \/ Command \/ CloseCmd \/ Tick) => Handshake'
<1> SUFFICES ASSUME Handshake, ControlStep \/ Command \/ CloseCmd \/ Tick
             PROVE  Handshake'
  OBVIOUS
<1>1. CASE Event
  <2> DEFINE e == Head(todo)
  <2>1. e \in Events /\ Tail(todo) \in Seq(Events)
    BY <1>1 DEF Event, Handshake
  <2>2. HandleEvent(e) /\ todo' = Tail(todo) /\ Continue /\ UNCHANGED <<pcI, pcO>>
    BY <1>1 DEF Event, ctlRest, inVars, outVars
  <2>3. \E S \in SUBSET {"stopped", "time"} : WakeOutput(S)
    <3>1. \/ WakeOutput({"stopped"}) \/ WakeOutput({"time"})
          \/ WakeOutput({"time", "stopped"})
      BY <2>1, <2>2, Zenon DEF HandleEvent, Events
    <3> QED
      BY <3>1
  <2>4. WakeInput({"data", "eof"}) \/ UNCHANGED <<itBlocked, itSem>>
    BY <2>2 DEF HandleEvent
  <2>5. /\ otSem' \in Nat /\ otBlocked' \in {"no", "stopped", "time"}
        /\ otSem' + (IF otBlocked' = "no" THEN 0 ELSE 1)
           = otSem + (IF otBlocked = "no" THEN 0 ELSE 1)
    BY <2>3, WakeOutputKeeps DEF Handshake
  <2>6. /\ itSem' \in Nat /\ itBlocked' \in {"no", "data", "eof"}
        /\ itSem' + (IF itBlocked' = "no" THEN 0 ELSE 1)
           = itSem + (IF itBlocked = "no" THEN 0 ELSE 1)
    BY <2>4, WakeInputKeeps DEF Handshake
  <2>7. pcC' = "event" => todo' # <<>>
    BY <2>2, ContinueEvents
  <2> QED
    BY <2>1, <2>2, <2>5, <2>6, <2>7 DEF Handshake, PostsMatchWaits
<1>2. CASE ~Event
  <2>1. UNCHANGED <<hsVars, pcI, pcO>>
    BY <1>2 DEF ControlStep, TimerPulse, QuitPulse, Execute, Quit, Join, Command,
                CloseCmd, Tick, ctlRest, inVars, outVars
  <2>2. todo' \in Seq(Events) /\ (pcC' = "event" => todo' # <<>>)
    <3> USE DEF Handshake, Events
    <3>1. CASE TimerPulse
      BY <3>1 DEF TimerPulse
    <3>2. CASE QuitPulse
      BY <3>2 DEF QuitPulse
    <3>3. CASE Execute
      <4>1. todo' \in Seq(Played)
        BY <3>3, CommandEvents DEF Execute
      <4>2. \A t \in Seq(Played) : t \in Seq(Events)
        BY DEF Played
      <4> QED
        BY <3>3, <4>1, <4>2, ContinueEvents DEF Execute
    <3>4. CASE Quit
      BY <3>4 DEF Quit
    <3>5. CASE Join
      BY <3>5 DEF Join
    <3>6. CASE Command
      BY <3>6 DEF Command
    <3>7. CASE CloseCmd
      BY <3>7 DEF CloseCmd, AfterMessage
    <3>8. CASE Tick
      BY <3>8 DEF Tick, ctlVars
    <3> QED
      BY <1>2, <3>1, <3>2, <3>3, <3>4, <3>5, <3>6, <3>7, <3>8 DEF ControlStep
  <2> QED
    BY <2>1, <2>2 DEF Handshake, PostsMatchWaits, hsVars
<1> QED
  BY <1>1, <1>2

\* Every step.
LEMMA HandshakeStep == Handshake /\ [Next]_vars => Handshake'
<1>1. Handshake /\ UNCHANGED vars => Handshake'
  BY DEF Handshake, PostsMatchWaits, vars, hsVars, inVars, outVars, ctlVars
<1> QED
  BY <1>1, InputStepKeeps, OutputStepKeeps, ControlStepKeeps DEF Next

\* No wake-up of the input or the output thread is lost and none is left
\* over, whatever the log, the ring, the options and the commands: rdr's
\* it_blocked/it_sem and ot_blocked/ot_sem (src/rdr/rdr.cc) always agree with
\* where the thread is.
THEOREM WakeupsMatch == Spec => []PostsMatchWaits
<1>1. Init => Handshake
  BY HandshakeInit
<1>2. Handshake /\ [Next]_vars => Handshake'
  BY HandshakeStep
<1>3. Handshake => PostsMatchWaits
  BY DEF Handshake
<1> QED
  BY <1>1, <1>2, <1>3, PTL DEF Spec

-----------------------------------------------------------------------------
(* The ring *)

Rec == DataRec \cup [type : {"ts"}, ts : Nat]

\* off[i] rows of the ring precede the i-th record's: the records describe
\* adjacent pieces of the ring, from the oldest row to the next free one.
Ring(off) ==
  /\ off \in [1..Len(recs) + 1 -> 0..Total] /\ off[1] = 0
  /\ \A i, j \in 1..Len(recs) + 1 : i <= j => off[i] <= off[j]
  /\ \A i \in 1..Len(recs) :
       IF recs[i].type = "data"
       THEN recs[i].Qrow = Slot(first, off[i]) /\ off[i + 1] = off[i] + recs[i].n
       ELSE off[i + 1] = off[i]
  /\ last = Slot(first, off[Len(recs) + 1])
  /\ full <=> off[Len(recs) + 1] = Total

\* The rows the input thread was given are still free.
Room(off) == pcI \in {"fill", "commit"} => off[Len(recs) + 1] + room <= Total

QueueTypes ==
  /\ first \in 0..Total - 1 /\ last \in 0..Total - 1 /\ full \in BOOLEAN
  /\ recs \in Seq(Rec)

RingRight == QueueTypes /\ \E off : Ring(off) /\ Room(off)

\* Where the input thread is in the log and in process_data, and where the
\* output thread is in transmit_data.
PlacesRight ==
  /\ {file, msg, chunk, lastTs, left, room, txN} \subseteq Nat
  /\ label \in 0..Labels - 1
  /\ pcI = "msg" =>
       file \in DOMAIN Log /\ chunk >= 1 /\ msg + chunk <= Len(Log[file])
  /\ pcI \in {"rows", "wait_data", "fill", "commit"} =>
       file \in DOMAIN Log /\ msg + chunk <= Len(Log[file]) /\ left >= 1
  /\ pcI \in {"fill", "commit"} => room \in 1..left /\ ~full /\ last + room <= Total
  /\ pcO = "next" => recs # <<>>
  /\ pcO \in {"lock", "writev", "retire"} =>
       recs # <<>> /\ (recs[1].type = "data" => txN <= recs[1].n)

QInv == RingRight /\ PlacesRight

\* Rows of the ring that are retired do not move the others.
LEMMA SlotShift ==
  ASSUME NEW f \in 0..Total - 1, NEW n \in 0..Total, NEW k \in n..Total
  PROVE  /\ Slot(f, k) \in 0..Total - 1 /\ Slot(f, n) \in 0..Total - 1
         /\ Slot(Slot(f, n), k - n) = Slot(f, k)
BY DataQueueAssumption DEF Slot

\* The next free row after n more, and when the ring is full then.
LEMMA SlotNext ==
  ASSUME NEW f \in 0..Total - 1, NEW l \in 0..Total - 1, NEW k \in Nat,
         NEW n \in Nat \ {0}, l = Slot(f, k), k + n <= Total, l + n <= Total
  PROVE  /\ (IF l + n = Total THEN 0 ELSE l + n) = Slot(f, k + n)
         /\ Slot(f, k + n) \in 0..Total - 1
         /\ Slot(f, k + n) = f <=> k + n = Total
         /\ k + n \in 0..Total /\ n \in 0..Total
BY DataQueueAssumption DEF Slot

\* A label is one of Labels.
LEMMA PlusRange ==
  ASSUME NEW l \in 0..Labels - 1, NEW n \in Nat
  PROVE  Plus(l, n) \in 0..Labels - 1
<1>1. Labels \in Nat \ {0} /\ l + n \in Nat
  BY DataQueueAssumption
<1> QED
  BY <1>1, ModRange DEF Plus

\* What the invariant says of the ring is what the assertions need.
LEMMA RingAsserts ==
  ASSUME QueueTypes, NEW off, Ring(off), recs # <<>>, recs[1].type = "data",
         NEW n \in Nat, n <= recs[1].n
  PROVE  /\ RetireAsserts(n)
         /\ 1 \in 1..Len(recs) /\ recs[1] \in DataRec
         /\ n \in 0..off[Len(recs) + 1] /\ off[2] = recs[1].n
<1>1. 1 \in 1..Len(recs) /\ 2 \in 1..Len(recs) + 1 /\ Len(recs) + 1 \in 1..Len(recs) + 1
  BY DEF QueueTypes
<1>2. recs[1] \in DataRec
  BY <1>1 DEF QueueTypes, Rec
<1>3. recs[1].Qrow = Slot(first, 0) /\ off[2] = recs[1].n
  <2>1. off[1] = 0 /\ off[1 + 1] = off[1] + recs[1].n /\ recs[1].Qrow = Slot(first, off[1])
    BY <1>1 DEF Ring
  <2> QED
    BY <1>2, <2>1 DEF DataRec
<1>4. PICK e \in 0..Total : e = off[Len(recs) + 1]
  BY <1>1 DEF Ring
<1>5. n <= e
  <2>1. 2 <= Len(recs) + 1 /\ off[2] <= off[Len(recs) + 1]
    BY <1>1 DEF Ring, QueueTypes
  <2>2. off[2] \in Nat
    BY <1>1 DEF Ring
  <2> QED
    BY <1>3, <1>4, <2>1, <2>2
<1>6. recs[1].Qrow = first
  BY <1>3, DataQueueAssumption DEF Slot, QueueTypes
<1>7. last = Slot(first, e)
  BY <1>4 DEF Ring
<1>8. /\ first < last => first + n <= last
      /\ first >= last /\ first + n >= Total => first + n - Total <= last
  BY <1>5, <1>7, DataQueueAssumption DEF QueueTypes, Slot
<1> QED
  BY <1>1, <1>2, <1>3, <1>4, <1>5, <1>6, <1>8 DEF RetireAsserts

\* Rows committed behind the last record, or as a record of their own: the
\* records still describe adjacent pieces, and the ring is full when they
\* reach the oldest row.
LEMMA CommitKeeps ==
  ASSUME QueueTypes, NEW off, Ring(off), NEW l \in 0..Labels - 1, NEW n \in Nat \ {0},
         ~full, last + n <= Total, off[Len(recs) + 1] + n <= Total, CommitRows(l, n)
  PROVE  QueueTypes' /\ \E o : Ring(o)'
<1>0. PICK L \in Nat : L = Len(recs)
  BY DEF QueueTypes
<1>1. L = Len(recs) /\ L \in Nat /\ L + 1 \in 1..L + 1
  BY <1>0
<1>2. PICK e \in 0..Total : e = off[L + 1]
  BY <1>1 DEF Ring
<1>3. e + n \in 0..Total /\ e + n >= 1 /\ ~full /\ last = Slot(first, e)
  <2>1. e + n <= Total
    BY <1>1, <1>2
  <2>2. e + n \in 0..Total /\ e + n >= 1
    BY <2>1, DataQueueAssumption
  <2>3. last = Slot(first, e)
    BY <1>1, <1>2 DEF Ring
  <2> QED
    BY <2>2, <2>3
<1>4. /\ first' = first /\ last' \in 0..Total - 1 /\ last' = Slot(first, e + n)
      /\ full' \in BOOLEAN /\ (full' <=> e + n = Total)
  <2>1. first' = first /\ last' = NextFree(n) /\ (full' <=> (full \/ last' = first))
    BY DEF CommitRows
  <2>0. first \in 0..Total - 1 /\ last \in 0..Total - 1 /\ e \in Nat /\ e + n <= Total
    BY <1>3 DEF QueueTypes
  <2>5. /\ NextFree(n) = Slot(first, e + n) /\ Slot(first, e + n) \in 0..Total - 1
        /\ Slot(first, e + n) = first <=> e + n = Total
    BY <2>0, <1>3, SlotNext DEF NextFree
  <2>2. NextFree(n) \in 0..Total - 1 /\ NextFree(n) = Slot(first, e + n)
    BY <2>5
  <2>3. Slot(first, e + n) = first <=> e + n = Total
    BY <2>5
  <2>4. full' \in BOOLEAN
    BY DEF CommitRows
  <2> QED
    BY <1>3, <2>1, <2>2, <2>3, <2>4
<1>5. Plus(l, n) \in 0..Labels - 1 /\ last \in 0..Total - 1 /\ n \in 0..Total
  BY PlusRange, <1>2, DataQueueAssumption DEF QueueTypes
<1>6. \A i \in 1..L + 1 : off[i] \in 0..e
  BY <1>1, <1>2 DEF Ring
<1>7. CASE ExtendsLast(l)
  <2>0. PICK o : o = [i \in 1..L + 1 |-> IF i = L + 1 THEN e + n ELSE off[i]]
    OBVIOUS
  <2>1. L >= 1 /\ recs[L] \in DataRec /\ recs[L].type = "data"
    <3>1. recs # <<>> /\ recs[L].type = "data" /\ recs \in Seq(Rec)
      BY <1>1, <1>7 DEF ExtendsLast, LastRec, QueueTypes
    <3>2. L >= 1
      BY <1>1, <3>1
    <3>3. recs[L] \in Rec
      BY <1>1, <3>1, <3>2
    <3> QED
      BY <3>1, <3>2, <3>3 DEF Rec
  <2>2. PICK d \in DataRec : d = recs[L]
    BY <2>1
  <2>3. d.n + n \in 0..Total /\ off[L] \in 0..e /\ e = off[L] + d.n
        /\ d.Qrow = Slot(first, off[L])
    <3>1. L \in 1..L /\ L \in 1..L + 1
      BY <1>1, <2>1
    <3>2. off[L + 1] = off[L] + recs[L].n /\ recs[L].Qrow = Slot(first, off[L])
      BY <1>1, <2>1, <3>1 DEF Ring
    <3>3. d.n \in 0..Total
      BY DEF DataRec
    <3>4. off[L] \in 0..e
      BY <1>6, <3>1
    <3>5. e = off[L] + d.n /\ d.Qrow = Slot(first, off[L])
      BY <1>2, <2>2, <3>2
    <3>6. d.n + n \in 0..Total
      <4>0. PICK x \in 0..e : x = off[L]
        BY <3>4
      <4>1. PICK m \in 0..Total : m = d.n
        BY <3>3
      <4>2. e = x + m
        BY <3>5, <4>0, <4>1
      <4>3. m + n \in 0..Total
        BY <1>3, <4>2, DataQueueAssumption
      <4> QED
        BY <4>1, <4>3
    <3> QED
      BY <3>4, <3>5, <3>6
  <2> DEFINE d1 == [type |-> "data", start |-> d.start, next |-> Plus(d.next, n),
                    Qrow |-> d.Qrow, n |-> d.n + n]
  <2>4. d1 \in DataRec
    <3>1. d.next \in 0..Labels - 1 /\ d.start \in 0..Labels - 1 /\ d.Qrow \in 0..Total - 1
      BY DEF DataRec
    <3>2. Plus(d.next, n) \in 0..Labels - 1
      BY <3>1, PlusRange
    <3> QED
      BY <2>3, <3>1, <3>2 DEF DataRec
  <2>5. recs' = [recs EXCEPT ![L] = d1]
    <3>1. recs' = [recs EXCEPT ![L].next = Plus(@, n), ![L].n = @ + n]
      BY <1>1, <1>7 DEF CommitRows
    <3>2. PICK a, b, q, m : d = [type |-> "data", start |-> a, next |-> b,
                                 Qrow |-> q, n |-> m]
      BY DEF DataRec
    <3>3. recs' = [recs EXCEPT ![L] = [[d EXCEPT !.next = Plus(@, n)] EXCEPT !.n = @ + n]]
      BY ZenonT(40), <1>1, <2>1, <2>2, <3>1
    <3>6. PICK b1 : b1 = Plus(b, n)
      OBVIOUS
    <3>7. [d EXCEPT !.next = Plus(@, n)]
          = [type |-> "data", start |-> a, next |-> b1, Qrow |-> q, n |-> m]
      BY <3>2, <3>6
    <3>8. [[type |-> "data", start |-> a, next |-> b1, Qrow |-> q, n |-> m] EXCEPT !.n = @ + n]
          = [type |-> "data", start |-> a, next |-> b1, Qrow |-> q, n |-> m + n]
      OBVIOUS
    <3>4. [[d EXCEPT !.next = Plus(@, n)] EXCEPT !.n = @ + n]
          = [type |-> "data", start |-> a, next |-> Plus(b, n), Qrow |-> q, n |-> m + n]
      BY <3>6, <3>7, <3>8, Zenon
    <3>5. d1 = [type |-> "data", start |-> a, next |-> Plus(b, n), Qrow |-> q, n |-> m + n]
      BY <3>2
    <3> QED
      BY <3>3, <3>4, <3>5
  <2> HIDE DEF d1
  <2>6. /\ recs' \in Seq(Rec) /\ Len(recs') = L
        /\ \A i \in 1..L : recs'[i] = IF i = L THEN d1 ELSE recs[i]
    <3>1. d1 \in Rec /\ recs \in Seq(Rec) /\ L \in 1..L
      BY <1>1, <2>1, <2>4 DEF QueueTypes, Rec
    <3>2. [recs EXCEPT ![L] = d1] \in Seq(Rec)
          /\ Len([recs EXCEPT ![L] = d1]) = L
      BY <1>1, <3>1, ExceptSeq
    <3>3. \A i \in 1..L : [recs EXCEPT ![L] = d1][i] = IF i = L THEN d1 ELSE recs[i]
      BY <1>1
    <3> QED
      BY <2>5, <3>2, <3>3
  <2>7. d1.type = "data" /\ d1.Qrow = d.Qrow /\ d1.n = d.n + n
    BY DEF d1
  <2>8. \A i \in 1..L + 1 : o[i] = (IF i = L + 1 THEN e + n ELSE off[i])
    BY <2>0
  <2>9. o \in [1..L + 1 -> 0..Total] /\ o[1] = 0
    <3>1. 1 \in 1..L + 1 /\ 1 # L + 1
      BY <1>1, <2>1
    <3> QED
      BY <1>1, <1>3, <2>0, <3>1 DEF Ring
  <2>10. ASSUME NEW i \in 1..L + 1, NEW j \in 1..L + 1, i <= j PROVE o[i] <= o[j]
    <3>1. off[i] \in 0..e /\ off[j] \in 0..e /\ off[i] <= off[j]
      BY <1>1, <1>6, <2>10 DEF Ring
    <3> QED
      BY SMTT(40), <1>1, <1>2, <1>3, <2>8, <2>10, <3>1
  <2>11. ASSUME NEW i \in 1..L
         PROVE  IF recs'[i].type = "data"
                THEN recs'[i].Qrow = Slot(first, o[i]) /\ o[i + 1] = o[i] + recs'[i].n
                ELSE o[i + 1] = o[i]
    <3>1. i \in 1..L + 1 /\ i + 1 \in 1..L + 1 /\ i # L + 1
      BY <1>1
    <3>2. o[i] = off[i]
      BY <2>8, <3>1
    <3>3. CASE i = L
      <4>1. o[i + 1] = e + n
        BY <2>8, <3>1, <3>3
      <4>2. e + n = off[L] + (d.n + n) /\ d.n \in Nat
        BY SMTT(40), <1>2, <2>3 DEF DataRec
      <4> QED
        BY <2>3, <2>6, <2>7, <3>2, <3>3, <4>1, <4>2
    <3>4. CASE i # L
      <4>1. o[i + 1] = off[i + 1]
        <5>1. i # L /\ i \in Int /\ L \in Int
          BY <1>1, <3>4
        <5>2. i + 1 # L + 1
          BY <5>1
        <5> QED
          BY <2>8, <3>1, <5>2
      <4> QED
        BY <1>1, <2>6, <3>2, <3>4, <4>1 DEF Ring
    <3> QED
      BY <3>3, <3>4
  <2>12. o[L + 1] = e + n
    BY <1>1, <2>8
  <2>13. Ring(o)'
    <3>1. o \in [1..Len(recs') + 1 -> 0..Total] /\ o[1] = 0
      BY <2>6, <2>9
    <3>2. \A i, j \in 1..Len(recs') + 1 : i <= j => o[i] <= o[j]
      BY <2>6, <2>10
    <3>3. \A i \in 1..Len(recs') :
            IF recs'[i].type = "data"
            THEN recs'[i].Qrow = Slot(first', o[i]) /\ o[i + 1] = o[i] + recs'[i].n
            ELSE o[i + 1] = o[i]
      BY <1>4, <2>6, <2>11
    <3>4. last' = Slot(first', o[Len(recs') + 1]) /\ (full' <=> o[Len(recs') + 1] = Total)
      BY <1>4, <2>6, <2>12
    <3> QED
      BY <3>1, <3>2, <3>3, <3>4 DEF Ring
  <2>14. QueueTypes'
    BY <1>4, <2>6 DEF QueueTypes
  <2> QED
    BY <2>13, <2>14
<1>8. CASE ~ExtendsLast(l)
  <2> DEFINE d == [type |-> "data", start |-> l, next |-> Plus(l, n), Qrow |-> last, n |-> n]
  <2>0. PICK o : o = [i \in 1..L + 2 |-> IF i = L + 2 THEN e + n ELSE off[i]]
    OBVIOUS
  <2>1. recs' = Append(recs, d)
    BY <1>8 DEF CommitRows
  <2>2. d \in DataRec /\ d.type = "data" /\ d.Qrow = last /\ d.n = n
    BY <1>5 DEF DataRec
  <2> HIDE DEF d
  <2>3. /\ recs' \in Seq(Rec) /\ Len(recs') = L + 1
        /\ \A i \in 1..L + 1 : recs'[i] = IF i = L + 1 THEN d ELSE recs[i]
    BY <1>1, <2>1, <2>2 DEF QueueTypes, Rec
  <2>4. \A i \in 1..L + 2 : o[i] = (IF i = L + 2 THEN e + n ELSE off[i])
    BY <2>0
  <2>5. o \in [1..L + 2 -> 0..Total] /\ o[1] = 0
    <3>1. ASSUME NEW i \in 1..L + 2 PROVE o[i] \in 0..Total
      <4>1. i = L + 2 \/ i \in 1..L + 1
        BY <1>1
      <4>2. CASE i = L + 2
        BY <1>3, <2>4, <4>2
      <4>3. CASE i # L + 2
        <5>1. off[i] \in 0..Total /\ o[i] = off[i]
          BY <1>1, <2>4, <4>1, <4>3 DEF Ring
        <5> QED
          BY <5>1
      <4> QED
        BY <4>2, <4>3
    <3>2. 1 \in 1..L + 2 /\ 1 # L + 2
      BY <1>1
    <3> QED
      BY <1>1, <2>0, <2>4, <3>1, <3>2 DEF Ring
  <2>6. ASSUME NEW i \in 1..L + 2, NEW j \in 1..L + 2, i <= j PROVE o[i] <= o[j]
    <3>1. CASE j = L + 2
      <4>1. o[j] = e + n
        BY <2>4, <3>1
      <4>2. i = L + 2 \/ i \in 1..L + 1
        BY <1>1
      <4>3. o[i] \in 0..e + n
        BY <1>2, <1>3, <1>6, <2>4, <4>2
      <4> QED
        BY <1>3, <4>1, <4>3
    <3>2. CASE j # L + 2
      <4>1. i \in 1..L + 1 /\ j \in 1..L + 1 /\ i # L + 2
        BY <1>1, <2>6, <3>2
      <4>2. off[i] <= off[j]
        BY <1>1, <2>6, <4>1 DEF Ring
      <4> QED
        BY <2>4, <3>2, <4>1, <4>2
    <3> QED
      BY <3>1, <3>2
  <2>7. ASSUME NEW i \in 1..L + 1
        PROVE  IF recs'[i].type = "data"
               THEN recs'[i].Qrow = Slot(first, o[i]) /\ o[i + 1] = o[i] + recs'[i].n
               ELSE o[i + 1] = o[i]
    <3>1. i \in 1..L + 2 /\ i + 1 \in 1..L + 2 /\ i # L + 2
      BY <1>1
    <3>2. o[i] = off[i]
      BY <2>4, <3>1
    <3>3. CASE i = L + 1
      <4>1. o[i + 1] = e + n
        BY <1>1, <2>4, <3>1, <3>3
      <4> QED
        BY <1>2, <1>3, <2>2, <2>3, <3>2, <3>3, <4>1
    <3>4. CASE i # L + 1
      <4>1. o[i + 1] = off[i + 1] /\ i \in 1..L
        BY <1>1, <2>4, <3>1, <3>4
      <4> QED
        BY <1>1, <2>3, <3>2, <3>4, <4>1 DEF Ring
    <3> QED
      BY <3>3, <3>4
  <2>8. o[L + 2] = e + n /\ (L + 1) + 1 = L + 2
    BY <1>1, <2>4
  <2>9. Ring(o)'
    <3>1. o \in [1..Len(recs') + 1 -> 0..Total] /\ o[1] = 0
      BY <2>3, <2>5, <2>8
    <3>2. \A i, j \in 1..Len(recs') + 1 : i <= j => o[i] <= o[j]
      BY <2>3, <2>6, <2>8
    <3>3. \A i \in 1..Len(recs') :
            IF recs'[i].type = "data"
            THEN recs'[i].Qrow = Slot(first', o[i]) /\ o[i + 1] = o[i] + recs'[i].n
            ELSE o[i + 1] = o[i]
      BY <1>4, <2>3, <2>7
    <3>4. last' = Slot(first', o[Len(recs') + 1]) /\ (full' <=> o[Len(recs') + 1] = Total)
      BY <1>4, <2>3, <2>8
    <3> QED
      BY <3>1, <3>2, <3>3, <3>4 DEF Ring
  <2>10. QueueTypes'
    BY <1>4, <2>3 DEF QueueTypes
  <2> QED
    BY <2>9, <2>10
<1> QED
  BY <1>7, <1>8

\* The first record is left behind: its rows, none if it is a time stamp,
\* no longer precede the others'.
LEMMA DropKeeps ==
  ASSUME QueueTypes, NEW off, Ring(off), recs # <<>>, recs' = Tail(recs),
         first' = Slot(first, off[2]), last' = last, full' = (full /\ off[2] = 0)
  PROVE  QueueTypes' /\ \E o : Ring(o)' /\ o[Len(recs') + 1] <= off[Len(recs) + 1]
<1>0. PICK L \in Nat : L = Len(recs)
  BY DEF QueueTypes
<1>1. L = Len(recs) /\ L >= 1 /\ recs \in Seq(Rec)
  BY <1>0 DEF QueueTypes
<1>2. /\ recs' \in Seq(Rec) /\ Len(recs') = L - 1
      /\ \A i \in 1..L - 1 : recs'[i] = recs[i + 1]
  <2>1. PICK t : t = Tail(recs)
    OBVIOUS
  <2>2. /\ t \in Seq(Rec) /\ Len(t) = L - 1
        /\ \A i \in 1..Len(t) : t[i] = recs[i + 1]
    BY <1>1, <2>1, HeadTailProperties
  <2> QED
    BY <2>1, <2>2
<1>3. /\ \A i \in 1..L + 1 : off[i] \in 0..Total
      /\ \A i, j \in 1..L + 1 : i <= j => off[i] <= off[j]
      /\ 2 \in 1..L + 1 /\ L + 1 \in 1..L + 1
  <2>1. 2 \in 1..L + 1 /\ L + 1 \in 1..L + 1
    BY <1>1
  <2>2. \A i \in 1..L + 1 : off[i] \in 0..Total
    BY <1>1 DEF Ring
  <2>3. \A i, j \in 1..L + 1 : i <= j => off[i] <= off[j]
    BY <1>1 DEF Ring
  <2> QED
    BY <2>1, <2>2, <2>3
<1>4. PICK n \in 0..Total : n = off[2]
  BY <1>3
<1>5. PICK e \in 0..Total : e = off[L + 1]
  BY <1>3
<1>6. \A i \in 2..L + 1 : off[i] \in n..Total
  <2>1. ASSUME NEW i \in 2..L + 1 PROVE off[i] \in n..Total
    <3>1. i \in 1..L + 1 /\ 2 <= i
      BY <1>1
    <3>2. off[2] <= off[i] /\ off[i] \in 0..Total
      BY <1>3, <3>1
    <3> QED
      BY <1>4, <3>2
  <2> QED
    BY <2>1
<1>7. e \in n..Total
  <2>1. L + 1 \in 2..L + 1
    BY <1>1
  <2> QED
    BY <1>5, <1>6, <2>1
<1>8. \A k \in n..Total : Slot(first, k) \in 0..Total - 1 /\ Slot(first', k - n) = Slot(first, k)
  <2>1. first \in 0..Total - 1 /\ first' = Slot(first, n)
    BY <1>4 DEF QueueTypes
  <2> QED
    BY <2>1, SlotShift
<1>9. PICK o : o = [i \in 1..L |-> off[i + 1] - n]
  OBVIOUS
<1>10. \A i \in 1..L : o[i] = off[i + 1] - n /\ off[i + 1] \in n..Total /\ o[i] \in 0..Total
  <2>1. ASSUME NEW i \in 1..L
        PROVE  o[i] = off[i + 1] - n /\ off[i + 1] \in n..Total /\ o[i] \in 0..Total
    <3>1. i + 1 \in 2..L + 1
      BY <1>1
    <3>2. PICK x \in n..Total : x = off[i + 1]
      BY <1>6, <3>1
    <3>3. o[i] = x - n
      BY <1>9, <3>2
    <3>4. x - n \in 0..Total
      BY <1>4, DataQueueAssumption
    <3> QED
      BY <3>2, <3>3, <3>4
  <2> QED
    BY <2>1
<1>11. first' \in 0..Total - 1
  BY <1>4, SlotShift DEF QueueTypes
<1>12. QueueTypes'
  BY <1>2, <1>11 DEF QueueTypes
<1>13. /\ o \in [1..Len(recs') + 1 -> 0..Total] /\ o[1] = 0
       /\ o[Len(recs') + 1] = e - n
  <2>1. Len(recs') + 1 = L
    BY <1>2
  <2>2. o \in [1..L -> 0..Total]
    BY <1>9, <1>10
  <2>3. 1 \in 1..L /\ L \in 1..L
    BY <1>1
  <2>4. o[1] = n - n
    BY <1>4, <1>10, <2>3
  <2>5. o[L] = e - n
    BY <1>5, <1>10, <2>3
  <2> QED
    BY <2>1, <2>2, <2>4, <2>5
<1>14. \A i, j \in 1..Len(recs') + 1 : i <= j => o[i] <= o[j]
  <2>1. ASSUME NEW i \in 1..L, NEW j \in 1..L, i <= j PROVE o[i] <= o[j]
    <3>1. i + 1 \in 1..L + 1 /\ j + 1 \in 1..L + 1 /\ i + 1 <= j + 1
      BY <2>1
    <3>2. off[i + 1] <= off[j + 1]
      BY <1>3, <3>1
    <3>3. PICK x \in n..Total, y \in n..Total : x = off[i + 1] /\ y = off[j + 1]
      BY <1>10
    <3>4. o[i] = x - n /\ o[j] = y - n /\ x <= y
      BY <1>10, <3>2, <3>3
    <3> QED
      BY <3>4
  <2>2. Len(recs') + 1 = L
    BY <1>2
  <2> QED
    BY <2>1, <2>2
<1>15. \A i \in 1..Len(recs') :
         IF recs'[i].type = "data"
         THEN recs'[i].Qrow = Slot(first', o[i]) /\ o[i + 1] = o[i] + recs'[i].n
         ELSE o[i + 1] = o[i]
  <2>1. ASSUME NEW i \in 1..L - 1
        PROVE  IF recs'[i].type = "data"
               THEN recs'[i].Qrow = Slot(first', o[i]) /\ o[i + 1] = o[i] + recs'[i].n
               ELSE o[i + 1] = o[i]
    <3>1. i \in 1..L /\ i + 1 \in 1..L
      OBVIOUS
    <3>2. PICK x \in n..Total, y \in n..Total : x = off[i + 1] /\ y = off[(i + 1) + 1]
      BY <1>10, <3>1
    <3>3. o[i] = x - n /\ o[i + 1] = y - n
      BY <1>10, <3>1, <3>2
    <3>4. recs'[i] = recs[i + 1] /\ recs[i + 1] \in Rec
      BY <1>1, <1>2, <3>1
    <3>5. CASE recs[i + 1].type = "data"
      <4>1. recs[i + 1].Qrow = Slot(first, x) /\ y = x + recs[i + 1].n
        BY <1>1, <3>1, <3>2, <3>5 DEF Ring
      <4>2. Slot(first', x - n) = Slot(first, x)
        BY <1>8
      <4>3. PICK m \in 0..Total : m = recs[i + 1].n
        BY <3>4, <3>5 DEF Rec, DataRec
      <4>4. y - n = (x - n) + m
        <5>1. y = x + m
          BY <4>1, <4>3
        <5>2. x \in Int /\ y \in Int /\ m \in Int /\ n \in Int
          OBVIOUS
        <5> QED
          BY <5>1, <5>2
      <4> QED
        BY <3>3, <3>4, <3>5, <4>1, <4>2, <4>3, <4>4
    <3>6. CASE recs[i + 1].type # "data"
      <4>1. y = x
        BY <1>1, <3>1, <3>2, <3>6 DEF Ring
      <4> QED
        BY <3>3, <3>4, <3>6, <4>1
    <3> QED
      BY <3>5, <3>6
  <2> QED
    BY <1>2, <2>1
<1>16. last' = Slot(first', e - n) /\ (full' <=> e - n = Total) /\ e - n <= e
  <2>1. last = Slot(first, e) /\ (full <=> e = Total)
    BY <1>1, <1>5 DEF Ring
  <2>2. Slot(first', e - n) = Slot(first, e)
    BY <1>7, <1>8
  <2>3. e - n = Total <=> e = Total /\ n = 0
    BY <1>4, <1>5
  <2>4. full' <=> full /\ n = 0
    BY <1>4
  <2>5. e - n <= e
    BY <1>4, <1>5
  <2> QED
    BY <2>1, <2>2, <2>3, <2>4, <2>5
<1>17. Ring(o)'
  <2>1. last' = Slot(first', o[Len(recs') + 1]) /\ (full' <=> o[Len(recs') + 1] = Total)
    BY <1>13, <1>16
  <2>2. o \in [1..Len(recs') + 1 -> 0..Total] /\ o[1] = 0
    BY <1>13
  <2> QED
    BY <1>14, <1>15, <2>1, <2>2 DEF Ring
<1>18. o[Len(recs') + 1] <= off[Len(recs) + 1]
  BY <1>1, <1>5, <1>13, <1>16
<1> QED
  BY <1>12, <1>17, <1>18

\* A record of fewer rows ...
LEMMA FewerRows ==
  \A t, a, b, q, m, n :
    [[type |-> t, start |-> a, next |-> b, Qrow |-> q, n |-> m] EXCEPT !.n = @ - n]
    = [type |-> t, start |-> a, next |-> b, Qrow |-> q, n |-> m - n]
OBVIOUS

\* ... that begins later.
LEMMA LaterStart ==
  \A t, a, b, q, m, n :
    [[type |-> t, start |-> a, next |-> b, Qrow |-> q, n |-> m] EXCEPT !.start = Plus(@, n)]
    = [type |-> t, start |-> Plus(a, n), next |-> b, Qrow |-> q, n |-> m]
OBVIOUS

\* What becomes of the first record.
LEMMA ShrinkRecs ==
  ASSUME recs \in Seq(Rec), recs # <<>>, NEW d \in DataRec, d = recs[1],
         NEW n \in Nat, d.n \in n..Total, first' \in 0..Total - 1,
         recs' = [recs EXCEPT ![1].Qrow = first', ![1].n = @ - n,
                              ![1].start = Plus(@, n)]
  PROVE  \E d1 \in DataRec :
           /\ recs' = [recs EXCEPT ![1] = d1]
           /\ d1.type = "data" /\ d1.Qrow = first' /\ d1.n = d.n - n
           /\ d1.start = Plus(d.start, n) /\ d1.next = d.next
<1>0. 1 \in 1..Len(recs)
  OBVIOUS
<1>1. PICK a, b, q, m : /\ d = [type |-> "data", start |-> a, next |-> b,
                                Qrow |-> q, n |-> m]
                        /\ a \in 0..Labels - 1 /\ b \in 0..Labels - 1 /\ m \in 0..Total
  BY DEF DataRec
<1>2. PICK a1 \in 0..Labels - 1 : a1 = Plus(a, n)
  BY <1>1, PlusRange
<1>3. PICK f1 \in 0..Total - 1 : f1 = first'
  OBVIOUS
<1>4. PICK m1 \in 0..Total : m1 = m - n
  BY SMTT(40), <1>1, DataQueueAssumption
<1> DEFINE d1 == [type |-> "data", start |-> a1, next |-> b, Qrow |-> f1, n |-> m1]
<1>5. d1 \in DataRec
  BY <1>1 DEF DataRec
<1>6. recs' = [recs EXCEPT ![1] = [[[d EXCEPT !.Qrow = f1] EXCEPT !.n = @ - n]
                                      EXCEPT !.start = Plus(@, n)]]
  <2>1. PICK r1 : r1 = [recs EXCEPT ![1].Qrow = first']
    OBVIOUS
  <2>2. PICK r2 : r2 = [r1 EXCEPT ![1].n = @ - n]
    OBVIOUS
  <2>3. recs' = [r2 EXCEPT ![1].start = Plus(@, n)]
    BY <2>1, <2>2, ZenonT(60)
  <2>4. r1 = [recs EXCEPT ![1] = [d EXCEPT !.Qrow = f1]]
    BY <1>3, <2>1
  <2>5. r1[1] = [d EXCEPT !.Qrow = f1]
    BY <1>0, <2>4
  <2>6. r2 = [r1 EXCEPT ![1] = [[d EXCEPT !.Qrow = f1] EXCEPT !.n = @ - n]]
    BY <2>2, <2>5
  <2> QED
    BY <1>0, <2>3, <2>4, <2>6
<1>7. [d EXCEPT !.Qrow = f1]
      = [type |-> "data", start |-> a, next |-> b, Qrow |-> f1, n |-> m]
  BY <1>1
<1>8. [[type |-> "data", start |-> a, next |-> b, Qrow |-> f1, n |-> m] EXCEPT !.n = @ - n]
      = [type |-> "data", start |-> a, next |-> b, Qrow |-> f1, n |-> m1]
  BY <1>4, FewerRows
<1>9. [[type |-> "data", start |-> a, next |-> b, Qrow |-> f1, n |-> m1]
          EXCEPT !.start = Plus(@, n)] = d1
  BY <1>2, LaterStart
<1>10. recs' = [recs EXCEPT ![1] = d1]
  BY <1>6, <1>7, <1>8, <1>9, Zenon
<1>11. /\ d1.type = "data" /\ d1.Qrow = first' /\ d1.n = d.n - n
       /\ d1.start = Plus(d.start, n) /\ d1.next = d.next
  BY <1>1, <1>2, <1>3, <1>4
<1> QED
  BY <1>5, <1>10, <1>11

\* Rows of the first record are retired and the record is kept.
LEMMA ShrinkKeeps ==
  ASSUME QueueTypes, NEW off, Ring(off), recs # <<>>, recs[1].type = "data",
         NEW n \in Nat, n <= recs[1].n, first' = Slot(first, n), last' = last,
         full' = (full /\ n = 0),
         recs' = [recs EXCEPT ![1].Qrow = first', ![1].n = @ - n,
                              ![1].start = Plus(@, n)]
  PROVE  QueueTypes' /\ \E o : Ring(o)' /\ o[Len(recs') + 1] <= off[Len(recs) + 1]
<1>0. PICK L \in Nat : L = Len(recs)
  BY DEF QueueTypes
<1>1. L = Len(recs) /\ L >= 1 /\ recs \in Seq(Rec) /\ 1 \in 1..L
  BY <1>0 DEF QueueTypes
<1>2. recs[1] \in DataRec /\ n \in 0..off[L + 1] /\ off[2] = recs[1].n
  BY <1>1, RingAsserts
<1>3. /\ \A i \in 1..L + 1 : off[i] \in 0..Total
      /\ \A i, j \in 1..L + 1 : i <= j => off[i] <= off[j]
      /\ 2 \in 1..L + 1 /\ L + 1 \in 1..L + 1
  <2>1. 2 \in 1..L + 1 /\ L + 1 \in 1..L + 1
    BY <1>1
  <2>2. \A i \in 1..L + 1 : off[i] \in 0..Total
    BY <1>1 DEF Ring
  <2>3. \A i, j \in 1..L + 1 : i <= j => off[i] <= off[j]
    BY <1>1 DEF Ring
  <2> QED
    BY <2>1, <2>2, <2>3
<1>4. PICK d \in DataRec : d = recs[1]
  BY <1>2
<1>5. PICK e \in 0..Total : e = off[L + 1]
  BY <1>3
<1>6. n \in 0..Total /\ d.n \in n..Total /\ off[2] = d.n /\ e \in n..Total
  <2>1. d.n \in 0..Total /\ n <= d.n /\ off[2] = d.n
    BY <1>2, <1>4 DEF DataRec
  <2>2. n <= e
    BY <1>2, <1>5
  <2> QED
    BY <1>5, <2>1, <2>2, DataQueueAssumption
<1>7. \A i \in 2..L + 1 : off[i] \in n..Total
  <2>1. ASSUME NEW i \in 2..L + 1 PROVE off[i] \in n..Total
    <3>1. i \in 1..L + 1 /\ 2 <= i
      BY <1>1
    <3>2. off[2] <= off[i] /\ off[i] \in 0..Total
      BY <1>3, <3>1
    <3>3. PICK x \in 0..Total : x = off[i]
      BY <3>2
    <3>4. PICK m \in n..Total : m = d.n
      BY <1>6
    <3>5. x \in n..Total
      BY <1>6, <3>2, <3>3, <3>4
    <3> QED
      BY <3>3, <3>5
  <2> QED
    BY <2>1
<1>8. \A k \in n..Total : Slot(first, k) \in 0..Total - 1 /\ Slot(first', k - n) = Slot(first, k)
  BY <1>6, SlotShift DEF QueueTypes
<1>9. first' \in 0..Total - 1
  BY <1>6, SlotShift DEF QueueTypes
<1>10. PICK d1 \in DataRec :
         /\ recs' = [recs EXCEPT ![1] = d1]
         /\ d1.type = "data" /\ d1.Qrow = first' /\ d1.n = d.n - n
  <2>1. recs \in Seq(Rec) /\ d \in DataRec /\ d = recs[1] /\ d.n \in n..Total
    BY <1>1, <1>4, <1>6
  <2>2. \E d1 \in DataRec :
          /\ recs' = [recs EXCEPT ![1] = d1]
          /\ d1.type = "data" /\ d1.Qrow = first' /\ d1.n = d.n - n
          /\ d1.start = Plus(d.start, n) /\ d1.next = d.next
    BY <1>9, <2>1, ShrinkRecs
  <2> QED
    BY <2>2
<1>11. /\ recs' \in Seq(Rec) /\ Len(recs') = L
       /\ \A i \in 1..L : recs'[i] = IF i = 1 THEN d1 ELSE recs[i]
  <2>1. d1 \in Rec
    BY DEF Rec
  <2>2. [recs EXCEPT ![1] = d1] \in Seq(Rec) /\ Len([recs EXCEPT ![1] = d1]) = L
    BY <1>1, <2>1, ExceptSeq
  <2>3. \A i \in 1..L : [recs EXCEPT ![1] = d1][i] = IF i = 1 THEN d1 ELSE recs[i]
    BY <1>1
  <2> QED
    BY <1>10, <2>2, <2>3
<1>12. PICK o : o = [i \in 1..L + 1 |-> IF i = 1 THEN 0 ELSE off[i] - n]
  OBVIOUS
<1>13. o[1] = 0 /\ \A i \in 2..L + 1 : o[i] = off[i] - n /\ o[i] \in 0..Total
  <2>1. o[1] = 0
    BY <1>1, <1>12
  <2>2. ASSUME NEW i \in 2..L + 1 PROVE o[i] = off[i] - n /\ o[i] \in 0..Total
    <3>1. i \in 1..L + 1 /\ i # 1
      BY <1>1
    <3>2. PICK x \in n..Total : x = off[i]
      BY <1>7
    <3>3. o[i] = x - n /\ x - n \in 0..Total
      BY <1>6, <1>12, <3>1, <3>2, DataQueueAssumption
    <3> QED
      BY <3>2, <3>3
  <2> QED
    BY <2>1, <2>2
<1>14. QueueTypes'
  BY <1>9, <1>11 DEF QueueTypes
<1>15. /\ o \in [1..Len(recs') + 1 -> 0..Total] /\ o[1] = 0
       /\ o[Len(recs') + 1] = e - n
  <2>1. ASSUME NEW i \in 1..L + 1 PROVE o[i] \in 0..Total
    <3>1. i = 1 \/ i \in 2..L + 1
      BY <1>1
    <3>2. 0 \in 0..Total
      BY DataQueueAssumption
    <3> QED
      BY <1>13, <3>1, <3>2
  <2>2. L + 1 \in 2..L + 1
    BY <1>1
  <2>3. o \in [1..L + 1 -> 0..Total]
    BY <1>12, <2>1
  <2>4. o[L + 1] = e - n
    BY <1>5, <1>13, <2>2
  <2> QED
    BY <1>11, <1>13, <2>3, <2>4
<1>16. \A i, j \in 1..Len(recs') + 1 : i <= j => o[i] <= o[j]
  <2>1. ASSUME NEW i \in 1..L + 1, NEW j \in 1..L + 1, i <= j PROVE o[i] <= o[j]
    <3>1. CASE j = 1
      <4>1. i = 1
        BY <2>1, <3>1
      <4> QED
        BY <1>13, <3>1, <4>1
    <3>2. CASE j # 1 /\ i = 1
      <4>1. j \in 2..L + 1
        BY <1>1, <3>2
      <4>2. o[j] \in 0..Total
        BY <1>13, <4>1
      <4> QED
        BY <1>13, <3>2, <4>2
    <3>3. CASE i # 1
      <4>1. i \in 2..L + 1 /\ j \in 2..L + 1
        BY <1>1, <2>1, <3>3
      <4>2. PICK x \in n..Total, y \in n..Total : x = off[i] /\ y = off[j]
        BY <1>7, <4>1
      <4>3. o[i] = x - n /\ o[j] = y - n /\ x <= y
        BY <1>3, <1>13, <2>1, <4>1, <4>2
      <4> QED
        BY <4>3
    <3> QED
      BY <3>1, <3>2, <3>3
  <2> QED
    BY <1>11, <2>1
<1>17. \A i \in 1..Len(recs') :
         IF recs'[i].type = "data"
         THEN recs'[i].Qrow = Slot(first', o[i]) /\ o[i + 1] = o[i] + recs'[i].n
         ELSE o[i + 1] = o[i]
  <2>1. ASSUME NEW i \in 1..L
        PROVE  IF recs'[i].type = "data"
               THEN recs'[i].Qrow = Slot(first', o[i]) /\ o[i + 1] = o[i] + recs'[i].n
               ELSE o[i + 1] = o[i]
    <3>1. CASE i = 1
      <4>1. recs'[i] = d1 /\ o[i] = 0
        BY <1>1, <1>11, <1>13, <3>1
      <4>2. o[i + 1] = d.n - n
        <5>1. i + 1 = 2 /\ 2 \in 2..L + 1
          BY <1>1, <3>1
        <5> QED
          BY <1>6, <1>13, <5>1
      <4>3. d1.Qrow = Slot(first', 0)
        BY <1>9, <1>10, DataQueueAssumption DEF Slot
      <4>4. PICK m \in 0..Total : m = d1.n
        BY DEF DataRec
      <4>5. o[i + 1] = 0 + m
        BY <1>10, <4>2, <4>4
      <4> QED
        BY <1>10, <4>1, <4>3, <4>4, <4>5
    <3>2. CASE i # 1
      <4>1. i \in 2..L + 1 /\ i + 1 \in 2..L + 1
        BY <1>1, <3>2
      <4>2. PICK x \in n..Total, y \in n..Total : x = off[i] /\ y = off[i + 1]
        BY <1>7, <4>1
      <4>3. o[i] = x - n /\ o[i + 1] = y - n
        BY <1>13, <4>1, <4>2
      <4>4. recs'[i] = recs[i] /\ recs[i] \in Rec
        BY <1>1, <1>11, <3>2
      <4>5. CASE recs[i].type = "data"
        <5>1. recs[i].Qrow = Slot(first, x) /\ y = x + recs[i].n
          BY <1>1, <4>2, <4>5 DEF Ring
        <5>2. Slot(first', x - n) = Slot(first, x)
          BY <1>8
        <5>3. PICK m \in 0..Total : m = recs[i].n
          BY <4>4, <4>5 DEF Rec, DataRec
        <5>4. y - n = (x - n) + m
          BY SMTT(40), <1>6, <5>1, <5>3
        <5> QED
          BY <4>3, <4>4, <4>5, <5>1, <5>2, <5>3, <5>4
      <4>6. CASE recs[i].type # "data"
        <5>1. y = x
          BY <1>1, <4>2, <4>6 DEF Ring
        <5> QED
          BY <4>3, <4>4, <4>6, <5>1
      <4> QED
        BY <4>5, <4>6
    <3> QED
      BY <3>1, <3>2
  <2> QED
    BY <1>11, <2>1
<1>18. last' = Slot(first', e - n) /\ (full' <=> e - n = Total) /\ e - n <= e
  <2>1. last = Slot(first, e) /\ (full <=> e = Total)
    BY <1>1, <1>5 DEF Ring
  <2>2. Slot(first', e - n) = Slot(first, e)
    BY <1>6, <1>8
  <2>3. e - n = Total <=> e = Total /\ n = 0
    BY <1>5, <1>6
  <2>4. full' <=> full /\ n = 0
    OBVIOUS
  <2>5. e - n <= e
    BY <1>5, <1>6
  <2> QED
    BY <2>1, <2>2, <2>3, <2>4, <2>5
<1>19. Ring(o)'
  <2>1. last' = Slot(first', o[Len(recs') + 1]) /\ (full' <=> o[Len(recs') + 1] = Total)
    BY <1>15, <1>18
  <2>2. o \in [1..Len(recs') + 1 -> 0..Total] /\ o[1] = 0
    BY <1>15
  <2> QED
    BY <1>16, <1>17, <2>1, <2>2 DEF Ring
<1>20. o[Len(recs') + 1] <= off[Len(recs) + 1]
  BY <1>1, <1>5, <1>15, <1>18
<1> QED
  BY <1>14, <1>19, <1>20

\* A time stamp takes no rows.
LEMMA StampKeeps ==
  ASSUME QueueTypes, NEW off, Ring(off), NEW ts \in Nat, CommitTstamp(ts)
  PROVE  /\ QueueTypes' /\ last' = last /\ full' = full
         /\ \E o : Ring(o)' /\ o[Len(recs') + 1] <= off[Len(recs) + 1]
<1>0. PICK L \in Nat : L = Len(recs)
  BY DEF QueueTypes
<1>1. L = Len(recs) /\ recs \in Seq(Rec) /\ L + 1 \in 1..L + 1
  BY <1>0 DEF QueueTypes
<1>2. PICK d \in Rec : d = [type |-> "ts", ts |-> ts] /\ d.type # "data"
  <2>1. PICK d : d = [type |-> "ts", ts |-> ts]
    OBVIOUS
  <2>2. d.type = "ts" /\ d \in [type : {"ts"}, ts : Nat]
    BY <2>1
  <2> QED
    BY <2>1, <2>2 DEF Rec
<1>3. recs' = Append(recs, d) /\ UNCHANGED <<first, last, full>>
  BY <1>2 DEF CommitTstamp
<1>4. /\ recs' \in Seq(Rec) /\ Len(recs') = L + 1
      /\ \A i \in 1..L + 1 : recs'[i] = IF i = L + 1 THEN d ELSE recs[i]
  BY <1>1, <1>3
<1>5. /\ \A i \in 1..L + 1 : off[i] \in 0..Total
      /\ \A i, j \in 1..L + 1 : i <= j => off[i] <= off[j]
  BY <1>1 DEF Ring
<1>6. PICK e \in 0..Total : e = off[L + 1]
  BY <1>1, <1>5
<1>7. PICK o : o = [i \in 1..L + 2 |-> IF i = L + 2 THEN e ELSE off[i]]
  OBVIOUS
<1>8. o[L + 2] = e /\ \A i \in 1..L + 1 : o[i] = off[i]
  <2>1. L + 2 \in 1..L + 2 /\ \A i \in 1..L + 1 : i \in 1..L + 2 /\ i # L + 2
    BY <1>1
  <2> QED
    BY <1>7, <2>1
<1>9. (L + 1) + 1 = L + 2 /\ \A i \in 1..L + 2 : i = L + 2 \/ i \in 1..L + 1
  BY <1>1
<1>10. o \in [1..Len(recs') + 1 -> 0..Total] /\ o[1] = 0
  <2>1. o \in [1..L + 2 -> 0..Total]
    BY <1>5, <1>7, <1>8, <1>9
  <2>2. 1 \in 1..L + 1
    BY <1>1
  <2>3. o[1] = 0
    BY <1>8, <2>2 DEF Ring
  <2> QED
    BY <1>4, <1>9, <2>1, <2>3
<1>11. \A i, j \in 1..Len(recs') + 1 : i <= j => o[i] <= o[j]
  <2>1. ASSUME NEW i \in 1..L + 2, NEW j \in 1..L + 2, i <= j PROVE o[i] <= o[j]
    <3>1. CASE j = L + 2 /\ i = L + 2
      BY <1>6, <1>8, <3>1
    <3>2. CASE j = L + 2 /\ i # L + 2
      <4>1. i \in 1..L + 1 /\ i <= L + 1
        BY <1>9, <3>2
      <4> QED
        BY <1>1, <1>5, <1>6, <1>8, <3>2, <4>1
    <3>3. CASE j # L + 2
      <4>1. i \in 1..L + 1 /\ j \in 1..L + 1
        BY <1>1, <2>1, <3>3
      <4> QED
        BY <1>5, <1>8, <2>1, <4>1
    <3> QED
      BY <3>1, <3>2, <3>3
  <2> QED
    BY <1>4, <1>9, <2>1
<1>12. \A i \in 1..Len(recs') :
         IF recs'[i].type = "data"
         THEN recs'[i].Qrow = Slot(first', o[i]) /\ o[i + 1] = o[i] + recs'[i].n
         ELSE o[i + 1] = o[i]
  <2>1. ASSUME NEW i \in 1..L + 1
        PROVE  IF recs'[i].type = "data"
               THEN recs'[i].Qrow = Slot(first, o[i]) /\ o[i + 1] = o[i] + recs'[i].n
               ELSE o[i + 1] = o[i]
    <3>1. CASE i = L + 1
      <4>1. o[i] = e /\ o[i + 1] = e
        BY <1>1, <1>6, <1>8, <1>9, <3>1
      <4> QED
        BY <1>2, <1>4, <3>1, <4>1
    <3>2. CASE i # L + 1
      <4>1. i \in 1..L /\ i + 1 \in 1..L + 1
        BY <1>1, <3>2
      <4>2. o[i] = off[i] /\ o[i + 1] = off[i + 1] /\ recs'[i] = recs[i]
        BY <1>4, <1>8, <3>2, <4>1
      <4> QED
        BY <1>1, <4>1, <4>2 DEF Ring
    <3> QED
      BY <3>1, <3>2
  <2> QED
    BY <1>3, <1>4, <2>1
<1>13. o[Len(recs') + 1] = e
  BY <1>4, <1>8, <1>9
<1>14. Ring(o)'
  <2>1. last' = Slot(first', o[Len(recs') + 1]) /\ (full' <=> o[Len(recs') + 1] = Total)
    BY <1>1, <1>3, <1>6, <1>13 DEF Ring
  <2> QED
    BY <1>10, <1>11, <1>12, <2>1 DEF Ring
<1>15. QueueTypes'
  BY <1>3, <1>4 DEF QueueTypes
<1>16. o[Len(recs') + 1] <= off[Len(recs) + 1]
  BY <1>1, <1>6, <1>13
<1> QED
  BY <1>3, <1>14, <1>15, <1>16

\* The oldest row is then the n-th from the one that was.
LEMMA RetireFirst ==
  ASSUME QueueTypes, NEW off, Ring(off), recs # <<>>, recs[1].type = "data",
         NEW n \in Nat, n <= recs[1].n, RetireRows(n)
  PROVE  first' = Slot(first, n)
<1>1. 1 \in 1..Len(recs) /\ Len(recs) \in Nat
  BY DEF QueueTypes
<1>2. n \in 0..off[Len(recs) + 1]
  BY RingAsserts
<1>3. PICK e \in 0..Total : e = off[Len(recs) + 1]
  <2>1. Len(recs) + 1 \in 1..Len(recs) + 1
    BY <1>1
  <2> QED
    BY <2>1 DEF Ring
<1>4. last = Slot(first, e) /\ n \in 0..e
  BY <1>2, <1>3 DEF Ring
<1>5. first' = IF first >= last /\ first + n >= Total THEN first + n - Total
               ELSE first + n
  BY DEF RetireRows
<1>6. first \in 0..Total - 1 /\ last \in 0..Total - 1
  BY DEF QueueTypes
<1> QED
  BY <1>4, <1>5, <1>6, DataQueueAssumption DEF Slot

\* Rows are retired by retire_rows, which leaves a record that is used up
\* behind when another follows.
LEMMA RetireKeeps ==
  ASSUME QueueTypes, NEW off, Ring(off), recs # <<>>, txN \in Nat,
         recs[1].type = "data" => txN <= recs[1].n, Retire
  PROVE  /\ QueueTypes' /\ last' = last /\ (full' => full)
         /\ \E o : Ring(o)' /\ o[Len(recs') + 1] <= off[Len(recs) + 1]
<1>1. 1 \in 1..Len(recs) /\ recs[1] \in Rec /\ Len(recs) \in Nat
  BY DEF QueueTypes
<1>2. CASE recs[1].type = "ts"
  <2>1. recs' = Tail(recs) /\ UNCHANGED <<first, last, full>>
    BY <1>2 DEF Retire, RetireTstamp
  <2>2. off[2] = 0
    <3>1. off[1 + 1] = off[1] /\ off[1] = 0
      BY <1>1, <1>2 DEF Ring
    <3> QED
      BY <3>1
  <2>3. first' = Slot(first, off[2]) /\ full' = (full /\ off[2] = 0)
    <3>1. first = Slot(first, 0)
      BY DataQueueAssumption DEF Slot, QueueTypes
    <3>2. full = (full /\ 0 = 0)
      BY DEF QueueTypes
    <3> QED
      BY <2>1, <2>2, <3>1, <3>2
  <2> QED
    BY <2>1, <2>3, DropKeeps
<1>3. CASE recs[1].type # "ts"
  <2> DEFINE n == txN
  <2>1. recs[1].type = "data" /\ n <= recs[1].n
    BY <1>1, <1>3 DEF Rec, DataRec
  <2>2. RetireRows(n)
    BY <1>3 DEF Retire
  <2>3. n \in 0..off[Len(recs) + 1] /\ off[2] = recs[1].n
    BY <2>1, RingAsserts
  <2>4. first' = Slot(first, n)
    BY <2>1, <2>2, RetireFirst
  <2>5. full' = (full /\ n = 0) /\ last' = last
    BY <2>2 DEF RetireRows
  <2>6. CASE recs[1].n = n /\ Len(recs) > 1
    <3>1. recs' = Tail(recs)
      BY <2>2, <2>6 DEF RetireRows
    <3>2. off[2] = n
      BY <2>3, <2>6
    <3> QED
      BY <2>4, <2>5, <3>1, <3>2, DropKeeps
  <2>7. CASE ~(recs[1].n = n /\ Len(recs) > 1)
    <3>1. recs' = [recs EXCEPT ![1].Qrow = first', ![1].n = @ - n,
                               ![1].start = Plus(@, n)]
      BY <2>2, <2>7 DEF RetireRows
    <3> QED
      BY <2>1, <2>4, <2>5, <3>1, ShrinkKeeps
  <2> QED
    BY <2>6, <2>7
<1> QED
  BY <1>2, <1>3

\* The room that allocate_rows gives is free and does not wrap.
LEMMA AllocatedIsFree ==
  ASSUME QueueTypes, NEW off, Ring(off), NEW r \in Nat, r >= 1, r <= AllocateRows
  PROVE  ~full /\ last + r <= Total /\ off[Len(recs) + 1] + r <= Total
<1>1. PICK e \in 0..Total : e = off[Len(recs) + 1]
  <2>1. Len(recs) + 1 \in 1..Len(recs) + 1
    BY DEF QueueTypes
  <2> QED
    BY <2>1 DEF Ring
<1>2. last = Slot(first, e) /\ (full <=> e = Total)
  BY <1>1 DEF Ring
<1>3. first \in 0..Total - 1 /\ last \in 0..Total - 1
  BY DEF QueueTypes
<1>4. ~full /\ r <= (IF first > last THEN first - last ELSE Total - last)
  BY <1>3, DataQueueAssumption DEF AllocateRows
<1>5. last + r <= Total /\ e + r <= Total
  BY <1>2, <1>3, <1>4, DataQueueAssumption DEF Slot
<1> QED
  BY <1>1, <1>4, <1>5

\* What is appended or added to the last record takes no rows from the first.
LEMMA HeadKeeps ==
  ASSUME QueueTypes, recs # <<>>,
         \/ \E l \in 0..Labels - 1, n \in Nat : CommitRows(l, n)
         \/ \E ts \in Nat : CommitTstamp(ts)
  PROVE  /\ recs' # <<>>
         /\ recs'[1].type = "data" =>
              /\ recs[1].type = "data"
              /\ \A t \in Nat : t <= recs[1].n => t <= recs'[1].n
<1>1. 1 \in 1..Len(recs) /\ recs[1] \in Rec /\ Len(recs) \in Nat /\ recs \in Seq(Rec)
  BY DEF QueueTypes
<1>2. recs[1].type = "data" => recs[1].n \in Nat
  BY <1>1 DEF Rec, DataRec
<1>3. ASSUME NEW d, recs' = Append(recs, d)
      PROVE  recs' # <<>> /\ recs'[1] = recs[1]
  BY <1>1, <1>3
<1>4. ASSUME NEW l \in 0..Labels - 1, NEW n \in Nat, CommitRows(l, n), ExtendsLast(l)
      PROVE  /\ recs' # <<>>
             /\ recs'[1].type = "data" =>
                  /\ recs[1].type = "data"
                  /\ \A t \in Nat : t <= recs[1].n => t <= recs'[1].n
  <2>1. recs' = [recs EXCEPT ![Len(recs)].next = Plus(@, n), ![Len(recs)].n = @ + n]
    BY <1>4 DEF CommitRows
  <2>2. recs' # <<>>
    BY <1>1, <2>1
  <2>3. CASE Len(recs) # 1
    <3>1. PICK w : recs' = [recs EXCEPT ![Len(recs)] = w]
      BY <2>1
    <3>2. recs'[1] = recs[1]
      BY <1>1, <2>3, <3>1
    <3> QED
      BY <1>2, <2>2, <3>2
  <2>4. CASE Len(recs) = 1
    <3>1. recs[1].type = "data" /\ recs[1] \in DataRec
      BY <1>1, <1>4, <2>4 DEF ExtendsLast, LastRec, Rec
    <3>2. recs'[1].n = recs[1].n + n
      BY <1>1, <2>1, <2>4, <3>1 DEF DataRec
    <3> QED
      BY <1>2, <2>2, <3>1, <3>2
  <2> QED
    BY <2>3, <2>4
<1>5. ASSUME NEW l \in 0..Labels - 1, NEW n \in Nat, CommitRows(l, n), ~ExtendsLast(l)
      PROVE  recs' # <<>> /\ recs'[1] = recs[1]
  BY <1>3, <1>5 DEF CommitRows
<1>6. ASSUME NEW ts \in Nat, CommitTstamp(ts) PROVE recs' # <<>> /\ recs'[1] = recs[1]
  BY <1>3, <1>6 DEF CommitTstamp
<1> QED
  BY <1>2, <1>4, <1>5, <1>6

-----------------------------------------------------------------------------
(* The steps of the threads *)

queue == <<first, last, full, recs>>

\* The log is a sequence of files, each a sequence of messages.
LEMMA LogTypes ==
  /\ Len(Log) \in Nat /\ DOMAIN Log = 1..Len(Log)
  /\ \A f \in DOMAIN Log :
       /\ Len(Log[f]) \in Nat
       /\ \A m \in Nat : m < Len(Log[f]) => Log[f][m + 1] \in Message
<1>1. Log \in Seq(Seq(Message))
  BY PlaybackAssumption
<1>2. ASSUME NEW f \in DOMAIN Log
      PROVE  /\ Len(Log[f]) \in Nat
             /\ \A m \in Nat : m < Len(Log[f]) => Log[f][m + 1] \in Message
  <2>1. PICK s \in Seq(Message) : s = Log[f]
    BY <1>1, <1>2
  <2>2. Len(s) \in Nat /\ \A m \in Nat : m < Len(s) => s[m + 1] \in Message
    BY <2>1
  <2> QED
    BY <2>1, <2>2
<1> QED
  BY <1>1, <1>2

\* The invariant needs nothing new of a step that leaves the queue and the
\* room of the input thread alone.
LEMMA RingSame ==
  ASSUME RingRight, UNCHANGED queue,
         pcI' \in {"fill", "commit"} => pcI \in {"fill", "commit"} /\ room' = room
  PROVE  RingRight'
<1>1. PICK off : Ring(off) /\ Room(off)
  BY DEF RingRight
<1>2. Ring(off)' /\ Room(off)'
  BY <1>1 DEF Ring, Room, queue
<1> QED
  BY <1>2 DEF RingRight, QueueTypes, queue

\* What PlacesRight says of the output thread survives a step that leaves it
\* and the first record, or at least its rows, alone.
LEMMA OutputSame ==
  ASSUME PlacesRight, UNCHANGED <<pcO, txN>>, RingRight,
         \/ UNCHANGED recs
         \/ \E l \in 0..Labels - 1, n \in Nat : CommitRows(l, n)
         \/ \E ts \in Nat : CommitTstamp(ts)
  PROVE  /\ pcO' = "next" => recs' # <<>>
         /\ pcO' \in {"lock", "writev", "retire"} =>
              recs' # <<>> /\ (recs'[1].type = "data" => txN' <= recs'[1].n)
<1>1. CASE UNCHANGED recs
  BY <1>1 DEF PlacesRight
<1>2. CASE recs # <<>> /\ ~UNCHANGED recs
  <2>1. /\ recs' # <<>>
        /\ recs'[1].type = "data" =>
             /\ recs[1].type = "data"
             /\ \A t \in Nat : t <= recs[1].n => t <= recs'[1].n
    BY <1>2, HeadKeeps DEF RingRight
  <2> QED
    BY <2>1 DEF PlacesRight
<1>3. CASE recs = <<>>
  BY <1>3 DEF PlacesRight
<1> QED
  BY <1>1, <1>2, <1>3

\* At first the ring and the list are empty.
LEMMA QInit == Init => QInv
<1> SUFFICES ASSUME Init PROVE QInv
  OBVIOUS
<1>1. PICK o : o = [i \in 1..1 |-> 0]
  OBVIOUS
<1>2. QueueTypes /\ Len(recs) = 0 /\ recs = <<>> /\ first = 0 /\ last = 0 /\ ~full
  <2>1. first = 0 /\ last = 0 /\ full = FALSE /\ recs = <<>>
    BY DEF Init, InitQueue
  <2>2. recs \in Seq(Rec) /\ Len(recs) = 0
    BY <2>1
  <2>3. 0 \in 0..Total - 1
    BY DataQueueAssumption
  <2> QED
    BY <2>1, <2>2, <2>3 DEF QueueTypes
<1>3. Ring(o)
  <2>1. o \in [1..1 -> 0..Total] /\ o[1] = 0
    BY <1>1, DataQueueAssumption
  <2>2. 0 = Slot(0, 0) /\ Total # 0
    BY DataQueueAssumption DEF Slot
  <2> QED
    BY <1>2, <2>1, <2>2 DEF Ring
<1>4. Room(o)
  BY DEF Init, Room
<1>5. PlacesRight
  BY DataQueueAssumption DEF Init, PlacesRight
<1> QED
  BY <1>2, <1>3, <1>4, <1>5 DEF QInv, RingRight

\* Steps of the input thread
LEMMA QInputKeeps == QInv /\ InputStep => QInv'
<1> SUFFICES ASSUME QInv, InputStep PROVE QInv'
  OBVIOUS
<1>0. RingRight /\ PlacesRight /\ QueueTypes
  BY DEF QInv, RingRight
<1>1. UNCHANGED <<pcO, txN>>
  BY DEF InputStep, ReadLog, EndOfFile, WaitAtEof, InputWoken, InputDone, TakeMessage,
         ProcessTstamp, ProcessData, FindRoom, Fill, Commit, outVars
<1> DEFINE InputPlace ==
             /\ {file', msg', chunk', lastTs', left', room'} \subseteq Nat
             /\ label' \in 0..Labels - 1
             /\ pcI' = "msg" =>
                  file' \in DOMAIN Log /\ chunk' >= 1 /\ msg' + chunk' <= Len(Log[file'])
             /\ pcI' \in {"rows", "wait_data", "fill", "commit"} =>
                  file' \in DOMAIN Log /\ msg' + chunk' <= Len(Log[file']) /\ left' >= 1
             /\ pcI' \in {"fill", "commit"} =>
                  room' \in 1..left' /\ ~full' /\ last' + room' <= Total
<1>2. ASSUME InputPlace,
             \/ UNCHANGED recs
             \/ \E l \in 0..Labels - 1, n \in Nat : CommitRows(l, n)
             \/ \E ts \in Nat : CommitTstamp(ts)
      PROVE  PlacesRight'
  <2>1. /\ pcO' = "next" => recs' # <<>>
        /\ pcO' \in {"lock", "writev", "retire"} =>
             recs' # <<>> /\ (recs'[1].type = "data" => txN' <= recs'[1].n)
    BY <1>0, <1>1, <1>2, OutputSame
  <2>2. txN' \in Nat
    BY <1>0, <1>1 DEF PlacesRight
  <2> QED
    BY <1>2, <2>1, <2>2 DEF PlacesRight
<1>3. ASSUME UNCHANGED queue, InputPlace,
             pcI' \in {"fill", "commit"} => pcI \in {"fill", "commit"} /\ room' = room
      PROVE  QInv'
  <2>1. RingRight'
    BY <1>0, <1>3, RingSame
  <2>2. PlacesRight'
    BY <1>2, <1>3 DEF queue
  <2> QED
    BY <2>1, <2>2 DEF QInv
<1>4. 0 \in 0..Labels - 1
  BY DataQueueAssumption
<1>5. CASE ReadLog
  <2>1. UNCHANGED queue /\ pcI' = "msg"
    BY <1>5 DEF ReadLog, dqVars, queue
  <2>2. InputPlace
    <3>1. /\ file \in DOMAIN Log /\ msg < Len(Log[file]) /\ pcI' = "msg"
          /\ chunk' \in 1..Len(Log[file]) - msg
          /\ UNCHANGED <<file, msg, lastTs, left, label, room>>
      BY <1>5 DEF ReadLog
    <3>2. Len(Log[file]) \in Nat /\ msg \in Nat
      BY <1>0, <3>1, LogTypes DEF PlacesRight
    <3>3. chunk' \in Nat /\ chunk' >= 1 /\ msg' + chunk' <= Len(Log[file'])
      BY <3>1, <3>2
    <3> QED
      BY <1>0, <3>1, <3>3 DEF PlacesRight
  <2> QED
    BY <1>3, <2>1, <2>2
<1>6. CASE EndOfFile
  <2>1. /\ UNCHANGED queue /\ pcI' \notin {"msg", "rows", "wait_data", "fill", "commit"}
        /\ msg' = 0 /\ file' \in {file + 1, Len(Log) + 1}
        /\ UNCHANGED <<chunk, lastTs, left, label, room>>
    BY <1>6 DEF EndOfFile, dqVars, queue
  <2>2. InputPlace
    <3>1. file' \in Nat
      BY <1>0, <2>1, LogTypes DEF PlacesRight
    <3> QED
      BY <1>0, <2>1, <3>1 DEF PlacesRight
  <2> QED
    BY <1>3, <2>1, <2>2
<1>7. CASE WaitAtEof \/ InputDone
  <2>1. /\ UNCHANGED queue /\ pcI' \in {"read", "wait_eof", "done"}
        /\ UNCHANGED <<file, msg, chunk, lastTs, left, label, room>>
    BY <1>7 DEF WaitAtEof, InputDone, dqVars, queue, logVars
  <2>2. InputPlace
    BY <1>0, <2>1 DEF PlacesRight
  <2> QED
    BY <1>3, <2>1, <2>2
<1>8. CASE InputWoken
  <2>1. /\ UNCHANGED queue
        /\ pcI' = "read" \/ (pcI = "wait_data" /\ pcI' = "rows")
        /\ UNCHANGED <<file, msg, chunk, lastTs, left, label, room>>
    BY <1>8 DEF InputWoken, dqVars, queue, logVars
  <2>2. InputPlace
    BY <1>0, <2>1 DEF PlacesRight
  <2> QED
    BY <1>3, <2>1, <2>2
<1>9. ASSUME pcI = "msg", TakeMessage
      PROVE  /\ file \in DOMAIN Log /\ Log[file][msg + 1] \in Message
             /\ msg' \in Nat /\ chunk' \in Nat /\ msg' + chunk' <= Len(Log[file])
             /\ file' = file /\ room' = room
  <2>1. file \in DOMAIN Log /\ chunk >= 1 /\ msg + chunk <= Len(Log[file])
        /\ msg \in Nat /\ chunk \in Nat
    BY <1>0, <1>9 DEF PlacesRight
  <2>2. msg' = msg + 1 /\ chunk' = chunk - 1 /\ file' = file /\ room' = room
    BY <1>9 DEF TakeMessage
  <2>3. Len(Log[file]) \in Nat
    BY <2>1, LogTypes
  <2>4. msg < Len(Log[file])
    BY <2>1, <2>3
  <2>5. Log[file][msg + 1] \in Message
    BY <2>1, <2>4, LogTypes
  <2>6. msg' \in Nat /\ chunk' \in Nat /\ msg' + chunk' <= Len(Log[file])
    BY <2>1, <2>2, <2>3
  <2> QED
    BY <2>1, <2>2, <2>5, <2>6
<1>10. CASE ProcessTstamp
  <2>1. /\ TakeMessage /\ NextMessage(chunk') /\ UNCHANGED <<left, label>>
        /\ pcI = "msg" /\ Log[file][msg + 1].type = "ts"
    BY <1>10 DEF ProcessTstamp
  <2>2. /\ file' \in DOMAIN Log /\ Log[file][msg + 1] \in Message /\ file' = file
        /\ msg' \in Nat /\ chunk' \in Nat /\ msg' + chunk' <= Len(Log[file'])
        /\ room' = room
    BY <1>9, <2>1
  <2>3. Log[file][msg + 1].ts \in Nat
    BY <2>1, <2>2 DEF Message
  <2>4. pcI' = IF chunk' = 0 THEN "read" ELSE "msg"
    BY <2>1 DEF NextMessage
  <2>5. lastTs' \in Nat
    BY <1>0, <1>10, <2>3 DEF ProcessTstamp, PlacesRight
  <2>6. InputPlace
    <3>1. chunk' # 0 => chunk' >= 1
      BY <2>2
    <3> QED
      BY <1>0, <2>1, <2>2, <2>4, <2>5, <3>1 DEF PlacesRight
  <2>7. CASE UNCHANGED queue
    BY <1>3, <2>4, <2>6, <2>7
  <2>8. CASE \E ts \in Nat : CommitTstamp(ts)
    <3>1. PICK off : Ring(off)
      BY <1>0 DEF RingRight
    <3>2. QueueTypes' /\ \E o : Ring(o)'
      BY <1>0, <2>8, <3>1, StampKeeps
    <3>3. RingRight'
      BY <2>4, <3>2 DEF RingRight, Room
    <3>4. PlacesRight'
      BY <1>2, <2>6, <2>8
    <3> QED
      BY <3>3, <3>4 DEF QInv
  <2>9. UNCHANGED queue \/ \E ts \in Nat : CommitTstamp(ts)
    BY <1>10, <2>3 DEF ProcessTstamp, dqVars, queue
  <2> QED
    BY <2>7, <2>8, <2>9
<1>11. CASE ProcessData
  <2>1. /\ TakeMessage /\ pcI = "msg" /\ Log[file][msg + 1].type = "data"
        /\ UNCHANGED queue /\ lastTs' = lastTs
    BY <1>11 DEF ProcessData, dqVars, queue
  <2>2. /\ file' \in DOMAIN Log /\ Log[file][msg + 1] \in Message /\ file' = file
        /\ msg' \in Nat /\ chunk' \in Nat /\ msg' + chunk' <= Len(Log[file'])
        /\ room' = room
    BY <1>9, <2>1
  <2>3. Log[file][msg + 1].n \in Nat /\ Log[file][msg + 1].label \in 0..Labels - 1
    BY <2>1, <2>2 DEF Message
  <2>4. \/ NextMessage(chunk') /\ UNCHANGED <<left, label>>
        \/ /\ Log[file][msg + 1].n # 0 /\ pcI' = "rows"
           /\ left' = Log[file][msg + 1].n /\ label' = Log[file][msg + 1].label
    BY <1>11 DEF ProcessData
  <2>5. InputPlace
    <3>1. CASE NextMessage(chunk') /\ UNCHANGED <<left, label>>
      <4>1. chunk' # 0 => chunk' >= 1
        BY <2>2
      <4> QED
        BY <1>0, <2>1, <2>2, <3>1, <4>1 DEF PlacesRight, NextMessage
    <3>2. CASE /\ Log[file][msg + 1].n # 0 /\ pcI' = "rows"
               /\ left' = Log[file][msg + 1].n /\ label' = Log[file][msg + 1].label
      <4>1. left' \in Nat /\ left' >= 1
        BY <2>3, <3>2
      <4> QED
        BY <1>0, <2>1, <2>2, <2>3, <3>2, <4>1 DEF PlacesRight
    <3> QED
      BY <2>4, <3>1, <3>2
  <2>6. pcI' \notin {"fill", "commit"}
    BY <2>4 DEF NextMessage
  <2> QED
    BY <1>3, <2>1, <2>5, <2>6
<1>12. CASE FindRoom
  <2>1. /\ pcI = "rows" /\ UNCHANGED queue /\ UNCHANGED <<file, msg, chunk, lastTs>>
    BY <1>12 DEF FindRoom, dqVars, queue, logVars
  <2>2. /\ file \in DOMAIN Log /\ msg + chunk <= Len(Log[file]) /\ left >= 1
        /\ chunk \in Nat /\ left \in Nat /\ msg \in Nat
    BY <1>0, <2>1 DEF PlacesRight
  <2>3. CASE NextMessage(chunk) /\ left' = 0 /\ label' = 0 /\ UNCHANGED room
    <3>1. chunk # 0 => chunk >= 1
      BY <2>2
    <3>2. InputPlace
      BY <1>0, <1>4, <2>1, <2>2, <2>3, <3>1 DEF PlacesRight, NextMessage
    <3>3. pcI' \notin {"fill", "commit"}
      BY <2>3 DEF NextMessage
    <3> QED
      BY <1>3, <2>1, <3>2, <3>3
  <2>4. CASE pcI' = "wait_data" /\ UNCHANGED <<left, label, room>>
    <3>1. InputPlace
      BY <1>0, <2>1, <2>2, <2>4 DEF PlacesRight
    <3> QED
      BY <1>3, <2>1, <2>4, <3>1
  <2>5. CASE /\ AllocateRows > 0 /\ pcI' = "fill" /\ UNCHANGED <<left, label>>
             /\ room' = IF AllocateRows > left THEN left ELSE AllocateRows
    <3>1. AllocateRows \in Nat
      BY <1>0, DataQueueAssumption DEF AllocateRows, QueueTypes
    <3>2. room' \in Nat /\ room' >= 1 /\ room' <= AllocateRows /\ room' \in 1..left
      BY <2>2, <2>5, <3>1
    <3>3. PICK r \in Nat : r = room'
      BY <3>2
    <3>4. PICK off : Ring(off)
      BY <1>0 DEF RingRight
    <3>5. ~full /\ last + r <= Total /\ off[Len(recs) + 1] + r <= Total
      BY <1>0, <3>2, <3>3, <3>4, AllocatedIsFree
    <3>6. Ring(off)' /\ Room(off)'
      BY <2>1, <3>3, <3>4, <3>5 DEF Ring, Room, queue
    <3>7. RingRight'
      BY <1>0, <2>1, <3>6 DEF RingRight, QueueTypes, queue
    <3>8. InputPlace
      BY <1>0, <2>1, <2>2, <2>5, <3>2, <3>3, <3>5 DEF PlacesRight, queue
    <3>9. PlacesRight'
      BY <1>2, <2>1, <3>8 DEF queue
    <3> QED
      BY <3>7, <3>9 DEF QInv
  <2> QED
    BY <1>12, <2>3, <2>4, <2>5 DEF FindRoom
<1>13. CASE Fill
  <2>1. /\ pcI = "fill" /\ pcI' = "commit" /\ UNCHANGED queue
        /\ UNCHANGED <<file, msg, chunk, lastTs, left, label, room>>
    BY <1>13 DEF Fill, queue, logVars
  <2>2. InputPlace
    BY <1>0, <2>1 DEF PlacesRight, queue
  <2> QED
    BY <1>3, <2>1, <2>2
<1>14. CASE Commit
  <2>1. /\ pcI = "commit" /\ CommitRows(label, room) /\ left' = left - room /\ room' = 0
        /\ IF left' = 0 THEN NextMessage(chunk) /\ label' = 0
           ELSE pcI' = "rows" /\ label' = Plus(label, room)
        /\ UNCHANGED <<file, msg, chunk, lastTs>>
    BY <1>14 DEF Commit, logVars
  <2>2. /\ file \in DOMAIN Log /\ msg + chunk <= Len(Log[file]) /\ left \in Nat
        /\ room \in 1..left /\ ~full /\ last + room <= Total /\ label \in 0..Labels - 1
        /\ chunk \in Nat /\ lastTs \in Nat /\ msg \in Nat /\ file \in Nat
    BY <1>0, <2>1 DEF PlacesRight
  <2>3. PICK off : Ring(off) /\ Room(off)
    BY <1>0 DEF RingRight
  <2>4. room \in Nat \ {0} /\ off[Len(recs) + 1] + room <= Total
    BY <2>1, <2>2, <2>3 DEF Room
  <2>5. QueueTypes' /\ \E o : Ring(o)'
    BY <1>0, <2>1, <2>2, <2>3, <2>4, CommitKeeps
  <2>6. pcI' \in {"read", "msg", "rows"}
    BY <2>1 DEF NextMessage
  <2>7. RingRight'
    BY <2>5, <2>6 DEF RingRight, Room
  <2>8. InputPlace
    <3>1. left' \in Nat /\ (left' # 0 => left' >= 1) /\ (chunk # 0 => chunk >= 1)
      BY <2>1, <2>2
    <3>2. Plus(label, room) \in 0..Labels - 1
      BY <2>2, <2>4, PlusRange
    <3> QED
      BY <1>4, <2>1, <2>2, <3>1, <3>2 DEF NextMessage
  <2>9. PlacesRight'
    BY <1>2, <2>1, <2>2, <2>4, <2>8
  <2> QED
    BY <2>7, <2>9 DEF QInv
<1> QED
  BY <1>5, <1>6, <1>7, <1>8, <1>10, <1>11, <1>12, <1>13, <1>14 DEF InputStep

\* Steps of the output thread
LEMMA QOutputKeeps == QInv /\ OutputStep => QInv'
<1> SUFFICES ASSUME QInv, OutputStep PROVE QInv'
  OBVIOUS
<1>0. RingRight /\ PlacesRight /\ QueueTypes
  BY DEF QInv, RingRight
<1>1. UNCHANGED <<pcI, room, left, label, file, msg, chunk, lastTs>>
  BY DEF OutputStep, Top, OutputWoken, TimedRoom, TimedWake, UntimedLoop, Look, LookNext,
         LockOutput, Written, Retire, outRest, inVars, logVars
<1>2. recs # <<>> => recs[1] \in Rec
  BY <1>0 DEF QueueTypes
<1>3. ASSUME last' = last, full' => full, txN' \in Nat,
             pcO' = "next" => recs' # <<>>,
             pcO' \in {"lock", "writev", "retire"} =>
               recs' # <<>> /\ (recs'[1].type = "data" => txN' <= recs'[1].n)
      PROVE  PlacesRight'
  BY <1>0, <1>1, <1>3 DEF PlacesRight
<1>4. ASSUME UNCHANGED queue, txN' \in Nat, pcO' = "next" => recs # <<>>,
             pcO' \in {"lock", "writev", "retire"} =>
               recs # <<>> /\ (recs[1].type = "data" => txN' <= recs[1].n)
      PROVE  QInv'
  <2>1. RingRight'
    BY <1>0, <1>1, <1>4, RingSame
  <2>2. PlacesRight'
    BY <1>3, <1>4 DEF queue
  <2> QED
    BY <2>1, <2>2 DEF QInv
<1>5. CASE Top \/ OutputWoken \/ TimedRoom \/ TimedWake \/ UntimedLoop
  <2>1. UNCHANGED queue /\ txN' = txN /\ pcO' \notin {"next", "lock", "writev", "retire"}
    BY <1>5 DEF Top, OutputWoken, TimedRoom, TimedWake, UntimedLoop, queue
  <2> QED
    BY <1>0, <1>4, <2>1 DEF PlacesRight
<1>6. CASE Look
  <2>1. UNCHANGED queue
    BY <1>6 DEF Look, queue
  <2>2. CASE recs = <<>>
    BY <1>0, <1>4, <1>6, <2>1, <2>2 DEF Look, Transmitted, PlacesRight
  <2>3. CASE recs # <<>> /\ recs[1].type = "ts"
    BY <1>4, <1>6, <2>1, <2>3 DEF Look
  <2>4. CASE recs # <<>> /\ recs[1].type # "ts"
    <3>1. recs[1].n \in Nat /\ recs[1].type = "data"
      BY <1>2, <2>4 DEF Rec, DataRec
    <3>2. PICK m \in Nat : m = recs[1].n
      BY <3>1
    <3>3. CASE m = 0
      <4>1. pcO' = "next" /\ txN' = txN
        BY <1>6, <2>4, <3>2, <3>3 DEF Look
      <4> QED
        BY <1>0, <1>4, <2>1, <2>4, <4>1 DEF PlacesRight
    <3>4. CASE m # 0
      <4>1. pcO' = "lock" /\ txN' = IF single THEN 1 ELSE m
        BY <1>6, <2>4, <3>2, <3>4 DEF Look
      <4>2. txN' \in Nat /\ txN' <= m
        BY <3>4, <4>1
      <4> QED
        BY <1>4, <2>1, <2>4, <3>2, <4>1, <4>2
    <3> QED
      BY <3>3, <3>4
  <2> QED
    BY <2>2, <2>3, <2>4
<1>7. CASE LookNext
  <2>1. UNCHANGED queue /\ pcO = "next" /\ recs # <<>>
    BY <1>0, <1>7 DEF LookNext, queue, PlacesRight
  <2>2. CASE Len(recs) > 1
    <3>1. pcO' = "retire" /\ txN' = 0
      BY <1>7, <2>2 DEF LookNext
    <3>2. recs[1].type = "data" => recs[1].n \in Nat
      BY <1>2, <2>1 DEF Rec, DataRec
    <3>3. recs[1].type = "data" => 0 <= recs[1].n
      BY <3>2
    <3> QED
      BY <1>4, <2>1, <3>1, <3>3
  <2>3. CASE ~(Len(recs) > 1)
    BY <1>0, <1>4, <1>7, <2>1, <2>3 DEF LookNext, Transmitted, PlacesRight
  <2> QED
    BY <2>2, <2>3
<1>8. CASE LockOutput \/ Written
  <2>1. UNCHANGED queue /\ txN' = txN /\ pcO \in {"lock", "writev"} /\ pcO' # "next"
    BY <1>8 DEF LockOutput, Written, queue
  <2> QED
    BY <1>0, <1>4, <2>1 DEF PlacesRight
<1>9. CASE Retire
  <2>1. pcO = "retire" /\ pcO' \in {"look", "room"} /\ txN' = 0
    BY <1>9 DEF Retire
  <2>2. recs # <<>> /\ (recs[1].type = "data" => txN <= recs[1].n) /\ txN \in Nat
    BY <1>0, <2>1 DEF PlacesRight
  <2>3. PICK off : Ring(off) /\ Room(off)
    BY <1>0 DEF RingRight
  <2>4. /\ QueueTypes' /\ last' = last /\ (full' => full)
        /\ \E o : Ring(o)' /\ o[Len(recs') + 1] <= off[Len(recs) + 1]
    BY <1>0, <1>9, <2>2, <2>3, RetireKeeps
  <2>5. PICK o : Ring(o)' /\ o[Len(recs') + 1] <= off[Len(recs) + 1]
    BY <2>4
  <2>6. Room(o)'
    <3>1. o[Len(recs') + 1] \in 0..Total
      <4>1. Len(recs') + 1 \in 1..Len(recs') + 1
        BY <2>4 DEF QueueTypes
      <4> QED
        BY <2>5, <4>1 DEF Ring
    <3>2. off[Len(recs) + 1] \in 0..Total
      <4>1. Len(recs) + 1 \in 1..Len(recs) + 1
        BY <1>0 DEF QueueTypes
      <4> QED
        BY <2>3, <4>1 DEF Ring
    <3>3. PICK x \in 0..Total, y \in 0..Total :
            x = o[Len(recs') + 1] /\ y = off[Len(recs) + 1]
      BY <3>1, <3>2
    <3>4. room \in Nat
      BY <1>0 DEF PlacesRight
    <3>5. ASSUME y + room <= Total PROVE x + room <= Total
      BY <2>5, <3>3, <3>4, <3>5, DataQueueAssumption
    <3> QED
      BY <1>1, <2>3, <3>3, <3>5 DEF Room
  <2>7. RingRight'
    BY <2>4, <2>5, <2>6 DEF RingRight
  <2>8. PlacesRight'
    BY <1>3, <2>1, <2>4
  <2> QED
    BY <2>7, <2>8 DEF QInv
<1> QED
  BY <1>5, <1>6, <1>7, <1>8, <1>9 DEF OutputStep

\* Every step: the control thread does not touch the queue.
LEMMA QStep == QInv /\ [Next]_vars => QInv'
<1>1. QInv /\ UNCHANGED <<dqVars, logVars, inVars, outVars>> => QInv'
  <2> SUFFICES ASSUME QInv, UNCHANGED <<dqVars, logVars, inVars, outVars>> PROVE QInv'
    OBVIOUS
  <2>1. RingRight'
    BY RingSame DEF QInv, dqVars, queue, inVars
  <2>2. PlacesRight'
    BY DEF QInv, PlacesRight, dqVars, logVars, inVars, outVars
  <2> QED
    BY <2>1, <2>2 DEF QInv
<1>2. ControlStep \/ Command \/ CloseCmd \/ Tick =>
        UNCHANGED <<dqVars, logVars, inVars, outVars>>
  BY DEF ControlStep, TimerPulse, QuitPulse, Execute, Quit, Event, Join, Command, CloseCmd,
         Tick, ctlRest
<1>3. UNCHANGED vars => UNCHANGED <<dqVars, logVars, inVars, outVars>>
  BY DEF vars
<1> QED
  BY <1>1, <1>2, <1>3, QInputKeeps, QOutputKeeps DEF Next

\* The invariant implies the assertions.
LEMMA QAsserts == QInv => AssertionsHold
<1> SUFFICES ASSUME QInv PROVE AssertionsHold
  OBVIOUS
<1>1. pcI = "commit" => CommitAsserts(room)
  BY DEF QInv, PlacesRight, CommitAsserts
<1>2. ASSUME pcO = "retire" PROVE recs # <<>> /\ (recs[1].type = "data" => RetireAsserts(txN))
  <2>1. recs # <<>> /\ txN \in Nat /\ (recs[1].type = "data" => txN <= recs[1].n)
    BY <1>2 DEF QInv, PlacesRight
  <2>2. PICK off : Ring(off)
    BY DEF QInv, RingRight
  <2>3. recs[1].type = "data" => RetireAsserts(txN)
    BY <2>1, <2>2, RingAsserts DEF QInv, RingRight
  <2> QED
    BY <2>1, <2>3
<1> QED
  BY <1>1, <1>2 DEF AssertionsHold

\* The assertions of commit_rows and retire_rows (src/tmpplib/src/DQ.cc), and
\* the underflow errors of the latter, never fire, for every log, ring and
\* order of rdr's threads: although each is read without the lock, the other
\* thread only makes them truer.
THEOREM RingAssertionsHold == Spec => []AssertionsHold
<1>1. Init => QInv
  BY QInit
<1>2. QInv /\ [Next]_vars => QInv'
  BY QStep
<1>3. QInv => AssertionsHold
  BY QAsserts
<1> QED
  BY <1>1, <1>2, <1>3, PTL DEF Spec

-----------------------------------------------------------------------------
(* Types *)

\* What TypeOK says of the variables the other two invariants leave out.
RestTypes ==
  /\ opt \in Options
  /\ {started, regulated, quit, fdOpen, dcQuit, haveTs, single, rcv, quitReceived,
      attached, cmdOpen} \subseteq BOOLEAN
  /\ {period, timer, nr, ncmd, quitPulses} \subseteq Nat
  /\ pulses \in 0..MaxPulses
  /\ DOMAIN row = 0..Total - 1
  /\ pcI \in {"read", "msg", "rows", "fill", "commit", "eof", "wait_eof", "wait_data",
              "done"}
  /\ pcO \in {"top", "wait_stopped", "wait_time", "look", "next", "lock",
              "writev", "retire", "room", "wake", "untimed", "done"}
  /\ pcC \in {"loop", "exec", "event", "join_input", "join_output", "exit"}

\* The three together are the types.
LEMMA TypesFrom == RestTypes /\ QInv /\ Handshake => TypeOK
<1> SUFFICES ASSUME RestTypes, QInv, Handshake PROVE TypeOK
  OBVIOUS
<1>1. TypeOKQueue
  <2>1. \A i \in DOMAIN recs : recs[i].type = "data" => recs[i] \in DataRec
    <3>1. \A i \in DOMAIN recs : recs[i] \in Rec
      BY DEF QInv, RingRight, QueueTypes
    <3> QED
      BY <3>1 DEF Rec
  <2> QED
    BY <2>1 DEF TypeOKQueue, QInv, RingRight, QueueTypes, RestTypes
<1>2. {itSem, otSem} \subseteq Nat /\ itBlocked \in {"no", "data", "eof"}
      /\ otBlocked \in {"no", "stopped", "time"}
  BY DEF Handshake
<1>3. {file, msg, chunk, lastTs, left, room, txN} \subseteq Nat /\ label \in 0..Labels - 1
  BY DEF QInv, PlacesRight
<1> QED
  BY <1>1, <1>2, <1>3 DEF TypeOK, RestTypes

\* At first every variable is of its type.
LEMMA RestInit == Init => RestTypes
<1> SUFFICES ASSUME Init PROVE RestTypes
  OBVIOUS
<1>1. opt.regulate \in BOOLEAN
  BY PlaybackAssumption DEF Init
<1>2. DOMAIN row = 0..Total - 1
  BY DEF Init, InitQueue
<1>3. regulated \in BOOLEAN
  BY <1>1 DEF Init
<1>4. {started, quit, fdOpen, dcQuit, haveTs, single, rcv, quitReceived, attached,
       cmdOpen} \subseteq BOOLEAN
  BY DEF Init
<1>5. {period, timer, nr, ncmd, quitPulses} \subseteq Nat /\ pulses \in 0..MaxPulses
  <2>1. DefaultPeriod \in Nat /\ MaxPulses \in Nat
    BY PlaybackAssumption
  <2>2. /\ period = DefaultPeriod /\ timer = 0 /\ nr = 0 /\ ncmd = 0 /\ quitPulses = 0
        /\ pulses = 0
    BY DEF Init
  <2> QED
    BY <2>1, <2>2
<1>6. opt \in Options /\ pcI = "read" /\ pcO = "top" /\ pcC \in {"exec", "loop"}
  BY DEF Init
<1> QED
  BY <1>2, <1>3, <1>4, <1>5, <1>6 DEF RestTypes

\* Steps of the input thread
LEMMA RestInputKeeps == RestTypes /\ InputStep => RestTypes'
<1> SUFFICES ASSUME RestTypes, InputStep PROVE RestTypes'
  OBVIOUS
<1>1. UNCHANGED <<opt, genVars, dcQuit, outVars, ctlVars, pulses>>
  BY DEF InputStep, ReadLog, EndOfFile, WaitAtEof, InputWoken, InputDone, TakeMessage,
         ProcessTstamp, ProcessData, FindRoom, Fill, Commit, pulseVars
<1>2. haveTs' \in BOOLEAN /\ quitPulses' \in Nat
  <2>1. haveTs' = haveTs \/ haveTs' = TRUE
    BY DEF InputStep, ReadLog, EndOfFile, WaitAtEof, InputWoken, InputDone,
           ProcessTstamp, ProcessData, FindRoom, Fill, Commit, logVars
  <2>2. quitPulses' = quitPulses \/ quitPulses' = quitPulses + 1
    BY DEF InputStep, ReadLog, EndOfFile, WaitAtEof, InputWoken, InputDone, TakeMessage,
           ProcessTstamp, ProcessData, FindRoom, Fill, Commit, pulseVars
  <2>3. haveTs \in BOOLEAN /\ quitPulses \in Nat
    BY DEF RestTypes
  <2>4. haveTs' \in BOOLEAN
    BY <2>1, <2>3, Zenon
  <2>5. quitPulses' \in Nat
    BY <2>2, <2>3
  <2> QED
    BY <2>4, <2>5
<1>3. DOMAIN row' = 0..Total - 1
  BY DEF RestTypes, InputStep, ReadLog, EndOfFile, WaitAtEof, InputWoken, InputDone,
         TakeMessage, ProcessTstamp, ProcessData, FindRoom, Fill, FillRows, Commit, dqVars
<1>4. pcI' \in {"read", "msg", "rows", "fill", "commit", "eof", "wait_eof", "wait_data",
                "done"}
  BY DEF RestTypes, InputStep, ReadLog, EndOfFile, WaitAtEof, InputWoken, InputDone,
         NextMessage, ProcessTstamp, ProcessData, FindRoom, Fill, Commit
<1> QED
  BY <1>1, <1>2, <1>3, <1>4 DEF RestTypes, genVars, outVars, ctlVars

\* Steps of the output thread
LEMMA RestOutputKeeps == RestTypes /\ QInv /\ OutputStep => RestTypes'
<1> SUFFICES ASSUME RestTypes, QInv, OutputStep PROVE RestTypes'
  OBVIOUS
<1>1. UNCHANGED <<row, opt, genVars, dcQuit, haveTs, pcI, ctlVars, pulseVars>>
  BY DEF OutputStep, Top, OutputWoken, TimedRoom, TimedWake, UntimedLoop, Look, LookNext,
         LockOutput, Written, Retire, outRest, logVars, inVars
<1>2. AllocateRows \in Nat
  BY DataQueueAssumption DEF QInv, RingRight, QueueTypes, AllocateRows
<1>3. single' \in BOOLEAN /\ nr' \in Nat
  <2>1. single' \in {single, TRUE, FALSE}
    BY DEF OutputStep, Top, OutputWoken, TimedRoom, TimedWake, UntimedLoop,
           Look, LookNext, LockOutput, Written, Retire
  <2>2. nr' \in {nr, AllocateRows, 0}
    BY DEF OutputStep, Top, OutputWoken, TimedRoom, TimedWake, UntimedLoop,
           Look, LookNext, LockOutput, Written, Retire
  <2>3. nr \in Nat /\ single \in BOOLEAN
    BY DEF RestTypes
  <2>4. single' \in BOOLEAN
    BY <2>1, <2>3, Zenon
  <2>5. nr' \in Nat
    BY <1>2, <2>2, <2>3
  <2> QED
    BY <2>4, <2>5
<1>4. pcO' \in {"top", "wait_stopped", "wait_time", "look", "next", "lock",
                "writev", "retire", "room", "wake", "untimed", "done"}
  BY DEF OutputStep, Top, OutputWoken, TimedRoom, TimedWake, UntimedLoop, Look, LookNext,
         LockOutput, Written, Retire, Transmitted
<1> QED
  BY <1>1, <1>3, <1>4 DEF RestTypes, genVars, ctlVars, pulseVars

\* What a command leaves in the generator
LEMMA CommandTypes ==
  ASSUME RestTypes,
         \/ Start \/ Stop \/ SingleStep \/ Play \/ Faster \/ Slower \/ FastForward
  PROVE  {started', regulated'} \subseteq BOOLEAN /\ {period', timer'} \subseteq Nat
<1>0. /\ started \in BOOLEAN /\ regulated \in BOOLEAN /\ period \in Nat /\ timer \in Nat
      /\ DefaultPeriod \in Nat
  BY PlaybackAssumption DEF RestTypes
<1>1. ASSUME NEW t \in Nat, Settime(t) PROVE timer' \in Nat
  BY <1>0, <1>1 DEF Settime
<1>2. ASSUME TmStart, period' \in Nat PROVE started' \in BOOLEAN /\ timer' \in Nat
  BY <1>0, <1>2 DEF TmStart, Settime
<1>3. ASSUME TmPlay
      PROVE  {started', regulated'} \subseteq BOOLEAN /\ {period', timer'} \subseteq Nat
  BY <1>0, <1>2, <1>3 DEF TmPlay
<1>4. CASE Start
  BY <1>0, <1>2, <1>4 DEF Start
<1>5. CASE Stop
  BY <1>0, <1>1, <1>5 DEF Stop
<1>6. CASE SingleStep
  BY <1>0, <1>1, <1>2, <1>6 DEF SingleStep
<1>7. CASE Play
  BY <1>3, <1>7 DEF Play
<1>8. CASE Faster
  <2>1. (period * 2) \div 3 \in Nat
    BY <1>0
  <2> QED
    BY <1>0, <1>1, <1>3, <1>8, <2>1 DEF Faster
<1>9. CASE Slower
  <2>1. (period * 3) \div 2 \in Nat
    BY <1>0
  <2> QED
    BY <1>0, <1>1, <1>3, <1>9, <2>1 DEF Slower
<1>10. CASE FastForward
  BY <1>0, <1>1, <1>10 DEF FastForward
<1> QED
  BY <1>4, <1>5, <1>6, <1>7, <1>8, <1>9, <1>10

\* Steps of the control thread, its environment and the timer
LEMMA RestControlKeeps ==
  RestTypes /\ (ControlStep \/ Command \/ CloseCmd \/ Tick) => RestTypes'
<1> SUFFICES ASSUME RestTypes, ControlStep \/ Command \/ CloseCmd \/ Tick PROVE RestTypes'
  OBVIOUS
<1>1. UNCHANGED <<row, opt, haveTs, single, nr, pcI, pcO>>
  BY DEF ControlStep, TimerPulse, QuitPulse, Execute, Quit, Event, Join, Command, CloseCmd,
         Tick, ctlRest, dqVars, logVars, inVars, outVars
<1>0. pulses \in 0..MaxPulses /\ MaxPulses \in Nat /\ quitPulses \in Nat
  BY PlaybackAssumption DEF RestTypes
<1> DEFINE Types == /\ {started', regulated', quit', fdOpen', dcQuit', rcv', quitReceived',
                        attached', cmdOpen'} \subseteq BOOLEAN
                    /\ {period', timer', ncmd', quitPulses'} \subseteq Nat
                    /\ pulses' \in 0..MaxPulses
                    /\ pcC' \in {"loop", "exec", "event", "join_input", "join_output", "exit"}
<1>2. ASSUME Continue
      PROVE  /\ rcv' \in BOOLEAN /\ attached' \in BOOLEAN
             /\ pcC' \in {"loop", "exec", "event", "join_input", "join_output", "exit"}
  BY <1>2 DEF Continue, AfterMessage, RestTypes
<1>3. CASE TimerPulse
  <2>1. Types
    <3>0. pulses > 0 /\ pulses' = pulses - 1
      BY <1>3 DEF TimerPulse
    <3>1. pulses' \in 0..MaxPulses
      BY <1>0, <3>0
    <3> QED
      BY <1>3, <3>1 DEF TimerPulse, RestTypes, genVars
  <2> QED
    BY <1>1, <2>1 DEF RestTypes
<1>4. CASE QuitPulse
  <2>1. Types
    <3>1. quitPulses' \in Nat
      BY <1>0, <1>4 DEF QuitPulse
    <3>2. {started', regulated', quit', fdOpen', dcQuit', rcv', quitReceived',
           attached', cmdOpen'} \subseteq BOOLEAN
      BY <1>4 DEF QuitPulse, RestTypes
    <3>3. period' \in Nat /\ timer' \in Nat /\ ncmd' \in Nat /\ pulses' \in 0..MaxPulses
      BY <1>4 DEF QuitPulse, RestTypes
    <3>4. pcC' = "exec"
      BY <1>4 DEF QuitPulse
    <3> QED
      BY <3>1, <3>2, <3>3, <3>4
  <2> QED
    BY <1>1, <2>1 DEF RestTypes
<1>5. CASE Execute
  <2>1. Types
    <3>1. {started', regulated'} \subseteq BOOLEAN /\ {period', timer'} \subseteq Nat
      BY <1>5, CommandTypes DEF Execute
    <3> QED
      BY <1>2, <1>5, <3>1 DEF Execute, RestTypes, pulseVars
  <2> QED
    BY <1>1, <2>1 DEF RestTypes
<1>6. CASE Quit
  <2>1. Types
    BY <1>6 DEF Quit, RestTypes, pulseVars
  <2> QED
    BY <1>1, <2>1 DEF RestTypes
<1>7. CASE Event
  <2>1. Types
    <3>1. dcQuit' \in BOOLEAN
      BY <1>7 DEF Event, HandleEvent
    <3> QED
      BY <1>2, <1>7, <3>1 DEF Event, RestTypes, genVars, pulseVars
  <2> QED
    BY <1>1, <2>1 DEF RestTypes
<1>8. CASE Join
  <2>1. Types
    BY <1>8 DEF Join, RestTypes, genVars, pulseVars
  <2> QED
    BY <1>1, <2>1 DEF RestTypes
<1>9. CASE Command
  <2>1. Types
    BY <1>9 DEF Command, RestTypes, pulseVars
  <2> QED
    BY <1>1, <2>1 DEF RestTypes
<1>10. CASE CloseCmd
  <2>1. Types
    BY <1>10 DEF CloseCmd, AfterMessage, RestTypes, genVars, pulseVars
  <2> QED
    BY <1>1, <2>1 DEF RestTypes
<1>11. CASE Tick
  <2>1. Types
    <3>0. pulses < MaxPulses /\ pulses' = pulses + 1
      BY <1>11 DEF Tick
    <3>1. pulses' \in 0..MaxPulses
      BY <1>0, <3>0
    <3> QED
      BY <1>11, <3>1 DEF Tick, RestTypes, genVars, ctlVars
  <2> QED
    BY <1>1, <2>1 DEF RestTypes
<1> QED
  BY <1>3, <1>4, <1>5, <1>6, <1>7, <1>8, <1>9, <1>10, <1>11 DEF ControlStep

\* Every step.
LEMMA RestStep == RestTypes /\ QInv /\ [Next]_vars => RestTypes'
<1>1. RestTypes /\ UNCHANGED vars => RestTypes'
  BY DEF RestTypes, vars, dqVars, genVars, logVars, inVars, outVars, ctlVars, pulseVars
<1> QED
  BY <1>1, RestInputKeeps, RestOutputKeeps, RestControlKeeps DEF Next

\* Every variable of rdr's three threads keeps to its type: the slots of the
\* ring to its size, the labels to the range of MFCtr, the pulses to theirs.
THEOREM TypesRight == Spec => []TypeOK
<1>1. Init => RestTypes /\ QInv /\ Handshake
  BY RestInit, QInit, HandshakeInit
<1>2. RestTypes /\ QInv /\ Handshake /\ [Next]_vars => (RestTypes /\ QInv /\ Handshake)'
  BY RestStep, QStep, HandshakeStep
<1>3. RestTypes /\ QInv /\ Handshake => TypeOK
  BY TypesFrom
<1> QED
  BY <1>1, <1>2, <1>3, PTL DEF Spec

-----------------------------------------------------------------------------
\* Rows of queues: how many rows a queue's items hold

\* The places of rows among items, as RowFifo!Rows counts them.
Labelled(s) == {i \in DOMAIN s : "label" \in DOMAIN s[i]}

\* What an instance counts.
LEMMA RowsAre == \A s : Fifo!Rows(s) = Cardinality(Labelled(s))
<1>1. ASSUME NEW S PROVE Fifo!Cardinality(S) = Cardinality(S)
  BY DEF Fifo!Cardinality, Cardinality
<1> QED
  BY <1>1 DEF Fifo!Rows, Labelled

\* The labelled elements of two sequences, one after the other.
LEMMA RowsConcat ==
  ASSUME NEW X, NEW s \in Seq(X), NEW t \in Seq(X)
  PROVE  /\ Fifo!Rows(s) \in Nat /\ Fifo!Rows(t) \in Nat
         /\ Fifo!Rows(s \o t) = Fifo!Rows(s) + Fifo!Rows(t)
<1>1. PICK a \in Nat, b \in Nat : a = Len(s) /\ b = Len(t) /\ DOMAIN s = 1..a /\ DOMAIN t = 1..b
  BY LenProperties
<1>2. PICK c \in Seq(X) : c = s \o t
  BY ConcatProperties
<1>3. /\ DOMAIN c = 1..a + b
      /\ \A i \in 1..a + b : c[i] = IF i <= a THEN s[i] ELSE t[i - a]
  BY <1>1, <1>2, ConcatProperties, LenProperties
<1>4. PICK S, T : S = Labelled(s) /\ T = Labelled(t)
  OBVIOUS
<1>5. PICK M : M = {a + i : i \in T}
  OBVIOUS
<1>6. S \subseteq 1..a /\ T \subseteq 1..b /\ \A i \in T : i \in Nat
  BY <1>1, <1>4 DEF Labelled
<1>7. IsFiniteSet(S) /\ IsFiniteSet(T)
  <2>1. a \in Int /\ b \in Int /\ 1 \in Int
    BY <1>1
  <2>2. IsFiniteSet(1..a) /\ IsFiniteSet(1..b)
    BY <2>1, FS_Interval
  <2> QED
    BY <1>6, <2>2, FS_Subset
<1>8. IsFiniteSet(M) /\ Cardinality(M) = Cardinality(T)
  <2>1. PICK f : f = [i \in T |-> a + i]
    OBVIOUS
  <2>2. f \in [T -> M] /\ \A x, y \in T : f[x] = f[y] => x = y
    BY <1>1, <1>5, <1>6, <2>1
  <2>3. \A z \in M : \E x \in T : f[x] = z
    BY <1>5, <2>1
  <2>4. f \in Bijection(T, M)
    BY <2>2, <2>3 DEF Bijection, Injection, Surjection, IsInjective
  <2> QED
    BY <1>7, <2>4, FS_Bijection DEF ExistsBijection
<1>9. Labelled(c) = S \cup M
  <2>1. ASSUME NEW i \in 1..a + b, "label" \in DOMAIN c[i] PROVE i \in S \cup M
    <3>1. CASE i <= a
      BY <1>1, <1>3, <1>4, <2>1, <3>1 DEF Labelled
    <3>2. CASE ~(i <= a)
      <4>1. i - a \in 1..b /\ i = a + (i - a)
        BY <1>1, <2>1, <3>2
      <4>2. i - a \in T
        BY <1>1, <1>3, <1>4, <2>1, <3>2, <4>1 DEF Labelled
      <4> QED
        BY <1>5, <4>1, <4>2
    <3> QED
      BY <3>1, <3>2
  <2>2. ASSUME NEW i \in S PROVE i \in Labelled(c)
    <3>1. i \in 1..a /\ "label" \in DOMAIN s[i]
      BY <1>1, <1>4 DEF Labelled
    <3>2. i \in 1..a + b /\ i <= a
      BY <1>1, <3>1
    <3> QED
      BY <1>3, <3>1, <3>2 DEF Labelled
  <2>3. ASSUME NEW j \in T PROVE a + j \in Labelled(c)
    <3>1. j \in 1..b /\ "label" \in DOMAIN t[j]
      BY <1>1, <1>4 DEF Labelled
    <3>2. a + j \in 1..a + b /\ ~(a + j <= a) /\ (a + j) - a = j
      BY <1>1, <3>1
    <3> QED
      BY <1>3, <3>1, <3>2 DEF Labelled
  <2>4. Labelled(c) \subseteq S \cup M
    BY <1>3, <2>1 DEF Labelled
  <2>5. S \subseteq Labelled(c) /\ M \subseteq Labelled(c)
    BY <1>5, <2>2, <2>3
  <2> QED
    BY <2>4, <2>5
<1>10. S \cap M = {}
  <2>1. \A i \in T : a + i > a
    BY <1>1, <1>6
  <2> QED
    BY <1>1, <1>5, <1>6, <2>1
<1>11. Cardinality(S \cup M) = Cardinality(S) + Cardinality(T)
  <2>1. Cardinality(S) \in Nat /\ Cardinality(M) \in Nat
    BY <1>7, <1>8, FS_CardinalityType
  <2>2. Cardinality(S \cup M) = Cardinality(S) + Cardinality(M) - Cardinality(S \cap M)
    BY <1>7, <1>8, FS_Union
  <2>3. Cardinality(S \cap M) = 0
    BY <1>10, FS_EmptySet
  <2>4. PICK p \in Nat, q \in Nat : p = Cardinality(S) /\ q = Cardinality(M)
    BY <2>1
  <2>5. Cardinality(S \cup M) = p + q - 0
    BY <2>2, <2>3, <2>4
  <2> QED
    BY <1>8, <2>4, <2>5
<1>12. /\ Cardinality(Labelled(s)) \in Nat /\ Cardinality(Labelled(t)) \in Nat
       /\ Cardinality(Labelled(s \o t)) = Cardinality(Labelled(s)) + Cardinality(Labelled(t))
  BY <1>2, <1>4, <1>7, <1>9, <1>11, FS_CardinalityType
<1> QED
  BY <1>12, RowsAre

\* The rest of a sequence has no more rows than the whole.
LEMMA RowsRest ==
  ASSUME NEW X, NEW s \in Seq(X), NEW n \in 0..Len(s)
  PROVE  Fifo!Rows(SubSeq(s, n + 1, Len(s))) <= Fifo!Rows(s)
<1>1. PICK a \in Seq(X), b \in Seq(X) : a = SubSeq(s, 1, n) /\ b = SubSeq(s, n + 1, Len(s))
  <2>1. <<>> \in Seq(X)
    OBVIOUS
  <2>2. SubSeq(s, 1, n) \in Seq(X) /\ SubSeq(s, n + 1, Len(s)) \in Seq(X)
    BY <2>1, LeaveConcat
  <2> QED
    BY <2>2
<1>2. s = a \o b
  BY <1>1, SplitSeq
<1>3. /\ Fifo!Rows(a) \in Nat /\ Fifo!Rows(b) \in Nat
      /\ Fifo!Rows(s) = Fifo!Rows(a) + Fifo!Rows(b)
  BY <1>2, RowsConcat
<1> QED
  BY <1>1, <1>3

\* Rows and stamps
LEMMA RowsOfItems ==
  /\ \A n \in Nat : \A s : (DOMAIN s = 1..n /\ \A i \in 1..n : \E a, b : s[i] = [label |-> a, data |-> b])
        => Fifo!Rows(s) = n
  /\ \A ts : Fifo!Rows(<<[ts |-> ts]>>) = 0
  /\ Fifo!Rows(<<>>) = 0
<1>1. ASSUME NEW n \in Nat, NEW s, DOMAIN s = 1..n,
             \A i \in 1..n : \E a, b : s[i] = [label |-> a, data |-> b]
      PROVE  Fifo!Rows(s) = n
  <2>0. \A a, b : "label" \in DOMAIN [label |-> a, data |-> b]
    OBVIOUS
  <2>1. Labelled(s) = 1..n
    BY <1>1, <2>0 DEF Labelled
  <2>2. Cardinality(1..n) = n
    BY FS_Interval
  <2> QED
    BY <2>1, <2>2, RowsAre
<1>2. ASSUME NEW ts PROVE Fifo!Rows(<<[ts |-> ts]>>) = 0
  <2>1. "label" \notin DOMAIN [ts |-> ts]
    OBVIOUS
  <2>2. PICK s : s = <<[ts |-> ts]>>
    OBVIOUS
  <2>3. DOMAIN s = {1} /\ s[1] = [ts |-> ts]
    BY <2>2
  <2>4. Labelled(s) = {}
    BY <2>1, <2>3 DEF Labelled
  <2> QED
    BY <2>2, <2>4, FS_EmptySet, RowsAre
<1>3. Fifo!Rows(<<>>) = 0
  <2>1. Labelled(<<>>) = {}
    BY DEF Labelled
  <2> QED
    BY <2>1, FS_EmptySet, RowsAre
<1> QED
  BY <1>1, <1>2, <1>3

-----------------------------------------------------------------------------
\* The items that records and ring make up

\* An item is a row under its label or a time stamp.
Item == [label : Int, data : Int] \cup [ts : Nat]
Pieces == Seq(Item)
RingRows == [0..Total - 1 -> Int]

\* What a record holds in the ring rw, and what the records rs hold
PieceOf(rw, d) ==
  IF d.type = "ts" THEN <<[ts |-> d.ts]>>
  ELSE [k \in 1..d.n |-> [label |-> Plus(d.start, k - 1), data |-> rw[Slot(d.Qrow, k - 1)]]]

PiecesOf(rw, rs) == [i \in DOMAIN rs |-> PieceOf(rw, rs[i])]

HeldOf(rw, rs) == FlattenSeq(PiecesOf(rw, rs))

\* Before a step and after it.
LEMMA HeldIs == Held = HeldOf(row, recs) /\ Held' = HeldOf(row', recs')
<1>1. Held = HeldOf(row, recs)
  BY DEF Held, HeldOf, PiecesOf, PieceOf, ItemsOf, RowsOf
<1>2. Held' = HeldOf(row', recs')
  BY DEF Held, HeldOf, PiecesOf, PieceOf, ItemsOf, RowsOf
<1> QED
  BY <1>1, <1>2

\* A slot of the ring.
LEMMA SlotRange ==
  ASSUME NEW q \in 0..Total - 1, NEW k \in 0..Total
  PROVE  Slot(q, k) \in 0..Total - 1
BY DataQueueAssumption DEF Slot

\* A record holds a stamp, or its rows.
LEMMA PieceType ==
  ASSUME NEW rw \in RingRows, NEW d \in Rec
  PROVE  /\ PieceOf(rw, d) \in Pieces
         /\ d.type = "ts" => /\ d.ts \in Nat
                             /\ PieceOf(rw, d) = <<[ts |-> d.ts]>>
                             /\ Len(PieceOf(rw, d)) = 1 /\ Fifo!Rows(PieceOf(rw, d)) = 0
         /\ d.type # "ts" => /\ d.type = "data" /\ d \in DataRec
                             /\ Len(PieceOf(rw, d)) = d.n /\ Fifo!Rows(PieceOf(rw, d)) = d.n
                             /\ DOMAIN PieceOf(rw, d) = 1..d.n
                             /\ \A k \in 1..d.n : PieceOf(rw, d)[k] =
                                  [label |-> Plus(d.start, k - 1),
                                   data |-> rw[Slot(d.Qrow, k - 1)]]
<1>1. CASE d.type = "ts"
  <2>1. d.ts \in Nat
    BY <1>1 DEF Rec, DataRec
  <2>2. PieceOf(rw, d) = <<[ts |-> d.ts]>>
    BY <1>1 DEF PieceOf
  <2>3. [ts |-> d.ts] \in Item
    BY <2>1 DEF Item
  <2>4. <<[ts |-> d.ts]>> \in Pieces /\ Len(<<[ts |-> d.ts]>>) = 1
    BY <2>3 DEF Pieces
  <2> QED
    BY <1>1, <2>1, <2>2, <2>4, RowsOfItems
<1>2. CASE d.type # "ts"
  <2>1. d.type = "data" /\ d \in DataRec
    <3>1. d \in DataRec \/ d \in [type : {"ts"}, ts : Nat]
      BY DEF Rec
    <3>2. d \in [type : {"ts"}, ts : Nat] => d.type = "ts"
      OBVIOUS
    <3>3. d \in DataRec
      BY <1>2, <3>1, <3>2
    <3> QED
      BY <3>3 DEF DataRec
  <2>2. PICK n \in 0..Total, s \in 0..Labels - 1, q \in 0..Total - 1 :
          n = d.n /\ s = d.start /\ q = d.Qrow
    BY <2>1 DEF DataRec
  <2>3. PICK p : p = [k \in 1..n |-> [label |-> Plus(s, k - 1), data |-> rw[Slot(q, k - 1)]]]
    OBVIOUS
  <2>4. PieceOf(rw, d) = p
    BY <1>2, <2>2, <2>3 DEF PieceOf
  <2>5. n \in Nat /\ DOMAIN p = 1..n
    BY <2>3, DataQueueAssumption
  <2>6. \A k \in 1..n : p[k] = [label |-> Plus(s, k - 1), data |-> rw[Slot(q, k - 1)]]
    BY <2>3
  <2>7. ASSUME NEW k \in 1..n PROVE p[k] \in Item
    <3>1. k - 1 \in Nat /\ k - 1 \in 0..Total
      BY <2>5, DataQueueAssumption
    <3>2. Plus(s, k - 1) \in Int
      <4>1. Plus(s, k - 1) \in 0..Labels - 1
        BY <3>1, PlusRange
      <4> QED
        BY <4>1, DataQueueAssumption
    <3>3. rw[Slot(q, k - 1)] \in Int
      BY <3>1, SlotRange DEF RingRows
    <3>4. PICK a \in Int, b \in Int : a = Plus(s, k - 1) /\ b = rw[Slot(q, k - 1)]
      BY <3>2, <3>3
    <3>5. p[k] = [label |-> a, data |-> b]
      BY <2>6, <3>4
    <3> QED
      BY <3>5 DEF Item
  <2>8. p \in Pieces /\ Len(p) = n
    <3>1. p \in [1..n -> Item]
      BY <2>3, <2>7
    <3> QED
      BY <2>5, <3>1 DEF Pieces
  <2>9. \A k \in 1..n : \E a, b : p[k] = [label |-> a, data |-> b]
    BY <2>6
  <2>10. Fifo!Rows(p) = n
    BY <2>5, <2>9, RowsOfItems
  <2> QED
    BY <1>2, <2>1, <2>2, <2>4, <2>5, <2>6, <2>8, <2>10
<1> QED
  BY <1>1, <1>2

\* The pieces are as many as the records.
LEMMA PiecesType ==
  ASSUME NEW rw \in RingRows, NEW rs \in Seq(Rec)
  PROVE  /\ PiecesOf(rw, rs) \in Seq(Pieces) /\ Len(PiecesOf(rw, rs)) = Len(rs)
         /\ \A i \in 1..Len(rs) : PiecesOf(rw, rs)[i] = PieceOf(rw, rs[i])
<1>1. Len(rs) \in Nat /\ DOMAIN rs = 1..Len(rs) /\ \A i \in 1..Len(rs) : rs[i] \in Rec
  BY LenProperties, ElementOfSeq
<1>2. \A i \in 1..Len(rs) : PieceOf(rw, rs[i]) \in Pieces
  BY <1>1, PieceType
<1>3. PiecesOf(rw, rs) = [i \in 1..Len(rs) |-> PieceOf(rw, rs[i])]
  BY <1>1 DEF PiecesOf
<1>4. PiecesOf(rw, rs) \in [1..Len(rs) -> Pieces]
  BY <1>2, <1>3
<1> QED
  BY <1>1, <1>3, <1>4

\* One more record.
LEMMA HeldAppend ==
  ASSUME NEW rw \in RingRows, NEW rs \in Seq(Rec), NEW d \in Rec
  PROVE  /\ HeldOf(rw, rs) \in Pieces
         /\ HeldOf(rw, Append(rs, d)) = HeldOf(rw, rs) \o PieceOf(rw, d)
<1>1. /\ Append(rs, d) \in Seq(Rec) /\ Len(Append(rs, d)) = Len(rs) + 1
      /\ \A i \in 1..Len(rs) : Append(rs, d)[i] = rs[i]
      /\ Append(rs, d)[Len(rs) + 1] = d /\ Len(rs) \in Nat
  BY AppendProperties, LenProperties
<1>2. PICK w \in Seq(Pieces), p \in Pieces : w = PiecesOf(rw, rs) /\ p = PieceOf(rw, d)
  BY PiecesType, PieceType
<1>3. PICK v \in Seq(Pieces) : v = PiecesOf(rw, Append(rs, d))
  BY <1>1, PiecesType
<1>4. v = Append(w, p)
  <2>1. Len(v) = Len(w) + 1 /\ Len(w) = Len(rs)
    BY <1>1, <1>2, <1>3, PiecesType
  <2>2. /\ Append(w, p) \in Seq(Pieces) /\ Len(Append(w, p)) = Len(w) + 1
        /\ \A i \in 1..Len(w) : Append(w, p)[i] = w[i] /\ Append(w, p)[Len(w) + 1] = p
    BY AppendProperties
  <2>3. ASSUME NEW i \in 1..Len(v) PROVE v[i] = Append(w, p)[i]
    <3>1. i \in 1..Len(Append(rs, d))
      BY <1>1, <2>1
    <3>2. v[i] = PieceOf(rw, Append(rs, d)[i])
      BY <1>1, <1>3, <3>1, PiecesType
    <3>3. CASE i \in 1..Len(rs)
      <4>1. v[i] = PieceOf(rw, rs[i]) /\ w[i] = PieceOf(rw, rs[i])
        BY <1>1, <1>2, <3>2, <3>3, PiecesType
      <4> QED
        BY <2>1, <2>2, <3>3, <4>1
    <3>4. CASE i = Len(rs) + 1
      <4>1. v[i] = p
        BY <1>1, <1>2, <3>2, <3>4
      <4>2. Append(w, p)[Len(w) + 1] = p
        BY AppendProperties
      <4> QED
        BY <2>1, <3>4, <4>1, <4>2
    <3>5. PICK n \in Nat : n = Len(rs)
      BY <1>1
    <3>6. i \in 1..n + 1
      BY <1>1, <3>1, <3>5
    <3>7. i \in 1..n \/ i = n + 1
      BY <3>6
    <3> QED
      BY <3>3, <3>4, <3>5, <3>7
  <2> QED
    BY <2>1, <2>2, <2>3, SeqEqual
<1>5. FlattenSeq(Append(w, p)) = FlattenSeq(w) \o p /\ FlattenSeq(w) \in Seq(Item)
  <2>1. \A Y : Y = Seq(Item) => \A u \in Seq(Y), x \in Seq(Item) :
          FlattenSeq(Append(u, x)) = FlattenSeq(u) \o x /\ FlattenSeq(u) \in Seq(Item)
    BY FlattenAppend
  <2>2. Pieces = Seq(Item)
    BY DEF Pieces
  <2> QED
    BY <2>1, <2>2
<1> QED
  BY <1>2, <1>3, <1>4, <1>5 DEF HeldOf, Pieces

-----------------------------------------------------------------------------
\* The pieces of the first record, of the others and of the last

\* No records, and the first of several.
LEMMA HeldHead ==
  ASSUME NEW rw \in RingRows, NEW rs \in Seq(Rec)
  PROVE  /\ HeldOf(rw, <<>>) = <<>>
         /\ rs # <<>> => /\ Tail(rs) \in Seq(Rec) /\ rs[1] \in Rec
                         /\ PieceOf(rw, rs[1]) \in Pieces /\ HeldOf(rw, Tail(rs)) \in Pieces
                         /\ HeldOf(rw, rs) = PieceOf(rw, rs[1]) \o HeldOf(rw, Tail(rs))
<1>1. HeldOf(rw, <<>>) = <<>>
  <2>1. PiecesOf(rw, <<>>) = <<>>
    BY DEF PiecesOf
  <2> QED
    BY <2>1, FlattenNone DEF HeldOf
<1>2. ASSUME rs # <<>>
      PROVE  /\ Tail(rs) \in Seq(Rec) /\ rs[1] \in Rec
             /\ PieceOf(rw, rs[1]) \in Pieces /\ HeldOf(rw, Tail(rs)) \in Pieces
             /\ HeldOf(rw, rs) = PieceOf(rw, rs[1]) \o HeldOf(rw, Tail(rs))
  <2>1. /\ Tail(rs) \in Seq(Rec) /\ Len(Tail(rs)) = Len(rs) - 1 /\ rs[1] \in Rec
        /\ \A i \in 1..Len(Tail(rs)) : Tail(rs)[i] = rs[i + 1]
        /\ Len(rs) \in Nat \ {0}
    <3>1. Len(rs) \in Nat \ {0}
      BY <1>2, EmptySeq
    <3>2. rs[1] \in Rec
      BY <3>1, ElementOfSeq
    <3> QED
      BY <1>2, <3>1, <3>2, HeadTailProperties
  <2>2. PICK w \in Seq(Pieces) : w = PiecesOf(rw, rs)
    BY PiecesType
  <2>3. PICK v \in Seq(Pieces) : v = PiecesOf(rw, Tail(rs))
    BY <2>1, PiecesType
  <2>4. Len(w) = Len(rs) /\ \A i \in 1..Len(rs) : w[i] = PieceOf(rw, rs[i])
    BY <2>2, PiecesType
  <2>5. Len(v) = Len(rs) - 1 /\ \A i \in 1..Len(rs) - 1 : v[i] = PieceOf(rw, rs[i + 1])
    <3>1. Len(v) = Len(Tail(rs)) /\ \A i \in 1..Len(Tail(rs)) : v[i] = PieceOf(rw, Tail(rs)[i])
      BY <2>1, <2>3, PiecesType
    <3> QED
      BY <2>1, <3>1
  <2>6. w # <<>>
    <3>1. Len(w) # 0
      BY <2>1, <2>4
    <3> QED
      BY <3>1, EmptySeq
  <2>7. Head(w) = PieceOf(rw, rs[1])
    <3>1. Head(w) = w[1]
      BY <2>6
    <3>2. 1 \in 1..Len(rs)
      BY <2>1
    <3> QED
      BY <2>4, <3>1, <3>2
  <2>8. Tail(w) = v
    <3>1. /\ Tail(w) \in Seq(Pieces) /\ Len(Tail(w)) = Len(w) - 1
          /\ \A i \in 1..Len(Tail(w)) : Tail(w)[i] = w[i + 1]
      BY <2>6, HeadTailProperties
    <3>2. \A i \in 1..Len(rs) - 1 : i + 1 \in 1..Len(rs)
      BY <2>1
    <3>3. Len(Tail(w)) = Len(rs) - 1
      BY <2>4, <3>1
    <3>4. \A i \in 1..Len(rs) - 1 : Tail(w)[i] = v[i]
      BY <2>4, <2>5, <3>1, <3>2, <3>3
    <3> QED
      BY <2>5, <3>1, <3>3, <3>4, SeqEqual
  <2>9. FlattenSeq(w) = Head(w) \o FlattenSeq(Tail(w))
    <3>1. \A Y : Y = Seq(Item) => \A u \in Seq(Y) :
            u # <<>> => FlattenSeq(u) = Head(u) \o FlattenSeq(Tail(u))
      BY FlattenHead
    <3>2. Pieces = Seq(Item)
      BY DEF Pieces
    <3> QED
      BY <2>6, <3>1, <3>2
  <2>10. PieceOf(rw, rs[1]) \in Pieces
    BY <2>1, PieceType
  <2>11. HeldOf(rw, Tail(rs)) \in Pieces
    BY <2>1, <2>10, HeldAppend
  <2> QED
    BY <2>1, <2>2, <2>3, <2>7, <2>8, <2>9, <2>10, <2>11 DEF HeldOf
<1> QED
  BY <1>1, <1>2

\* Records that hold the same.
LEMMA HeldSame ==
  ASSUME NEW rw1, NEW rw2, NEW rs1, NEW rs2, DOMAIN rs1 = DOMAIN rs2,
         \A i \in DOMAIN rs1 : PieceOf(rw1, rs1[i]) = PieceOf(rw2, rs2[i])
  PROVE  HeldOf(rw1, rs1) = HeldOf(rw2, rs2)
BY DEF HeldOf, PiecesOf

\* The rows held are those of the records.
LEMMA HeldRows ==
  ASSUME NEW rw \in RingRows
  PROVE  \A rs \in Seq(Rec) : \A off :
           /\ off[1] = 0
           /\ \A i \in 1..Len(rs) :
                off[i] \in Nat /\ off[i + 1] = off[i] + (IF rs[i].type = "data" THEN rs[i].n ELSE 0)
           => Fifo!Rows(HeldOf(rw, rs)) = off[Len(rs) + 1]
<1> DEFINE Sums(rs, off) ==
             /\ off[1] = 0
             /\ \A i \in 1..Len(rs) : /\ off[i] \in Nat
                                      /\ off[i + 1] = off[i] + (IF rs[i].type = "data" THEN rs[i].n ELSE 0)
           U == {n \in Nat : \A rs \in Seq(Rec) : \A off :
                   Len(rs) = n /\ Sums(rs, off) => Fifo!Rows(HeldOf(rw, rs)) = off[n + 1]}
<1>1. 0 \in U
  <2>1. ASSUME NEW rs \in Seq(Rec), NEW off, Len(rs) = 0, Sums(rs, off)
        PROVE  Fifo!Rows(HeldOf(rw, rs)) = off[0 + 1]
    <3>1. rs = <<>>
      BY <2>1, EmptySeq
    <3>2. HeldOf(rw, rs) = <<>>
      BY <3>1, HeldHead
    <3>3. off[0 + 1] = 0
      BY <2>1
    <3> QED
      BY <3>2, <3>3, RowsOfItems
  <2> QED
    BY <2>1
<1>2. ASSUME NEW n \in Nat, n \in U PROVE n + 1 \in U
  <2>1. ASSUME NEW rs \in Seq(Rec), NEW off, Len(rs) = n + 1, Sums(rs, off)
        PROVE  Fifo!Rows(HeldOf(rw, rs)) = off[(n + 1) + 1]
    <3>1. rs # <<>>
      <4>1. Len(rs) # 0
        BY <2>1
      <4> QED
        BY <4>1, EmptySeq
    <3>2. PICK u \in Seq(Rec), d \in Rec : rs = Append(u, d)
      BY <3>1, SequenceEmptyOrAppend
    <3>3. /\ Len(rs) = Len(u) + 1 /\ rs[Len(u) + 1] = d /\ Len(u) \in Nat
          /\ \A i \in 1..Len(u) : rs[i] = u[i]
      BY <3>2, AppendProperties, LenProperties
    <3>4. Len(u) = n
      BY <2>1, <3>3
    <3>5. Sums(u, off)
      <4>1. \A i \in 1..Len(u) : i \in 1..Len(rs)
        BY <3>3
      <4> QED
        BY <2>1, <3>3, <4>1
    <3>6. Fifo!Rows(HeldOf(rw, u)) = off[n + 1]
      BY <1>2, <3>4, <3>5
    <3>7. off[n + 1] \in Nat /\ off[(n + 1) + 1] = off[n + 1] + (IF d.type = "data" THEN d.n ELSE 0)
      <4>1. n + 1 \in 1..Len(rs) /\ rs[n + 1] = d
        BY <2>1, <3>3, <3>4
      <4> QED
        BY <2>1, <4>1
    <3>8. /\ HeldOf(rw, u) \in Seq(Item) /\ PieceOf(rw, d) \in Seq(Item)
          /\ HeldOf(rw, rs) = HeldOf(rw, u) \o PieceOf(rw, d)
      BY <3>2, HeldAppend, PieceType DEF Pieces
    <3>9. Fifo!Rows(HeldOf(rw, rs)) = Fifo!Rows(HeldOf(rw, u)) + Fifo!Rows(PieceOf(rw, d))
      BY <3>8, RowsConcat
    <3>10. Fifo!Rows(PieceOf(rw, d)) = IF d.type = "data" THEN d.n ELSE 0
      <4>1. d.type = "ts" => Fifo!Rows(PieceOf(rw, d)) = 0
        BY PieceType
      <4>2. d.type # "ts" => d.type = "data" /\ Fifo!Rows(PieceOf(rw, d)) = d.n
        BY PieceType
      <4> QED
        BY <4>1, <4>2
    <3> QED
      BY <3>6, <3>7, <3>9, <3>10
  <2> QED
    BY <2>1
<1>3. Nat \subseteq U
  <2> HIDE DEF U
  <2> QED
    BY <1>1, <1>2, SetInduction
<1>4. \A rs \in Seq(Rec) : Len(rs) \in Nat
  BY LenProperties
<1>5. \A rs \in Seq(Rec) : \A off : Sums(rs, off) => Fifo!Rows(HeldOf(rw, rs)) = off[Len(rs) + 1]
  <2> HIDE DEF Sums
  <2> QED
    BY <1>3, <1>4
<1> QED
  BY <1>5

-----------------------------------------------------------------------------
\* Steps of labels and slots

\* Two steps of a label, and of a slot.
LEMMA PlusSum ==
  ASSUME NEW l \in 0..Labels - 1, NEW a \in Nat, NEW b \in Nat
  PROVE  Plus(Plus(l, a), b) = Plus(l, a + b)
<1>1. Labels \in Nat \ {0} /\ l + a \in Nat
  BY DataQueueAssumption
<1>2. (((l + a) % Labels) + b) % Labels = ((l + a) + b) % Labels
  BY <1>1, ModSum
<1>3. (l + a) + b = l + (a + b)
  BY <1>1
<1> QED
  BY <1>2, <1>3 DEF Plus

\* The same of slots.
LEMMA SlotSum ==
  ASSUME NEW f \in 0..Total - 1, NEW a \in Nat, NEW b \in Nat, a + b <= Total
  PROVE  Slot(Slot(f, a), b) = Slot(f, a + b) /\ Slot(f, a) \in 0..Total - 1
<1>1. a \in 0..Total /\ a + b \in a..Total /\ (a + b) - a = b
  BY DataQueueAssumption
<1> QED
  BY <1>1, SlotShift

\* The items of rows that carry their labels.
LEMMA RowItemsAre ==
  ASSUME NEW l \in 0..Labels - 1, NEW n \in Nat
  PROVE  /\ RowItems(l, n) \in Pieces /\ Len(RowItems(l, n)) = n
         /\ \A k \in 1..n : RowItems(l, n)[k] = [label |-> Plus(l, k - 1), data |-> Plus(l, k - 1)]
<1>1. \A k \in 1..n : k - 1 \in Nat
  OBVIOUS
<1>2. ASSUME NEW k \in 1..n
      PROVE  [label |-> Plus(l, k - 1), data |-> Plus(l, k - 1)] \in Item
  <2>1. Plus(l, k - 1) \in 0..Labels - 1
    BY <1>1, PlusRange
  <2>2. PICK a \in Int : a = Plus(l, k - 1)
    BY <2>1, DataQueueAssumption
  <2> QED
    BY <2>2 DEF Item
<1>3. PICK p : p = [k \in 1..n |-> [label |-> Plus(l, k - 1), data |-> Plus(l, k - 1)]]
  OBVIOUS
<1>4. p \in [1..n -> Item]
  BY <1>2, <1>3
<1>5. p \in Pieces /\ Len(p) = n
  BY <1>4 DEF Pieces
<1> QED
  BY <1>3, <1>5 DEF RowItems

\* What a commit adds to the last record, or what it appends
Grown(d, n) == [type |-> "data", start |-> d.start, next |-> Plus(d.next, n),
                Qrow |-> d.Qrow, n |-> d.n + n]

New(l, n) == [type |-> "data", start |-> l, next |-> Plus(l, n), Qrow |-> last, n |-> n]

\* One of the two.
LEMMA CommitRecs ==
  ASSUME QueueTypes, NEW l, NEW n, CommitRows(l, n)
  PROVE  \/ recs' = Append(recs, New(l, n))
         \/ \E u \in Seq(Rec), d \in DataRec :
              recs = Append(u, d) /\ d.next = l /\ recs' = Append(u, Grown(d, n))
<1>1. CASE ~ExtendsLast(l)
  BY <1>1 DEF CommitRows, New
<1>2. CASE ExtendsLast(l)
  <2>1. recs # <<>> /\ recs \in Seq(Rec)
    BY <1>2 DEF ExtendsLast, QueueTypes
  <2>2. PICK u \in Seq(Rec), d \in Rec : recs = Append(u, d)
    BY <2>1, SequenceEmptyOrAppend
  <2>3. PICK m \in Nat : m = Len(u)
    BY LenProperties
  <2>4. Len(recs) = m + 1 /\ recs[m + 1] = d /\ \A i \in 1..m : recs[i] = u[i]
    BY <2>2, <2>3, AppendProperties
  <2>5. d.type = "data" /\ d.next = l
    BY <1>2, <2>4 DEF ExtendsLast, LastRec
  <2>6. d \in DataRec
    BY <2>5 DEF Rec
  <2>7. PICK a, b, q, k : d = [type |-> "data", start |-> a, next |-> b, Qrow |-> q, n |-> k]
    BY <2>6 DEF DataRec
  <2>8. recs' = [recs EXCEPT ![m + 1] = [[d EXCEPT !.next = Plus(@, n)] EXCEPT !.n = @ + n]]
    <3>1. recs' = [recs EXCEPT ![m + 1].next = Plus(@, n), ![m + 1].n = @ + n]
      BY <1>2, <2>4 DEF CommitRows
    <3>2. m + 1 \in DOMAIN recs
      BY <2>1, <2>3, <2>4
    <3> QED
      BY ZenonT(40), <2>4, <3>1, <3>2
  <2>9. PICK b1 : b1 = Plus(b, n)
    OBVIOUS
  <2>10. [d EXCEPT !.next = Plus(@, n)]
         = [type |-> "data", start |-> a, next |-> b1, Qrow |-> q, n |-> k]
    BY <2>7, <2>9
  <2>11. [[type |-> "data", start |-> a, next |-> b1, Qrow |-> q, n |-> k] EXCEPT !.n = @ + n]
         = [type |-> "data", start |-> a, next |-> b1, Qrow |-> q, n |-> k + n]
    OBVIOUS
  <2>12. PICK g : g = [type |-> "data", start |-> a, next |-> b1, Qrow |-> q, n |-> k + n]
    OBVIOUS
  <2>13. [[d EXCEPT !.next = Plus(@, n)] EXCEPT !.n = @ + n] = g
    BY <2>10, <2>11, <2>12, Zenon
  <2>14. Grown(d, n) = g
    BY <2>7, <2>9, <2>12 DEF Grown
  <2>15. recs' = [recs EXCEPT ![m + 1] = g]
    BY <2>8, <2>13
  <2>16. [recs EXCEPT ![m + 1] = g] = Append(u, g)
    <3>1. PICK S : S = Rec \cup {g}
      OBVIOUS
    <3>2. u \in Seq(S) /\ d \in S /\ g \in S
      <4>1. Rec \subseteq S /\ d \in S /\ g \in S
        BY <2>2, <3>1
      <4> QED
        BY <2>2, <4>1, SeqMonotonic
    <3>3. recs \in Seq(S) /\ m + 1 \in 1..Len(recs)
      BY <2>2, <2>3, <2>4, <3>2, AppendProperties
    <3>4. PICK e \in Seq(S) : e = [recs EXCEPT ![m + 1] = g]
      BY <3>2, <3>3, ExceptSeq
    <3>5. Len(e) = m + 1 /\ \A j \in 1..m + 1 : e[j] = IF j = m + 1 THEN g ELSE recs[j]
      BY <2>4, <3>2, <3>3, <3>4, ExceptSeq
    <3>6. /\ Append(u, g) \in Seq(S) /\ Len(Append(u, g)) = m + 1
          /\ \A j \in 1..m : Append(u, g)[j] = u[j] /\ Append(u, g)[m + 1] = g
      BY <2>3, <3>2, AppendProperties
    <3>7. Append(u, g)[m + 1] = g
      BY <2>3, <3>2, AppendProperties
    <3>8. \A j \in 1..m + 1 : j = m + 1 \/ (j \in 1..m /\ j # m + 1)
      BY <2>3
    <3>9. \A j \in 1..m + 1 : e[j] = Append(u, g)[j]
      BY <2>4, <3>5, <3>6, <3>7, <3>8
    <3> QED
      BY <3>4, <3>5, <3>6, <3>9, SeqEqual
  <2> QED
    BY <2>2, <2>5, <2>6, <2>14, <2>15, <2>16
<1> QED
  BY <1>1, <1>2

\* A record that grows by rows that carry their labels.
LEMMA PieceGrows ==
  ASSUME NEW rw \in RingRows, NEW d \in DataRec, NEW n \in Nat \ {0}, Grown(d, n) \in Rec,
         NEW l \in 0..Labels - 1, l = Plus(d.start, d.n),
         \A j \in 1..n : rw[Slot(d.Qrow, d.n + (j - 1))] = Plus(l, j - 1)
  PROVE  PieceOf(rw, Grown(d, n)) = PieceOf(rw, d) \o RowItems(l, n)
<1>1. PICK m \in 0..Total, s \in 0..Labels - 1, r \in 0..Total - 1 :
        m = d.n /\ s = d.start /\ r = d.Qrow
  BY DEF DataRec
<1>2. m \in Nat /\ Total \in Nat
  BY DataQueueAssumption
<1>3. PICK p \in Pieces : p = PieceOf(rw, d)
  BY PieceType DEF Rec
<1>4. /\ Len(p) = m
      /\ \A k \in 1..m : p[k] = [label |-> Plus(s, k - 1), data |-> rw[Slot(r, k - 1)]]
  <2>1. d \in Rec /\ d.type # "ts"
    BY DEF Rec, DataRec
  <2> QED
    BY <1>1, <1>3, <2>1, PieceType
<1>5. PICK g \in Pieces : g = PieceOf(rw, Grown(d, n))
  BY PieceType
<1>6. /\ Len(g) = m + n
      /\ \A k \in 1..m + n : g[k] = [label |-> Plus(s, k - 1), data |-> rw[Slot(r, k - 1)]]
  <2>1. Grown(d, n).type = "data" /\ Grown(d, n).n = m + n /\ Grown(d, n).start = s
        /\ Grown(d, n).Qrow = r
    BY <1>1 DEF Grown
  <2>2. Grown(d, n).type # "ts"
    BY <2>1
  <2> QED
    BY <1>5, <2>1, <2>2, PieceType
<1>7. PICK z \in Pieces : z = RowItems(l, n)
  BY RowItemsAre
<1>8. /\ Len(z) = n
      /\ \A k \in 1..n : z[k] = [label |-> Plus(l, k - 1), data |-> Plus(l, k - 1)]
  BY <1>7, RowItemsAre
<1>9. /\ p \o z \in Pieces /\ Len(p \o z) = m + n
      /\ \A i \in 1..m + n : (p \o z)[i] = IF i <= m THEN p[i] ELSE z[i - m]
  <2>1. p \in Seq(Item) /\ z \in Seq(Item)
    BY DEF Pieces
  <2>2. /\ p \o z \in Seq(Item) /\ Len(p \o z) = Len(p) + Len(z)
        /\ \A i \in 1..Len(p) + Len(z) : (p \o z)[i] = IF i <= Len(p) THEN p[i] ELSE z[i - Len(p)]
    BY <2>1, ConcatProperties
  <2> QED
    BY <1>4, <1>8, <2>2 DEF Pieces
<1>10. ASSUME NEW k \in 1..m + n PROVE g[k] = (p \o z)[k]
  <2>1. CASE k <= m
    <3>1. k \in 1..m
      BY <1>2, <2>1
    <3> QED
      BY <1>4, <1>6, <1>9, <2>1, <3>1
  <2>2. CASE ~(k <= m)
    <3>1. PICK j \in 1..n : j = k - m
      BY <1>2, <2>2
    <3>2. k - 1 = m + (j - 1) /\ j - 1 \in Nat /\ m + (j - 1) \in Nat
      BY <1>2, <3>1
    <3>3. Plus(s, k - 1) = Plus(l, j - 1)
      <4>1. Plus(Plus(s, m), j - 1) = Plus(s, m + (j - 1))
        BY <1>2, <3>2, PlusSum
      <4> QED
        BY <1>1, <3>2, <4>1
    <3>4. rw[Slot(r, k - 1)] = Plus(l, j - 1)
      BY <1>1, <3>1, <3>2
    <3>6. g[k] = [label |-> Plus(l, j - 1), data |-> Plus(l, j - 1)]
      BY <1>6, <3>3, <3>4
    <3>7. (p \o z)[k] = z[j]
      BY <1>9, <2>2, <3>1
    <3> QED
      BY <1>8, <3>1, <3>6, <3>7
  <2> QED
    BY <2>1, <2>2
<1>11. g = p \o z
  BY <1>6, <1>9, <1>10, SeqEqual DEF Pieces
<1> QED
  BY <1>3, <1>5, <1>7, <1>11

-----------------------------------------------------------------------------
\* What a queue's records hold as one is appended

\* A record's next label is the one after its last row's.
NextsRight(rs) ==
  \A i \in 1..Len(rs) : rs[i].type = "data" => rs[i].next = Plus(rs[i].start, rs[i].n)

\* Concatenation of pieces.
LEMMA PiecesConcat ==
  ASSUME NEW p \in Pieces, NEW q \in Pieces
  PROVE  /\ p \o q \in Pieces /\ Len(p \o q) = Len(p) + Len(q)
         /\ Len(p) \in Nat /\ Len(q) \in Nat
         /\ \A r \in Pieces : (p \o q) \o r = p \o (q \o r)
<1>1. p \in Seq(Item) /\ q \in Seq(Item)
  BY DEF Pieces
<1>2. p \o q \in Seq(Item) /\ Len(p \o q) = Len(p) + Len(q)
  BY <1>1, ConcatProperties
<1>3. ASSUME NEW r \in Pieces PROVE (p \o q) \o r = p \o (q \o r)
  <2>1. r \in Seq(Item)
    BY DEF Pieces
  <2> QED
    BY <1>1, <2>1, ConcatAssociative
<1>4. Len(p) \in Nat /\ Len(q) \in Nat
  BY <1>1, LenProperties
<1> QED
  BY <1>2, <1>3, <1>4 DEF Pieces

\* What is held are pieces.
LEMMA HeldType ==
  ASSUME NEW rw \in RingRows, NEW rs \in Seq(Rec)
  PROVE  HeldOf(rw, rs) \in Pieces /\ Len(HeldOf(rw, rs)) \in Nat
<1>1. [type |-> "ts", ts |-> 1] \in Rec
  BY DEF Rec
<1>2. HeldOf(rw, rs) \in Pieces
  BY <1>1, HeldAppend
<1> QED
  BY <1>2, PiecesConcat

\* The records say the same of the appended one.
LEMMA NextsAppend ==
  ASSUME NEW rs \in Seq(Rec), NEW d \in Rec, NextsRight(rs),
         d.type = "data" => d.next = Plus(d.start, d.n)
  PROVE  NextsRight(Append(rs, d))
<1>1. PICK n \in Nat : n = Len(rs)
  BY LenProperties
<1>2. /\ Len(Append(rs, d)) = n + 1 /\ Append(rs, d)[n + 1] = d
      /\ \A i \in 1..n : Append(rs, d)[i] = rs[i]
  BY <1>1, AppendProperties
<1>3. \A i \in 1..n + 1 : i \in 1..n \/ i = n + 1
  BY <1>1
<1> QED
  BY <1>1, <1>2, <1>3 DEF NextsRight

\* A record of its own for rows that carry their labels.
LEMMA NewPiece ==
  ASSUME last \in 0..Total - 1, NEW rw \in RingRows, NEW l \in 0..Labels - 1,
         NEW n \in Nat \ {0}, last + n <= Total, \A j \in 1..n : rw[last + j - 1] = Plus(l, j - 1)
  PROVE  New(l, n) \in Rec /\ PieceOf(rw, New(l, n)) = RowItems(l, n)
<1>1. PICK f \in 0..Total - 1 : f = last
  OBVIOUS
<1>2. n \in 0..Total /\ Total \in Nat
  BY <1>1, DataQueueAssumption
<1>3. Plus(l, n) \in 0..Labels - 1
  BY PlusRange
<1>4. New(l, n) \in DataRec /\ New(l, n).type # "ts"
  BY <1>1, <1>2, <1>3 DEF New, DataRec
<1>5. New(l, n) \in Rec
  BY <1>4 DEF Rec
<1>6. PICK p \in Pieces : p = PieceOf(rw, New(l, n))
  BY <1>5, PieceType
<1>7. /\ Len(p) = n
      /\ \A k \in 1..n : p[k] = [label |-> Plus(l, k - 1), data |-> rw[Slot(f, k - 1)]]
  <2>1. New(l, n).start = l /\ New(l, n).n = n /\ New(l, n).Qrow = f
    BY <1>1 DEF New
  <2> QED
    BY <1>4, <1>5, <1>6, <2>1, PieceType
<1>8. PICK z \in Pieces : z = RowItems(l, n)
  BY RowItemsAre
<1>9. /\ Len(z) = n
      /\ \A k \in 1..n : z[k] = [label |-> Plus(l, k - 1), data |-> Plus(l, k - 1)]
  BY <1>8, RowItemsAre
<1>10. ASSUME NEW k \in 1..n PROVE p[k] = z[k]
  <2>1. Slot(f, k - 1) = last + k - 1
    BY <1>1, <1>2 DEF Slot
  <2>2. rw[last + k - 1] = Plus(l, k - 1)
    OBVIOUS
  <2> QED
    BY <1>7, <1>9, <2>1, <2>2
<1>11. p = z
  BY <1>7, <1>9, <1>10, SeqEqual DEF Pieces
<1> QED
  BY <1>5, <1>6, <1>8, <1>11

\* A commit appends the rows, under their labels, to what is held.
LEMMA CommitHeld ==
  ASSUME QueueTypes, QueueTypes', NEW off, Ring(off), row \in RingRows, NextsRight(recs),
         NEW l \in 0..Labels - 1, NEW n \in Nat \ {0}, off[Len(recs) + 1] + n <= Total,
         last + n <= Total, \A j \in 1..n : row[last + j - 1] = Plus(l, j - 1),
         CommitRows(l, n)
  PROVE  /\ HeldOf(row, recs') = HeldOf(row, recs) \o RowItems(l, n)
         /\ NextsRight(recs')
<1>1. /\ last \in 0..Total - 1 /\ first \in 0..Total - 1
      /\ recs \in Seq(Rec) /\ recs' \in Seq(Rec)
  BY DEF QueueTypes
<1>2. CASE recs' = Append(recs, New(l, n))
  <2>1. New(l, n) \in Rec /\ PieceOf(row, New(l, n)) = RowItems(l, n)
    BY <1>1, NewPiece
  <2>2. HeldOf(row, recs') = HeldOf(row, recs) \o RowItems(l, n)
    BY <1>1, <1>2, <2>1, HeldAppend
  <2>3. New(l, n).next = Plus(New(l, n).start, New(l, n).n)
    BY DEF New
  <2>4. NextsRight(recs')
    BY <1>1, <1>2, <2>1, <2>3, NextsAppend
  <2> QED
    BY <2>2, <2>4
<1>3. ASSUME NEW u \in Seq(Rec), NEW d \in DataRec,
             recs = Append(u, d), d.next = l, recs' = Append(u, Grown(d, n))
      PROVE  /\ HeldOf(row, recs') = HeldOf(row, recs) \o RowItems(l, n)
             /\ NextsRight(recs')
  <2>1. PICK m \in Nat : m = Len(u)
    BY LenProperties
  <2>2. d \in Rec /\ d.type = "data"
    BY DEF Rec, DataRec
  <2>3. /\ Len(recs) = m + 1 /\ recs[m + 1] = d
        /\ \A i \in 1..m : recs[i] = u[i]
    BY <1>3, <2>1, <2>2, AppendProperties
  <2>4. m + 1 \in 1..Len(recs) /\ Len(recs) + 1 = m + 2
    BY <2>1, <2>3
  <2>5. Grown(d, n) \in Rec
    <3>1. recs'[m + 1] = Grown(d, n) /\ Len(recs') = m + 1
      BY <1>3, <2>1
    <3>2. m + 1 \in 1..Len(recs')
      BY <3>1
    <3> QED
      BY <1>1, <3>1, <3>2, ElementOfSeq
  <2>6. l = Plus(d.start, d.n)
    BY <1>3, <2>2, <2>3, <2>4 DEF NextsRight
  <2>7. PICK x \in Nat : x = off[m + 1]
    <3>1. m + 1 \in 1..Len(recs) + 1
      BY <2>4
    <3>2. off[m + 1] \in 0..Total
      BY <3>1 DEF Ring
    <3> QED
      BY <3>2, DataQueueAssumption
  <2>8. d.Qrow = Slot(first, x) /\ off[m + 2] = x + d.n /\ last = Slot(first, x + d.n)
    <3>1. d.Qrow = Slot(first, off[m + 1]) /\ off[(m + 1) + 1] = off[m + 1] + d.n
      BY <2>2, <2>3, <2>4 DEF Ring
    <3>2. (m + 1) + 1 = m + 2
      BY <2>1
    <3>3. last = Slot(first, off[m + 2])
      BY <2>4 DEF Ring
    <3> QED
      BY <2>7, <3>1, <3>2, <3>3
  <2>9. x + d.n + n <= Total
    BY <2>4, <2>8
  <2>10. PieceOf(row, Grown(d, n)) = PieceOf(row, d) \o RowItems(l, n)
    <3>1. PICK q \in 0..Total - 1, f \in 0..Total - 1 : q = last /\ f = first
      BY <1>1
    <3>2. PICK m1 \in 0..Total : m1 = d.n
      BY <1>3 DEF DataRec
    <3>3. ASSUME NEW j \in 1..n PROVE row[Slot(d.Qrow, d.n + (j - 1))] = Plus(l, j - 1)
      <4>1. /\ j - 1 \in Nat /\ m1 \in Nat /\ m1 + (j - 1) \in Nat /\ x + m1 \in Nat
            /\ x + (m1 + (j - 1)) <= Total /\ (x + m1) + (j - 1) <= Total
            /\ x + (m1 + (j - 1)) = (x + m1) + (j - 1)
        <5>1. PICK T \in Nat : T = Total
          BY DataQueueAssumption
        <5>2. m1 \in Nat /\ x \in Nat /\ x + m1 + n <= T
          BY <2>7, <2>9, <3>2, <5>1
        <5>3. /\ j - 1 \in Nat /\ m1 + (j - 1) \in Nat /\ x + m1 \in Nat
              /\ x + (m1 + (j - 1)) <= T /\ (x + m1) + (j - 1) <= T
              /\ x + (m1 + (j - 1)) = (x + m1) + (j - 1)
          BY <5>2
        <5> QED
          BY <5>1, <5>2, <5>3
      <4>2. Slot(Slot(f, x), m1 + (j - 1)) = Slot(f, x + (m1 + (j - 1)))
        BY <2>7, <3>1, <4>1, SlotSum
      <4>3. Slot(Slot(f, x + m1), j - 1) = Slot(f, (x + m1) + (j - 1))
        BY <3>1, <4>1, SlotSum
      <4>4. Slot(d.Qrow, d.n + (j - 1)) = Slot(q, j - 1)
        BY <2>8, <3>1, <3>2, <4>1, <4>2, <4>3
      <4>5. Slot(q, j - 1) = last + j - 1
        BY <3>1, <4>1, DataQueueAssumption DEF Slot
      <4> QED
        BY <4>4, <4>5
    <3> QED
      BY <1>3, <2>5, <2>6, <3>3, PieceGrows
  <2>11. PICK p \in Pieces, h \in Pieces, z \in Pieces :
           p = PieceOf(row, d) /\ h = HeldOf(row, u) /\ z = RowItems(l, n)
    BY <2>2, PieceType, HeldType, RowItemsAre
  <2>12. HeldOf(row, recs) = h \o p
    BY <1>3, <2>2, <2>11, HeldAppend
  <2>13. HeldOf(row, recs') = h \o (p \o z)
    BY <1>3, <2>5, <2>10, <2>11, HeldAppend
  <2>14. HeldOf(row, recs') = HeldOf(row, recs) \o RowItems(l, n)
    <3>1. (h \o p) \o z = h \o (p \o z)
      BY PiecesConcat
    <3> QED
      BY <2>11, <2>12, <2>13, <3>1
  <2>15. NextsRight(u)
    <3>1. \A i \in 1..m : i \in 1..Len(recs)
      BY <2>1, <2>3
    <3> QED
      BY <2>1, <2>3, <3>1 DEF NextsRight
  <2>16. Grown(d, n).next = Plus(Grown(d, n).start, Grown(d, n).n)
    <3>1. d.start \in 0..Labels - 1 /\ d.n \in Nat
      BY DataQueueAssumption DEF DataRec
    <3>2. Plus(Plus(d.start, d.n), n) = Plus(d.start, d.n + n)
      BY <3>1, PlusSum
    <3> QED
      BY <1>3, <2>6, <3>2 DEF Grown
  <2>17. NextsRight(recs')
    BY <1>3, <2>5, <2>15, <2>16, NextsAppend
  <2> QED
    BY <2>14, <2>17
<1> QED
  BY <1>2, <1>3, CommitRecs

\* A stamp is appended to what is held.
LEMMA StampHeld ==
  ASSUME QueueTypes, row \in RingRows, NextsRight(recs), NEW t \in Nat, CommitTstamp(t)
  PROVE  /\ HeldOf(row, recs') = HeldOf(row, recs) \o <<[ts |-> t]>>
         /\ <<[ts |-> t]>> \in Pieces /\ NextsRight(recs')
<1>1. PICK d : d = [type |-> "ts", ts |-> t]
  OBVIOUS
<1>2. d \in Rec /\ d.type = "ts" /\ d.ts = t
  BY <1>1 DEF Rec
<1>3. recs \in Seq(Rec) /\ recs' = Append(recs, d)
  BY <1>1 DEF QueueTypes, CommitTstamp
<1>4. PieceOf(row, d) = <<[ts |-> t]>> /\ PieceOf(row, d) \in Pieces
  BY <1>2, PieceType
<1>5. d.type = "data" => d.next = Plus(d.start, d.n)
  BY <1>2
<1> QED
  BY <1>2, <1>3, <1>4, <1>5, HeldAppend, NextsAppend

-----------------------------------------------------------------------------
\* Slots outside the rows held, and the labels that records end with

\* The room behind the rows held is none of their slots.
LEMMA FreeSlots ==
  ASSUME NEW f \in 0..Total - 1, NEW e \in Nat, NEW n \in Nat, e + n <= Total,
         NEW z \in Nat, z < e, Slot(f, e) + n <= Total
  PROVE  Slot(f, z) \notin Slot(f, e)..(Slot(f, e) + n - 1)
BY DataQueueAssumption DEF Slot

\* Filling the room changes nothing of what is held.
LEMMA FillHeld ==
  ASSUME QueueTypes, NEW off, Ring(off), row \in RingRows, NEW n \in Nat,
         NEW vals \in [1..n -> Int], Len(vals) = n,
         off[Len(recs) + 1] + n <= Total, last + n <= Total, FillRows(vals)
  PROVE  /\ row' \in RingRows /\ \A j \in 1..n : row'[last + j - 1] = vals[j]
         /\ HeldOf(row', recs) = HeldOf(row, recs)
<1>1. /\ last \in 0..Total - 1 /\ first \in 0..Total - 1 /\ recs \in Seq(Rec)
      /\ Total \in Nat \ {0}
  BY DataQueueAssumption DEF QueueTypes
<1>2. PICK f \in 0..Total - 1, q \in 0..Total - 1 : f = first /\ q = last
  BY <1>1
<1>3. row' = [i \in 0..Total - 1 |-> IF i \in q..(q + n - 1) THEN vals[i - q + 1] ELSE row[i]]
  BY <1>2 DEF FillRows, RingRows
<1>4. row' \in RingRows
  <2>1. \A i \in 0..Total - 1 : i \in q..(q + n - 1) => i - q + 1 \in 1..n
    BY <1>2
  <2>2. \A i \in 0..Total - 1 :
          (IF i \in q..(q + n - 1) THEN vals[i - q + 1] ELSE row[i]) \in Int
    BY <2>1 DEF RingRows
  <2> QED
    BY <1>3, <2>2 DEF RingRows
<1>5. ASSUME NEW j \in 1..n PROVE row'[last + j - 1] = vals[j]
  <2>1. /\ q + j - 1 \in 0..Total - 1 /\ q + j - 1 \in q..(q + n - 1)
        /\ (q + j - 1) - q + 1 = j
    BY <1>1, <1>2
  <2> QED
    BY <1>2, <1>3, <2>1
<1>6. PICK m \in Nat : m = Len(recs)
  BY <1>1, LenProperties
<1>7. PICK e \in 0..Total : e = off[m + 1]
  <2>1. m + 1 \in 1..Len(recs) + 1
    BY <1>6
  <2> QED
    BY <1>6, <2>1 DEF Ring
<1>8. q = Slot(f, e) /\ e + n <= Total /\ q + n <= Total /\ e \in Nat
  BY <1>1, <1>2, <1>6, <1>7 DEF Ring
<1>9. ASSUME NEW i \in 1..m PROVE PieceOf(row', recs[i]) = PieceOf(row, recs[i])
  <2>1. PICK d \in Rec : d = recs[i]
    BY <1>1, <1>6, ElementOfSeq
  <2>2. CASE d.type = "ts"
    BY <2>1, <2>2 DEF PieceOf
  <2>3. CASE d.type # "ts"
    <3>1. d.type = "data" /\ d \in DataRec
      BY <2>3, PieceType, <1>4
    <3>2. PICK k \in 0..Total, r \in 0..Total - 1 : k = d.n /\ r = d.Qrow
      BY <3>1 DEF DataRec
    <3>3. PICK x \in Nat : x = off[i] /\ r = Slot(f, x) /\ x + k <= e
      <4>1. i \in 1..Len(recs) /\ i \in 1..m + 1 /\ i + 1 \in 1..m + 1 /\ i + 1 <= m + 1
            /\ m + 1 \in 1..m + 1
        BY <1>6
      <4>2. d.Qrow = Slot(first, off[i]) /\ off[i + 1] = off[i] + d.n
        BY <2>1, <3>1, <4>1 DEF Ring
      <4>3. off[i + 1] <= off[m + 1] /\ off[i] \in 0..Total
        BY <1>6, <4>1 DEF Ring
      <4>4. off[i] \in Nat
        BY <1>1, <4>3
      <4> QED
        BY <1>2, <1>7, <3>2, <4>2, <4>3, <4>4
    <3>4. ASSUME NEW j \in 1..k PROVE row'[Slot(r, j - 1)] = row[Slot(r, j - 1)]
      <4>1. j - 1 \in Nat /\ x + (j - 1) \in Nat /\ x + (j - 1) < e /\ x + (j - 1) <= Total
        <5>1. PICK T \in Nat : T = Total
          BY <1>1
        <5>2. x \in Nat /\ k \in Nat /\ e \in 0..T /\ x + k <= e
          BY <1>7, <3>2, <3>3, <5>1
        <5>3. j - 1 \in Nat /\ x + (j - 1) \in Nat /\ x + (j - 1) < e /\ x + (j - 1) <= T
          BY <5>2
        <5> QED
          BY <5>1, <5>3
      <4>2. Slot(r, j - 1) = Slot(f, x + (j - 1)) /\ Slot(r, j - 1) \in 0..Total - 1
        <5>1. Slot(Slot(f, x), j - 1) = Slot(f, x + (j - 1))
          <6>1. f \in 0..Total - 1 /\ x \in Nat /\ j - 1 \in Nat /\ x + (j - 1) <= Total
            BY <1>2, <3>3, <4>1
          <6> QED
            BY <6>1, SlotSum
        <5>2. j - 1 \in 0..Total
          BY <1>1, <3>2
        <5>3. Slot(r, j - 1) \in 0..Total - 1
          BY <3>2, <5>2, SlotRange
        <5> QED
          BY <3>3, <5>1, <5>3
      <4>3. Slot(f, x + (j - 1)) \notin q..(q + n - 1)
        BY <1>2, <1>8, <4>1, FreeSlots
      <4> QED
        BY <1>3, <4>2, <4>3
    <3>5. \A j \in 1..k : [label |-> Plus(d.start, j - 1), data |-> row'[Slot(r, j - 1)]]
                          = [label |-> Plus(d.start, j - 1), data |-> row[Slot(r, j - 1)]]
      BY <3>4
    <3> QED
      BY <2>1, <2>3, <3>2, <3>5 DEF PieceOf
  <2> QED
    BY <2>2, <2>3
<1>10. DOMAIN recs = 1..m
  BY <1>1, <1>6
<1>11. HeldOf(row', recs) = HeldOf(row, recs)
  BY <1>9, <1>10, HeldSame
<1> QED
  BY <1>4, <1>5, <1>11

\* The other records.
LEMMA NextsTail ==
  ASSUME NEW rs \in Seq(Rec), rs # <<>>, NextsRight(rs)
  PROVE  NextsRight(Tail(rs))
<1>1. /\ Len(rs) \in Nat /\ Len(Tail(rs)) = Len(rs) - 1
      /\ \A i \in 1..Len(Tail(rs)) : Tail(rs)[i] = rs[i + 1]
  BY HeadTailProperties, LenProperties
<1>2. \A i \in 1..Len(Tail(rs)) : i + 1 \in 1..Len(rs)
  BY <1>1
<1> QED
  BY <1>1, <1>2 DEF NextsRight

\* Other than the first, the records stay.
LEMMA TailExcept ==
  ASSUME recs \in Seq(Rec), 1 \in 1..Len(recs), NEW d \in DataRec,
         recs' = [recs EXCEPT ![1] = d]
  PROVE  Tail(recs') = Tail(recs)
<1>1. PICK e \in Seq(Rec) : e = [recs EXCEPT ![1] = d]
  <2>1. d \in Rec
    BY DEF Rec
  <2> QED
    BY <2>1, ExceptSeq
<1>2. Len(e) = Len(recs) /\ Len(recs) \in Nat /\ \A i \in 1..Len(recs) : i # 1 => e[i] = recs[i]
  BY <1>1, LenProperties
<1>3. e # <<>> /\ recs # <<>>
  BY <1>2
<1>4. /\ Tail(e) \in Seq(Rec) /\ Len(Tail(e)) = Len(recs) - 1
      /\ \A i \in 1..Len(Tail(e)) : Tail(e)[i] = e[i + 1]
  BY <1>2, <1>3, HeadTailProperties
<1>5. /\ Tail(recs) \in Seq(Rec) /\ Len(Tail(recs)) = Len(recs) - 1
      /\ \A i \in 1..Len(Tail(recs)) : Tail(recs)[i] = recs[i + 1]
  BY <1>3, HeadTailProperties
<1>6. \A i \in 1..Len(recs) - 1 : i + 1 \in 1..Len(recs) /\ i + 1 # 1
  BY <1>2
<1>7. \A i \in 1..Len(Tail(e)) : Tail(e)[i] = Tail(recs)[i]
  BY <1>2, <1>4, <1>5, <1>6
<1> QED
  BY <1>1, <1>4, <1>5, <1>7, SeqEqual

\* A retired stamp is gone from what is held.
LEMMA RetireStampHeld ==
  ASSUME QueueTypes, row \in RingRows, recs # <<>>, recs[1].type = "ts", RetireTstamp,
         NextsRight(recs)
  PROVE  /\ HeldOf(row, recs') = SubSeq(HeldOf(row, recs), 2, Len(HeldOf(row, recs)))
         /\ NextsRight(recs')
<1>1. recs \in Seq(Rec) /\ recs' = Tail(recs)
  BY DEF QueueTypes, RetireTstamp
<1>2. PICK p \in Pieces, h \in Pieces : p = PieceOf(row, recs[1]) /\ h = HeldOf(row, Tail(recs))
  BY <1>1, HeldHead
<1>3. HeldOf(row, recs) = p \o h /\ Len(p) = 1
  BY <1>1, <1>2, HeldHead, PieceType
<1>4. SubSeq(p \o h, 1 + 1, Len(p \o h)) = SubSeq(p, 1 + 1, Len(p)) \o h
  <2>1. p \in Seq(Item) /\ h \in Seq(Item) /\ 1 \in 0..Len(p)
    BY <1>3 DEF Pieces
  <2> QED
    BY <2>1, LeaveConcat
<1>5. SubSeq(p, 2, 1) = <<>>
  BY SubSeqEmpty
<1>6. <<>> \o h = h
  <2>1. h \in Seq(Item)
    BY DEF Pieces
  <2> QED
    BY <2>1, ConcatEmptySeq
<1>7. HeldOf(row, recs') = SubSeq(HeldOf(row, recs), 2, Len(HeldOf(row, recs)))
  <2>1. SubSeq(p \o h, 2, Len(p \o h)) = SubSeq(p, 2, 1) \o h
    <3>1. 1 + 1 = 2
      OBVIOUS
    <3> QED
      BY <1>3, <1>4, <3>1
  <2>2. HeldOf(row, recs') = h /\ SubSeq(p, 2, 1) \o h = h
    BY <1>1, <1>2, <1>5, <1>6
  <2> QED
    BY <1>3, <2>1, <2>2
<1>8. NextsRight(Tail(recs))
  BY <1>1, NextsTail
<1> QED
  BY <1>1, <1>7, <1>8

-----------------------------------------------------------------------------
\* What is left as rows are retired

\* What is left of a record's piece.
LEMMA RestPiece ==
  ASSUME NEW rw \in RingRows, NEW d \in DataRec, NEW d1 \in DataRec, NEW n \in Nat,
         n <= d.n, d1.start = Plus(d.start, n), d1.n = d.n - n, d1.Qrow = Slot(d.Qrow, n)
  PROVE  /\ PieceOf(rw, d) \in Pieces /\ Len(PieceOf(rw, d)) = d.n
         /\ PieceOf(rw, d1) = SubSeq(PieceOf(rw, d), n + 1, Len(PieceOf(rw, d)))
<1>1. d \in Rec /\ d1 \in Rec /\ d.type # "ts" /\ d1.type # "ts"
  BY DEF Rec, DataRec
<1>2. PICK p \in Pieces, g \in Pieces : p = PieceOf(rw, d) /\ g = PieceOf(rw, d1)
  BY <1>1, PieceType
<1>3. PICK m \in 0..Total, s \in 0..Labels - 1, q \in 0..Total - 1 :
        m = d.n /\ s = d.start /\ q = d.Qrow
  BY DEF DataRec
<1>4. /\ Len(p) = m
      /\ \A k \in 1..m : p[k] = [label |-> Plus(s, k - 1), data |-> rw[Slot(q, k - 1)]]
  BY <1>1, <1>2, <1>3, PieceType
<1>5. /\ Len(g) = m - n
      /\ \A k \in 1..m - n :
           g[k] = [label |-> Plus(Plus(s, n), k - 1), data |-> rw[Slot(Slot(q, n), k - 1)]]
  BY <1>1, <1>2, <1>3, PieceType
<1>6. PICK T \in Nat : T = Total
  BY DataQueueAssumption
<1>7. m \in 0..T /\ m \in Nat /\ n <= m
  BY <1>3, <1>6
<1>8. p \in Seq(Item) /\ g \in Seq(Item) /\ n \in 0..Len(p)
  BY <1>4, <1>7 DEF Pieces
<1>9. /\ SubSeq(p, n + 1, Len(p)) \in Seq(Item)
      /\ Len(SubSeq(p, n + 1, Len(p))) = m - n
      /\ \A k \in 1..m - n : SubSeq(p, n + 1, Len(p))[k] = p[n + k]
  BY <1>4, <1>8, LeaveElems
<1>10. ASSUME NEW k \in 1..m - n PROVE g[k] = p[n + k]
  <2>1. /\ k - 1 \in Nat /\ n + (k - 1) <= T /\ n + k \in 1..m /\ n + k - 1 = n + (k - 1)
    BY <1>7
  <2>2. Plus(Plus(s, n), k - 1) = Plus(s, n + (k - 1))
    BY <2>1, PlusSum
  <2>3. Slot(Slot(q, n), k - 1) = Slot(q, n + (k - 1))
    BY <1>6, <2>1, SlotSum
  <2>4. p[n + k] = [label |-> Plus(s, n + (k - 1)), data |-> rw[Slot(q, n + (k - 1))]]
    BY <1>4, <2>1
  <2> QED
    BY <1>5, <2>2, <2>3, <2>4
<1>11. g = SubSeq(p, n + 1, Len(p))
  BY <1>5, <1>8, <1>9, <1>10, SeqEqual
<1> QED
  BY <1>2, <1>3, <1>4, <1>11

\* Leaving the first n of some items, then more appended.
LEMMA LeaveItems ==
  ASSUME NEW Y, NEW h \in Seq(Y), NEW z \in Seq(Y), NEW n \in 0..Len(h)
  PROVE  SubSeq(h \o z, n + 1, Len(h \o z)) = SubSeq(h, n + 1, Len(h)) \o z
BY LeaveConcat

\* Retired rows are gone from what is held.
LEMMA RetireRowsHeld ==
  ASSUME QueueTypes, QueueTypes', NEW off, Ring(off), row \in RingRows, NextsRight(recs),
         recs # <<>>, recs[1].type = "data", NEW n \in Nat, n <= recs[1].n, RetireRows(n)
  PROVE  /\ HeldOf(row, recs') = SubSeq(HeldOf(row, recs), n + 1, Len(HeldOf(row, recs)))
         /\ NextsRight(recs') /\ n \in 0..Len(HeldOf(row, recs))
<1>1. recs \in Seq(Rec) /\ recs' \in Seq(Rec) /\ first \in 0..Total - 1
  BY DEF QueueTypes
<1>2. recs[1] \in DataRec /\ 1 \in 1..Len(recs) /\ recs[1].Qrow = first
  BY RingAsserts DEF RetireAsserts
<1>3. PICK d \in DataRec : d = recs[1]
  BY <1>2
<1>4. PICK p \in Pieces, h \in Pieces : p = PieceOf(row, d) /\ h = HeldOf(row, Tail(recs))
  BY <1>1, <1>3, HeldHead
<1>5. HeldOf(row, recs) = p \o h
  BY <1>1, <1>3, <1>4, HeldHead
<1>6. d \in Rec /\ d.type # "ts" /\ n <= d.n
  BY <1>3 DEF Rec, DataRec
<1>7. Len(p) = d.n
  BY <1>4, <1>6, PieceType
<1>8. /\ p \in Seq(Item) /\ h \in Seq(Item) /\ n \in 0..Len(p)
      /\ Len(p) \in Nat /\ Len(h) \in Nat /\ Len(p \o h) = Len(p) + Len(h)
  <2>1. Len(p) \in Nat /\ Len(h) \in Nat /\ Len(p \o h) = Len(p) + Len(h)
    BY PiecesConcat
  <2> QED
    BY <1>6, <1>7, <2>1 DEF Pieces
<1>9. n \in 0..Len(p \o h)
  BY <1>8
<1>10. SubSeq(p \o h, n + 1, Len(p \o h)) = SubSeq(p, n + 1, Len(p)) \o h
  BY <1>8, LeaveItems
<1>11. CASE recs[1].n = n /\ Len(recs) > 1
  <2>1. recs' = Tail(recs)
    BY <1>11 DEF RetireRows
  <2>2. SubSeq(p, n + 1, Len(p)) = <<>>
    <3>1. Len(p) = n /\ n + 1 \in Int /\ n \in Int /\ n < n + 1
      BY <1>3, <1>7, <1>11
    <3> QED
      BY <3>1, SubSeqEmpty
  <2>3. <<>> \o h = h
    BY <1>8, ConcatEmptySeq
  <2>4. HeldOf(row, recs') = SubSeq(HeldOf(row, recs), n + 1, Len(HeldOf(row, recs)))
    BY <1>4, <1>5, <1>10, <2>1, <2>2, <2>3
  <2>5. NextsRight(Tail(recs))
    BY <1>1, NextsTail
  <2> QED
    BY <1>5, <1>9, <2>1, <2>4, <2>5
<1>12. CASE ~(recs[1].n = n /\ Len(recs) > 1)
  <2>1. recs' = [recs EXCEPT ![1].Qrow = first', ![1].n = @ - n, ![1].start = Plus(@, n)]
    BY <1>12 DEF RetireRows
  <2>2. first' = Slot(first, n)
    BY RetireFirst
  <2>3. d.n \in n..Total
    BY <1>6 DEF DataRec
  <2>4. first' \in 0..Total - 1
    BY DEF QueueTypes
  <2>5. PICK d1 \in DataRec :
          /\ recs' = [recs EXCEPT ![1] = d1]
          /\ d1.type = "data" /\ d1.Qrow = first' /\ d1.n = d.n - n
          /\ d1.start = Plus(d.start, n) /\ d1.next = d.next
    <3>1. recs \in Seq(Rec) /\ d \in DataRec /\ d = recs[1]
      BY <1>1, <1>3
    <3> QED
      BY <2>1, <2>3, <2>4, <3>1, ShrinkRecs
  <2>6. PieceOf(row, d1) = SubSeq(p, n + 1, Len(p))
    <3>1. d1.Qrow = Slot(d.Qrow, n)
      BY <1>2, <1>3, <2>2, <2>5
    <3> QED
      BY <1>4, <1>6, <2>5, <3>1, RestPiece
  <2>7. d1 \in Rec /\ recs' # <<>> /\ recs'[1] = d1
    BY <1>1, <2>5 DEF Rec
  <2>8. Tail(recs') = Tail(recs)
    BY <1>1, <1>2, <2>5, TailExcept
  <2>9. HeldOf(row, recs') = PieceOf(row, d1) \o h
    BY <1>1, <1>4, <2>7, <2>8, HeldHead
  <2>10. NextsRight(recs')
    <3>1. Plus(Plus(d.start, n), d.n - n) = Plus(d.start, d.n)
      <4>1. d.start \in 0..Labels - 1 /\ d.n - n \in Nat /\ n + (d.n - n) = d.n
        BY <1>6 DEF DataRec
      <4> QED
        BY <4>1, PlusSum
    <3>2. d.next = Plus(d.start, d.n)
      BY <1>2, <1>3 DEF NextsRight, DataRec
    <3>3. d1.next = Plus(d1.start, d1.n)
      BY <2>5, <3>1, <3>2
    <3>4. Len(recs') = Len(recs) /\ \A i \in 1..Len(recs) : i # 1 => recs'[i] = recs[i]
      BY <1>1, <2>5
    <3> QED
      BY <2>7, <3>3, <3>4 DEF NextsRight
  <2> QED
    BY <1>5, <1>9, <1>10, <2>6, <2>9, <2>10
<1> QED
  BY <1>11, <1>12

-----------------------------------------------------------------------------
\* The items of the log, message by message

\* LogItems folds LogAdd over the messages of all files of the log.
LogFold == INSTANCE Lemmas WITH Op <- LogAdd

\* The messages of the log, what LogItems is after each of them, and how many
\* messages precede each file's.
Msgs == FlattenSeq(Log)

LogSteps == CHOOSE g : /\ LogFold!FoldedBy([ts |-> 0, items |-> <<>>], Msgs, g)
                       /\ LogItems = g[Len(Msgs)].items

LogPlaces == CHOOSE P : Places(Log, Msgs, P)

\* The messages are those of the files, one after the other.
LEMMA MsgsAre ==
  /\ Msgs \in Seq(Message) /\ Len(Msgs) \in Nat
  /\ \A k \in 1..Len(Msgs) : Msgs[k] \in Message
  /\ Places(Log, Msgs, LogPlaces)
<1>1. Log \in Seq(Seq(Message))
  BY PlaybackAssumption
<1>2. Msgs \in Seq(Message)
  <2>1. \A Y : Y = Seq(Message) => \A w \in Seq(Y), x \in Seq(Message) :
          FlattenSeq(w) \in Seq(Message)
    BY FlattenAppend
  <2>2. <<>> \in Seq(Message)
    OBVIOUS
  <2> QED
    BY <1>1, <2>1, <2>2 DEF Msgs
<1>3. \E P : Places(Log, Msgs, P)
  <2>1. PICK Y : Y = Seq(Message)
    OBVIOUS
  <2>2. \A w \in Seq(Y) : \E P : Places(w, FlattenSeq(w), P)
    BY <2>1, FlattenPlaces
  <2> QED
    BY <1>1, <2>1, <2>2 DEF Msgs
<1>4. Len(Msgs) \in Nat /\ \A k \in 1..Len(Msgs) : Msgs[k] \in Message
  BY <1>2, LenProperties, ElementOfSeq
<1> QED
  BY <1>2, <1>3, <1>4 DEF LogPlaces

\* LogItems is built message by message.
LEMMA StepsAre ==
  /\ LogSteps[0] = [ts |-> 0, items |-> <<>>]
  /\ \A k \in 1..Len(Msgs) : LogSteps[k] = LogAdd(LogSteps[k - 1], Msgs[k])
  /\ LogItems = LogSteps[Len(Msgs)].items
<1> DEFINE base == [ts |-> 0, items |-> <<>>]
<1>1. \E g : LogFold!FoldedBy(base, Msgs, g) /\ LogFold!FoldLeft(LogAdd, base, Msgs) = g[Len(Msgs)]
  BY MsgsAre, LogFold!FoldSteps
<1>2. LogFold!FoldLeft(LogAdd, base, Msgs) = FoldLeft(LogAdd, base, Msgs)
  BY DEF FoldLeft, LogFold!FoldLeft, MapThenFoldSet, LogFold!MapThenFoldSet, Max, LogFold!Max
<1>3. \E g : LogFold!FoldedBy(base, Msgs, g) /\ LogItems = g[Len(Msgs)].items
  BY <1>1, <1>2 DEF LogItems, Msgs
<1>4. LogFold!FoldedBy(base, Msgs, LogSteps) /\ LogItems = LogSteps[Len(Msgs)].items
  BY <1>3 DEF LogSteps
<1> QED
  BY <1>4 DEF LogFold!FoldedBy

\* The last stamp.
LEMMA AddTs ==
  ASSUME NEW acc, NEW m
  PROVE  LogAdd(acc, m).ts = IF m.type = "data" THEN acc.ts ELSE m.ts
<1>1. \A x, y : [ts |-> x, items |-> y].ts = x
  OBVIOUS
<1>2. CASE m.type = "data"
  BY <1>1, <1>2, Zenon DEF LogAdd
<1>3. CASE m.type # "data" /\ m.ts = acc.ts
  BY <1>3 DEF LogAdd
<1>4. CASE m.type # "data" /\ m.ts # acc.ts
  BY <1>1, <1>4, Zenon DEF LogAdd
<1> QED
  BY <1>2, <1>3, <1>4

\* What a message adds to the items.
Added(acc, m) ==
  IF m.type = "data" THEN RowItems(m.label, m.n)
  ELSE IF m.ts = acc.ts THEN <<>> ELSE <<[ts |-> m.ts]>>

\* It is appended.
LEMMA AddAppends ==
  ASSUME NEW acc, NEW m \in Message, acc.items \in Pieces, acc.ts \in Nat
  PROVE  /\ LogAdd(acc, m).items \in Pieces /\ LogAdd(acc, m).ts \in Nat
         /\ Added(acc, m) \in Pieces
         /\ LogAdd(acc, m).items = acc.items \o Added(acc, m)
<1>1. CASE m.type = "data"
  <2>1. m.label \in 0..Labels - 1 /\ m.n \in Nat
    BY <1>1 DEF Message
  <2>2. RowItems(m.label, m.n) \in Pieces
    BY <2>1, RowItemsAre
  <2>3. LogAdd(acc, m) = [ts |-> acc.ts, items |-> acc.items \o RowItems(m.label, m.n)]
    BY <1>1 DEF LogAdd
  <2>4. PICK q \in Pieces : q = acc.items \o RowItems(m.label, m.n)
    BY <2>2, PiecesConcat
  <2>5. LogAdd(acc, m).items = q /\ LogAdd(acc, m).ts = acc.ts
    <3>1. \A x, y : [ts |-> x, items |-> y].items = y /\ [ts |-> x, items |-> y].ts = x
      OBVIOUS
    <3> QED
      BY <2>3, <2>4, <3>1, Zenon
  <2>6. Added(acc, m) = RowItems(m.label, m.n)
    BY <1>1 DEF Added
  <2> QED
    BY <2>2, <2>4, <2>5, <2>6
<1>2. CASE m.type # "data" /\ m.ts = acc.ts
  <2>1. acc.items \in Seq(Item) /\ <<>> \in Seq(Item)
    BY DEF Pieces
  <2>2. acc.items \o <<>> = acc.items
    BY <2>1, ConcatEmptySeq
  <2> QED
    BY <1>2, <2>1, <2>2 DEF Added, LogAdd, Pieces
<1>3. CASE m.type # "data" /\ m.ts # acc.ts
  <2>1. m.ts \in Nat
    BY <1>3 DEF Message
  <2>2. [ts |-> m.ts] \in Item
    BY <2>1 DEF Item
  <2>3. acc.items \in Seq(Item)
    BY DEF Pieces
  <2>4. LogAdd(acc, m) = [ts |-> m.ts, items |-> Append(acc.items, [ts |-> m.ts])]
    BY <1>3 DEF LogAdd
  <2>5. /\ Append(acc.items, [ts |-> m.ts]) = acc.items \o <<[ts |-> m.ts]>>
        /\ <<[ts |-> m.ts]>> \in Seq(Item) /\ Append(acc.items, [ts |-> m.ts]) \in Seq(Item)
    BY <2>2, <2>3, AppendIsConcat, AppendProperties
  <2> QED
    BY <1>3, <2>1, <2>4, <2>5 DEF Added, Pieces
<1> QED
  BY <1>1, <1>2, <1>3

\* The items at every message.
LEMMA StepTypes ==
  \A k \in 0..Len(Msgs) : LogSteps[k].items \in Pieces /\ LogSteps[k].ts \in Nat
<1> DEFINE U == {k \in Nat : k <= Len(Msgs) =>
                               LogSteps[k].items \in Pieces /\ LogSteps[k].ts \in Nat}
<1>0. Len(Msgs) \in Nat
  BY MsgsAre
<1>1. 0 \in U
  <2>1. <<>> \in Pieces
    BY DEF Pieces
  <2> QED
    BY <2>1, StepsAre
<1>2. ASSUME NEW k \in Nat, k \in U PROVE k + 1 \in U
  <2>1. SUFFICES ASSUME k + 1 <= Len(Msgs)
                 PROVE  LogSteps[k + 1].items \in Pieces /\ LogSteps[k + 1].ts \in Nat
    OBVIOUS
  <2>2. LogSteps[k].items \in Pieces /\ LogSteps[k].ts \in Nat
    BY <1>0, <1>2, <2>1
  <2>3. k + 1 \in 1..Len(Msgs) /\ (k + 1) - 1 = k
    BY <1>0, <1>2, <2>1
  <2>4. LogSteps[k + 1] = LogAdd(LogSteps[k], Msgs[k + 1]) /\ Msgs[k + 1] \in Message
    BY <2>3, StepsAre, MsgsAre
  <2> QED
    BY <2>2, <2>4, AddAppends
<1>3. Nat \subseteq U
  <2> HIDE DEF U
  <2> QED
    BY <1>1, <1>2, SetInduction
<1> QED
  BY <1>0, <1>3

\* They begin the items of the whole log.
LEMMA StepsPrefix ==
  \A k \in 0..Len(Msgs) : \E t \in Pieces : LogItems = LogSteps[k].items \o t
<1>0. PICK L \in Nat : L = Len(Msgs)
  BY MsgsAre
<1> DEFINE U == {n \in Nat : n <= L => \E t \in Pieces : LogItems = LogSteps[L - n].items \o t}
<1>1. 0 \in U
  <2>1. LogItems = LogSteps[L].items /\ LogItems \in Seq(Item) /\ L - 0 = L
    BY <1>0, StepsAre, StepTypes DEF Pieces
  <2>2. LogItems \o <<>> = LogItems /\ <<>> \in Pieces
    BY <2>1, ConcatEmptySeq DEF Pieces
  <2> QED
    BY <2>1, <2>2
<1>2. ASSUME NEW n \in Nat, n \in U PROVE n + 1 \in U
  <2>1. SUFFICES ASSUME n + 1 <= L
                 PROVE  \E t \in Pieces : LogItems = LogSteps[L - (n + 1)].items \o t
    OBVIOUS
  <2>2. PICK t \in Pieces : LogItems = LogSteps[L - n].items \o t
    BY <1>2, <2>1
  <2>3. PICK k \in 0..L : k = L - (n + 1)
    BY <1>2, <2>1
  <2>4. L - n = k + 1 /\ k + 1 \in 1..L /\ (k + 1) - 1 = k
    BY <1>2, <2>1, <2>3
  <2>5. /\ LogSteps[k].items \in Pieces /\ LogSteps[k].ts \in Nat /\ Msgs[k + 1] \in Message
        /\ LogSteps[k + 1] = LogAdd(LogSteps[k], Msgs[k + 1])
    BY <1>0, <2>4, StepTypes, StepsAre, MsgsAre
  <2>6. PICK a \in Pieces, z \in Pieces : a = LogSteps[k].items /\ z = Added(LogSteps[k], Msgs[k + 1])
    BY <2>5, AddAppends
  <2>7. LogSteps[k + 1].items = a \o z
    BY <2>5, <2>6, AddAppends
  <2>8. (a \o z) \o t = a \o (z \o t) /\ z \o t \in Pieces
    BY PiecesConcat
  <2> QED
    BY <2>2, <2>3, <2>4, <2>6, <2>7, <2>8
<1>3. Nat \subseteq U
  <2> HIDE DEF U
  <2> QED
    BY <1>1, <1>2, SetInduction
<1>4. ASSUME NEW k \in 0..Len(Msgs) PROVE \E t \in Pieces : LogItems = LogSteps[k].items \o t
  <2>1. L - k \in Nat /\ L - k <= L /\ L - (L - k) = k
    BY <1>0, <1>4
  <2> QED
    BY <1>3, <2>1
<1> QED
  BY <1>4

\* The next message and what it adds: where the items of a message are.
LEMMA NextItems ==
  ASSUME NEW k \in Nat, k + 1 <= Len(Msgs)
  PROVE  /\ Msgs[k + 1] \in Message /\ LogItems \in Pieces
         /\ LogSteps[k + 1] = LogAdd(LogSteps[k], Msgs[k + 1])
         /\ LogSteps[k].items \in Pieces /\ LogSteps[k].ts \in Nat
         /\ Added(LogSteps[k], Msgs[k + 1]) \in Pieces
         /\ Len(LogSteps[k + 1].items)
            = Len(LogSteps[k].items) + Len(Added(LogSteps[k], Msgs[k + 1]))
         /\ Len(LogSteps[k + 1].items) <= Len(LogItems)
         /\ \A j \in 1..Len(Added(LogSteps[k], Msgs[k + 1])) :
              LogItems[Len(LogSteps[k].items) + j] = Added(LogSteps[k], Msgs[k + 1])[j]
<1>1. PICK L \in Nat : L = Len(Msgs)
  BY MsgsAre
<1>2. k \in 0..L /\ k + 1 \in 1..L /\ k + 1 \in 0..L /\ (k + 1) - 1 = k /\ L \in 0..L
  BY <1>1
<1>3. /\ LogSteps[k].items \in Pieces /\ LogSteps[k].ts \in Nat /\ Msgs[k + 1] \in Message
      /\ LogSteps[k + 1] = LogAdd(LogSteps[k], Msgs[k + 1])
      /\ LogItems \in Pieces
  BY <1>1, <1>2, StepTypes, StepsAre, MsgsAre
<1>4. PICK a \in Pieces, z \in Pieces : a = LogSteps[k].items /\ z = Added(LogSteps[k], Msgs[k + 1])
  BY <1>3, AddAppends
<1>5. LogSteps[k + 1].items = a \o z
  BY <1>3, <1>4, AddAppends
<1>6. PICK t \in Pieces : LogItems = (a \o z) \o t
  BY <1>1, <1>2, <1>5, StepsPrefix
<1>7. a \in Seq(Item) /\ z \in Seq(Item) /\ t \in Seq(Item)
  BY DEF Pieces
<1>8. PICK b \in Seq(Item) : b = a \o z
  BY <1>7, ConcatProperties
<1>9. /\ Len(a) \in Nat /\ Len(z) \in Nat /\ Len(t) \in Nat /\ Len(b) = Len(a) + Len(z)
      /\ \A i \in 1..Len(a) + Len(z) : b[i] = IF i <= Len(a) THEN a[i] ELSE z[i - Len(a)]
  BY <1>7, <1>8, ConcatProperties, LenProperties
<1>10. /\ Len(b \o t) = Len(b) + Len(t)
       /\ \A i \in 1..Len(b) + Len(t) : (b \o t)[i] = IF i <= Len(b) THEN b[i] ELSE t[i - Len(b)]
  BY <1>7, ConcatProperties
<1>11. ASSUME NEW j \in 1..Len(z) PROVE LogItems[Len(a) + j] = z[j]
  <2>1. /\ Len(a) + j \in 1..Len(a) + Len(z) /\ ~(Len(a) + j <= Len(a))
        /\ Len(a) + j - Len(a) = j /\ Len(a) + j \in 1..Len(b) + Len(t) /\ Len(a) + j <= Len(b)
    BY <1>9
  <2> QED
    BY <1>6, <1>8, <1>9, <1>10, <2>1
<1>12. Len(b) <= Len(b \o t)
  BY <1>9, <1>10
<1> QED
  BY <1>3, <1>4, <1>5, <1>6, <1>8, <1>9, <1>11, <1>12

-----------------------------------------------------------------------------
\* The invariant: where in the log the input thread is

\* Where the input thread is inside the loop of process_data.
InRows == {"rows", "wait_data", "fill", "commit"}

\* How many messages of the log were taken
Place == IF file = 0 THEN 0 ELSE LogPlaces[file] + msg

\* The items after the first t are n rows under the labels from l on.
Carries(t, l, n) ==
  \A j \in 1..n : LogItems[t + j] = [label |-> Plus(l, j - 1), data |-> Plus(l, j - 1)]

\* What is accepted is what the messages taken so far make of the log, except
\* for the rows of the last one that are still left; those that were copied
\* and are not yet committed are in the ring.
LogRight ==
  /\ file \in 0..Len(Log) + 1
  /\ IF file \in DOMAIN Log THEN msg \in 0..Len(Log[file]) ELSE msg = 0
  /\ lastTs = LogSteps[Place].ts
  /\ Place > 0 => haveTs
  /\ taken \in Nat /\ left \in Nat /\ taken + left = Len(LogSteps[Place].items)
  /\ IF pcI \in InRows THEN Carries(taken, label, left) ELSE left = 0
  /\ pcI = "commit" => \A j \in 1..room : row[last + j - 1] = Plus(label, j - 1)

\* What the output thread is about to write or retire.
OutRight ==
  /\ row \in RingRows /\ NextsRight(recs)
  /\ pcO = "next" => recs[1].type = "data"
  /\ pcO \in {"lock", "writev"} => txN >= 1
  /\ pcO \in {"lock", "writev", "retire"} => (recs[1].type = "ts" => txN = 1)

\* Once quit is on its way TM/DG is closed.
OpenRight ==
  /\ fdOpen \in BOOLEAN
  /\ dcQuit \/ "quit" \in ToSet(todo) => ~fdOpen
  /\ pcO = "writev" => fdOpen

\* What the refinement needs to be inductive.
FInv == QInv /\ Handshake /\ LogRight /\ OutRight /\ OpenRight

\* A place between the files or in one.
LEMMA PlaceRange ==
  ASSUME file \in 0..Len(Log) + 1,
         IF file \in DOMAIN Log THEN msg \in 0..Len(Log[file]) ELSE msg = 0
  PROVE  Place \in 0..Len(Msgs)
<1>1. /\ Len(Log) \in Nat /\ DOMAIN Log = 1..Len(Log) /\ Len(Msgs) \in Nat
      /\ Places(Log, Msgs, LogPlaces)
  BY LogTypes, MsgsAre
<1>2. CASE file \in DOMAIN Log
  <2>1. /\ LogPlaces[file] \in Nat /\ Len(Log[file]) \in Nat /\ msg \in 0..Len(Log[file])
        /\ \A k \in 1..Len(Log[file]) : LogPlaces[file] + k \in 1..Len(Msgs)
    BY <1>1, <1>2, LogTypes DEF Places
  <2>2. Len(Log[file]) >= 1
    <3>0. Log \in Seq(Seq(Message))
      BY PlaybackAssumption
    <3>1. PICK s \in Seq(Message) : s = Log[file]
      BY <1>2, <3>0
    <3>2. s # <<>>
      BY <1>2, <3>1, PlaybackAssumption
    <3>3. Len(s) \in Nat /\ Len(s) # 0
      BY <3>2
    <3> QED
      BY <3>1, <3>3
  <2>3. LogPlaces[file] + 1 \in 1..Len(Msgs)
    BY <2>1, <2>2
  <2>4. msg = 0 \/ msg \in 1..Len(Log[file])
    BY <2>1
  <2>5. LogPlaces[file] + msg \in 0..Len(Msgs)
    BY <1>1, <2>1, <2>3, <2>4
  <2> QED
    BY <1>1, <1>2, <2>5 DEF Place
<1>3. CASE file \notin DOMAIN Log
  <2>1. file = 0 \/ file = Len(Log) + 1
    BY <1>1, <1>3
  <2>2. LogPlaces[Len(Log) + 1] = Len(Msgs) /\ msg = 0
    BY <1>1, <1>3 DEF Places
  <2> QED
    BY <1>1, <2>1, <2>2 DEF Place
<1> QED
  BY <1>2, <1>3

\* The next message is the next one of the file; the log begins with a stamp.
LEMMA PlaceNext ==
  ASSUME file \in DOMAIN Log, msg \in Nat, msg < Len(Log[file])
  PROVE  /\ Place \in Nat /\ Place + 1 <= Len(Msgs)
         /\ Place = LogPlaces[file] + msg
         /\ Msgs[Place + 1] = Log[file][msg + 1]
         /\ Place = 0 => Log[file][msg + 1].type = "ts"
<1>1. Places(Log, Msgs, LogPlaces) /\ Len(Log) \in Nat /\ DOMAIN Log = 1..Len(Log)
      /\ Len(Log[file]) \in Nat /\ Len(Msgs) \in Nat
  BY LogTypes, MsgsAre
<1>2. /\ LogPlaces[file] \in Nat
      /\ \A k \in 1..Len(Log[file]) :
           LogPlaces[file] + k \in 1..Len(Msgs) /\ Msgs[LogPlaces[file] + k] = Log[file][k]
  BY <1>1 DEF Places
<1>3. PICK P \in Nat : P = LogPlaces[file]
  BY <1>2
<1>4. Place = P + msg /\ Place + 1 = P + (msg + 1) /\ msg + 1 \in 1..Len(Log[file])
  BY <1>1, <1>3 DEF Place
<1>5. Place + 1 \in 1..Len(Msgs) /\ Msgs[Place + 1] = Log[file][msg + 1]
  BY <1>2, <1>3, <1>4
<1>6. Place \in Nat /\ (Place = 0 => msg = 0)
  BY <1>4
<1>7. msg = 0 => Log[file][msg + 1].type = "ts"
  <2>1. Log[file][1].type = "ts"
    BY PlaybackAssumption
  <2>2. msg = 0 => msg + 1 = 1
    OBVIOUS
  <2> QED
    BY <2>1, <2>2
<1>8. Place + 1 <= Len(Msgs) /\ Place = LogPlaces[file] + msg
  BY <1>1, <1>3, <1>4, <1>5
<1> QED
  BY <1>5, <1>6, <1>7, <1>8

\* Going on to the next file takes no message.
LEMMA PlaceEof ==
  ASSUME file \in 0..Len(Log) + 1, IF file \in DOMAIN Log THEN msg = Len(Log[file]) ELSE msg = 0,
         file' = IF file < Len(Log) THEN file + 1 ELSE Len(Log) + 1, msg' = 0
  PROVE  Place' = Place
<1>1. /\ Len(Log) \in Nat /\ DOMAIN Log = 1..Len(Log) /\ Places(Log, Msgs, LogPlaces)
  BY LogTypes, MsgsAre
<1>2. LogPlaces[1] = 0 /\ \A f \in 1..Len(Log) : LogPlaces[f + 1] = LogPlaces[f] + Len(Log[f])
  BY <1>1 DEF Places
<1>3. Place' = LogPlaces[file'] + 0
  <2>1. file' # 0
    BY <1>1
  <2> QED
    BY <2>1 DEF Place
<1>4. \A f \in 1..Len(Log) + 1 : LogPlaces[f] \in Int
  <2>1. \A f \in 1..Len(Log) : LogPlaces[f] \in Int
    BY <1>1 DEF Places
  <2>2. LogPlaces[Len(Log) + 1] \in Int
    BY <1>1, MsgsAre DEF Places
  <2> QED
    BY <1>1, <2>1, <2>2
<1>5. file' \in 1..Len(Log) + 1
  BY <1>1
<1>6. Place' = LogPlaces[file']
  BY <1>3, <1>4, <1>5
<1>7. CASE file \in DOMAIN Log
  <2>1. file' = file + 1 /\ file # 0
    BY <1>1, <1>7
  <2>2. Place = LogPlaces[file] + Len(Log[file])
    BY <1>7, <2>1 DEF Place
  <2> QED
    BY <1>1, <1>2, <1>6, <1>7, <2>1, <2>2
<1>8. CASE file = 0
  <2>1. file' = 1
    BY <1>1, <1>8
  <2> QED
    BY <1>2, <1>6, <1>8, <2>1 DEF Place
<1>9. CASE file = Len(Log) + 1
  <2>1. file' = file /\ file # 0 /\ msg = 0
    BY <1>1, <1>9
  <2> QED
    BY <1>3, <2>1 DEF Place
<1> QED
  BY <1>1, <1>7, <1>8, <1>9

\* What is to be written, or was, is part of the first record.
LEMMA TxFits ==
  ASSUME QInv, OutRight, pcO \in {"lock", "writev", "retire"}
  PROVE  /\ txN \in 0..Len(Held) /\ Held \in Pieces /\ recs # <<>> /\ recs[1] \in Rec
         /\ recs \in Seq(Rec) /\ txN \in 0..Len(PieceOf(row, recs[1]))
         /\ PieceOf(row, recs[1]) \in Pieces /\ HeldOf(row, Tail(recs)) \in Pieces
         /\ Held = PieceOf(row, recs[1]) \o HeldOf(row, Tail(recs))
<1>1. /\ recs \in Seq(Rec) /\ row \in RingRows /\ txN \in Nat /\ recs # <<>>
      /\ recs[1].type = "data" => txN <= recs[1].n
      /\ recs[1].type = "ts" => txN = 1
  BY DEF QInv, RingRight, QueueTypes, PlacesRight, OutRight
<1>2. recs[1] \in Rec
  BY <1>1
<1>3. PICK p \in Pieces, h \in Pieces : /\ p = PieceOf(row, recs[1])
                                        /\ h = HeldOf(row, Tail(recs))
  BY <1>1, HeldHead
<1>4. Held = p \o h
  BY <1>1, <1>3, HeldHead, HeldIs
<1>5. Len(p) \in Nat /\ Len(h) \in Nat /\ Len(p \o h) = Len(p) + Len(h) /\ p \o h \in Pieces
  BY PiecesConcat
<1>6. txN <= Len(p)
  <2>1. CASE recs[1].type = "ts"
    <3>1. Len(p) = 1
      BY <1>1, <1>2, <1>3, <2>1, PieceType
    <3> QED
      BY <1>1, <2>1, <3>1
  <2>2. CASE recs[1].type # "ts"
    BY <1>1, <1>2, <1>3, <2>2, PieceType
  <2> QED
    BY <2>1, <2>2
<1>7. txN \in 0..Len(p) /\ txN \in 0..Len(p \o h)
  BY <1>1, <1>5, <1>6
<1> QED
  BY <1>1, <1>2, <1>3, <1>4, <1>5, <1>7

\* No more rows wait than the ring has.
LEMMA RowsFit ==
  ASSUME NEW rw \in RingRows, NEW rs \in Seq(Rec), NEW off \in [1..Len(rs) + 1 -> 0..Total],
         off[1] = 0,
         \A i \in 1..Len(rs) : IF rs[i].type = "data" THEN off[i + 1] = off[i] + rs[i].n
                               ELSE off[i + 1] = off[i]
  PROVE  /\ Fifo!Rows(HeldOf(rw, rs)) <= Total
         /\ \A n \in 0..Len(HeldOf(rw, rs)) :
              Fifo!Rows(SubSeq(HeldOf(rw, rs), n + 1, Len(HeldOf(rw, rs)))) <= Total
<1>1. PICK T \in Nat, m \in Nat : T = Total /\ m = Len(rs)
  BY DataQueueAssumption
<1>2. /\ \A i \in 1..m + 1 : off[i] \in 0..T
      /\ m + 1 \in 1..m + 1 /\ \A i \in 1..m : i \in 1..m + 1
  BY <1>1
<1>3. \A i \in 1..Len(rs) :
        off[i] \in Nat /\ off[i + 1] = off[i] + (IF rs[i].type = "data" THEN rs[i].n ELSE 0)
  <2>1. ASSUME NEW i \in 1..m
        PROVE  off[i] \in Nat /\ off[i + 1] = off[i] + (IF rs[i].type = "data" THEN rs[i].n ELSE 0)
    <3>1. PICK x \in Nat : x = off[i]
      BY <1>2
    <3>2. x + 0 = x
      OBVIOUS
    <3> QED
      BY <1>1, <3>1, <3>2
  <2> QED
    BY <1>1, <2>1
<1>4. Fifo!Rows(HeldOf(rw, rs)) = off[m + 1]
  BY <1>1, <1>3, HeldRows
<1>5. PICK h \in Pieces : h = HeldOf(rw, rs)
  BY HeldType
<1>6. Fifo!Rows(h) \in 0..T
  BY <1>2, <1>4, <1>5
<1>7. ASSUME NEW n \in 0..Len(h)
      PROVE  Fifo!Rows(SubSeq(h, n + 1, Len(h))) <= Total
  <2>1. h \in Seq(Item)
    BY DEF Pieces
  <2>2. Fifo!Rows(SubSeq(h, n + 1, Len(h))) <= Fifo!Rows(h)
    BY <1>7, <2>1, RowsRest
  <2>3. Fifo!Rows(SubSeq(h, n + 1, Len(h))) \in Nat
    <3>1. PICK g \in Seq(Item) : g = SubSeq(h, n + 1, Len(h))
      BY <1>7, <2>1, LeaveElems
    <3> QED
      BY <3>1, RowsConcat
  <2> QED
    BY <1>1, <1>6, <2>2, <2>3
<1> QED
  BY <1>1, <1>5, <1>6, <1>7

-----------------------------------------------------------------------------
\* Steps of the queue under the invariant

\* A stamp is queued.
LEMMA StampStep ==
  ASSUME FInv, NEW t \in Nat, CommitTstamp(t), UNCHANGED row
  PROVE  /\ Held' = Held \o <<[ts |-> t]>> /\ <<[ts |-> t]>> \in Pieces
         /\ row' \in RingRows /\ NextsRight(recs')
<1>1. QueueTypes /\ row \in RingRows /\ NextsRight(recs)
  BY DEF FInv, QInv, RingRight, OutRight
<1>2. /\ HeldOf(row, recs') = HeldOf(row, recs) \o <<[ts |-> t]>>
      /\ <<[ts |-> t]>> \in Pieces /\ NextsRight(recs')
  BY <1>1, StampHeld
<1> QED
  BY <1>1, <1>2, HeldIs

\* Rows are queued.
LEMMA CommitStep ==
  ASSUME FInv, Commit
  PROVE  /\ Held' = Held \o RowItems(label, room)
         /\ row' \in RingRows /\ NextsRight(recs')
         /\ label \in 0..Labels - 1 /\ room \in Nat \ {0} /\ room \in 1..left
         /\ RowItems(label, room) \in Pieces /\ Len(RowItems(label, room)) = room
<1>1. /\ pcI = "commit" /\ CommitRows(label, room) /\ UNCHANGED row
  BY DEF Commit
<1>2. QueueTypes /\ row \in RingRows /\ NextsRight(recs)
  BY DEF FInv, QInv, RingRight, OutRight
<1>3. QueueTypes'
  <2>1. QInv'
    BY QStep DEF FInv, Next, InputStep
  <2> QED
    BY <2>1 DEF QInv, RingRight
<1>4. /\ label \in 0..Labels - 1 /\ room \in 1..left /\ left \in Nat /\ last + room <= Total
      /\ \A j \in 1..room : row[last + j - 1] = Plus(label, j - 1)
  BY <1>1 DEF FInv, QInv, PlacesRight, LogRight
<1>5. PICK off : Ring(off) /\ Room(off)
  BY DEF FInv, QInv, RingRight
<1>6. PICK n \in Nat \ {0} : n = room
  BY <1>4
<1>7. off[Len(recs) + 1] + n <= Total
  BY <1>1, <1>5, <1>6 DEF Room
<1>8. HeldOf(row, recs') = HeldOf(row, recs) \o RowItems(label, n) /\ NextsRight(recs')
  BY <1>1, <1>2, <1>3, <1>4, <1>5, <1>6, <1>7, CommitHeld
<1>9. RowItems(label, n) \in Pieces /\ Len(RowItems(label, n)) = n
  BY <1>4, RowItemsAre
<1> QED
  BY <1>1, <1>2, <1>4, <1>6, <1>8, <1>9, HeldIs

\* Rows are copied behind those held.
LEMMA FillStep ==
  ASSUME FInv, Fill
  PROVE  /\ Held' = Held /\ row' \in RingRows
         /\ \A j \in 1..room : row'[last + j - 1] = Plus(label, j - 1)
<1>1. /\ pcI = "fill" /\ UNCHANGED recs
      /\ FillRows([k \in 1..room |-> Plus(label, k - 1)])
  BY DEF Fill
<1>2. QueueTypes /\ row \in RingRows
  BY DEF FInv, QInv, RingRight, OutRight
<1>3. /\ label \in 0..Labels - 1 /\ room \in 1..left /\ left \in Nat /\ last + room <= Total
  BY <1>1 DEF FInv, QInv, PlacesRight
<1>4. PICK off : Ring(off) /\ Room(off)
  BY DEF FInv, QInv, RingRight
<1>5. PICK n \in Nat : n = room
  BY <1>3
<1>6. off[Len(recs) + 1] + n <= Total
  BY <1>1, <1>4, <1>5 DEF Room
<1>7. PICK v : v = [k \in 1..n |-> Plus(label, k - 1)]
  OBVIOUS
<1>8. v \in [1..n -> Int] /\ Len(v) = n /\ \A j \in 1..n : v[j] = Plus(label, j - 1)
  <2>1. ASSUME NEW k \in 1..n PROVE Plus(label, k - 1) \in Int
    <3>1. k - 1 \in Nat
      BY <1>5, <2>1
    <3>2. Plus(label, k - 1) \in 0..Labels - 1
      BY <1>3, <3>1, PlusRange
    <3> QED
      BY <3>2, DataQueueAssumption
  <2>2. v \in [1..n -> Int]
    BY <1>7, <2>1
  <2>3. v \in Seq(Int) /\ Len(v) = n
    BY <1>5, <2>2
  <2> QED
    BY <1>7, <2>2, <2>3
<1>9. /\ row' \in RingRows /\ \A j \in 1..n : row'[last + j - 1] = v[j]
      /\ HeldOf(row', recs) = HeldOf(row, recs)
  BY <1>1, <1>2, <1>3, <1>4, <1>5, <1>6, <1>7, <1>8, FillHeld
<1> QED
  BY <1>1, <1>5, <1>8, <1>9, HeldIs

\* What was written, or could not be, is retired.
LEMMA RetireStep ==
  ASSUME FInv, Retire
  PROVE  /\ Held' = SubSeq(Held, txN + 1, Len(Held))
         /\ row' \in RingRows /\ NextsRight(recs')
<1>1. /\ pcO = "retire" /\ UNCHANGED row
      /\ IF recs[1].type = "ts" THEN RetireTstamp ELSE RetireRows(txN)
  BY DEF Retire, outRest
<1>2. /\ QueueTypes /\ row \in RingRows /\ NextsRight(recs) /\ QInv /\ OutRight
      /\ txN \in Nat
  BY DEF FInv, QInv, RingRight, OutRight, PlacesRight
<1>3. recs # <<>> /\ recs[1] \in Rec
  BY <1>1, <1>2, TxFits
<1>4. QueueTypes'
  <2>1. QInv'
    BY QStep DEF FInv, Next, OutputStep
  <2> QED
    BY <2>1 DEF QInv, RingRight
<1>5. CASE recs[1].type = "ts"
  <2>1. txN = 1 /\ 1 + 1 = 2
    BY <1>1, <1>2, <1>5 DEF OutRight
  <2>2. /\ HeldOf(row, recs') = SubSeq(HeldOf(row, recs), 2, Len(HeldOf(row, recs)))
        /\ NextsRight(recs')
    BY <1>1, <1>2, <1>3, <1>5, RetireStampHeld
  <2> QED
    BY <1>1, <1>2, <2>1, <2>2, HeldIs
<1>6. CASE recs[1].type # "ts"
  <2>1. recs[1].type = "data" /\ txN <= recs[1].n
    <3>1. recs[1].type = "data"
      BY <1>3, <1>6 DEF Rec, DataRec
    <3> QED
      BY <1>1, <1>2, <3>1 DEF QInv, PlacesRight
  <2>2. PICK off : Ring(off)
    BY <1>2 DEF QInv, RingRight
  <2>3. RetireRows(txN)
    BY <1>1, <1>6
  <2>4. /\ HeldOf(row, recs') = SubSeq(HeldOf(row, recs), txN + 1, Len(HeldOf(row, recs)))
        /\ NextsRight(recs')
    BY <1>2, <1>3, <1>4, <2>1, <2>2, <2>3, RetireRowsHeld
  <2> QED
    BY <1>1, <1>2, <2>4, HeldIs
<1> QED
  BY <1>5, <1>6

\* What is appended, or added to the last record, is no other type of record.
LEMMA HeadType ==
  ASSUME QueueTypes, recs # <<>>,
         \/ \E l, n : CommitRows(l, n)
         \/ \E ts : CommitTstamp(ts)
  PROVE  recs'[1].type = recs[1].type
<1>1. 1 \in 1..Len(recs) /\ recs \in Seq(Rec) /\ Len(recs) \in Nat
  BY DEF QueueTypes
<1>2. ASSUME NEW d, recs' = Append(recs, d) PROVE recs'[1] = recs[1]
  BY <1>1, <1>2
<1>3. ASSUME NEW ts, CommitTstamp(ts) PROVE recs'[1] = recs[1]
  BY <1>2, <1>3 DEF CommitTstamp
<1>4. ASSUME NEW l, NEW n, CommitRows(l, n) PROVE recs'[1].type = recs[1].type
  <2>1. CASE recs' = Append(recs, New(l, n))
    BY <1>2, <2>1
  <2>2. ASSUME NEW u \in Seq(Rec), NEW d \in DataRec,
               recs = Append(u, d), recs' = Append(u, Grown(d, n))
        PROVE  recs'[1].type = recs[1].type
    <3>1. PICK m \in Nat : m = Len(u)
      OBVIOUS
    <3>2. CASE m = 0
      <4>1. recs[1] = d /\ recs'[1] = Grown(d, n)
        <5>1. u = <<>>
          BY <3>1, <3>2, EmptySeq
        <5>2. \A x : Append(<<>>, x)[1] = x
          OBVIOUS
        <5> QED
          BY <2>2, <5>1, <5>2
      <4>2. d.type = "data"
        BY DEF DataRec
      <4> QED
        BY <4>1, <4>2 DEF Grown
    <3>3. CASE m # 0
      <4>1. recs[1] = u[1] /\ recs'[1] = u[1]
        BY <2>2, <3>1, <3>3
      <4> QED
        BY <4>1
    <3> QED
      BY <3>2, <3>3
  <2> QED
    BY <1>4, <2>1, <2>2, CommitRecs
<1> QED
  BY <1>3, <1>4

\* The message that process_message goes on to.
LEMMA MessageIs ==
  ASSUME PlacesRight, pcI = "msg"
  PROVE  /\ file \in DOMAIN Log /\ msg \in Nat /\ msg < Len(Log[file])
         /\ Log[file][msg + 1] \in Message /\ Len(Log[file]) \in Nat
<1>1. /\ file \in DOMAIN Log /\ chunk >= 1 /\ msg + chunk <= Len(Log[file])
      /\ msg \in Nat /\ chunk \in Nat
  BY DEF PlacesRight
<1>2. Len(Log[file]) \in Nat
  BY <1>1, LogTypes
<1>3. msg < Len(Log[file])
  BY <1>1, <1>2
<1> QED
  BY <1>1, <1>2, <1>3, LogTypes

-----------------------------------------------------------------------------
(* The steps *)

\* Steps and what OutRight says of the output thread.
LEMMA OutRightStep == FInv /\ [Next]_vars => OutRight'
<1> SUFFICES ASSUME FInv, [Next]_vars PROVE OutRight'
  OBVIOUS
<1>0. QInv /\ OutRight /\ QueueTypes /\ PlacesRight
  BY DEF FInv, QInv, RingRight
<1>1. ASSUME UNCHANGED outVars, row' \in RingRows, NextsRight(recs'),
             recs # <<>> => recs'[1].type = recs[1].type
      PROVE  OutRight'
  <2>1. pcO' = pcO /\ txN' = txN
    BY <1>1 DEF outVars
  <2>2. pcO \in {"next", "lock", "writev", "retire"} => recs # <<>>
    BY <1>0 DEF PlacesRight
  <2> QED
    BY <1>0, <1>1, <2>1, <2>2 DEF OutRight
<1>2. ASSUME UNCHANGED <<row, recs>>,
             pcO' = "next" => recs[1].type = "data",
             pcO' \in {"lock", "writev"} => txN' >= 1,
             pcO' \in {"lock", "writev", "retire"} => (recs[1].type = "ts" => txN' = 1)
      PROVE  OutRight'
  BY <1>0, <1>2 DEF OutRight
<1>3. CASE UNCHANGED <<dqVars, outVars>>
  <2>1. UNCHANGED <<row, recs>> /\ UNCHANGED <<pcO, txN>>
    BY <1>3 DEF dqVars, outVars
  <2> QED
    BY <1>0, <2>1 DEF OutRight
<1>4. CASE ControlStep \/ Command \/ CloseCmd \/ Tick \/ UNCHANGED vars
  <2>1. UNCHANGED <<dqVars, outVars>>
    BY <1>4 DEF ControlStep, TimerPulse, QuitPulse, Execute, Quit, Event, Join, Command,
                CloseCmd, Tick, ctlRest, vars
  <2> QED
    BY <1>3, <2>1
<1>5. CASE ReadLog \/ EndOfFile \/ WaitAtEof \/ InputWoken \/ InputDone \/ ProcessData \/ FindRoom
  <2>1. UNCHANGED <<dqVars, outVars>>
    BY <1>5 DEF ReadLog, EndOfFile, WaitAtEof, InputWoken, InputDone, ProcessData, FindRoom,
                TakeMessage
  <2> QED
    BY <1>3, <2>1
<1>6. CASE ProcessTstamp
  <2>1. UNCHANGED outVars
    BY <1>6 DEF ProcessTstamp, TakeMessage
  <2>2. CASE UNCHANGED dqVars
    BY <1>3, <2>1, <2>2
  <2>3. ASSUME NEW t \in Nat, CommitTstamp(t), UNCHANGED row PROVE OutRight'
    <3>1. row' \in RingRows /\ NextsRight(recs')
      BY <2>3, StampStep
    <3>2. recs # <<>> => recs'[1].type = recs[1].type
      BY <1>0, <2>3, HeadType
    <3> QED
      BY <1>1, <2>1, <3>1, <3>2
  <2>4. UNCHANGED dqVars \/ \E t \in Nat : CommitTstamp(t) /\ UNCHANGED row
    <3>1. Log[file][msg + 1] \in Message /\ Log[file][msg + 1].type = "ts"
      BY <1>0, <1>6, MessageIs DEF ProcessTstamp
    <3>2. Log[file][msg + 1].ts \in Nat
      BY <3>1 DEF Message
    <3> QED
      BY <1>6, <3>2 DEF ProcessTstamp
  <2> QED
    BY <2>2, <2>3, <2>4
<1>7. CASE Fill
  <2>1. UNCHANGED outVars /\ UNCHANGED recs /\ NextsRight(recs)
    BY <1>0, <1>7 DEF Fill, OutRight
  <2>2. row' \in RingRows
    BY <1>7, FillStep
  <2> QED
    BY <1>1, <2>1, <2>2
<1>8. CASE Commit
  <2>1. UNCHANGED outVars /\ CommitRows(label, room)
    BY <1>8 DEF Commit
  <2>2. row' \in RingRows /\ NextsRight(recs')
    BY <1>8, CommitStep
  <2>3. recs # <<>> => recs'[1].type = recs[1].type
    BY <1>0, <2>1, HeadType
  <2> QED
    BY <1>1, <2>1, <2>2, <2>3
<1>9. CASE Top \/ OutputWoken \/ TimedRoom \/ TimedWake \/ UntimedLoop
  <2>1. UNCHANGED <<row, recs>> /\ pcO' \notin {"next", "lock", "writev", "retire"}
    BY <1>9 DEF Top, OutputWoken, TimedRoom, TimedWake, UntimedLoop, outRest
  <2> QED
    BY <1>2, <2>1
<1>10. CASE Look
  <2>1. UNCHANGED <<row, recs>>
    BY <1>10 DEF Look, outRest
  <2>2. CASE recs = <<>>
    BY <1>2, <1>10, <2>1, <2>2 DEF Look, Transmitted
  <2>3. CASE recs # <<>> /\ recs[1].type = "ts"
    BY <1>2, <1>10, <2>1, <2>3 DEF Look
  <2>4. CASE recs # <<>> /\ recs[1].type # "ts"
    <3>1. recs[1] \in Rec
      BY <1>0, <2>4 DEF QueueTypes
    <3>2. recs[1].type = "data" /\ recs[1].n \in 0..Total
      BY <2>4, <3>1 DEF Rec, DataRec
    <3>3. PICK m \in Nat : m = recs[1].n
      BY <3>2, DataQueueAssumption
    <3>4. CASE m = 0
      BY <1>2, <1>10, <2>1, <2>4, <3>2, <3>3, <3>4 DEF Look
    <3>5. CASE m # 0
      <4>1. pcO' = "lock" /\ txN' = IF single THEN 1 ELSE m
        BY <1>10, <2>4, <3>3, <3>5 DEF Look
      <4>2. txN' >= 1
        BY <3>5, <4>1
      <4> QED
        BY <1>2, <2>1, <3>2, <4>1, <4>2
    <3> QED
      BY <3>4, <3>5
  <2> QED
    BY <2>2, <2>3, <2>4
<1>11. CASE LookNext
  <2>1. UNCHANGED <<row, recs>> /\ pcO = "next"
        /\ pcO' \notin {"next", "lock", "writev"}
    BY <1>11 DEF LookNext, Transmitted, outRest
  <2>2. recs[1].type = "data"
    BY <1>0, <2>1 DEF OutRight
  <2> QED
    BY <1>2, <2>1, <2>2
<1>12. CASE LockOutput \/ Written
  <2>1. /\ UNCHANGED <<row, recs, txN>> /\ pcO \in {"lock", "writev"}
        /\ pcO' \in {"writev", "retire"}
    BY <1>12 DEF LockOutput, Written, outRest
  <2> QED
    BY <1>0, <1>2, <2>1 DEF OutRight
<1>13. CASE Retire
  <2>1. pcO' \notin {"next", "lock", "writev", "retire"}
    BY <1>13 DEF Retire
  <2>2. row' \in RingRows /\ NextsRight(recs')
    BY <1>13, RetireStep
  <2> QED
    BY <2>1, <2>2 DEF OutRight
<1> QED
  BY <1>4, <1>5, <1>6, <1>7, <1>8, <1>9, <1>10, <1>11, <1>12, <1>13
     DEF Next, InputStep, OutputStep

-----------------------------------------------------------------------------
\* Every step preserves the invariant

\* Steps and what OpenRight says of quit: TM/DG is closed before any thread
\* hears of it.
LEMMA OpenRightStep == FInv /\ [Next]_vars => OpenRight'
<1> SUFFICES ASSUME FInv, [Next]_vars PROVE OpenRight'
  OBVIOUS
<1>0. OpenRight /\ todo \in Seq(Events) /\ (pcC = "event" => todo # <<>>)
  BY DEF FInv, Handshake
<1>1. ASSUME fdOpen' = fdOpen, pcO' = "writev" => pcO = "writev" \/ fdOpen,
             dcQuit' \/ "quit" \in ToSet(todo') => dcQuit \/ "quit" \in ToSet(todo)
      PROVE  OpenRight'
  BY <1>0, <1>1 DEF OpenRight
<1>2. ASSUME UNCHANGED <<fdOpen, pcO, dcQuit, todo>> PROVE OpenRight'
  BY <1>1, <1>2
<1>3. CASE InputStep \/ QuitPulse \/ Join \/ Command \/ CloseCmd \/ Tick \/ UNCHANGED vars
  <2>1. UNCHANGED <<fdOpen, pcO, dcQuit, todo>>
    BY <1>3 DEF InputStep, ReadLog, EndOfFile, WaitAtEof, InputWoken, InputDone, TakeMessage,
                ProcessTstamp, ProcessData, FindRoom, Fill, Commit, QuitPulse, Join, Command,
                CloseCmd, Tick, vars, ctlRest, genVars, outVars, ctlVars
  <2> QED
    BY <1>2, <2>1
<1>4. CASE OutputStep
  <2>1. UNCHANGED <<fdOpen, dcQuit, todo>>
    BY <1>4 DEF OutputStep, Top, OutputWoken, TimedRoom, TimedWake, UntimedLoop, Look, LookNext,
                LockOutput, Written, Retire, outRest, genVars, ctlVars
  <2>2. pcO' = "writev" => fdOpen
    BY <1>4 DEF OutputStep, Top, OutputWoken, TimedRoom, TimedWake, UntimedLoop, Look, LookNext,
                LockOutput, Written, Retire, Transmitted
  <2> QED
    BY <1>1, <2>1, <2>2
<1>5. CASE TimerPulse
  <2>1. UNCHANGED <<fdOpen, pcO, dcQuit>> /\ todo' = <<"row">>
    BY <1>5 DEF TimerPulse, ctlRest, genVars, outVars
  <2>2. "quit" \notin ToSet(<<"row">>)
    BY DEF ToSet
  <2> QED
    BY <1>1, <2>1, <2>2
<1>6. CASE Execute
  <2>1. UNCHANGED <<fdOpen, pcO, dcQuit>>
    BY <1>6 DEF Execute, ctlRest, outVars
  <2>2. todo' \in Seq(Played)
    BY <1>6, CommandEvents DEF Execute
  <2>3. \A t \in Seq(Played) : "quit" \notin ToSet(t)
    BY DEF Played, ToSet
  <2> QED
    BY <1>1, <2>1, <2>2, <2>3
<1>7. CASE Quit
  <2>1. fdOpen' = FALSE /\ pcO' # "writev"
    BY <1>7 DEF Quit, MutexFree, ctlRest, outVars
  <2> QED
    BY <2>1 DEF OpenRight
<1>8. CASE Event
  <2>1. /\ UNCHANGED <<fdOpen, pcO>> /\ todo' = Tail(todo) /\ todo # <<>>
        /\ dcQuit' = (dcQuit \/ Head(todo) = "quit")
    BY <1>0, <1>8 DEF Event, HandleEvent, ctlRest, genVars, outVars
  <2>2. /\ \A i \in DOMAIN Tail(todo) : i + 1 \in DOMAIN todo /\ Tail(todo)[i] = todo[i + 1]
        /\ 1 \in DOMAIN todo /\ Head(todo) = todo[1]
    BY <1>0, <2>1
  <2>3. \A x \in ToSet(Tail(todo)) : x \in ToSet(todo)
    BY <2>2 DEF ToSet
  <2>4. Head(todo) \in ToSet(todo)
    BY <2>2 DEF ToSet
  <2> QED
    BY <1>1, <2>1, <2>3, <2>4
<1> QED
  BY <1>3, <1>4, <1>5, <1>6, <1>7, <1>8 DEF Next, ControlStep

\* The next message is taken.
LEMMA MoveOn ==
  ASSUME FInv, pcI = "msg", TakeMessage
  PROVE  /\ Place \in Nat /\ Place' = Place + 1 /\ Place + 1 <= Len(Msgs)
         /\ file' \in 0..Len(Log) + 1 /\ file' \in DOMAIN Log /\ msg' \in 0..Len(Log[file'])
         /\ Msgs[Place + 1] = Log[file][msg + 1]
         /\ Log[file][msg + 1] \in Message
         /\ Place = 0 => Log[file][msg + 1].type = "ts"
<1>1. /\ file \in DOMAIN Log /\ msg \in Nat /\ msg < Len(Log[file])
      /\ Log[file][msg + 1] \in Message /\ Len(Log[file]) \in Nat
  BY MessageIs DEF FInv, QInv
<1>2. file' = file /\ msg' = msg + 1
  BY DEF TakeMessage
<1>3. /\ Place \in Nat /\ Place + 1 <= Len(Msgs) /\ Place = LogPlaces[file] + msg
      /\ Msgs[Place + 1] = Log[file][msg + 1]
      /\ Place = 0 => Log[file][msg + 1].type = "ts"
  BY <1>1, PlaceNext
<1>4. LogPlaces[file] \in Nat /\ file # 0 /\ file \in 0..Len(Log) + 1
  <2>1. /\ Len(Log) \in Nat /\ DOMAIN Log = 1..Len(Log) /\ Places(Log, Msgs, LogPlaces)
    BY LogTypes, MsgsAre
  <2>2. LogPlaces[file] \in Nat
    BY <1>1, <2>1 DEF Places
  <2> QED
    BY <1>1, <2>1, <2>2
<1>5. Place' = LogPlaces[file] + (msg + 1)
  BY <1>2, <1>4 DEF Place
<1>6. Place' = Place + 1
  BY <1>1, <1>3, <1>4, <1>5
<1>7. msg' \in 0..Len(Log[file'])
  BY <1>1, <1>2
<1> QED
  BY <1>1, <1>2, <1>3, <1>4, <1>6, <1>7

\* Steps and what LogRight says of the input thread.
LEMMA LogRightStep == FInv /\ [Next]_vars => LogRight'
<1> SUFFICES ASSUME FInv, [Next]_vars PROVE LogRight'
  OBVIOUS
<1>0. LogRight /\ PlacesRight /\ QInv
  BY DEF FInv, QInv
<1>1. ASSUME UNCHANGED <<file, msg, lastTs, haveTs, taken, left, label>>,
             pcI' \in InRows <=> pcI \in InRows,
             pcI' = "commit" => \A j \in 1..room' : row'[last' + j - 1] = Plus(label, j - 1)
      PROVE  LogRight'
  <2>1. Place' = Place
    BY <1>1 DEF Place
  <2> QED
    BY <1>0, <1>1, <2>1 DEF LogRight
<1>2. ASSUME UNCHANGED <<pcI, file, msg, lastTs, haveTs, taken, left, label, room, row, last>>
      PROVE  LogRight'
  <2>1. pcI' = "commit" => \A j \in 1..room' : row'[last' + j - 1] = Plus(label, j - 1)
    BY <1>0, <1>2 DEF LogRight
  <2> QED
    BY <1>1, <1>2, <2>1
<1>3. CASE ControlStep \/ Command \/ CloseCmd \/ Tick \/ UNCHANGED vars
  <2>1. UNCHANGED <<dqVars, logVars, inVars, taken>>
    BY <1>3 DEF ControlStep, TimerPulse, QuitPulse, Execute, Quit, Event, Join, Command,
                CloseCmd, Tick, ctlRest, vars
  <2> QED
    BY <1>2, <2>1 DEF dqVars, logVars, inVars
<1>4. CASE OutputStep
  <2>1. UNCHANGED <<row, logVars, inVars, taken, last>>
    BY <1>4 DEF OutputStep, Top, OutputWoken, TimedRoom, TimedWake, UntimedLoop, Look, LookNext,
                LockOutput, Written, Retire, outRest, RetireRows, RetireTstamp
  <2> QED
    BY <1>2, <2>1 DEF logVars, inVars
<1>5. CASE ReadLog \/ WaitAtEof \/ InputWoken \/ InputDone
  <2>1. /\ UNCHANGED <<file, msg, lastTs, haveTs, taken, left, label>>
        /\ pcI' \in InRows <=> pcI \in InRows
        /\ pcI' # "commit"
    BY <1>5 DEF ReadLog, WaitAtEof, InputWoken, InputDone, logVars, InRows
  <2> QED
    BY <1>1, <2>1
<1>6. CASE EndOfFile
  <2>1. /\ file' = IF file < Len(Log) THEN file + 1 ELSE Len(Log) + 1
        /\ msg' = 0 /\ UNCHANGED <<lastTs, haveTs, taken, left, label>>
        /\ pcI \notin InRows /\ pcI' \notin InRows /\ pcI' # "commit"
        /\ file \in DOMAIN Log => msg = Len(Log[file])
    BY <1>6 DEF EndOfFile, InRows
  <2>2. file \in 0..Len(Log) + 1 /\ (file \notin DOMAIN Log => msg = 0)
    BY <1>0 DEF LogRight
  <2>3. Place' = Place
    BY <2>1, <2>2, PlaceEof
  <2>4. file' \in 0..Len(Log) + 1 /\ \A f \in DOMAIN Log : 0 \in 0..Len(Log[f])
    BY <2>1, <2>2, LogTypes
  <2> QED
    BY <1>0, <2>1, <2>3, <2>4 DEF LogRight
<1>7. ASSUME NextMessage(chunk') \/ NextMessage(chunk) PROVE pcI' \notin InRows /\ pcI' # "commit"
  BY <1>7 DEF NextMessage, InRows
<1>8. ASSUME pcI = "msg" PROVE left = 0 /\ taken \in Nat /\ taken = Len(LogSteps[Place].items)
                               /\ lastTs = LogSteps[Place].ts /\ (Place > 0 => haveTs)
  BY <1>0, <1>8 DEF LogRight, InRows
<1>9. CASE ProcessTstamp
  <2>1. /\ pcI = "msg" /\ TakeMessage /\ NextMessage(chunk') /\ UNCHANGED <<left, label>>
        /\ Log[file][msg + 1].type = "ts"
    BY <1>9 DEF ProcessTstamp
  <2>2. PICK m \in Message : m = Log[file][msg + 1]
    BY <2>1, MoveOn
  <2>3. PICK k \in Nat : k = Place
    BY <2>1, MoveOn
  <2>4. k + 1 <= Len(Msgs) /\ Msgs[k + 1] = m /\ Place' = k + 1
    BY <2>1, <2>2, <2>3, MoveOn
  <2>5. /\ LogSteps[k + 1] = LogAdd(LogSteps[k], m)
        /\ Len(LogSteps[k + 1].items) = Len(LogSteps[k].items) + Len(Added(LogSteps[k], m))
    BY <2>4, NextItems
  <2>6. m.type = "ts" /\ m.ts \in Nat \ {0}
    BY <2>1, <2>2 DEF Message
  <2>7. /\ left' = 0 /\ taken = Len(LogSteps[k].items) /\ taken \in Nat
        /\ lastTs = LogSteps[k].ts
    BY <1>8, <2>1, <2>3
  <2>8. /\ pcI' \notin InRows /\ pcI' # "commit"
        /\ file' \in 0..Len(Log) + 1 /\ file' \in DOMAIN Log /\ msg' \in 0..Len(Log[file'])
    BY <1>7, <2>1, MoveOn
  <2>9. CASE m.ts = lastTs
    <3>1. UNCHANGED <<lastTs, haveTs, taken>>
      BY <1>9, <2>2, <2>9 DEF ProcessTstamp
    <3>2. haveTs
      <4>1. CASE k = 0
        <5>1. lastTs = 0
          BY <2>7, <4>1, StepsAre
        <5> QED
          BY <2>6, <2>9, <5>1
      <4>2. CASE k # 0
        BY <1>8, <2>1, <2>3, <4>2
      <4> QED
        BY <4>1, <4>2
    <3>3. LogSteps[k + 1] = LogSteps[k]
      BY <2>5, <2>6, <2>7, <2>9 DEF LogAdd
    <3>4. taken' + left' = Len(LogSteps[Place'].items)
      BY <2>4, <2>7, <3>1, <3>3
    <3> QED
      BY <2>4, <2>7, <2>8, <3>1, <3>2, <3>3, <3>4 DEF LogRight
  <2>10. CASE m.ts # lastTs
    <3>1. lastTs' = m.ts /\ haveTs' = TRUE /\ taken' = taken + 1
      BY <1>9, <2>2, <2>10 DEF ProcessTstamp
    <3>2. Added(LogSteps[k], m) = <<[ts |-> m.ts]>>
      BY <2>6, <2>7, <2>10 DEF Added
    <3>3. LogSteps[k + 1].ts = m.ts
      BY <2>5, <2>6, AddTs
    <3>4. Len(<<[ts |-> m.ts]>>) = 1
      OBVIOUS
    <3>5. taken' \in Nat /\ left' \in Nat /\ taken' + left' = Len(LogSteps[k + 1].items)
      BY <2>5, <2>7, <3>1, <3>2, <3>4
    <3> QED
      BY <2>4, <2>7, <2>8, <3>1, <3>3, <3>5 DEF LogRight
  <2> QED
    BY <2>9, <2>10
<1>10. CASE ProcessData
  <2>1. /\ pcI = "msg" /\ TakeMessage /\ UNCHANGED <<lastTs, haveTs, taken>>
        /\ Log[file][msg + 1].type = "data"
    BY <1>10 DEF ProcessData
  <2>2. PICK m \in Message : m = Log[file][msg + 1]
    BY <2>1, MoveOn
  <2>3. PICK k \in Nat : k = Place
    BY <2>1, MoveOn
  <2>4. k + 1 <= Len(Msgs) /\ Msgs[k + 1] = m /\ Place' = k + 1
    BY <2>1, <2>2, <2>3, MoveOn
  <2>5. /\ LogSteps[k + 1] = LogAdd(LogSteps[k], m)
        /\ Len(LogSteps[k + 1].items) = Len(LogSteps[k].items) + Len(Added(LogSteps[k], m))
        /\ \A j \in 1..Len(Added(LogSteps[k], m)) :
             LogItems[Len(LogSteps[k].items) + j] = Added(LogSteps[k], m)[j]
    BY <2>4, NextItems
  <2>6. m.type = "data" /\ m.n \in Nat /\ m.label \in 0..Labels - 1
    BY <2>1, <2>2 DEF Message
  <2>7. /\ left = 0 /\ taken = Len(LogSteps[k].items) /\ taken \in Nat
        /\ lastTs = LogSteps[k].ts
    BY <1>8, <2>1, <2>3
  <2>8. haveTs
    <3>1. k # 0
      BY <2>1, <2>3, MoveOn
    <3> QED
      BY <1>8, <2>1, <2>3, <3>1
  <2>9. file' \in 0..Len(Log) + 1 /\ file' \in DOMAIN Log /\ msg' \in 0..Len(Log[file'])
    BY <2>1, MoveOn
  <2>10. LogSteps[k + 1].ts = lastTs
    BY <2>5, <2>6, <2>7, AddTs
  <2>11. /\ Added(LogSteps[k], m) = RowItems(m.label, m.n) /\ Len(RowItems(m.label, m.n)) = m.n
         /\ \A j \in 1..m.n : RowItems(m.label, m.n)[j]
                              = [label |-> Plus(m.label, j - 1), data |-> Plus(m.label, j - 1)]
    BY <2>6, RowItemsAre DEF Added
  <2>12. /\ Len(LogSteps[k + 1].items) = taken + m.n
         /\ Carries(taken, m.label, m.n)
    BY <2>5, <2>7, <2>11 DEF Carries
  <2>13. CASE m.n = 0
    <3>1. NextMessage(chunk') /\ UNCHANGED <<left, label>>
      BY <1>10, <2>2, <2>13 DEF ProcessData
    <3>2. pcI' \notin InRows /\ pcI' # "commit"
      BY <1>7, <3>1
    <3>3. taken' \in Nat /\ left' = 0 /\ taken' + left' = Len(LogSteps[k + 1].items)
      BY <2>1, <2>7, <2>12, <2>13, <3>1
    <3> QED
      BY <2>1, <2>4, <2>8, <2>9, <2>10, <3>2, <3>3 DEF LogRight
  <2>14. CASE m.n # 0
    <3>1. left' = m.n /\ label' = m.label /\ pcI' = "rows"
      BY <1>10, <2>2, <2>8, <2>14 DEF ProcessData
    <3>2. taken' \in Nat /\ left' \in Nat /\ taken' + left' = Len(LogSteps[k + 1].items)
      BY <2>1, <2>6, <2>7, <2>12, <3>1
    <3> QED
      BY <2>1, <2>4, <2>8, <2>9, <2>10, <2>12, <3>1, <3>2 DEF LogRight, InRows
  <2> QED
    BY <2>13, <2>14
<1>11. CASE FindRoom
  <2>1. pcI = "rows" /\ UNCHANGED <<file, msg, lastTs, haveTs>>
    BY <1>11 DEF FindRoom, logVars
  <2>2. CASE NextMessage(chunk) /\ left' = 0 /\ taken' = taken + left
    <3>1. pcI' \notin InRows /\ pcI' # "commit"
      BY <1>7, <2>2
    <3>2. taken' \in Nat /\ left' \in Nat /\ taken' + left' = taken + left
      BY <1>0, <2>2 DEF LogRight
    <3>3. Place' = Place
      BY <2>1 DEF Place
    <3> QED
      BY <1>0, <2>1, <2>2, <3>1, <3>2, <3>3 DEF LogRight
  <2>3. CASE UNCHANGED <<left, label, taken>> /\ pcI' \in {"fill", "wait_data"}
    <3>1. pcI \in InRows /\ pcI' \in InRows /\ pcI' # "commit"
      BY <2>1, <2>3 DEF InRows
    <3> QED
      BY <1>1, <2>1, <2>3, <3>1
  <2> QED
    BY <1>11, <2>2, <2>3 DEF FindRoom
<1>12. CASE Fill
  <2>1. /\ UNCHANGED <<file, msg, lastTs, haveTs, taken, left, label, room, last>>
        /\ pcI \in InRows /\ pcI' \in InRows
    BY <1>12 DEF Fill, logVars, InRows
  <2>2. \A j \in 1..room : row'[last + j - 1] = Plus(label, j - 1)
    BY <1>12, FillStep
  <2> QED
    BY <1>1, <2>1, <2>2
<1>13. CASE Commit
  <2>1. /\ pcI = "commit" /\ left' = left - room /\ taken' = taken + room
        /\ UNCHANGED <<file, msg, lastTs, haveTs>>
        /\ IF left' = 0 THEN NextMessage(chunk)
           ELSE pcI' = "rows" /\ label' = Plus(label, room)
    BY <1>13 DEF Commit, logVars
  <2>2. label \in 0..Labels - 1 /\ room \in 1..left
    BY <1>13, CommitStep
  <2>3. /\ taken \in Nat /\ left \in Nat /\ taken + left = Len(LogSteps[Place].items)
        /\ Carries(taken, label, left)
    BY <1>0, <2>1 DEF LogRight, InRows
  <2>4. taken' \in Nat /\ left' \in Nat /\ taken' + left' = taken + left /\ Place' = Place
    BY <2>1, <2>2, <2>3 DEF Place
  <2>5. CASE left' = 0
    <3>1. pcI' \notin InRows /\ pcI' # "commit"
      BY <1>7, <2>1, <2>5
    <3> QED
      BY <1>0, <2>1, <2>3, <2>4, <2>5, <3>1 DEF LogRight
  <2>6. CASE left' # 0
    <3>1. ASSUME NEW j \in 1..left'
          PROVE  LogItems[taken' + j] = [label |-> Plus(label', j - 1), data |-> Plus(label', j - 1)]
      <4>1. /\ room + j \in 1..left /\ taken' + j = taken + (room + j)
            /\ room \in Nat /\ j - 1 \in Nat /\ (room + j) - 1 = room + (j - 1)
        BY <2>1, <2>2, <2>3, <3>1
      <4>2. Plus(Plus(label, room), j - 1) = Plus(label, room + (j - 1))
        BY <2>2, <4>1, PlusSum
      <4>3. LogItems[taken + (room + j)]
            = [label |-> Plus(label, (room + j) - 1), data |-> Plus(label, (room + j) - 1)]
        BY <2>3, <4>1 DEF Carries
      <4> QED
        BY <2>1, <2>6, <4>1, <4>2, <4>3
    <3>2. Carries(taken', label', left')
      BY <3>1 DEF Carries
    <3>3. pcI' \in InRows /\ pcI' # "commit"
      BY <2>1, <2>6 DEF InRows
    <3> QED
      BY <1>0, <2>1, <2>3, <2>4, <3>2, <3>3 DEF LogRight
  <2> QED
    BY <2>5, <2>6
<1> QED
  BY <1>3, <1>4, <1>5, <1>6, <1>9, <1>10, <1>11, <1>12, <1>13 DEF Next, InputStep

-----------------------------------------------------------------------------
\* The playback implements the queue

\* At first nothing was taken, held or sent.
LEMMA FInvInit == Init => FInv /\ Fifo!Init
<1> SUFFICES ASSUME Init PROVE FInv /\ Fifo!Init
  OBVIOUS
<1>1. QInv /\ Handshake
  BY QInit, HandshakeInit
<1>2. LogRight
  <2>1. /\ file = 0 /\ msg = 0 /\ lastTs = 0 /\ taken = 0 /\ left = 0 /\ pcI = "read"
    BY DEF Init
  <2>2. Place = 0 /\ LogSteps[0].ts = 0 /\ LogSteps[0].items = <<>> /\ Len(<<>>) = 0
    BY <2>1, StepsAre DEF Place
  <2>3. 0 \in 0..Len(Log) + 1 /\ 0 \notin DOMAIN Log
    BY LogTypes
  <2> QED
    BY <2>1, <2>2, <2>3 DEF LogRight, InRows
<1>3. row \in RingRows /\ recs = <<>> /\ pcO = "top" /\ fdOpen = TRUE
  BY DEF Init, InitQueue, RingRows
<1>4. OutRight
  BY <1>3 DEF OutRight, NextsRight
<1>5. OpenRight
  BY <1>3 DEF Init, OpenRight, ToSet
<1>6. Waiting = <<>>
  <2>1. <<>> \in Seq(Rec)
    OBVIOUS
  <2>2. HeldOf(row, <<>>) = <<>>
    BY <1>3, <2>1, HeldHead
  <2> QED
    BY <1>3, <2>2, HeldIs DEF Waiting
<1>7. Fifo!Init
  BY <1>3, <1>6 DEF Init, Fifo!Init
<1> QED
  BY <1>1, <1>2, <1>4, <1>5, <1>7 DEF FInv

\* Every step keeps the invariant.
LEMMA FInvStep == FInv /\ [Next]_vars => FInv'
BY QStep, HandshakeStep, LogRightStep, OutRightStep, OpenRightStep DEF FInv

\* What is held, and what waits, before a step and after it.
LEMMA WaitingIs ==
  /\ Waiting = IF pcO = "retire" THEN SubSeq(Held, txN + 1, Len(Held)) ELSE Held
  /\ Waiting' = IF pcO' = "retire" THEN SubSeq(Held', txN' + 1, Len(Held')) ELSE Held'
BY DEF Waiting

\* The items up to any message are no more than all.
LEMMA StepsShort ==
  ASSUME FInv
  PROVE  /\ LogItems \in Pieces /\ Len(LogItems) \in Nat /\ taken \in Nat /\ left \in Nat
         /\ taken + left <= Len(LogItems)
<1>1. /\ Place \in 0..Len(Msgs) /\ taken \in Nat /\ left \in Nat
      /\ taken + left = Len(LogSteps[Place].items)
  BY PlaceRange DEF FInv, LogRight
<1>2. PICK a \in Pieces : a = LogSteps[Place].items
  BY <1>1, StepTypes
<1>3. PICK t \in Pieces : LogItems = a \o t
  BY <1>1, <1>2, StepsPrefix
<1>4. a \o t \in Pieces /\ Len(a \o t) = Len(a) + Len(t) /\ Len(a) \in Nat /\ Len(t) \in Nat
  BY PiecesConcat
<1> QED
  BY <1>1, <1>2, <1>3, <1>4

\* What waits after items were appended.
LEMMA WaitingGrows ==
  ASSUME FInv, NEW z \in Pieces, Held' = Held \o z, UNCHANGED <<pcO, txN>>
  PROVE  /\ Waiting' = Waiting \o z
         /\ pcO' = "retire" => txN' \in 0..Len(Held')
<1>1. row \in RingRows /\ recs \in Seq(Rec) /\ QInv /\ OutRight
  BY DEF FInv, QInv, RingRight, QueueTypes, OutRight
<1>2. PICK h \in Pieces : h = Held
  BY <1>1, HeldType, HeldIs
<1>3. h \in Seq(Item) /\ z \in Seq(Item)
  BY DEF Pieces
<1>4. CASE pcO = "retire"
  <2>1. txN \in 0..Len(h)
    BY <1>1, <1>2, <1>4, TxFits
  <2>2. SubSeq(h \o z, txN + 1, Len(h \o z)) = SubSeq(h, txN + 1, Len(h)) \o z
    <3>1. PICK n \in 0..Len(h) : n = txN
      BY <2>1
    <3>2. SubSeq(h \o z, n + 1, Len(h \o z)) = SubSeq(h, n + 1, Len(h)) \o z
      BY <1>3, <3>1, LeaveItems
    <3> QED
      BY <3>1, <3>2
  <2>3. txN \in 0..Len(h \o z)
    <3>1. Len(h \o z) = Len(h) + Len(z) /\ Len(h) \in Nat /\ Len(z) \in Nat
      BY PiecesConcat
    <3> QED
      BY <2>1, <3>1
  <2> QED
    BY <1>2, <1>4, <2>2, <2>3, WaitingIs
<1>5. CASE pcO # "retire"
  BY <1>5, WaitingIs
<1> QED
  BY <1>4, <1>5

\* Items of the log are accepted.
LEMMA AcceptStep ==
  ASSUME FInv, FInv', NEW n \in Nat \ {0}, NEW z \in Pieces, Len(z) = n, Held' = Held \o z,
         taken' = taken + n, taken + n <= Len(LogItems),
         \A j \in 1..n : LogItems[taken + j] = z[j],
         UNCHANGED <<pcO, txN, sent, fdOpen>>
  PROVE  Fifo!Accept
<1>1. LogItems \in Pieces /\ Len(LogItems) \in Nat /\ taken \in Nat
  BY StepsShort
<1>2. SubSeq(LogItems, taken + 1, taken + n) = z
  <2>1. LogItems \in Seq(Item) /\ z \in Seq(Item)
    BY <1>1 DEF Pieces
  <2>2. /\ taken + 1 \in Int /\ taken + n \in Int
        /\ \A i \in taken + 1 .. taken + n : LogItems[i] \in Item
    <3>1. \A i \in taken + 1 .. taken + n : i \in 1..Len(LogItems)
      BY <1>1
    <3> QED
      BY <1>1, <2>1, <3>1, ElementOfSeq
  <2>3. PICK q \in Seq(Item) : q = SubSeq(LogItems, taken + 1, taken + n)
    BY <2>2, SubSeqProperties
  <2>4. /\ Len(q) = (IF taken + 1 <= taken + n THEN (taken + n) - (taken + 1) + 1 ELSE 0)
        /\ \A i \in 1 .. (taken + n) - (taken + 1) + 1 : q[i] = LogItems[(taken + 1) + i - 1]
    BY <2>2, <2>3, SubSeqProperties
  <2>5. /\ (IF taken + 1 <= taken + n THEN (taken + n) - (taken + 1) + 1 ELSE 0) = n
        /\ \A i \in 1..n : /\ i \in 1 .. (taken + n) - (taken + 1) + 1
                           /\ (taken + 1) + i - 1 = taken + i
    BY <1>1
  <2>6. Len(q) = n /\ \A i \in 1..n : q[i] = z[i]
    BY <2>4, <2>5
  <2>7. q = z
    BY <2>1, <2>6, SeqEqual
  <2> QED
    BY <2>3, <2>7
<1>3. Waiting' = Waiting \o z /\ (pcO' = "retire" => txN' \in 0..Len(Held'))
  BY WaitingGrows
<1>4. Fifo!Rows(Waiting') <= Total
  <2>1. row' \in RingRows /\ recs' \in Seq(Rec)
    BY DEF FInv, QInv, RingRight, QueueTypes, OutRight
  <2>2. PICK off : Ring(off)'
    BY DEF FInv, QInv, RingRight
  <2>3. off \in [1..Len(recs') + 1 -> 0..Total] /\ off[1] = 0
    BY <2>2 DEF Ring
  <2>4. \A i \in 1..Len(recs') : IF recs'[i].type = "data" THEN off[i + 1] = off[i] + recs'[i].n
                                 ELSE off[i + 1] = off[i]
    BY <2>2 DEF Ring
  <2>5. PICK h : h = HeldOf(row', recs')
    OBVIOUS
  <2>6. /\ Fifo!Rows(h) <= Total
        /\ \A k \in 0..Len(h) : Fifo!Rows(SubSeq(h, k + 1, Len(h))) <= Total
    BY <2>1, <2>3, <2>4, <2>5, RowsFit
  <2>7. Held' = h
    BY <2>5, HeldIs
  <2> QED
    BY <1>3, <2>6, <2>7, WaitingIs
<1>5. n \in 1..Len(LogItems) - taken
  BY <1>1
<1> QED
  BY <1>2, <1>3, <1>4, <1>5 DEF Fifo!Accept

\* Steps of the input thread
LEMMA InputAccepts == FInv /\ FInv' /\ InputStep => Fifo!Next \/ UNCHANGED Fifo!vars
<1> SUFFICES ASSUME FInv, FInv', InputStep PROVE Fifo!Next \/ UNCHANGED Fifo!vars
  OBVIOUS
<1>1. UNCHANGED outVars /\ UNCHANGED <<sent, fdOpen>>
  BY DEF InputStep, ReadLog, EndOfFile, WaitAtEof, InputWoken, InputDone, TakeMessage,
         ProcessTstamp, ProcessData, FindRoom, Fill, Commit, genVars
<1>2. UNCHANGED <<pcO, txN>>
  BY <1>1 DEF outVars
<1>3. ASSUME UNCHANGED taken, Held' = Held PROVE UNCHANGED Fifo!vars
  <2>1. Waiting' = Waiting
    BY <1>2, <1>3, WaitingIs
  <2> QED
    BY <1>1, <1>3, <2>1 DEF Fifo!vars
<1>4. ASSUME UNCHANGED dqVars PROVE Held' = Held
  <2>1. UNCHANGED <<row, recs>>
    BY <1>4 DEF dqVars
  <2> QED
    BY <2>1, HeldIs
<1>5. CASE ReadLog \/ EndOfFile \/ WaitAtEof \/ InputWoken \/ InputDone \/ ProcessData
  <2>1. UNCHANGED dqVars /\ UNCHANGED taken
    BY <1>5 DEF ReadLog, EndOfFile, WaitAtEof, InputWoken, InputDone, ProcessData
  <2> QED
    BY <1>3, <1>4, <2>1
<1>6. CASE ProcessTstamp
  <2>1. /\ pcI = "msg" /\ TakeMessage /\ Log[file][msg + 1].type = "ts"
    BY <1>6 DEF ProcessTstamp
  <2>2. PICK m \in Message : m = Log[file][msg + 1]
    BY <2>1, MoveOn
  <2>3. PICK k \in Nat : k = Place
    BY <2>1, MoveOn
  <2>4. k + 1 <= Len(Msgs) /\ Msgs[k + 1] = m
    BY <2>1, <2>2, <2>3, MoveOn
  <2>5. m.type = "ts" /\ m.ts \in Nat
    BY <2>1, <2>2 DEF Message
  <2>6. CASE m.ts = lastTs
    <3>1. UNCHANGED dqVars /\ UNCHANGED taken
      BY <1>6, <2>2, <2>6 DEF ProcessTstamp
    <3> QED
      BY <1>3, <1>4, <3>1
  <2>7. CASE m.ts # lastTs
    <3>1. CommitTstamp(m.ts) /\ UNCHANGED row /\ taken' = taken + 1
      BY <1>6, <2>2, <2>7 DEF ProcessTstamp
    <3>2. Held' = Held \o <<[ts |-> m.ts]>> /\ <<[ts |-> m.ts]>> \in Pieces
      BY <2>5, <3>1, StampStep
    <3>3. PICK z \in Pieces : z = <<[ts |-> m.ts]>>
      BY <3>2
    <3>4. Added(LogSteps[k], m) = z
      BY <2>3, <2>5, <2>7, <3>3 DEF Added, FInv, LogRight
    <3>5. taken = Len(LogSteps[k].items) /\ taken \in Nat
      BY <2>1, <2>3 DEF FInv, LogRight, InRows
    <3>6. Len(z) = 1
      BY <3>3
    <3>7. /\ LogItems \in Pieces /\ Len(LogSteps[k + 1].items) = taken + 1
          /\ Len(LogSteps[k + 1].items) <= Len(LogItems)
          /\ \A j \in 1..1 : LogItems[taken + j] = z[j]
      BY <2>4, <3>4, <3>5, <3>6, NextItems
    <3>8. taken + 1 <= Len(LogItems)
      BY <3>7
    <3>9. /\ 1 \in Nat \ {0} /\ z \in Pieces /\ Len(z) = 1 /\ Held' = Held \o z
          /\ taken' = taken + 1 /\ taken + 1 <= Len(LogItems)
          /\ \A j \in 1..1 : LogItems[taken + j] = z[j]
          /\ UNCHANGED <<pcO, txN, sent, fdOpen>>
      BY <1>1, <1>2, <3>1, <3>2, <3>3, <3>6, <3>7, <3>8
    <3>10. PICK n \in Nat \ {0} : n = 1
      OBVIOUS
    <3>11. /\ Len(z) = n /\ taken' = taken + n /\ taken + n <= Len(LogItems)
           /\ \A j \in 1..n : LogItems[taken + j] = z[j]
      BY <3>9, <3>10
    <3>12. Fifo!Accept
      BY <3>3, <3>9, <3>10, <3>11, AcceptStep
    <3> QED
      BY <3>12 DEF Fifo!Next
  <2> QED
    BY <2>6, <2>7
<1>7. CASE FindRoom
  <2>1. pcI = "rows" /\ UNCHANGED dqVars
    BY <1>7 DEF FindRoom
  <2>2. Held' = Held
    BY <1>4, <2>1
  <2>3. CASE UNCHANGED taken
    BY <1>3, <2>2, <2>3
  <2>4. CASE dcQuit /\ taken' = taken + left
    <3>1. left \in Nat /\ left >= 1
      BY <2>1 DEF FInv, QInv, PlacesRight
    <3>2. left \in 1..Len(LogItems) - taken
      BY <3>1, StepsShort
    <3>3. ~fdOpen
      BY <2>4 DEF FInv, OpenRight
    <3>4. Waiting' = Waiting
      BY <1>2, <2>2, WaitingIs
    <3>5. Fifo!Skip
      BY <1>1, <2>4, <3>2, <3>3, <3>4 DEF Fifo!Skip
    <3> QED
      BY <3>5 DEF Fifo!Next
  <2> QED
    BY <1>7, <2>3, <2>4 DEF FindRoom
<1>8. CASE Fill
  <2>1. UNCHANGED taken
    BY <1>8 DEF Fill
  <2> QED
    BY <1>3, <1>8, <2>1, FillStep
<1>9. CASE Commit
  <2>1. taken' = taken + room /\ pcI = "commit"
    BY <1>9 DEF Commit
  <2>2. /\ Held' = Held \o RowItems(label, room) /\ label \in 0..Labels - 1
        /\ room \in Nat \ {0} /\ room \in 1..left
        /\ RowItems(label, room) \in Pieces /\ Len(RowItems(label, room)) = room
    BY <1>9, CommitStep
  <2>3. PICK z \in Pieces : z = RowItems(label, room)
    BY <2>2
  <2>4. /\ LogItems \in Pieces /\ Len(LogItems) \in Nat /\ taken \in Nat /\ left \in Nat
        /\ taken + left <= Len(LogItems)
    BY StepsShort
  <2>5. Carries(taken, label, left)
    BY <2>1 DEF FInv, LogRight, InRows
  <2>6. \A j \in 1..room : z[j] = [label |-> Plus(label, j - 1), data |-> Plus(label, j - 1)]
    BY <2>2, <2>3, RowItemsAre
  <2>7. \A j \in 1..room : LogItems[taken + j] = z[j]
    <3>1. \A j \in 1..room : j \in 1..left
      BY <2>2, <2>4
    <3>2. \A j \in 1..left : LogItems[taken + j] = [label |-> Plus(label, j - 1), data |-> Plus(label, j - 1)]
      BY <2>5 DEF Carries
    <3> QED
      BY <2>6, <3>1, <3>2
  <2>8. taken + room <= Len(LogItems)
    BY <2>2, <2>4
  <2>9. Fifo!Accept
    BY <1>1, <1>2, <2>1, <2>2, <2>3, <2>7, <2>8, AcceptStep
  <2> QED
    BY <2>9 DEF Fifo!Next
<1> QED
  BY <1>5, <1>6, <1>7, <1>8, <1>9 DEF InputStep

\* What is transmitted is what was at the head.
LEMMA LeadRows ==
  ASSUME FInv, pcO = "writev"
  PROVE  SubSeq(Held, 1, txN) = IF recs[1].type = "ts" THEN <<[ts |-> recs[1].ts]>>
                                ELSE RowsOf(recs[1], txN)
<1>1. /\ txN \in 0..Len(PieceOf(row, recs[1])) /\ recs[1] \in Rec
      /\ PieceOf(row, recs[1]) \in Pieces /\ HeldOf(row, Tail(recs)) \in Pieces
      /\ Held = PieceOf(row, recs[1]) \o HeldOf(row, Tail(recs))
      /\ row \in RingRows
  BY TxFits DEF FInv, OutRight
<1>2. PICK p \in Pieces, h \in Pieces : p = PieceOf(row, recs[1]) /\ h = HeldOf(row, Tail(recs))
  BY <1>1
<1>3. p \in Seq(Item) /\ h \in Seq(Item)
  BY DEF Pieces
<1>4. SubSeq(Held, 1, txN) = SubSeq(p, 1, txN)
  BY <1>1, <1>2, <1>3, LeaveConcat
<1>5. CASE recs[1].type = "ts"
  <2>1. txN = 1
    BY <1>5 DEF FInv, OutRight
  <2>2. p = <<[ts |-> recs[1].ts]>> /\ Len(p) = 1
    BY <1>1, <1>2, <1>5, PieceType
  <2>3. SubSeq(p, 1, Len(p)) = p
    BY <1>3, SubSeqFull
  <2> QED
    BY <1>4, <1>5, <2>1, <2>2, <2>3
<1>6. CASE recs[1].type # "ts"
  <2>1. PICK d \in DataRec : d = recs[1] /\ d.type = "data"
    BY <1>1, <1>6, PieceType
  <2>2. /\ Len(p) = d.n
        /\ \A k \in 1..d.n : p[k] = [label |-> Plus(d.start, k - 1),
                                     data |-> row[Slot(d.Qrow, k - 1)]]
    BY <1>1, <1>2, <1>6, <2>1, PieceType
  <2>3. PICK n \in Nat : n = txN /\ n <= Len(p)
    BY <1>1, <1>2
  <2>4. PICK g : g = RowsOf(d, n)
    OBVIOUS
  <2>5. g = [k \in 1..n |-> [label |-> Plus(d.start, k - 1), data |-> row[Slot(d.Qrow, k - 1)]]]
    BY <2>4 DEF RowsOf
  <2>6. Len(p) \in Nat /\ \A k \in 1..n : k \in 1..d.n /\ k \in 1..Len(p)
    BY <1>3, <2>2, <2>3, LenProperties
  <2>7. \A k \in 1..n : g[k] = p[k]
    BY <2>2, <2>5, <2>6
  <2>8. g \in Seq(Item) /\ Len(g) = n
    <3>1. \A k \in 1..n : p[k] \in Item
      BY <1>3, <2>6, ElementOfSeq
    <3>2. g \in [1..n -> Item]
      BY <2>5, <2>7, <3>1
    <3> QED
      BY <2>3, <3>2
  <2>9. /\ SubSeq(p, 1, n) \in Seq(Item) /\ Len(SubSeq(p, 1, n)) = IF 1 <= n THEN n - 1 + 1 ELSE 0
        /\ \A i \in 1 .. n - 1 + 1 : SubSeq(p, 1, n)[i] = p[1 + i - 1]
    <3>1. n \in Int /\ 1 \in Int /\ \A i \in 1..n : p[i] \in Item
      BY <1>3, <2>6, ElementOfSeq
    <3> QED
      BY <3>1, SubSeqProperties
  <2>10. /\ (IF 1 <= n THEN n - 1 + 1 ELSE 0) = n
         /\ \A i \in 1..n : i \in 1 .. n - 1 + 1 /\ 1 + i - 1 = i
    BY <2>3
  <2>11. Len(SubSeq(p, 1, n)) = n /\ \A i \in 1..n : SubSeq(p, 1, n)[i] = p[i]
    BY <2>9, <2>10
  <2>12. SubSeq(p, 1, n) = g
    BY <2>7, <2>8, <2>9, <2>11, SeqEqual
  <2> QED
    BY <1>4, <1>6, <2>1, <2>3, <2>4, <2>12
<1> QED
  BY <1>5, <1>6

\* Steps of the output thread
LEMMA OutputTransmits == FInv /\ OutputStep => Fifo!Next \/ UNCHANGED Fifo!vars
<1> SUFFICES ASSUME FInv, OutputStep PROVE Fifo!Next \/ UNCHANGED Fifo!vars
  OBVIOUS
<1>1. UNCHANGED <<taken, fdOpen, row>>
  BY DEF OutputStep, Top, OutputWoken, TimedRoom, TimedWake, UntimedLoop, Look, LookNext,
         LockOutput, Written, Retire, outRest, genVars
<1>2. row \in RingRows /\ recs \in Seq(Rec) /\ QInv /\ OutRight
  BY DEF FInv, QInv, RingRight, QueueTypes, OutRight
<1>3. PICK h \in Pieces : h = Held
  BY <1>2, HeldType, HeldIs
<1>4. ASSUME UNCHANGED recs PROVE Held' = h
  BY <1>1, <1>3, <1>4, HeldIs
<1>5. h \in Seq(Item) /\ Len(h) \in Nat
  BY PiecesConcat DEF Pieces
<1>6. ASSUME UNCHANGED sent, Waiting' = Waiting PROVE UNCHANGED Fifo!vars
  BY <1>1, <1>6 DEF Fifo!vars
<1>7. CASE Top \/ OutputWoken \/ TimedRoom \/ TimedWake \/ UntimedLoop \/ Look
  <2>1. UNCHANGED <<recs, sent>> /\ pcO # "retire" /\ pcO' # "retire"
    BY <1>7 DEF Top, OutputWoken, TimedRoom, TimedWake, UntimedLoop, Look, Transmitted
  <2>2. Waiting' = Waiting
    BY <1>3, <1>4, <2>1, WaitingIs
  <2> QED
    BY <1>6, <2>1, <2>2
<1>8. CASE LookNext
  <2>1. UNCHANGED <<recs, sent>> /\ pcO # "retire" /\ (pcO' = "retire" => txN' = 0)
    BY <1>8 DEF LookNext, Transmitted
  <2>2. SubSeq(h, 0 + 1, Len(h)) = h
    <3>1. SubSeq(h, 1, Len(h)) = h /\ 0 + 1 = 1
      BY <1>5, SubSeqFull
    <3> QED
      BY <3>1
  <2>3. Waiting' = Waiting
    BY <1>3, <1>4, <2>1, <2>2, WaitingIs
  <2> QED
    BY <1>6, <2>1, <2>3
<1>9. ASSUME pcO \in {"lock", "writev"} PROVE txN \in 1..Len(h)
  <2>1. txN \in 0..Len(h)
    BY <1>2, <1>3, <1>9, TxFits
  <2>2. txN >= 1
    BY <1>2, <1>9 DEF OutRight
  <2> QED
    BY <1>5, <2>1, <2>2
<1>10. CASE LockOutput
  <2>1. /\ UNCHANGED <<recs, sent, txN>> /\ pcO = "lock"
        /\ pcO' = IF fdOpen THEN "writev" ELSE "retire"
    BY <1>10 DEF LockOutput
  <2>2. CASE fdOpen
    <3>1. Waiting' = Waiting
      BY <1>3, <1>4, <2>1, <2>2, WaitingIs
    <3> QED
      BY <1>6, <2>1, <3>1
  <2>3. CASE ~fdOpen
    <3>1. Waiting = h /\ Waiting' = SubSeq(h, txN + 1, Len(h))
      BY <1>3, <1>4, <2>1, <2>3, WaitingIs
    <3>2. txN \in 1..Len(h)
      BY <1>9, <2>1
    <3>3. Fifo!Drop
      BY <1>1, <2>1, <2>3, <3>1, <3>2 DEF Fifo!Drop, Fifo!Leave
    <3> QED
      BY <3>3 DEF Fifo!Next
  <2> QED
    BY <2>2, <2>3
<1>11. CASE Written
  <2>1. /\ UNCHANGED <<recs, txN>> /\ pcO = "writev" /\ pcO' = "retire"
        /\ sent' = sent \o IF recs[1].type = "ts" THEN <<[ts |-> recs[1].ts]>>
                           ELSE RowsOf(recs[1], txN)
    BY <1>11 DEF Written
  <2>2. sent' = sent \o SubSeq(h, 1, txN)
    BY <1>3, <2>1, LeadRows
  <2>3. Waiting = h /\ Waiting' = SubSeq(h, txN + 1, Len(h))
    BY <1>3, <1>4, <2>1, WaitingIs
  <2>4. txN \in 1..Len(h) /\ fdOpen
    BY <1>9, <2>1 DEF FInv, OpenRight
  <2>5. Fifo!Transmit
    BY <1>1, <2>2, <2>3, <2>4 DEF Fifo!Transmit, Fifo!Leave
  <2> QED
    BY <2>5 DEF Fifo!Next
<1>12. CASE Retire
  <2>1. UNCHANGED sent /\ pcO = "retire" /\ pcO' # "retire"
    BY <1>12 DEF Retire
  <2>2. Held' = SubSeq(Held, txN + 1, Len(Held))
    BY <1>12, RetireStep
  <2>3. Waiting' = Waiting
    BY <2>1, <2>2, WaitingIs
  <2> QED
    BY <1>6, <2>1, <2>3
<1> QED
  BY <1>7, <1>8, <1>10, <1>11, <1>12 DEF OutputStep

\* Steps of the control thread, of its environment and of none.
LEMMA OthersClose ==
  FInv /\ (ControlStep \/ Command \/ CloseCmd \/ Tick \/ UNCHANGED vars) =>
    Fifo!Next \/ UNCHANGED Fifo!vars
<1> SUFFICES ASSUME FInv, ControlStep \/ Command \/ CloseCmd \/ Tick \/ UNCHANGED vars
             PROVE  Fifo!Next \/ UNCHANGED Fifo!vars
  OBVIOUS
<1>1. UNCHANGED <<dqVars, outVars, taken, sent>>
  BY DEF ControlStep, TimerPulse, QuitPulse, Execute, Quit, Event, Join, Command, CloseCmd,
         Tick, ctlRest, vars
<1>2. Waiting' = Waiting
  <2>1. UNCHANGED <<row, recs, pcO, txN>>
    BY <1>1 DEF dqVars, outVars
  <2> QED
    BY <2>1, HeldIs, WaitingIs
<1>3. fdOpen' = fdOpen \/ fdOpen' = FALSE
  BY DEF ControlStep, TimerPulse, QuitPulse, Execute, Quit, Event, Join, Command, CloseCmd,
         Tick, vars, genVars
<1>4. fdOpen \in BOOLEAN
  BY DEF FInv, OpenRight
<1>5. CASE fdOpen' = fdOpen
  BY <1>1, <1>2, <1>5 DEF Fifo!vars
<1>6. CASE fdOpen' # fdOpen
  <2>1. fdOpen = TRUE /\ fdOpen' = FALSE
    BY <1>3, <1>4, <1>6
  <2>2. Fifo!Close
    BY <1>1, <1>2, <2>1 DEF Fifo!Close
  <2> QED
    BY <2>2 DEF Fifo!Next
<1> QED
  BY <1>5, <1>6

\* The ring of src/tmpplib/src/DQ.cc, its labels and the copies that rdr's two
\* threads make without the lock (src/rdr/rdr.cc, src/tmpplib/src/DG.cc)
\* implement the queue: whatever the threads do, the items of the log are
\* accepted and transmitted in order, once and unaltered, no more rows wait
\* than the ring holds, and nothing is dropped or passed over before TM/DG is
\* closed.
THEOREM FifoKept == Spec => FifoSpec
<1>1. Init => FInv /\ Fifo!Init
  BY FInvInit
<1>2. FInv /\ [Next]_vars => FInv'
  BY FInvStep
<1>3. FInv /\ FInv' /\ [Next]_vars => [Fifo!Next]_Fifo!vars
  BY InputAccepts, OutputTransmits, OthersClose DEF Next
<1> QED
  BY <1>1, <1>2, <1>3, PTL DEF Spec, FifoSpec, Fifo!Spec
=============================================================================
