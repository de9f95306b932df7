\* Playback: the writer blocks until readers make room; progress while every
\* client reads on.  A server that waits for requests is not deadlocked,
\* whoever waits for it: who may be kept waiting is what the properties say.
CHECK_DEADLOCK FALSE
SPECIFICATION FairSpec
CONSTANTS
  f1 = f1
  f2 = f2
  o1 = o1
  NoReader = NoReader
  Readers = {f1, o1}
  NodeOf <- OneEach
  TotalQrows = 2
  RowUnits = 2
  DataType = "T3"
  Nonblock = FALSE
  MfcMod = 4
  RecSizes = {2}
  Skips = {0, 1}
  Kinds = {"TSTAMP", "DATA"}
  Split = FALSE
  MsgReadErrors = FALSE
  ReadSizes = {2, 5}
  MaxRecs = 3
INVARIANTS
  NoMissedWakeup
  AnsweredMeansStored
PROPERTIES
  UnreadRowsKept
  WriteCompletes
  StreamEnds
