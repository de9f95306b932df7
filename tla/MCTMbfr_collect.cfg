\* Collection: the writer never blocks, slow readers lose rows; records come
\* in any pieces, headers may be bad and MsgReads fail.
SPECIFICATION Spec
CONSTANTS
  f1 = f1
  f2 = f2
  o1 = o1
  NoReader = NoReader
  Readers = {f1, o1}
  NodeOf <- OneEach
  TotalQrows = 3
  RowUnits = 2
  DataType = "T3"
  Nonblock = TRUE
  MfcMod = 4
  RecSizes = {2}
  Skips = {0, 1}
  Kinds = {"TSTAMP", "DATA", "BAD"}
  Split = TRUE
  MsgReadErrors = TRUE
  ReadSizes = {4, 5}
  MaxRecs = 3
INVARIANTS
  RowsAreLabelled
  RefCounts
  RowsAccounted
  RepliesConsecutive
  AssertionsHold
  EofMeansDrained
