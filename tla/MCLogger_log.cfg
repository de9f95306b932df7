\* Files of a time stamp and three rows, two to a directory; the reader's
\* buffer holds a file.  The reader ends.
CHECK_DEADLOCK FALSE
SPECIFICATION Spec
CONSTANTS
  NLevels = 2
  NFiles = 2
  RowUnits = 2
  BufSize = 24
  FileLimit = 16
  Labels = 8
  RecSizes = {1, 4}
  Skips = {0, 1}
  Selections <- SomeFiles
  Junk = {0, 1, 20}
  MaxRecs = 3
  MaxCrashes = 1
INVARIANTS
  ReplayIsRight
  NothingLost
