\* Two drives, one of them an MFC; one answer is lost, wrong or late.
\* The driver stops when it is told to quit.
CHECK_DEADLOCK FALSE
SPECIFICATION FairSpec
CONSTANTS
  NDrives = 2
  Present = {1, 2}
  MFCs = {1}
  FrameSlots = 14
  MaxFaults = 1
  MaxCmds = 1
INVARIANTS
  QueriesServed
PROPERTIES
  Polled
  Resynchronised
