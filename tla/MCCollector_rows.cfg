\* A minor frame of one row, three to the major frame, two in three seconds:
\* the counter rolls over to 4, stamps are renewed after 7 minor frames.
\* The program ends after quit.
CHECK_DEADLOCK FALSE
SPECIFICATION FairSpec
CONSTANTS
  w1 = w1
  w2 = w2
  NROWMINF = 1
  NROWMAJF = 3
  MFSECNUM = 2
  MFSECDEN = 3
  Mfcs = 16
  TS_MFC_LIMIT = 7
  TimeValues = 36
  StartTimes = {0, 11}
  SynchRows = {1}
  Writers = {w1, w2}
  MaxCommands = 2
  MaxPulses = 1
INVARIANTS
  RowTimes
  PhaseKept
PROPERTIES
  Answered
  QuitEnds
