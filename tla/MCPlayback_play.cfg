\* Playback under every command and with -q, then left alone.
\* When main has ended, and while rdr waits for a command, nothing happens.
CHECK_DEADLOCK FALSE
SPECIFICATION FairSpec
CONSTANTS
  Total = 2
  LowWater = 2
  Labels = 8
  Log <- TwoFiles
  Options <- AllOptions
  Commands = {"c", "e", "s", ">", "+", "-", "}", "quit"}
  DefaultPeriod = 4
  Resolution = 2
  MaxCommands = 1
  MaxPulses = 1
INVARIANTS
  AssertionsHold
  PostsMatchWaits
PROPERTIES
  FifoSpec
  PlaysToTheEnd
  QuitEndsInput
