\* Quit while the output thread transmits a row.
CHECK_DEADLOCK FALSE
SPECIFICATION FairSpec
CONSTANTS
  Total = 2
  LowWater = 1
  Labels = 8
  Log <- TwoFiles
  Options <- Regulated
  Commands = {"quit"}
  DefaultPeriod = 4
  Resolution = 2
  MaxCommands = 1
  MaxPulses = 1
PROPERTIES
  QuitShutsDown
