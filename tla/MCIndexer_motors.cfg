\* Two channels of a board; limit switches.
\* After quit nothing happens.
CHECK_DEADLOCK FALSE
SPECIFICATION FairSpec
CONSTANTS
  c1 = c1
  c2 = c2
  Chans = {c1, c2}
  BoardOf <- OneBoard
  ScanBit = {c1}
  StatusBits = {c1}
  Positions = 16
  Lines <- Positioned
  StartPos = 9
  Commands <- SomeCommands
  Settings <- SomeSettings
  Limits = TRUE
  MaxCommands = 2
INVARIANTS
  Arrives
  ScanSeen
PROPERTIES
  DrivesWhenStopped
  Drained
