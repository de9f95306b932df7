\* A multi-read of two boards, the first of which does not answer.
CHECK_DEADLOCK FALSE
SPECIFICATION Spec
CONSTANTS
  c1 = c1
  c2 = c2
  Clients = {c1, c2}
  Requests <- TwoParts
  MaxParts = 2
  Syntax <- BadPart
  Stray <- StrayPart
  ReqIds = 64
  MaxAsks = 1
  MaxInits = 1
  MaxLine = 2
  BadWrites = {0}
INVARIANT
  AckMeansAllAcked
