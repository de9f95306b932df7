\* Two clients; boards that answer late, wrongly, in part or not at all.
\* When the clients have asked MaxAsks times nothing is left to do.
CHECK_DEADLOCK FALSE
SPECIFICATION FairSpec
CONSTANTS
  c1 = c1
  c2 = c2
  Clients = {c1, c2}
  Requests <- SomeRequests
  MaxParts = 2
  Syntax <- BadPart
  Stray <- StrayPart
  ReqIds = 64
  MaxAsks = 1
  MaxInits = 1
  MaxLine = 2
  BadWrites = {0, 1, 2}
INVARIANTS
  WaitingAreQueued
  PendingIsFront
PROPERTIES
  ServiceSpec
  Answered
