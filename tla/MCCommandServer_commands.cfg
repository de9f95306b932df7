\* Readers of two interfaces that come and go, until quit.
\* When the server has returned nothing happens.
CHECK_DEADLOCK FALSE
SPECIFICATION FairSpec
CONSTANTS
  a = a
  b = b
  r1 = r1
  r2 = r2
  w1 = w1
  Interfaces = {a, b}
  Readers = {r1, r2}
  NodeOf <- TwoOnly
  Writers = {w1}
  Lengths = {2}
  ReadSizes = {1, 2}
  MaxMsgs = 2
INVARIANTS
  RefCounts
  WaitsAtTheEnd
  ReadsInOrder
PROPERTIES
  Delivered
  ServerEnds
