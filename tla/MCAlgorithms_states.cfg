\* Time is bounded.
CHECK_DEADLOCK FALSE
SPECIFICATION Spec
CONSTANTS
  N = 2
  Program <- TwoPartitions
  FirstState <- Firsts
  DataStates = {"A", "Wait", "B", "Brief"}
  MaxTime = 14
  MaxEvents = 4
INVARIANTS
  TimesKept
  CaughtUp
