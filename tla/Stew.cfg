SPECIFICATION FairSpec
CONSTANTS
  LastTime = 6
  Times <- MCTimes
  Events <- MCEvents
  FreshnessTime = 2
  EventRateTime = 3
\* A ZeroDivisionError ends the program.
CHECK_DEADLOCK FALSE
INVARIANTS
  FreshSecondsKept
  FreshEventsKept
  FreshEventsAreCooked
  ServedOnce
PROPERTIES
  SumIsExact
  CompleteIsServed
