\* The clock runs ahead once and is right afterwards.
SPECIFICATION JumpSpec
CONSTANTS
  LastTime = 6
  Times <- MCTimes
  Events <- MCEvents
  FreshnessTime = 2
  EventRateTime = 3
\* A ZeroDivisionError ends the program.
CHECK_DEADLOCK FALSE
INVARIANT Recovered
