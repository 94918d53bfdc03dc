SPECIFICATION Spec
CONSTANTS
  Grace = 2
  SilenceLimit = 2
  CheckPeriod = 3
  MaxFaults = 2
  MaxReplugs = 1
INVARIANTS
  OrphansOnlyTwice
  RunsAsSaved
  RunsAligned
PROPERTIES
  TalkersAreSpared
  ResetsAreSpaced
  SilenceIsNoticed
  StationComesUp
CHECK_DEADLOCK FALSE
