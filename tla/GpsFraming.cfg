SPECIFICATION Spec
CONSTANTS
  Reports <- MCReports
  PacketLength = 3
  MaxSent = 3
  MaxOverruns = 1
INVARIANTS
  CleanStreamIsRead
  BackInStep
PROPERTY
  BacklogIsRead
CHECK_DEADLOCK FALSE
