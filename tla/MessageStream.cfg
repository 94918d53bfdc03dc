\* Three messages, one overrun, reads and flushes of any length.
SPECIFICATION FairSpec
CONSTANTS
  Messages <- MCMessages
  TraceLength <- MCTraceLength
  MaxSent = 3
  MaxOverruns = 1
INVARIANTS
  CleanStreamIsRead
  EachByteOnce
  IntactIsFound
PROPERTY
  CallsReturn
