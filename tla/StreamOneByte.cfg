\* One one-second message, read in pieces.
SPECIFICATION Spec
CONSTANTS
  Messages <- MCOneSecondOnly
  TraceLength <- MCTraceLength
  MaxSent = 1
  MaxOverruns = 0
INVARIANT ShortMessagesWait
