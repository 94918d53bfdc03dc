\* A start codon and the identifier of a command inside a trace.
SPECIFICATION Spec
CONSTANTS
  Messages <- MCCommandInTrace
  TraceLength <- MCTraceLength
  MaxSent = 1
  MaxOverruns = 0
PROPERTY MessagesAreExtracted
