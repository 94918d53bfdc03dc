\* One datastore, distinct events; a crash, an interrupt and a fault.
SPECIFICATION FairSpec
CONSTANTS
  nikhef = nikhef
  file = file
  k1 = k1
  k2 = k2
  Keys = {k1, k2}
  Queues = {nikhef}
  Workers <- MCOneWorker
  MaxCopies <- MCDistinct
  MaxCrashes = 1
  MaxStops = 1
  MaxFaults = 1
\* With its worker dead and nothing to submit storage stands still.
CHECK_DEADLOCK FALSE
INVARIANTS
  TypeOK
  NothingLost
  RepetitionsNeedFaults
PROPERTIES
  ImplementsOutbox
  QueuedIsDelivered
  ShutdownCompletes
