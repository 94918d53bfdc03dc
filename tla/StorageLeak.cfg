\* One datastore, one event, no failure of any kind.
SPECIFICATION Spec
CONSTANTS
  nikhef = nikhef
  file = file
  k1 = k1
  k2 = k2
  Keys = {k1}
  Queues = {nikhef}
  Workers <- MCOneWorker
  MaxCopies <- MCDistinct
  MaxCrashes = 0
  MaxStops = 0
  MaxFaults = 0
INVARIANT DrainedMeansEmpty
