\* Two datastores; events of equal content come twice.
SPECIFICATION Spec
CONSTANTS
  nikhef = nikhef
  file = file
  k1 = k1
  k2 = k2
  Keys = {k1, k2}
  Queues = {nikhef, file}
  Workers <- MCTwoWorkers
  MaxCopies <- MCRepeated
  MaxCrashes = 1
  MaxStops = 0
  MaxFaults = 0
INVARIANTS
  NoIntegrityError
  CountedEventsKeepTheirData
  CountedEventsAreCleanedUp
PROPERTIES
  OnlyUncountedAreDropped
