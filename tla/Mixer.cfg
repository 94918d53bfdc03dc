SPECIFICATION Spec
CONSTANTS
  Primaries <- MCPrimaries
  Secondaries <- MCSecondaries
  MaxDelay = 3
\* A KeyError ends the program.
CHECK_DEADLOCK FALSE
INVARIANTS
  NoCoincidenceLeft
  EachEventOnce
  RaisesOnlyOnRivals
