SPECIFICATION Spec
CONSTANTS
  PipeRows = 1
  MaxReadouts = 2
  MaxErrors = 6
INVARIANTS
  RepetitionsAreBounded
  FakesNeedMissingDevice
  AnswersAreCurrent
PROPERTY
  EverybodyEnds
CHECK_DEADLOCK FALSE
