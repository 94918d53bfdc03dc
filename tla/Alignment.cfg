SPECIFICATION Spec
CONSTANTS
  Top = 6
  Shared = {s}
  Individual = {c1, c2}
  Responses <- MCResponses
  Original = 8
  s = s
  c1 = c1
  c2 = c2
INVARIANTS LinearFindsBest
PROPERTIES RootIsKept AlignmentEnds
CHECK_DEADLOCK FALSE
