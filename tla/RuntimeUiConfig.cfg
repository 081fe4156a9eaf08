SPECIFICATION Spec
CONSTANTS
  Fields = {width}
  Theme = theme
  Values = {v1, v2}
  Windows = {w1, w2}
  Runs = 3
  Absent = Absent
SYMMETRY Interchangeable
INVARIANTS
  TypeOK
  MarkerIsHonest
PROPERTIES
  BatchGetsConfigured
  NativeStateKept
  ChoiceSurvivesRestart
CHECK_DEADLOCK FALSE
