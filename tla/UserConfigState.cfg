SPECIFICATION Spec
CONSTANTS
  Launches = {l1, l2, l3}
  Pids = {p1, p2}
  Environments = {"personal"}
  Attempts = 2
  Size = 1
  UserEdits = FALSE
  NoFile = NoFile
  UserFile = UserFile
  AlienFile = AlienFile
SYMMETRY Interchangeable
INVARIANTS
  TypeOK
  AcknowledgedSurvives
  RenameInstallsOwnFile
  TemporariesAccountedFor
CHECK_DEADLOCK FALSE
