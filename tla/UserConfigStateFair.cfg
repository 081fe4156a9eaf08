SPECIFICATION FairSpec
CONSTANTS
  Launches = {l1, l2}
  Pids = {p1, p2}
  Environments = {"personal", "work"}
  Attempts = 1
  Size = 2
  UserEdits = TRUE
  NoFile = NoFile
  UserFile = UserFile
  AlienFile = AlienFile
INVARIANTS
  StateAlwaysComplete
  ReadsAreWhole
  CreatedConfigSurvives
PROPERTIES
  ExistingConfigKept
  LaunchReturns
  ImplementsRegister
CHECK_DEADLOCK FALSE
