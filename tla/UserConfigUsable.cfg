SPECIFICATION Spec
CONSTANTS
  Launches = {l1, l2}
  Pids = {p1, p2}
  Environments = {"personal", "work"}
  Attempts = 1
  Size = 2
  UserEdits = FALSE
  NoFile = NoFile
  UserFile = UserFile
  AlienFile = AlienFile
INVARIANT EnsuredConfigIsUsable
CHECK_DEADLOCK FALSE
