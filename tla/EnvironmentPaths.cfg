SPECIFICATION Spec
CONSTANTS
  Launches = {l1, l2}
  Count = 2
  Names = {"h", "s", "a", "c", "p", "q"}
  Home <- MCHome
  Parent <- MCParent
  MaxDepth = 3
  Requests <- MCRequests
  Found <- MCFound
  Trees <- MCTrees
  Top <- Root
  Absent = Absent
SYMMETRY Interchangeable
INVARIANTS
  TypeOK
  RootsKeptApart
  PreparedIsWherePathLeads
  MadeOnlyForAuditedSelection
  LaunchesTolerateEachOther
CHECK_DEADLOCK FALSE
