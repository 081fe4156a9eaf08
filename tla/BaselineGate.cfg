SPECIFICATION Spec
CONSTANTS
    p1 = p1
    p2 = p2
    p3 = p3
    Pids <- MCPids
    NoPid = NoPid
    Shared <- MCShared
    Cases = 2
    MaxRuns = 1
    Pins = {"r1", "r2"}
    MaxActs = 1
    MaxStages = 2
INVARIANTS
    TypeOK
    GateIsSmokedBaseline
    SignalsStayOwn
    FetchRepeats
PROPERTY
    CleanupFinishes
CHECK_DEADLOCK FALSE
