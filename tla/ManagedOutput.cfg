SPECIFICATION Spec
CONSTANTS
    Versions = {"one", "two", "broken"}
    Valid = {"one", "two"}
    DesktopName <- MCDesktopName
    MaxRuns = 2
    MaxEdits = 2
    MaxActs = 1
INVARIANTS
    TypeOK
    CalmRunIsWhole
    InterruptedRunRepeats
PROPERTY
    OthersKept
CHECK_DEADLOCK FALSE
