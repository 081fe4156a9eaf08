SPECIFICATION Spec
CONSTANTS
    startup = startup
    sidebar = sidebar
    browser = browser
    view = view
    Modules = {}
    Patches = {startup, sidebar}
    Upstream = {browser, view}
    PatchedFile <- OneFileEach
    Versions = {"one", "two"}
    Touching = {"one"}
    Targets = {"chrome", "chrome_sandbox"}
    MaxActs = 2
    MaxPrepares = 2
    MaxBuilds = 2
SYMMETRY Alike
VIEW Seen
INVARIANTS
    TypeOK
    CompletedPrepareVerifies
    InterruptedPrepareRepeats
    VerifiedIsCurrentSource
    PackagedFromIntegration
PROPERTIES
    EditsKept
CHECK_DEADLOCK FALSE
