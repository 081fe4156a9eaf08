SPECIFICATION Spec
CONSTANTS
    startup = startup
    sidebar = sidebar
    browser = browser
    view = view
    Modules = {"module"}
    Patches = {startup, sidebar}
    Upstream = {browser, view}
    PatchedFile <- OneFileEach
    Versions = {"one", "two"}
    Touching = {"one"}
    Targets = {"chrome", "chrome_sandbox"}
    MaxActs = 1
    MaxPrepares = 2
    MaxBuilds = 0
INVARIANT VerifyChecksProductSource
CHECK_DEADLOCK FALSE
