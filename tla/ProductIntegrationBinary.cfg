SPECIFICATION Spec
CONSTANTS
    startup = startup
    sidebar = sidebar
    browser = browser
    view = view
    Modules = {}
    Patches = {startup, sidebar}
    Upstream = {browser, view}
    PatchedFile <- OneFileEach
    Versions = {"one", "two"}
    Touching = {"one"}
    Targets = {"chrome", "chrome_sandbox"}
    MaxActs = 2
    MaxPrepares = 2
    MaxBuilds = 2
INVARIANT RecordedBinaryIsOfItsBuild
CHECK_DEADLOCK FALSE
