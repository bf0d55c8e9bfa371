SPECIFICATION Spec
CONSTANTS
    Fragment <- MCFragment
    Slash = "/"
    Rootfs <- MCRootfs
    Binds <- MCNoBinds
    HostDirs <- MCHostDirs
    Mapped = {}
    BufLen = 9
    Hooked = FALSE
    FirstCall <- MCFirstCall
    TraceeCalls <- MCCalls
    Signals = {"term", "chld"}
    Statics <- MCStatics
    FdDir <- MCFdDir
    Align = 4
    Codes = {0, 3}
    MaxCalls = 2
    MaxSignals = 2
INVARIANTS
    CountAgrees
    KernelSeesTranslation
PROPERTIES
    PassesForProgram
    FallbackRuns
CHECK_DEADLOCK FALSE
