SPECIFICATION Spec
CONSTANTS
    Fragment <- MCFragment
    Slash = "/"
    Rootfs <- MCRootfs
    Binds <- MCNoBinds
    HostDirs <- MCHostDirs
    Mapped = {}
    BufLen = 9
    Hooked = TRUE
    FirstCall <- MCFirstCall
    TraceeCalls <- MCCalls
    Signals = {"term", "chld"}
    Statics <- MCStatics
    FdDir <- MCFdDir
    Align = 4
    Codes = {0, 3}
    MaxCalls = 2
    MaxSignals = 0
PROPERTY FallbackRuns
CHECK_DEADLOCK FALSE
