\* two threads and signal handlers that translate nothing
SPECIFICATION Spec
CONSTANTS
    Threads = {t1, t2}
    Calls        <- RaceCalls
    HandlerCalls <- QuietCalls
    MaxDepth = 2
    Binds    <- MCNoBinds
    BufLen = 7
    Fragment  <- MCFragment
    Slash     <- MCSlash
    Rootfs    <- MCRootfs
    HostDirs  <- MCHostDirs
    Mapped    <- MCMapped
    FakeFiles <- MCFakes
    Names     <- MCNames
    FileId    <- MCFileId
    NewFile = "new"
    InitFS    <- MCInitFS
    InitCwd   <- MCInitCwd
INVARIANTS
    TypeOK
    PointersIntact
PROPERTIES
    CallsActAtOnce
    RefinesRootView
CHECK_DEADLOCK FALSE
