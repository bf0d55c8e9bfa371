\* a signal handler that translates: violated, see README
SPECIFICATION Spec
CONSTANTS
    Threads = {t1}
    Calls        <- RenameCalls
    HandlerCalls <- LoudCalls
    MaxDepth = 2
    Binds    <- MCNoBinds
    BufLen = 9
    Fragment  <- MCFragment
    Slash     <- MCSlash
    Rootfs    <- MCRootfs
    HostDirs  <- MCHostDirs
    Mapped    <- MCMapped
    FakeFiles <- MCFakes
    Names     <- MCNames
    FileId    <- MCFileId
    NewFile = "new"
    InitFS    <- MCInitFS
    InitCwd   <- MCInitCwd
INVARIANTS
    SavedIntact
CHECK_DEADLOCK FALSE
