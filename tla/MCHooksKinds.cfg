\* one thread, every kind of call, with a bind
SPECIFICATION Spec
CONSTANTS
    Threads = {t1}
    Calls        <- AllKindsCalls
    HandlerCalls <- NoCalls
    MaxDepth = 1
    Binds    <- MCBinds
    BufLen = 9
    Fragment  <- MCFragment
    Slash     <- MCSlash
    Rootfs    <- MCRootfs
    HostDirs  <- MCHostDirs
    Mapped    <- MCMapped
    FakeFiles <- MCFakes
    Names     <- MCNames
    FileId    <- MCFileId
    NewFile = "new"
    InitFS    <- MCInitFS
    InitCwd   <- MCInitCwd
INVARIANTS
    CwdSurvives
PROPERTIES
    Confined
    RefinesRootView
CHECK_DEADLOCK FALSE
