\* a program of every sort, links of every sort, one change by another process
SPECIFICATION Spec
CONSTANTS
    Fragment <- MCFragment
    Slash = "/"
    Rootfs <- MCRootfs
    Binds <- MCBinds
    HostDirs <- MCHostDirs
    Mapped = {}
    BufLen = 9
    Names <- MCNames
    FileId <- MCFileId
    NewFile = "new"
    Programs <- MCPrograms
    Commands <- MCCommands
    ExecCalls <- MCExecCalls
    InitFS <- MCInitFS
    Cwd <- MCCwd
    SearchDirs <- MCSearchDirs
    Libraries <- MCLibraries
    Generic <- MCGeneric
    Turns = 3
    KernelTurns = 5
    Relinks <- MCRelinks
    MaxRelinks = 1
INVARIANTS
    TypeOK
    RunsMeant
    FailsOnlyForCause
    ArgsArrive
    Watched
    OwnLoader
PROPERTY CallEnds
CHECK_DEADLOCK FALSE
