\* a program for another machine, with -q
SPECIFICATION Spec
CONSTANTS
    Fragment <- MCFragment
    Slash = "/"
    Rootfs <- MCRootfs
    Binds <- MCBinds
    HostDirs <- MCHostDirs
    Mapped = {}
    BufLen = 9
    Names <- MCNames
    FileId <- MCFileId
    NewFile = "new"
    Programs <- MCPrograms
    Commands <- QemuCommands
    ExecCalls <- QemuExecCalls
    InitFS <- MCInitFS
    Cwd <- MCCwd
    SearchDirs <- MCSearchDirs
    Libraries <- MCLibraries
    Generic <- MCGeneric
    Turns = 3
    KernelTurns = 5
    Relinks <- MCRelinks
    MaxRelinks = 0
INVARIANT ForeignRuns
CHECK_DEADLOCK FALSE
