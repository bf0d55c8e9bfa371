\* every path of at most 5 fragments, with binds; every command line of at most 5 arguments
SPECIFICATION Spec
CONSTANTS
    Fragment <- MCFragment
    Slash    <- MCSlash
    Rootfs   <- MCRootfs
    Binds    <- MCBinds
    HostDirs <- MCHostDirs
    Mapped   <- MCMapped
    BufLen = 7
    Letters <- PathFragment
    MaxLen = 5
    Arguments <- MCArguments
    MaxArgs = 5
    Tails <- MCTails
    Before <- MCBefore
    After <- MCAfter
    OtherBinds <- MCOtherBinds
    Inherited <- MCInherited
    Blanks = {" "}
    Fields = 1
    Colon = ":"
    Semicolon = ";"
    Dashed <- MCDashed
    Shell <- MCShell
INVARIANTS
    TranslateIdempotent
    ReadlinkRoundTrip
    SaveNeverShared
    TranslatorsAgree
    TranslateDescends
    ScannersKeepShape
    ProcLeadsBack
    ScannersAgree
    CommandUntouched
    BindsIntact
CHECK_DEADLOCK FALSE
