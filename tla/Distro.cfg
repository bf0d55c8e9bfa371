SPECIFICATION Spec
CONSTANTS
    Procs = {p1, p2}
    Commands = {"install", "run", "remove"}
    Names = {"alpine", "ubuntu", "gentoo"}
    Known = {"alpine", "ubuntu"}
    Xz = {"ubuntu"}
    Entries = {bin, etc}
    MaxCommands = 4
INVARIANT AllOrNothing
PROPERTIES
    InstalledIsWhole
    TakenMeansWhole
CHECK_DEADLOCK FALSE
