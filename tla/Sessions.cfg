SPECIFICATION Spec
CONSTANTS
    Pty = {p1, p2, p3}
    None = none
    MaxId = 3
INVARIANTS
    OwnChildOnly
    MastersAccounted
PROPERTIES
    CloseReturns
    NobodyLeftBehind
CHECK_DEADLOCK FALSE
