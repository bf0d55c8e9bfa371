SPECIFICATION MainSpec
CONSTANTS
    Codes = {0, 3}
    Fatal = {"TERM", "KILL"}
    MaxSignals = 3
INVARIANTS
    NotOutlived
    FailureNeverHidden
PROPERTY StopsWhenTold
CHECK_DEADLOCK FALSE
