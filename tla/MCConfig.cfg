\* two threads, calls interrupted once by a signal handler
SPECIFICATION Spec
CONSTANTS
    Threads = {t1, t2}
    Values = {"none", "a"}
    Unset = "none"
    Needs <- MCNeeds
    MaxNested = 2
    MaxEvents = 3
INVARIANT OneConfig
PROPERTY CallsEnd
CHECK_DEADLOCK FALSE
