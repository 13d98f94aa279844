\* A publisher and an operator as threads of one process.
CONSTANTS
    p1 = p1  p2 = p2
    Procs = {p1, p2}
    Publishers = {p1}
    OneProcess = TRUE
    HeartbeatS = 0
    ETimeout = 0
    PruneInterval = 0
    MaxNow = 1
    MaxKey = 3
    MaxRuns = 2
    MaxFaults = 2
SPECIFICATION Spec
INVARIANTS KeyFileCurrent
PROPERTIES RemovesObservedKey Heals
CHECK_DEADLOCK FALSE
