\* Every array of up to six entries, every array of up to four candidates.
CONSTANTS
    MaxLen = 6
    MaxCands = 4
    Texts = {1, 2, 3}
    Priorities = {1, 2}
    Ports = {1, 2}
SPECIFICATION Spec
INVARIANTS RecordsLeft CallsSplit Ranked
PROPERTIES Terminates
CHECK_DEADLOCK FALSE
