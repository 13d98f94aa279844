\* Two calls, one ping per punch, one restart of the publisher.
CONSTANTS
    Calls = {1, 2}
    MaxRounds = 1
    MaxRestarts = 1
SPECIFICATION Spec
INVARIANTS NotCrossed UpOnlyIfTried
PROPERTIES CallsTried OneSidedEnds
CHECK_DEADLOCK FALSE
