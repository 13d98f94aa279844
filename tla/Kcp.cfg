\* Three bytes in segments of at most two, one datagram lost or duplicated.
CONSTANTS
    con = con  pub = pub
    Consumer = con
    Publisher = pub
    Writers = {con}
    Mss = 2
    SndWnd = 2
    RcvWnd = 2
    FastResend = 2
    MaxBytes = 3
    MaxChunk = 2
    MaxFaults = 1
SPECIFICATION Spec
INVARIANTS InOrder Kept InWindow
PROPERTIES IsPipe Settles
CHECK_DEADLOCK FALSE
