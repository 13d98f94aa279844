\* Two calls for one publisher and a reply that holds one.
CONSTANTS
    a = a  b = b  p = p  q = q  i1 = i1  k1 = k1
    Ids = {a, b}
    Passes = {p}
    GlobalPass = p
    PowBits = 0
    Infos = {i1}
    Callers = {k1}
    SeatCounts = {}
    VipLists <- MCNoVips
    ETimeout = 1
    PruneInterval = 2
    PendingTTL = 1
    MaxPending = 2
    ReplyIds = 1
    ReplyCalls = 1
    MaxNow = 3
    MaxKey = 0
    MaxCall = 4
SPECIFICATION Spec
INVARIANTS PollReturnsConsumed
CHECK_DEADLOCK FALSE
