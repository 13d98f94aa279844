\* Records, keys, secrets and seats: two identifiers, up to two reservations.
CONSTANTS
    a = a  b = b  p = p  q = q  i1 = i1  k1 = k1
    Ids = {a, b}
    Passes = {p, q}
    GlobalPass = p
    PowBits = 1
    Infos = {i1}
    Callers = {}
    SeatCounts = {0, 1}
    VipLists <- MCVipLists
    ETimeout = 1
    PruneInterval = 2
    PendingTTL = 1
    MaxPending = 1
    ReplyIds = 1
    ReplyCalls = 1
    MaxNow = 3
    MaxKey = 3
    MaxCall = 0
SPECIFICATION Spec
INVARIANTS TypeOK KeyBinding SeatInv
PROPERTIES LiveRecordKept IsLeaseRegistry VipNeverRefused RefusedOnlyWhenFull
CHECK_DEADLOCK FALSE
