\* Three clients compete for two places of the connection table.
CONSTANTS
    c1 = c1  c2 = c2  c3 = c3
    Clients = {c1, c2, c3}
    MaxConns = 2
    HttpTimeout = 0
    PruneInterval = 0
    Expiring = {}
SPECIFICATION Spec
INVARIANTS SocketsOwned PassExact
SYMMETRY ClientSymmetry
