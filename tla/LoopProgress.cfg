\* Two clients and one place: full table, refusals and waiting requests.
CONSTANTS
    c1 = c1  c2 = c2  c3 = c3
    Clients = {c1, c2}
    MaxConns = 1
    HttpTimeout = 0
    PruneInterval = 2
    Expiring = {"record", "call"}
SPECIFICATION Spec
PROPERTIES Served Stops Expires
