\* Two processes in every combination of calls, two contents, two attempts.
SPECIFICATION StoreSpec
CONSTANTS
    Clients = {p, q}
    Contents = {x, y}
    Retries = 2
INVARIANTS ReturnedDigestIsStored ConflictIsReal
PROPERTY WriteOnce
