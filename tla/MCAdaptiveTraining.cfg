\* Three kinds of hosts: everything can go wrong, a Spot VM, slow uploads.
SPECIFICATION Spec
CONSTANTS
    Requests <- TwoBatches
    Capacity = 4
    ChunkSize = 2
    FaultSets = {{"disk_lost", "checkpoint_damaged", "slow_upload"}, {"disk_lost"}, {"slow_upload"}}
    MaxSessions = 2
INVARIANTS SlotsStable BlocksMatchSlots QIsFrozen
PROPERTIES EndsWithResult
