\* A Spot VM is lost between two uploads of one heartbeat.
SPECIFICATION Spec
CONSTANTS
    Requests <- TwoBatches
    Capacity = 5
    ChunkSize = 2
    FaultSets = {{"disk_lost"}}
    MaxSessions = 2
INVARIANT RestartLoadsBlocks
