\* Three chunks, one process start and two restarts.
SPECIFICATION Spec
CONSTANTS
    N = 3
    MaxSessions = 3
    GcloudCommand = TRUE
INVARIANTS RemoteIsRestorable CacheTellsTruth NoConflict
PROPERTIES ImplementsRegister Completes
