\* One wave on three slots, two process starts.
SPECIFICATION Spec
CONSTANTS
    s1 = s1  s2 = s2  s3 = s3
    rt = rt  ev = ev  cnc = cnc  tr = tr  far = far
    Slots = {s1, s2, s3}
    Jobs = {rt, ev, cnc, tr}
    ForeignJobs = {far}
    JobList <- WaveList
    Mode <- WaveMode
    Deps <- WaveDeps
    WorkerChunked = {cnc}
    MayFail = {rt, cnc}
    SpotAccounting = TRUE
    AlreadyDone = {}
    LosesDisk = TRUE
    Prunes = TRUE
    GcloudCommand = TRUE
    MaxSessions = 2
INVARIANTS NoLostWakeup MeasuredAlone MarkersAreClosed StopExplainsGaps DeadlineEndsDeadlock
PROPERTIES ImplementsGate Terminates
