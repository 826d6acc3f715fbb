SPECIFICATION Spec
CONSTANTS
    Core = {"a", "b"}
    New = {"c"}
    Waves <- MCWaves
    Configs <- MCConfigs
    Measured <- MCMeasured
    Solved <- MCSolved
    Times = {1, 2}
    Gap <- MCGap
    OtherRows <- MCOtherRows
    BlockSize = 2
    FaultSets <- MCFaultSets
    MaxSessions = 2
    Requests <- MCRequests
INVARIANTS
    BudgetIsMeasured
    RestartGoesOn
    AuditCovers
    CompleteIsReduced
    ReportsAreWhole
PROPERTY WaveEnds
