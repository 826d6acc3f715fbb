SPECIFICATION Spec
CONSTANTS
    Providers = {"p1", "p2"}
    Equipment <- MCEquipment
    Families <- MCFamilies
    Mask <- MCMask
    Capacity <- MCCapacity
    ExternalJobs <- MCExternalJobs
    Needs <- MCNeeds
    Works = {2}
    Dues = {2}
    AvailabilityShocks = TRUE
    PressureUnit = 2
    MaxPressure = 1
    MinRate = 1
    MaxRate = 2
    NominalRate = 1
    Horizon = 2
    OutsideBurnIn = 1
    MaxRedraws = 1
    Costs = {2}
    Markups = {0, 2}
    BetaP = 3
    BetaL = 1
INVARIANTS
    AwardIsSound
    StreamsStayPaired
