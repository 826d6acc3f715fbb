SPECIFICATION RunsSpec
CONSTANTS
    a1 = a1
    a2 = a2
    p1 = p1
    p2 = p2
    p3 = p3
    Agents <- MCAgents
    Policies <- MCPolicies
    Matrices <- MCMatrices
    NRollouts = 1
    MaxRollouts = 2
    InitialSupport = 1
    MaxSupport = 2
    Batch = 1
    MaxRounds = 2
    DssRounds = 1
    ResampleCap = 4
    RepairRounds = 1
    ProfileBudget = 2
    NewProfiles = 1
    PairSamples = 1
    PairBatch = 1
    PairRounds = 1
    TopPairs = 2
    Beam = 1
    Quarter = 1
    TraceRounds = 2
    BurnIn = 1
    Payoffs <- MCPayoffs
    Grain <- MCGrain
    Mixes <- MCMixes
    Weights <- MCWeights
    Tolerance = 1
    Feasible = 2
    PricingBatch = 2
    CheckpointBatch = 4
    MaxCrashes = 1
SYMMETRY Symmetry
INVARIANTS
    ResultIsCurrent
    CostIsCounted
    CertificateIsSound
