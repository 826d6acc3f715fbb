\* One or two values for each axis of the design; all dependency maps of three jobs.
SPECIFICATION Spec
CONSTANTS
    Mechanisms = {"M1", "M4"}
    Directions <- SmallDirections
    SolverSizes <- Size22
    SolverSeeds = {0, 1}
    MixedVariants = {"tight_capacity"}
    MixedSeeds = {10}
    CncConditions = {"nominal", "high"}
    CncSeeds = {0}
    Representative = {"nominal"}
    SensitivitySeeds = {0}
    LibrarySizes <- SmallLibrary
    Settings = {"base", "fraction_01"}
    RobustnessSeeds = {0}
    ExactSizes <- Size33
    SparseSizes <- Size43
    SparseMechanisms = {"M1"}
    ScalabilitySeeds = {0}
    TuningSizes <- Size22
    TuningSeeds = {100}
    TuningConfigs = {"eta-0p1", "eta-1"}
    Selectors = {"platform", "total_return"}
    LoadedIds = {"a", "b", "c"}
    AbsentId = "absent"
INVARIANTS CheckIsExact EvidenceIsFresh UnitsAreCovered NoSlotOverloaded
