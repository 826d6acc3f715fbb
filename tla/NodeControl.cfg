\* A host where the two writers meet, a Spot VM, and one with the gcloud backend.
SPECIFICATION Spec
CONSTANTS
    Limit = 1
    MaxTime = 2
    MaxSessions = 3
    Hosts = {{"overlap"}, {"disk_lost", "unreachable"}, {"gcloud", "unreachable"}}
    Absent = Absent
    Torn = Torn
INVARIANT EndIsClean
PROPERTIES LedgerGrows BudgetStops
