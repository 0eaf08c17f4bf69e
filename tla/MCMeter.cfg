SPECIFICATION FairSpec
CONSTANTS
    Workloads = {w1}
    Nomad = {}
    Versions = {1, 2}
    Rates = {1}
    Effective = {0, 2}
    Scale = 2
    Batch = 1
    None = None
    MaxClock = 4
    MaxUse = 3
    MaxFaults = 1
INVARIANTS
    ChargedSpansDoNotOverlap
    ReconciliationIsClean
    ChargesWithinUse
PROPERTY EveryIntervalSettles
