SPECIFICATION Spec
CONSTANTS
    Workloads = {w1}
    Nomad = {w1}
    Versions = {1}
    Rates = {1}
    Effective = {0}
    Scale = 2
    Batch = 1
    None = None
    MaxClock = 5
    MaxUse = 2
    MaxFaults = 0
INVARIANT NothingIsChargedTwice
