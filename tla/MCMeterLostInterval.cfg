SPECIFICATION FairSpec
CONSTANTS
    Workloads = {w1}
    Nomad = {}
    Versions = {1}
    Rates = {1}
    Effective = {0}
    Scale = 2
    Batch = 1
    None = None
    MaxClock = 3
    MaxUse = 2
    MaxFaults = 1
PROPERTY EverySampleIsMetered
