SPECIFICATION FairSpec
CONSTANTS
    c1 = c1
    c2 = c2
    w1 = w1
    Callers <- OneCaller
    Workers <- OneWorker
    Commands = {"Start", "Stop", "Delete", "UpdateSpec"}
    MaxGen = 2
    MaxFaults = 1
PROPERTY StoppedStops
