SPECIFICATION Spec
CONSTANTS
    r1 = r1
    r2 = r2
    Replicas <- MCReplicas
    None = None
    Ttl = 3
    Margin = 1
    MaxToken = 3
    MaxClock = 4
INVARIANT OneWorkerAtATime
