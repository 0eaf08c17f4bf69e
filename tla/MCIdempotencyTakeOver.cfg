SPECIFICATION KeySpec
CONSTANTS
    r1 = r1
    r2 = r2
    r3 = r3
    d1 = d1
    d2 = d2
    None = None
    Error = Error
    Replies = {x, y}
    Ttl = 2
    Retention = 3
    MaxDelay = 1
    Requests = {r1, r2}
    Bodies = {d1}
    Body <- OneBody
    MaxFaults = 0
INVARIANT AReplayReturnsTheFirstResponse
