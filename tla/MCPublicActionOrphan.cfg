SPECIFICATION PublicFairSpec
CONSTANTS
    r1 = r1
    r2 = r2
    r3 = r3
    d1 = d1
    d2 = d2
    Nothing = Nothing
    Replies = {x, y}
    Requests = {r1, r2}
    Bodies = {d1}
    Body <- OneBody
    MaxFaults = 1
PROPERTY RetriesAreAnswered
