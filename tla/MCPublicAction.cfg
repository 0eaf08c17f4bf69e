SPECIFICATION PublicFairSpec
CONSTANTS
    r1 = r1
    r2 = r2
    r3 = r3
    d1 = d1
    d2 = d2
    Nothing = Nothing
    Replies = {x, y}
    Requests = {r1, r2, r3}
    Bodies = {d1, d2}
    Body <- TwoBodies
    MaxFaults = 3
INVARIANTS
    PublicTypeOK
    OutcomeOfTheEffect
PROPERTIES
    EffectIsNotRepeated
    OutcomeComes
