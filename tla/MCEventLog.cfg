SPECIFICATION FairSpec
CONSTANTS
    w1 = w1
    w2 = w2
    a = a
    b = b
    n1 = n1
    Writers = {w1, w2}
    Topics = {a, b}
    Nodes = {n1}
    Follows <- OneFollower
    Keep = 1
    Limit = 1
    MaxEvents = 3
    MaxClock = 2
    MaxBreaks = 1
INVARIANTS
    SequencesAreUnique
    NoEventIsMissed
PROPERTIES
    EventsComeInOrder
    EveryEventArrives
