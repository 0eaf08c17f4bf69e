SPECIFICATION FairSpec
CONSTANTS
    c1 = c1
    c2 = c2
    h1 = h1
    h2 = h2
    r1 = r1
    r2 = r2
    Callers <- OneCaller
    Handlers <- TwoHandlers
    Requests <- OneRequest
    None = None
    Attempts = 2
    Threshold = 2
    OpenFor = 1
    Lifetime = 1
    Skew = 1
    MaxClock = 3
INVARIANTS
    NonceGuardsEffect
    AnsweredIsDurable
PROPERTIES
    ImplementsFederatedCall
    EveryCallReturns
