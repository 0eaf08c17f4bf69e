SPECIFICATION FairSpec
CONSTANTS
    Nodes = {n1, n2}
    Asked = {n1}
    Records = {r1, r2}
    MaxRestarts = 1
    MaxChecks = 1
    None = None
INVARIANTS
    FinalizedIsTheOrder
    SwitchInheritsTheOrder
PROPERTIES
    PendingDrains
