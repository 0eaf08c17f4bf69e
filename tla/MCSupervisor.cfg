SPECIFICATION SupervisorSpec
CONSTANTS
    a = a
    b = b
    c = c
    d = d
    storage = storage
    vmm = vmm
    Modules = {a, b, c, d}
    Kinds = {storage, vmm}
    Kind <- KindOf
    Configurations = {tuned}
    Default = default
    NoModule = NoModule
    MaxGeneration = 4
SYMMETRY Symmetry
INVARIANTS
    RoutingIsSound
    ProcessRunsItsConfiguration
PROPERTIES
    NeverRoutesToDrained
