SPECIFICATION CoordinatorSpec
CONSTANTS
    Connections = {c1, c2}
    Users = {u1}
    MaxBarriers = 2
    Sequences = {0, 1}
    MaxWriters = 1
SYMMETRY ConnectionSymmetry
INVARIANTS
    CoordinatorTypeOK
    RoundsAreComplete
    BarrierExcludesExternalWriters
PROPERTIES
    FrozenCompletionIsStable
