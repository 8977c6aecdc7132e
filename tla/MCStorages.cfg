SPECIFICATION MCSpec
CONSTANTS
    Index = {i1, i2, i3}
    EntityIndex = {i1, i2, i3}
    Value = {v1, v2}
    Missing = Missing
    Component = {A, B, C}
    Owned = {A, B}
    None = None
    MaxPending = 2
SYMMETRY Symmetry
INVARIANTS
    ArraysConsistent
    GroupIsPrefix
    EachMatchVisitedOnce
PROPERTIES
    ImplementsTable
    StructuralAddReturnsOwnValue
