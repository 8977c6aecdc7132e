SPECIFICATION MCSpec
CONSTANTS
    Index = {i1}
    Component = {A, B}
    Value = {v1, v2}
    Missing = Missing
    Interval = 3
    FirstTokens = {0, 1, 2}
    Faults = {"delta", "full"}
    MaxVersion = 3
    MaxIssued = 4
SYMMETRY Symmetry
INVARIANTS
    ReplicaExact
PROPERTY
    OnlyBriefComponentsBreak
