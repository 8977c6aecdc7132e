SPECIFICATION MCSpec
CONSTANTS
    Index = {i1}
    Component = {A, B}
    Value = {v1, v2}
    Missing = Missing
    Interval = 3
    FirstTokens = {1}
    Faults = {"delta", "full"}
    MaxVersion = 3
    MaxIssued = 4
INVARIANT
    BaselineValidated
