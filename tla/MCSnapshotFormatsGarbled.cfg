SPECIFICATION MCSpec
CONSTANTS
    A = A
    B = B
    Index = {i1}
    Component = {A, B}
    Value = {3, 4}
    Missing = Missing
    Garbage = Garbage
    Interval = 3
    FirstTokens = {0, 1}
    Faults = {"delta", "full", "refull"}
    MaxVersion = 2
    MaxIssued = 3
    ByteBits = 2
    WordBytes = 2
    MaxFrame = 6
    MaxPayload = 2
    Rounded <- MCRounded
    Setups <- RelativeSetups
INVARIANT
    NothingGarbled
