SPECIFICATION MCSpec
CONSTANTS
    A = A
    B = B
    l1 = l1
    l2 = l2
    Component = {A, B}
    Listener = {l1, l2}
    Mirrors <- MCMirrors
    InvalidIndex = 2
    VersionModulus = 3
    MaxRecycles = 2
    MaxDepth = 2
    Careful = FALSE
INVARIANT
    FreeListIsStack
