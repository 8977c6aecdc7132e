SPECIFICATION MCSpec
CONSTANTS
    Index = {0, 1}
    v1 = v1
    Value = {v1, v2}
    Missing = Missing
    MaxSubscriptions = 3
    MaxDepth = 2
INVARIANTS
    EveryChangeIsDirty
    AdditionsReported
    ReportReplays
    NoneMissed
    ListedWhileSubscribed
