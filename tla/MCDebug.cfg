SPECIFICATION MCSpec
CONSTANTS
    Entity <- MCEntity
    Component <- MCComponent
    Info <- MCInfo
    Holder = Holder
    Missing = Missing
    Needs <- MCNeeds
    One = 4
    Mantissa = 3
    FloatMantissa = 2
    Largest <- MCLargest
    PlainFrom = 2
    PlainTo = 60
    LongDigits = 5
    Digits <- MCDigits
    StringSize = 4
    Peer <- MCPeer
    RequestOf <- MCRequestOf
    MaxClients = 2
    MaxPerPoll = 1
    MaxPieces = 3
    Lasting <- MCLasting
    Port <- MCPort
    FirstWorld <- MCFirstWorld
    Text <- MCText
    MaxTrouble = 3
    Down = Down
    NoId = NoId
    Clean = Clean
INVARIANT
    EveryClientExamined
PROPERTIES
    RequestsAnswered
    OnlyAnsweredMutations
    SelectionStands
    SavedMeansStored
    ToolSettles
