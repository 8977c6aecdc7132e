SPECIFICATION MCSpec
CONSTANTS
    Position = Position
    Velocity = Velocity
    Component = {Position, Velocity}
    MaxJobs = 4
    t1 = t1
    t2 = t2
    t3 = t3
    t4 = t4
    Task = {t1, t2, t3, t4}
    LastStage = 2
    StageOf <- MCStageOf
    MaxEntering = 2
CHECK_DEADLOCK FALSE
INVARIANTS
    ConflictsKeepOrder
    NoNeedlessWaiting
    CachesCurrent
    MarksMerged
    ExceptionStopsTick
PROPERTIES
    ImplementsJobOrder
    HonestTickCompletes
