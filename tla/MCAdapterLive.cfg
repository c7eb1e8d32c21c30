SPECIFICATION FairSpec
CONSTANTS
    Owner = {o1, o2}
    NoOwner = NoOwner
    TTL = 1
    MaxEpoch = 2
    Attention <- OneCall
    Class <- Direct
    MaxTurn = 2
    MaxItem = 2
    MaxThread = 2
    DeferMax = 2
    Phases = {"final_answer"}
    FinishStatus = {"completed"}
    CanReject = TRUE
    CanLoseThread = TRUE
    CanRollOver = FALSE
PROPERTIES
    PendingResolves
    OutputResolves
CHECK_DEADLOCK FALSE
