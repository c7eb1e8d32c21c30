SPECIFICATION Spec
CONSTANTS
    Owner = {o1}
    NoOwner = NoOwner
    TTL = 1
    MaxEpoch = 1
    Attention <- ThreeCalls
    Class <- TaskChatStop
    MaxTurn = 2
    MaxItem = 3
    MaxThread = 1
    DeferMax = 2
    Phases = {"final_answer"}
    FinishStatus = {"completed"}
    CanReject = TRUE
    CanLoseThread = FALSE
    CanRollOver = TRUE
INVARIANTS
    StopIsHonoured
PROPERTIES
    RunningWorkIsNotRequeued
CHECK_DEADLOCK FALSE
