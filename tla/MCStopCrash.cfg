SPECIFICATION Spec
CONSTANTS
    Owner = {o1, o2}
    NoOwner = NoOwner
    TTL = 1
    MaxEpoch = 2
    Attention <- TwoCalls
    Class <- TaskThenStop
    MaxTurn = 2
    MaxItem = 2
    MaxThread = 1
    DeferMax = 2
    Phases = {"final_answer"}
    FinishStatus = {"completed"}
    CanReject = FALSE
    CanLoseThread = FALSE
    CanRollOver = FALSE
SYMMETRY OwnerSymmetry
INVARIANTS
    TasksSurviveStop
CHECK_DEADLOCK FALSE
