SPECIFICATION Spec
CONSTANTS
    Owner = {o1, o2}
    NoOwner = NoOwner
    TTL = 1
    MaxEpoch = 2
    Attention <- TwoCalls
    Class <- DirectAndChat
    MaxTurn = 1
    MaxItem = 3
    MaxThread = 1
    DeferMax = 2
    Phases = {"final_answer"}
    FinishStatus = {"completed"}
    CanReject = FALSE
    CanLoseThread = FALSE
    CanRollOver = FALSE
SYMMETRY OwnerSymmetry
INVARIANTS
    CoverageFollowsInput
CHECK_DEADLOCK FALSE
