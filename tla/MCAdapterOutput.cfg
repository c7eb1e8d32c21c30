SPECIFICATION Spec
CONSTANTS
    Owner = {o1}
    NoOwner = NoOwner
    TTL = 1
    MaxEpoch = 1
    Attention <- ThreeCalls
    Class <- DirectLegacyChat
    MaxTurn = 1
    MaxItem = 4
    MaxThread = 1
    DeferMax = 2
    Phases = {"commentary", "final_answer", "none", "no_reply"}
    FinishStatus = {"completed", "failed"}
    CanReject = FALSE
    CanLoseThread = FALSE
    CanRollOver = FALSE
INVARIANTS
    OutputEarned
    CoverageFollowsInput
CHECK_DEADLOCK FALSE
