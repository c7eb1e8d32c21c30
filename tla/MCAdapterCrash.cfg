SPECIFICATION Spec
CONSTANTS
    Owner = {o1, o2}
    NoOwner = NoOwner
    TTL = 1
    MaxEpoch = 2
    Attention <- ThreeCalls
    Class <- DirectChatClosed
    MaxTurn = 2
    MaxItem = 2
    MaxThread = 1
    DeferMax = 2
    Phases = {"final_answer"}
    FinishStatus = {"completed"}
    CanReject = FALSE
    CanLoseThread = FALSE
    CanRollOver = FALSE
SYMMETRY OwnerSymmetry
INVARIANTS
    TypeOK
    ClosedRoomIsQuiet
    AnsweredByOneTurn
    TerminatedTurnIsSilent
    OneOwnerPerEpoch
PROPERTIES
    RelayOutcomeIsFinal
    LeaseSpec
CHECK_DEADLOCK FALSE
