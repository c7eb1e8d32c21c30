SPECIFICATION FairSpec
CONSTANTS
    Conn <- MixedConns
    Capacity = 1
    MaxRequest = 1
    NoRequest = NoRequest
INVARIANTS
    SeatsWithinCapacity
    ReadersShareSeat
PROPERTIES
    EvictedSessionEnds
CHECK_DEADLOCK FALSE
