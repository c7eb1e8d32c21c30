SPECIFICATION Spec
CONSTANTS
    Conn <- ReaderAndWatcher
    Capacity = 2
    MaxRequest = 1
    NoRequest = NoRequest
INVARIANTS
    DeletedStaysDeleted
CHECK_DEADLOCK FALSE
