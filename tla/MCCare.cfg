CONSTANTS
    ann = ann
    bob = bob
    cara = cara
    p1 = p1
    p2 = p2
    p3 = p3
    p4 = p4
    Principal = {p1, p2, p3, p4}
    NameOf <- MCNameOf
    Caretaker = cara
    NameOrder <- MCOrder
    None = None
    Operator = {cara}
    MaxAttempts = 1
    MaxGoal = 1
    MaxLate = 1
    MaxAcks = 1
    Scenes <- MCScenes
SPECIFICATION CareSpec
INVARIANTS CareTypeOK RetiredNeverReplayed HotLedgerMatchesStore NoBurntAttempts GoalIsAccountable
PROPERTY FreshGenerations
CHECK_DEADLOCK FALSE
