CONSTANTS
    ann = ann
    master = master
    o1 = o1
    Person = {ann, master}
    Admin = {master}
    Order <- MCOrder
    Allow = {}
    OpId = {o1}
    NoOp = NoOp
    Nobody = Nobody
    HistoryLimit = 1
    RateLimit = 1
    BuiltinLimit = 0
    Request = {q1, q2}
    PostInput <- MCPosts
    ModeInput <- MCModes
    LeadInput = {ann}
    SettingInput <- MCSettings
    ModInput <- MCMods
    MaxId = 2
    MaxJoin = 1
SPECIFICATION RoomSpec
INVARIANTS OneAnswerPerOperation BroadcastIsDurable HotCopyMatchesStore
PROPERTY KeepsPromise
SYMMETRY RequestSymmetry
CHECK_DEADLOCK FALSE
