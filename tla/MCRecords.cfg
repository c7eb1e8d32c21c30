SPECIFICATION RecordsSpec
CONSTANTS
    b1 = b1
    b2 = b2
    c1 = c1
    e1 = e1
    k1 = k1
    Loca = {l1, l2}
    Blob = {b1, b2, b3}
    Size <- MCSize
    Mime <- MCMime
    Claimed = {"text/markdown", "image/png"}
    BytesMax = 2
    LocaMax = 2
    BuildingMax = 3
    CiteMax = 2
    Post = {p1}
    Name = {n1}
    Req = {r1, r2}
    Call = {c1, c2}
    MbMax = 2
    RightMax = 2
    PendingMax = 2
    KnockMax = 2
    Room = {room}
    Davet = {d1, d2}
    Session = {s1}
    Op = {o1, o2}
    SeatMax = 2
    BusMax = 1
    RootKey = {k1, k2}
    Smaster = {sm1}
    Device = {dev1}
    Human = {h1}
    Master = Master
    AdminSession = {as1}
    Task = {t1, t2}
    NoPrincipal = NoPrincipal
    Editor = {e1, e2}
    Worker = {w1, w2}
    NoEditor = NoEditor
    AttemptMax = 2
    LeaseTicks = 2
    WorkerTicks = 3
    WindowMax = 1
    SaidMax = 2
    RevisionMax = 1
    BatchMax = 2
INVARIANTS
    RecordsTypeOK
    CitedBlobIsServed
    QuotasHold
    BootstrapIsNeverLost
    RightsBuyMembers
    BarredHoldNoDavet
    LobbyHearsCalls
    RootRecovers
    
    ActiveBatchIsCurrent
    PublishedByLastClaim
    WorkerTimeIsBounded
PROPERTIES
    EndedStaysEnded
    SessionsStayDead
CHECK_DEADLOCK FALSE
