SPECIFICATION ASpec
CONSTANTS
    Group = {1, 2}
    Name = {n1}
    Body <- Bodies
    Folded <- Words
    RReq = {q1, q2}
    NoRow = NoRow
    RIdle = RIdle
    MaxPut = 2
    Rg = {g1, g2}
    Store = {st1}
    Key = {k1, k2}
    Value = {v1, v2}
    Flag = {f1}
    Snap = {sn1}
    Req = {q1, q2}
    NoValue = NoValue
    Idle = Idle
    MaxDelete = 2
    AppGroup = {1, 2}
    Call = {q1, q2}
    NoApp = NoApp
    Rest = Rest
    MaxChange = 3
    Ident = {v1, v2}
    Client = {q1, q2}
    Pinned <- Pins
    NoPair = NoPair
    Quiet = Quiet
    MaxId = 4
    Scope = {s1, s2}
    NoScope = NoScope
    Type = {k1, k2}
    NoQuery = NoQuery
    MaxRow = 2
    MaxSubs = 2
    MaxLimit = 1
    LabScope = s1
SYMMETRY Symmetry
INVARIANTS ResourcesInv SnapshotsInv DeletedIsEmpty FunctionsInv ListingsInv
PROPERTIES OwnRightOnly IdentitiesSafe
