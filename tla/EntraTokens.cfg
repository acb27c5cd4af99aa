SPECIFICATION Spec
CONSTANTS
    User = {u1, u2}
    app = app
    other = other
    arm = arm
    good = good
    NoAgent = NoAgent
    App = {app}
    Audience = {arm, NoAud}
    NoAud = NoAud
    Client = {app, other}
    Agent = {good, NoAgent}
    Form <- Forms
    CondInput <- Conds
    PolicyId = {i1}
    Code = {c1}
    Key = {k1, k2}
    Req = {r1, r2}
    AllClients = AllClients
    AnyAgent = AnyAgent
    NoClient = NoClient
    NoUser = NoUser
    NoPolicy = NoPolicy
    NoCode = NoCode
    NoKey = NoKey
    NoReq = NoReq
    Idle = Idle
    AccessTTL = 1
    RefreshTTL = 1
    DeviceTTL = 1
    MaxTime = 3
    MaxBegun = 3
SYMMETRY Symmetry
INVARIANTS TokenHasProof OneApprover BlockedGetsNothing OneSigner LifeToTheSecond
PROPERTIES ApprovalCounts
