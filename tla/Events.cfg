SPECIFICATION ESpec
CONSTANTS
    Principal = {"ann", "root"}
    Root = "root"
    RGroup = {1, 2}
    Repo = {app}
    Tag = {latest}
    Content = {1, 2}
    Assignable <- Assignments
    Scope = {"push"}
    Req = {1, 2}
    None = None
    Idle = Idle
    MaxUpload = 1
    HGroup = {1, 2}
    Partition = {"0", "1"}
    Caller = {"ann", "root"}
    HubRoot = "root"
    HubRole <- HubRoles
    HReq = {1, 2}
    HIdle = HIdle
    MaxEvent = 2
    Subscription = {1, 2}
    TReq = {1, 2}
    TIdle = TIdle
    MaxSend = 2
    Topic = {"t"}
    GSub = {"s1", "s2"}
    Url = {"local", "listed"}
    NoUrl = "none"
    LabLocal = {"local"}
    Allowlist = {"listed"}
    Egress = TRUE
    NoRow = NoRow
    GReq = {1, 2}
    GIdle = GIdle
    MaxPublish = 1
INVARIANTS RegistryInv HubsInv TopicsInv GridInv
PROPERTIES PushNeedsRole EventsStayInGroup PublishCompletes
