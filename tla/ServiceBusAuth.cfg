SPECIFICATION Spec
CONSTANTS
    Conn = {c1}
    Handle = {h1, h2}
    Ns = {n1, n2}
    Queue = {q1}
    Session = {}
    Key = {k1, k2, k3}
    Req = {p1, p2}
    OpenInput <- MixedOpens
    LabNs = {n1}
    Listener = Listener
    NoNs = NoNs
    NoSession = NoSession
    NoKey = NoKey
    NoToken = NoToken
    NoLink = NoLink
    NoRow = NoRow
    NoHandle = NoHandle
    Idle = Idle
    MaxId = 0
    MaxCredit = 0
    MaxTime = 1
    TokenTTL = 1
SYMMETRY KeySymmetry
INVARIANTS NamespaceIsolation
