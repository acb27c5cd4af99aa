SPECIFICATION Spec
CONSTANTS
    Conn = {c1, c2}
    Handle = {h1}
    Ns = {n1}
    Queue = {q1}
    Session = {s1}
    Key = {k1}
    Req = {p1}
    OpenInput <- SignedOpens
    LabNs = {}
    Listener = Listener
    NoNs = NoNs
    NoSession = NoSession
    NoKey = NoKey
    NoToken = NoToken
    NoLink = NoLink
    NoRow = NoRow
    NoHandle = NoHandle
    Idle = Idle
    MaxId = 2
    MaxCredit = 2
    MaxTime = 0
    TokenTTL = 1
INVARIANTS AckedIsKept CreditRespected
PROPERTIES ImplementsMessageQueue
