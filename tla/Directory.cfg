SPECIFICATION Spec
CONSTANTS
    Caller <- Callers
    RootCaller <- RootOne
    Assignment <- Assignments
    AppKey = {k1, k2}
    NoKey = NoKey
    Subject = {s1}
    AReq = {r1, r2}
    AIdle = AIdle
    MaxApp = 2
    MaxObj = 3
    MaxSP = 3
    MaxFic = 1
    MaxBegin = 3
    User = {adm, ann}
    RootUser = root
    SeededAdmin = adm
    Group = {g1}
    Word = {w1}
    DReq = {d1, d2}
    DIdle = DIdle
    NoRule = NoRule
    MaxPatch = 3
    OReq = {o1, o2, o3}
    MaxLabKey = 4
SYMMETRY Symmetry
INVARIANTS ApplicationsInv GroupsInv MintedVerifies
PROPERTIES ApplicationSteps
