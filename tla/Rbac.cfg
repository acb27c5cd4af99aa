SPECIFICATION Spec
CONSTANTS
    Principal = {alice}
    g1 = g1
    g2 = g2
    Group = {g1, g2}
    Nested <- SeededNesting
    sub = sub
    rgA = rgA
    Scope = {sub, rgA}
    Parent <- Pair
    Up <- PairUp
    Name = {a1}
    Role = {"Owner", "Reader"}
    Asked <- ReadArm
    PutInput <- ToFirstGroup
    RefInput <- Joining
    Req = {r1}
    NoScope = NoScope
    NoRow = NoRow
    Idle = Idle
INVARIANTS GrantJustified AuthorityFromRoot
PROPERTIES QuietVerdict
