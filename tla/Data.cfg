SPECIFICATION Spec
CONSTANTS
    Rg = {g1, g2}
    Container = {c1}
    Blob = {b1}
    Req = {r1, r2}
    SasGrant <- SasGrants
    Timeout = {0, 1}
    Idle = Idle
    MaxKey = 2
    MaxWrite = 2
    MaxMsg = 2
    MaxTime = 3
    Key = {1, 2}
    Prop = {p, q}
    TReq = {r1, r2}
    Grant <- Grants
    NoEntity = NoEntity
    TIdle = TIdle
    MaxEntity = 3
    Group = {g1, g2}
    Id = {i1, i2}
    Pk = {k1, k2}
    Put = {r1, r2}
    NoPut = NoPut
    MaxCosmosKey = 3
    MaxItem = 2
SYMMETRY Symmetry
INVARIANTS StorageInv CosmosInv
PROPERTIES LeaseHonoured ReadersOnlyReceive TablesSafe
