SPECIFICATION Spec
CONSTANTS
    Name = {n1}
    Req = {r1, r2}
    NoCert = NoCert
    Idle = Idle
    MaxVer = 3
    MaxTime = 1
SYMMETRY Symmetry
INVARIANTS OneHome
PROPERTIES GateHonoured RecoversLatest
