SPECIFICATION Spec
CONSTANTS
    Name = {n1}
    Req = {r1}
    NoCert = NoCert
    Idle = Idle
    MaxVer = 2
    MaxTime = 0
SYMMETRY Symmetry
PROPERTY LatestIsMoved
