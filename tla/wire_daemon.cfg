SPECIFICATION Spec
CONSTANTS
    Pods = {a}
    MaxInc = 2
    Links = {7}
    EndOf <- OnePod
    PeerIfs = {p1, p2}
    Calls = {h1, h2}
    MaxWires = 2
    MaxGen = 2
    MaxIfs = 2
    MaxCrashes = 1
    Orderly = TRUE
    None = None
SYMMETRY Symmetry
INVARIANTS TypeOK NoPanic  
CHECK_DEADLOCK FALSE
