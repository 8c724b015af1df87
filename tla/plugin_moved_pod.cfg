SPECIFICATION Spec
CONSTANTS
    Pods = {1, 2}
    Links = {7}
    Nodes = {n1, n2, n3}
    MaxInc = 2
    PodLinks <- OneLink
    Localhost = Localhost
    None = None
    LinkType = "GRPC"
    MaxTicks = 1
    MaxDups = 0
    MaxFaults = 0
    Faults = {}
    StaleNodes = FALSE
    Overlap = FALSE
SYMMETRY NodeSymmetry
INVARIANTS WireFollowsPeer
CHECK_DEADLOCK FALSE
