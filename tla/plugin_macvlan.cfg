SPECIFICATION Spec
CONSTANTS
    Pods = {1, 2}
    Links = {6, 7}
    Nodes = {n1}
    MaxInc = 1
    PodLinks <- MacvlanFirst
    Localhost = Localhost
    None = None
    LinkType = "GRPC"
    MaxTicks = 1
    MaxDups = 0
    MaxFaults = 0
    Faults = {}
    StaleNodes = FALSE
    Overlap = FALSE
INVARIANTS GonePeerIsSkipped
CHECK_DEADLOCK FALSE
