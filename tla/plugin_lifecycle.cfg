SPECIFICATION Spec
CONSTANTS
    Pods = {1, 2}
    Links = {6, 7}
    Nodes = {n1, n2}
    MaxInc = 2
    PodLinks <- MacvlanLast
    Localhost = Localhost
    None = None
    LinkType = "GRPC"
    MaxTicks = 2
    MaxDups = 0
    MaxFaults = 1
    Faults = {"rpc"}
    StaleNodes = FALSE
    Overlap = FALSE
SYMMETRY NodeSymmetry
INVARIANTS LostOnlyBySkipRace 
PROPERTIES IsRendezvous
CHECK_DEADLOCK FALSE
