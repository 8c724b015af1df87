SPECIFICATION BootSpec
CONSTANTS
    Pods = {1, 2, 3}
    Links = {7, 8}
    Nodes = {n1, n2}
    MaxInc = 1
    PodLinks <- Chain
    Localhost = Localhost
    None = None
    LinkType = "GRPC"
    MaxTicks = 1
    MaxDups = 0
    MaxFaults = 1
    Faults = {"api", "rpc"}
    StaleNodes = TRUE
    Overlap = FALSE
INVARIANTS TypeOK OneCreator LostOnlyBySkipping
PROPERTIES AddEnds
CHECK_DEADLOCK FALSE
