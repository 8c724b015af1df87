SPECIFICATION Spec
CONSTANTS
    Pods = {1, 2}
    Links = {7}
    Nodes = {n1, n2}
    MaxInc = 2
    PodLinks <- OneLink
    Localhost = Localhost
    None = None
    LinkType = "VXLAN"
    MaxTicks = 1
    MaxDups = 1
    MaxFaults = 1
    Faults = {"rpc"}
    StaleNodes = FALSE
    Overlap = FALSE
SYMMETRY NodeSymmetry
CONSTRAINT OneMishap
INVARIANTS  NotBothSkip GoneIsDead GonePeerIsSkipped
PROPERTIES DelSparesOthers
CHECK_DEADLOCK FALSE
