SPECIFICATION Spec
CONSTANTS
    Ends = {a, b}
    Overlays = {"GRPC", "VXLAN"}
    Debounce = 1
    MaxChanges = 2
    MaxFaults = 1
INVARIANTS TypeOK LastNoticeWins HeldDownOnlyByEcho
PROPERTIES StableIsReported Quiesces
