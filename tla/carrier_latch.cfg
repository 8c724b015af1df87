SPECIFICATION Spec
CONSTANTS
    Ends = {a, b}
    Overlays = {"GRPC"}
    Debounce = 3
    MaxChanges = 2
    MaxFaults = 0
INVARIANTS UpRestores
