SPECIFICATION Spec
CONSTANTS
    Prefixes = {"pod"}
    Modulus = 2
    MaxNames = 0
    Requests = {r1}
    Inside = {}
    NumBase = 1
    Envs <- BaseOnly
    Numbers = {}
    MaxUpgrades = 0
    MaxBase = 1
    MaxTaints = 0
    MaxFaults = 0
    Retries = 1
    Conflicts = 1
PROPERTIES UnsetIsLegacy
