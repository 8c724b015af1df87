SPECIFICATION Spec
CONSTANTS
    Prefixes = {"pod"}
    Modulus = 2
    MaxNames = 3
    Requests = {r1, r2}
    Inside = {r2}
    NumBase = 2
    Envs <- Rollout
    Numbers = {"9300"}
    MaxUpgrades = 1
    MaxBase = 2
    MaxTaints = 1
    MaxFaults = 2
    Retries = 2
    Conflicts = 2
INVARIANTS TypeOK OpenIsConfigured PluginSeesEnv NamesApart
PROPERTIES OtherTaintsStay Opens TornIsMended
CHECK_DEADLOCK FALSE
