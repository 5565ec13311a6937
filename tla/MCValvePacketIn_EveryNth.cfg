CONSTANTS
    Ports <- MCPorts
    Vlans <- MCVlans
    Configs <- MCReloadConfigs
    Stacked = TRUE
    MaxTime = 2
    MaxInflight = 2
    MaxPerSec = 4
    None = None
SPECIFICATION Spec
INVARIANT IgnoredEveryNth
