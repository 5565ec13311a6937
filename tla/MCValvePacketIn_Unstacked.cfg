CONSTANTS
    Ports <- MCPorts
    Vlans <- MCVlans
    Configs <- MCReloadConfigs
    Stacked = FALSE
    MaxTime = 2
    MaxInflight = 2
    MaxPerSec = 4
    None = None
SPECIFICATION Spec
PROPERTY LearnOnMember
