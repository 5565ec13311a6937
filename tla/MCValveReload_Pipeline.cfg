CONSTANTS
    Ports <- MCPorts
    Vlans <- MCVlans
    Configs <- MCConfigs
    Tfm = TRUE
    None = None
SPECIFICATION Spec
INVARIANT PipelineInSync
