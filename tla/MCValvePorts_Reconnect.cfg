CONSTANTS
    Ports <- MCPorts
    LacpPorts <- MCLacpPorts
    Vlans <- MCVlans
    VlanPorts <- MCVlanPorts
    Pdus <- MCPdus
    PortReasons <- MCReconnectReasons
    LacpForwarding = TRUE
    LacpTimeout = 2
    LacpRespInterval = 1
    MaxTime = 5
    None = None
SPECIFICATION Spec
INVARIANT NoFloodToDownPort
