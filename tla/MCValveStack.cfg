CONSTANTS
    Dps <- MCDps
    StackPorts <- MCStackPorts
    DpOf <- MCDpOf
    Peer <- MCPeer
    Cablings <- MCCablings
    MaxLldpLost = 2
    SendInterval = 1
    FastAdvInterval = 1
    None = None
SPECIFICATION Spec
INVARIANTS TypeOK ViewsAgree FloodTopoFresh
PROPERTIES AbsSpec
