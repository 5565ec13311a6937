CONSTANTS
    Dps <- MCDps
    StackPorts <- MCLinkPorts
    DpOf <- MCLinkDpOf
    Peer <- MCLinkPeer
    Cablings <- MCLinkCablings
    MaxLldpLost = 2
    SendInterval = 1
    FastAdvInterval = 1
    None = None
SPECIFICATION FairSpec
PROPERTIES LinkDownOnSilence LinkComesUp
