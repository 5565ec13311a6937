CONSTANTS
    RingSize = 2
    MaxXid = 1
    MaxBatch = 2
    MaxMsgs = 4
    MaxXids = 6
    None = None
SPECIFICATION Spec
INVARIANT TypeOK
PROPERTY ErrorCorrelatedInSession
