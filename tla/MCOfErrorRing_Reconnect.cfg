CONSTANTS
    RingSize = 2
    MaxXid = 3
    MaxBatch = 2
    MaxMsgs = 4
    MaxXids = 3
    None = None
SPECIFICATION Spec
PROPERTY ErrorAttributedToCause
