CONSTANTS
    FrameSize = 4
    ChecksumSize = 1
    MinFrameRoom = 2
    DataBufferSize = 2
    SizeTModulus = 16
    U32Modulus = 1024
    Msgs = {1, 2}
    Configs <- MCConfigs
    MaxUnacked = 5
    AckThreshold = 2

SPECIFICATION Spec

INVARIANT TypeOK
INVARIANT DeliveredIntact
INVARIANT WindowBound
PROPERTY AllDelivered
CHECK_DEADLOCK FALSE
