CONSTANTS
    FrameSize = 3
    ChecksumSize = 1
    MinFrameRoom = 1
    DataBufferSize = 2
    SizeTModulus = 32
    U32Modulus = 13
    Msgs = {1}
    Configs <- MCFaultConfigs
    MaxUnacked = 8
    AckThreshold = 4

SPECIFICATION Spec

PROPERTY DeliveredWhole
CHECK_DEADLOCK FALSE
