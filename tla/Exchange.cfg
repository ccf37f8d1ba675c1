CONSTANTS
    FrameSize = 3
    ChecksumSize = 1
    MinFrameRoom = 1
    DataBufferSize = 2
    SizeTModulus = 16
    U32Modulus = 1024
    Msgs = {1, 2}
    Configs <- MCConfigs
    ResponseSize = 3

SPECIFICATION Spec

INVARIANT ProgressLifecycle
PROPERTY SettledUnlessClosed
CHECK_DEADLOCK FALSE
