CONSTANTS
    Packet <- PacketsOfTwoAndThree
    Base = 3
    Block = 2
    Key <- InitialVector
    Pad <- PadOf
    MaxBuffers = 3
SPECIFICATION FairSpec
INVARIANTS
    TypeOK
    OwnedOnce
    OnlySentLeaks
    GarbledOnlyAfterRestart
PROPERTIES
    ChannelUntilCut
CHECK_DEADLOCK FALSE
