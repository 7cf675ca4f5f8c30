CONSTANTS
    Base = 4
    Segments = 2
    Top = 4
    Packet <- Packets
    Response <- EncryptionResponse
    BufLen = 6
    Block = 2
    Noise <- Patterns
    MaxPackets = 3
SPECIFICATION FairSpec
INVARIANTS
    TypeOK
    NothingLostUntilCut
PROPERTIES
    ChannelUntilCut
    StreamIsRead
CHECK_DEADLOCK FALSE
