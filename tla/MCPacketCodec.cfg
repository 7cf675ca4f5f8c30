CONSTANTS
    Base = 4
    Segments = 4
    Top = 2
    MaxAddress = 5
    MaxName = 4
    MaxServerId = 2
    MaxString = 5
    MaxLen = 6
SPECIFICATION FairSpec
INVARIANTS
    TypeOK
    SizeIsExact
    FailsIfTooLong
    FramesThePacket
    RoundTrip
PROPERTIES
    Completes
