CONSTANTS
    c1 = c1
    c2 = c2
    Conn = {c1, c2}
    NoConn = NoConn
    MaxData <- TwoIdle
    MaxAuth = 1
    Platform = "linux"
SPECIFICATION FairSpec
PROPERTIES
    DataIsRead
