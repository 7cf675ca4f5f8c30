CONSTANTS
    c1 = c1
    c2 = c2
    Conn = {c1}
    NoConn = NoConn
    MaxData <- OneEach
    MaxAuth = 1
    Platform = "linux"
SPECIFICATION FairSpec
PROPERTIES
    ClosedListenerExits
