CONSTANTS
    c1 = c1
    c2 = c2
    Conn = {c1, c2}
    NoConn = NoConn
    MaxData <- OneIdle
    MaxAuth = 1
    Platform = "windows"
SPECIFICATION FairSpec
PROPERTIES
    ConnectionReleased
    DataIsRead
    ReplyIsSent
    StartFailureExits
