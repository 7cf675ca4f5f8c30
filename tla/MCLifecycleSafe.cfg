CONSTANTS
    c1 = c1
    c2 = c2
    Conn = {c1, c2}
    NoConn = NoConn
    MaxData <- OneEach
    MaxAuth = 2
    Platform = "linux"
SPECIFICATION Spec
SYMMETRY Symmetry
INVARIANTS
    TypeOK
    CallbackFindsPlayer
    RegistriesAgree
    ServicesOutlivePlayers
    RecvOnOpenSocket
PROPERTIES
    LifetimeSafe
