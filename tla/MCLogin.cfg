CONSTANTS
    n1 = n1
    n2 = n2
    s1 = s1
    s2 = s2
    NoName = NoName
    NoKey = NoKey
    Name = {n1, n2}
    Owned = {n1}
    Secret = {s1, s2}
    MaxSend = 6
    Platform = "windows"
SPECIFICATION FairSpec
INVARIANTS
    TypeOK
    SuccessIsVouched
    SuccessIsEncrypted
    Intelligible
    PatientIsServed
    SuccessUnderItsSecret
PROPERTIES
    EncryptionIsForGood
    LoginCompletes
    StatusCompletes
