CONSTANTS
    Base = 4
    Bytes = 3
SPECIFICATION Spec
INVARIANT DigestIsSigned
CHECK_DEADLOCK FALSE
