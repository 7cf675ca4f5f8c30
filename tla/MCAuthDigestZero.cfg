CONSTANTS
    Base = 4
    Bytes = 3
SPECIFICATION Spec
INVARIANT LastZeroIsKept
CHECK_DEADLOCK FALSE
