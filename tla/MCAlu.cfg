SPECIFICATION Spec
CONSTANTS
    FBits = 4
    DBits = 8
    WordBits = 3
    LongBits = 6
    DSTRLNT = 2
    Nibbles = 2
    CisLong = 8
INVARIANT ArithmeticExact
CHECK_DEADLOCK FALSE
