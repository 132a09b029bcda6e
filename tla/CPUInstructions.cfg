\* Bytes of 2 bits: the smallest with a sign and a bit beside it.  All values
\* of the registers, all operands; instructions in the middle of memory and at
\* its end.
CONSTANTS
    BITS = 2
    HIGH_BYTES = {1, 3}
    ORIGINS = {5, 14}
    FILLS = {1, 3}
    MAX_INSTRUCTIONS = 1
SPECIFICATION Spec
INVARIANTS
    TypeOK
    ArithmeticIsInteger
    CarriesTellPages
CHECK_DEADLOCK FALSE
