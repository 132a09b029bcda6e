\* Bytes of 2 bits, whose smallest signed number is -2 (0x80 in the code), and
\* one instruction in the middle of memory.
CONSTANTS
    BITS = 2
    HIGH_BYTES = {1}
    ORIGINS = {5}
    FILLS = {1}
    MAX_INSTRUCTIONS = 1
SPECIFICATION Spec
INVARIANTS
    OffsetsAreSigned
CHECK_DEADLOCK FALSE
