\* A stack page of 6 bytes: room for two nested interrupts, entered at 3 so
\* that pushes wrap.  The program's instructions straddle the end of memory.
CONSTANTS
    STACK_SIZE = 6
    POINTS = {65535, 0, 2}
    NMI_VECTOR = 0
    RESET_VECTOR = 65535
    IRQ_VECTOR = 2
    ACCUMULATORS = {1}
    OTHER_FLAGS = {"C"}
    INTERRUPT_CYCLES = 1
    MAX_WAIT = 1
    LEFT_FIRST = TRUE
SPECIFICATION Spec
PROPERTIES
    IrqOnlyWhenEnabled
CHECK_DEADLOCK TRUE
