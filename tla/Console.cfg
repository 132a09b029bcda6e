\* The console scaled down: a line is 8 dots (2 2/3 CPU cycles), the delay of
\* an NMI 2 dots, an interrupt costs 1 cycle and a DMA 3 or 4, longer than a
\* line.  2 lines are drawn and 4 are blank.
CONSTANTS
    CLOCK_CYCLE = 8
    POST_RENDER_SCAN_LINE = 2
    PRE_RENDER_SCAN_LINE = 6
    NMI_DELAY = 2
    IRQ_CLOCK = 6
    LATCHES = {0, 1}
    IRQ_GARBAGE = {0}
    INSTRUCTION_CYCLES = {1, 2}
    MAX_CYCLES = 2
    INTERRUPT_CYCLES = 1
    DMA_CYCLES = 3
SPECIFICATION ConsoleSpec
INVARIANTS
    ConsoleTypeOK
    WaitIsBounded
PROPERTIES
    DrivesPPU
    HandlerStartsInTime
    RasterLine
    KeepsExecuting
CHECK_DEADLOCK TRUE
