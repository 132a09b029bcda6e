\* Lines as long as the NES's, with its NMI delay; frames of 6 lines.
CONSTANTS
    CLOCK_CYCLE = 341
    POST_RENDER_SCAN_LINE = 2
    PRE_RENDER_SCAN_LINE = 5
    NMI_DELAY = 15
    IRQ_CLOCK = 260
SPECIFICATION FairSpec
INVARIANTS
    TypeOK
    DelayTellsPosition
    FlagOnlyInBlank
    MapperClockOutsideBlank
PROPERTIES
    ImplementsVBlankNMI
    KeepsInterrupting
CHECK_DEADLOCK TRUE
