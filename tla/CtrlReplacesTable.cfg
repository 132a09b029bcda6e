\* Tiles of 2 pixels: tables of 8 by 6 tiles, bytes of 4 bits.  A line is 4
\* tiles and two that are fetched ahead, 2 lines are drawn.  The bytes are at
\* the right border of a table, and on its last row and beyond.
CONSTANTS
    FINE = 2
    VISIBLE = 8
    COPY_FIRST = 10
    COPY_LAST = 11
    PREFETCH_FIRST = 13
    PREFETCH_LAST = 16
    CLOCK_CYCLE = 18
    POST_RENDER_SCAN_LINE = 2
    PRE_RENDER_SCAN_LINE = 4
    VALUES = {10, 15}
    MAX_ACCESSES = 5
SPECIFICATION Spec
PROPERTIES
    CtrlReplacesTable
