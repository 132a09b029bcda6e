\* Tiles of 4 pixels: tables of 16 by 14 tiles, bytes of 6 bits, four fetches
\* at three dots.  A line is 2 tiles and two that are fetched ahead, 2 lines
\* are drawn.  The bytes are at the right border of a table, and on its last
\* row and beyond.
CONSTANTS
    FINE = 4
    VISIBLE = 8
    COPY_FIRST = 10
    COPY_LAST = 11
    PREFETCH_FIRST = 13
    PREFETCH_LAST = 20
    CLOCK_CYCLE = 22
    POST_RENDER_SCAN_LINE = 2
    PRE_RENDER_SCAN_LINE = 3
    VALUES = {55, 62}
    MAX_ACCESSES = 4
    NAME_DOT = 1
    ATTRIBUTE_DOT = 2
    LOW_DOT = 2
    HIGH_DOT = 3
    ACCESS_DOTS = {0, 2, 5, 8, 9, 15, 21}
SPECIFICATION BackgroundSpec
INVARIANTS
    TypeOK
    DrawsAtScroll
PROPERTIES
    PairTakesEffect
    DrawsPlane
