\* Tiles of 2 by 2 pixels, a line of 4 dots of which the first 2 can be hidden,
\* 3 lines, 3 sprites of which 2 are drawn on a line.  A sprite stands in the
\* hidden columns, across their border or at the last dot.
CONSTANTS
    SIDE = 2
    WIDTH = 4
    CLOCK_CYCLE = 7
    POST_RENDER_SCAN_LINE = 3
    PRE_RENDER_SCAN_LINE = 5
    SPRITES = 3
    LIMIT = 2
    XS = {1, 3}
    YS = {0, 1}
    LOOKS = {13, 23}
    ACCESS_DOTS = {2, 4}
    MAX_ACCESSES = 2
SPECIFICATION Spec
INVARIANTS
    TypeOK
    DrawsFrontmost
    SpriteZeroTellsOverlap
    OverflowTellsCrowdedLine
