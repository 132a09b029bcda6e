\* As PPUSprites.cfg, for the one property that a horizontal flip violates.
CONSTANTS
    SIDE = 2
    WIDTH = 4
    CLOCK_CYCLE = 7
    POST_RENDER_SCAN_LINE = 3
    PRE_RENDER_SCAN_LINE = 5
    SPRITES = 3
    LIMIT = 2
    XS = {1, 3}
    YS = {0, 1}
    LOOKS = {13, 23}
    ACCESS_DOTS = {2, 4}
    MAX_ACCESSES = 2
SPECIFICATION Spec
INVARIANT
    FlipsMirror
