\* Sessions of one step, with one pixel or none.
CONSTANTS
    CAP = 3
    SMALL = 1
    PALETTES = {0, 1}
    BUTTONS = {{}, {"B"}}
    GARBAGE = {FALSE}
    UNDRAWN_SESSIONS = TRUE
    MAX_STEPS = 1
    MAX_PIXELS = 1
SPECIFICATION Spec
INVARIANTS
    StopsAfterLastPixel
CHECK_DEADLOCK FALSE
