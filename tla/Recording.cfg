\* Sessions of up to 3 steps and 4 pixels: a run of 4 pixels fills a group (3),
\* goes on in the next and passes the one-byte count (1).
CONSTANTS
    CAP = 3
    SMALL = 1
    PALETTES = {0, 1}
    BUTTONS = {{}, {"B"}}
    GARBAGE = {FALSE}
    UNDRAWN_SESSIONS = FALSE
    MAX_STEPS = 3
    MAX_PIXELS = 4
SPECIFICATION Spec
INVARIANTS
    SameInputs
    StopsAfterLastPixel
PROPERTIES
    ReadsBackPixels
    ReplayEnds
CHECK_DEADLOCK FALSE
