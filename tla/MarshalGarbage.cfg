\* Sessions of up to 2 steps and 2 pixels.
CONSTANTS
    CAP = 3
    SMALL = 1
    PALETTES = {0, 1}
    BUTTONS = {{}, {"B"}}
    GARBAGE = {FALSE, TRUE}
    UNDRAWN_SESSIONS = FALSE
    MAX_STEPS = 2
    MAX_PIXELS = 2
SPECIFICATION Spec
INVARIANTS
    SameInputs
CHECK_DEADLOCK FALSE
