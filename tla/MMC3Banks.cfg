\* A cartridge of 4 PRG pages and 128 CHR pages.  The bytes cover both
\* parities and the two bits the PRG windows ignore; garbage lies outside
\* both ROMs.
CONSTANTS
    PRG_PAGES = 4
    CHR_PAGES = 128
    BYTES = {3, 66}
    GARBAGE = {252}
SPECIFICATION Spec
INVARIANTS
    TypeOK
    FixedPages
    BigBanksPaired
    SetWindowsInsideROM
PROPERTIES
    ModeFlipsExchange
    DataMovesOwnWindows
CHECK_DEADLOCK TRUE
