\* A program of PPUADDR and PPUDATA only, which writes the last address of the
\* PPU and goes on past it.
CONSTANTS
    PAGE = 8
    RAM_SIZE = 8
    RAM_END = 16
    PORTS_END = 32
    OAMDMA = 34
    PRG_RAM = 48
    PRG_ROM = 56
    END = 72
    PROGRAMS = {{22, 23}}
    VRAM_ADDRESSES = {23}
    MAX_ACCESSES = 2
    OFFSET = 2
    TABLE_SIZE = 3
    PALETTE = 16
    PALETTE_SIZE = 4
    COLOURS = 2
    VRAM_SIZE = 24
    ROW = 5
    BYTES = {0, 1}
    LAST_BUTTON = 1
SPECIFICATION Spec
PROPERTIES
    UpperBitsUnused
CHECK_DEADLOCK FALSE
