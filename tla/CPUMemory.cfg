\* Every boundary of the memory maps, in small: a page of 8 bytes, RAM and the
\* ports mirrored twice, tables of 3 bytes, palettes of 4 with parts of 2.
\* Programs: RAM, PRG RAM and ROM; OAM; PPU memory; the controllers; ports that
\* refuse.
CONSTANTS
    PAGE = 8
    RAM_SIZE = 8
    RAM_END = 16
    PORTS_END = 32
    OAMDMA = 34
    PRG_RAM = 48
    PRG_ROM = 56
    END = 72
    PROGRAMS = {{0, 5, 7, 8, 13, 15, 33, 35, 47, 48, 55, 56, 64, 71}, {3, 14, 50, 19, 20, 28, 34}, {22, 31, 16, 23}, {36, 37}, {16, 17, 26, 34}}
    VRAM_ADDRESSES = {1, 2, 5, 8, 11, 14, 16, 18, 20, 23}
    MAX_ACCESSES = 4
    OFFSET = 2
    TABLE_SIZE = 3
    PALETTE = 16
    PALETTE_SIZE = 4
    COLOURS = 2
    VRAM_SIZE = 24
    ROW = 5
    BYTES = {0, 1}
    LAST_BUTTON = 1
SPECIFICATION Spec
INVARIANTS
    TypeOK
    MemoriesHoldLastWrites
PROPERTIES
    BufferHoldsPrevious
    PollsTellButtonsInOrder
CHECK_DEADLOCK FALSE
