----------------------------- MODULE PPUMemory ------------------------------
(***************************************************************************)
(* The memory of the PPU (PPUMemory in src/console/memory.cpp): pattern    *)
(* tables in the cartridge, name tables mirrored two by two (Mapper and    *)
(* PPUMirror in src/console/mapper.cpp), palettes; and PPUDATA, the port   *)
(* through which the program reads and writes it.                          *)
(*                                                                         *)
(* The cartridge is an NROM, which maps the pattern tables one to one and  *)
(* lets them be written.  currentVram is set by a pair of writes to        *)
(* PPUADDR; PPUScroll has those, and what rendering does to it: here the   *)
(* program accesses the memory while nothing is rendered, as it has to.    *)
(***************************************************************************)
EXTENDS Integers

CONSTANTS
    OFFSET,         \* first address of the name tables ($2000)
    TABLE_SIZE,     \* bytes of a name table ($400)
    PALETTE,        \* first address of the palettes ($3f00)
    PALETTE_SIZE,   \* bytes of the two palettes (32)
    COLOURS,        \* bytes of one of their parts (4)
    VRAM_SIZE,      \* addresses of the PPU ($4000)
    ROW,            \* the large increment of currentVram (32)
    BYTES,          \* the bytes a program writes
    VRAM_ADDRESSES  \* the addresses it writes to PPUADDR

TABLES_END == OFFSET + 4 * TABLE_SIZE
HALF_PALETTE == PALETTE_SIZE \div 2

ASSUME PPUMemoryAssumption ==
    /\ {OFFSET, TABLE_SIZE, PALETTE_SIZE, COLOURS, ROW} \subseteq Nat \ {0}
    /\ {PALETTE, VRAM_SIZE} \subseteq Nat
    /\ TABLES_END <= PALETTE /\ PALETTE < VRAM_SIZE
    /\ PALETTE % PALETTE_SIZE = 0
    /\ PALETTE_SIZE = 2 * HALF_PALETTE /\ HALF_PALETTE % COLOURS = 0
    /\ VRAM_SIZE - 4 * TABLE_SIZE <= TABLES_END
    /\ BYTES \subseteq Nat /\ 0 \in BYTES
    /\ VRAM_ADDRESSES \subseteq 0..(VRAM_SIZE - 1)

PPUAddresses == 0..(VRAM_SIZE - 1)

(* currentVram has 16 bits, an address of the PPU 14.                      *)
V_SIZE == 4 * VRAM_SIZE

VARIABLES
    chr,            \* the cartridge's pattern tables
    nameTable,      \* four tables, of which mirroring uses two
    palette,
    mirror,         \* HorizontalMirror or VerticalMirror, from the header
    currentVram,
    incrementFlag,  \* of PPUCTRL
    bufferedValue   \* of PPUDATA

ppuMemoryVars ==
    <<chr, nameTable, palette, mirror, currentVram, incrementFlag, bufferedValue>>

PPUMemoryTypeOK ==
    /\ chr \in [0..(OFFSET - 1) -> BYTES]
    /\ nameTable \in [0..(4 * TABLE_SIZE - 1) -> BYTES]
    /\ palette \in [0..(PALETTE_SIZE - 1) -> BYTES]
    /\ mirror \in {"horizontal", "vertical"}
    /\ currentVram \in 0..(V_SIZE - 1)
    /\ incrementFlag \in BOOLEAN
    /\ bufferedValue \in BYTES

PPUMemoryInit ==
    /\ chr = [a \in 0..(OFFSET - 1) |-> 0]
    /\ nameTable = [a \in 0..(4 * TABLE_SIZE - 1) |-> 0]
    /\ palette = [a \in 0..(PALETTE_SIZE - 1) |-> 0]
    /\ mirror \in {"horizontal", "vertical"}
    /\ incrementFlag \in BOOLEAN
    /\ bufferedValue = 0

(* PPUMirror::getTable *)
getTable_Swapped(number) ==
    IF mirror = "vertical" THEN <<0, 0, 2, 2>>[number + 1] ELSE <<0, 1, 0, 1>>[number + 1]

getTable(number) ==
    IF mirror = "vertical" THEN <<0, 1, 0, 1>>[number + 1] ELSE <<0, 0, 2, 2>>[number + 1]

(* Mapper::mirrorAddress, less OFFSET: the place in nameTable.             *)
mirrorAddress(address) ==
    ((address - OFFSET) % TABLE_SIZE)
    + getTable((address - OFFSET) \div TABLE_SIZE) * TABLE_SIZE

(* The first colour of each part of the second palette is the one of the   *)
(* first palette.                                                          *)
Colour(address) ==
    LET pointer == address % PALETTE_SIZE
    IN  IF pointer >= HALF_PALETTE /\ pointer % COLOURS = 0
        THEN pointer - HALF_PALETTE ELSE pointer

InPatterns(address) == address < OFFSET
InTables(address)   == OFFSET <= address /\ address < TABLES_END
InPalette(address)  == PALETTE <= address /\ address < VRAM_SIZE

(* PPUMemory::read.  Between the name tables and the palettes, and past    *)
(* the end, there is nothing.                                              *)
ReadPPU(address) ==
    CASE InPatterns(address) -> chr[address]
      [] InTables(address)   -> nameTable[mirrorAddress(address)]
      [] InPalette(address)  -> palette[Colour(address)]
      [] OTHER               -> 0

(* PPUMemory::write *)
WritePPU(address, value) ==
    /\ chr' = IF InPatterns(address) THEN [chr EXCEPT ![address] = value] ELSE chr
    /\ nameTable' = IF InTables(address)
                    THEN [nameTable EXCEPT ![mirrorAddress(address)] = value]
                    ELSE nameTable
    /\ palette' = IF InPalette(address)
                  THEN [palette EXCEPT ![Colour(address)] = value]
                  ELSE palette

IncrementVram ==
    currentVram' = (currentVram + (IF incrementFlag THEN ROW ELSE 1)) % V_SIZE

(* A write does not mask currentVram to the PPU's addresses, a read does.  *)
writePPUDATA(value) ==
    /\ WritePPU(currentVram, value)
    /\ IncrementVram
    /\ UNCHANGED <<mirror, incrementFlag, bufferedValue>>

MaskedVram == currentVram % VRAM_SIZE

(* What a read puts in the buffer: under the palettes, the name tables     *)
(* would go on.                                                            *)
Buffered_Palette == ReadPPU(MaskedVram)

Buffered ==
    IF MaskedVram >= PALETTE THEN ReadPPU(MaskedVram - 4 * TABLE_SIZE)
                             ELSE ReadPPU(MaskedVram)

(* What it returns.                                                        *)
Returned == IF MaskedVram >= PALETTE THEN ReadPPU(MaskedVram) ELSE bufferedValue

readPPUDATA ==
    /\ bufferedValue' = Buffered
    /\ IncrementVram
    /\ UNCHANGED <<chr, nameTable, palette, mirror, incrementFlag>>

(* Two writes to PPUADDR (PPUScroll).                                      *)
setCurrentVram(address) ==
    /\ currentVram' = address
    /\ UNCHANGED <<chr, nameTable, palette, mirror, incrementFlag, bufferedValue>>

writeIncrementFlag(flag) ==
    /\ incrementFlag' = flag
    /\ UNCHANGED <<chr, nameTable, palette, mirror, currentVram, bufferedValue>>
=============================================================================
