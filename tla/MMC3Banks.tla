------------------------------ MODULE MMC3Banks ------------------------------
(***************************************************************************)
(* Bank switching of the MMC3 mapper (src/console/mapper.cpp,              *)
(* MMC3Mapper).                                                            *)
(*                                                                         *)
(* The program sees the cartridge's memory through windows: four windows   *)
(* of 8kB onto the PRG ROM and eight of 1kB onto the CHR ROM.  It sets     *)
(* eight bank registers, one at a time, through a select and a data port;  *)
(* the mapper caches, for each window, the page it shows.  A window of     *)
(* this model holds a page number, where the code holds the page number    *)
(* times the page size.                                                    *)
(***************************************************************************)
EXTENDS Integers

CONSTANTS
    PRG_PAGES,   \* 8kB pages of the PRG ROM, prgRomSize * 2
    CHR_PAGES,   \* 1kB pages of the CHR ROM
    BYTES,       \* bank numbers a program writes
    GARBAGE      \* what uninitialised bank registers may hold

(***************************************************************************)
(* ROMs come in units of two PRG pages and eight CHR pages.  A program     *)
(* only asks for banks its cartridge has, up to the two bits that select   *)
(* among 64 PRG pages; what memory held before has no such limit.          *)
(***************************************************************************)
ASSUME BanksAssumption ==
    /\ PRG_PAGES \in Nat /\ PRG_PAGES >= 2
    /\ CHR_PAGES \in Nat /\ CHR_PAGES % 2 = 0
    /\ BYTES \subseteq 0..255
    /\ GARBAGE \subseteq 0..255
    /\ \A b \in BYTES : b < CHR_PAGES /\ b % 64 < PRG_PAGES

VARIABLES
    currentBank,     \* the register the data port writes to
    bankIndexes,     \* the eight bank registers
    prgROMMode,      \* which of windows 0 and 2 is fixed
    chrInversion,    \* which half of the CHR windows holds the 2kB banks
    cpuOffsets,      \* the page each PRG window shows
    ppuOffsets,      \* the page each CHR window shows
    synced,          \* history: a port was written since power-up
    set              \* history: the registers the program has set

vars == <<currentBank, bankIndexes, prgROMMode, chrInversion,
          cpuOffsets, ppuOffsets, synced, set>>

Registers == 0..7
CpuWindows == 0..3
PpuWindows == 0..7

TypeOK ==
    /\ currentBank \in Registers
    /\ bankIndexes \in [Registers -> 0..255]
    /\ prgROMMode \in BOOLEAN
    /\ chrInversion \in BOOLEAN
    /\ cpuOffsets \in [CpuWindows -> Nat]
    /\ ppuOffsets \in [PpuWindows -> 0..255]
    /\ synced \in BOOLEAN
    /\ set \subseteq Registers

-----------------------------------------------------------------------------
(* Page arithmetic.  All bank numbers are bytes.                           *)

(* computeCpuOffset: a negative page index counts from the end of the ROM. *)
computeCpuOffset_Unsigned(pageIndex) == pageIndex

computeCpuOffset(pageIndex) ==
    IF pageIndex < 0 THEN pageIndex + PRG_PAGES ELSE pageIndex

Low6Bits_Unmasked(byte) == byte

Low6Bits(byte) == byte % 64              \* byte & 63

EvenBank_Unaligned(byte) == byte

EvenBank(byte) == byte - (byte % 2)        \* byte & 0xfe

OddBank(byte) == byte - (byte % 2) + 1     \* byte | 0x01

-----------------------------------------------------------------------------

(* setCpuOffsets *)
CpuPages_ModesSwapped(bank, mode) ==
    LET swappable == IF mode THEN 0 ELSE 2
    IN  [w \in CpuWindows |->
            CASE w = 3         -> computeCpuOffset(-1)
              [] w = 1         -> computeCpuOffset(Low6Bits(bank[7]))
              [] w = swappable -> computeCpuOffset(Low6Bits(bank[6]))
              [] OTHER         -> computeCpuOffset(-2)]

CpuPages_RegistersSwapped(bank, mode) ==
    LET swappable == IF mode THEN 2 ELSE 0
    IN  [w \in CpuWindows |->
            CASE w = 3         -> computeCpuOffset(-1)
              [] w = 1         -> computeCpuOffset(Low6Bits(bank[6]))
              [] w = swappable -> computeCpuOffset(Low6Bits(bank[7]))
              [] OTHER         -> computeCpuOffset(-2)]

CpuPages(bank, mode) ==
    LET swappable == IF mode THEN 2 ELSE 0
    IN  [w \in CpuWindows |->
            CASE w = 3         -> computeCpuOffset(-1)
              [] w = 1         -> computeCpuOffset(Low6Bits(bank[7]))
              [] w = swappable -> computeCpuOffset(Low6Bits(bank[6]))
              [] OTHER         -> computeCpuOffset(-2)]

(* setPpuOffsets: counted from the half that holds the two 2kB banks,      *)
(* windows 0 to 3 show registers 0 and 1 and windows 4 to 7 registers 2    *)
(* to 5.                                                                   *)
FromBigBanks(w, inversion) == IF inversion THEN w ELSE (w + 4) % 8

PpuRegister_Shifted(w, inversion) ==
    LET v == FromBigBanks(w, inversion)
    IN  IF v < 4 THEN v \div 2 ELSE v - 3

PpuRegister(w, inversion) ==
    LET v == FromBigBanks(w, inversion)
    IN  IF v < 4 THEN v \div 2 ELSE v - 2

PpuPages(bank, inversion) ==
    [w \in PpuWindows |->
        LET byte == bank[PpuRegister(w, inversion)]
        IN  CASE FromBigBanks(w, inversion) \in {0, 2} -> EvenBank(byte)
              [] FromBigBanks(w, inversion) \in {1, 3} -> OddBank(byte)
              [] OTHER -> byte]

-----------------------------------------------------------------------------

(* The constructor fills the windows and leaves the registers as memory    *)
(* was.                                                                    *)
Init ==
    /\ currentBank \in Registers
    /\ bankIndexes \in [Registers -> GARBAGE]
    /\ prgROMMode \in BOOLEAN
    /\ chrInversion \in BOOLEAN
    /\ cpuOffsets = [w \in CpuWindows |->
                        computeCpuOffset(IF w < 2 THEN w ELSE w - 4)]
    /\ ppuOffsets = [w \in PpuWindows |-> w]
    /\ synced = FALSE
    /\ set = {}

(* Both ports end with setCpuOffsets and setPpuOffsets. *)
UpdateWindows_CpuOnly ==
    /\ cpuOffsets' = CpuPages(bankIndexes', prgROMMode')
    /\ UNCHANGED ppuOffsets

UpdateWindows ==
    /\ cpuOffsets' = CpuPages(bankIndexes', prgROMMode')
    /\ ppuOffsets' = PpuPages(bankIndexes', chrInversion')

(* writePrg to an even address of 0x8000 - 0x9fff *)
writeBankSelect(bank, mode, inversion) ==
    /\ currentBank' = bank
    /\ prgROMMode' = mode
    /\ chrInversion' = inversion
    /\ UNCHANGED <<bankIndexes, set>>
    /\ UpdateWindows
    /\ synced' = TRUE

(* writePrg to an odd address of 0x8000 - 0x9fff *)
writeBankData(value) ==
    /\ bankIndexes' = [bankIndexes EXCEPT ![currentBank] = value]
    /\ UNCHANGED <<currentBank, prgROMMode, chrInversion>>
    /\ UpdateWindows
    /\ synced' = TRUE
    /\ set' = set \cup {currentBank}

Next ==
    \/ \E bank \in Registers, mode, inversion \in BOOLEAN :
           writeBankSelect(bank, mode, inversion)
    \/ \E value \in BYTES : writeBankData(value)

Spec == Init /\ [][Next]_vars

-----------------------------------------------------------------------------
(* Properties.                                                             *)

(* 0xe000 always shows the last page, where the CPU finds its vectors, and *)
(* the window that the mode locks, 0x8000 when prgROMMode is set and 0xc000*)
(* when it is clear, the page before it, through every mode change and with*)
(* the registers still garbage.  Until a port is written the mode is       *)
(* garbage too, and 0xc000 is locked, where the constructor put it.        *)
FixedPages ==
    /\ cpuOffsets[3] = PRG_PAGES - 1
    /\ cpuOffsets[IF synced /\ prgROMMode THEN 0 ELSE 2] = PRG_PAGES - 2

(* A 2kB bank is an aligned pair of pages: in the half that holds the 2kB  *)
(* banks, an even window shows an even page and the window after it the    *)
(* page that follows.                                                      *)
BigBanksPaired ==
    \A w \in {0, 2} :
        LET low == IF chrInversion THEN w ELSE w + 4
        IN  /\ ppuOffsets[low] % 2 = 0
            /\ ppuOffsets[low + 1] = ppuOffsets[low] + 1

(* The register a window is governed by; the fixed windows have none.      *)
CpuRegister(w) ==
    CASE w = 1                           -> {7}
      [] w = (IF prgROMMode THEN 2 ELSE 0) -> {6}
      [] OTHER                           -> {}

(* A window whose register the program has set shows a page that exists,   *)
(* whatever the other registers hold.                                      *)
SetWindowsInsideROM ==
    /\ \A w \in CpuWindows :
           synced /\ CpuRegister(w) \subseteq set
               => cpuOffsets[w] \in 0..(PRG_PAGES - 1)
    /\ \A w \in PpuWindows :
           synced /\ PpuRegister(w, chrInversion) \in set
               => ppuOffsets[w] \in 0..(CHR_PAGES - 1)

(* Flipping a mode bit exchanges windows and loses no bank: 0x8000 and     *)
(* 0xc000 for the PRG mode, the two halves for the CHR inversion.          *)
ModeFlipsExchange ==
    [][synced /\ UNCHANGED bankIndexes =>
        LET prg(w) == IF prgROMMode' # prgROMMode /\ w \in {0, 2} THEN 2 - w ELSE w
            chr(w) == IF chrInversion' # chrInversion THEN (w + 4) % 8 ELSE w
        IN  /\ \A w \in CpuWindows : cpuOffsets'[w] = cpuOffsets[prg(w)]
            /\ \A w \in PpuWindows : ppuOffsets'[w] = ppuOffsets[chr(w)]]_vars

(* Setting one register moves no window that another register governs.     *)
DataMovesOwnWindows ==
    [][synced /\ UNCHANGED <<prgROMMode, chrInversion>> =>
        /\ \A w \in CpuWindows :
               currentBank \notin CpuRegister(w) => cpuOffsets'[w] = cpuOffsets[w]
        /\ \A w \in PpuWindows :
               currentBank # PpuRegister(w, chrInversion)
                   => ppuOffsets'[w] = ppuOffsets[w]]_vars
=============================================================================
