----------------------------- MODULE CPUMemory ------------------------------
(***************************************************************************)
(* What a program finds at the addresses of the CPU (CPUMemory in          *)
(* src/console/memory.cpp): RAM, the ports of the PPU with its memory and  *)
(* its sprite memory (OAM) behind them, the controllers, PRG RAM and ROM.  *)
(*                                                                         *)
(* One access of the program at a time, from a set of addresses and with   *)
(* any byte the port makes something of.  The registers of the PPU that    *)
(* hold no memory are PPUTiming's and PPUScroll's.  The cartridge is an    *)
(* NROM.  A program uses one kind of memory: no state is shared between    *)
(* them, but the mapping of the addresses is, and the copy of a page to    *)
(* OAM reads them all.                                                     *)
(***************************************************************************)
EXTENDS PPUMemory, Controller

CONSTANTS
    PAGE,           \* bytes of a page, and of OAM (256)
    RAM_SIZE,       \* bytes of RAM ($800)
    RAM_END,        \* end of its mirrors ($2000)
    PORTS_END,      \* end of the mirrors of the PPU's ports ($4000)
    OAMDMA,         \* $4014; then $4015 of the APU and the controllers
    PRG_RAM,        \* $6000
    PRG_ROM,        \* $8000
    END,            \* $10000
    PROGRAMS,       \* sets of addresses a program accesses
    MAX_ACCESSES    \* bound: accesses but those to the controllers

ASSUME CPUMemoryAssumption ==
    /\ {PAGE, RAM_SIZE, RAM_END, PORTS_END, OAMDMA, PRG_RAM, PRG_ROM, END} \subseteq Nat \ {0}
    /\ RAM_END <= PORTS_END /\ PORTS_END <= OAMDMA /\ OAMDMA + 3 < PRG_RAM
    /\ PRG_RAM <= PRG_ROM /\ PRG_ROM < END
    /\ RAM_END % RAM_SIZE = 0 /\ RAM_END % 8 = 0 /\ END % PAGE = 0
    /\ PROGRAMS \subseteq SUBSET (0..(END - 1))
    /\ MAX_ACCESSES \in Nat

PORT == [left |-> OAMDMA + 2, right |-> OAMDMA + 3]

PRG_ROM_UNIT == (END - PRG_ROM) \div 2

VARIABLES
    ram, prgRam,
    isNrom_128,     \* PRG ROM is one unit, and mirrored
    oam,            \* OAMDATA's data
    oamAddress,     \* OAMADDR
    running,        \* no access was refused
    program,        \* the addresses the program uses
    accesses,       \* accesses so far, but those to the controllers
    latest,         \* history: the latest access
    flat,           \* history: what was last written to every address
    previous,       \* history: where PPUDATA was read last, and not written since
    polled          \* history: how the controllers were read

memoryVars == <<ram, prgRam, isNrom_128>>
oamVars == <<oam, oamAddress>>

vars == <<ppuMemoryVars, controllerVars, memoryVars, oamVars, running, program,
          accesses, latest, flat, previous, polled>>

TypeOK ==
    /\ PPUMemoryTypeOK /\ ControllerTypeOK
    /\ ram \in [0..(RAM_SIZE - 1) -> BYTES]
    /\ prgRam \in [0..(PRG_ROM - PRG_RAM - 1) -> BYTES]
    /\ oam \in [0..(PAGE - 1) -> BYTES]
    /\ oamAddress \in 0..(PAGE - 1)
    /\ running \in BOOLEAN
    /\ accesses \in 0..MAX_ACCESSES

-----------------------------------------------------------------------------
(* Plain memory.                                                           *)

(* The bytes of the ROM: any will do that tell its halves apart.           *)
prgRom(i) == IF i % 3 \in BYTES THEN i % 3 ELSE 0

RamPlace(address) == address % RAM_SIZE

RomPlace(address) ==
    IF isNrom_128 THEN (address - PRG_ROM) % PRG_ROM_UNIT ELSE address - PRG_ROM

InRam(address)    == address < RAM_END
InPorts(address)  == RAM_END <= address /\ address < PORTS_END
InPrgRam(address) == PRG_RAM <= address /\ address < PRG_ROM

(* What a read finds that is no read of a port: the APU and the expansion  *)
(* modules are not implemented and read 0.                                 *)
ReadMemory(address) ==
    CASE InRam(address)     -> ram[RamPlace(address)]
      [] InPrgRam(address)  -> prgRam[address - PRG_RAM]
      [] address >= PRG_ROM -> prgRom(RomPlace(address))
      [] OTHER              -> 0

(* Writes to the ROM and to what is not implemented are dropped.           *)
WriteMemory(address, value) ==
    /\ ram' = IF InRam(address) THEN [ram EXCEPT ![RamPlace(address)] = value] ELSE ram
    /\ prgRam' = IF InPrgRam(address)
                 THEN [prgRam EXCEPT ![address - PRG_RAM] = value] ELSE prgRam
    /\ UNCHANGED isNrom_128

-----------------------------------------------------------------------------
(* Ports.                                                                  *)

Register(address) == address % 8

Bit(flag) == IF flag THEN 1 ELSE 0

IsController(address) == address \in {PORT[side] : side \in Sides}

SideOf(address) == CHOOSE side \in Sides : PORT[side] = address

(* Registers that only one of reading and writing is implemented for; the  *)
(* other one throws and ends the emulator.                                 *)
WriteOnly == {0, 1, 3, 5, 6}
ReadOnly == {2}

Refuse ==
    /\ running' = FALSE
    /\ UNCHANGED <<ppuMemoryVars, controllerVars, memoryVars, oamVars>>

incrementOamAddress_NoWrap == oamAddress' = oamAddress + 1

incrementOamAddress == oamAddress' = (oamAddress + 1) % PAGE

writeOAMDATA(value) ==
    /\ oam' = [oam EXCEPT ![oamAddress] = value]
    /\ incrementOamAddress

(* The page's end wraps to 0 after the last page, and no vector has a      *)
(* negative size; reading the ports of the PPU, the first of each page or  *)
(* OAMDMA itself, is refused.                                              *)
CannotUpload(page) ==
    \/ (page + 1) * PAGE = END
    \/ InPorts(page * PAGE)
    \/ OAMDMA \div PAGE = page

uploadToOamdata(page) ==
    oam' = [i \in 0..(PAGE - 1) |-> ReadMemory(page * PAGE + i)]

writeOAMDMA(page) ==
    IF CannotUpload(page)
    THEN Refuse
    ELSE /\ uploadToOamdata(page)
         /\ UNCHANGED <<ppuMemoryVars, controllerVars, memoryVars, oamAddress, running>>

(* PPU::readRegister; a read of PPUSTATUS (2) does nothing here, one of    *)
(* OAMDATA (4) leaves OAMADDR alone.                                       *)
readRegister(register) ==
    CASE register \in WriteOnly -> Refuse
      [] register = 7 -> /\ readPPUDATA
                         /\ UNCHANGED <<controllerVars, memoryVars, oamVars, running>>
      [] OTHER -> UNCHANGED <<ppuMemoryVars, controllerVars, memoryVars, oamVars, running>>

ReturnedBy(register) ==
    CASE register = 4 -> oam[oamAddress] [] register = 7 -> Returned [] OTHER -> 0

(* PPU::writeRegister; PPUMASK, PPUSCROLL and PPUADDR do nothing here.     *)
writeRegister(register, value) ==
    CASE register \in ReadOnly -> Refuse
      [] register = 0 -> /\ writeIncrementFlag(value > 0)
                         /\ UNCHANGED <<controllerVars, memoryVars, oamVars, running>>
      [] register = 3 -> /\ oamAddress' = value
                         /\ UNCHANGED <<ppuMemoryVars, controllerVars, memoryVars, oam, running>>
      [] register = 4 -> /\ writeOAMDATA(value)
                         /\ UNCHANGED <<ppuMemoryVars, controllerVars, memoryVars, running>>
      [] register = 7 -> /\ writePPUDATA(value)
                         /\ UNCHANGED <<controllerVars, memoryVars, oamVars, running>>
      [] OTHER -> UNCHANGED <<ppuMemoryVars, controllerVars, memoryVars, oamVars, running>>

-----------------------------------------------------------------------------
(* History, for the properties: memory as a program sees it, flat, where   *)
(* each address holds what was last written to it or to a mirror of it.    *)
(* Which addresses mirror each other is said here once more, in other      *)
(* terms than the code's: copies of the RAM, tables side by side or one    *)
(* above the other, and the backdrop colours.                              *)
(*                                                                         *)
(* Two ranges have no byte here, because the code and its comments         *)
(* disagree about them: the addresses between the name tables and the      *)
(* palettes, which are said to mirror the tables (ppu.cpp:247-248, but     *)
(* "Empty" in memory.cpp:36-37), and those past the 14 bits of the PPU's,  *)
(* whose upper bits are said to be unused (ppu.cpp:230-231).  The code     *)
(* drops writes to both; the byte that such a write was meant for by the   *)
(* comments is doubtful from then on, until it is written itself.          *)

SameRam(a, b) ==
    a = b \/ (a < RAM_END /\ b < RAM_END /\ (a - b) % RAM_SIZE = 0)

(* The tables make a square; vertical mirroring repeats it downwards.      *)
Table(a) == (a - OFFSET) \div TABLE_SIZE
Column(a) == Table(a) % 2
Line(a) == Table(a) \div 2

SameCell(a, b) ==
    /\ InTables(a) /\ InTables(b)
    /\ (a - b) % TABLE_SIZE = 0
    /\ IF mirror = "vertical" THEN Column(a) = Column(b) ELSE Line(a) = Line(b)

SameColour(a, b) ==
    /\ InPalette(a) /\ InPalette(b)
    /\ \/ (a - b) % PALETTE_SIZE = 0
       \/ /\ (a - b) % HALF_PALETTE = 0
          /\ (a - PALETTE) % COLOURS = 0

SamePlace(a, b) == a = b \/ SameCell(a, b) \/ SameColour(a, b)

Holds(a) == InPatterns(a) \/ InTables(a) \/ InPalette(a)

(* The place that an address stands for by the comments, if it holds none. *)
Meant(a) ==
    LET masked == a % VRAM_SIZE
    IN  IF TABLES_END <= masked /\ masked < PALETTE
        THEN masked - 4 * TABLE_SIZE ELSE masked

DoubtfulAfter(v) ==
    LET places == {a \in PPUAddresses : SamePlace(a, Meant(v))}
    IN  IF Holds(v) THEN flat.doubtful \ places ELSE flat.doubtful \cup places

IsPort(address, register) == InPorts(address) /\ Register(address) = register

FlatAfterWrite(address, value) ==
    [cpu |-> [a \in DOMAIN flat.cpu |->
                IF SameRam(a, address) /\ (InRam(a) \/ InPrgRam(a))
                THEN value ELSE flat.cpu[a]],
     vram |-> [a \in DOMAIN flat.vram |->
                IF IsPort(address, 7) /\ Holds(a) /\ SamePlace(a, currentVram)
                THEN value ELSE flat.vram[a]],
     doubtful |-> IF IsPort(address, 7) THEN DoubtfulAfter(currentVram) ELSE flat.doubtful,
     oam |-> [i \in DOMAIN flat.oam |->
                IF IsPort(address, 4) /\ i = oamAddress THEN value
                ELSE IF address = OAMDMA /\ running' THEN flat.cpu[value * PAGE + i]
                ELSE flat.oam[i]]]

(* Where a read of PPUDATA at an address fills the buffer from: the tables *)
(* are repeated after themselves, but only where the palettes are.         *)
BufferedFrom(a) == IF InPalette(a) THEN OFFSET + ((a - OFFSET) % (4 * TABLE_SIZE)) ELSE a

(* Reads of a controller since its strobe was set, or since a read with    *)
(* the strobe set, in the current poll; whether no poll before was left in *)
(* the middle.                                                             *)
PolledAfter(op, side, value) ==
    CASE op = "read" /\ strobe[side]  -> [reads |-> 0, whole |-> TRUE]
      [] op = "read" /\ ~strobe[side] ->
             [polled[side] EXCEPT !.reads = (@ + 1) % (LAST_BUTTON + 1)]
      [] op = "write" /\ value % 2 = 1 ->
             [reads |-> 0, whole |-> polled[side].whole /\ polled[side].reads = 0]
      [] OTHER -> polled[side]

Remember(op, address, value) ==
    /\ accesses' = IF IsController(address) THEN accesses ELSE accesses + 1
    /\ latest' = [op |-> op, at |-> address, value |-> value]
    /\ flat' = IF op = "write" THEN FlatAfterWrite(address, value) ELSE flat
    /\ previous' = IF ~IsPort(address, 7) THEN previous
                   ELSE IF op = "read" THEN {BufferedFrom(MaskedVram)}
                   ELSE {}
    /\ polled' = [side \in Sides |-> IF address = PORT[side]
                                     THEN PolledAfter(op, side, value)
                                     ELSE polled[side]]
    /\ UNCHANGED program

-----------------------------------------------------------------------------

CanAccess == running /\ accesses < MAX_ACCESSES

(* CPUMemory::read *)
Value(address) ==
    CASE InPorts(address)      -> ReturnedBy(Register(address))
      [] IsController(address) -> Bit(buttons[SideOf(address)][Reported(SideOf(address))])
      [] OTHER                 -> ReadMemory(address)

Read(address) ==
    /\ CanAccess
    /\ CASE InPorts(address)      -> readRegister(Register(address))
         [] address = OAMDMA      -> Refuse
         [] IsController(address) -> /\ readController(SideOf(address))
                                     /\ UNCHANGED <<ppuMemoryVars, memoryVars, oamVars, running>>
         [] OTHER -> UNCHANGED <<ppuMemoryVars, controllerVars, memoryVars, oamVars, running>>
    /\ Remember("read", address, Value(address))

(* The bytes that make a difference at an address.                         *)
ValuesAt(address) ==
    CASE IsPort(address, 3)    -> 0..(PAGE - 1)
      [] address = OAMDMA      -> 0..((END \div PAGE) - 1)
      [] IsController(address) -> {0, 1}
      [] OTHER                 -> BYTES

(* CPUMemory::write *)
Write(address, value) ==
    /\ CanAccess
    /\ CASE InPorts(address)      -> writeRegister(Register(address), value)
         [] address = OAMDMA      -> writeOAMDMA(value)
         [] IsController(address) -> /\ writeController(SideOf(address), value)
                                     /\ UNCHANGED <<ppuMemoryVars, memoryVars, oamVars, running>>
         [] OTHER -> /\ WriteMemory(address, value)
                     /\ UNCHANGED <<ppuMemoryVars, controllerVars, oamVars, running>>
    /\ Remember("write", address, value)

UsesVram == \E address \in program : IsPort(address, 6)

(* A program that writes PPUADDR twice. *)
SetVram(address) ==
    /\ CanAccess
    /\ UsesVram
    /\ setCurrentVram(address)
    /\ latest' = [op |-> "set", at |-> address, value |-> 0]
    /\ accesses' = accesses + 1
    /\ UNCHANGED <<controllerVars, memoryVars, oamVars, running, program, flat, previous, polled>>

(* Console::step *)
SetButtons(left, right) ==
    /\ CanAccess
    /\ \E side \in Sides : PORT[side] \in program
    /\ setControllers(left, right)
    /\ latest' = [op |-> "step", at |-> 0, value |-> 0]
    /\ UNCHANGED <<ppuMemoryVars, memoryVars, oamVars, running, accesses, program, flat, previous, polled>>

(* A program that uses PPUDATA has set currentVram before.                 *)
Init ==
    /\ PPUMemoryInit /\ ControllerInit
    /\ ram = [a \in 0..(RAM_SIZE - 1) |-> 0]
    /\ prgRam = [a \in 0..(PRG_ROM - PRG_RAM - 1) |-> 0]
    /\ isNrom_128 \in BOOLEAN
    /\ oam = [i \in 0..(PAGE - 1) |-> 0]
    /\ oamAddress = 0
    /\ running = TRUE
    /\ program \in PROGRAMS
    /\ currentVram \in (IF UsesVram THEN VRAM_ADDRESSES ELSE {0})
    /\ accesses = 0
    /\ latest = [op |-> "none", at |-> 0, value |-> 0]
    /\ flat = [cpu  |-> [a \in 0..(END - 1) |-> ReadMemory(a)],
               vram |-> [a \in PPUAddresses |-> 0],
               doubtful |-> {},
               oam  |-> oam]
    /\ previous = {}
    /\ polled = [side \in Sides |-> [reads |-> 0, whole |-> TRUE]]

Next ==
    \/ \E address \in program : Read(address)
    \/ \E address \in program : \E value \in ValuesAt(address) : Write(address, value)
    \/ \E address \in VRAM_ADDRESSES : SetVram(address)
    \/ \E left, right \in ButtonSet : SetButtons(left, right)

Spec == Init /\ [][Next]_vars

-----------------------------------------------------------------------------
(* Properties.                                                             *)

(* A place on whose byte the code and its comments agree.                  *)
Undoubted(a) == Holds(a) /\ a \notin flat.doubtful

(* Every memory holds, at each address, the byte last written there or to  *)
(* a mirror of it, through whichever port: mirrors of RAM, name tables as  *)
(* the header arranges them and shared colours agree, nothing else is      *)
(* changed by a write or by the copy of a page, wherever OAMADDR points.   *)
(* Nothing is said of $3000-$3eff and of what a write there or past the    *)
(* end may have been meant for: TablesRepeat and UpperBitsUnused are.      *)
MemoriesHoldLastWrites ==
    /\ \A a \in DOMAIN flat.cpu : ReadMemory(a) = flat.cpu[a]
    /\ \A a \in DOMAIN flat.vram : Undoubted(a) => ReadPPU(a) = flat.vram[a]
    /\ oam = flat.oam

(* Reading PPUDATA returns a palette byte at once, and anything else one   *)
(* read late: what the read before found, in the tables under the palette  *)
(* if that one read a palette, unless PPUDATA was written in between.  The *)
(* same places are left out.                                               *)
BufferHoldsPrevious ==
    [][ latest'.op = "read" /\ IsPort(latest'.at, 7)
        => \A a \in IF InPalette(MaskedVram) THEN {MaskedVram} ELSE previous :
               Undoubted(a) => latest'.value = flat.vram[a] ]_vars

(* "the ppu memory has 4 nametables from $2000 to $2fff, and these are     *)
(* mirrored from $3000 to $3eff": a byte of a name table is found at its   *)
(* mirror too.                                                             *)
TablesRepeat ==
    \A a \in TABLES_END..(PALETTE - 1) : ReadPPU(a) = ReadPPU(a - 4 * TABLE_SIZE)

(* "the ppu memory space is only 14 bits wide, so the highest bit is       *)
(* unused": what the program writes to PPUDATA is where PPUDATA would read *)
(* it, and the bits above the address make no difference.                  *)
UpperBitsUnused ==
    [][ latest'.op = "write" /\ IsPort(latest'.at, 7)
        => \A a \in {MaskedVram} : Holds(a) => ReadPPU(a)' = latest'.value ]_vars

(* A program that leaves no poll in the middle, or reads once with the     *)
(* strobe set, is told the buttons in their order, each as it is at the    *)
(* time, beginning with the first one after each strobe.  (One that stops  *)
(* in the middle is not: the strobe does not reset the index.)             *)
PollsTellButtonsInOrder ==
    [][ \A side \in Sides :
          latest'.op = "read" /\ latest'.at = PORT[side] /\ polled[side].whole
          => latest'.value =
               Bit(buttons[side][IF strobe[side] THEN 0
                                 ELSE polled[side].reads]) ]_vars
=============================================================================
