# Asten, modelled and verified

Asten is a NES emulator: a CPU, a PPU (picture processor), a cartridge with its
mapper, two controllers and a window, driven one CPU step at a time, and a pair of
interfaces that record a session and replay it as a regression test. This directory
models the parts of it that keep state and have to agree with each other, checks
them with TLC on small instances and proves what matters most with TLAPS. All
paths below are those of the repository, `src/console/cpu.cpp` for instance.

## Inventory

| component | state | operations | interacts by |
|---|---|---|---|
| Console (`src/console/console.cpp`) | none of its own | `step`, `isRunning` | asks the interface for reset and buttons, runs one CPU step, then three PPU dots per cycle it took |
| CPU (`cpu.cpp`) | registers, flags, `cyclesToWait` | `step`, `reset`, `triggerNmi`, `triggerIrq`, `waitFor` | reads and writes `CPUMemory`; is interrupted by the PPU and the mapper, and made to wait by OAM DMA, from within their own steps |
| PPU timing (`ppu.cpp`) | `clock`, `scanLine`, `isEvenScreen`, `nmiOccured`, `nmiPrevious`, `nmiDelay`, the flags of PPUCTRL and PPUMASK | `step` (`tick`, `setVerticalBlank`, `clearVerticalBlank`, `nmiChange`), register access | calls `CPU::triggerNmi`, `Mapper::clockIRQCounter`, `IOInterface::render` |
| PPU drawing (`ppu.cpp`) | `currentVram`, `temporaryVram`, fine x, write toggle, OAM, tile and sprite data | PPUSCROLL, PPUADDR, PPUDATA, OAM access; fetches, scroll increments, `renderPixel` | reads `PPUMemory`, calls `colorPixel` |
| MMC3 mapper (`mapper.cpp`) | bank registers, modes, windows; IRQ latch, counter, two flags | `writePrg` (8 ports), reads through the windows, `clockIRQCounter` | calls `CPU::triggerIrq` |
| NROM mapper, loader (`mapper.cpp`) | none after construction | reads | |
| Memory maps (`memory.cpp`) | RAM, name tables, palettes | read, write | dispatch to PPU registers, controllers, mapper |
| Controller (`controller.cpp`) | buttons, strobe, index | read, write, `set` | `set` at every console step |
| SpyInterface (`spy_interface.cpp`) | current buttons and reset with their run lengths | `shouldReset`, `getButtons`, `colorPixel`, `shouldClose` | wraps the window; writes both logs |
| CompareInterface (`compare_interface.cpp`) | queues of runs, what remains of the current ones, `isDone` | the same | reads both logs, throws at a difference |
| ReplayInterface (`replay_interface.cpp`) | `isClose` | the same | shows the pixel log |
| BtnStream (`btnstream.cpp`) | the file | `write`, `readAll`, `close` | |
| ScreenStream, ByteAggregator (`screenstream.cpp`, `byte_aggregator.cpp`) | the run being collected or taken apart | `write`, `read`, `close` | |
| ClassicInterface, ShaderProgram, IOSink, Logger, utilities, glad | window and log files | I/O | |

There are no threads. What makes the system hard is re-entrance in time: the CPU
executes an instruction with all its register accesses, and only then the PPU
catches up, calling back into the CPU and the mapper from the middle of the dots
it owes. Interrupts, DMA waits, register reads and the vertical blank meet in any
order. The state that outlives a frame (edge detector, delay, IRQ counter, cycles
to wait) is where one bad order does damage much later. The recording has the
same difficulty in another form: two run-length logs of inputs with separate
counters, one of pixels with a 16-bit count, and an end that is only noticed
in the middle of a step.

What makes each part correct:

* PPU timing: one NMI for each blank that began with NMIs enabled, exactly 15 dots
  after the flag, none if the program read the flag first; the flag never of an
  earlier frame; frames and NMIs for ever.
* CPU interrupts: whatever is nested in whatever, returning resumes what was left.
* MMC3: the last page and the one before it in the windows the mode locks, 2kB banks paired, no window the program has set
  outside the ROM; the IRQ on its scan line.
* PPU scrolling: tiles are fetched from the position that was copied for the line and the
  frame, not half from it and half from one prepared meanwhile (fine x has no copy and applies at once).
* Console: waits bounded, handlers in time, the program executing for ever.
* PPU drawing: the pixel of the plane that the scroll position tells, though it was
  fetched two tiles earlier; in front of it, or behind, the first sprite that is opaque there,
  as OAM was when the line was loaded; the two sprite flags.
* CPU instructions: arithmetic on bytes that agrees with integers, cycles and targets
  that agree with the carries out of an address's low byte.
* Memory maps and controllers: mirrors agree, a write changes nothing else, reads that
  lag behind by one return the right byte, the buttons in their order.
* Recording: the same inputs at each step of the replay, each pixel compared with
  the one that was recorded (or the one shown instead of it), the end right after the last.

`PROJECT.json` lists the hazards at their lines, with the properties that would
catch each one, and the components with what is left out of each.

## Modules

| module | models | notes |
|---|---|---|
| `VBlankNMI` | the PPU's promise to a program | abstract: no dots, no countdown |
| `PPUTiming` | `PPU::tick`, the blank and NMI part of `PPU::step`, PPUCTRL, PPUMASK, PPUSTATUS | `Dot` is one `PPU::step`; `calls` records what it calls outside the PPU; `Access` is one register access |
| `PPUScroll` | the scroll registers under the accesses and the dots of `PPU::step` | addresses are records of their fields; history: `first` (the first write of a pair), `originX`, `originY` (the position copied for the line and the frame) |
| `PPUBackground` | EXTENDS `PPUScroll`: the four fetches of a tile, the pixels that wait to be drawn, `getBackgroundPixel` | a fetched byte is the place it comes from, a pixel the set of those or-ed into it |
| `PPUSprites` | sprites of `ppu.cpp`: `loadSpriteData`, flips, tall sprites, `renderPixel`, the two sprite flags of PPUSTATUS | `spriteCount` is the loop's counter after each sprite, the buffer the set of records that it fills, each with its `slot`; the background's pixel is an input, any at any dot; history: `source` (what the line was loaded from), `overlapped`, `crowded`, `distorted` |
| `MMC3Banks` | `MMC3Mapper` construction, `writeBankSelect`, `writeBankData` | `cpuOffsets` and `ppuOffsets` are counted in pages; history: `synced` (a port was written), `set` (registers written) |
| `MMC3IRQ` | `clockIRQCounter` and the four IRQ ports | a component without a next-state relation |
| `CPUInterrupts` | `interrupt`, `reset`, stack, `brk php plp pha pla jsr rts rti`, waiting | every other instruction is `Ordinary`; history: `frames`, what the program believes is on the stack, each frame with the place `at` which its first byte was pushed |
| `CPUInstructions` | every other instruction, the addressing modes, the cycles of a step | an instruction is an operator from machine to machine, composed as the code composes it; history: `latest`, the instruction and the machine it found |
| `PPUMemory` | `PPUMemory`, `Mirroring` and `PPUDATA`: name tables, palettes, the buffered read | a component without a next-state relation |
| `Controller` | the shift registers of both controllers, `setControllers` | a component without a next-state relation |
| `CPUMemory` | EXTENDS `PPUMemory` and `Controller`: RAM, the ports and their mirrors, OAM and its DMA, PRG RAM and the ROM of an NROM | `Read` and `Write` go through `CPUMemory::read` and `write`; history: `flat` (the byte last written to each address, and the places `doubtful` on which code and comments disagree), `previous`, `polled` |
| `Console` | `Console::step`: EXTENDS `PPUTiming` and `MMC3IRQ`, adds the CPU's time | `CpuStep` (a wait or an instruction) owes `dotsLeft` dots; `NextDot` runs one, with the interrupts it raises |
| `ScreenStream` | the two classes of the pixel log, as operators on records | a file is the sequence of its groups |
| `Recording` | spy, BtnStream, compare and replay interfaces, `main`'s loop | phases recording, closed, replaying, finished or error; `reader` is the interface that reads; the button log is the sequence of its entries, each of a kind, which `readAll` sorts into queues; history: `tape` (the inputs of each step and how many pixels were drawn up to its end), `pixels`, `compared`, `onTrack` |
| `MMC3Banks_proofs`, `Console_proofs`, `CPUInterrupts_proofs`, `CPUInstructions_proofs`, `CPUMemory_proofs`, `PPUBackground_proofs`, `PPUSprites_proofs`, `Recording_proofs` | theorems | each EXTENDS its module and `TLAPS`; the first part of `Console_proofs` is about `PPUTiming` alone, that of `PPUBackground_proofs` about `PPUScroll`, and `Recording_proofs` is about `ScreenStream` too |

The console's composition is by shared variables: `ConsoleNext` conjoins the
PPU's own actions with what they do to the mapper and the CPU, so each component
keeps its definitions. `Console` has its own, smaller CPU: the time it takes, the
flag I and whether it is in a handler. `CPUInterrupts` has the other half, what
is saved and restored; there NMIs and IRQs come at any time. `CPUInstructions` is the
third part: what an instruction computes.

Conventions. Names follow the source where TLA+ allows it. A definition named
`X_Something` beside `X` is a broken variant of `X` (a plausible mistake in that
code) that no specification uses: each property was checked to fail when `X` is
replaced by one of them.

Abstractions worth knowing:

* PPUTiming keeps of PPUMASK only whether background or sprites are shown, of
  PPUCTRL only the NMI bit. Frames are shorter than 262 lines (constants).
* CPUInterrupts leaves the order of the two pulls of `a | b` to a constant, `LEFT_FIRST`. It keeps the program counter in full (16 bits) but lets it go
  only to a few addresses, `POINTS`. The flags of one run are those named in
  `OTHER_FLAGS`, with I, B and U, the values of A that are pushed those of `ACCUMULATORS`. A program is assumed not to pull what it did not
  push, not to nest deeper than the stack page holds (`HasRoom`), and to use `txs` and `tas` only to set
  the stack up: they move the pointer anywhere and would abandon every frame.
* Console: an instruction is any number of cycles in `INSTRUCTION_CYCLES` and at
  most one access to a PPU or mapper port, or a CLI, SEI or RTI. `MAX_CYCLES` bounds the cycles.
* PPUScroll: all field widths follow from one constant, the side of a tile, as they do in
  the code for 8, so that small tables have the code's masks and borders. Which frames skip a
  dot is left open. `originX` and `originY` are unknown after the program moved v
  itself (PPUADDR, PPUDATA), switched rendering off or scrolled to a hidden row, until the next copy: lines and frames that start in
  the hidden rows are run, but nothing is said of what they show.
* PPUBackground: which pattern table the tiles come from is left out (PPUCTRL gives it at each
  of the two fetches).
* PPUSprites: a pattern table is a constant with two bits a pixel; palettes are not looked up.
* CPUInstructions: a byte has `BITS` bits. The program is a ROM that may hold anything, so any
  instruction with any operand may come next; the RAM is filled by a progression.
  How many cycles an opcode takes comes from the rule its addressing mode and kind give,
  which is how the code's table is arranged.
* CPUMemory: the registers of the PPU that hold no memory are `PPUTiming`'s and `PPUScroll`'s;
  here they only accept or refuse. A program uses one kind of memory. The colour bytes are small.
* Recording: what the console draws in a step is any sequence of colours in the
  recorded session and is the same in the replay as long as the inputs have been
  the same, since the emulation is deterministic; after that it is arbitrary. Colours are
  below 0x7f; uninitialised memory is `GARBAGE`. `UNDRAWN_SESSIONS` tells whether a session may be
  closed before its first pixel.

## Runs

All runs check deadlock, except those of Recording, where sessions finish, and of
CPUInstructions and CPUMemory, whose programs are bounded and may be stopped by
an exception.

| run | instance | shows |
|---|---|---|
| `ppu_timing` | lines of 341 dots, delay of 15, IRQ clock at 260 as in the code; frames of 6 lines, 2 of them drawn | `ImplementsVBlankNMI` (with liveness), punctual and non-overlapping delays, no stale flag or edge, mapper clock apart from the NMI, NMIs for ever |
| `ppu_background` | tiles of 4 pixels, tables of 16 by 14 tiles, 2 lines of 2 tiles drawn and 2 fetched ahead; bytes 55 and 62; 4 accesses in all, at 7 dots of a line | lines and frames drawn at the prepared position, pairs of writes that mean what was written (but for bits 8 to 11 of an address with a PPUCTRL write between its bytes), every pixel of the plane where it belongs |
| `ppu_sprites` | tiles of 2 pixels, 3 lines of 4 dots, 3 sprites with a limit of 2; 2 accesses | the frontmost sprite, sprite zero, overflow; dots of a flipped sprite with colour 1 or 2 left out |
| `mmc3_banks` | 4 PRG pages, 128 CHR pages, all 8 registers, bytes 3 and 66, garbage 252 | the pages fixed where the mode locks them, pairs, windows in the ROM, exchanges |
| `cpu_interrupts` | a stack page of 6 bytes entered at 3; instructions across 0xffff; one value of A to push | saved frames intact, returns restore |
| `cpu_instructions` | bytes of 2 bits, all registers and flags, all instructions and operands, in the middle and at the end of memory | arithmetic, cycles, branches (the offset 0x80 left out) and pages |
| `memory` | pages of 8 bytes, tables of 3, palettes of 4; five programs, 4 accesses | memories and mirrors (doubtful places left out), buffered reads, polls |
| `console` | lines of 8 dots, 2 drawn and 4 blank, delay 2, interrupts of 1 cycle, DMA of 3 or 4 | bounded waits, handlers in time, raster IRQs, refinement of PPUTiming, progress |
| `recording` | 3 steps, 4 pixels, groups of at most 3, one-byte counts up to 1 | the inputs, pixels and end of a comparison and of a replay |

The bounds keep each boundary within reach. The pixels of one line matter to the
PPU's timing only at the dots named in the code, so the whole line is kept and only
repeated lines are dropped; odd and even frames both occur. Two byte values differ
in parity and in the two bits the PRG windows ignore, and one is outside a small
ROM. A stack of 6 bytes holds two interrupts or three calls and wraps in each. In the
console a DMA is longer than a line and an interrupt shorter, as in the NES (a line is
113 2/3 CPU cycles, a DMA 513 or 514, an interrupt 7), so an IRQ can arrive at every line
of a wait. The longest wait found is a DMA and one interrupt, and it is reached.
The background's tables are crossed to the right and to the bottom within a line and
a frame: one byte stands at the right border of a table, the other on its last row or in
the hidden rows below. A tile of 4 pixels has a dot for every fetch but one (the attribute and the low byte, which
do not touch each other, share theirs), and both tiles of a line are fetched while the line before
ends. Four accesses switch
rendering on, write a pair and disturb it once, before, between and after the
dots at which v moves.
Three sprites fill the limit and exceed it, may stand on one another, across the hidden
columns and at the last dot; two accesses hide the screen and show it again
when a line is loaded, or change the size and OAM. The looks give tall sprites, flips, priorities and
transparent pixels.
Bytes of 2 bits have a sign and a bit beside it, so carry, overflow and
page crossings occur in all their combinations; one instruction is enough, since it starts
from every machine.
The programs of `memory` hold the first and the last address of each range and of its
mirrors, the copy of every page to OAM, PPU memory at both ends of the tables and palettes, the
controllers, and the ports that refuse.
In the recording, 4 pixels pass both count boundaries, in one step or over several, and 3 steps make runs
of unequal length in the two logs.

Fairness. `PPUTiming!FairSpec` assumes dots keep coming: `Console::step` runs at
least three per CPU step, whatever the program does. `Console` proves part of that by
checking `DrivesPPU`, from the only assumption that `main` keeps calling
`Console::step`. `Recording` assumes that the replaying program keeps running and
that its console keeps drawing (weak fairness of `ReplayStep` and of drawing a pixel), with
either interface. A program that shows neither background nor sprites for ever would make a replay endless.
Strong fairness is nowhere needed.

## Disagreements between the code and what is said of it

TLC ends each with a counterexample. The first three are runs of the project:

* `irq_disable`: `CPU::triggerIrq` tests `if (I)`, so an IRQ is taken only while the
  "Interrupt Disable" flag is set.
* `ctrl_table`: the comment in `PPUCTRL::write` has it replace the table bits of t; the
  mask 0xfcff clears two bits of the vertical scroll instead, and a table bit once set stays.
* `sprite_flip`: the horizontal flip takes both bits of a sprite's pixel from the high plane
  (`ppu.cpp:580-581`), so that a flipped sprite is no mirror image: its colours 1 and 2 become 0 and 3.

The others have a property and a cfg of their own, beside the runs (`tlc -config BrkSetsB.cfg
CPUInterrupts`, for instance):

* `MarshalGarbage.cfg` (`Recording`, `SameInputs`): `ButtonSet::marshal` shifts into an uninitialised byte; a replay
  may press A.
* `UndrawnSession.cfg` (`Recording`, `StopsAfterLastPixel`): a session closed before its first pixel leaves a group of count 0 (`screenstream.cpp:29`),
  which reads as 65536 pixels, where the header promises to read back what was written.
* `BrkSetsB.cfg` (`CPUInterrupts`, `BrkSetsB`): BRK "sets B on the copy" of the flags with `&`, which clears all of them (`cpu.cpp:225`).
* `BranchOffset.cfg` (`CPUInstructions`, `OffsetsAreSigned`): a branch offset of 0x80 is +128
  (`cpu.cpp:176`), though "the offset is used as a SIGNED integer!" (`cpu.cpp:174`).
* `TableMirror.cfg` (`CPUMemory`, `TablesRepeat`): $3000-$3eff reads 0 and drops what is written, where the comment at
  `ppu.cpp:247-248` has it mirror the name tables (and the one at `memory.cpp:36-37` calls it empty).
* `UpperBits.cfg` (`CPUMemory`, `UpperBitsUnused`): `PPUDATA::write` uses `currentVram` unmasked where the read masks it, because "the highest
  bit is unused": a write past $3fff is lost.

The passing runs take the code as it is: IRQs are taken with I set and PPUCTRL does to t what it does. Where a
property would call right what one of these shows wrong, it leaves the case out, and only that
case: BRK's copy of the flags (`StackHoldsFrames`, `ReturnsRestore`); the target of a branch by 0x80
(`BranchesAreSigned`); $3000-$3eff, and the places that a write there or past $3fff may have been meant for, until
they are written again (`Undoubted`, in `MemoriesHoldLastWrites` and `BufferHoldsPrevious`); dots where a sprite
flipped horizontally has colour 1 or 2 (`DrawsFrontmost`), and after such a dot of sprite zero the rest of
the frame (`SpriteZeroTellsOverlap`); bits 8 to 11 of an address if PPUCTRL was written between
its two bytes, which changes them in t as the hardware does too, if otherwise (`PairTakesEffect`).
Recording's passing run starts from the conditions under which the logs are right: an initialised byte, and a session
that draws a pixel before it is closed.

Seen while modelling, in the models as they are in the code, without a run of their own:

* BRK takes its 7 cycles and waits for 7 more.
* Accesses to a register in the direction it does not have throw, and so do the copies of some
  pages by OAMDMA; a copy starts at OAM's first byte whatever OAMADDR is.
* The overflow flag is also set for line 240, which is not drawn.
* A write of the strobe does not reset a controller's index: a poll left in the middle is
  resumed there.
* The MMC3's `writeMirroring` stores a flag nothing reads (`mapper.cpp:331`), NROM's
  CHR ROM is writable, and the second player's buttons are not logged.

## Proofs

Proved for every value of the constants that the modules' named assumptions allow.

* `Console_proofs`, first part, about `PPUTiming`: the conjunction of the type invariant and four safety invariants is
  inductive (`Invariance`), each conjunct needing the others: a countdown
  stays in its line because its value is told by the dot number, and the next
  one starts from zero because the flag and the edge are down when the blank begins.
  From it, every step of the PPU maps to a step of `VBlankNMI` or a stutter
  (`RefinesVBlankNMI`, the safety part). Assumed: a line longer than the delay
  and the lines in their order (`TimingAssumption`).
* `MMC3Banks_proofs`: once a port was written the windows are a function of the
  registers and modes (`CacheFollowsRegisters`); this and the ranges of the registers
  are the inductive invariant from which the fixed pages (in the window that `prgROMMode` locks), the pairs, the windows inside the ROM
  and the exchange of windows by a mode flip follow, for every ROM
  size. `BanksTypeCorrect` holds from uninitialised registers on, and
  `DataMovesOwnWindowsOnly` says of both modes which windows a register is for.
* `Console_proofs`, second part: every step of the console is a step of the PPU or leaves it alone
  (`ConsoleIsPPUTiming`, of the specifications without fairness), so the PPU's invariant and `VBlankNMI` hold of
  the whole machine. `ConsoleInv` adds to that invariant the CPU's time. The bound on
  waits is not inductive by itself: a wait may grow at each interrupt. `PaidInTime` is
  the missing part: what the CPU owes beyond a DMA is paid before the next interrupt, since
  interrupts are far enough apart. `NmiUnderWay` says that from an NMI on the dots of the blank and
  those the CPU owes have a constant sum
  (`HandlersStartInTime`), and `CounterTellsLines` that the IRQ counter tells how many lines ago
  the last IRQ was requested (`RasterLinesFollowLatch`). `ConsoleAssumption` has the NES's proportions:
  an instruction and an interrupt fit in a line (3 * (8 + 7 - 1) = 42 of 341 dots, `MAX_CYCLES` being
  the longest instruction), and the longest wait in the vertical blank
  (3 * (8 + 521) + 16 = 1603 of 6820 dots).
* `CPUInterrupts_proofs`: `FramesNest`, that the frames lie one above the other from the stack
  pointer up, each as long as its kind, makes "the saved bytes are on the stack" inductive
  (`FramesNestOnStack`); the pointer wraps, so places are compared modulo the
  page, and two of them differ because a program's frames never fill it (`HasRoom`).
  A pull finds the frame at the pointer (`ReturnsRestoreAll`); what `pha` saves is a frame of one byte like
  `php`'s. `a | b` of two pulled bytes is pulled
  in the order the compiler chooses; the code is right if that is left to right, as common
  compilers have it. The model leaves both orders open through the constant
  `LEFT_FIRST`, and all theorems of the module assume it.
* `CPUInstructions_proofs`: what an instruction did is compared with the machine it found, so the
  type invariant is all the past a step needs. The lemmas go from numbers that wrap once
  (`OneWrap`, `SumOfBytes`: an overflow told from signs is the overflow of the signed
  sum) to the operators that set flags and memory, to each instruction
  (`InstructionResult`); composed ones are composed of their halves' lemmas. `And` is a recursive
  sum of bits: that it exists and is a byte (`AndIsCommon`) is shown through
  the least number of bits at which it would fail (`LeastNumber`). `PageOf` tells, for both ends of
  memory, when an address leaves its page. Assumed: `WordAssumption`, bytes of two bits or
  more, with the powers of two spelt out for provers that know no exponents.
* `CPUMemory_proofs`: each mirror is proved to be a residue (`TablesMirror`, `ColoursMirror`,
  `RamMirrors`), so that two addresses that the code's masks and subtractions lead
  to one byte are those the hardware wires together. With that, the inductive invariant `Inv`
  says that each memory holds what the history `flat` was last told, except at the places on which code and
  comments disagree, that PPUDATA's buffer is the byte at the address read before, and that each controller's index counts the reads since
  the strobe (`MemoryInvariance`). Assumed: sizes in the code's proportions, and
  a palette of two halves.
* `PPUBackground_proofs`, first part, about `PPUScroll`: first the arithmetic of the fields, as lemmas: an address is a
  number of 16 bits and back without loss (`NumberOfAddressOf`), a byte is its coarse
  and its fine part. The type invariant is inductive by itself (`ScrollTypeCorrect`).
  For `PairsTakeEffect` it is strengthened by `PairOK`: between the two writes of a
  pair the toggle is up and the first byte lies in the fields it was written to; after a PPUCTRL
  write between, in those of them that PPUCTRL leaves alone.
  For `LinesDrawnAtScroll` by `OriginsOK`: a position is known only while rendering, and only outside
  the hidden rows. An increment of v is shown to be one step round the plane of tables
  (`NextTile`, `NextLine`), and each dot to add the same step to `TilesLoaded` or `LinesDone`
  (`TilesStep`, `LinesStep`). Assumed: the order of the dots of a line and bytes in their range
  (`ScrollAssumption`); the code's sizes and any others in proportion satisfy it.
* `PPUBackground_proofs`, second part: every step of the background's pipeline is a step of `PPUScroll`
  (`BackgroundScrolls`), so its theorems hold of the background too.
  For `ScreenShowsPlane` (the property `DrawsPlane`) the inductive invariant `BackgroundOK`
  names, for every dot from the first tile that is fetched ahead to the last one drawn, the
  pixel of the plane in each place of `backgroundData`, and what each latch holds at each dot of a
  tile. Before the two tiles are complete the places left of the screen may hold anything: the
  shifts drop them. `TileIsInPlane` identifies the tile at v, its square of attributes and
  its row with the pixel at that position.
* `PPUSprites_proofs`: the counter of `loadSpriteData` is a recursive function. That it exists and
  counts (`CountExists`, `LoopCounts`) is proved without an induction theorem, which would take an
  operator: counting satisfies the recursion, and the least number of sprites for which another
  function differs from it cannot exist (`LeastNumber`). A tile taken upside down, in a sprite of one or
  two tiles, is the sprite upside down (`FetchesPicture`). So the loop fills the buffer with what
  `fetchSpriteGraphics` makes of the first sprites that cross the line, in OAM's order (`LoadsSource`,
  `SlotsInOrder`). That is their true picture in the pattern table wherever no horizontal flip has lost a
  colour (`LoadedIsPicture`), so that at such dots the first opaque sprite in the buffer is the first of OAM
  (`LoadedIsFrontmost`). `BufferHoldsSource` keeps the buffer so whatever the program
  does to OAM and PPUCTRL afterwards, and the inductive invariant `SpritesOK` adds to it
  the type invariant, the two flags and the dot just drawn. Assumed: `SpritesAssumption`.
* `Recording_proofs`: both logs are run-length codes, and one notion serves for both: runs tell a
  sequence of values from a position on (`Tells`) when there is, for every run, a place where it
  starts such that run after run covers the values to their end. No induction is needed: an operation
  adds, lengthens, shortens or drops a run at one end, and the places of the others stay
  (`TellsAnother`, `TellsLonger`, `TellsNext`, `TellsSkip`). `PixelInv` says for each phase which
  runs tell which pixels: those in the file with the one being collected, and later what is left of
  the current one with the rest of the file. A run counted in one byte or two is read back
  as it was written (`DecodedEncoded`), and no group looks like the end mark because colours are below
  `MAX`; both count boundaries are constants. `EndFound` follows from `PixelInv` alone. `InputInv` says
  the same of the two queues that `readAll` sorts the button log into; `readAll` is a recursive function, which is
  shown to exist and to push an appended entry last (`ReadAllOfMore`) through the least number of
  entries at which it would not (`LeastNumber`). Only the first entry of a queue may be of length 0
  (the session began with another input), so using one of an entry after loading at most once is right (`GivesNext`).
  `CompareOK` couples the two: as long as the inputs were the same the console draws the pixel that is
  read. `InputsReplayed` and `PixelsReadBack` have the hypothesis
  `NoGarbage`, that `marshal` does not start from a set bit; without it
  `MarshalGarbage.cfg` shows them false. All three have the hypothesis `SessionsDraw`, that a session draws a
  pixel before it is closed; without it `UndrawnSession.cfg` shows `EndFound` false. Assumed:
  `StreamAssumption` (a two-byte count holds more than a one-byte count) and
  `RecordingAssumption` (colours below `MAX`); the bounds on steps and pixels are arbitrary.

Every safety invariant and every action property of the runs is a theorem.

Only model-checked: liveness (`KeepsInterrupting`, `KeepsExecuting`, `ReplayEnds`, and the fairness in
`ImplementsVBlankNMI` and `DrivesPPU`), since the prover does not reach fairness or `ENABLED`.

The modules with theorems use no RECURSIVE operator.

## Not modelled

* The window, OpenGL and the logger: pure I/O, whose results are inputs here. glad is vendored.
* The loader parses a file once: what it gives (the number of pages, the mirroring) are constants
  and initial choices.
* The APU, which the emulator does not implement.
* Recordings that were killed: nothing in the repository says what a cut log should
  give, and after the failed read the signature is an uninitialised variable.
* What uninitialised RAM does to a program: `Recording` takes the console as deterministic,
  as the comment in `compare_interface.cpp` does.
