------------------------------ MODULE PPUScroll ------------------------------
(***************************************************************************)
(* The scroll registers of the PPU (src/console/ppu.cpp).                  *)
(*                                                                         *)
(* currentVram (v) is the address of the tile that is fetched next and,    *)
(* between frames, of the byte PPUDATA accesses.  temporaryVram (t) is     *)
(* where the program prepares a position, with pairs of writes to          *)
(* PPUSCROLL or PPUADDR that share one toggle.  While the screen is drawn, *)
(* PPU::step moves v along each line, copies its horizontal half from t at *)
(* the end of a line and its vertical half before the first.               *)
(*                                                                         *)
(* Both are 16 bits, modelled as their fields.  The widths of the fields   *)
(* follow from FINE, the pixels in a tile's side: 8 in the code, where a   *)
(* name table is 32 tiles wide and 30 rows high and a byte has 256 values. *)
(***************************************************************************)
EXTENDS Integers

CONSTANTS
    FINE,                              \* pixels in a tile's side (8)
    VISIBLE,                           \* dots of a line that are drawn (256)
    COPY_FIRST, COPY_LAST,             \* dots that copy the vertical half (280, 304)
    PREFETCH_FIRST, PREFETCH_LAST,     \* dots that fetch the next line's
                                       \* first tiles (321, 336)
    CLOCK_CYCLE,                       \* dots in a line (341)
    POST_RENDER_SCAN_LINE,             \* the first line that is not drawn (240)
    PRE_RENDER_SCAN_LINE,              \* the last line of a frame (261)
    VALUES,                            \* bytes the program writes
    MAX_ACCESSES                       \* bound: register accesses

COARSE == 4 * FINE           \* tiles in a name table's side, the hidden rows included
ROWS == COARSE - 2           \* rows that are shown
BYTE == 4 * FINE * FINE      \* values of a byte
HIGH == 8 * FINE             \* values of the first byte of PPUADDR (0x3f + 1)
RANGE == 8 * FINE * COARSE * COARSE      \* values of currentVram

ASSUME ScrollAssumption ==
    /\ FINE \in Nat \ {0}
    /\ VISIBLE \in Nat /\ VISIBLE % FINE = 0
    /\ {COPY_FIRST, COPY_LAST, PREFETCH_FIRST, CLOCK_CYCLE,
        POST_RENDER_SCAN_LINE, PRE_RENDER_SCAN_LINE} \subseteq Nat
    /\ VISIBLE + 1 < COPY_FIRST /\ COPY_FIRST <= COPY_LAST
    /\ COPY_LAST < PREFETCH_FIRST
    /\ (PREFETCH_FIRST - 1) % FINE = 0
    /\ PREFETCH_LAST = PREFETCH_FIRST - 1 + 2 * FINE
    /\ PREFETCH_LAST + 1 < CLOCK_CYCLE
    /\ 0 < POST_RENDER_SCAN_LINE /\ POST_RENDER_SCAN_LINE < PRE_RENDER_SCAN_LINE
    /\ VALUES \subseteq 0..(BYTE - 1)
    /\ MAX_ACCESSES \in Nat

VARIABLES
    clock, scanLine,             \* position of the current dot
    rendering,                   \* PPUMASK shows the background or the sprites
    incrementFlag,               \* PPUDATA advances by a row
    currentVram, temporaryVram,
    fineScroll,
    writeToggle,
    accesses,                    \* register accesses so far
    first,                       \* history: the first write of a pair under way
    originX, originY             \* history: the position copied for this line
                                 \* and for this frame, if drawing is undisturbed

registers == <<currentVram, temporaryVram, fineScroll, writeToggle>>

vars == <<clock, scanLine, rendering, incrementFlag, registers,
          accesses, first, originX, originY>>

Address == [top : 0..1, fineY : 0..(FINE - 1), tableY : 0..1, tableX : 0..1,
            coarseY : 0..(COARSE - 1), coarseX : 0..(COARSE - 1)]

Unknown == -1

NoPair == [register |-> "none", value |-> 0]

TypeOK ==
    /\ clock \in 0..(CLOCK_CYCLE - 1)
    /\ scanLine \in 0..PRE_RENDER_SCAN_LINE
    /\ rendering \in BOOLEAN
    /\ incrementFlag \in BOOLEAN
    /\ currentVram \in Address
    /\ temporaryVram \in Address /\ temporaryVram.top = 0
    /\ fineScroll \in 0..(FINE - 1)
    /\ writeToggle \in BOOLEAN
    /\ accesses \in 0..MAX_ACCESSES
    /\ first \in [register : {"none", "scroll", "addr", "addrAndCtrl"},
                  value : 0..(BYTE - 1)]
    /\ originX \in (0..(2 * COARSE - 1)) \cup {Unknown}
    /\ originY \in (0..(2 * ROWS * FINE - 1)) \cup {Unknown}

(* An address as the 16-bit number it is, and back.                        *)
Number(a) ==
    ((((a.top * FINE + a.fineY) * 2 + a.tableY) * 2 + a.tableX) * COARSE
        + a.coarseY) * COARSE + a.coarseX

AddressOf(n) ==
    LET tables == n \div (COARSE * COARSE)
    IN  [coarseX |-> n % COARSE,
         coarseY |-> (n \div COARSE) % COARSE,
         tableX  |-> tables % 2,
         tableY  |-> (tables \div 2) % 2,
         fineY   |-> (tables \div 4) % FINE,
         top     |-> (tables \div (4 * FINE)) % 2]

Init ==
    /\ clock = CLOCK_CYCLE - 1
    /\ scanLine = POST_RENDER_SCAN_LINE
    /\ rendering = FALSE
    /\ incrementFlag = FALSE
    /\ currentVram = AddressOf(0)
    /\ temporaryVram = AddressOf(0)
    /\ fineScroll = 0
    /\ writeToggle = FALSE
    /\ accesses = 0
    /\ first = NoPair
    /\ originX = Unknown
    /\ originY = Unknown

-----------------------------------------------------------------------------
(* What a dot does to v.                                                   *)

incrementHorizontalScroll_OneTable(v) ==
    [v EXCEPT !.coarseX = (v.coarseX + 1) % COARSE]

(* Past the last tile, the first one of the other table. *)
incrementHorizontalScroll(v) ==
    IF v.coarseX = COARSE - 1
    THEN [v EXCEPT !.coarseX = 0, !.tableX = 1 - v.tableX]
    ELSE [v EXCEPT !.coarseX = v.coarseX + 1]

(* Past the last row that is shown, the first one of the other table; the  *)
(* two hidden rows lead back to the first row of the same table.           *)
NextRow_ShownOnly(v) ==
    IF v.coarseY = ROWS - 1 THEN [v EXCEPT !.coarseY = 0, !.tableY = 1 - v.tableY]
                            ELSE [v EXCEPT !.coarseY = v.coarseY + 1]

NextRow(v) ==
    CASE v.coarseY = ROWS - 1   -> [v EXCEPT !.coarseY = 0, !.tableY = 1 - v.tableY]
      [] v.coarseY = COARSE - 1 -> [v EXCEPT !.coarseY = 0]
      [] OTHER                  -> [v EXCEPT !.coarseY = v.coarseY + 1]

incrementVerticalScroll(v) ==
    IF v.fineY < FINE - 1 THEN [v EXCEPT !.fineY = v.fineY + 1]
                          ELSE [NextRow(v) EXCEPT !.fineY = 0]

copyHorizontalScroll(v, t) ==
    [v EXCEPT !.tableX = t.tableX, !.coarseX = t.coarseX]

copyVerticalScroll(v, t) ==
    [v EXCEPT !.fineY = t.fineY, !.tableY = t.tableY, !.coarseY = t.coarseY]

IsFetchLine(line) ==
    line < POST_RENDER_SCAN_LINE \/ line = PRE_RENDER_SCAN_LINE

(* Tiles are loaded, and v moved on, at the last dot of each. *)
LoadsTile(c) ==
    /\ c % FINE = 0
    /\ c \in 1..VISIBLE \cup PREFETCH_FIRST..PREFETCH_LAST

CopiesVertical(c, line) ==
    line = PRE_RENDER_SCAN_LINE /\ c \in COPY_FIRST..COPY_LAST

CopiesHorizontal(c, line) == IsFetchLine(line) /\ c = VISIBLE + 1

(* v after the dot c of a line, while rendering. *)
Scrolled(v, c, line) ==
    LET tile == IF IsFetchLine(line) /\ LoadsTile(c)
                THEN incrementHorizontalScroll(v) ELSE v
        row  == IF IsFetchLine(line) /\ c = VISIBLE
                THEN incrementVerticalScroll(tile) ELSE tile
        side == IF CopiesHorizontal(c, line)
                THEN copyHorizontalScroll(row, temporaryVram) ELSE row
    IN  IF CopiesVertical(c, line)
        THEN copyVerticalScroll(side, temporaryVram) ELSE side

(* A position in pixels of the plane of name tables, horizontally in tiles.*)
TileX(a) == a.tableX * COARSE + a.coarseX
PixelY(a) == (a.tableY * ROWS + a.coarseY) * FINE + a.fineY

(* The last dot of a frame is skipped in odd frames, while rendering;      *)
(* which frames are odd is left open.                                      *)
tick ==
    \/ /\ clock = CLOCK_CYCLE - 1
       /\ clock' = 0
       /\ scanLine' = (scanLine + 1) % (PRE_RENDER_SCAN_LINE + 1)
    \/ /\ clock = CLOCK_CYCLE - 2 /\ scanLine = PRE_RENDER_SCAN_LINE /\ rendering
       /\ clock' = 0 /\ scanLine' = 0
    \/ /\ clock < CLOCK_CYCLE - 1
       /\ clock' = clock + 1 /\ UNCHANGED scanLine

KnownOrigins ==
    /\ originX' = IF rendering /\ CopiesHorizontal(clock', scanLine')
                  THEN TileX(temporaryVram) ELSE originX
    /\ originY' = IF rendering /\ CopiesVertical(clock', scanLine')
                  THEN IF temporaryVram.coarseY < ROWS
                       THEN PixelY(temporaryVram) ELSE Unknown
                  ELSE originY

Dot ==
    /\ tick
    /\ currentVram' = IF rendering THEN Scrolled(currentVram, clock', scanLine')
                                   ELSE currentVram
    /\ KnownOrigins
    /\ UNCHANGED <<rendering, incrementFlag, temporaryVram, fineScroll,
                   writeToggle, accesses, first>>

-----------------------------------------------------------------------------
(* The registers, as the program accesses them between two dots.           *)

Undisturbed == UNCHANGED <<originX, originY>>

Disturbs == originX' = Unknown /\ originY' = Unknown

(* The table bits and the increment flag of a byte.                        *)
BitX(value) == value % 2
BitY(value) == (value \div 2) % 2
ByRow(value) == (value \div 4) % 2 = 1

(* PPUCTRL adds the table bits to those of t and clears two others: bits 8 *)
(* to 11, which the first byte of a PPUADDR pair under way went to.        *)
writePPUCTRL(value) ==
    /\ temporaryVram' = [temporaryVram EXCEPT
                             !.coarseY = @ % FINE,
                             !.tableX = IF BitX(value) = 1 THEN 1 ELSE @,
                             !.tableY = IF BitY(value) = 1 THEN 1 ELSE @]
    /\ incrementFlag' = ByRow(value)
    /\ first' = IF first.register = "addr"
                THEN [first EXCEPT !.register = "addrAndCtrl"] ELSE first
    /\ UNCHANGED <<rendering, currentVram, fineScroll, writeToggle>>
    /\ Undisturbed

writePPUMASK(show) ==
    /\ rendering' = show
    /\ UNCHANGED <<incrementFlag, registers, first>>
    /\ IF show THEN Undisturbed ELSE Disturbs

readPPUSTATUS_KeepsToggle ==
    /\ first' = NoPair
    /\ UNCHANGED <<rendering, incrementFlag, registers>>
    /\ Undisturbed

readPPUSTATUS ==
    /\ writeToggle' = FALSE
    /\ first' = NoPair
    /\ UNCHANGED <<rendering, incrementFlag, currentVram, temporaryVram, fineScroll>>
    /\ Undisturbed

(* What the program has in mind: the next write completes a pair, or       *)
(* begins one.                                                             *)
Pair(register, value) ==
    first' = IF first = NoPair THEN [register |-> register, value |-> value]
                               ELSE NoPair

writePPUSCROLL(value) ==
    /\ \/ /\ writeToggle
          /\ temporaryVram' = [temporaryVram EXCEPT !.top = 0,
                                                    !.fineY = value % FINE,
                                                    !.coarseY = value \div FINE]
          /\ writeToggle' = FALSE
          /\ UNCHANGED fineScroll
       \/ /\ ~writeToggle
          /\ temporaryVram' = [temporaryVram EXCEPT !.coarseX = value \div FINE]
          /\ fineScroll' = value % FINE
          /\ writeToggle' = TRUE
    /\ Pair("scroll", value)
    /\ UNCHANGED <<rendering, incrementFlag, currentVram>>
    /\ Undisturbed

writePPUADDR(value) ==
    /\ \/ /\ writeToggle
          /\ temporaryVram' =
                 AddressOf((Number(temporaryVram) \div BYTE) * BYTE + value)
          /\ currentVram' = temporaryVram'
          /\ writeToggle' = FALSE
          /\ Disturbs
       \/ /\ ~writeToggle
          /\ temporaryVram' =
                 AddressOf((value % HIGH) * BYTE + (Number(temporaryVram) % BYTE))
          /\ writeToggle' = TRUE
          /\ UNCHANGED currentVram
          /\ Undisturbed
    /\ Pair("addr", value)
    /\ UNCHANGED <<rendering, incrementFlag, fineScroll>>

(* PPUDATA::read and write move on alike, on 16 bits. *)
accessPPUDATA ==
    /\ currentVram' = AddressOf((Number(currentVram)
                                  + (IF incrementFlag THEN COARSE ELSE 1)) % RANGE)
    /\ UNCHANGED <<rendering, incrementFlag, temporaryVram, fineScroll,
                   writeToggle, first>>
    /\ Disturbs

Access ==
    /\ accesses < MAX_ACCESSES
    /\ accesses' = accesses + 1
    /\ UNCHANGED <<clock, scanLine>>
    /\ \/ \E value \in VALUES :
              writePPUCTRL(value) \/ writePPUSCROLL(value) \/ writePPUADDR(value)
       \/ \E show \in BOOLEAN : writePPUMASK(show)
       \/ readPPUSTATUS
       \/ accessPPUDATA

Next == Dot \/ Access

Spec == Init /\ [][Next]_vars

-----------------------------------------------------------------------------
(* Properties.                                                             *)

(* Tiles of the coming line that were loaded since its horizontal copy.    *)
TilesLoaded ==
    IF ~IsFetchLine(scanLine) \/ clock > PREFETCH_LAST THEN 2
    ELSE IF clock <= VISIBLE       THEN 2 + clock \div FINE
    ELSE IF clock < PREFETCH_FIRST THEN 0
    ELSE (clock + 1 - PREFETCH_FIRST) \div FINE

(* Lines done since the vertical copy of this frame. *)
LinesDone ==
    LET passed == IF clock < VISIBLE THEN 0 ELSE 1
    IN  IF scanLine < POST_RENDER_SCAN_LINE    THEN scanLine + passed
        ELSE IF scanLine # PRE_RENDER_SCAN_LINE THEN POST_RENDER_SCAN_LINE
        ELSE IF clock < COPY_FIRST              THEN POST_RENDER_SCAN_LINE + passed
        ELSE 0

(* The k-th tile of line y comes from the plane's tile k to the right of,  *)
(* and pixel row y below, the scroll position, across the borders of the   *)
(* tables: whatever the program prepares in t meanwhile, a line is shown   *)
(* where t was when the line before ended, and a frame where t was before  *)
(* its first line.                                                         *)
DrawsAtScroll ==
    /\ originX # Unknown =>
           TileX(currentVram) = (originX + TilesLoaded) % (2 * COARSE)
    /\ originY # Unknown =>
           PixelY(currentVram) = (originY + LinesDone) % (2 * ROWS * FINE)

(* A pair of writes means what the program wrote, whatever was drawn and   *)
(* whatever else was accessed between the two: the bytes of a pair to      *)
(* PPUSCROLL are the position in pixels within its table, those of a pair  *)
(* to PPUADDR the address PPUDATA accesses.  A write to PPUCTRL between    *)
(* the bytes of an address leaves the position of a PPUSCROLL pair alone,  *)
(* but owns bits 8 to 11 of the address then (see CtrlReplacesTable for    *)
(* what it does to them): the pair keeps its other bits.  A read of        *)
(* PPUSTATUS ends a pair, and two writes to different registers are none.  *)
PairTakesEffect ==
    [][\A value \in VALUES :
        /\ first.register = "scroll" /\ writePPUSCROLL(value) =>
               /\ temporaryVram'.coarseX * FINE + fineScroll' = first.value
               /\ temporaryVram'.coarseY * FINE + temporaryVram'.fineY = value
        /\ first.register = "addr" /\ writePPUADDR(value) =>
               Number(currentVram') = (first.value % HIGH) * BYTE + value
        /\ first.register = "addrAndCtrl" /\ writePPUADDR(value) =>
               /\ Number(currentVram') % BYTE = value
               /\ Number(currentVram') \div (BYTE * 16)
                      = (first.value % HIGH) \div 16]_vars

(* "t: ...BA.. ........ = d: ......BA": PPUCTRL replaces the table bits of *)
(* t and leaves the others alone.                                          *)
CtrlReplacesTable ==
    [][\A value \in VALUES : writePPUCTRL(value) =>
        temporaryVram' = [temporaryVram EXCEPT !.tableX = BitX(value),
                                               !.tableY = BitY(value)]]_vars
=============================================================================
