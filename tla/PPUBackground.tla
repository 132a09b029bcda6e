---------------------------- MODULE PPUBackground ----------------------------
(***************************************************************************)
(* The background as the PPU fetches and draws it (src/console/ppu.cpp).   *)
(*                                                                         *)
(* PPUScroll has the address of the tile under the dot.  Around it, at     *)
(* fixed dots of each tile, PPU::step fetches the four bytes that make the *)
(* tile's pixels into latches, and at the tile's last dot appends them to  *)
(* the pixels that wait to be drawn, two tiles ahead.                      *)
(*                                                                         *)
(* A byte is modelled as the place in memory it was fetched from, a pixel  *)
(* as the set of the bytes whose bits were or-ed into it.  Which pattern   *)
(* table PPUCTRL chooses is left out.                                      *)
(***************************************************************************)
EXTENDS PPUScroll

CONSTANTS
    NAME_DOT, ATTRIBUTE_DOT, LOW_DOT, HIGH_DOT,    \* dots of a tile (1, 3, 5, 7)
    ACCESS_DOTS      \* bound: dots after which the program accesses a register

ASSUME FetchAssumption ==
    /\ {NAME_DOT, ATTRIBUTE_DOT, LOW_DOT, HIGH_DOT} \subseteq 1..(FINE - 1)
    /\ NAME_DOT < LOW_DOT /\ NAME_DOT < HIGH_DOT
    /\ ACCESS_DOTS \subseteq Nat

VARIABLES
    nameTableByte, attributeTableByte,
    lowerTileByte, higherTileByte,
    backgroundData          \* the pixels that wait, two tiles of them

latches == <<nameTableByte, attributeTableByte, lowerTileByte, higherTileByte>>

backgroundVars == <<vars, latches, backgroundData>>

(* A byte that was not fetched, or is used up. *)
Zero == [tableY |-> Unknown, tableX |-> Unknown, y |-> Unknown, x |-> Unknown]

BackgroundInit ==
    /\ Init
    /\ nameTableByte = Zero
    /\ attributeTableByte = Zero
    /\ lowerTileByte = [tile |-> Zero, row |-> 0]
    /\ higherTileByte = [tile |-> Zero, row |-> 0]
    /\ backgroundData = [i \in 1..(2 * FINE) |-> {}]

-----------------------------------------------------------------------------
(* Fetching, at the address v.                                             *)

fetchNametableByte(v) ==
    [tableY |-> v.tableY, tableX |-> v.tableX, y |-> v.coarseY, x |-> v.coarseX]

(* A byte of attributes is about a square of 4 by 4 tiles.                 *)
fetchAttributeTableByte(v) ==
    [tableY |-> v.tableY, tableX |-> v.tableX, y |-> v.coarseY \div 4, x |-> v.coarseX \div 4]

(* The bytes of a row of a tile's pattern; both planes have the same form. *)
fetchTileByte(v) == [tile |-> nameTableByte, row |-> v.fineY]

IsFetchClock(c) == c \in 1..VISIBLE \cup PREFETCH_FIRST..PREFETCH_LAST

(* The two bits of the attributes for a group of 2 by 2 tiles.             *)
Quadrant(v) == [y |-> (v.coarseY \div 2) % 2, x |-> (v.coarseX \div 2) % 2]

Pixel(v, column) ==
    [attribute |-> attributeTableByte, quadrant |-> Quadrant(v),
     low |-> lowerTileByte, high |-> higherTileByte, column |-> column]

(* The oldest pixel is dropped at each dot that fetches.                   *)
Shifted == [i \in 1..(2 * FINE) |-> IF i < 2 * FINE THEN backgroundData[i + 1] ELSE {}]

(* loadBackgroundData ors a tile's pixels into the second half.            *)
loadBackgroundData_NextTile(v) ==
    [i \in 1..(2 * FINE) |->
        IF i > FINE THEN Shifted[i] \cup {Pixel(incrementHorizontalScroll(v), i - FINE - 1)}
                    ELSE Shifted[i]]

loadBackgroundData(v) ==
    [i \in 1..(2 * FINE) |->
        IF i > FINE THEN Shifted[i] \cup {Pixel(v, i - FINE - 1)} ELSE Shifted[i]]

-----------------------------------------------------------------------------
(* The dot c, before v moves on.                                           *)

At(c, dot) == c % FINE = dot

Fetch(c) ==
    LET v == currentVram
    IN  /\ nameTableByte' = IF At(c, NAME_DOT) THEN fetchNametableByte(v) ELSE nameTableByte
        /\ attributeTableByte' = IF At(c, ATTRIBUTE_DOT) THEN fetchAttributeTableByte(v)
                                                         ELSE attributeTableByte
        /\ lowerTileByte' = CASE At(c, LOW_DOT) -> fetchTileByte(v)
                              [] At(c, 0)       -> [tile |-> Zero, row |-> 0]
                              [] OTHER          -> lowerTileByte
        /\ higherTileByte' = CASE At(c, HIGH_DOT) -> fetchTileByte(v)
                               [] At(c, 0)        -> [tile |-> Zero, row |-> 0]
                               [] OTHER           -> higherTileByte
        /\ backgroundData' = IF At(c, 0) THEN loadBackgroundData(v) ELSE Shifted

BackgroundDot ==
    /\ Dot
    /\ IF rendering /\ IsFetchLine(scanLine') /\ IsFetchClock(clock')
       THEN Fetch(clock')
       ELSE UNCHANGED <<latches, backgroundData>>

BackgroundAccess ==
    /\ clock \in ACCESS_DOTS
    /\ Access
    /\ UNCHANGED <<latches, backgroundData>>

BackgroundNext == BackgroundDot \/ BackgroundAccess

BackgroundSpec == BackgroundInit /\ [][BackgroundNext]_backgroundVars

-----------------------------------------------------------------------------
(* Properties.                                                             *)

(* getBackgroundPixel: of the pixels that wait, fineScroll are left out.   *)
getBackgroundPixel == backgroundData[fineScroll + 1]

(* The pixel of the plane of name tables at a position in pixels.          *)
PlanePixel(x, y) ==
    LET column == x \div FINE
        row == y \div FINE
        tile == [tableY |-> row \div ROWS, tableX |-> column \div COARSE,
                 y |-> row % ROWS, x |-> column % COARSE]
        square == [tableY |-> tile.tableY, tableX |-> tile.tableX,
                   y |-> tile.y \div 4, x |-> tile.x \div 4]
        pattern == [tile |-> tile, row |-> y % FINE]
    IN  [attribute |-> square, quadrant |-> [y |-> (tile.y \div 2) % 2, x |-> (tile.x \div 2) % 2],
         low |-> pattern, high |-> pattern, column |-> x % FINE]

(* The pixel that is drawn at x, y of the screen is the one of the plane,  *)
(* x, y from the scroll position that was prepared: its tile, its row and  *)
(* column of the tile's pattern, the colours of its group of tiles, and    *)
(* nothing left of what was fetched before.  So two tiles ahead, across    *)
(* lines, tables and tiles cut by the fine scroll, whatever the program    *)
(* prepares meanwhile, and from the first line on after it hides and shows *)
(* the screen in the middle of a tile.                                     *)
DrawsPlane ==
    [][ /\ rendering /\ clock' # clock
        /\ scanLine' < POST_RENDER_SCAN_LINE /\ clock' \in 1..VISIBLE
        /\ originX # Unknown /\ originY # Unknown
        => getBackgroundPixel =
             {PlanePixel((originX * FINE + fineScroll + clock' - 1) % (2 * COARSE * FINE),
                         (originY + scanLine') % (2 * ROWS * FINE))} ]_backgroundVars
=============================================================================
