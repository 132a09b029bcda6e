----------------------------- MODULE PPUSprites -----------------------------
(***************************************************************************)
(* Sprites and the pixels that are drawn (src/console/ppu.cpp).            *)
(*                                                                         *)
(* After the visible dots of a line, loadSpriteData copies the first       *)
(* sprites of OAM that cross the next line to a buffer; renderPixel        *)
(* combines, at each dot, the buffer with a pixel of the background, and   *)
(* tells PPUSTATUS of sprite zero.  The program may write OAM, PPUMASK and *)
(* PPUCTRL between any two dots, and turn rendering off when the buffer    *)
(* would be filled.                                                        *)
(*                                                                         *)
(* The background is an input: any pixel at any dot.  A pattern table is a *)
(* constant, two bits a pixel.                                             *)
(***************************************************************************)
EXTENDS Integers, FiniteSets

CONSTANTS
    SIDE,                   \* pixels in a tile's side (8)
    WIDTH,                  \* dots of a line that are drawn (256)
    CLOCK_CYCLE,            \* dots in a line (341)
    POST_RENDER_SCAN_LINE,  \* the first line that is not drawn (240)
    PRE_RENDER_SCAN_LINE,   \* the last line of a frame (261)
    SPRITES,                \* sprites in OAM (64)
    LIMIT,                  \* sprites drawn on a line (8)
    XS, YS,                 \* positions of sprites
    LOOKS,                  \* how the sprites of a program may look
    ACCESS_DOTS,            \* dots after which the program accesses a register
    MAX_ACCESSES            \* bound: register accesses

ASSUME SpritesAssumption ==
    /\ {SIDE, WIDTH, LIMIT, SPRITES} \subseteq Nat \ {0}
    /\ {CLOCK_CYCLE, POST_RENDER_SCAN_LINE, PRE_RENDER_SCAN_LINE} \subseteq Nat
    /\ WIDTH + 1 < CLOCK_CYCLE
    /\ 0 < POST_RENDER_SCAN_LINE /\ POST_RENDER_SCAN_LINE < PRE_RENDER_SCAN_LINE
    /\ XS \subseteq Nat /\ YS \subseteq Nat /\ LOOKS \subseteq Nat
    /\ MAX_ACCESSES \in Nat

Indexes == 0..(SPRITES - 1)

VARIABLES
    clock, scanLine,        \* position of the current dot
    mask,                   \* PPUMASK
    spriteSizeFlag,         \* of PPUCTRL: sprites are two tiles high
    spriteTableFlag,        \* of PPUCTRL: the pattern table of other sprites
    oam,                    \* OAMDATA's data, four bytes a sprite
    buffer,                 \* the sprites loaded, each in its slot
    spriteZeroFlag, spriteOverflowFlag,    \* of PPUSTATUS
    accesses,               \* register accesses so far
    drawn,                  \* history: the latest dot drawn, if this is one
    source,                 \* history: what the buffer was loaded from
    overlapped, crowded,    \* history: what the flags should tell of this frame
    distorted               \* history: sprite zero was not its picture in this frame

registers == <<mask, spriteSizeFlag, spriteTableFlag, oam>>
outputs == <<buffer, spriteZeroFlag, spriteOverflowFlag>>
history == <<drawn, source, overlapped, crowded, distorted>>
vars == <<clock, scanLine, registers, outputs, accesses, history>>

Mask == [background : BOOLEAN, sprites : BOOLEAN,
         leftBackground : BOOLEAN, leftSprites : BOOLEAN]

(* A pixel has two bits of its own, 0 is transparent, and two of its       *)
(* palette; the palettes of the sprites come second.                       *)
Colours == 0..31
Opaque(colour) == colour % 4 # 0

Graphics == [0..(SIDE - 1) -> 0..15]

(* A sprite's tile and attributes keep the bits that matter here.          *)
Sprite == [y : Nat, tile : Nat, attributes : Nat, x : Nat]

TypeOK ==
    /\ clock \in 0..(CLOCK_CYCLE - 1)
    /\ scanLine \in 0..PRE_RENDER_SCAN_LINE
    /\ mask \in Mask
    /\ {spriteSizeFlag, spriteTableFlag, spriteZeroFlag, spriteOverflowFlag} \subseteq BOOLEAN
    /\ oam \in [Indexes -> Sprite]
    /\ \A s \in buffer :
           /\ s.slot \in 0..(LIMIT - 1) /\ s.index \in Indexes
           /\ s.graphics \in Graphics
    /\ drawn = {} \/ \E d \in drawn : drawn = {d} /\ d.colour \in Colours
    /\ accesses \in 0..MAX_ACCESSES

-----------------------------------------------------------------------------
(* OAM and patterns.                                                       *)

(* The bits of a sprite's third byte: palette, priority and flips.         *)
Palette(attributes) == attributes % 4
Behind(attributes) == (attributes \div 4) % 2 = 1
HorizontalFlip(attributes) == (attributes \div 8) % 2 = 1
VerticalFlip(attributes) == (attributes \div 16) % 2 = 1

(* The two planes of the pattern tables, with no symmetry in any tile.     *)
LowBit(table, tile, row, column) == (table + tile + row + 2 * column + row * column) % 2
HighBit(table, tile, row, column) == ((table + tile + 2 * row + column + 1) \div 2) % 2

(* The sprites of a program with a given look: any byte may be there.      *)
SpriteAt(look, n, x, y) ==
    [y |-> y, tile |-> (look + n) % 4, attributes |-> (look * (n + 1)) % 32, x |-> x]

-----------------------------------------------------------------------------
(* Loading (loadSpriteData, fetchSpriteGraphics).                          *)

Height == IF spriteSizeFlag THEN 2 * SIDE ELSE SIDE

(* The row of the sprite counts from its other end if it is flipped; a     *)
(* sprite of two tiles takes the tile after its own for the lower half, in *)
(* the table its lowest bit says.  A horizontal flip reads the high plane  *)
(* for both bits of a pixel.                                               *)
fetchSpriteGraphics_FlipsTiles(s, row) ==
    LET flipped == IF VerticalFlip(s.attributes) THEN SIDE - 1 - (row % SIDE) ELSE row % SIDE
        table   == IF spriteSizeFlag THEN s.tile % 2 ELSE IF spriteTableFlag THEN 1 ELSE 0
        tile    == IF spriteSizeFlag THEN s.tile - (s.tile % 2) + (row \div SIDE) ELSE s.tile
    IN  [column \in 0..(SIDE - 1) |->
            4 * Palette(s.attributes)
            + IF HorizontalFlip(s.attributes)
              THEN 3 * HighBit(table, tile, flipped, SIDE - 1 - column)
              ELSE 2 * HighBit(table, tile, flipped, column)
                     + LowBit(table, tile, flipped, column)]

fetchSpriteGraphics(s, row) ==
    LET flipped == IF VerticalFlip(s.attributes) THEN Height - 1 - row ELSE row
        table   == IF spriteSizeFlag THEN s.tile % 2 ELSE IF spriteTableFlag THEN 1 ELSE 0
        tile    == IF spriteSizeFlag
                   THEN s.tile - (s.tile % 2) + (IF flipped >= SIDE THEN 1 ELSE 0)
                   ELSE s.tile
        line    == IF flipped >= SIDE THEN flipped - SIDE ELSE flipped
    IN  [column \in 0..(SIDE - 1) |->
            4 * Palette(s.attributes)
            + IF HorizontalFlip(s.attributes)
              THEN 3 * HighBit(table, tile, line, SIDE - 1 - column)
              ELSE 2 * HighBit(table, tile, line, column)
                     + LowBit(table, tile, line, column)]

nextScanLine(current) == IF current = PRE_RENDER_SCAN_LINE THEN 0 ELSE current + 1

InRange(n, line) == oam[n].y <= line /\ line < oam[n].y + Height

(* The sprites counted on a line once the loop has seen the first n.       *)
spriteCount(line) ==
    LET count[n \in 0..SPRITES] ==
            IF n = 0 THEN 0
            ELSE IF InRange(n - 1, line) THEN count[n - 1] + 1 ELSE count[n - 1]
    IN  count

Keeps_All(slot) == TRUE

Keeps(slot) == slot < LIMIT

(* A sprite takes the slot that its predecessors left it.                  *)
Loaded(line) ==
    LET slot == spriteCount(line)
    IN  {[slot |-> slot[n], graphics |-> fetchSpriteGraphics(oam[n], line - oam[n].y),
          x |-> oam[n].x, behind |-> Behind(oam[n].attributes), index |-> n] :
             n \in {k \in Indexes : InRange(k, line) /\ Keeps(slot[k])}}

Overflows_AtLimit(line) == spriteCount(line)[SPRITES] >= LIMIT

Overflows(line) == spriteCount(line)[SPRITES] > LIMIT

(* Once set, the flag stays until the frame ends.                          *)
loadSpriteData(line) ==
    /\ buffer' = Loaded(line)
    /\ spriteOverflowFlag' = (spriteOverflowFlag \/ Overflows(line))

-----------------------------------------------------------------------------
(* Drawing (getBackgroundPixel, getSpritePixel, renderPixel).              *)

getBackgroundPixel(x, pixel) ==
    IF mask.background /\ (x >= SIDE \/ mask.leftBackground) THEN pixel ELSE 0

(* The sprites of the buffer that have an opaque pixel at x.               *)
Showing(x) ==
    {s \in buffer : x - s.x \in 0..(SIDE - 1) /\ Opaque(s.graphics[x - s.x])}

(* The sprite that shows at x, as a set: none if sprites are hidden.       *)
getSpritePixel(x) ==
    IF mask.sprites /\ (x >= SIDE \/ mask.leftSprites)
    THEN {s \in Showing(x) : \A t \in Showing(x) : s.slot <= t.slot} ELSE {}

Overlaps_AnySprite(x, sprite, background) == Opaque(background) /\ x < WIDTH - 1

Overlaps(x, sprite, background) ==
    sprite.index = 0 /\ Opaque(background) /\ x < WIDTH - 1

(* The first sprite decides, even if it is behind the background and       *)
(* another one is not.                                                     *)
Composed(x, background) ==
    LET front == {s \in getSpritePixel(x) : ~s.behind \/ ~Opaque(background)}
        sprite == CHOOSE s \in front : TRUE
    IN  IF front # {}             THEN 16 + sprite.graphics[x - sprite.x]
        ELSE IF Opaque(background) THEN background
        ELSE 0

renderPixel(pixel) ==
    LET x == clock' - 1
        background == getBackgroundPixel(x, pixel)
    IN  /\ spriteZeroFlag' = \/ spriteZeroFlag
                             \/ \E s \in getSpritePixel(x) : Overlaps(x, s, background)
        /\ drawn' = {[x |-> x, line |-> scanLine', pixel |-> pixel,
                      colour |-> Composed(x, background)]}

-----------------------------------------------------------------------------
(* A dot (PPU::step).                                                      *)

renderingEnabled == mask.background \/ mask.sprites

(* In odd frames the last dot is skipped, while rendering; which frames    *)
(* are odd is left open.                                                   *)
tick ==
    \/ /\ clock < CLOCK_CYCLE - 1
       /\ clock' = clock + 1 /\ UNCHANGED scanLine
    \/ /\ clock = CLOCK_CYCLE - 1
       /\ clock' = 0 /\ scanLine' = nextScanLine(scanLine)
    \/ /\ clock = CLOCK_CYCLE - 2 /\ scanLine = PRE_RENDER_SCAN_LINE /\ renderingEnabled
       /\ clock' = 0 /\ scanLine' = 0

(* Of the dot that tick leads to.                                          *)
IsVisible == scanLine' < POST_RENDER_SCAN_LINE /\ clock' \in 1..WIDTH

Loads ==
    /\ renderingEnabled /\ clock' = WIDTH + 1
    /\ scanLine' < POST_RENDER_SCAN_LINE \/ scanLine' = PRE_RENDER_SCAN_LINE

ClearsFlags == scanLine' = PRE_RENDER_SCAN_LINE /\ clock' = 1

-----------------------------------------------------------------------------
(* History.                                                                *)

(* The sprites that source shows on its line: the first ones that cross it.*)
SourceHeight == IF source.tall THEN 2 * SIDE ELSE SIDE

Crosses(n) == source.line - source.oam[n].y \in 0..(SourceHeight - 1)

InSource ==
    {n \in Indexes : Crosses(n) /\ Cardinality({m \in 0..(n - 1) : Crosses(m)}) < LIMIT}

(* The pixel of sprite n, dx to the right of its corner, of the picture    *)
(* the pattern table holds: flips exchange the halves of the whole sprite, *)
(* tiles included, and a pixel keeps both its bits.                        *)
Picture(n, dx) ==
    LET s  == source.oam[n]
        y  == source.line - s.y
        dy == IF VerticalFlip(s.attributes) THEN SourceHeight - 1 - y ELSE y
        table == IF source.tall THEN s.tile % 2 ELSE IF source.table THEN 1 ELSE 0
        tile  == IF source.tall THEN 2 * (s.tile \div 2) + (dy \div SIDE) ELSE s.tile
        column == IF HorizontalFlip(s.attributes) THEN SIDE - 1 - dx ELSE dx
    IN  2 * HighBit(table, tile, dy % SIDE, column) + LowBit(table, tile, dy % SIDE, column)

PictureShows(n, x) ==
    /\ n \in InSource
    /\ x - source.oam[n].x \in 0..(SIDE - 1)
    /\ Picture(n, x - source.oam[n].x) # 0

Front(n, x) == PictureShows(n, x) /\ \A m \in 0..(n - 1) : ~PictureShows(m, x)

(* A pixel that the code cannot load as it is (see FlipsMirror).           *)
Distorted(n, x) ==
    /\ n \in InSource /\ HorizontalFlip(source.oam[n].attributes)
    /\ x - source.oam[n].x \in 0..(SIDE - 1)
    /\ Picture(n, x - source.oam[n].x) \in {1, 2}

(* Sprite zero and the background are both seen at x, if not at the last   *)
(* one.  (No sprite comes before number 0.)                                *)
Meet(x, pixel, m) ==
    /\ m.background /\ m.sprites
    /\ x < SIDE => m.leftBackground /\ m.leftSprites
    /\ x # WIDTH - 1 /\ pixel # 0
    /\ PictureShows(0, x)

CountCrossing(line) ==
    Cardinality({n \in Indexes : \E dy \in 0..(Height - 1) : oam[n].y + dy = line})

Remember ==
    /\ source' = IF Loads THEN [oam |-> oam, tall |-> spriteSizeFlag, table |-> spriteTableFlag,
                                line |-> nextScanLine(scanLine'), any |-> TRUE]
                          ELSE source
    /\ crowded' = (~ClearsFlags /\ (crowded \/ (Loads /\ CountCrossing(nextScanLine(scanLine')) > LIMIT)))
    /\ overlapped' = /\ ~ClearsFlags
                     /\ \/ overlapped
                        \/ source.any /\ \E d \in drawn' : Meet(d.x, d.pixel, mask)
    /\ distorted' = /\ ~ClearsFlags
                    /\ distorted \/ (source.any /\ \E d \in drawn' : Distorted(0, d.x))

-----------------------------------------------------------------------------

(* Sprites that all stand in one place, or anywhere.                       *)
OneSpot == {[n \in Indexes |-> SpriteAt(look, n, x, y)] : look \in LOOKS, x \in XS, y \in YS}

Anywhere == {[n \in Indexes |-> SpriteAt(look, n, at[n][1], at[n][2])] :
                 look \in LOOKS, at \in [Indexes -> XS \X YS]}

AllShown == [background |-> TRUE, sprites |-> TRUE, leftBackground |-> TRUE, leftSprites |-> TRUE]

Init ==
    /\ clock = CLOCK_CYCLE - 1 /\ scanLine = PRE_RENDER_SCAN_LINE - 1
    /\ mask = AllShown
    /\ spriteSizeFlag \in BOOLEAN
    /\ spriteTableFlag = FALSE
    /\ oam \in Anywhere
    /\ buffer = {}
    /\ spriteZeroFlag = FALSE /\ spriteOverflowFlag = FALSE
    /\ accesses = 0
    /\ drawn = {}
    /\ source = [oam |-> oam, tall |-> FALSE, table |-> FALSE, line |-> 0, any |-> FALSE]
    /\ overlapped = FALSE /\ crowded = FALSE /\ distorted = FALSE

Dot ==
    /\ tick
    /\ IF renderingEnabled /\ IsVisible
       THEN \E pixel \in 0..1 : renderPixel(pixel)
       ELSE /\ spriteZeroFlag' = (spriteZeroFlag /\ ~ClearsFlags)
            /\ drawn' = {}
    /\ IF Loads
       THEN loadSpriteData(nextScanLine(scanLine'))
       ELSE /\ spriteOverflowFlag' = (spriteOverflowFlag /\ ~ClearsFlags)
            /\ UNCHANGED buffer
    /\ Remember
    /\ UNCHANGED <<registers, accesses>>

(* The registers, between two dots; OAM is written by OAMDATA or OAMDMA.   *)
writePPUMASK(value) ==
    mask' = value /\ UNCHANGED <<spriteSizeFlag, spriteTableFlag, oam>>

writePPUCTRL(tall, table) ==
    spriteSizeFlag' = tall /\ spriteTableFlag' = table /\ UNCHANGED <<mask, oam>>

upload(data) ==
    oam' = data /\ UNCHANGED <<mask, spriteSizeFlag, spriteTableFlag>>

Access ==
    /\ accesses < MAX_ACCESSES /\ clock \in ACCESS_DOTS
    /\ accesses' = accesses + 1
    /\ \/ \E value \in Mask : writePPUMASK(value)
       \/ \E tall, table \in BOOLEAN : writePPUCTRL(tall, table)
       \/ \E data \in OneSpot : upload(data)
    /\ drawn' = {}
    /\ UNCHANGED <<clock, scanLine, outputs, source, overlapped, crowded, distorted>>

Next == Dot \/ Access

Spec == Init /\ [][Next]_vars

-----------------------------------------------------------------------------
(* Properties.                                                             *)

(* What a dot should show.                                                 *)
ShowsFrontmost(d) ==
    LET background == IF mask.background /\ (d.x >= SIDE \/ mask.leftBackground)
                      THEN d.pixel ELSE 0
        sprites == mask.sprites /\ (d.x >= SIDE \/ mask.leftSprites) /\ source.any
    IN  IF sprites /\ \E n \in Indexes : Front(n, d.x)
        THEN \E n \in Indexes :
                 LET s == source.oam[n]
                 IN  /\ Front(n, d.x)
                     /\ d.colour = IF Behind(s.attributes) /\ background # 0
                                   THEN background
                                   ELSE 16 + 4 * Palette(s.attributes)
                                           + Picture(n, d.x - s.x)
        ELSE d.colour = background

(* A dot shows the first sprite of OAM that has an opaque pixel there, of  *)
(* those that were loaded, as they were then: before the background, or    *)
(* where there is none, in the palette's second half; else the background. *)
(* Tall sprites, the limit, vertical flips and the side of horizontal ones *)
(* come out as the pattern table has them, and what the program does to    *)
(* OAM or PPUCTRL meanwhile, or hiding and showing the screen again,       *)
(* changes nothing of a line already loaded.  Not claimed where a sprite   *)
(* flipped horizontally has one of the colours 1 and 2, which the code     *)
(* loses: that is FlipsMirror.                                             *)
DrawsFrontmost ==
    \A d \in drawn : (\A n \in Indexes : ~Distorted(n, d.x)) => ShowsFrontmost(d)

(* A sprite that waits to be drawn has the picture of the pattern table,   *)
(* mirrored if it is flipped horizontally, both planes "combined" as the   *)
(* comment at ppu.cpp:574 says.  Violated: fetchSpriteGraphics reads both  *)
(* bits of a flipped pixel from the high plane, so that the colours 1 and  *)
(* 2 become 0 and 3.                                                       *)
FlipsMirror ==
    \A s \in buffer : \A column \in 0..(SIDE - 1) :
        s.graphics[column] % 4 = Picture(s.index, column)

(* The sprite zero flag is set exactly from the first dot at which an      *)
(* opaque pixel of sprite zero met one of the background until the frame   *)
(* ends, and never at the last dot of a line, whatever sprite is in front. *)
(* Not claimed from a dot on, until the frame ends, at which sprite zero   *)
(* lost its colour 1 or 2 to a horizontal flip (FlipsMirror).              *)
SpriteZeroTellsOverlap == ~distorted => spriteZeroFlag = overlapped

(* The overflow flag is set exactly if more sprites than the limit crossed *)
(* a line of this frame when it was loaded.  (That includes the line after *)
(* the last one, which is not drawn.)                                      *)
OverflowTellsCrowdedLine == spriteOverflowFlag = crowded
=============================================================================
