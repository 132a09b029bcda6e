------------------------- MODULE PPUSprites_proofs -------------------------
(***************************************************************************)
(* Proofs about PPUSprites: the sprites that are loaded for a line, for    *)
(* any number of them, any size of a tile and any limit.                   *)
(***************************************************************************)
EXTENDS PPUSprites, FiniteSetTheorems, WellFoundedInduction, TLAPS

-----------------------------------------------------------------------------
(* Arithmetic, sets of numbers.                                            *)

LEMMA SizesAreNumbers ==
    /\ SIDE \in Nat \ {0} /\ WIDTH \in Nat \ {0}
    /\ LIMIT \in Nat \ {0} /\ SPRITES \in Nat \ {0}
    /\ CLOCK_CYCLE \in Nat /\ POST_RENDER_SCAN_LINE \in Nat /\ PRE_RENDER_SCAN_LINE \in Nat
    /\ WIDTH + 1 < CLOCK_CYCLE
    /\ 0 < POST_RENDER_SCAN_LINE /\ POST_RENDER_SCAN_LINE < PRE_RENDER_SCAN_LINE
BY SpritesAssumption

(* A set of numbers that is not empty has a least one: what the proofs by  *)
(* induction below rest on.                                                *)
LEMMA LeastNumber ==
    ASSUME NEW T, T \subseteq Nat, T # {}
    PROVE  \E m \in T : \A k \in T : m <= k
<1> DEFINE R == {ss \in Nat \X Nat : ss[1] < ss[2]}
<1>1. IsWellFoundedOn(R, Nat)
  BY NatLessThanWellFounded, Zenon DEF OpToRel
<1>2. \E m \in T : \A k \in T : ~(<<k, m>> \in R)
  <2> HIDE DEF R
  <2> QED  BY <1>1, WFMin, Zenon
<1>3. \A a, b \in Nat : a < b => <<a, b>> \in R
  OBVIOUS
<1> HIDE DEF R
<1>4. PICK m \in T : \A k \in T : ~(<<k, m>> \in R)
  BY <1>2, Zenon
<1>5. ASSUME NEW k \in T PROVE m <= k
  <2>1. ~(<<k, m>> \in R) /\ k \in Nat /\ m \in Nat
    BY <1>4, Zenon
  <2>2. ~(k < m)
    BY <1>3, <2>1, Zenon
  <2> QED
    BY <2>1, <2>2
<1> QED
  BY <1>5

LEMMA RemainderInRange ==
    ASSUME NEW n \in Nat, NEW d \in Nat \ {0}
    PROVE  n % d \in 0..(d - 1)
OBVIOUS

(* A row of a sprite that is one or two tiles high.                        *)
LEMMA RowOfTwoTiles ==
    ASSUME NEW d \in Nat \ {0}, NEW row \in 0..(2 * d - 1)
    PROVE  /\ row \div d = IF row >= d THEN 1 ELSE 0
           /\ row % d = IF row >= d THEN row - d ELSE row
OBVIOUS

LEMMA BitsOfPixels ==
    ASSUME NEW table \in Nat, NEW tile \in Nat, NEW row \in Nat, NEW column \in Nat
    PROVE  /\ LowBit(table, tile, row, column) \in 0..1
           /\ HighBit(table, tile, row, column) \in 0..1
<1>1. row * column \in Nat
  OBVIOUS
<1> DEFINE low == table + tile + row + 2 * column + row * column
           high == table + tile + 2 * row + column + 1
<1>2. low \in Nat /\ high \in Nat
  BY <1>1
<1> HIDE DEF low, high
<1>3. low % 2 \in 0..1 /\ (high \div 2) % 2 \in 0..1
  BY <1>2
<1> QED
  BY <1>3 DEF LowBit, HighBit, low, high
-----------------------------------------------------------------------------
(* What the loop of loadSpriteData counts.                                 *)

Before(n, line) == {m \in 0..(n - 1) : InRange(m, line)}

LEMMA BeforeGrows ==
    ASSUME NEW line, NEW n \in Nat
    PROVE  /\ IsFiniteSet(Before(n, line)) /\ Cardinality(Before(n, line)) \in Nat
           /\ Cardinality(Before(n + 1, line)) =
                  IF InRange(n, line) THEN Cardinality(Before(n, line)) + 1
                                      ELSE Cardinality(Before(n, line))
           /\ Cardinality(Before(0, line)) = 0
<1>1. IsFiniteSet(0..(n - 1))
  BY FS_Interval
<1>2. IsFiniteSet(Before(n, line)) /\ Cardinality(Before(n, line)) \in Nat
  <2>1. Before(n, line) \in SUBSET (0..(n - 1))
    BY DEF Before
  <2> QED
    BY <1>1, <2>1, FS_Subset, FS_CardinalityType
<1>3. n \notin Before(n, line)
  BY DEF Before
<1>4. Before(n + 1, line) = IF InRange(n, line) THEN Before(n, line) \cup {n} ELSE Before(n, line)
  BY DEF Before
<1>5. Cardinality(Before(n, line) \cup {n}) = Cardinality(Before(n, line)) + 1
  BY <1>2, <1>3, FS_AddElement
<1>6. Before(0, line) = {}
  BY DEF Before
<1> QED
  BY <1>2, <1>4, <1>5, <1>6, FS_EmptySet

(* The recursive function of spriteCount exists, because counting is one   *)
(* such function.                                                          *)
LEMMA CountExists ==
    ASSUME NEW line
    PROVE  spriteCount(line) =
               [n \in 0..SPRITES |->
                   IF n = 0 THEN 0
                   ELSE IF InRange(n - 1, line) THEN spriteCount(line)[n - 1] + 1
                        ELSE spriteCount(line)[n - 1]]
<1> DEFINE F(f) == [n \in 0..SPRITES |->
                       IF n = 0 THEN 0
                       ELSE IF InRange(n - 1, line) THEN f[n - 1] + 1 ELSE f[n - 1]]
           c == [n \in 0..SPRITES |-> Cardinality(Before(n, line))]
<1>1. c = F(c)
  <2> SUFFICES ASSUME NEW n \in 0..SPRITES
               PROVE  c[n] = IF n = 0 THEN 0
                             ELSE IF InRange(n - 1, line) THEN c[n - 1] + 1 ELSE c[n - 1]
    OBVIOUS
  <2>1. CASE n = 0
    BY <2>1, BeforeGrows
  <2>2. CASE n # 0
    <3>1. n - 1 \in Nat /\ n - 1 \in 0..SPRITES /\ (n - 1) + 1 = n
      BY <2>2, SizesAreNumbers
    <3>2. c[n] = Cardinality(Before((n - 1) + 1, line)) /\ c[n - 1] = Cardinality(Before(n - 1, line))
      BY <3>1
    <3> QED
      BY <2>2, <3>1, <3>2, BeforeGrows
  <2> QED
    BY <2>1, <2>2
<1> HIDE DEF c
<1>2. spriteCount(line) = CHOOSE f : f = F(f)
  BY DEF spriteCount
<1> HIDE DEF F
<1>3. spriteCount(line) = F(spriteCount(line))
  BY <1>1, <1>2, Zenon
<1> QED
  BY <1>3 DEF F

(* It is the only one: the loop counts.                                    *)
LEMMA LoopCounts ==
    ASSUME NEW line, NEW n \in 0..SPRITES
    PROVE  spriteCount(line)[n] = Cardinality(Before(n, line))
<1> DEFINE f == spriteCount(line)
           T == {k \in 0..SPRITES : f[k] # Cardinality(Before(k, line))}
<1>1. \A k \in 0..SPRITES :
          f[k] = IF k = 0 THEN 0
                 ELSE IF InRange(k - 1, line) THEN f[k - 1] + 1 ELSE f[k - 1]
  <2> DEFINE G == [k \in 0..SPRITES |-> IF k = 0 THEN 0
                     ELSE IF InRange(k - 1, line) THEN f[k - 1] + 1 ELSE f[k - 1]]
  <2>1. f = G
    BY CountExists
  <2>2. \A k \in 0..SPRITES : G[k] = IF k = 0 THEN 0
                     ELSE IF InRange(k - 1, line) THEN f[k - 1] + 1 ELSE f[k - 1]
    BY Zenon
  <2> HIDE DEF f, G
  <2> QED
    BY <2>1, <2>2, Zenon
<1> HIDE DEF f
<1>2. ASSUME T # {} PROVE FALSE
  <2>1. T \subseteq Nat
    BY SizesAreNumbers
  <2>2. PICK m \in T : \A k \in T : m <= k
    BY <1>2, <2>1, LeastNumber
  <2>3. m \in 0..SPRITES /\ f[m] # Cardinality(Before(m, line))
    OBVIOUS
  <2>4. CASE m = 0
    BY <1>1, <2>3, <2>4, BeforeGrows
  <2>5. CASE m # 0
    <3>1. m - 1 \in Nat /\ m - 1 \in 0..SPRITES /\ (m - 1) + 1 = m /\ ~(m <= m - 1)
      BY <2>3, <2>5, SizesAreNumbers
    <3>2. f[m - 1] = Cardinality(Before(m - 1, line))
      BY <2>2, <3>1
    <3>3. Cardinality(Before((m - 1) + 1, line)) =
              IF InRange(m - 1, line) THEN Cardinality(Before(m - 1, line)) + 1
                                      ELSE Cardinality(Before(m - 1, line))
      BY <3>1, BeforeGrows
    <3> QED
      BY <1>1, <2>3, <2>5, <3>1, <3>2, <3>3
  <2> QED
    BY <2>4, <2>5
<1> QED
  BY <1>2 DEF f
(* What the code loads: a sprite flipped horizontally has the high plane   *)
(* for both bits of a pixel.                                               *)
SourcePixel(n, dx) ==
    IF HorizontalFlip(source.oam[n].attributes) THEN 3 * (Picture(n, dx) \div 2)
                                                ELSE Picture(n, dx)

SourceShows(n, x) ==
    /\ n \in InSource
    /\ x - source.oam[n].x \in 0..(SIDE - 1)
    /\ SourcePixel(n, x - source.oam[n].x) # 0

LoadedFront(n, x) == SourceShows(n, x) /\ \A m \in 0..(n - 1) : ~SourceShows(m, x)

(* What a dot shows of what was loaded.                                    *)
ShowsLoaded(d) ==
    LET background == IF mask.background /\ (d.x >= SIDE \/ mask.leftBackground)
                      THEN d.pixel ELSE 0
        sprites == mask.sprites /\ (d.x >= SIDE \/ mask.leftSprites) /\ source.any
    IN  IF sprites /\ \E n \in Indexes : LoadedFront(n, d.x)
        THEN \E n \in Indexes :
                 LET s == source.oam[n]
                 IN  /\ LoadedFront(n, d.x)
                     /\ d.colour = IF Behind(s.attributes) /\ background # 0
                                   THEN background
                                   ELSE 16 + 4 * Palette(s.attributes)
                                           + SourcePixel(n, d.x - s.x)
        ELSE d.colour = background

DrawsLoaded == \A d \in drawn : ShowsLoaded(d)

(* The buffer holds the sprites of the line it was loaded for, each with   *)
(* its picture, in slots in the order of OAM: why what happens to OAM and  *)
(* PPUCTRL later does not matter.                                          *)
SourceRecord(n) ==
    LET s == source.oam[n]
    IN  [slot |-> Cardinality({m \in 0..(n - 1) : Crosses(m)}),
         graphics |-> [dx \in 0..(SIDE - 1) |-> 4 * Palette(s.attributes) + SourcePixel(n, dx)],
         x |-> s.x, behind |-> Behind(s.attributes), index |-> n]

BufferHoldsSource ==
    buffer = IF source.any THEN {SourceRecord(n) : n \in InSource} ELSE {}
Source == [oam : [Indexes -> Sprite], tall : BOOLEAN, table : BOOLEAN,
           line : Nat, any : BOOLEAN]

LEMMA AttributesOfSprites ==
    ASSUME NEW attributes \in Nat
    PROVE  /\ Palette(attributes) \in 0..3
           /\ {Behind(attributes), HorizontalFlip(attributes), VerticalFlip(attributes)}
                  \subseteq BOOLEAN
BY DEF Palette, Behind, HorizontalFlip, VerticalFlip

(* A pixel of a sprite that crosses the line. *)
LEMMA PictureTyped ==
    ASSUME source \in Source, NEW n \in Indexes, Crosses(n), NEW dx \in 0..(SIDE - 1)
    PROVE  Picture(n, dx) \in 0..3
<1> DEFINE s  == source.oam[n]
           y  == source.line - s.y
           dy == IF VerticalFlip(s.attributes) THEN SourceHeight - 1 - y ELSE y
           table == IF source.tall THEN s.tile % 2 ELSE IF source.table THEN 1 ELSE 0
           tile  == IF source.tall THEN 2 * (s.tile \div 2) + (dy \div SIDE) ELSE s.tile
           column == IF HorizontalFlip(s.attributes) THEN SIDE - 1 - dx ELSE dx
<1>1. s \in Sprite /\ source.line \in Nat /\ source.tall \in BOOLEAN
  BY DEF Source
<1>2. SourceHeight \in Nat /\ y \in 0..(SourceHeight - 1) /\ SIDE \in Nat \ {0}
  BY <1>1, SizesAreNumbers DEF SourceHeight, Crosses, Sprite
<1>3. dy \in Nat
  BY <1>2
<1> HIDE DEF dy, y
<1>4. dy % SIDE \in Nat /\ dy \div SIDE \in Nat
  BY <1>2, <1>3
<1>5. s.tile \in Nat /\ s.tile % 2 \in Nat /\ 2 * (s.tile \div 2) \in Nat
  BY <1>1 DEF Sprite
<1>6. table \in Nat /\ tile \in Nat
  BY <1>4, <1>5
<1>7. column \in Nat
  BY <1>2
<1> DEFINE high == HighBit(table, tile, dy % SIDE, column)
           low == LowBit(table, tile, dy % SIDE, column)
<1>8. Picture(n, dx) = 2 * high + low
  BY DEF Picture, dy, y
<1> HIDE DEF table, tile, column, s
<1>9. high \in 0..1 /\ low \in 0..1
  BY <1>4, <1>6, <1>7, BitsOfPixels
<1> HIDE DEF high, low
<1> QED
  BY <1>8, <1>9

LEMMA SourcePixelTyped ==
    ASSUME source \in Source, NEW n \in Indexes, Crosses(n), NEW dx \in 0..(SIDE - 1)
    PROVE  SourcePixel(n, dx) \in 0..3
<1>1. Picture(n, dx) \in 0..3
  BY PictureTyped
<1> DEFINE p == Picture(n, dx)
<1>2. p \in 0..3
  BY <1>1
<1> HIDE DEF p
<1>3. p \div 2 \in 0..1
  BY <1>2
<1>4. 3 * (p \div 2) \in 0..3
  BY <1>3
<1> QED
  BY <1>2, <1>4 DEF SourcePixel, p

(* Where the code puts a sprite upside down and picks the tile, the        *)
(* picture of the whole sprite is upside down.                             *)
LEMMA FetchesPicture ==
    ASSUME source' \in Source, NEW n \in Indexes, Crosses(n)',
           source'.oam = oam, source'.tall = spriteSizeFlag, source'.table = spriteTableFlag
    PROVE  fetchSpriteGraphics(oam[n], source'.line - oam[n].y) =
               [dx \in 0..(SIDE - 1) |->
                   4 * Palette(oam[n].attributes) + SourcePixel(n, dx)']
<1> DEFINE s  == oam[n]
           row == source'.line - s.y
           flipped == IF VerticalFlip(s.attributes) THEN Height - 1 - row ELSE row
           line    == IF flipped >= SIDE THEN flipped - SIDE ELSE flipped
           table   == IF spriteSizeFlag THEN s.tile % 2 ELSE IF spriteTableFlag THEN 1 ELSE 0
           tile    == IF spriteSizeFlag
                      THEN s.tile - (s.tile % 2) + (IF flipped >= SIDE THEN 1 ELSE 0)
                      ELSE s.tile
           tile2   == IF spriteSizeFlag THEN 2 * (s.tile \div 2) + (flipped \div SIDE) ELSE s.tile
<1>1. s \in Sprite /\ source'.line \in Nat /\ spriteSizeFlag \in BOOLEAN
  BY DEF Source
<1>2. SourceHeight' = Height /\ SIDE \in Nat \ {0} /\ Height \in Nat
  BY SizesAreNumbers DEF SourceHeight, Height
<1>3. row \in 0..(Height - 1)
  BY <1>2 DEF Crosses
<1>4. flipped \in 0..(Height - 1) /\ Height <= 2 * SIDE /\ (~spriteSizeFlag => Height = SIDE)
  BY <1>2, <1>3 DEF Height
<1> HIDE DEF flipped
<1>5. /\ flipped \div SIDE = IF flipped >= SIDE THEN 1 ELSE 0
      /\ flipped % SIDE = line
  <2>1. flipped \in 0..(2 * SIDE - 1)
    BY <1>2, <1>4
  <2> HIDE DEF line
  <2>2. /\ flipped \div SIDE = IF flipped >= SIDE THEN 1 ELSE 0
        /\ flipped % SIDE = IF flipped >= SIDE THEN flipped - SIDE ELSE flipped
    BY <1>2, <2>1, RowOfTwoTiles
  <2> QED
    BY <2>2 DEF line
<1>6. s.tile \in Nat
  BY <1>1 DEF Sprite
<1>7. tile = tile2
  <2>1. s.tile - (s.tile % 2) = 2 * (s.tile \div 2)
    BY <1>6
  <2> QED
    BY <1>5, <2>1
<1> HIDE DEF tile2, line, tile
<1>8. ASSUME NEW dx \in 0..(SIDE - 1)
      PROVE  SourcePixel(n, dx)' = IF HorizontalFlip(s.attributes)
                                   THEN 3 * HighBit(table, tile, line, SIDE - 1 - dx)
                                   ELSE 2 * HighBit(table, tile, line, dx)
                                          + LowBit(table, tile, line, dx)
  <2> DEFINE flip == HorizontalFlip(s.attributes)
             column == IF flip THEN SIDE - 1 - dx ELSE dx
             high == HighBit(table, tile, line, column)
             low == LowBit(table, tile, line, column)
  <2>1. Picture(n, dx)' = 2 * HighBit(table, tile2, flipped % SIDE, column)
                          + LowBit(table, tile2, flipped % SIDE, column)
    BY <1>2 DEF Picture, tile2, flipped
  <2>2. Picture(n, dx)' = 2 * high + low
    BY <1>5, <1>7, <2>1
  <2>3. high \in 0..1 /\ low \in 0..1
    <3>1. flipped % SIDE \in Nat /\ flipped \div SIDE \in Nat
      BY <1>2, <1>4
    <3>2. table \in Nat /\ tile2 \in Nat
      BY <1>6, <3>1 DEF tile2
    <3>3. column \in Nat
      BY <1>2
    <3> HIDE DEF table, column
    <3> QED
      BY <1>5, <1>7, <3>1, <3>2, <3>3, BitsOfPixels
  <2>4. SourcePixel(n, dx)' = IF flip THEN 3 * (Picture(n, dx)' \div 2) ELSE Picture(n, dx)'
    BY DEF SourcePixel
  <2>5. SourcePixel(n, dx)' = IF flip THEN 3 * high ELSE 2 * high + low
    <3> HIDE DEF flip, high, low
    <3>1. (2 * high + low) \div 2 = high
      BY <2>3
    <3> QED
      BY <2>2, <2>4, <3>1
  <2>6. CASE flip
    BY <2>5, <2>6, Zenon
  <2>7. CASE ~flip
    BY <2>5, <2>7, Zenon
  <2> QED
    BY <2>6, <2>7
<1>9. fetchSpriteGraphics(s, row) =
          [dx \in 0..(SIDE - 1) |->
              4 * Palette(s.attributes)
              + IF HorizontalFlip(s.attributes)
                THEN 3 * HighBit(table, tile, line, SIDE - 1 - dx)
                ELSE 2 * HighBit(table, tile, line, dx) + LowBit(table, tile, line, dx)]
  BY DEF fetchSpriteGraphics, line, tile, flipped
<1> DEFINE P(dx) == IF HorizontalFlip(s.attributes)
                    THEN 3 * HighBit(table, tile, line, SIDE - 1 - dx)
                    ELSE 2 * HighBit(table, tile, line, dx) + LowBit(table, tile, line, dx)
<1>10. \A dx \in 0..(SIDE - 1) : P(dx) = SourcePixel(n, dx)'
  BY <1>8, Zenon
<1>11. fetchSpriteGraphics(s, row) = [dx \in 0..(SIDE - 1) |-> 4 * Palette(s.attributes) + P(dx)]
  BY <1>9, Zenon
<1> HIDE DEF table, P
<1> QED
  BY <1>10, <1>11
(* The loop loads what the history says: the first sprites that cross the  *)
(* line, up to the limit.                                                  *)
LEMMA LoadsSource ==
    ASSUME source' \in Source,
           source'.oam = oam, source'.tall = spriteSizeFlag, source'.table = spriteTableFlag
    PROVE  Loaded(source'.line) = {SourceRecord(n)' : n \in InSource'}
<1> DEFINE line == source'.line
<1>1. line \in Nat /\ oam \in [Indexes -> Sprite]
  BY DEF Source
<1>2. SourceHeight' = Height /\ Height \in Nat
  BY SizesAreNumbers DEF SourceHeight, Height
<1>3. \A n \in Indexes : InRange(n, line) <=> Crosses(n)'
  BY <1>1, <1>2 DEF InRange, Crosses, Sprite
<1>4. ASSUME NEW n \in Indexes
      PROVE  /\ spriteCount(line)[n] = Cardinality({m \in 0..(n - 1) : Crosses(m)'})
             /\ n \in 0..SPRITES
  <2>1. n \in 0..SPRITES /\ 0..(n - 1) \subseteq Indexes
    BY SizesAreNumbers DEF Indexes
  <2>2. Before(n, line) = {m \in 0..(n - 1) : Crosses(m)'}
    BY <1>3, <2>1 DEF Before
  <2> QED
    BY <2>1, <2>2, LoopCounts
<1> DEFINE slot == spriteCount(line)
           Loads1(n) == [slot |-> slot[n], graphics |-> fetchSpriteGraphics(oam[n], line - oam[n].y),
                         x |-> oam[n].x, behind |-> Behind(oam[n].attributes), index |-> n]
<1>5. {n \in Indexes : InRange(n, line) /\ Keeps(slot[n])} = InSource'
  BY <1>3, <1>4 DEF InSource, Keeps
<1>6. ASSUME NEW n \in InSource'
      PROVE  Loads1(n) = SourceRecord(n)'
  <2>1. n \in Indexes /\ Crosses(n)'
    BY DEF InSource
  <2>2. fetchSpriteGraphics(oam[n], line - oam[n].y) =
            [dx \in 0..(SIDE - 1) |-> 4 * Palette(oam[n].attributes) + SourcePixel(n, dx)']
    BY <2>1, FetchesPicture
  <2>3. slot[n] = Cardinality({m \in 0..(n - 1) : Crosses(m)'})
    BY <1>4, <2>1
  <2> HIDE DEF slot, line
  <2> QED
    BY <2>2, <2>3 DEF SourceRecord
<1>7. Loaded(line) = {Loads1(n) : n \in {k \in Indexes : InRange(k, line) /\ Keeps(slot[k])}}
  BY DEF Loaded
<1> HIDE DEF Loads1, slot
<1> QED
  BY <1>5, <1>6, <1>7

(* More sprites than the limit, as the history counts them.                *)
LEMMA OverflowCounts ==
    ASSUME oam \in [Indexes -> Sprite], NEW line \in Nat
    PROVE  Overflows(line) <=> CountCrossing(line) > LIMIT
<1>1. spriteCount(line)[SPRITES] = Cardinality(Before(SPRITES, line))
  BY LoopCounts, SizesAreNumbers
<1>2. Height \in Nat
  BY SizesAreNumbers DEF Height
<1>3. \A n \in Indexes :
          InRange(n, line) <=> \E dy \in 0..(Height - 1) : oam[n].y + dy = line
  <2> SUFFICES ASSUME NEW n \in Indexes
               PROVE  InRange(n, line) <=> \E dy \in 0..(Height - 1) : oam[n].y + dy = line
    OBVIOUS
  <2>1. oam[n].y \in Nat
    BY DEF Sprite
  <2>2. ASSUME InRange(n, line) PROVE \E dy \in 0..(Height - 1) : oam[n].y + dy = line
    <3>1. line - oam[n].y \in 0..(Height - 1) /\ oam[n].y + (line - oam[n].y) = line
      BY <1>2, <2>1, <2>2 DEF InRange
    <3> QED
      BY <3>1
  <2>3. ASSUME NEW dy \in 0..(Height - 1), oam[n].y + dy = line PROVE InRange(n, line)
    BY <1>2, <2>1, <2>3 DEF InRange
  <2> QED
    BY <2>2, <2>3
<1>4. Before(SPRITES, line) =
          {n \in Indexes : \E dy \in 0..(Height - 1) : oam[n].y + dy = line}
  BY <1>3 DEF Before, Indexes
<1> QED
  BY <1>1, <1>4 DEF Overflows, CountCrossing

-----------------------------------------------------------------------------
(* The buffer.                                                             *)

LEMMA RecordsTyped ==
    ASSUME source \in Source, NEW n \in InSource
    PROVE  /\ n \in Indexes /\ Crosses(n)
           /\ SourceRecord(n).slot \in 0..(LIMIT - 1)
           /\ SourceRecord(n).graphics \in Graphics
           /\ SourceRecord(n).index = n
<1>1. n \in Indexes /\ Crosses(n) /\ Cardinality({m \in 0..(n - 1) : Crosses(m)}) < LIMIT
  BY DEF InSource
<1>2. Cardinality({m \in 0..(n - 1) : Crosses(m)}) \in Nat
  <2>1. IsFiniteSet(0..(n - 1))
    BY <1>1, SizesAreNumbers, FS_Interval DEF Indexes
  <2>2. {m \in 0..(n - 1) : Crosses(m)} \in SUBSET (0..(n - 1))
    OBVIOUS
  <2> QED
    BY <2>1, <2>2, FS_Subset, FS_CardinalityType
<1>3. source.oam[n].attributes \in Nat
  BY <1>1 DEF Source, Sprite
<1>4. Palette(source.oam[n].attributes) \in 0..3
  BY <1>3, AttributesOfSprites
<1>5. \A dx \in 0..(SIDE - 1) :
          4 * Palette(source.oam[n].attributes) + SourcePixel(n, dx) \in 0..15
  <2> SUFFICES ASSUME NEW dx \in 0..(SIDE - 1)
               PROVE  4 * Palette(source.oam[n].attributes) + SourcePixel(n, dx) \in 0..15
    OBVIOUS
  <2>1. SourcePixel(n, dx) \in 0..3
    BY <1>1, SourcePixelTyped
  <2> QED
    BY <1>4, <2>1
<1> QED
  BY <1>1, <1>2, <1>5, SizesAreNumbers DEF SourceRecord, Graphics

(* The slots are in the order of OAM. *)
LEMMA SlotsInOrder ==
    ASSUME NEW m \in Indexes, NEW n \in Indexes, Crosses(m), m < n
    PROVE  SourceRecord(m).slot < SourceRecord(n).slot
<1> DEFINE Low == {k \in 0..(m - 1) : Crosses(k)}
           High == {k \in 0..(n - 1) : Crosses(k)}
<1>1. m \in Nat /\ n \in Nat
  BY SizesAreNumbers DEF Indexes
<1>2. IsFiniteSet(0..(n - 1))
  BY <1>1, FS_Interval
<1>3. IsFiniteSet(High)
  <2>1. High \in SUBSET (0..(n - 1))
    OBVIOUS
  <2> QED
    BY <1>2, <2>1, FS_Subset
<1>4. Low \in SUBSET High /\ m \in High /\ m \notin Low
  BY <1>1
<1> HIDE DEF Low, High
<1>5. /\ Cardinality(Low) \in Nat /\ Cardinality(High) \in Nat
      /\ Cardinality(Low) <= Cardinality(High)
      /\ Cardinality(Low) # Cardinality(High)
  <2>1. IsFiniteSet(Low) /\ Cardinality(Low) <= Cardinality(High)
        /\ (Cardinality(High) = Cardinality(Low) => High = Low)
    BY <1>3, <1>4, FS_Subset
  <2> QED
    BY <1>3, <1>4, <2>1, FS_CardinalityType
<1> QED
  BY <1>5 DEF SourceRecord, Low, High
-----------------------------------------------------------------------------
(* What was loaded is the picture, but where a flip distorts it.           *)

LEMMA LoadedIsPicture ==
    ASSUME source \in Source, NEW x, NEW n \in Indexes, ~Distorted(n, x),
           n \in InSource, x - source.oam[n].x \in 0..(SIDE - 1)
    PROVE  SourcePixel(n, x - source.oam[n].x) = Picture(n, x - source.oam[n].x)
<1> DEFINE p == Picture(n, x - source.oam[n].x)
           flip == HorizontalFlip(source.oam[n].attributes)
<1>1. Crosses(n)
  BY DEF InSource
<1>2. p \in 0..3
  BY <1>1, PictureTyped
<1>3. flip => p \notin {1, 2}
  BY DEF Distorted
<1>4. SourcePixel(n, x - source.oam[n].x) = IF flip THEN 3 * (p \div 2) ELSE p
  BY DEF SourcePixel
<1> HIDE DEF p, flip
<1>5. CASE flip
  <2>1. p = 0 \/ p = 3
    BY <1>2, <1>3, <1>5
  <2>2. 3 * (p \div 2) = p
    BY <2>1
  <2> QED
    BY <1>4, <1>5, <2>2 DEF p
<1>6. CASE ~flip
  BY <1>4, <1>6 DEF p
<1> QED
  BY <1>5, <1>6

LEMMA LoadedShowsPicture ==
    ASSUME source \in Source, NEW x, NEW n \in Indexes, ~Distorted(n, x)
    PROVE  SourceShows(n, x) <=> PictureShows(n, x)
BY LoadedIsPicture DEF SourceShows, PictureShows

(* A dot that shows what was loaded shows the frontmost sprite. *)
LEMMA LoadedIsFrontmost ==
    ASSUME source \in Source, NEW d, ShowsLoaded(d),
           \A n \in Indexes : ~Distorted(n, d.x)
    PROVE  ShowsFrontmost(d)
<1> DEFINE background == IF mask.background /\ (d.x >= SIDE \/ mask.leftBackground)
                         THEN d.pixel ELSE 0
           sprites == mask.sprites /\ (d.x >= SIDE \/ mask.leftSprites) /\ source.any
           Colour(n, pixel) == IF Behind(source.oam[n].attributes) /\ background # 0
                               THEN background
                               ELSE 16 + 4 * Palette(source.oam[n].attributes) + pixel
<1>1. \A n \in Indexes : SourceShows(n, d.x) <=> PictureShows(n, d.x)
  BY LoadedShowsPicture
<1>2. \A n \in Indexes : 0..(n - 1) \subseteq Indexes
  BY SizesAreNumbers DEF Indexes
<1>3. \A n \in Indexes : LoadedFront(n, d.x) <=> Front(n, d.x)
  BY <1>1, <1>2, Zenon DEF LoadedFront, Front
<1>4. ASSUME NEW n \in Indexes, Front(n, d.x)
      PROVE  SourcePixel(n, d.x - source.oam[n].x) = Picture(n, d.x - source.oam[n].x)
  <2>1. n \in InSource /\ d.x - source.oam[n].x \in 0..(SIDE - 1)
    BY <1>4 DEF Front, PictureShows
  <2> QED
    BY <2>1, LoadedIsPicture
<1>5. IF sprites /\ \E n \in Indexes : LoadedFront(n, d.x)
      THEN \E n \in Indexes : /\ LoadedFront(n, d.x)
                              /\ d.colour = Colour(n, SourcePixel(n, d.x - source.oam[n].x))
      ELSE d.colour = background
  BY Zenon DEF ShowsLoaded
<1> HIDE DEF background, sprites, Colour
<1>6. IF sprites /\ \E n \in Indexes : Front(n, d.x)
      THEN \E n \in Indexes : /\ Front(n, d.x)
                              /\ d.colour = Colour(n, Picture(n, d.x - source.oam[n].x))
      ELSE d.colour = background
  BY <1>3, <1>4, <1>5, Zenon
<1> QED
  BY <1>6, Zenon DEF ShowsFrontmost, background, sprites, Colour

-----------------------------------------------------------------------------
(* Drawing.                                                                *)

LEMMA ShowsSource ==
    ASSUME source \in Source, BufferHoldsSource, NEW x \in 0..(WIDTH - 1), NEW s
    PROVE  s \in Showing(x) <=>
               source.any /\ \E n \in Indexes : SourceShows(n, x) /\ s = SourceRecord(n)
<1>1. ASSUME NEW n \in InSource
      PROVE  /\ SourceRecord(n).x = source.oam[n].x
             /\ (/\ x - source.oam[n].x \in 0..(SIDE - 1)
                 /\ Opaque(SourceRecord(n).graphics[x - source.oam[n].x]))
                    <=> SourceShows(n, x)
  <2>1. n \in Indexes /\ Crosses(n) /\ SourceRecord(n).x = source.oam[n].x
    BY DEF InSource, SourceRecord
  <2>2. ASSUME x - source.oam[n].x \in 0..(SIDE - 1)
        PROVE  Opaque(SourceRecord(n).graphics[x - source.oam[n].x])
                   <=> SourcePixel(n, x - source.oam[n].x) # 0
    <3> DEFINE dx == x - source.oam[n].x
               p == Palette(source.oam[n].attributes)
    <3>1. SourcePixel(n, dx) \in 0..3
      BY <2>1, <2>2, SourcePixelTyped
    <3>2. p \in 0..3
      BY <2>1, AttributesOfSprites DEF Source, Sprite
    <3>3. SourceRecord(n).graphics[dx] = 4 * p + SourcePixel(n, dx)
      BY <2>2 DEF SourceRecord
    <3> HIDE DEF dx, p
    <3>4. Opaque(SourceRecord(n).graphics[dx]) <=> SourcePixel(n, dx) # 0
      BY <3>1, <3>2, <3>3 DEF Opaque
    <3> QED
      BY <3>4 DEF dx
  <2> QED
    BY <2>1, <2>2 DEF SourceShows
<1>2. s \in buffer <=> source.any /\ \E n \in InSource : s = SourceRecord(n)
  BY DEF BufferHoldsSource, Source
<1>3. \A n : SourceShows(n, x) => n \in InSource /\ n \in Indexes
  BY DEF SourceShows, InSource
<1>4. s \in Showing(x) <=>
          s \in buffer /\ x - s.x \in 0..(SIDE - 1) /\ Opaque(s.graphics[x - s.x])
  BY DEF Showing
<1>5. ASSUME s \in Showing(x)
      PROVE  source.any /\ \E n \in Indexes : SourceShows(n, x) /\ s = SourceRecord(n)
  <2>1. PICK n \in InSource : s = SourceRecord(n)
    BY <1>2, <1>4, <1>5
  <2> QED
    BY <1>1, <1>2, <1>3, <1>4, <1>5, <2>1
<1>6. ASSUME source.any, NEW n \in Indexes, SourceShows(n, x), s = SourceRecord(n)
      PROVE  s \in Showing(x)
  BY <1>1, <1>2, <1>3, <1>4, <1>6
<1> QED
  BY <1>5, <1>6

(* The lowest slot that shows has the first sprite that shows.             *)
LEMMA FirstShown ==
    ASSUME source \in Source, BufferHoldsSource, NEW x \in 0..(WIDTH - 1), NEW s
    PROVE  s \in {t \in Showing(x) : \A u \in Showing(x) : t.slot <= u.slot} <=>
               source.any /\ \E n \in Indexes : LoadedFront(n, x) /\ s = SourceRecord(n)
<1>1. ASSUME NEW n \in Indexes, SourceShows(n, x)
      PROVE  Crosses(n) /\ SourceRecord(n).slot \in Nat /\ n \in Nat
  <2>1. n \in InSource
    BY <1>1 DEF SourceShows
  <2> QED
    BY <2>1, RecordsTyped, SizesAreNumbers DEF Indexes
<1>2. ASSUME s \in Showing(x), \A u \in Showing(x) : s.slot <= u.slot
      PROVE  source.any /\ \E n \in Indexes : LoadedFront(n, x) /\ s = SourceRecord(n)
  <2>1. source.any
    BY <1>2, ShowsSource
  <2>2. PICK n \in Indexes : SourceShows(n, x) /\ s = SourceRecord(n)
    BY <1>2, ShowsSource
  <2>3. ASSUME NEW m \in 0..(n - 1), SourceShows(m, x) PROVE FALSE
    <3>1. m \in Indexes /\ m < n
      BY SizesAreNumbers DEF Indexes
    <3>2. SourceRecord(m) \in Showing(x)
      BY <2>1, <2>3, <3>1, ShowsSource
    <3>3. SourceRecord(n).slot <= SourceRecord(m).slot
      BY <1>2, <2>2, <3>2
    <3>4. SourceRecord(m).slot < SourceRecord(n).slot
      BY <1>1, <2>3, <3>1, SlotsInOrder
    <3> QED
      BY <1>1, <2>2, <2>3, <3>1, <3>3, <3>4
  <2> QED
    BY <2>1, <2>2, <2>3 DEF LoadedFront
<1>3. ASSUME source.any, NEW n \in Indexes, LoadedFront(n, x), s = SourceRecord(n)
      PROVE  s \in Showing(x) /\ \A u \in Showing(x) : s.slot <= u.slot
  <2>1. SourceShows(n, x) /\ s \in Showing(x)
    BY <1>3, ShowsSource DEF LoadedFront
  <2>2. ASSUME NEW u \in Showing(x) PROVE s.slot <= u.slot
    <3>1. PICK m \in Indexes : SourceShows(m, x) /\ u = SourceRecord(m)
      BY <2>2, ShowsSource
    <3>2. m \in Nat /\ n \in Nat /\ m \notin 0..(n - 1)
      BY <1>1, <1>3, <2>1, <3>1 DEF LoadedFront
    <3>3. CASE m = n
      BY <1>1, <1>3, <2>1, <3>1, <3>3
    <3>4. CASE n < m
      <4>1. SourceRecord(n).slot < SourceRecord(m).slot
        BY <1>1, <2>1, <3>4, SlotsInOrder
      <4> QED
        BY <1>1, <1>3, <2>1, <3>1, <4>1
    <3> QED
      BY <3>2, <3>3, <3>4
  <2> QED
    BY <2>1, <2>2
<1> QED
  BY <1>2, <1>3

LEMMA SpritePixels ==
    ASSUME source \in Source, mask \in Mask, BufferHoldsSource,
           NEW x \in 0..(WIDTH - 1), NEW s
    PROVE  s \in getSpritePixel(x) <=>
               /\ mask.sprites /\ (x >= SIDE \/ mask.leftSprites) /\ source.any
               /\ \E n \in Indexes : LoadedFront(n, x) /\ s = SourceRecord(n)
BY FirstShown DEF getSpritePixel, Mask

(* A dot has the colour of what was loaded.                                *)
LEMMA ComposesWell ==
    ASSUME source \in Source, mask \in Mask, BufferHoldsSource,
           NEW x \in 0..(WIDTH - 1), NEW pixel \in 0..1, NEW d,
           d.x = x, d.pixel = pixel, d.colour = Composed(x, getBackgroundPixel(x, pixel))
    PROVE  ShowsLoaded(d) /\ d.colour \in Colours
<1> DEFINE background == getBackgroundPixel(x, pixel)
           sprites == mask.sprites /\ (x >= SIDE \/ mask.leftSprites) /\ source.any
           front == {s \in getSpritePixel(x) : ~s.behind \/ ~Opaque(background)}
           sprite == CHOOSE s \in front : TRUE
<1>1. background \in 0..1 /\ (Opaque(background) <=> background # 0)
  BY DEF getBackgroundPixel, Opaque, Mask
<1>2. background = IF mask.background /\ (d.x >= SIDE \/ mask.leftBackground)
                   THEN d.pixel ELSE 0
  BY DEF getBackgroundPixel
<1>3. d.colour = IF front # {} THEN 16 + sprite.graphics[x - sprite.x]
                 ELSE IF Opaque(background) THEN background ELSE 0
  BY DEF Composed
<1> HIDE DEF background
<1>4. ASSUME NEW n \in Indexes, LoadedFront(n, x)
      PROVE  /\ SourceRecord(n).behind = Behind(source.oam[n].attributes)
             /\ SourceRecord(n).graphics[x - SourceRecord(n).x] =
                    4 * Palette(source.oam[n].attributes) + SourcePixel(n, x - source.oam[n].x)
             /\ SourceRecord(n).graphics[x - SourceRecord(n).x] \in 0..15
             /\ 16 + SourceRecord(n).graphics[x - SourceRecord(n).x] =
                    16 + 4 * Palette(source.oam[n].attributes) + SourcePixel(n, x - source.oam[n].x)
  <2>1. n \in InSource /\ x - source.oam[n].x \in 0..(SIDE - 1) /\ Crosses(n)
    BY <1>4 DEF LoadedFront, SourceShows, InSource
  <2>2. SourceRecord(n).graphics \in Graphics
    BY <2>1, RecordsTyped
  <2>3. SourceRecord(n).x = source.oam[n].x
    BY DEF SourceRecord
  <2>4. SourceRecord(n).graphics[x - source.oam[n].x] \in 0..15
    BY <2>1, <2>2 DEF Graphics
  <2>5. /\ Palette(source.oam[n].attributes) \in 0..3
        /\ SourcePixel(n, x - source.oam[n].x) \in 0..3
    BY <2>1, SourcePixelTyped, AttributesOfSprites DEF Source, Sprite
  <2>6. SourceRecord(n).graphics[x - source.oam[n].x] =
            4 * Palette(source.oam[n].attributes) + SourcePixel(n, x - source.oam[n].x)
    BY <2>1 DEF SourceRecord
  <2>7. SourceRecord(n).behind = Behind(source.oam[n].attributes)
    BY DEF SourceRecord
  <2> QED
    BY <2>3, <2>4, <2>5, <2>6, <2>7
<1>5. CASE front # {}
  <2>1. sprite \in front
    BY <1>5
  <2> HIDE DEF sprite
  <2>2. sprite \in getSpritePixel(x) /\ (~sprite.behind \/ ~Opaque(background))
    BY <2>1
  <2>3. sprites
    BY <2>2, SpritePixels
  <2>4. PICK n \in Indexes : LoadedFront(n, x) /\ sprite = SourceRecord(n)
    BY <2>2, SpritePixels
  <2>5. d.colour = 16 + 4 * Palette(source.oam[n].attributes)
                      + SourcePixel(n, x - source.oam[n].x)
    BY <1>3, <1>4, <1>5, <2>4
  <2>6. ~(Behind(source.oam[n].attributes) /\ background # 0)
    BY <1>1, <1>4, <2>2, <2>4
  <2>7. d.colour \in Colours
    BY <1>3, <1>4, <1>5, <2>4 DEF Colours
  <2>8. ShowsLoaded(d)
    BY <1>2, <2>3, <2>4, <2>5, <2>6, Zenon DEF ShowsLoaded
  <2> QED
    BY <2>7, <2>8
<1>6. CASE front = {}
  <2>1. d.colour = background /\ d.colour \in Colours
    BY <1>1, <1>3, <1>6 DEF Colours
  <2>2. ASSUME sprites, NEW n \in Indexes, LoadedFront(n, x)
        PROVE  Behind(source.oam[n].attributes) /\ background # 0
    <3>1. SourceRecord(n) \in getSpritePixel(x)
      BY <2>2, SpritePixels
    <3>2. SourceRecord(n).behind /\ Opaque(background)
      BY <1>6, <3>1, Zenon
    <3> QED
      BY <1>1, <1>4, <2>2, <3>2
  <2>3. ShowsLoaded(d)
    BY <1>2, <2>1, <2>2, Zenon DEF ShowsLoaded
  <2> QED
    BY <2>1, <2>3
<1> QED
  BY <1>5, <1>6

(* Sprite zero as it was loaded and the background are both seen at x.     *)
MeetLoaded(x, pixel) ==
    /\ mask.background /\ mask.sprites
    /\ x < SIDE => mask.leftBackground /\ mask.leftSprites
    /\ x # WIDTH - 1 /\ pixel # 0
    /\ SourceShows(0, x)

(* Sprite zero is first wherever it shows. *)
LEMMA ZeroMeets ==
    ASSUME source \in Source, mask \in Mask, BufferHoldsSource,
           NEW x \in 0..(WIDTH - 1), NEW pixel \in 0..1
    PROVE  (\E s \in getSpritePixel(x) : Overlaps(x, s, getBackgroundPixel(x, pixel)))
               <=> source.any /\ MeetLoaded(x, pixel)
<1> DEFINE background == getBackgroundPixel(x, pixel)
<1>1. Opaque(background) <=> mask.background /\ (x >= SIDE \/ mask.leftBackground) /\ pixel # 0
  BY DEF getBackgroundPixel, Opaque, Mask
<1>2. (x >= SIDE <=> ~(x < SIDE)) /\ (x < WIDTH - 1 <=> x # WIDTH - 1)
  BY SizesAreNumbers
<1>3. 0 \in Indexes /\ (LoadedFront(0, x) <=> SourceShows(0, x))
  BY SizesAreNumbers DEF LoadedFront, Indexes
<1> HIDE DEF background
<1>4. \A n \in Indexes : LoadedFront(n, x) => SourceRecord(n).index = n
  BY DEF SourceRecord
<1>5. ASSUME NEW s \in getSpritePixel(x), Overlaps(x, s, background)
      PROVE  source.any /\ MeetLoaded(x, pixel)
  <2>1. PICK n \in Indexes : LoadedFront(n, x) /\ s = SourceRecord(n)
    BY SpritePixels
  <2>2. mask.sprites /\ (x >= SIDE \/ mask.leftSprites) /\ source.any
    BY SpritePixels
  <2>3. s.index = 0 /\ Opaque(background) /\ x < WIDTH - 1
    BY <1>5 DEF Overlaps
  <2>4. SourceShows(0, x)
    BY <1>3, <1>4, <2>1, <2>3
  <2> QED
    BY <1>1, <1>2, <2>2, <2>3, <2>4 DEF MeetLoaded
<1>6. ASSUME source.any, MeetLoaded(x, pixel)
      PROVE  \E s \in getSpritePixel(x) : Overlaps(x, s, background)
  <2>1. mask.sprites /\ (x >= SIDE \/ mask.leftSprites)
    BY <1>2, <1>6 DEF MeetLoaded
  <2>2. LoadedFront(0, x)
    BY <1>3, <1>6 DEF MeetLoaded
  <2>3. SourceRecord(0) \in getSpritePixel(x)
    BY <1>3, <1>6, <2>1, <2>2, SpritePixels
  <2>4. SourceRecord(0).index = 0
    BY <1>3, <1>4, <2>2
  <2>5. Opaque(background) /\ x < WIDTH - 1
    BY <1>1, <1>2, <1>6 DEF MeetLoaded
  <2> QED
    BY <2>3, <2>4, <2>5 DEF Overlaps
<1> QED
  BY <1>5, <1>6 DEF background
-----------------------------------------------------------------------------
(* The invariant: what the buffer holds, and what the flags tell, comes    *)
(* with the history it is compared with.                                   *)

SpritesOK ==
    /\ TypeOK
    /\ source \in Source
    /\ BufferHoldsSource
    /\ SpriteZeroTellsOverlap
    /\ OverflowTellsCrowdedLine
    /\ overlapped \in BOOLEAN /\ crowded \in BOOLEAN /\ distorted \in BOOLEAN
    /\ DrawsLoaded

(* The part of TypeOK that says what is in the buffer.                     *)
BufferTyped ==
    \A s \in buffer :
        /\ s.slot \in 0..(LIMIT - 1) /\ s.index \in Indexes
        /\ s.graphics \in Graphics

LEMMA BufferIsTyped ==
    ASSUME source \in Source, BufferHoldsSource
    PROVE  BufferTyped
BY RecordsTyped DEF BufferHoldsSource, BufferTyped

LEMMA SpritesTyped ==
    ASSUME NEW look \in LOOKS, NEW n \in Indexes, NEW x \in XS, NEW y \in YS
    PROVE  SpriteAt(look, n, x, y) \in Sprite
<1>1. look \in Nat /\ n \in Nat /\ x \in Nat /\ y \in Nat
  BY SpritesAssumption DEF Indexes
<1>2. (look + n) % 4 \in Nat
  BY <1>1
<1> DEFINE product == look * (n + 1)
<1>3. product \in Nat
  BY <1>1
<1> HIDE DEF product
<1>4. product % 32 \in Nat
  BY <1>3
<1> QED
  BY <1>1, <1>2, <1>4 DEF SpriteAt, Sprite, product

LEMMA SpritesInit == Init => SpritesOK
<1> SUFFICES ASSUME Init PROVE SpritesOK
  OBVIOUS
<1>1. oam \in [Indexes -> Sprite]
  <2>1. PICK look \in LOOKS, at \in [Indexes -> XS \X YS] :
            oam = [n \in Indexes |-> SpriteAt(look, n, at[n][1], at[n][2])]
    BY DEF Init, Anywhere
  <2>2. \A n \in Indexes : SpriteAt(look, n, at[n][1], at[n][2]) \in Sprite
    BY SpritesTyped
  <2> QED
    BY <2>1, <2>2
<1>2. source \in Source
  BY <1>1 DEF Init, Source
<1>3. mask \in Mask
  BY DEF Init, AllShown, Mask
<1>4. BufferHoldsSource
  BY DEF Init, BufferHoldsSource
<1>5. TypeOK
  <2>1. clock \in 0..(CLOCK_CYCLE - 1) /\ scanLine \in 0..PRE_RENDER_SCAN_LINE
    BY SizesAreNumbers DEF Init
  <2>2. accesses \in 0..MAX_ACCESSES
    BY SpritesAssumption DEF Init
  <2>3. {spriteSizeFlag, spriteTableFlag, spriteZeroFlag, spriteOverflowFlag} \subseteq BOOLEAN
    BY DEF Init
  <2> QED
    BY <1>1, <1>3, <2>1, <2>2, <2>3 DEF Init, TypeOK
<1>6. DrawsLoaded
  BY DEF Init, DrawsLoaded
<1> QED
  BY <1>2, <1>4, <1>5, <1>6 DEF Init, SpritesOK, SpriteZeroTellsOverlap, OverflowTellsCrowdedLine
(* What was loaded, and what should show, depends on the history only.     *)
LEMMA SourceStays ==
    ASSUME source' = source, buffer' = buffer
    PROVE  BufferHoldsSource' <=> BufferHoldsSource
BY DEF BufferHoldsSource, SourceRecord, InSource, Crosses, SourceHeight, SourcePixel, Picture

LEMMA ShowsStays ==
    ASSUME source' = source, mask' = mask, NEW d
    PROVE  ShowsLoaded(d)' <=> ShowsLoaded(d)
<1>1. \A n, dx : SourcePixel(n, dx)' = SourcePixel(n, dx)
  BY DEF SourcePixel, Picture, SourceHeight
<1>2. InSource' = InSource
  BY DEF InSource, Crosses, SourceHeight
<1>3. \A n, x : SourceShows(n, x)' <=> SourceShows(n, x)
  BY <1>1, <1>2 DEF SourceShows
<1>4. \A n, x : LoadedFront(n, x)' <=> LoadedFront(n, x)
  BY <1>3, Zenon DEF LoadedFront
<1> QED
  BY <1>1, <1>4 DEF ShowsLoaded

(* A dot leads to a dot; the three things a dot may do exclude each other. *)
LEMMA DotsInOrder ==
    ASSUME TypeOK, tick
    PROVE  /\ clock' \in 0..(CLOCK_CYCLE - 1)
           /\ scanLine' \in 0..PRE_RENDER_SCAN_LINE
           /\ nextScanLine(scanLine') \in 0..PRE_RENDER_SCAN_LINE
           /\ IsVisible => ~Loads /\ ~ClearsFlags /\ clock' - 1 \in 0..(WIDTH - 1)
           /\ Loads => ~ClearsFlags
<1>1. clock \in 0..(CLOCK_CYCLE - 1) /\ scanLine \in 0..PRE_RENDER_SCAN_LINE
  BY DEF TypeOK
<1>2. clock' \in 0..(CLOCK_CYCLE - 1) /\ scanLine' \in 0..PRE_RENDER_SCAN_LINE
  BY <1>1, SizesAreNumbers DEF tick, nextScanLine
<1>3. nextScanLine(scanLine') \in 0..PRE_RENDER_SCAN_LINE
  <2>1. \A n \in 0..PRE_RENDER_SCAN_LINE : nextScanLine(n) \in 0..PRE_RENDER_SCAN_LINE
    BY SizesAreNumbers DEF nextScanLine
  <2> QED
    BY <1>2, <2>1
<1>4. IsVisible => clock' \in 1..WIDTH /\ scanLine' # PRE_RENDER_SCAN_LINE
  BY <1>2, SizesAreNumbers DEF IsVisible
<1>5. Loads => clock' = WIDTH + 1
  BY DEF Loads
<1>6. ClearsFlags => clock' = 1 /\ scanLine' = PRE_RENDER_SCAN_LINE
  BY DEF ClearsFlags
<1>7. Loads => ~ClearsFlags
  BY <1>5, <1>6, SizesAreNumbers
<1>8. IsVisible => ~Loads /\ ~ClearsFlags /\ clock' - 1 \in 0..(WIDTH - 1)
  <2> SUFFICES ASSUME IsVisible
               PROVE  ~Loads /\ ~ClearsFlags /\ clock' - 1 \in 0..(WIDTH - 1)
    OBVIOUS
  <2>1. clock' \in 1..WIDTH /\ scanLine' # PRE_RENDER_SCAN_LINE
    BY <1>4
  <2>2. clock' # WIDTH + 1 /\ clock' - 1 \in 0..(WIDTH - 1)
    <3>1. \A c \in 1..WIDTH : c # WIDTH + 1 /\ c - 1 \in 0..(WIDTH - 1)
      BY SizesAreNumbers
    <3> QED
      BY <2>1, <3>1, Zenon
  <2> QED
    BY <1>5, <1>6, <2>1, <2>2
<1> QED
  BY <1>2, <1>3, <1>7, <1>8

LEMMA DotLoads ==
    ASSUME SpritesOK, Dot
    PROVE  /\ source' \in Source
           /\ BufferHoldsSource'
           /\ OverflowTellsCrowdedLine'
           /\ spriteOverflowFlag' \in BOOLEAN /\ crowded' \in BOOLEAN
<1> USE DEF SpritesOK
<1>1. /\ nextScanLine(scanLine') \in Nat /\ (Loads => ~ClearsFlags)
      /\ oam \in [Indexes -> Sprite]
      /\ spriteSizeFlag \in BOOLEAN /\ spriteTableFlag \in BOOLEAN
  BY DotsInOrder, SizesAreNumbers DEF Dot, TypeOK
<1>2. CASE Loads
  <2> DEFINE line == nextScanLine(scanLine')
  <2>1. source' = [oam |-> oam, tall |-> spriteSizeFlag, table |-> spriteTableFlag,
                   line |-> line, any |-> TRUE]
    BY <1>2 DEF Dot, Remember
  <2>2. source' \in Source
    BY <1>1, <2>1 DEF Source
  <2>3. buffer' = Loaded(line) /\ spriteOverflowFlag' = (spriteOverflowFlag \/ Overflows(line))
    BY <1>2 DEF Dot, loadSpriteData
  <2>4. crowded' = (crowded \/ CountCrossing(line) > LIMIT)
    BY <1>1, <1>2 DEF Dot, Remember
  <2> HIDE DEF line
  <2>5. buffer' = {SourceRecord(n)' : n \in InSource'}
    BY <2>1, <2>2, <2>3, LoadsSource
  <2>6. source'.any
    BY <2>1
  <2>7. BufferHoldsSource'
    BY <2>5, <2>6 DEF BufferHoldsSource
  <2>8. line \in Nat
    BY <1>1 DEF line
  <2>9. Overflows(line) <=> CountCrossing(line) > LIMIT
    BY <1>1, <2>8, OverflowCounts
  <2>10. spriteOverflowFlag = crowded /\ crowded \in BOOLEAN
    BY DEF OverflowTellsCrowdedLine
  <2>11. spriteOverflowFlag' = crowded' /\ crowded' \in BOOLEAN
    BY <2>3, <2>4, <2>9, <2>10
  <2> QED
    BY <2>2, <2>7, <2>11 DEF OverflowTellsCrowdedLine
<1>3. CASE ~Loads
  <2>1. source' = source /\ buffer' = buffer
    BY <1>3 DEF Dot, Remember
  <2>2. crowded' = (~ClearsFlags /\ crowded) /\ spriteOverflowFlag' = (spriteOverflowFlag /\ ~ClearsFlags)
    BY <1>3 DEF Dot, Remember
  <2>3. spriteOverflowFlag = crowded /\ crowded \in BOOLEAN
    BY DEF OverflowTellsCrowdedLine
  <2> QED
    BY <2>1, <2>2, <2>3, SourceStays DEF OverflowTellsCrowdedLine
<1> QED
  BY <1>2, <1>3

LEMMA DotDraws ==
    ASSUME SpritesOK, Dot
    PROVE  /\ DrawsLoaded'
           /\ drawn' = {} \/ \E d \in drawn' : drawn' = {d} /\ d.colour \in Colours
           /\ SpriteZeroTellsOverlap'
           /\ spriteZeroFlag' \in BOOLEAN /\ overlapped' \in BOOLEAN /\ distorted' \in BOOLEAN
<1>1. /\ ~distorted => spriteZeroFlag = overlapped
      /\ overlapped \in BOOLEAN /\ spriteZeroFlag \in BOOLEAN /\ distorted \in BOOLEAN
  BY DEF SpritesOK, SpriteZeroTellsOverlap, TypeOK
<1>2. /\ overlapped' = /\ ~ClearsFlags
                       /\ \/ overlapped
                          \/ source.any /\ \E d \in drawn' : Meet(d.x, d.pixel, mask)
      /\ distorted' = /\ ~ClearsFlags
                      /\ distorted \/ (source.any /\ \E d \in drawn' : Distorted(0, d.x))
  BY DEF Dot, Remember
<1>3. tick /\ mask' = mask /\ mask \in Mask /\ source \in Source /\ BufferHoldsSource
  BY DEF Dot, registers, SpritesOK, TypeOK
<1>4. CASE renderingEnabled /\ IsVisible
  <2>1. ~Loads /\ ~ClearsFlags /\ clock' - 1 \in 0..(WIDTH - 1)
    BY <1>4, DotsInOrder DEF Dot, SpritesOK
  <2>2. source' = source
    BY <2>1 DEF Dot, Remember
  <2>3. PICK pixel \in 0..1 : renderPixel(pixel)
    BY <1>4 DEF Dot
  <2> DEFINE x == clock' - 1
             background == getBackgroundPixel(x, pixel)
             zero == \E s \in getSpritePixel(x) : Overlaps(x, s, background)
  <2>4. spriteZeroFlag' = (spriteZeroFlag \/ zero)
    BY <2>3 DEF renderPixel
  <2> HIDE DEF zero
  <2>5. PICK d : drawn' = {d} /\ d.x = x /\ d.pixel = pixel /\ d.colour = Composed(x, background)
    <3> DEFINE e == [x |-> x, line |-> scanLine', pixel |-> pixel, colour |-> Composed(x, background)]
    <3>1. drawn' = {e}
      BY <2>3 DEF renderPixel
    <3>2. e.x = x /\ e.pixel = pixel /\ e.colour = Composed(x, background)
      OBVIOUS
    <3> HIDE DEF e
    <3> QED
      BY <3>1, <3>2, Zenon
  <2>6. x \in 0..(WIDTH - 1)
    BY <2>1
  <2> HIDE DEF x
  <2>7. ShowsLoaded(d) /\ d.colour \in Colours
    BY <1>3, <2>5, <2>6, ComposesWell
  <2> DEFINE met == source.any /\ Meet(x, pixel, mask)
             lost == source.any /\ Distorted(0, x)
  <2>8. zero \in BOOLEAN /\ (~lost => (zero <=> met))
    <3>1. zero <=> source.any /\ MeetLoaded(x, pixel)
      BY <1>3, <2>6, ZeroMeets DEF zero
    <3>2. 0 \in Indexes
      BY SizesAreNumbers DEF Indexes
    <3>3. ASSUME ~Distorted(0, x) PROVE MeetLoaded(x, pixel) <=> Meet(x, pixel, mask)
      <4>1. SourceShows(0, x) <=> PictureShows(0, x)
        BY <1>3, <3>2, <3>3, LoadedShowsPicture, Zenon
      <4> QED
        BY <4>1, Zenon DEF Meet, MeetLoaded
    <3>4. zero \in BOOLEAN
      BY DEF zero
    <3> HIDE DEF zero
    <3> QED
      BY <3>1, <3>3, <3>4, Zenon
  <2> HIDE DEF zero, background
  <2>9. /\ overlapped' = (overlapped \/ met)
        /\ distorted' = (distorted \/ lost)
    <3>1. (\E e \in drawn' : Meet(e.x, e.pixel, mask)) <=> Meet(x, pixel, mask)
      BY <2>5, Zenon
    <3>2. (\E e \in drawn' : Distorted(0, e.x)) <=> Distorted(0, x)
      BY <2>5, Zenon
    <3> QED
      BY <1>2, <2>1, <3>1, <3>2
  <2>10. /\ ~distorted' => spriteZeroFlag' = overlapped'
         /\ overlapped' \in BOOLEAN /\ spriteZeroFlag' \in BOOLEAN /\ distorted' \in BOOLEAN
    <3> HIDE DEF met, lost
    <3> QED
      BY <1>1, <2>4, <2>8, <2>9
  <2>11. ShowsLoaded(d)'
    BY <1>3, <2>2, <2>7, ShowsStays
  <2>12. DrawsLoaded'
    BY <2>5, <2>11 DEF DrawsLoaded
  <2> QED
    BY <2>5, <2>7, <2>10, <2>12 DEF SpriteZeroTellsOverlap
<1>5. CASE ~(renderingEnabled /\ IsVisible)
  <2>1. spriteZeroFlag' = (spriteZeroFlag /\ ~ClearsFlags) /\ drawn' = {}
    BY <1>5 DEF Dot
  <2>2. /\ ~distorted' => spriteZeroFlag' = overlapped'
        /\ overlapped' \in BOOLEAN /\ spriteZeroFlag' \in BOOLEAN /\ distorted' \in BOOLEAN
    BY <1>1, <1>2, <2>1
  <2> QED
    BY <2>1, <2>2 DEF SpriteZeroTellsOverlap, DrawsLoaded
<1> QED
  BY <1>4, <1>5
LEMMA SpritesDot ==
    ASSUME SpritesOK, Dot
    PROVE  SpritesOK'
<1>1. /\ source' \in Source /\ BufferHoldsSource'
      /\ OverflowTellsCrowdedLine'
      /\ spriteOverflowFlag' \in BOOLEAN /\ crowded' \in BOOLEAN
  BY DotLoads
<1>2. /\ DrawsLoaded'
      /\ drawn' = {} \/ \E d \in drawn' : drawn' = {d} /\ d.colour \in Colours
      /\ SpriteZeroTellsOverlap'
      /\ spriteZeroFlag' \in BOOLEAN /\ overlapped' \in BOOLEAN /\ distorted' \in BOOLEAN
  BY DotDraws
<1>3. BufferTyped'
  <2>1. (source \in Source /\ BufferHoldsSource)' => BufferTyped'
    BY BufferIsTyped, PTL
  <2> QED
    BY <1>1, <2>1
<1>4. clock' \in 0..(CLOCK_CYCLE - 1) /\ scanLine' \in 0..PRE_RENDER_SCAN_LINE
  BY DotsInOrder DEF SpritesOK, Dot
<1>5. UNCHANGED <<mask, spriteSizeFlag, spriteTableFlag, oam, accesses>>
  BY DEF Dot, registers
<1>6. TypeOK'
  BY <1>1, <1>2, <1>3, <1>4, <1>5 DEF SpritesOK, TypeOK, BufferTyped
<1> QED
  BY <1>1, <1>2, <1>6 DEF SpritesOK

(* The registers are not what the buffer and the flags are compared with.  *)
LEMMA SpritesAccess ==
    ASSUME SpritesOK, Access
    PROVE  SpritesOK'
<1>1. /\ UNCHANGED <<clock, scanLine, buffer, spriteZeroFlag, spriteOverflowFlag,
                     source, overlapped, crowded, distorted>>
      /\ drawn' = {}
  BY DEF Access, outputs
<1>2. accesses' \in 0..MAX_ACCESSES
  BY SpritesAssumption DEF SpritesOK, TypeOK, Access
<1>3. /\ mask' \in Mask
      /\ spriteSizeFlag' \in BOOLEAN /\ spriteTableFlag' \in BOOLEAN
      /\ oam' \in [Indexes -> Sprite]
  <2>1. CASE \E value \in Mask : writePPUMASK(value)
    BY <2>1 DEF writePPUMASK, SpritesOK, TypeOK
  <2>2. CASE \E tall, table \in BOOLEAN : writePPUCTRL(tall, table)
    BY <2>2 DEF writePPUCTRL, SpritesOK, TypeOK
  <2>3. CASE \E data \in OneSpot : upload(data)
    <3>1. PICK look \in LOOKS, x \in XS, y \in YS :
              upload([n \in Indexes |-> SpriteAt(look, n, x, y)])
      BY <2>3 DEF OneSpot
    <3>2. \A n \in Indexes : SpriteAt(look, n, x, y) \in Sprite
      BY SpritesTyped
    <3>3. [n \in Indexes |-> SpriteAt(look, n, x, y)] \in [Indexes -> Sprite]
      BY <3>2
    <3> QED
      BY <3>1, <3>3 DEF upload, SpritesOK, TypeOK
  <2> QED
    BY <2>1, <2>2, <2>3 DEF Access
<1>4. BufferHoldsSource'
  BY <1>1, SourceStays DEF SpritesOK
<1>5. DrawsLoaded'
  BY <1>1 DEF DrawsLoaded
<1>6. TypeOK'
  BY <1>1, <1>2, <1>3 DEF SpritesOK, TypeOK
<1> QED
  BY <1>1, <1>4, <1>5, <1>6
  DEF SpritesOK, SpriteZeroTellsOverlap, OverflowTellsCrowdedLine

LEMMA SpritesStutter ==
    ASSUME SpritesOK, UNCHANGED vars
    PROVE  SpritesOK'
<1>1. /\ UNCHANGED <<clock, scanLine, mask, spriteSizeFlag, spriteTableFlag, oam, buffer,
                     spriteZeroFlag, spriteOverflowFlag, accesses, drawn, source,
                     overlapped, crowded, distorted>>
  BY DEF vars, registers, outputs, history
<1>2. BufferHoldsSource'
  BY <1>1, SourceStays DEF SpritesOK
<1>3. DrawsLoaded'
  BY <1>1, ShowsStays DEF SpritesOK, DrawsLoaded
<1>4. TypeOK'
  BY <1>1 DEF SpritesOK, TypeOK
<1> QED
  BY <1>1, <1>2, <1>3, <1>4
  DEF SpritesOK, SpriteZeroTellsOverlap, OverflowTellsCrowdedLine

-----------------------------------------------------------------------------
(* The theorems.                                                           *)

(* What the program does to OAM, PPUCTRL and PPUMASK, and when, keeps in   *)
(* the buffer what was loaded for the line.                                *)
THEOREM SpritesInvariance == Spec => []SpritesOK
<1>1. SpritesOK /\ [Next]_vars => SpritesOK'
  BY SpritesDot, SpritesAccess, SpritesStutter DEF Next
<1> QED
  BY <1>1, SpritesInit, PTL DEF Spec

(* Types: colours fit their palettes, slots the limit.                     *)
THEOREM SpritesTypeCorrect == Spec => []TypeOK
<1>1. SpritesOK => TypeOK
  BY DEF SpritesOK
<1> QED
  BY <1>1, SpritesInvariance, PTL

(* A dot shows the first opaque sprite of those loaded, in the picture     *)
(* that the pattern tables, tall sprites and OAM gave it when the line was *)
(* loaded, or the background before it: for any number of sprites, size of *)
(* tiles and limit.  (Not where a horizontal flip lost a colour.)          *)
THEOREM DotsShowFrontmost == Spec => []DrawsFrontmost
<1>1. SpritesOK => DrawsFrontmost
  <2> SUFFICES ASSUME SpritesOK, NEW d \in drawn, \A n \in Indexes : ~Distorted(n, d.x)
               PROVE  ShowsFrontmost(d)
    BY DEF DrawsFrontmost
  <2> QED
    BY LoadedIsFrontmost DEF SpritesOK, DrawsLoaded
<1> QED
  BY <1>1, SpritesInvariance, PTL

(* Sprite zero's flag tells that sprite zero met the background, in frames *)
(* in which no horizontal flip has lost a colour of it so far.             *)
THEOREM ZeroFlagTellsOverlap == Spec => []SpriteZeroTellsOverlap
<1>1. SpritesOK => SpriteZeroTellsOverlap
  BY DEF SpritesOK
<1> QED
  BY <1>1, SpritesInvariance, PTL

(* The overflow flag tells that a line was crowded: the loop of            *)
(* loadSpriteData counts every sprite of OAM that crosses the line.        *)
THEOREM OverflowFlagTellsCrowd == Spec => []OverflowTellsCrowdedLine
<1>1. SpritesOK => OverflowTellsCrowdedLine
  BY DEF SpritesOK
<1> QED
  BY <1>1, SpritesInvariance, PTL
=============================================================================
