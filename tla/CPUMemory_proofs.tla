--------------------------- MODULE CPUMemory_proofs ---------------------------
(***************************************************************************)
(* Proofs about CPUMemory, PPUMemory and Controller, for memories of any   *)
(* sizes CPUMemoryAssumption and PPUMemoryAssumption allow, any programs   *)
(* and any number of accesses: every memory holds what was last written to *)
(* it or to a mirror of it, PPUDATA reads one byte late, and whole polls   *)
(* of the controllers tell the buttons in order.                           *)
(***************************************************************************)
EXTENDS CPUMemory, TLAPS

-----------------------------------------------------------------------------
(* Residues.                                                               *)

LEMMA Division ==
    ASSUME NEW x \in Int, NEW d \in Nat \ {0}
    PROVE  /\ x \div d \in Int /\ x % d \in 0..(d - 1)
           /\ x = d * (x \div d) + (x % d)
BY SMT

LEMMA Residue ==
    ASSUME NEW q \in Int, NEW r \in Int, NEW d \in Nat \ {0}, 0 <= r, r < d
    PROVE  (d * q + r) % d = r
BY SMTT(30)

LEMMA ResidueOfMultiple ==
    ASSUME NEW q \in Int, NEW x \in Int, NEW d \in Nat \ {0}
    PROVE  (x + d * q) % d = x % d /\ (x - d * q) % d = x % d
<1> DEFINE k == x \div d
           r == x % d
<1>1. k \in Int /\ r \in Int /\ 0 <= r /\ r < d /\ x = d * k + r
  BY Division
<1> HIDE DEF k, r
<1>2. d * (k + q) = d * k + d * q /\ d * (k - q) = d * k - d * q
  BY <1>1
<1>3. k + q \in Int /\ k - q \in Int /\ d * k \in Int /\ d * q \in Int
  BY <1>1
<1>4. x + d * q = d * (k + q) + r /\ x - d * q = d * (k - q) + r
  BY <1>1, <1>2, <1>3
<1>5. (d * (k + q) + r) % d = r /\ (d * (k - q) + r) % d = r
  BY <1>1, <1>3, Residue
<1> QED
  BY <1>4, <1>5 DEF r

(* A number has residue 0 exactly if it is a multiple. *)
LEMMA Multiples ==
    ASSUME NEW x \in Int, NEW d \in Nat \ {0}
    PROVE  /\ x % d = 0 => \E q \in Int : x = d * q
           /\ \A q \in Int : (d * q) % d = 0
<1>1. x % d = 0 => x = d * (x \div d)
  BY Division
<1>2. x \div d \in Int
  BY Division
<1>3. ASSUME NEW q \in Int
      PROVE  (d * q) % d = 0
  <2>1. (d * q + 0) % d = 0
    BY Residue
  <2>2. d * q + 0 = d * q
    OBVIOUS
  <2> QED
    BY <2>1, <2>2
<1> QED
  BY <1>1, <1>2, <1>3

LEMMA SameResidue ==
    ASSUME NEW x \in Int, NEW y \in Int, NEW d \in Nat \ {0}
    PROVE  (x - y) % d = 0 <=> x % d = y % d
<1>1. ASSUME (x - y) % d = 0
      PROVE  x % d = y % d
  <2>1. x - y \in Int
    OBVIOUS
  <2>2. PICK q \in Int : x - y = d * q
    BY <1>1, <2>1, Multiples
  <2>3. x = y + d * q
    BY <2>2
  <2>4. (y + d * q) % d = y % d
    BY ResidueOfMultiple
  <2> QED
    BY <2>3, <2>4
<1>2. ASSUME x % d = y % d
      PROVE  (x - y) % d = 0
  <2> DEFINE j == x \div d
             k == y \div d
             r == x % d
  <2>1. /\ j \in Int /\ k \in Int /\ r \in Int
        /\ x = d * j + r /\ y = d * k + r
    BY <1>2, Division
  <2> HIDE DEF j, k, r
  <2>2. d * (j - k) = d * j - d * k /\ j - k \in Int /\ d * j \in Int /\ d * k \in Int
    BY <2>1
  <2>3. x - y = d * (j - k)
    BY <2>1, <2>2
  <2> QED
    BY <2>2, <2>3, Multiples
<1> QED
  BY <1>1, <1>2

-----------------------------------------------------------------------------
(* Mirrors: two addresses share a place exactly if the NES mirrors them.   *)

Mirrors == {"horizontal", "vertical"}

LEMMA Sizes ==
    /\ OFFSET \in Nat \ {0} /\ TABLE_SIZE \in Nat \ {0} /\ PALETTE_SIZE \in Nat \ {0}
    /\ COLOURS \in Nat \ {0} /\ ROW \in Nat \ {0} /\ HALF_PALETTE \in Nat \ {0}
    /\ PALETTE_SIZE = 2 * HALF_PALETTE
    /\ PALETTE \in Nat /\ VRAM_SIZE \in Nat \ {0}
    /\ TABLES_END = OFFSET + 4 * TABLE_SIZE /\ TABLES_END \in Nat /\ V_SIZE \in Nat \ {0}
    /\ TABLES_END <= PALETTE /\ PALETTE < VRAM_SIZE
    /\ VRAM_SIZE - 4 * TABLE_SIZE <= TABLES_END
    /\ V_SIZE = 4 * VRAM_SIZE
    /\ BYTES \subseteq Nat /\ 0 \in BYTES
<1>1. HALF_PALETTE \in Nat \ {0} /\ PALETTE_SIZE = 2 * HALF_PALETTE
  BY PPUMemoryAssumption DEF HALF_PALETTE
<1> HIDE DEF HALF_PALETTE
<1> QED
  BY <1>1, PPUMemoryAssumption DEF TABLES_END, V_SIZE

LEMMA TablesMirror ==
    ASSUME NEW a \in Nat, NEW b \in Nat, InTables(a), InTables(b), mirror \in Mirrors
    PROVE  /\ mirrorAddress(a) \in 0..(4 * TABLE_SIZE - 1)
           /\ mirrorAddress(a) = mirrorAddress(b) <=> SameCell(a, b)
<1> DEFINE x == a - OFFSET
           y == b - OFFSET
           q == x \div TABLE_SIZE
           r == x % TABLE_SIZE
           p == y \div TABLE_SIZE
           u == y % TABLE_SIZE
<1>1. x \in 0..(4 * TABLE_SIZE - 1) /\ y \in 0..(4 * TABLE_SIZE - 1)
  BY Sizes DEF InTables
<1>2. /\ q \in 0..3 /\ r \in 0..(TABLE_SIZE - 1)
      /\ p \in 0..3 /\ u \in 0..(TABLE_SIZE - 1)
  <2> HIDE DEF x, y
  <2> QED
    BY <1>1, Sizes, SMTT(30)
<1>3. (a - b) % TABLE_SIZE = 0 <=> r = u
  <2>1. x \in Int /\ y \in Int /\ x - y = a - b
    BY Sizes
  <2> HIDE DEF x, y
  <2>2. (x - y) % TABLE_SIZE = 0 <=> x % TABLE_SIZE = y % TABLE_SIZE
    BY <2>1, Sizes, SameResidue
  <2> QED
    BY <2>1, <2>2
<1>4. /\ mirrorAddress(a) = r + getTable(q) * TABLE_SIZE
      /\ mirrorAddress(b) = u + getTable(p) * TABLE_SIZE
      /\ Column(a) = q % 2 /\ Column(b) = p % 2 /\ Line(a) = q \div 2 /\ Line(b) = p \div 2
  BY DEF mirrorAddress, Column, Line, Table
<1> HIDE DEF q, r, p, u
<1>5. /\ getTable(q) \in 0..3 /\ getTable(p) \in 0..3
      /\ getTable(q) = getTable(p)
             <=> IF mirror = "vertical" THEN q % 2 = p % 2 ELSE q \div 2 = p \div 2
  BY <1>2 DEF getTable, Mirrors
<1>6. \A g \in 0..3 : g * TABLE_SIZE \in {0, TABLE_SIZE, 2 * TABLE_SIZE, 3 * TABLE_SIZE}
  BY Sizes
<1>7. mirrorAddress(a) \in 0..(4 * TABLE_SIZE - 1)
  BY <1>2, <1>4, <1>5, <1>6, Sizes
<1>8. mirrorAddress(a) = mirrorAddress(b) <=> r = u /\ getTable(q) = getTable(p)
  <2> DEFINE g == getTable(q)
             h == getTable(p)
  <2>1. g \in 0..3 /\ h \in 0..3
    BY <1>5
  <2> HIDE DEF g, h
  <2>2. r + g * TABLE_SIZE = u + h * TABLE_SIZE <=> r = u /\ g = h
    BY <1>2, <2>1, Sizes
  <2> QED
    BY <1>4, <2>2 DEF g, h
<1> QED
  BY <1>3, <1>4, <1>5, <1>7, <1>8 DEF SameCell

(* The place in the palettes, and its place in one palette and in a part.  *)
LEMMA PaletteResidues ==
    ASSUME NEW a \in Nat
    PROVE  /\ a % PALETTE_SIZE \in 0..(PALETTE_SIZE - 1)
           /\ a % HALF_PALETTE = IF a % PALETTE_SIZE < HALF_PALETTE
                                 THEN a % PALETTE_SIZE
                                 ELSE (a % PALETTE_SIZE) - HALF_PALETTE
           /\ (a - PALETTE) % COLOURS = (a % PALETTE_SIZE) % COLOURS
           /\ (a % HALF_PALETTE) % COLOURS = (a % PALETTE_SIZE) % COLOURS
<1> DEFINE k == a \div PALETTE_SIZE
           p == a % PALETTE_SIZE
           m == PALETTE \div PALETTE_SIZE
           j == HALF_PALETTE \div COLOURS
           h == IF p < HALF_PALETTE THEN p ELSE p - HALF_PALETTE
<1>0. /\ PALETTE_SIZE \in Nat \ {0} /\ HALF_PALETTE \in Nat \ {0} /\ COLOURS \in Nat \ {0}
      /\ PALETTE \in Nat /\ PALETTE % PALETTE_SIZE = 0 /\ HALF_PALETTE % COLOURS = 0
  BY Sizes, PPUMemoryAssumption
<1>1. k \in Int /\ p \in 0..(PALETTE_SIZE - 1) /\ a = PALETTE_SIZE * k + p
  BY <1>0, Division
<1>2. m \in Int /\ PALETTE = PALETTE_SIZE * m
  BY <1>0, Division
<1>3. j \in Int /\ HALF_PALETTE = COLOURS * j
  BY <1>0, Division
<1>4. h \in 0..(HALF_PALETTE - 1) /\ (h = p \/ h = p - HALF_PALETTE)
  BY <1>1, Sizes
<1> HIDE DEF k, p, m, j, h
<1>5. a % HALF_PALETTE = h
  <2> DEFINE n == IF h = p THEN 2 * k ELSE 2 * k + 1
  <2>1. n \in Int
    BY <1>1
  <2>2. PALETTE_SIZE * k = HALF_PALETTE * (2 * k)
    BY <1>1, Sizes
  <2>3. HALF_PALETTE * (2 * k + 1) = HALF_PALETTE * (2 * k) + HALF_PALETTE
    BY <1>1, Sizes
  <2>4. HALF_PALETTE * (2 * k) \in Int
    BY <1>1, Sizes
  <2>5. a = HALF_PALETTE * n + h
    <3>1. CASE h = p
      BY <1>1, <2>2, <2>4, <3>1
    <3>2. CASE h # p
      <4>1. h = p - HALF_PALETTE
        BY <1>4, <3>2
      <4>2. HALF_PALETTE * n = HALF_PALETTE * (2 * k) + HALF_PALETTE
        BY <2>3, <3>2
      <4> QED
        BY <1>1, <2>2, <2>4, <4>1, <4>2, Sizes
    <3> QED
      BY <3>1, <3>2
  <2> HIDE DEF n
  <2>6. (HALF_PALETTE * n + h) % HALF_PALETTE = h
    BY <1>4, <2>1, Sizes, Residue
  <2> QED
    BY <2>5, <2>6
<1>6. (a - PALETTE) % COLOURS = p % COLOURS
  <2> DEFINE n == j * (2 * (k - m))
  <2>1. n \in Int
    BY <1>1, <1>2, <1>3
  <2>2. PALETTE_SIZE * (k - m) = PALETTE_SIZE * k - PALETTE_SIZE * m
    BY <1>1, <1>2, Sizes
  <2>3. PALETTE_SIZE * (k - m) = HALF_PALETTE * (2 * (k - m))
    BY <1>1, <1>2, Sizes
  <2>4. HALF_PALETTE * (2 * (k - m)) = COLOURS * n
    BY <1>1, <1>2, <1>3, Sizes
  <2> HIDE DEF n
  <2>5. a - PALETTE = p + COLOURS * n
    BY <1>1, <1>2, <2>1, <2>2, <2>3, <2>4, Sizes
  <2>6. (p + COLOURS * n) % COLOURS = p % COLOURS
    BY <1>1, <2>1, Sizes, ResidueOfMultiple
  <2> QED
    BY <2>5, <2>6
<1>7. h % COLOURS = p % COLOURS
  <2>1. (p - COLOURS * j) % COLOURS = p % COLOURS
    BY <1>1, <1>3, Sizes, ResidueOfMultiple
  <2> QED
    BY <1>3, <1>4, <2>1
<1> QED
  BY <1>1, <1>5, <1>6, <1>7 DEF p, h

LEMMA ColoursMirror ==
    ASSUME NEW a \in Nat, NEW b \in Nat, InPalette(a), InPalette(b)
    PROVE  /\ Colour(a) \in 0..(PALETTE_SIZE - 1)
           /\ Colour(a) = Colour(b) <=> SameColour(a, b)
<1> DEFINE p == a % PALETTE_SIZE
           t == b % PALETTE_SIZE
           h == a % HALF_PALETTE
           g == b % HALF_PALETTE
           c == p % COLOURS
           d == t % COLOURS
<1>1. /\ p \in 0..(PALETTE_SIZE - 1) /\ h = IF p < HALF_PALETTE THEN p ELSE p - HALF_PALETTE
      /\ t \in 0..(PALETTE_SIZE - 1) /\ g = IF t < HALF_PALETTE THEN t ELSE t - HALF_PALETTE
      /\ (a - PALETTE) % COLOURS = c /\ (b - PALETTE) % COLOURS = d
      /\ h = g => c = d
  BY PaletteResidues
<1>2. /\ (a - b) % PALETTE_SIZE = 0 <=> p = t
      /\ (a - b) % HALF_PALETTE = 0 <=> h = g
  <2>1. PALETTE_SIZE \in Nat \ {0} /\ HALF_PALETTE \in Nat \ {0}
    BY Sizes
  <2>2. ASSUME NEW x \in Int, NEW y \in Int
        PROVE  /\ (x - y) % PALETTE_SIZE = 0 <=> x % PALETTE_SIZE = y % PALETTE_SIZE
               /\ (x - y) % HALF_PALETTE = 0 <=> x % HALF_PALETTE = y % HALF_PALETTE
    BY <2>1, SameResidue
  <2>3. a \in Int /\ b \in Int
    OBVIOUS
  <2> QED
    BY <2>2, <2>3
<1>3. /\ Colour(a) = IF p >= HALF_PALETTE /\ c = 0 THEN p - HALF_PALETTE ELSE p
      /\ Colour(b) = IF t >= HALF_PALETTE /\ d = 0 THEN t - HALF_PALETTE ELSE t
  BY DEF Colour
<1>4. SameColour(a, b) <=> p = t \/ (h = g /\ c = 0)
  BY <1>1, <1>2 DEF SameColour
<1> HIDE DEF p, t, h, g, c, d
<1>5. Colour(a) \in 0..(PALETTE_SIZE - 1)
  BY <1>1, <1>3, Sizes
<1>6. Colour(a) = Colour(b) <=> p = t \/ (h = g /\ c = 0)
  BY <1>1, <1>3, Sizes
<1> QED
  BY <1>1, <1>4, <1>5, <1>6

-----------------------------------------------------------------------------
(* The memory of the PPU.                                                  *)

LEMMA ReadsBytes ==
    ASSUME PPUMemoryTypeOK, NEW a \in Nat
    PROVE  ReadPPU(a) \in BYTES
<1>1. CASE InPatterns(a)
  <2>1. ReadPPU(a) = chr[a] /\ a \in 0..(OFFSET - 1)
    BY <1>1, Sizes DEF ReadPPU, InPatterns, InTables, InPalette
  <2> QED
    BY <2>1 DEF PPUMemoryTypeOK
<1>2. CASE InTables(a)
  <2>1. mirrorAddress(a) \in 0..(4 * TABLE_SIZE - 1)
    BY <1>2, TablesMirror DEF PPUMemoryTypeOK, Mirrors
  <2>2. ReadPPU(a) = nameTable[mirrorAddress(a)]
    BY <1>2, Sizes DEF ReadPPU, InPatterns, InTables, InPalette
  <2> QED
    BY <2>1, <2>2 DEF PPUMemoryTypeOK
<1>3. CASE InPalette(a)
  <2>1. Colour(a) \in 0..(PALETTE_SIZE - 1)
    BY <1>3, ColoursMirror
  <2>2. ReadPPU(a) = palette[Colour(a)]
    BY <1>3, Sizes DEF ReadPPU, InPatterns, InTables, InPalette
  <2> QED
    BY <2>1, <2>2 DEF PPUMemoryTypeOK
<1>4. CASE ~InPatterns(a) /\ ~InTables(a) /\ ~InPalette(a)
  BY <1>4, Sizes DEF ReadPPU
<1> QED
  BY <1>1, <1>2, <1>3, <1>4

(* What each part of the memory holds after a write.                       *)
LEMMA WritesPlace ==
    ASSUME PPUMemoryTypeOK, NEW b \in Nat, NEW value \in BYTES,
           WritePPU(b, value), UNCHANGED mirror
    PROVE  /\ chr' \in [0..(OFFSET - 1) -> BYTES]
           /\ nameTable' \in [0..(4 * TABLE_SIZE - 1) -> BYTES]
           /\ palette' \in [0..(PALETTE_SIZE - 1) -> BYTES]
           /\ \A a \in PPUAddresses :
                ReadPPU(a)' = IF Holds(a) /\ SamePlace(a, b) THEN value ELSE ReadPPU(a)
<1>0. /\ chr \in [0..(OFFSET - 1) -> BYTES]
      /\ nameTable \in [0..(4 * TABLE_SIZE - 1) -> BYTES]
      /\ palette \in [0..(PALETTE_SIZE - 1) -> BYTES]
      /\ mirror \in Mirrors
  BY DEF PPUMemoryTypeOK, Mirrors
<1>1. /\ chr' = IF InPatterns(b) THEN [chr EXCEPT ![b] = value] ELSE chr
      /\ chr' \in [0..(OFFSET - 1) -> BYTES]
  BY <1>0 DEF WritePPU
<1>2. /\ nameTable' = IF InTables(b) THEN [nameTable EXCEPT ![mirrorAddress(b)] = value]
                                    ELSE nameTable
      /\ nameTable' \in [0..(4 * TABLE_SIZE - 1) -> BYTES]
  BY <1>0 DEF WritePPU
<1>3. /\ palette' = IF InPalette(b) THEN [palette EXCEPT ![Colour(b)] = value] ELSE palette
      /\ palette' \in [0..(PALETTE_SIZE - 1) -> BYTES]
  BY <1>0 DEF WritePPU
<1>4. ASSUME NEW a \in PPUAddresses
      PROVE  ReadPPU(a)' = IF Holds(a) /\ SamePlace(a, b) THEN value ELSE ReadPPU(a)
  <2>0. a \in Nat
    BY DEF PPUAddresses
  <2>1. CASE InPatterns(a)
    <3>1. ReadPPU(a)' = chr'[a] /\ ReadPPU(a) = chr[a] /\ Holds(a) /\ a \in 0..(OFFSET - 1)
      BY <2>0, <2>1, Sizes DEF ReadPPU, InPatterns, InTables, InPalette, Holds
    <3>2. SamePlace(a, b) <=> a = b
      BY <2>0, <2>1, Sizes
         DEF SamePlace, SameCell, SameColour, InPatterns, InTables, InPalette
    <3>3. chr'[a] = IF a = b THEN value ELSE chr[a]
      BY <1>0, <1>1, <2>1, <3>1
    <3> QED
      BY <3>1, <3>2, <3>3
  <2>2. CASE InTables(a)
    <3>1. /\ ReadPPU(a)' = nameTable'[mirrorAddress(a)] /\ ReadPPU(a) = nameTable[mirrorAddress(a)]
          /\ Holds(a) /\ ~InPalette(a)
      BY <2>0, <2>2, Sizes
         DEF ReadPPU, InPatterns, InTables, InPalette, Holds, mirrorAddress, getTable
    <3>2. mirrorAddress(a) \in 0..(4 * TABLE_SIZE - 1)
      BY <1>0, <2>0, <2>2, TablesMirror
    <3>3. CASE InTables(b)
      <4>1. mirrorAddress(a) = mirrorAddress(b) <=> SameCell(a, b)
        BY <1>0, <2>0, <2>2, <3>3, TablesMirror
      <4>2. SamePlace(a, b) <=> mirrorAddress(a) = mirrorAddress(b)
        BY <3>1, <4>1 DEF SamePlace, SameColour
      <4> QED
        BY <1>0, <1>2, <3>1, <3>2, <3>3, <4>2
    <3>4. CASE ~InTables(b)
      <4>1. ~SamePlace(a, b)
        BY <2>2, <3>1, <3>4 DEF SamePlace, SameCell, SameColour
      <4> QED
        BY <1>2, <3>1, <3>4, <4>1
    <3> QED
      BY <3>3, <3>4
  <2>3. CASE InPalette(a)
    <3>1. /\ ReadPPU(a)' = palette'[Colour(a)] /\ ReadPPU(a) = palette[Colour(a)]
          /\ Holds(a) /\ ~InTables(a)
      BY <2>0, <2>3, Sizes
         DEF ReadPPU, InPatterns, InTables, InPalette, Holds, Colour
    <3>2. Colour(a) \in 0..(PALETTE_SIZE - 1)
      BY <2>0, <2>3, ColoursMirror
    <3>3. CASE InPalette(b)
      <4>1. Colour(a) = Colour(b) <=> SameColour(a, b)
        BY <2>0, <2>3, <3>3, ColoursMirror
      <4>2. SamePlace(a, b) <=> Colour(a) = Colour(b)
        BY <3>1, <4>1 DEF SamePlace, SameCell
      <4> QED
        BY <1>0, <1>3, <3>1, <3>2, <3>3, <4>2
    <3>4. CASE ~InPalette(b)
      <4>1. ~SamePlace(a, b)
        BY <2>3, <3>1, <3>4 DEF SamePlace, SameCell, SameColour
      <4> QED
        BY <1>3, <3>1, <3>4, <4>1
    <3> QED
      BY <3>3, <3>4
  <2>4. CASE ~Holds(a)
    BY <2>4 DEF Holds, ReadPPU, InPatterns, InTables, InPalette
  <2> QED
    BY <2>1, <2>2, <2>3, <2>4 DEF Holds
<1> QED
  BY <1>1, <1>2, <1>3, <1>4

(* What a read of PPUDATA puts in the buffer is what the PPU's addresses   *)
(* hold where the name tables would go on.                                 *)
LEMMA BufferedPlace ==
    ASSUME PPUMemoryTypeOK
    PROVE  /\ MaskedVram \in PPUAddresses
           /\ BufferedFrom(MaskedVram) \in PPUAddresses
           /\ Buffered = ReadPPU(BufferedFrom(MaskedVram))
           /\ MaskedVram >= PALETTE <=> InPalette(MaskedVram)
<1> DEFINE a == MaskedVram
<1>1. a \in 0..(VRAM_SIZE - 1)
  <2>1. currentVram \in Int /\ VRAM_SIZE \in Nat \ {0}
    BY Sizes DEF PPUMemoryTypeOK
  <2> QED
    BY <2>1, Division DEF MaskedVram
<1>2. Buffered = IF a >= PALETTE THEN ReadPPU(a - 4 * TABLE_SIZE) ELSE ReadPPU(a)
  BY DEF Buffered
<1> HIDE DEF a
<1>3. a >= PALETTE <=> InPalette(a)
  BY <1>1, Sizes DEF InPalette
<1>4. CASE a >= PALETTE
  <2> DEFINE t == 4 * TABLE_SIZE
             x == a - OFFSET - t
  <2>1. t \in Nat \ {0} /\ x \in 0..(t - 1) /\ a - OFFSET = t * 1 + x
    BY <1>1, <1>4, Sizes
  <2> HIDE DEF t, x
  <2>2. (t * 1 + x) % t = x
    BY <2>1, Residue
  <2>3. BufferedFrom(a) = OFFSET + x
    BY <1>3, <1>4, <2>1, <2>2 DEF BufferedFrom, t
  <2>4. OFFSET + x = a - 4 * TABLE_SIZE
    BY <1>1, Sizes DEF x, t
  <2>5. OFFSET + x \in 0..(VRAM_SIZE - 1)
    BY <1>1, <1>4, <2>4, Sizes
  <2> QED
    BY <1>1, <1>2, <1>3, <1>4, <2>3, <2>4, <2>5 DEF PPUAddresses, a
<1>5. CASE ~(a >= PALETTE)
  BY <1>1, <1>2, <1>3, <1>5 DEF BufferedFrom, PPUAddresses, a
<1> QED
  BY <1>4, <1>5

-----------------------------------------------------------------------------
(* Plain memory.                                                           *)

LEMMA MapSizes ==
    /\ PAGE \in Nat \ {0} /\ RAM_SIZE \in Nat \ {0} /\ RAM_END \in Nat \ {0}
    /\ PORTS_END \in Nat /\ OAMDMA \in Nat /\ PRG_RAM \in Nat /\ PRG_ROM \in Nat
    /\ END \in Nat \ {0}
    /\ RAM_END <= PORTS_END /\ PORTS_END <= OAMDMA /\ OAMDMA + 3 < PRG_RAM
    /\ PRG_RAM <= PRG_ROM /\ PRG_ROM < END
    /\ PORT.left = OAMDMA + 2 /\ PORT.right = OAMDMA + 3
    /\ PORT["left"] = OAMDMA + 2 /\ PORT["right"] = OAMDMA + 3
BY CPUMemoryAssumption DEF PORT

CPUAddresses == 0..(END - 1)

MemoryTypeOK ==
    /\ ram \in [0..(RAM_SIZE - 1) -> BYTES]
    /\ prgRam \in [0..(PRG_ROM - PRG_RAM - 1) -> BYTES]

LEMMA RamMirrors ==
    ASSUME NEW a \in Nat, NEW b \in Nat
    PROVE  /\ RamPlace(a) \in 0..(RAM_SIZE - 1)
           /\ a < RAM_END /\ b < RAM_END => (SameRam(a, b) <=> RamPlace(a) = RamPlace(b))
<1>1. RAM_SIZE \in Nat \ {0} /\ a \in Int /\ b \in Int
  BY MapSizes
<1>2. RamPlace(a) \in 0..(RAM_SIZE - 1)
  BY <1>1, Division DEF RamPlace
<1>3. (a - b) % RAM_SIZE = 0 <=> a % RAM_SIZE = b % RAM_SIZE
  BY <1>1, SameResidue
<1> QED
  BY <1>2, <1>3 DEF SameRam, RamPlace

LEMMA ReadsMemoryBytes ==
    ASSUME MemoryTypeOK, NEW a \in Nat
    PROVE  ReadMemory(a) \in BYTES
<1>1. CASE InRam(a)
  <2>1. ReadMemory(a) = ram[RamPlace(a)]
    BY <1>1, MapSizes DEF ReadMemory, InRam, InPrgRam
  <2>2. RamPlace(a) \in 0..(RAM_SIZE - 1)
    BY RamMirrors
  <2> QED
    BY <2>1, <2>2 DEF MemoryTypeOK
<1>2. CASE InPrgRam(a)
  <2>1. ReadMemory(a) = prgRam[a - PRG_RAM] /\ a - PRG_RAM \in 0..(PRG_ROM - PRG_RAM - 1)
    BY <1>2, MapSizes DEF ReadMemory, InRam, InPrgRam
  <2> QED
    BY <2>1 DEF MemoryTypeOK
<1>3. CASE ~InRam(a) /\ ~InPrgRam(a)
  BY <1>3, Sizes DEF ReadMemory, prgRom
<1> QED
  BY <1>1, <1>2, <1>3

LEMMA WritesMemoryPlace ==
    ASSUME MemoryTypeOK, NEW b \in Nat, NEW value \in BYTES, WriteMemory(b, value)
    PROVE  /\ MemoryTypeOK'
           /\ \A a \in CPUAddresses :
                ReadMemory(a)' = IF SameRam(a, b) /\ (InRam(a) \/ InPrgRam(a))
                                 THEN value ELSE ReadMemory(a)
<1>1. /\ ram' = IF InRam(b) THEN [ram EXCEPT ![RamPlace(b)] = value] ELSE ram
      /\ ram' \in [0..(RAM_SIZE - 1) -> BYTES]
  BY DEF WriteMemory, MemoryTypeOK
<1>2. /\ prgRam' = IF InPrgRam(b) THEN [prgRam EXCEPT ![b - PRG_RAM] = value] ELSE prgRam
      /\ prgRam' \in [0..(PRG_ROM - PRG_RAM - 1) -> BYTES]
  BY DEF WriteMemory, MemoryTypeOK
<1>3. ASSUME NEW a \in CPUAddresses
      PROVE  ReadMemory(a)' = IF SameRam(a, b) /\ (InRam(a) \/ InPrgRam(a))
                              THEN value ELSE ReadMemory(a)
  <2>0. a \in Nat
    BY DEF CPUAddresses
  <2>1. CASE InRam(a)
    <3>0. RamPlace(a) \in 0..(RAM_SIZE - 1)
      BY <2>0, RamMirrors
    <3>1. ReadMemory(a)' = ram'[RamPlace(a)] /\ ReadMemory(a) = ram[RamPlace(a)]
      BY <2>0, <2>1, MapSizes DEF ReadMemory, InRam, InPrgRam, RamPlace
    <3>2. CASE InRam(b)
      <4>1. SameRam(a, b) <=> RamPlace(a) = RamPlace(b)
        BY <2>0, <2>1, <3>2, RamMirrors DEF InRam
      <4> QED
        BY <1>1, <2>1, <3>0, <3>1, <3>2, <4>1 DEF MemoryTypeOK
    <3>3. CASE ~InRam(b)
      <4>1. ~SameRam(a, b)
        BY <2>0, <2>1, <3>3 DEF SameRam, InRam
      <4> QED
        BY <1>1, <3>1, <3>3, <4>1
    <3> QED
      BY <3>2, <3>3
  <2>2. CASE InPrgRam(a)
    <3>1. /\ ReadMemory(a)' = prgRam'[a - PRG_RAM] /\ ReadMemory(a) = prgRam[a - PRG_RAM]
          /\ a - PRG_RAM \in 0..(PRG_ROM - PRG_RAM - 1) /\ ~InRam(a)
      BY <2>0, <2>2, MapSizes DEF ReadMemory, InRam, InPrgRam
    <3>2. SameRam(a, b) <=> a = b
      BY <2>0, <3>1 DEF SameRam, InRam
    <3>3. InPrgRam(b) => (a = b <=> a - PRG_RAM = b - PRG_RAM)
      BY <2>0, MapSizes
    <3> QED
      BY <1>2, <2>2, <3>1, <3>2, <3>3 DEF MemoryTypeOK
  <2>3. CASE ~InRam(a) /\ ~InPrgRam(a)
    <3>1. ReadMemory(a)' = ReadMemory(a)
      BY <2>3 DEF ReadMemory, RomPlace, InRam, InPrgRam, WriteMemory
    <3> QED
      BY <2>3, <3>1
  <2> QED
    BY <2>1, <2>2, <2>3
<1> QED
  BY <1>1, <1>2, <1>3 DEF MemoryTypeOK

-----------------------------------------------------------------------------
(* What is where.                                                          *)

LEMMA Ports ==
    ASSUME NEW address
    PROVE  /\ IsController(address) <=> address = OAMDMA + 2 \/ address = OAMDMA + 3
           /\ \A side \in Sides : IsController(PORT[side]) /\ SideOf(PORT[side]) = side
           /\ IsController(address) => SideOf(address) \in Sides /\ PORT[SideOf(address)] = address
<1>1. PORT["left"] = OAMDMA + 2 /\ PORT["right"] = OAMDMA + 3 /\ OAMDMA + 2 # OAMDMA + 3
  BY MapSizes
<1>2. IsController(address) <=> address = OAMDMA + 2 \/ address = OAMDMA + 3
  BY <1>1 DEF IsController, Sides
<1>3. \A side, other \in Sides : PORT[side] = PORT[other] <=> side = other
  BY <1>1 DEF Sides
<1>4. \A side \in Sides : IsController(PORT[side])
  BY DEF IsController
<1>5. \A side \in Sides : SideOf(PORT[side]) = side
  BY <1>3 DEF SideOf
<1>6. IsController(address) => \E side \in Sides : PORT[side] = address
  BY DEF IsController
<1> QED
  BY <1>2, <1>4, <1>5, <1>6

LEMMA Regions ==
    ASSUME NEW address \in Nat
    PROVE  /\ InPorts(address) => /\ ~InRam(address) /\ ~InPrgRam(address) /\ address # OAMDMA
                                  /\ ~IsController(address)
           /\ address = OAMDMA => /\ ~InRam(address) /\ ~InPrgRam(address) /\ ~InPorts(address)
                                  /\ ~IsController(address)
           /\ IsController(address) => /\ ~InRam(address) /\ ~InPrgRam(address)
                                       /\ ~InPorts(address) /\ address # OAMDMA
           /\ InRam(address) => /\ ~InPorts(address) /\ address # OAMDMA /\ ~IsController(address)
           /\ InPrgRam(address) => /\ ~InPorts(address) /\ address # OAMDMA
                                   /\ ~IsController(address)
<1>1. IsController(address) <=> address = OAMDMA + 2 \/ address = OAMDMA + 3
  BY Ports
<1> QED
  BY <1>1, MapSizes DEF InRam, InPorts, InPrgRam

LEMMA Registers ==
    ASSUME NEW address \in Nat
    PROVE  Register(address) \in 0..7
BY DEF Register

-----------------------------------------------------------------------------
(* The invariant.                                                          *)

FlatIsWhole ==
    /\ flat.cpu = [a \in CPUAddresses |-> flat.cpu[a]]
    /\ flat.vram = [a \in PPUAddresses |-> flat.vram[a]]

(* The memories are the flat one, the places included that hold nothing.   *)
MemoriesMatch ==
    /\ \A a \in DOMAIN flat.cpu : ReadMemory(a) = flat.cpu[a]
    /\ \A a \in DOMAIN flat.vram : ReadPPU(a) = flat.vram[a]
    /\ oam = flat.oam

(* While PPUDATA is only read, its buffer holds what was found last. *)
BufferIsKnown ==
    \A a \in previous : a \in PPUAddresses /\ bufferedValue = flat.vram[a]

(* A poll that follows whole ones is where the index says. *)
PollsAreKnown ==
    \A side \in Sides :
        /\ polled[side] \in [reads : Buttons, whole : BOOLEAN]
        /\ polled[side].whole => index[side] = polled[side].reads

Inv ==
    /\ TypeOK
    /\ program \subseteq CPUAddresses
    /\ FlatIsWhole
    /\ MemoriesMatch
    /\ BufferIsKnown
    /\ PollsAreKnown

LEMMA InvDef ==
    TypeOK <=> /\ PPUMemoryTypeOK /\ ControllerTypeOK /\ MemoryTypeOK
               /\ oam \in [0..(PAGE - 1) -> BYTES] /\ oamAddress \in 0..(PAGE - 1)
               /\ running \in BOOLEAN /\ accesses \in 0..MAX_ACCESSES
BY DEF TypeOK, MemoryTypeOK

LEMMA IncrementKeepsWidth ==
    ASSUME PPUMemoryTypeOK, IncrementVram
    PROVE  currentVram' \in 0..(V_SIZE - 1)
<1>1. currentVram + (IF incrementFlag THEN ROW ELSE 1) \in Int /\ V_SIZE \in Nat \ {0}
  BY Sizes DEF PPUMemoryTypeOK
<1> QED
  BY <1>1, Division DEF IncrementVram

LEMMA CountsAccess ==
    ASSUME TypeOK, CanAccess, NEW op, NEW address, NEW value, Remember(op, address, value)
    PROVE  accesses' \in 0..MAX_ACCESSES
<1>1. MAX_ACCESSES \in Nat
  BY CPUMemoryAssumption
<1>2. accesses \in 0..MAX_ACCESSES /\ accesses < MAX_ACCESSES
  BY DEF TypeOK, CanAccess
<1>3. accesses' = accesses \/ accesses' = accesses + 1
  BY DEF Remember
<1> QED
  BY <1>1, <1>2, <1>3

(* What a read does. *)
LEMMA ReadEffect ==
    ASSUME Inv, NEW address \in program, Read(address)
    PROVE  /\ UNCHANGED <<chr, nameTable, palette, mirror, incrementFlag, buttons, strobe,
                          ram, prgRam, isNrom_128, oam, oamAddress, program, flat>>
           /\ running' \in BOOLEAN /\ accesses' \in 0..MAX_ACCESSES
           /\ IF IsPort(address, 7)
              THEN bufferedValue' = Buffered /\ currentVram' \in 0..(V_SIZE - 1)
              ELSE UNCHANGED <<bufferedValue, currentVram>>
           /\ IF IsController(address)
              THEN index' = [index EXCEPT ![SideOf(address)] = AfterRead(SideOf(address))]
              ELSE UNCHANGED index
           /\ Remember("read", address, Value(address))
<1>0. address \in Nat /\ TypeOK /\ PPUMemoryTypeOK
  BY DEF Inv, TypeOK, CPUAddresses
<1>1. running \in BOOLEAN /\ accesses' \in 0..MAX_ACCESSES
  BY <1>0, CountsAccess DEF TypeOK, Read
<1>2. UNCHANGED <<program, flat>> /\ Remember("read", address, Value(address))
  BY DEF Read, Remember
<1>3. CASE InPorts(address)
  <2>1. readRegister(Register(address)) /\ address # OAMDMA /\ ~IsController(address)
    BY <1>0, <1>3, Regions DEF Read
  <2>2. CASE Register(address) \in WriteOnly
    <3>1. Refuse /\ Register(address) # 7
      BY <2>1, <2>2 DEF readRegister, WriteOnly
    <3> QED
      BY <1>1, <1>2, <2>1, <3>1 DEF Refuse, IsPort, ppuMemoryVars, controllerVars, memoryVars,
                                    oamVars
  <2>3. CASE Register(address) = 7
    <3>1. readPPUDATA /\ UNCHANGED <<controllerVars, memoryVars, oamVars, running>>
      BY <2>1, <2>3 DEF readRegister, WriteOnly
    <3> QED
      BY <1>0, <1>1, <1>2, <1>3, <2>1, <2>3, <3>1, IncrementKeepsWidth
         DEF readPPUDATA, IsPort, controllerVars, memoryVars, oamVars
  <2>4. CASE Register(address) \notin WriteOnly /\ Register(address) # 7
    BY <1>1, <1>2, <2>1, <2>4 DEF readRegister, IsPort, ppuMemoryVars,
                                  controllerVars, memoryVars, oamVars
  <2> QED
    BY <2>2, <2>3, <2>4
<1>4. CASE address = OAMDMA
  <2>1. Refuse /\ ~InPorts(address) /\ ~IsController(address)
    BY <1>0, <1>4, Regions DEF Read
  <2> QED
    BY <1>1, <1>2, <2>1 DEF Refuse, IsPort, ppuMemoryVars, controllerVars, memoryVars, oamVars
<1>5. CASE IsController(address)
  <2>1. /\ readController(SideOf(address)) /\ UNCHANGED <<ppuMemoryVars, memoryVars, oamVars, running>>
        /\ ~InPorts(address)
    BY <1>0, <1>5, Regions DEF Read
  <2> QED
    BY <1>1, <1>2, <1>5, <2>1 DEF readController, IsPort, ppuMemoryVars, memoryVars, oamVars
<1>6. CASE ~InPorts(address) /\ address # OAMDMA /\ ~IsController(address)
  <2>1. UNCHANGED <<ppuMemoryVars, controllerVars, memoryVars, oamVars, running>>
    BY <1>6 DEF Read
  <2> QED
    BY <1>1, <1>2, <1>6, <2>1 DEF IsPort, ppuMemoryVars, controllerVars, memoryVars, oamVars
<1> QED
  BY <1>3, <1>4, <1>5, <1>6

(* The values that are bytes, and those that are not. *)
LEMMA ValuesWritten ==
    ASSUME NEW address \in Nat, NEW value \in ValuesAt(address)
    PROVE  /\ IsPort(address, 3) => value \in 0..(PAGE - 1)
           /\ address = OAMDMA => value \in 0..((END \div PAGE) - 1)
           /\ IsController(address) => value \in {0, 1}
           /\ ~IsPort(address, 3) /\ address # OAMDMA /\ ~IsController(address)
                => value \in BYTES
<1>1. /\ IsPort(address, 3) => address # OAMDMA /\ ~IsController(address)
      /\ address = OAMDMA => ~IsPort(address, 3) /\ ~IsController(address)
      /\ IsController(address) => ~IsPort(address, 3) /\ address # OAMDMA
  BY Regions DEF IsPort
<1> QED
  BY <1>1 DEF ValuesAt

(* What a write does. *)
LEMMA WriteEffect ==
    ASSUME Inv, NEW address \in program, NEW value \in ValuesAt(address), Write(address, value)
    PROVE  /\ UNCHANGED <<mirror, bufferedValue, isNrom_128, buttons, index, program>>
           /\ running' \in BOOLEAN /\ accesses' \in 0..MAX_ACCESSES
           /\ incrementFlag' \in BOOLEAN
           /\ IF IsPort(address, 7)
              THEN /\ WritePPU(currentVram, value) /\ currentVram' \in 0..(V_SIZE - 1)
                   /\ value \in BYTES
              ELSE UNCHANGED <<chr, nameTable, palette, currentVram>>
           /\ IF IsController(address)
              THEN strobe' = [strobe EXCEPT ![SideOf(address)] = value % 2 = 1]
              ELSE UNCHANGED strobe
           /\ IF InRam(address) \/ InPrgRam(address)
              THEN WriteMemory(address, value) /\ value \in BYTES
              ELSE UNCHANGED <<ram, prgRam>>
           /\ IF IsPort(address, 4)
              THEN oam' = [oam EXCEPT ![oamAddress] = value] /\ value \in BYTES
              ELSE IF address = OAMDMA /\ running' THEN uploadToOamdata(value)
              ELSE UNCHANGED oam
           /\ oamAddress' \in 0..(PAGE - 1)
           /\ Remember("write", address, value)
<1>0. /\ address \in Nat /\ TypeOK /\ PPUMemoryTypeOK /\ running \in BOOLEAN
      /\ incrementFlag \in BOOLEAN /\ oamAddress \in 0..(PAGE - 1)
  BY DEF Inv, TypeOK, PPUMemoryTypeOK, CPUAddresses
<1>1. accesses' \in 0..MAX_ACCESSES
  BY <1>0, CountsAccess DEF Write
<1>2. UNCHANGED program /\ Remember("write", address, value)
  BY DEF Write, Remember
<1>3. CASE InPorts(address)
  <2>1. /\ writeRegister(Register(address), value)
        /\ address # OAMDMA /\ ~IsController(address) /\ ~InRam(address) /\ ~InPrgRam(address)
    BY <1>0, <1>3, Regions DEF Write
  <2>2. \A register : IsPort(address, register) <=> Register(address) = register
    BY <1>3 DEF IsPort
  <2>3. CASE Register(address) = 2
    <3>1. Refuse /\ ~IsPort(address, 7) /\ ~IsPort(address, 4)
      BY <2>1, <2>2, <2>3 DEF writeRegister, ReadOnly
    <3> QED
      BY <1>0, <1>1, <1>2, <2>1, <3>1
         DEF Refuse, ppuMemoryVars, controllerVars, memoryVars, oamVars
  <2>4. CASE Register(address) = 0
    <3>1. /\ writeIncrementFlag(value > 0) /\ UNCHANGED <<controllerVars, memoryVars, oamVars, running>>
          /\ ~IsPort(address, 7) /\ ~IsPort(address, 4)
      BY <2>1, <2>2, <2>4 DEF writeRegister, ReadOnly
    <3> QED
      BY <1>0, <1>1, <1>2, <2>1, <3>1
         DEF writeIncrementFlag, controllerVars, memoryVars, oamVars
  <2>5. CASE Register(address) = 3
    <3>1. /\ oamAddress' = value
          /\ UNCHANGED <<ppuMemoryVars, controllerVars, memoryVars, oam, running>>
          /\ ~IsPort(address, 7) /\ ~IsPort(address, 4) /\ IsPort(address, 3)
      BY <2>1, <2>2, <2>5 DEF writeRegister, ReadOnly
    <3>2. oamAddress' \in 0..(PAGE - 1)
      BY <1>0, <3>1, ValuesWritten
    <3> QED
      BY <1>0, <1>1, <1>2, <2>1, <3>1, <3>2
         DEF ppuMemoryVars, controllerVars, memoryVars
  <2>6. CASE Register(address) = 4
    <3>1. /\ writeOAMDATA(value)
          /\ UNCHANGED <<ppuMemoryVars, controllerVars, memoryVars, running>>
          /\ ~IsPort(address, 7) /\ IsPort(address, 4) /\ ~IsPort(address, 3)
      BY <2>1, <2>2, <2>6 DEF writeRegister, ReadOnly
    <3>2. value \in BYTES
      BY <1>0, <2>1, <3>1, ValuesWritten
    <3>3. oamAddress' \in 0..(PAGE - 1)
      <4>1. oamAddress + 1 \in Int /\ PAGE \in Nat \ {0}
        BY <1>0, MapSizes
      <4> QED
        BY <3>1, <4>1, Division DEF writeOAMDATA, incrementOamAddress
    <3> QED
      BY <1>0, <1>1, <1>2, <2>1, <3>1, <3>2, <3>3
         DEF writeOAMDATA, ppuMemoryVars, controllerVars, memoryVars
  <2>7. CASE Register(address) = 7
    <3>1. /\ writePPUDATA(value)
          /\ UNCHANGED <<controllerVars, memoryVars, oamVars, running>>
          /\ IsPort(address, 7) /\ ~IsPort(address, 4) /\ ~IsPort(address, 3)
      BY <2>1, <2>2, <2>7 DEF writeRegister, ReadOnly
    <3>2. value \in BYTES
      BY <1>0, <2>1, <3>1, ValuesWritten
    <3>3. currentVram' \in 0..(V_SIZE - 1)
      BY <1>0, <3>1, IncrementKeepsWidth DEF writePPUDATA
    <3> QED
      BY <1>0, <1>1, <1>2, <2>1, <3>1, <3>2, <3>3
         DEF writePPUDATA, controllerVars, memoryVars, oamVars
  <2>8. CASE Register(address) \notin {0, 2, 3, 4, 7}
    <3>1. /\ UNCHANGED <<ppuMemoryVars, controllerVars, memoryVars, oamVars, running>>
          /\ ~IsPort(address, 7) /\ ~IsPort(address, 4)
      BY <2>1, <2>2, <2>8 DEF writeRegister, ReadOnly
    <3> QED
      BY <1>0, <1>1, <1>2, <2>1, <3>1 DEF ppuMemoryVars, controllerVars, memoryVars, oamVars
  <2> QED
    BY <2>3, <2>4, <2>5, <2>6, <2>7, <2>8
<1>4. CASE address = OAMDMA
  <2>1. /\ writeOAMDMA(value) /\ ~InPorts(address) /\ ~IsController(address) /\ ~InRam(address)
        /\ ~InPrgRam(address)
    BY <1>0, <1>4, Regions DEF Write
  <2>2. ~IsPort(address, 7) /\ ~IsPort(address, 4) /\ running
    BY <2>1 DEF IsPort, Write, CanAccess
  <2>3. CASE CannotUpload(value)
    <3>1. Refuse
      BY <2>1, <2>3 DEF writeOAMDMA
    <3> QED
      BY <1>0, <1>1, <1>2, <2>1, <2>2, <3>1
         DEF Refuse, ppuMemoryVars, controllerVars, memoryVars, oamVars
  <2>4. CASE ~CannotUpload(value)
    <3>1. /\ uploadToOamdata(value)
          /\ UNCHANGED <<ppuMemoryVars, controllerVars, memoryVars, oamAddress, running>>
      BY <2>1, <2>4 DEF writeOAMDMA
    <3> QED
      BY <1>0, <1>1, <1>2, <1>4, <2>1, <2>2, <3>1 DEF ppuMemoryVars, controllerVars, memoryVars
  <2> QED
    BY <2>3, <2>4
<1>5. CASE IsController(address)
  <2>1. /\ writeController(SideOf(address), value)
        /\ UNCHANGED <<ppuMemoryVars, memoryVars, oamVars, running>>
        /\ ~InPorts(address) /\ ~InRam(address) /\ ~InPrgRam(address) /\ address # OAMDMA
    BY <1>0, <1>5, Regions DEF Write
  <2> QED
    BY <1>0, <1>1, <1>2, <1>5, <2>1
       DEF writeController, IsPort, ppuMemoryVars, memoryVars, oamVars
<1>6. CASE ~InPorts(address) /\ address # OAMDMA /\ ~IsController(address)
  <2>1. /\ WriteMemory(address, value)
        /\ UNCHANGED <<ppuMemoryVars, controllerVars, oamVars, running>>
    BY <1>6 DEF Write
  <2>2. value \in BYTES /\ ~IsPort(address, 7) /\ ~IsPort(address, 4)
    BY <1>0, <1>6, ValuesWritten DEF IsPort
  <2> QED
    BY <1>0, <1>1, <1>2, <1>6, <2>1, <2>2 DEF WriteMemory, ppuMemoryVars, controllerVars, oamVars
<1> QED
  BY <1>3, <1>4, <1>5, <1>6
-----------------------------------------------------------------------------
(* The invariant holds at first, and every step keeps it.                  *)

LEMMA InitInv ==
    Init => Inv
<1> SUFFICES ASSUME Init PROVE Inv
  OBVIOUS
<1>1. /\ OFFSET \in Nat \ {0} /\ TABLE_SIZE \in Nat \ {0} /\ PALETTE_SIZE \in Nat \ {0}
      /\ VRAM_SIZE \in Nat \ {0} /\ V_SIZE = 4 * VRAM_SIZE /\ 0 \in BYTES
      /\ VRAM_ADDRESSES \subseteq 0..(VRAM_SIZE - 1)
      /\ PAGE \in Nat \ {0} /\ RAM_SIZE \in Nat \ {0} /\ MAX_ACCESSES \in Nat
      /\ LAST_BUTTON \in Nat
  BY Sizes, MapSizes, PPUMemoryAssumption, CPUMemoryAssumption, ButtonAssumption
<1>2. /\ chr = [a \in 0..(OFFSET - 1) |-> 0]
      /\ nameTable = [a \in 0..(4 * TABLE_SIZE - 1) |-> 0]
      /\ palette = [a \in 0..(PALETTE_SIZE - 1) |-> 0]
      /\ mirror \in Mirrors /\ incrementFlag \in BOOLEAN /\ bufferedValue = 0
  BY DEF Init, PPUMemoryInit, Mirrors
<1>3. currentVram \in 0..(V_SIZE - 1)
  <2>1. currentVram \in VRAM_ADDRESSES \/ currentVram = 0
    BY DEF Init
  <2>2. \A v \in 0..(VRAM_SIZE - 1) : v \in 0..(V_SIZE - 1)
    BY Sizes
  <2>3. 0 \in 0..(VRAM_SIZE - 1)
    BY Sizes
  <2> QED
    BY <1>1, <2>1, <2>2, <2>3
<1>4. PPUMemoryTypeOK
  BY <1>1, <1>2, <1>3 DEF PPUMemoryTypeOK, Mirrors
<1>5. ControllerTypeOK
  BY <1>1 DEF Init, ControllerInit, ControllerTypeOK, ButtonSet, Buttons
<1>6. MemoryTypeOK
  BY <1>1 DEF Init, MemoryTypeOK
<1>7. /\ oam \in [0..(PAGE - 1) -> BYTES] /\ oamAddress \in 0..(PAGE - 1)
      /\ running \in BOOLEAN /\ accesses \in 0..MAX_ACCESSES
  BY <1>1 DEF Init
<1>8. TypeOK
  BY <1>4, <1>5, <1>6, <1>7, InvDef
<1>9. program \subseteq CPUAddresses
  BY CPUMemoryAssumption DEF Init, CPUAddresses
<1>10. /\ flat.cpu = [a \in CPUAddresses |-> ReadMemory(a)]
       /\ flat.vram = [a \in PPUAddresses |-> 0] /\ flat.oam = oam
  BY DEF Init, CPUAddresses
<1>11. FlatIsWhole
  BY <1>10 DEF FlatIsWhole
<1>12. MemoriesMatch
  <2>1. ASSUME NEW a \in PPUAddresses
        PROVE  ReadPPU(a) = 0
    <3>0. a \in Nat
      BY DEF PPUAddresses
    <3>1. CASE InPatterns(a)
      <4>1. ReadPPU(a) = chr[a] /\ a \in 0..(OFFSET - 1)
        BY <3>0, <3>1, Sizes DEF ReadPPU, InPatterns, InTables, InPalette
      <4> QED
        BY <1>2, <4>1
    <3>2. CASE InTables(a)
      <4>1. mirrorAddress(a) \in 0..(4 * TABLE_SIZE - 1)
        BY <1>2, <3>0, <3>2, TablesMirror
      <4>2. ReadPPU(a) = nameTable[mirrorAddress(a)]
        BY <3>0, <3>2, Sizes DEF ReadPPU, InPatterns, InTables, InPalette
      <4> QED
        BY <1>2, <4>1, <4>2
    <3>3. CASE InPalette(a)
      <4>1. Colour(a) \in 0..(PALETTE_SIZE - 1)
        BY <3>0, <3>3, ColoursMirror
      <4>2. ReadPPU(a) = palette[Colour(a)]
        BY <3>0, <3>3, Sizes DEF ReadPPU, InPatterns, InTables, InPalette
      <4> QED
        BY <1>2, <4>1, <4>2
    <3>4. CASE ~InPatterns(a) /\ ~InTables(a) /\ ~InPalette(a)
      BY <3>4 DEF ReadPPU
    <3> QED
      BY <3>1, <3>2, <3>3, <3>4
  <2> QED
    BY <1>10, <2>1 DEF MemoriesMatch
<1>13. BufferIsKnown
  BY DEF Init, BufferIsKnown
<1>14. PollsAreKnown
  BY <1>1 DEF Init, ControllerInit, PollsAreKnown, Buttons
<1> QED
  BY <1>8, <1>9, <1>11, <1>12, <1>13, <1>14 DEF Inv

(* The index and the polls after an access to the port of a controller.    *)
LEMMA AfterReadInButtons ==
    ASSUME ControllerTypeOK, NEW side \in Sides
    PROVE  AfterRead(side) \in Buttons
<1>1. LAST_BUTTON \in Nat /\ index[side] \in 0..LAST_BUTTON
  BY ButtonAssumption DEF ControllerTypeOK, Buttons
<1> QED
  BY <1>1 DEF AfterRead, Buttons

LEMMA PollsFollow ==
    ASSUME Inv, NEW side \in Sides, NEW op \in {"read", "write"}, NEW value
    PROVE  LET after == PolledAfter(op, side, value)
           IN  /\ after \in [reads : Buttons, whole : BOOLEAN]
               /\ op = "read" /\ after.whole => AfterRead(side) = after.reads
               /\ op = "write" /\ after.whole => index[side] = after.reads
<1> DEFINE after == PolledAfter(op, side, value)
           n == index[side]
           r == polled[side].reads
<1>1. /\ LAST_BUTTON \in Nat /\ n \in 0..LAST_BUTTON /\ r \in 0..LAST_BUTTON
      /\ Buttons = 0..LAST_BUTTON
      /\ polled[side].whole => n = r
      /\ polled[side] \in [reads : Buttons, whole : BOOLEAN]
  BY ButtonAssumption DEF Inv, TypeOK, ControllerTypeOK, PollsAreKnown, Buttons
<1>2. CASE op = "read" /\ strobe[side]
  <2>1. after = [reads |-> 0, whole |-> TRUE]
    BY <1>2 DEF PolledAfter
  <2>2. AfterRead(side) = 0
    BY <1>2 DEF AfterRead
  <2>3. 0 \in Buttons
    BY <1>1
  <2>4. after \in [reads : Buttons, whole : BOOLEAN] /\ after.reads = 0
    BY <2>1, <2>3
  <2> QED
    BY <1>2, <2>2, <2>4
<1>3. CASE op = "read" /\ ~strobe[side]
  <2>1. after = [polled[side] EXCEPT !.reads = (@ + 1) % (LAST_BUTTON + 1)]
    BY <1>3 DEF PolledAfter
  <2>2. AfterRead(side) = IF n = LAST_BUTTON THEN 0 ELSE n + 1
    BY <1>3 DEF AfterRead
  <2>3. (r + 1) % (LAST_BUTTON + 1) = IF r = LAST_BUTTON THEN 0 ELSE r + 1
    <3> HIDE DEF r
    <3>1. CASE r = LAST_BUTTON
      <4>1. ((LAST_BUTTON + 1) * 1) % (LAST_BUTTON + 1) = 0 /\ (LAST_BUTTON + 1) * 1 = r + 1
        BY <1>1, <3>1, Multiples
      <4> QED
        BY <3>1, <4>1
    <3>2. CASE r # LAST_BUTTON
      <4>1. ((LAST_BUTTON + 1) * 0 + (r + 1)) % (LAST_BUTTON + 1) = r + 1
        BY <1>1, <3>2, Residue
      <4>2. (LAST_BUTTON + 1) * 0 + (r + 1) = r + 1
        BY <1>1
      <4> QED
        BY <3>2, <4>1, <4>2
    <3> QED
      BY <3>1, <3>2
  <2> DEFINE next == (r + 1) % (LAST_BUTTON + 1)
  <2>4. next \in Buttons
    BY <1>1, <2>3
  <2>5. after = [polled[side] EXCEPT !.reads = next]
    BY <2>1
  <2> HIDE DEF next
  <2>6. /\ after \in [reads : Buttons, whole : BOOLEAN]
        /\ after.reads = next /\ after.whole = polled[side].whole
    BY <1>1, <2>4, <2>5
  <2> QED
    BY <1>1, <1>3, <2>2, <2>3, <2>6 DEF next
<1>4. CASE op = "write" /\ value % 2 = 1
  <2>1. after = [reads |-> 0, whole |-> polled[side].whole /\ r = 0]
    BY <1>4 DEF PolledAfter
  <2>2. 0 \in Buttons
    BY <1>1
  <2>3. /\ after \in [reads : Buttons, whole : BOOLEAN] /\ after.reads = 0
        /\ after.whole => polled[side].whole /\ r = 0
    <3> DEFINE kept == polled[side].whole /\ r = 0
    <3>1. kept \in BOOLEAN /\ after = [reads |-> 0, whole |-> kept]
      BY <2>1
    <3> HIDE DEF kept, after
    <3>2. after \in [reads : Buttons, whole : BOOLEAN] /\ after.reads = 0 /\ after.whole = kept
      BY <2>2, <3>1
    <3> QED
      BY <3>2 DEF kept
  <2>4. after.whole => n = after.reads
    <3> HIDE DEF after, n, r
    <3> QED
      BY <1>1, <2>3, Zenon
  <2> QED
    BY <1>4, <2>3, <2>4
<1>5. CASE op = "write" /\ value % 2 # 1
  <2>1. after = polled[side]
    BY <1>5 DEF PolledAfter
  <2> QED
    BY <1>1, <1>5, <2>1
<1> QED
  BY <1>2, <1>3, <1>4, <1>5

(* What the memories hold does not change but with them.                   *)
LEMMA SameReads ==
    /\ UNCHANGED <<ram, prgRam, isNrom_128>> => \A a : ReadMemory(a)' = ReadMemory(a)
    /\ UNCHANGED <<chr, nameTable, palette, mirror>> => \A a : ReadPPU(a)' = ReadPPU(a)
<1>1. ASSUME UNCHANGED <<ram, prgRam, isNrom_128>>, NEW a
      PROVE  ReadMemory(a)' = ReadMemory(a)
  BY <1>1 DEF ReadMemory, InRam, InPrgRam, RamPlace, RomPlace, prgRom
<1>2. ASSUME UNCHANGED <<chr, nameTable, palette, mirror>>, NEW a
      PROVE  ReadPPU(a)' = ReadPPU(a)
  BY <1>2 DEF ReadPPU, InPatterns, InTables, InPalette, mirrorAddress, getTable, Colour
<1> QED
  BY <1>1, <1>2

LEMMA SameMemories ==
    ASSUME MemoriesMatch,
           UNCHANGED <<chr, nameTable, palette, mirror, ram, prgRam, isNrom_128, oam, flat>>
    PROVE  MemoriesMatch'
BY SameReads DEF MemoriesMatch

LEMMA ReadKeepsInv ==
    ASSUME Inv, NEW address \in program, Read(address)
    PROVE  Inv'
<1>1. /\ UNCHANGED <<chr, nameTable, palette, mirror, incrementFlag, buttons, strobe,
                     ram, prgRam, isNrom_128, oam, oamAddress, program, flat>>
      /\ running' \in BOOLEAN /\ accesses' \in 0..MAX_ACCESSES
      /\ IF IsPort(address, 7)
         THEN bufferedValue' = Buffered /\ currentVram' \in 0..(V_SIZE - 1)
         ELSE UNCHANGED <<bufferedValue, currentVram>>
      /\ IF IsController(address)
         THEN index' = [index EXCEPT ![SideOf(address)] = AfterRead(SideOf(address))]
         ELSE UNCHANGED index
      /\ Remember("read", address, Value(address))
  BY ReadEffect
<1>2. /\ TypeOK /\ PPUMemoryTypeOK /\ ControllerTypeOK /\ MemoryTypeOK
      /\ address \in Nat /\ address \in CPUAddresses
  BY InvDef DEF Inv, CPUAddresses
<1>3. TypeOK'
  <2>1. PPUMemoryTypeOK'
    <3>1. bufferedValue' \in BYTES
      <4>1. MaskedVram \in PPUAddresses /\ BufferedFrom(MaskedVram) \in Nat
        BY <1>2, BufferedPlace DEF PPUAddresses
      <4>2. Buffered \in BYTES
        BY <1>2, <4>1, BufferedPlace, ReadsBytes
      <4> QED
        BY <1>1, <1>2, <4>2 DEF PPUMemoryTypeOK
    <3>2. currentVram' \in 0..(V_SIZE - 1)
      BY <1>1, <1>2 DEF PPUMemoryTypeOK
    <3> QED
      BY <1>1, <1>2, <3>1, <3>2 DEF PPUMemoryTypeOK
  <2>2. ControllerTypeOK'
    <3>1. index' \in [Sides -> Buttons]
      <4>1. CASE IsController(address)
        <5>1. SideOf(address) \in Sides
          BY <4>1, Ports
        <5>2. AfterRead(SideOf(address)) \in Buttons
          BY <1>2, <5>1, AfterReadInButtons
        <5> QED
          BY <1>1, <1>2, <4>1, <5>1, <5>2 DEF ControllerTypeOK
      <4>2. CASE ~IsController(address)
        BY <1>1, <1>2, <4>2 DEF ControllerTypeOK
      <4> QED
        BY <4>1, <4>2
    <3> QED
      BY <1>1, <1>2, <3>1 DEF ControllerTypeOK
  <2>3. MemoryTypeOK'
    BY <1>1, <1>2 DEF MemoryTypeOK
  <2> QED
    BY <1>1, <1>2, <2>1, <2>2, <2>3 DEF TypeOK, MemoryTypeOK
<1>4. (program \subseteq CPUAddresses)' /\ FlatIsWhole'
  BY <1>1 DEF Inv, FlatIsWhole
<1>5. MemoriesMatch'
  BY <1>1, SameMemories DEF Inv
<1>6. BufferIsKnown'
  <2>1. CASE IsPort(address, 7)
    <3>1. previous' = {BufferedFrom(MaskedVram)}
      BY <1>1, <2>1 DEF Remember
    <3>2. /\ BufferedFrom(MaskedVram) \in PPUAddresses
          /\ bufferedValue' = ReadPPU(BufferedFrom(MaskedVram))
      BY <1>1, <1>2, <2>1, BufferedPlace
    <3>3. ReadPPU(BufferedFrom(MaskedVram)) = flat.vram[BufferedFrom(MaskedVram)]
      BY <3>2 DEF Inv, MemoriesMatch, FlatIsWhole
    <3> QED
      BY <1>1, <3>1, <3>2, <3>3 DEF BufferIsKnown
  <2>2. CASE ~IsPort(address, 7)
    <3>1. previous' = previous
      BY <1>1, <2>2 DEF Remember
    <3> QED
      BY <1>1, <2>2, <3>1 DEF Inv, BufferIsKnown
  <2> QED
    BY <2>1, <2>2
<1>7. PollsAreKnown'
  <2> SUFFICES ASSUME NEW side \in Sides
               PROVE  /\ polled'[side] \in [reads : Buttons, whole : BOOLEAN]
                      /\ polled'[side].whole => index'[side] = polled'[side].reads
    BY DEF PollsAreKnown
  <2>1. polled'[side] = IF address = PORT[side] THEN PolledAfter("read", side, Value(address))
                                                ELSE polled[side]
    BY <1>1 DEF Remember
  <2>2. CASE address = PORT[side]
    <3>1. IsController(address) /\ SideOf(address) = side
      BY <2>2, Ports
    <3>2. index'[side] = AfterRead(side)
      BY <1>1, <1>2, <3>1 DEF ControllerTypeOK
    <3>3. /\ polled'[side] \in [reads : Buttons, whole : BOOLEAN]
          /\ polled'[side].whole => AfterRead(side) = polled'[side].reads
      BY <2>1, <2>2, PollsFollow
    <3> QED
      BY <3>2, <3>3
  <2>3. CASE address # PORT[side]
    <3>1. index'[side] = index[side]
      <4>1. CASE IsController(address)
        <5>1. SideOf(address) \in Sides /\ SideOf(address) # side
          BY <2>3, <4>1, Ports
        <5> QED
          BY <1>1, <1>2, <4>1, <5>1 DEF ControllerTypeOK
      <4>2. CASE ~IsController(address)
        BY <1>1, <4>2
      <4> QED
        BY <4>1, <4>2
    <3> QED
      BY <2>1, <2>3, <3>1 DEF Inv, PollsAreKnown
  <2> QED
    BY <2>2, <2>3
<1> QED
  BY <1>3, <1>4, <1>5, <1>6, <1>7 DEF Inv

(* The copy of a page to OAM reads addresses of the CPU. *)
LEMMA PagesInside ==
    ASSUME NEW page \in 0..((END \div PAGE) - 1), NEW i \in 0..(PAGE - 1)
    PROVE  page * PAGE + i \in CPUAddresses
<1> DEFINE pages == END \div PAGE
<1>1. PAGE \in Nat \ {0} /\ END \in Nat /\ END % PAGE = 0
  BY CPUMemoryAssumption
<1>2. pages \in Int /\ END = PAGE * pages
  BY <1>1, Division
<1> HIDE DEF pages
<1>3. page \in Nat /\ page + 1 <= pages
  BY <1>2 DEF pages
<1>4. PAGE * (page + 1) <= PAGE * pages
  BY <1>1, <1>2, <1>3
<1>5. PAGE * (page + 1) = page * PAGE + PAGE /\ page * PAGE \in Nat
  BY <1>1, <1>3
<1> QED
  BY <1>1, <1>2, <1>4, <1>5 DEF CPUAddresses

LEMMA WriteKeepsMemories ==
    ASSUME Inv, NEW address \in program, NEW value \in ValuesAt(address), Write(address, value)
    PROVE  FlatIsWhole' /\ MemoriesMatch' /\ MemoryTypeOK' /\ PPUMemoryTypeOK'
           /\ oam' \in [0..(PAGE - 1) -> BYTES]
<1>1. /\ UNCHANGED <<mirror, bufferedValue, isNrom_128>> /\ incrementFlag' \in BOOLEAN
      /\ IF IsPort(address, 7)
         THEN /\ WritePPU(currentVram, value) /\ currentVram' \in 0..(V_SIZE - 1)
              /\ value \in BYTES
         ELSE UNCHANGED <<chr, nameTable, palette, currentVram>>
      /\ IF InRam(address) \/ InPrgRam(address)
         THEN WriteMemory(address, value) /\ value \in BYTES
         ELSE UNCHANGED <<ram, prgRam>>
      /\ IF IsPort(address, 4)
         THEN oam' = [oam EXCEPT ![oamAddress] = value] /\ value \in BYTES
         ELSE IF address = OAMDMA /\ running' THEN uploadToOamdata(value)
         ELSE UNCHANGED oam
  BY WriteEffect
<1>2. /\ PPUMemoryTypeOK /\ MemoryTypeOK /\ address \in Nat
      /\ oam \in [0..(PAGE - 1) -> BYTES] /\ oamAddress \in 0..(PAGE - 1)
      /\ currentVram \in Nat
  BY InvDef, Sizes DEF Inv, CPUAddresses, PPUMemoryTypeOK
<1>3. flat' = FlatAfterWrite(address, value)
  BY DEF Write, Remember
<1>4. /\ DOMAIN flat.cpu = CPUAddresses /\ DOMAIN flat.vram = PPUAddresses
      /\ flat.oam = oam
      /\ \A a \in CPUAddresses : ReadMemory(a) = flat.cpu[a]
      /\ \A a \in PPUAddresses : ReadPPU(a) = flat.vram[a]
  BY DEF Inv, FlatIsWhole, MemoriesMatch
<1>5. flat'.cpu = [a \in CPUAddresses |-> IF SameRam(a, address) /\ (InRam(a) \/ InPrgRam(a))
                                          THEN value ELSE flat.cpu[a]]
  BY <1>3, <1>4 DEF FlatAfterWrite
<1>6. flat'.vram = [a \in PPUAddresses |-> IF IsPort(address, 7) /\ Holds(a)
                                              /\ SamePlace(a, currentVram)
                                           THEN value ELSE flat.vram[a]]
  BY <1>3, <1>4 DEF FlatAfterWrite
<1>7. flat'.oam = [i \in 0..(PAGE - 1) |->
                     IF IsPort(address, 4) /\ i = oamAddress THEN value
                     ELSE IF address = OAMDMA /\ running' THEN flat.cpu[value * PAGE + i]
                     ELSE oam[i]]
  BY <1>2, <1>3, <1>4 DEF FlatAfterWrite
<1>8. FlatIsWhole'
  BY <1>5, <1>6 DEF FlatIsWhole
<1>9. /\ MemoryTypeOK'
      /\ \A a \in CPUAddresses : ReadMemory(a)' = flat'.cpu[a]
  <2>1. CASE InRam(address) \/ InPrgRam(address)
    <3>1. WriteMemory(address, value) /\ value \in BYTES
      BY <1>1, <2>1
    <3>2. /\ MemoryTypeOK'
          /\ \A a \in CPUAddresses :
               ReadMemory(a)' = IF SameRam(a, address) /\ (InRam(a) \/ InPrgRam(a))
                                THEN value ELSE ReadMemory(a)
      BY <1>2, <3>1, WritesMemoryPlace
    <3> QED
      BY <1>4, <1>5, <3>2
  <2>2. CASE ~InRam(address) /\ ~InPrgRam(address)
    <3>1. UNCHANGED <<ram, prgRam, isNrom_128>>
      BY <1>1, <2>2
    <3>2. MemoryTypeOK'
      BY <1>2, <3>1 DEF MemoryTypeOK
    <3>3. \A a : ~(SameRam(a, address) /\ (InRam(a) \/ InPrgRam(a)))
      BY <2>2 DEF SameRam, InRam
    <3>4. \A a : ReadMemory(a)' = ReadMemory(a)
      BY <3>1, SameReads
    <3> QED
      BY <1>4, <1>5, <3>2, <3>3, <3>4
  <2> QED
    BY <2>1, <2>2
<1>10. /\ chr' \in [0..(OFFSET - 1) -> BYTES]
       /\ nameTable' \in [0..(4 * TABLE_SIZE - 1) -> BYTES]
       /\ palette' \in [0..(PALETTE_SIZE - 1) -> BYTES]
       /\ currentVram' \in 0..(V_SIZE - 1)
       /\ \A a \in PPUAddresses : ReadPPU(a)' = flat'.vram[a]
  <2>1. CASE IsPort(address, 7)
    <3>1. WritePPU(currentVram, value) /\ value \in BYTES /\ currentVram' \in 0..(V_SIZE - 1)
      BY <1>1, <2>1
    <3>2. /\ chr' \in [0..(OFFSET - 1) -> BYTES]
          /\ nameTable' \in [0..(4 * TABLE_SIZE - 1) -> BYTES]
          /\ palette' \in [0..(PALETTE_SIZE - 1) -> BYTES]
          /\ \A a \in PPUAddresses :
               ReadPPU(a)' = IF Holds(a) /\ SamePlace(a, currentVram)
                             THEN value ELSE ReadPPU(a)
      BY <1>1, <1>2, <3>1, WritesPlace
    <3> QED
      BY <1>4, <1>6, <2>1, <3>1, <3>2
  <2>2. CASE ~IsPort(address, 7)
    <3>1. UNCHANGED <<chr, nameTable, palette, mirror, currentVram>>
      BY <1>1, <2>2
    <3>2. \A a : ReadPPU(a)' = ReadPPU(a)
      BY <3>1, SameReads
    <3> QED
      BY <1>2, <1>4, <1>6, <2>2, <3>1, <3>2 DEF PPUMemoryTypeOK
  <2> QED
    BY <2>1, <2>2
<1>11. PPUMemoryTypeOK'
  BY <1>1, <1>2, <1>10 DEF PPUMemoryTypeOK
<1>12. oam' = flat'.oam /\ oam' \in [0..(PAGE - 1) -> BYTES]
  <2>1. CASE IsPort(address, 4)
    <3>1. address # OAMDMA
      BY <1>2, <2>1, Regions DEF IsPort
    <3> QED
      BY <1>1, <1>2, <1>7, <2>1, <3>1
  <2>2. CASE ~IsPort(address, 4) /\ address = OAMDMA /\ running'
    <3>1. oam' = [i \in 0..(PAGE - 1) |-> ReadMemory(value * PAGE + i)]
      BY <1>1, <2>2 DEF uploadToOamdata
    <3>2. \A i \in 0..(PAGE - 1) : value * PAGE + i \in CPUAddresses
      BY <1>2, <2>2, ValuesWritten, PagesInside
    <3>3. \A i \in 0..(PAGE - 1) : /\ ReadMemory(value * PAGE + i) = flat.cpu[value * PAGE + i]
                                   /\ ReadMemory(value * PAGE + i) \in BYTES
      BY <1>2, <1>4, <3>2, ReadsMemoryBytes DEF CPUAddresses
    <3> HIDE DEF CPUAddresses
    <3> QED
      BY <1>7, <2>2, <3>1, <3>3
  <2>3. CASE ~IsPort(address, 4) /\ ~(address = OAMDMA /\ running')
    BY <1>1, <1>2, <1>7, <2>3
  <2> QED
    BY <2>1, <2>2, <2>3
<1> QED
  BY <1>5, <1>6, <1>8, <1>9, <1>10, <1>11, <1>12 DEF MemoriesMatch

LEMMA WriteKeepsInv ==
    ASSUME Inv, NEW address \in program, NEW value \in ValuesAt(address), Write(address, value)
    PROVE  Inv'
<1>1. /\ UNCHANGED <<bufferedValue, buttons, index, program>>
      /\ running' \in BOOLEAN /\ accesses' \in 0..MAX_ACCESSES
      /\ IF IsController(address)
         THEN strobe' = [strobe EXCEPT ![SideOf(address)] = value % 2 = 1]
         ELSE UNCHANGED strobe
      /\ oamAddress' \in 0..(PAGE - 1)
      /\ Remember("write", address, value)
  BY WriteEffect
<1>2. FlatIsWhole' /\ MemoriesMatch' /\ MemoryTypeOK' /\ PPUMemoryTypeOK'
      /\ oam' \in [0..(PAGE - 1) -> BYTES]
  BY WriteKeepsMemories
<1>3. ControllerTypeOK /\ ControllerTypeOK'
  <2>1. ControllerTypeOK
    BY DEF Inv, TypeOK
  <2>2. strobe' \in [Sides -> BOOLEAN]
    <3> DEFINE bit == value % 2 = 1
    <3>1. bit \in BOOLEAN
      OBVIOUS
    <3>2. strobe' = [strobe EXCEPT ![SideOf(address)] = bit] \/ strobe' = strobe
      BY <1>1
    <3> HIDE DEF bit
    <3> QED
      BY <2>1, <3>1, <3>2 DEF ControllerTypeOK
  <2> QED
    BY <1>1, <2>1, <2>2 DEF ControllerTypeOK
<1>4. TypeOK'
  BY <1>1, <1>2, <1>3 DEF TypeOK, MemoryTypeOK
<1>5. (program \subseteq CPUAddresses)'
  BY <1>1 DEF Inv
<1>6. BufferIsKnown'
  <2>1. CASE IsPort(address, 7)
    <3>1. previous' = {}
      BY <1>1, <2>1 DEF Remember
    <3> QED
      BY <3>1 DEF BufferIsKnown
  <2>2. CASE ~IsPort(address, 7)
    <3>1. previous' = previous /\ flat' = FlatAfterWrite(address, value)
      BY <1>1, <2>2 DEF Remember
    <3>2. \A a \in PPUAddresses : flat'.vram[a] = flat.vram[a]
      BY <2>2, <3>1 DEF FlatAfterWrite, Inv, FlatIsWhole
    <3> QED
      BY <1>1, <3>1, <3>2 DEF Inv, BufferIsKnown
  <2> QED
    BY <2>1, <2>2
<1>7. PollsAreKnown'
  <2> SUFFICES ASSUME NEW side \in Sides
               PROVE  /\ polled'[side] \in [reads : Buttons, whole : BOOLEAN]
                      /\ polled'[side].whole => index'[side] = polled'[side].reads
    BY DEF PollsAreKnown
  <2>1. polled'[side] = IF address = PORT[side] THEN PolledAfter("write", side, value)
                                                ELSE polled[side]
    BY <1>1 DEF Remember
  <2>2. CASE address = PORT[side]
    <3>1. /\ polled'[side] \in [reads : Buttons, whole : BOOLEAN]
          /\ polled'[side].whole => index[side] = polled'[side].reads
      BY <2>1, <2>2, PollsFollow
    <3> QED
      BY <1>1, <3>1
  <2>3. CASE address # PORT[side]
    BY <1>1, <2>1, <2>3 DEF Inv, PollsAreKnown
  <2> QED
    BY <2>2, <2>3
<1> QED
  BY <1>2, <1>4, <1>5, <1>6, <1>7 DEF Inv

LEMMA SetVramKeepsInv ==
    ASSUME Inv, NEW address \in VRAM_ADDRESSES, SetVram(address)
    PROVE  Inv'
<1>1. /\ UNCHANGED <<chr, nameTable, palette, mirror, incrementFlag, bufferedValue, buttons,
                     index, strobe, ram, prgRam, isNrom_128, oam, oamAddress, running,
                     program, flat, previous, polled>>
      /\ currentVram' = address /\ accesses' = accesses + 1 /\ accesses < MAX_ACCESSES
  BY DEF SetVram, CanAccess, setCurrentVram, controllerVars, memoryVars, oamVars
<1>2. address \in 0..(V_SIZE - 1)
  <2>1. address \in 0..(VRAM_SIZE - 1)
    BY PPUMemoryAssumption
  <2> QED
    BY <2>1, Sizes
<1>3. accesses' \in 0..MAX_ACCESSES
  <2>1. MAX_ACCESSES \in Nat /\ accesses \in 0..MAX_ACCESSES
    BY CPUMemoryAssumption DEF Inv, TypeOK
  <2> QED
    BY <1>1, <2>1
<1>4. TypeOK'
  <2>1. PPUMemoryTypeOK'
    BY <1>1, <1>2 DEF Inv, TypeOK, PPUMemoryTypeOK
  <2>2. ControllerTypeOK'
    BY <1>1 DEF Inv, TypeOK, ControllerTypeOK
  <2> QED
    BY <1>1, <1>3, <2>1, <2>2 DEF Inv, TypeOK
<1>5. MemoriesMatch'
  BY <1>1, SameMemories DEF Inv
<1> QED
  BY <1>1, <1>4, <1>5 DEF Inv, FlatIsWhole, BufferIsKnown, PollsAreKnown

LEMMA SetButtonsKeepsInv ==
    ASSUME Inv, NEW left \in ButtonSet, NEW right \in ButtonSet, SetButtons(left, right)
    PROVE  Inv'
<1>1. /\ UNCHANGED <<chr, nameTable, palette, mirror, currentVram, incrementFlag, bufferedValue,
                     index, strobe, ram, prgRam, isNrom_128, oam, oamAddress, running,
                     accesses, program, flat, previous, polled>>
      /\ buttons' = [side \in Sides |-> IF side = "left" THEN left ELSE right]
  BY DEF SetButtons, setControllers, ppuMemoryVars, memoryVars, oamVars
<1>2. TypeOK'
  <2>1. PPUMemoryTypeOK'
    BY <1>1 DEF Inv, TypeOK, PPUMemoryTypeOK
  <2>2. ControllerTypeOK'
    BY <1>1 DEF Inv, TypeOK, ControllerTypeOK
  <2> QED
    BY <1>1, <2>1, <2>2 DEF Inv, TypeOK
<1>3. MemoriesMatch'
  BY <1>1, SameMemories DEF Inv
<1> QED
  BY <1>1, <1>2, <1>3 DEF Inv, FlatIsWhole, BufferIsKnown, PollsAreKnown

LEMMA StutterKeepsInv ==
    ASSUME Inv, UNCHANGED vars
    PROVE  Inv'
<1>1. UNCHANGED <<chr, nameTable, palette, mirror, currentVram, incrementFlag, bufferedValue,
                  buttons, index, strobe, ram, prgRam, isNrom_128, oam, oamAddress, running,
                  accesses, program, flat, previous, polled>>
  BY DEF vars, ppuMemoryVars, controllerVars, memoryVars, oamVars
<1>2. TypeOK'
  BY <1>1 DEF Inv, TypeOK, PPUMemoryTypeOK, ControllerTypeOK
<1>3. MemoriesMatch'
  BY <1>1, SameMemories DEF Inv
<1> QED
  BY <1>1, <1>2, <1>3 DEF Inv, FlatIsWhole, BufferIsKnown, PollsAreKnown

LEMMA NextInv ==
    Inv /\ [Next]_vars => Inv'
<1> SUFFICES ASSUME Inv, [Next]_vars PROVE Inv'
  OBVIOUS
<1>1. CASE \E address \in program : Read(address)
  BY <1>1, ReadKeepsInv
<1>2. CASE \E address \in program : \E value \in ValuesAt(address) : Write(address, value)
  BY <1>2, WriteKeepsInv
<1>3. CASE \E address \in VRAM_ADDRESSES : SetVram(address)
  BY <1>3, SetVramKeepsInv
<1>4. CASE \E left, right \in ButtonSet : SetButtons(left, right)
  BY <1>4, SetButtonsKeepsInv
<1>5. CASE UNCHANGED vars
  BY <1>5, StutterKeepsInv
<1> QED
  BY <1>1, <1>2, <1>3, <1>4, <1>5 DEF Next

(* Whatever a program reads and writes, the memories and their history     *)
(* agree, and so do the buffer of PPUDATA and the indices of the           *)
(* controllers with what was read through them.                            *)
THEOREM MemoryInvariance ==
    Spec => []Inv
<1>1. Init => Inv
  BY InitInv
<1>2. Inv /\ [Next]_vars => Inv'
  BY NextInv
<1> QED
  BY <1>1, <1>2, PTL DEF Spec

(* Every memory holds bytes and every register its width: no address, be   *)
(* it mirrored, masked or incremented, leaves the memory it is for.        *)
THEOREM MemoryTypeCorrect ==
    Spec => []TypeOK
<1>1. Inv => TypeOK
  BY DEF Inv
<1> QED
  BY <1>1, MemoryInvariance, PTL

(* A read through any mirror, table or port finds the byte last written to *)
(* its place, and neither a write nor the copy of a page to OAM changes    *)
(* anything else; the places that MemoriesHoldLastWrites leaves out are    *)
(* left out here.                                                          *)
THEOREM MemoryHoldsLastWrites ==
    Spec => []MemoriesHoldLastWrites
<1>1. Inv => MemoriesHoldLastWrites
  BY DEF Inv, MemoriesMatch, MemoriesHoldLastWrites
<1> QED
  BY <1>1, MemoryInvariance, PTL

-----------------------------------------------------------------------------
(* What a step tells the program.                                          *)

(* A step that tells of a read is one. *)
LEMMA OnlyReads ==
    ASSUME Next, latest'.op = "read"
    PROVE  \E address \in program : /\ Read(address)
                                    /\ latest'.at = address /\ latest'.value = Value(address)
<1>1. CASE \E address \in program : Read(address)
  <2>1. PICK address \in program : Read(address)
    BY <1>1
  <2>2. latest' = [op |-> "read", at |-> address, value |-> Value(address)]
    BY <2>1 DEF Read, Remember
  <2> QED
    BY <2>1, <2>2
<1>2. CASE \E address \in program : \E value \in ValuesAt(address) : Write(address, value)
  <2>1. PICK address \in program : \E value \in ValuesAt(address) : Write(address, value)
    BY <1>2
  <2>2. \E value : latest' = [op |-> "write", at |-> address, value |-> value]
    BY <2>1 DEF Write, Remember
  <2> QED
    BY <2>2
<1>3. CASE \E address \in VRAM_ADDRESSES : SetVram(address)
  <2>1. \E address : latest' = [op |-> "set", at |-> address, value |-> 0]
    BY <1>3 DEF SetVram
  <2> QED
    BY <2>1
<1>4. CASE \E left, right \in ButtonSet : SetButtons(left, right)
  <2>1. latest' = [op |-> "step", at |-> 0, value |-> 0]
    BY <1>4 DEF SetButtons
  <2> QED
    BY <2>1
<1> QED
  BY <1>1, <1>2, <1>3, <1>4 DEF Next

(* PPUDATA reads one byte late, except the palettes, with the same places  *)
(* left out.                                                               *)
THEOREM PPUDATAReadsLate ==
    Spec => BufferHoldsPrevious
<1> DEFINE Late == latest'.op = "read" /\ IsPort(latest'.at, 7)
                   => \A a \in IF InPalette(MaskedVram) THEN {MaskedVram} ELSE previous :
                          Undoubted(a) => latest'.value = flat.vram[a]
<1>1. ASSUME Inv, Next
      PROVE  Late
  <2> SUFFICES ASSUME latest'.op = "read", IsPort(latest'.at, 7)
               PROVE  \A a \in IF InPalette(MaskedVram) THEN {MaskedVram} ELSE previous :
                          latest'.value = flat.vram[a]
    OBVIOUS
  <2>1. PICK address \in program : /\ Read(address)
                                   /\ latest'.at = address /\ latest'.value = Value(address)
    BY <1>1, OnlyReads
  <2>2. InPorts(address) /\ Register(address) = 7 /\ address \in Nat
    BY <1>1, <2>1 DEF IsPort, Inv, CPUAddresses
  <2>3. ~IsController(address)
    BY <2>2, Regions
  <2>4. latest'.value = Returned
    <3>1. Value(address) = ReturnedBy(7)
      BY <2>2, <2>3 DEF Value
    <3> QED
      BY <2>1, <3>1 DEF ReturnedBy
  <2>5. MaskedVram \in PPUAddresses /\ (MaskedVram >= PALETTE <=> InPalette(MaskedVram))
    BY <1>1, BufferedPlace DEF Inv, TypeOK
  <2>6. CASE InPalette(MaskedVram)
    <3>1. latest'.value = ReadPPU(MaskedVram)
      BY <2>4, <2>5, <2>6 DEF Returned
    <3>2. ReadPPU(MaskedVram) = flat.vram[MaskedVram]
      BY <1>1, <2>5 DEF Inv, FlatIsWhole, MemoriesMatch
    <3> QED
      BY <2>6, <3>1, <3>2
  <2>7. CASE ~InPalette(MaskedVram)
    <3>1. latest'.value = bufferedValue
      BY <2>4, <2>5, <2>7 DEF Returned
    <3> QED
      BY <1>1, <2>7, <3>1 DEF Inv, BufferIsKnown
  <2> QED
    BY <2>6, <2>7
<1>2. Inv /\ [Next]_vars => [Late]_vars
  BY <1>1
<1> HIDE DEF Late
<1>3. Spec => [][Late]_vars
  BY <1>2, MemoryInvariance, PTL DEF Spec
<1> QED
  BY <1>3 DEF BufferHoldsPrevious, Late

(* Whole polls tell the buttons in their order.                            *)
THEOREM PollsTellButtons ==
    Spec => PollsTellButtonsInOrder
<1> DEFINE Told == \A side \in Sides :
                     latest'.op = "read" /\ latest'.at = PORT[side] /\ polled[side].whole
                     => latest'.value =
                          Bit(buttons[side][IF strobe[side] THEN 0 ELSE polled[side].reads])
<1>1. ASSUME Inv, Next
      PROVE  Told
  <2> SUFFICES ASSUME NEW side \in Sides, latest'.op = "read", latest'.at = PORT[side],
                      polled[side].whole
               PROVE  latest'.value =
                        Bit(buttons[side][IF strobe[side] THEN 0 ELSE polled[side].reads])
    OBVIOUS
  <2>1. PICK address \in program : /\ Read(address)
                                   /\ latest'.at = address /\ latest'.value = Value(address)
    BY <1>1, OnlyReads
  <2>2. address = PORT[side] /\ address \in Nat
    BY <1>1, <2>1 DEF Inv, CPUAddresses
  <2>3. IsController(address) /\ SideOf(address) = side
    BY <2>2, Ports
  <2>4. ~InPorts(address)
    BY <2>2, <2>3, Regions
  <2>5. latest'.value = Bit(buttons[side][Reported(side)])
    BY <2>1, <2>3, <2>4 DEF Value
  <2>6. index[side] = polled[side].reads
    BY <1>1 DEF Inv, PollsAreKnown
  <2> QED
    BY <2>5, <2>6 DEF Reported
<1>2. Inv /\ [Next]_vars => [Told]_vars
  BY <1>1
<1> HIDE DEF Told
<1>3. Spec => [][Told]_vars
  BY <1>2, MemoryInvariance, PTL DEF Spec
<1> QED
  BY <1>3 DEF PollsTellButtonsInOrder, Told
=============================================================================
