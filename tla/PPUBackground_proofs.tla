------------------------ MODULE PPUBackground_proofs --------------------------
(***************************************************************************)
(* Proofs about PPUScroll, for every size of tiles and of the screen that  *)
(* ScrollAssumption allows, and about PPUBackground.                       *)
(*                                                                         *)
(* Fetching the background leaves the scroll registers to PPUScroll: what  *)
(* is proved of PPUScroll in the first part holds of a PPU that draws.     *)
(* From where the lines are fetched follows what is drawn: the plane of    *)
(* name tables.                                                            *)
(***************************************************************************)
EXTENDS PPUBackground, TLAPS

-----------------------------------------------------------------------------
(* Division with remainder.                                                *)

LEMMA Remainder ==
    ASSUME NEW n \in Nat, NEW d \in Nat \ {0}
    PROVE  n % d \in 0..(d - 1)
BY SMT

LEMMA Quotient ==
    ASSUME NEW n \in Nat, NEW d \in Nat \ {0}
    PROVE  n \div d \in Nat
BY SMT

LEMMA QuotientBound ==
    ASSUME NEW n \in Nat, NEW d \in Nat \ {0}, NEW e \in Nat, n < d * e
    PROVE  n \div d < e
BY SMTT(30)

(* The digits of a number in a base. *)
LEMMA Digits ==
    ASSUME NEW q \in Nat, NEW r \in Nat, NEW d \in Nat \ {0}, r < d
    PROVE  (q * d + r) \div d = q /\ (q * d + r) % d = r
BY SMTT(30)

LEMMA DigitsBound ==
    ASSUME NEW q \in Nat, NEW r \in Nat, NEW d \in Nat \ {0}, NEW e \in Nat,
           r < d, q < e
    PROVE  q * d + r \in 0..(e * d - 1)
<1>1. (q + 1) * d <= e * d
  BY SMT
<1>2. q * d \in Nat /\ (q + 1) * d = q * d + d /\ e * d \in Nat
  BY SMT
<1> QED
  BY <1>1, <1>2, SMT

LEMMA Rebuild ==
    ASSUME NEW n \in Nat, NEW d \in Nat \ {0}
    PROVE  n = (n \div d) * d + (n % d)
BY SMT

LEMMA QuotientOfQuotient ==
    ASSUME NEW n \in Nat, NEW d \in Nat \ {0}, NEW e \in Nat \ {0}
    PROVE  (n \div d) \div e = n \div (d * e)
<1> DEFINE q == n \div d
           r == n % d
           p == q \div e
           s == q % e
<1>1. q \in Nat /\ r \in 0..(d - 1) /\ n = q * d + r
  BY Quotient, Remainder, Rebuild
<1>2. p \in Nat /\ s \in 0..(e - 1) /\ q = p * e + s
  BY <1>1, Quotient, Remainder, Rebuild
<1>3. s * d + r \in 0..(e * d - 1)
  BY <1>1, <1>2, DigitsBound
<1> HIDE DEF q, r, p, s
<1>4. d * e \in Nat \ {0} /\ d * e = e * d
  BY SMT
<1>5. n = p * (d * e) + (s * d + r)
  <2>1. (p * e + s) * d = p * (d * e) + s * d
    BY <1>1, <1>2, SMT
  <2>2. p * (d * e) \in Nat /\ s * d \in Nat
    BY <1>2, <1>4, SMT
  <2> QED
    BY <1>1, <1>2, <2>1, <2>2
<1>6. s * d + r \in Nat /\ s * d + r < d * e
  BY <1>3, <1>4
<1> DEFINE low == s * d + r
<1> HIDE DEF low
<1>7. low \in Nat /\ low < d * e /\ n = p * (d * e) + low
  BY <1>5, <1>6 DEF low
<1>8. n \div (d * e) = p
  BY <1>2, <1>4, <1>7, Digits
<1> QED
  BY <1>8 DEF p, q

-----------------------------------------------------------------------------
(* The sizes.                                                              *)

LEMMA Sizes ==
    /\ FINE \in Nat \ {0}
    /\ COARSE \in Nat \ {0} /\ COARSE = 4 * FINE
    /\ ROWS \in Nat \ {0} /\ ROWS < COARSE
    /\ BYTE \in Nat \ {0} /\ BYTE = FINE * COARSE
    /\ HIGH \in Nat \ {0}
    /\ COARSE * COARSE \in Nat \ {0}
<1>1. FINE \in Nat \ {0}
  BY ScrollAssumption
<1>2. COARSE \in Nat \ {0} /\ COARSE = 4 * FINE /\ ROWS \in Nat \ {0} /\ ROWS < COARSE
  BY <1>1 DEF COARSE, ROWS
<1>3. HIGH \in Nat \ {0}
  BY <1>1 DEF HIGH
<1>4. 4 * FINE * FINE = FINE * (4 * FINE) /\ FINE * (4 * FINE) \in Nat \ {0}
  BY <1>1, SMT
<1>5. COARSE * COARSE \in Nat \ {0}
  BY <1>2, SMT
<1> QED
  BY <1>1, <1>2, <1>3, <1>4, <1>5 DEF BYTE

(* Every number has an address. *)
LEMMA AddressOfType ==
    ASSUME NEW n \in Nat
    PROVE  AddressOf(n) \in Address
<1> DEFINE tables == n \div (COARSE * COARSE)
<1>1. tables \in Nat
  BY Sizes, Quotient
<1>2. n % COARSE \in 0..(COARSE - 1)
  BY Sizes, Remainder
<1>3. (n \div COARSE) % COARSE \in 0..(COARSE - 1)
  BY Sizes, Quotient, Remainder
<1>4. tables % 2 \in 0..1 /\ (tables \div 2) % 2 \in 0..1
  BY <1>1, SMT
<1>5. (tables \div 4) % FINE \in 0..(FINE - 1)
  <2>1. tables \div 4 \in Nat
    BY <1>1, SMT
  <2> QED
    BY <2>1, Sizes, Remainder
<1>6. (tables \div (4 * FINE)) % 2 \in 0..1
  <2>1. tables \div (4 * FINE) \in Nat
    BY <1>1, Sizes, Quotient
  <2> QED
    BY <2>1, SMT
<1> HIDE DEF tables
<1> QED
  BY <1>2, <1>3, <1>4, <1>5, <1>6 DEF AddressOf, Address, tables

(* An address below half of the range has no top bit. *)
LEMMA LowAddress ==
    ASSUME NEW n \in Nat, n < (4 * FINE) * (COARSE * COARSE)
    PROVE  AddressOf(n).top = 0
<1> DEFINE tables == n \div (COARSE * COARSE)
<1>1. tables \in Nat
  BY Sizes, Quotient
<1>2. n < (COARSE * COARSE) * (4 * FINE)
  BY Sizes, SMT
<1>3. tables < 4 * FINE
  BY <1>2, Sizes, QuotientBound
<1> HIDE DEF tables
<1>4. tables < (4 * FINE) * 1
  BY <1>1, <1>3, Sizes
<1>5. tables \div (4 * FINE) < 1 /\ tables \div (4 * FINE) \in Nat
  BY <1>1, <1>4, Sizes, Quotient, QuotientBound
<1>6. (tables \div (4 * FINE)) % 2 = 0
  BY <1>5, SMT
<1> QED
  BY <1>6 DEF AddressOf, tables

(* The number of an address is in the range of 16 bits, and in its lower   *)
(* half without the top bit.                                               *)
LEMMA NumberRange ==
    ASSUME NEW a \in Address
    PROVE  /\ Number(a) \in Nat
           /\ a.top = 0 => Number(a) < (4 * FINE) * (COARSE * COARSE)
<1> USE Sizes
<1>0. /\ a.top \in 0..1 /\ a.fineY \in 0..(FINE - 1)
      /\ a.tableY \in 0..1 /\ a.tableX \in 0..1
      /\ a.coarseY \in 0..(COARSE - 1) /\ a.coarseX \in 0..(COARSE - 1)
  BY DEF Address
<1> DEFINE tables == ((a.top * FINE + a.fineY) * 2 + a.tableY) * 2 + a.tableX
           rows   == tables * COARSE + a.coarseY
<1>1. a.top * FINE \in Nat
  BY <1>0, SMT
<1>2. tables \in Nat /\ (a.top = 0 => tables < 4 * FINE)
  <2> DEFINE high == a.top * FINE
  <2>1. a.top = 0 => high = 0
    BY <1>0, SMT
  <2>2. high \in Nat
    BY <1>1
  <2> HIDE DEF high
  <2>3. ((high + a.fineY) * 2 + a.tableY) * 2 + a.tableX \in Nat
    BY <1>0, <2>2
  <2>4. high = 0 => ((high + a.fineY) * 2 + a.tableY) * 2 + a.tableX < 4 * FINE
    BY <1>0
  <2> QED
    BY <2>1, <2>3, <2>4 DEF high
<1> HIDE DEF tables
<1>3. rows \in Nat /\ (a.top = 0 => rows < (4 * FINE) * COARSE)
  <2>1. tables * COARSE \in Nat
    BY <1>2, SMT
  <2>2. ASSUME a.top = 0 PROVE rows < (4 * FINE) * COARSE
    <3>1. rows \in 0..((4 * FINE) * COARSE - 1)
      BY <1>0, <1>2, <2>2, DigitsBound
    <3> QED
      BY <3>1, SMT
  <2> QED
    BY <1>0, <2>1, <2>2, SMT
<1> HIDE DEF rows
<1>4. rows * COARSE \in Nat
  BY <1>3, SMT
<1>5. Number(a) = rows * COARSE + a.coarseX
  BY DEF Number, rows, tables
<1>6. ASSUME a.top = 0 PROVE Number(a) < (4 * FINE) * (COARSE * COARSE)
  <2>1. (4 * FINE) * COARSE \in Nat
    BY SMT
  <2>2. rows * COARSE + a.coarseX \in 0..(((4 * FINE) * COARSE) * COARSE - 1)
    BY <1>0, <1>3, <1>6, <2>1, DigitsBound
  <2>3. ((4 * FINE) * COARSE) * COARSE = (4 * FINE) * (COARSE * COARSE)
    BY SMT
  <2> QED
    BY <1>5, <2>2, <2>3, SMT
<1> QED
  BY <1>0, <1>4, <1>5, <1>6, SMT

-----------------------------------------------------------------------------
(* What a dot does to v yields addresses again.                            *)

LEMMA StepsType ==
    ASSUME NEW v \in Address, NEW t \in Address
    PROVE  /\ incrementHorizontalScroll(v) \in Address
           /\ incrementVerticalScroll(v) \in Address
           /\ copyHorizontalScroll(v, t) \in Address
           /\ copyVerticalScroll(v, t) \in Address
<1> USE Sizes
<1>1. incrementHorizontalScroll(v) \in Address
  <2>1. CASE v.coarseX = COARSE - 1
    <3>1. incrementHorizontalScroll(v)
              = [v EXCEPT !.coarseX = 0, !.tableX = 1 - v.tableX]
      BY <2>1 DEF incrementHorizontalScroll
    <3>2. 1 - v.tableX \in 0..1 /\ 0 \in 0..(COARSE - 1)
      BY DEF Address
    <3> QED
      BY <3>1, <3>2 DEF Address
  <2>2. CASE v.coarseX # COARSE - 1
    <3>1. incrementHorizontalScroll(v) = [v EXCEPT !.coarseX = v.coarseX + 1]
      BY <2>2 DEF incrementHorizontalScroll
    <3>2. v.coarseX + 1 \in 0..(COARSE - 1)
      BY <2>2 DEF Address
    <3> QED
      BY <3>1, <3>2 DEF Address
  <2> QED
    BY <2>1, <2>2
<1>2. NextRow(v) \in Address
  <2>1. CASE v.coarseY = ROWS - 1
    <3>1. NextRow(v) = [v EXCEPT !.coarseY = 0, !.tableY = 1 - v.tableY]
      BY <2>1 DEF NextRow
    <3>2. 1 - v.tableY \in 0..1 /\ 0 \in 0..(COARSE - 1)
      BY DEF Address
    <3> QED
      BY <3>1, <3>2 DEF Address
  <2>2. CASE v.coarseY = COARSE - 1
    <3>0. v.coarseY # ROWS - 1
      BY <2>2 DEF ROWS
    <3>1. NextRow(v) = [v EXCEPT !.coarseY = 0]
      BY <2>2, <3>0 DEF NextRow
    <3> QED
      BY <3>1 DEF Address
  <2>3. CASE v.coarseY \notin {ROWS - 1, COARSE - 1}
    <3>1. NextRow(v) = [v EXCEPT !.coarseY = v.coarseY + 1]
      BY <2>3 DEF NextRow
    <3>2. v.coarseY + 1 \in 0..(COARSE - 1)
      BY <2>3 DEF Address
    <3> QED
      BY <3>1, <3>2 DEF Address
  <2> QED
    BY <2>1, <2>2, <2>3
<1>3. incrementVerticalScroll(v) \in Address
  BY <1>2 DEF incrementVerticalScroll, Address
<1>4. copyHorizontalScroll(v, t) \in Address /\ copyVerticalScroll(v, t) \in Address
  BY DEF copyHorizontalScroll, copyVerticalScroll, Address
<1> QED
  BY <1>1, <1>3, <1>4

LEMMA ScrolledType ==
    ASSUME NEW v \in Address, temporaryVram \in Address, NEW c, NEW line
    PROVE  Scrolled(v, c, line) \in Address
BY StepsType DEF Scrolled

(* Positions on the plane of name tables.                                  *)
LEMMA PositionType ==
    ASSUME NEW a \in Address
    PROVE  /\ TileX(a) \in 0..(2 * COARSE - 1)
           /\ a.coarseY < ROWS => PixelY(a) \in 0..(2 * ROWS * FINE - 1)
<1> USE Sizes
<1>0. /\ a.fineY \in 0..(FINE - 1)
      /\ a.tableY \in 0..1 /\ a.tableX \in 0..1
      /\ a.coarseY \in 0..(COARSE - 1) /\ a.coarseX \in 0..(COARSE - 1)
  BY DEF Address
<1>1. a.tableX * COARSE + a.coarseX \in 0..(2 * COARSE - 1)
  BY <1>0, DigitsBound
<1>2. ASSUME a.coarseY < ROWS
      PROVE  (a.tableY * ROWS + a.coarseY) * FINE + a.fineY \in 0..(2 * ROWS * FINE - 1)
  <2>1. a.tableY * ROWS + a.coarseY \in 0..(2 * ROWS - 1)
    BY <1>0, <1>2, DigitsBound
  <2> DEFINE row == a.tableY * ROWS + a.coarseY
  <2>2. row \in Nat /\ row < 2 * ROWS
    BY <2>1
  <2> HIDE DEF row
  <2>3. row * FINE + a.fineY \in 0..((2 * ROWS) * FINE - 1)
    BY <1>0, <2>2, DigitsBound
  <2> QED
    BY <2>3 DEF row
<1> QED
  BY <1>1, <1>2 DEF TileX, PixelY

-----------------------------------------------------------------------------
(* What the program's bytes do to v and t.                                 *)

(* A byte has a coarse and a fine part. *)
LEMMA ByteParts ==
    ASSUME NEW value \in VALUES
    PROVE  /\ value \in 0..(BYTE - 1)
           /\ value % FINE \in 0..(FINE - 1)
           /\ value \div FINE \in 0..(COARSE - 1)
           /\ (value \div FINE) * FINE + (value % FINE) = value
<1> USE Sizes
<1>1. value \in 0..(BYTE - 1)
  BY ScrollAssumption
<1>2. value \in Nat /\ value < FINE * COARSE
  BY <1>1
<1>3. value % FINE \in 0..(FINE - 1)
  BY <1>2, Remainder
<1>4. value \div FINE \in Nat /\ value \div FINE < COARSE
  BY <1>2, Quotient, QuotientBound
<1>5. value = (value \div FINE) * FINE + (value % FINE)
  BY <1>2, Rebuild
<1> DEFINE coarse == value \div FINE
           fine   == value % FINE
<1> HIDE DEF coarse, fine
<1>6. /\ coarse \in 0..(COARSE - 1) /\ fine \in 0..(FINE - 1)
      /\ coarse * FINE + fine = value
  BY <1>3, <1>4, <1>5 DEF coarse, fine
<1> QED
  BY <1>1, <1>6 DEF coarse, fine

(* The range of addresses, in bytes. *)
LEMMA Halves ==
    /\ HIGH * BYTE <= (4 * FINE) * (COARSE * COARSE)
    /\ (4 * FINE) * (COARSE * COARSE) = (COARSE * COARSE) * (4 * FINE)
    /\ (4 * FINE) * (COARSE * COARSE) = BYTE * (4 * COARSE)
<1> USE Sizes
<1> DEFINE tile == FINE * COARSE
<1>1. tile \in Nat /\ BYTE = tile
  BY SMT
<1>2. FINE * tile \in Nat
  BY <1>1, SMT
<1>3. (4 * FINE) * (COARSE * COARSE) = 4 * (COARSE * tile)
  BY SMT
<1>4. COARSE * tile = 4 * (FINE * tile)
  BY <1>1, SMT
<1>5. HIGH * BYTE = 8 * (FINE * tile)
  BY <1>1, SMT DEF HIGH
<1>6. tile * (4 * COARSE) = 4 * (COARSE * tile)
  BY <1>1, SMT
<1>7. (4 * FINE) * (COARSE * COARSE) = (COARSE * COARSE) * (4 * FINE)
  BY SMT
<1> HIDE DEF tile
<1>8. HIGH * BYTE <= (4 * FINE) * (COARSE * COARSE)
  BY <1>2, <1>3, <1>4, <1>5
<1>9. (4 * FINE) * (COARSE * COARSE) = BYTE * (4 * COARSE)
  BY <1>1, <1>3, <1>6
<1> QED
  BY <1>7, <1>8, <1>9

LEMMA FirstByteType ==
    ASSUME NEW value \in Nat, NEW a \in Address
    PROVE  /\ AddressOf((value % HIGH) * BYTE + (Number(a) % BYTE)) \in Address
           /\ AddressOf((value % HIGH) * BYTE + (Number(a) % BYTE)).top = 0
<1> USE Sizes
<1>1. Number(a) % BYTE \in 0..(BYTE - 1)
  BY NumberRange, Remainder
<1>2. value % HIGH \in 0..(HIGH - 1)
  BY Remainder
<1> DEFINE n == (value % HIGH) * BYTE + (Number(a) % BYTE)
<1>3. n \in 0..(HIGH * BYTE - 1)
  BY <1>1, <1>2, DigitsBound
<1>4. HIGH * BYTE \in Nat /\ (4 * FINE) * (COARSE * COARSE) \in Nat
  BY SMT
<1> HIDE DEF n
<1>5. n \in Nat /\ n < (4 * FINE) * (COARSE * COARSE)
  BY <1>3, <1>4, Halves
<1>6. AddressOf(n) \in Address /\ AddressOf(n).top = 0
  BY <1>5, AddressOfType, LowAddress
<1> QED
  BY <1>6 DEF n

LEMMA SecondByteType ==
    ASSUME NEW value \in 0..(BYTE - 1), NEW a \in Address, a.top = 0
    PROVE  /\ AddressOf((Number(a) \div BYTE) * BYTE + value) \in Address
           /\ AddressOf((Number(a) \div BYTE) * BYTE + value).top = 0
<1> USE Sizes
<1> DEFINE high == Number(a) \div BYTE
           n    == high * BYTE + value
<1>1. Number(a) \in Nat /\ Number(a) < BYTE * (4 * COARSE)
  BY NumberRange, Halves
<1>2. 4 * COARSE \in Nat
  OBVIOUS
<1>3. high \in Nat /\ high < 4 * COARSE
  BY <1>1, <1>2, Quotient, QuotientBound
<1> HIDE DEF high
<1>4. n \in 0..((4 * COARSE) * BYTE - 1)
  BY <1>2, <1>3, DigitsBound
<1>5. (4 * COARSE) * BYTE = BYTE * (4 * COARSE) /\ (4 * COARSE) * BYTE \in Nat
  BY SMT
<1> HIDE DEF n
<1>6. n \in Nat /\ n < (4 * FINE) * (COARSE * COARSE)
  BY <1>4, <1>5, Halves
<1>7. AddressOf(n) \in Address /\ AddressOf(n).top = 0
  BY <1>6, AddressOfType, LowAddress
<1> QED
  BY <1>7 DEF n, high

(* PPUCTRL leaves t an address.                                            *)
LEMMA CtrlType ==
    ASSUME temporaryVram \in Address, temporaryVram.top = 0,
           NEW value \in VALUES, writePPUCTRL(value)
    PROVE  temporaryVram' \in Address /\ temporaryVram'.top = 0
<1> USE Sizes
<1> DEFINE x == IF BitX(value) = 1 THEN 1 ELSE temporaryVram.tableX
           y == IF BitY(value) = 1 THEN 1 ELSE temporaryVram.tableY
           row == temporaryVram.coarseY % FINE
<1>1. row \in 0..(FINE - 1)
  <2>1. temporaryVram.coarseY \in Nat
    BY DEF Address
  <2> QED
    BY <2>1, Remainder
<1>2. x \in 0..1 /\ y \in 0..1 /\ row \in 0..(COARSE - 1)
  BY <1>1 DEF Address
<1>3. temporaryVram' = [temporaryVram EXCEPT !.coarseY = row,
                                             !.tableX = x, !.tableY = y]
  BY DEF writePPUCTRL
<1> HIDE DEF x, y, row
<1> QED
  BY <1>2, <1>3 DEF Address

-----------------------------------------------------------------------------
(* The registers keep their widths: no field of v, t or the fine scroll    *)
(* ever leaves the bits PPU::step masks it with, t never sets the bit that *)
(* PPUADDR clears, and the scroll positions are points of the plane.       *)
THEOREM ScrollTypeCorrect == Spec => []TypeOK
<1> USE Sizes
<1>1. Init => TypeOK
  <2> SUFFICES ASSUME Init PROVE TypeOK
    OBVIOUS
  <2>1. 0 < (4 * FINE) * (COARSE * COARSE)
    BY SMT
  <2>2. AddressOf(0) \in Address /\ AddressOf(0).top = 0
    BY <2>1, AddressOfType, LowAddress
  <2>3. /\ CLOCK_CYCLE - 1 \in 0..(CLOCK_CYCLE - 1)
        /\ POST_RENDER_SCAN_LINE \in 0..PRE_RENDER_SCAN_LINE
    BY ScrollAssumption
  <2>4. NoPair \in [register : {"none", "scroll", "addr", "addrAndCtrl"},
                    value : 0..(BYTE - 1)]
    BY DEF NoPair
  <2>5. 0 \in 0..(FINE - 1) /\ 0 \in 0..MAX_ACCESSES
    BY ScrollAssumption
  <2> QED
    BY <2>2, <2>3, <2>4, <2>5 DEF Init, TypeOK
<1>2. ASSUME TypeOK, Dot PROVE TypeOK'
  <2>1. clock' \in 0..(CLOCK_CYCLE - 1) /\ scanLine' \in 0..PRE_RENDER_SCAN_LINE
    <3>1. /\ CLOCK_CYCLE \in Nat /\ PRE_RENDER_SCAN_LINE \in Nat
          /\ clock \in 0..(CLOCK_CYCLE - 1) /\ scanLine \in 0..PRE_RENDER_SCAN_LINE
      BY <1>2, ScrollAssumption DEF TypeOK
    <3>2. (scanLine + 1) % (PRE_RENDER_SCAN_LINE + 1) \in 0..PRE_RENDER_SCAN_LINE
      BY <3>1, Remainder
    <3> QED
      BY <1>2, <3>1, <3>2 DEF Dot, tick
  <2>2. currentVram' \in Address
    BY <1>2, ScrolledType DEF Dot, TypeOK
  <2>3. /\ originX' \in (0..(2 * COARSE - 1)) \cup {Unknown}
        /\ originY' \in (0..(2 * ROWS * FINE - 1)) \cup {Unknown}
    BY <1>2, PositionType DEF Dot, KnownOrigins, TypeOK
  <2> QED
    BY <1>2, <2>1, <2>2, <2>3 DEF Dot, TypeOK
<1>3. ASSUME TypeOK, Access PROVE TypeOK'
  <2>1. /\ clock' \in 0..(CLOCK_CYCLE - 1) /\ scanLine' \in 0..PRE_RENDER_SCAN_LINE
        /\ accesses' \in 0..MAX_ACCESSES
    BY <1>3, ScrollAssumption DEF Access, TypeOK
  <2> DEFINE RegistersOK ==
                 /\ rendering \in BOOLEAN
                 /\ incrementFlag \in BOOLEAN
                 /\ currentVram \in Address
                 /\ temporaryVram \in Address /\ temporaryVram.top = 0
                 /\ fineScroll \in 0..(FINE - 1)
                 /\ writeToggle \in BOOLEAN
             HistoryOK ==
                 /\ first \in [register : {"none", "scroll", "addr", "addrAndCtrl"},
                               value : 0..(BYTE - 1)]
                 /\ originX \in (0..(2 * COARSE - 1)) \cup {Unknown}
                 /\ originY \in (0..(2 * ROWS * FINE - 1)) \cup {Unknown}
  <2>2. RegistersOK /\ HistoryOK
    BY <1>3 DEF TypeOK
  <2>3. ASSUME NEW value \in VALUES, writePPUCTRL(value)
        PROVE  RegistersOK' /\ HistoryOK'
    <3>2. temporaryVram' \in Address /\ temporaryVram'.top = 0
      BY <2>2, <2>3, CtrlType
    <3>3. incrementFlag' \in BOOLEAN
      BY <2>3 DEF writePPUCTRL, ByRow
    <3> QED
      BY <2>2, <2>3, <3>2, <3>3 DEF writePPUCTRL, Undisturbed
  <2>4. ASSUME NEW value \in VALUES, NEW register \in {"scroll", "addr"},
               Pair(register, value)
        PROVE  first' \in [register : {"none", "scroll", "addr", "addrAndCtrl"},
                           value : 0..(BYTE - 1)]
    BY <2>4, ByteParts DEF Pair, NoPair
  <2>5. ASSUME NEW value \in VALUES, writePPUSCROLL(value)
        PROVE  RegistersOK' /\ HistoryOK'
    <3>1. value % FINE \in 0..(FINE - 1) /\ value \div FINE \in 0..(COARSE - 1)
      BY ByteParts
    <3>2. temporaryVram' \in Address /\ temporaryVram'.top = 0
      BY <2>2, <2>5, <3>1 DEF writePPUSCROLL, Address
    <3>3. fineScroll' \in 0..(FINE - 1) /\ writeToggle' \in BOOLEAN
      BY <2>2, <2>5, <3>1 DEF writePPUSCROLL
    <3>4. HistoryOK'
      BY <2>2, <2>4, <2>5 DEF writePPUSCROLL, Undisturbed
    <3> QED
      BY <2>2, <2>5, <3>2, <3>3, <3>4 DEF writePPUSCROLL
  <2>6. ASSUME NEW value \in VALUES, writePPUADDR(value)
        PROVE  RegistersOK' /\ HistoryOK'
    <3>1. value \in 0..(BYTE - 1) /\ value \in Nat
      BY ByteParts
    <3>2. /\ temporaryVram' \in Address /\ temporaryVram'.top = 0
          /\ currentVram' \in Address /\ writeToggle' \in BOOLEAN
      <4> DEFINE one == AddressOf((value % HIGH) * BYTE
                                      + (Number(temporaryVram) % BYTE))
                 two == AddressOf((Number(temporaryVram) \div BYTE) * BYTE + value)
      <4>1. one \in Address /\ one.top = 0
        BY <2>2, <3>1, FirstByteType
      <4>2. two \in Address /\ two.top = 0
        BY <2>2, <3>1, SecondByteType
      <4>3. \/ /\ temporaryVram' = two /\ currentVram' = two
               /\ writeToggle' = FALSE
            \/ /\ temporaryVram' = one /\ currentVram' = currentVram
               /\ writeToggle' = TRUE
        BY <2>6 DEF writePPUADDR
      <4> HIDE DEF one, two
      <4> QED
        BY <2>2, <4>1, <4>2, <4>3
    <3>3. HistoryOK'
      BY <2>2, <2>4, <2>6 DEF writePPUADDR, Disturbs, Undisturbed
    <3> QED
      BY <2>2, <2>6, <3>2, <3>3 DEF writePPUADDR
  <2>7. ASSUME NEW show \in BOOLEAN, writePPUMASK(show)
        PROVE  RegistersOK' /\ HistoryOK'
    BY <2>2, <2>7 DEF writePPUMASK, registers, Disturbs, Undisturbed
  <2>8. ASSUME readPPUSTATUS PROVE RegistersOK' /\ HistoryOK'
    <3>1. first' \in [register : {"none", "scroll", "addr", "addrAndCtrl"},
                      value : 0..(BYTE - 1)]
      BY <2>8 DEF readPPUSTATUS, NoPair
    <3> QED
      BY <2>2, <2>8, <3>1 DEF readPPUSTATUS, Undisturbed
  <2>9. ASSUME accessPPUDATA PROVE RegistersOK' /\ HistoryOK'
    <3> DEFINE next == Number(currentVram) + (IF incrementFlag THEN COARSE ELSE 1)
    <3>1. next \in Nat
      BY <2>2, NumberRange
    <3>2. RANGE \in Nat \ {0}
      BY SMT DEF RANGE
    <3> HIDE DEF next
    <3>3. next % RANGE \in Nat
      BY <3>1, <3>2, Remainder
    <3>4. AddressOf(next % RANGE) \in Address
      BY <3>3, AddressOfType
    <3>5. currentVram' \in Address
      BY <2>9, <3>4 DEF accessPPUDATA, next
    <3> QED
      BY <2>2, <2>9, <3>5 DEF accessPPUDATA, Disturbs
  <2>10. RegistersOK' /\ HistoryOK'
    BY <1>3, <2>3, <2>5, <2>6, <2>7, <2>8, <2>9 DEF Access
  <2> QED
    BY <2>1, <2>10 DEF TypeOK
<1>4. ASSUME TypeOK, UNCHANGED vars PROVE TypeOK'
  BY <1>4 DEF TypeOK, vars, registers
<1>5. TypeOK /\ [Next]_vars => TypeOK'
  BY <1>2, <1>3, <1>4 DEF Next
<1> QED
  BY <1>1, <1>5, PTL DEF Spec

-----------------------------------------------------------------------------
(* A number of 16 bits is the number of its address: the fields are the    *)
(* code's words, without loss.                                             *)
LEMMA NumberOfAddressOf ==
    ASSUME NEW n \in Nat, n < RANGE
    PROVE  Number(AddressOf(n)) = n
<1>a. \A d \in Nat \ {0} : (n \div d) \div d = n \div (d * d)
  BY QuotientOfQuotient
<1>b. \A k \in Nat, e \in Nat \ {0} : (k \div 4) \div e = k \div (4 * e)
  BY QuotientOfQuotient
<1> USE Sizes
<1> DEFINE tiles  == n \div COARSE
           tables == n \div (COARSE * COARSE)
           fines  == tables \div 4
           tops   == tables \div (4 * FINE)
<1>1. tiles \in Nat /\ n = tiles * COARSE + (n % COARSE)
  BY Quotient, Rebuild
<1>2. tables = tiles \div COARSE
  BY <1>a, Zenon
<1>3. tables \in Nat /\ tiles = tables * COARSE + (tiles % COARSE)
  <2> HIDE DEF tiles, tables
  <2> QED
    BY <1>1, <1>2, Quotient, Rebuild
<1>4. fines \in Nat /\ tops \in Nat
  BY <1>3, Quotient
<1>5. tops = fines \div FINE
  <2> HIDE DEF tables
  <2> QED
    BY <1>3, <1>b
<1>6. fines = tops * FINE + (fines % FINE)
  <2> HIDE DEF fines, tops
  <2> QED
    BY <1>4, <1>5, Rebuild
<1>7. tops % 2 = tops
  <2>1. RANGE = (COARSE * COARSE) * (8 * FINE)
    BY SMT DEF RANGE
  <2>2. tables < 8 * FINE
    BY <2>1, QuotientBound
  <2> HIDE DEF tables
  <2>3. tables < (4 * FINE) * 2
    BY <1>3, <2>2
  <2>4. tops < 2
    BY <1>3, <2>3, QuotientBound
  <2> QED
    BY <1>4, <2>4, SMT
<1>8. tables = ((tops * FINE + (fines % FINE)) * 2 + ((tables \div 2) % 2)) * 2
                  + (tables % 2)
  <2> HIDE DEF tables, tops
  <2>1. tables = (fines * 2 + ((tables \div 2) % 2)) * 2 + (tables % 2)
    BY <1>3, SMT
  <2> QED
    BY <1>6, <2>1
<1>9. Number(AddressOf(n))
          = (((((tops % 2) * FINE + (fines % FINE)) * 2 + ((tables \div 2) % 2)) * 2
               + (tables % 2)) * COARSE + (tiles % COARSE)) * COARSE + (n % COARSE)
  BY DEF Number, AddressOf
<1> HIDE DEF tiles, tables, fines, tops
<1> QED
  BY <1>1, <1>3, <1>7, <1>8, <1>9

-----------------------------------------------------------------------------
(* What is known between the two writes of a pair: the toggle is up, and   *)
(* the first byte is in the fields it went to, where no other access and   *)
(* no dot touches it; a write to PPUCTRL touches bits 8 to 11 only.        *)
PairOK ==
    /\ writeToggle <=> first # NoPair
    /\ first.register = "none" => first = NoPair
    /\ first.register = "scroll" =>
           temporaryVram.coarseX * FINE + fineScroll = first.value
    /\ first.register = "addr" =>
           Number(temporaryVram) \div BYTE = first.value % HIGH
    /\ first.register = "addrAndCtrl" =>
           Number(temporaryVram) \div (BYTE * 16) = (first.value % HIGH) \div 16

(* The bits above those PPUCTRL writes are those of the fine row.          *)
LEMMA UpperBits ==
    ASSUME NEW a \in Address
    PROVE  Number(a) \div (BYTE * 16) = a.top * FINE + a.fineY
<1> USE Sizes
<1>0. /\ a.top \in 0..1 /\ a.fineY \in 0..(FINE - 1)
      /\ a.tableY \in 0..1 /\ a.tableX \in 0..1
      /\ a.coarseY \in 0..(COARSE - 1) /\ a.coarseX \in 0..(COARSE - 1)
  BY DEF Address
<1> DEFINE upper  == a.top * FINE + a.fineY
           tables == a.tableY * 2 + a.tableX
           rows   == tables * COARSE + a.coarseY
           low    == rows * COARSE + a.coarseX
           size   == (4 * COARSE) * COARSE
<1>1. upper \in Nat
  BY <1>0, SMT
<1>2. tables \in 0..3
  BY <1>0
<1>3. rows \in 0..(4 * COARSE - 1)
  <2> HIDE DEF tables
  <2>1. rows \in 0..(4 * COARSE - 1)
    BY <1>0, <1>2, DigitsBound
  <2> QED
    BY <2>1
<1>4. low \in 0..(size - 1)
  <2> HIDE DEF rows
  <2>1. 4 * COARSE \in Nat
    OBVIOUS
  <2> QED
    BY <1>0, <1>3, <2>1, DigitsBound
<1>5. Number(a) = upper * size + low
  <2>1. Number(a) = ((upper * 4 + tables) * COARSE + a.coarseY) * COARSE + a.coarseX
    <3> HIDE DEF upper
    <3>1. (upper * 2 + a.tableY) * 2 + a.tableX = upper * 4 + tables
      BY <1>0, <1>1
    <3>2. Number(a) = (((upper * 2 + a.tableY) * 2 + a.tableX) * COARSE + a.coarseY)
                          * COARSE + a.coarseX
      BY DEF Number, upper
    <3> QED
      BY <3>1, <3>2
  <2> HIDE DEF upper, tables
  <2>2. (upper * 4 + tables) * COARSE + a.coarseY
            = upper * (4 * COARSE) + (tables * COARSE + a.coarseY)
    BY <1>0, <1>1, <1>2, SMT
  <2>3. ASSUME NEW r \in Nat
        PROVE  (upper * (4 * COARSE) + r) * COARSE = upper * ((4 * COARSE) * COARSE)
                                                      + r * COARSE
    BY <1>1, SMT
  <2>4. rows \in Nat
    BY <1>3
  <2> HIDE DEF rows
  <2>5. Number(a) = (upper * (4 * COARSE) + rows) * COARSE + a.coarseX
    BY <2>1, <2>2 DEF rows
  <2>6. upper * size \in Nat /\ rows * COARSE \in Nat
    BY <1>1, <2>4, SMT
  <2> QED
    BY <1>0, <2>3, <2>4, <2>5, <2>6
<1>6. size = BYTE * 16 /\ size \in Nat \ {0}
  <2> DEFINE square == FINE * FINE
  <2>1. square \in Nat \ {0}
    BY SMT
  <2>2. COARSE * COARSE = 16 * square /\ size = 4 * (COARSE * COARSE)
    BY SMT
  <2>3. BYTE = 4 * square
    BY SMT DEF BYTE
  <2> HIDE DEF square
  <2> QED
    BY <2>1, <2>2, <2>3
<1> HIDE DEF upper, low, size
<1>7. low \in Nat /\ low < size
  BY <1>4, <1>6
<1>8. Number(a) \div size = upper
  BY <1>1, <1>5, <1>6, <1>7, Digits
<1> QED
  BY <1>6, <1>8 DEF upper

(* The first byte of an address, found again in t. *)
LEMMA FirstByteKept ==
    ASSUME NEW value \in Nat, NEW a \in Address
    PROVE  Number(AddressOf((value % HIGH) * BYTE + (Number(a) % BYTE))) \div BYTE
               = value % HIGH
<1> USE Sizes
<1> DEFINE high == value % HIGH
           low  == Number(a) % BYTE
           n    == high * BYTE + low
<1>1. low \in 0..(BYTE - 1) /\ high \in 0..(HIGH - 1)
  BY NumberRange, Remainder
<1> HIDE DEF high, low
<1>2. n \in 0..(HIGH * BYTE - 1)
  BY <1>1, DigitsBound
<1>3. n \div BYTE = high
  BY <1>1, Digits
<1>4. HIGH * BYTE \in Nat /\ HIGH * BYTE <= RANGE /\ RANGE \in Nat
  <2>1. HIGH * BYTE \in Nat /\ (4 * FINE) * (COARSE * COARSE) \in Nat
    BY SMT
  <2>2. RANGE = 2 * ((4 * FINE) * (COARSE * COARSE))
    BY SMT DEF RANGE
  <2> QED
    BY <2>1, <2>2, Halves
<1> HIDE DEF n
<1>5. Number(AddressOf(n)) = n
  BY <1>2, <1>4, NumberOfAddressOf
<1> QED
  BY <1>3, <1>5 DEF n, high, low

(* The second byte joins the first.                                        *)
LEMMA SecondByteJoins ==
    ASSUME NEW value \in 0..(BYTE - 1), NEW a \in Address, a.top = 0
    PROVE  Number(AddressOf((Number(a) \div BYTE) * BYTE + value))
               = (Number(a) \div BYTE) * BYTE + value
<1> USE Sizes
<1> DEFINE high == Number(a) \div BYTE
           n    == high * BYTE + value
<1>1. Number(a) \in Nat /\ Number(a) < BYTE * (4 * COARSE)
  BY NumberRange, Halves
<1>2. high \in Nat /\ high < 4 * COARSE
  BY <1>1, Quotient, QuotientBound
<1> HIDE DEF high
<1>3. n \in 0..((4 * COARSE) * BYTE - 1)
  BY <1>2, DigitsBound
<1>4. (4 * COARSE) * BYTE \in Nat /\ (4 * COARSE) * BYTE <= RANGE /\ RANGE \in Nat
  <2>1. (4 * COARSE) * BYTE = (4 * FINE) * (COARSE * COARSE)
    BY Halves, SMT
  <2>2. (4 * FINE) * (COARSE * COARSE) \in Nat
    BY SMT
  <2>3. RANGE = 2 * ((4 * FINE) * (COARSE * COARSE))
    BY SMT DEF RANGE
  <2> QED
    BY <2>1, <2>2, <2>3
<1> HIDE DEF n
<1>5. Number(AddressOf(n)) = n
  BY <1>3, <1>4, NumberOfAddressOf
<1> QED
  BY <1>5 DEF n, high

LEMMA PairInvariant == Spec => []PairOK
<1>1. Init => PairOK
  BY DEF Init, PairOK, NoPair
<1>2. ASSUME TypeOK, PairOK, Dot PROVE PairOK'
  BY <1>2 DEF Dot, PairOK
<1>3. ASSUME TypeOK, PairOK, Access PROVE PairOK'
  <2>1. ASSUME NEW value \in VALUES, writePPUCTRL(value) PROVE PairOK'
    <3>1. /\ temporaryVram'.coarseX = temporaryVram.coarseX
          /\ UNCHANGED <<fineScroll, writeToggle>>
      BY <1>3, <2>1 DEF writePPUCTRL, TypeOK, Address
    <3>2. Number(temporaryVram') \div (BYTE * 16) = Number(temporaryVram) \div (BYTE * 16)
      <4>1. /\ temporaryVram'.top = temporaryVram.top
            /\ temporaryVram'.fineY = temporaryVram.fineY
        BY <1>3, <2>1 DEF writePPUCTRL, TypeOK, Address
      <4>2. temporaryVram \in Address /\ temporaryVram' \in Address
        BY <1>3, <2>1, CtrlType DEF TypeOK
      <4> QED
        BY <4>1, <4>2, UpperBits
    <3>3. CASE first.register = "addr"
      <4>1. first' = [first EXCEPT !.register = "addrAndCtrl"]
        BY <2>1, <3>3 DEF writePPUCTRL
      <4>2. first'.register = "addrAndCtrl"
        BY <1>3, <4>1 DEF TypeOK
      <4>3. first' # NoPair /\ first # NoPair /\ first'.value = first.value
        BY <1>3, <3>3, <4>1, <4>2 DEF NoPair, TypeOK
      <4>4. Number(temporaryVram) \div BYTE = first.value % HIGH
        BY <1>3, <3>3 DEF PairOK
      <4>5. (Number(temporaryVram) \div BYTE) \div 16
                = Number(temporaryVram) \div (BYTE * 16)
        BY <1>3, NumberRange, Sizes, QuotientOfQuotient DEF TypeOK
      <4> QED
        BY <1>3, <3>1, <3>2, <4>2, <4>3, <4>4, <4>5 DEF PairOK
    <3>4. CASE first.register # "addr"
      <4>1. first' = first
        BY <2>1, <3>4 DEF writePPUCTRL
      <4> QED
        BY <1>3, <3>1, <3>2, <3>4, <4>1 DEF PairOK
    <3> QED
      BY <3>3, <3>4
  <2>2. ASSUME NEW value \in VALUES, writePPUSCROLL(value) PROVE PairOK'
    <3>1. CASE writeToggle
      <4>1. first' = NoPair /\ writeToggle' = FALSE
        BY <1>3, <2>2, <3>1 DEF writePPUSCROLL, Pair, PairOK
      <4> QED
        BY <4>1 DEF PairOK, NoPair
    <3>2. CASE ~writeToggle
      <4>1. first' = [register |-> "scroll", value |-> value] /\ writeToggle' = TRUE
        BY <1>3, <2>2, <3>2 DEF writePPUSCROLL, Pair, PairOK
      <4>2. /\ temporaryVram'.coarseX = value \div FINE
            /\ fineScroll' = value % FINE
        BY <1>3, <2>2, <3>2 DEF writePPUSCROLL, TypeOK, Address
      <4>3. (value \div FINE) * FINE + (value % FINE) = value
        BY ByteParts
      <4>4. first'.register = "scroll" /\ first'.value = value /\ first' # NoPair
        BY <4>1 DEF NoPair
      <4>5. temporaryVram'.coarseX * FINE + fineScroll' = value
        BY <4>2, <4>3
      <4> QED
        BY <4>1, <4>4, <4>5 DEF PairOK
    <3> QED
      BY <3>1, <3>2
  <2>3. ASSUME NEW value \in VALUES, writePPUADDR(value) PROVE PairOK'
    <3>1. CASE writeToggle
      <4>1. first' = NoPair /\ writeToggle' = FALSE
        BY <1>3, <2>3, <3>1 DEF writePPUADDR, Pair, PairOK
      <4> QED
        BY <4>1 DEF PairOK, NoPair
    <3>2. CASE ~writeToggle
      <4>1. first' = [register |-> "addr", value |-> value] /\ writeToggle' = TRUE
        BY <1>3, <2>3, <3>2 DEF writePPUADDR, Pair, PairOK
      <4>2. temporaryVram' = AddressOf((value % HIGH) * BYTE
                                           + (Number(temporaryVram) % BYTE))
        BY <2>3, <3>2 DEF writePPUADDR
      <4>3. value \in Nat /\ temporaryVram \in Address
        BY <1>3, ByteParts DEF TypeOK
      <4>4. Number(temporaryVram') \div BYTE = value % HIGH
        BY <4>2, <4>3, FirstByteKept
      <4>5. first'.register = "addr" /\ first'.value = value /\ first' # NoPair
        BY <4>1 DEF NoPair
      <4> QED
        BY <4>1, <4>4, <4>5 DEF PairOK
    <3> QED
      BY <3>1, <3>2
  <2>4. ASSUME NEW show \in BOOLEAN, writePPUMASK(show) PROVE PairOK'
    BY <1>3, <2>4 DEF writePPUMASK, registers, PairOK
  <2>5. ASSUME readPPUSTATUS PROVE PairOK'
    BY <2>5 DEF readPPUSTATUS, PairOK, NoPair
  <2>6. ASSUME accessPPUDATA PROVE PairOK'
    BY <1>3, <2>6 DEF accessPPUDATA, PairOK
  <2> QED
    BY <1>3, <2>1, <2>2, <2>3, <2>4, <2>5, <2>6 DEF Access
<1>4. ASSUME PairOK, UNCHANGED vars PROVE PairOK'
  BY <1>4 DEF PairOK, vars, registers
<1>5. TypeOK /\ PairOK /\ [Next]_vars => PairOK'
  BY <1>2, <1>3, <1>4 DEF Next
<1> QED
  BY <1>1, <1>5, ScrollTypeCorrect, PTL DEF Spec

(* A pair of writes to PPUSCROLL is the position in pixels, one to PPUADDR *)
(* the address PPUDATA accesses, for every program and any number of dots  *)
(* between the two; after a write to PPUCTRL between them, the address in  *)
(* all bits but those that write owns.                                     *)
THEOREM PairsTakeEffect == Spec => PairTakesEffect
<1>1. ASSUME TypeOK, PairOK, NEW value \in VALUES,
             first.register = "scroll", writePPUSCROLL(value)
      PROVE  /\ temporaryVram'.coarseX * FINE + fineScroll' = first.value
             /\ temporaryVram'.coarseY * FINE + temporaryVram'.fineY = value
  <2>1. writeToggle
    BY <1>1 DEF PairOK, NoPair
  <2>2. /\ temporaryVram' = [temporaryVram EXCEPT !.top = 0,
                                                  !.fineY = value % FINE,
                                                  !.coarseY = value \div FINE]
        /\ fineScroll' = fineScroll
    BY <1>1, <2>1 DEF writePPUSCROLL
  <2>3. /\ temporaryVram'.coarseX = temporaryVram.coarseX
        /\ temporaryVram'.coarseY = value \div FINE
        /\ temporaryVram'.fineY = value % FINE
    BY <1>1, <2>2 DEF TypeOK, Address
  <2>4. (value \div FINE) * FINE + (value % FINE) = value
    BY ByteParts
  <2> QED
    BY <1>1, <2>2, <2>3, <2>4 DEF PairOK
<1>2. ASSUME TypeOK, PairOK, NEW value \in VALUES,
             first.register = "addr", writePPUADDR(value)
      PROVE  Number(currentVram') = (first.value % HIGH) * BYTE + value
  <2>1. writeToggle
    BY <1>2 DEF PairOK, NoPair
  <2>2. currentVram' = AddressOf((Number(temporaryVram) \div BYTE) * BYTE + value)
    BY <1>2, <2>1 DEF writePPUADDR
  <2>3. value \in 0..(BYTE - 1) /\ temporaryVram \in Address /\ temporaryVram.top = 0
    BY <1>2, ByteParts DEF TypeOK
  <2>4. Number(currentVram') = (Number(temporaryVram) \div BYTE) * BYTE + value
    BY <2>2, <2>3, SecondByteJoins
  <2> QED
    BY <1>2, <2>4 DEF PairOK
<1>3. ASSUME TypeOK, PairOK, NEW value \in VALUES,
             first.register = "addrAndCtrl", writePPUADDR(value)
      PROVE  /\ Number(currentVram') % BYTE = value
             /\ Number(currentVram') \div (BYTE * 16) = (first.value % HIGH) \div 16
  <2>1. writeToggle
    BY <1>3 DEF PairOK, NoPair
  <2>2. currentVram' = AddressOf((Number(temporaryVram) \div BYTE) * BYTE + value)
    BY <1>3, <2>1 DEF writePPUADDR
  <2>3. value \in 0..(BYTE - 1) /\ temporaryVram \in Address /\ temporaryVram.top = 0
    BY <1>3, ByteParts DEF TypeOK
  <2> DEFINE t == Number(temporaryVram)
             v == Number(currentVram')
  <2>4. v = (t \div BYTE) * BYTE + value
    BY <2>2, <2>3, SecondByteJoins
  <2>5. t \in Nat /\ t \div BYTE \in Nat /\ BYTE \in Nat \ {0}
    BY <2>3, NumberRange, Sizes, Quotient
  <2>6. t \div (BYTE * 16) = (first.value % HIGH) \div 16
    BY <1>3 DEF PairOK
  <2> HIDE DEF t, v
  <2>7. v \div BYTE = t \div BYTE /\ v % BYTE = value
    <3> DEFINE high == t \div BYTE
    <3>1. high \in Nat /\ value \in Nat /\ value < BYTE
      BY <2>3, <2>5
    <3>2. v = high * BYTE + value
      BY <2>4
    <3> HIDE DEF high
    <3>3. v \div BYTE = high /\ v % BYTE = value
      BY <2>5, <3>1, <3>2, Digits
    <3> QED
      BY <3>3 DEF high
  <2>8. v \in Nat
    <3>1. (t \div BYTE) * BYTE \in Nat
      BY <2>5, SMT
    <3> QED
      BY <2>3, <2>4, <3>1
  <2>9. /\ (v \div BYTE) \div 16 = v \div (BYTE * 16)
        /\ (t \div BYTE) \div 16 = t \div (BYTE * 16)
    BY <2>5, <2>8, QuotientOfQuotient
  <2> QED
    BY <2>6, <2>7, <2>9 DEF v
<1> DEFINE Effect ==
    \A value \in VALUES :
        /\ first.register = "scroll" /\ writePPUSCROLL(value) =>
               /\ temporaryVram'.coarseX * FINE + fineScroll' = first.value
               /\ temporaryVram'.coarseY * FINE + temporaryVram'.fineY = value
        /\ first.register = "addr" /\ writePPUADDR(value) =>
               Number(currentVram') = (first.value % HIGH) * BYTE + value
        /\ first.register = "addrAndCtrl" /\ writePPUADDR(value) =>
               /\ Number(currentVram') % BYTE = value
               /\ Number(currentVram') \div (BYTE * 16) = (first.value % HIGH) \div 16
<1>4. TypeOK /\ PairOK => Effect
  BY <1>1, <1>2, <1>3
<1> HIDE DEF Effect
<1>5. [][Effect]_vars => PairTakesEffect
  BY DEF PairTakesEffect, Effect
<1> QED
  BY <1>4, <1>5, ScrollTypeCorrect, PairInvariant, PTL

-----------------------------------------------------------------------------
(* Positions move on by one, round the plane.                              *)

LEMMA Wraps ==
    ASSUME NEW n \in Nat, NEW d \in Nat \ {0}, n <= d
    PROVE  n % d = IF n = d THEN 0 ELSE n
<1>1. CASE n = d
  <2>1. (1 * d + 0) % d = 0
    BY Digits
  <2>2. 1 * d + 0 = n
    BY <1>1
  <2> QED
    BY <1>1, <2>1, <2>2
<1>2. CASE n < d
  <2>1. (0 * d + n) % d = n
    BY <1>2, Digits
  <2>2. 0 * d + n = n
    OBVIOUS
  <2> QED
    BY <1>2, <2>1, <2>2
<1> QED
  BY <1>1, <1>2

LEMMA StepsRound ==
    ASSUME NEW n \in Nat, NEW d \in Nat \ {0}
    PROVE  ((n % d) + 1) % d = (n + 1) % d
<1> DEFINE q == n \div d
           r == n % d
           s == (r + 1) % d
<1>1. q \in Nat /\ r \in 0..(d - 1) /\ n = q * d + r
  BY Quotient, Remainder, Rebuild
<1> HIDE DEF q, r
<1>2. s = IF r + 1 = d THEN 0 ELSE r + 1
  BY <1>1, Wraps
<1>3. CASE r + 1 = d
  <2>1. ((q + 1) * d + 0) % d = 0
    BY <1>1, Digits
  <2>2. (q + 1) * d = q * d + d /\ q * d \in Nat
    BY <1>1, SMT
  <2>3. (q + 1) * d + 0 = n + 1
    BY <1>1, <1>3, <2>2
  <2> QED
    BY <1>2, <1>3, <2>1, <2>3 DEF r
<1>4. CASE r + 1 # d
  <2>1. (q * d + (r + 1)) % d = r + 1
    BY <1>1, <1>4, Digits
  <2>2. q * d \in Nat
    BY <1>1, SMT
  <2>3. q * d + (r + 1) = n + 1
    BY <1>1, <2>2
  <2> QED
    BY <1>2, <1>4, <2>1, <2>3 DEF r
<1> QED
  BY <1>3, <1>4

(* The next tile to the right. *)
LEMMA NextTile ==
    ASSUME NEW v \in Address
    PROVE  /\ TileX(incrementHorizontalScroll(v)) = (TileX(v) + 1) % (2 * COARSE)
           /\ PixelY(incrementHorizontalScroll(v)) = PixelY(v)
           /\ incrementHorizontalScroll(v).coarseY = v.coarseY
<1> USE Sizes
<1>1. v.tableX \in 0..1 /\ v.coarseX \in 0..(COARSE - 1)
  BY DEF Address
<1>2. TileX(v) = IF v.tableX = 0 THEN v.coarseX ELSE COARSE + v.coarseX
  BY <1>1 DEF TileX
<1>3. (TileX(v) + 1) % (2 * COARSE) = IF TileX(v) + 1 = 2 * COARSE THEN 0 ELSE TileX(v) + 1
  <2> DEFINE n == TileX(v) + 1
             d == 2 * COARSE
  <2>1. n \in Nat /\ d \in Nat \ {0} /\ n <= d
    BY <1>1, <1>2
  <2> HIDE DEF n, d
  <2>2. n % d = IF n = d THEN 0 ELSE n
    BY <2>1, Wraps
  <2> QED
    BY <2>2 DEF n, d
<1>4. CASE v.coarseX = COARSE - 1
  <2>1. incrementHorizontalScroll(v) = [v EXCEPT !.coarseX = 0, !.tableX = 1 - v.tableX]
    BY <1>4 DEF incrementHorizontalScroll
  <2> DEFINE w == incrementHorizontalScroll(v)
  <2>2. /\ w.coarseX = 0 /\ w.tableX = 1 - v.tableX
        /\ w.fineY = v.fineY /\ w.tableY = v.tableY /\ w.coarseY = v.coarseY
    BY <2>1 DEF Address
  <2> HIDE DEF w
  <2>3. TileX(w) = IF v.tableX = 0 THEN COARSE ELSE 0
    BY <1>1, <2>2 DEF TileX
  <2>4. TileX(w) = (TileX(v) + 1) % (2 * COARSE)
    BY <1>1, <1>2, <1>3, <1>4, <2>3
  <2> QED
    BY <2>2, <2>4 DEF PixelY, w
<1>5. CASE v.coarseX # COARSE - 1
  <2>1. incrementHorizontalScroll(v) = [v EXCEPT !.coarseX = v.coarseX + 1]
    BY <1>5 DEF incrementHorizontalScroll
  <2> DEFINE w == incrementHorizontalScroll(v)
  <2>2. /\ w.coarseX = v.coarseX + 1 /\ w.tableX = v.tableX
        /\ w.fineY = v.fineY /\ w.tableY = v.tableY /\ w.coarseY = v.coarseY
    BY <2>1 DEF Address
  <2> HIDE DEF w
  <2>3. TileX(w) = TileX(v) + 1
    BY <1>1, <1>2, <2>2 DEF TileX
  <2>4. TileX(w) = (TileX(v) + 1) % (2 * COARSE)
    BY <1>1, <1>2, <1>3, <1>5, <2>3
  <2> QED
    BY <2>2, <2>4 DEF PixelY, w
<1> QED
  BY <1>4, <1>5

(* The next row of tiles, among those that are shown. *)
LEMMA NextShownRow ==
    ASSUME NEW v \in Address, v.coarseY < ROWS
    PROVE  LET row(a) == a.tableY * ROWS + a.coarseY
           IN  /\ row(NextRow(v)) = IF row(v) + 1 = 2 * ROWS THEN 0 ELSE row(v) + 1
               /\ row(v) \in 0..(2 * ROWS - 1)
               /\ NextRow(v).coarseY < ROWS
               /\ NextRow(v) \in Address
               /\ TileX(NextRow(v)) = TileX(v)
<1> USE Sizes
<1> DEFINE w == NextRow(v)
<1>1. v.tableY \in 0..1 /\ v.coarseY \in 0..(COARSE - 1) /\ COARSE - 1 > ROWS - 1
      /\ v.coarseY # COARSE - 1 /\ COARSE = ROWS + 2
  BY DEF Address, ROWS
<1>2. \A a \in {v.tableY, 1 - v.tableY} : a * ROWS = IF a = 0 THEN 0 ELSE ROWS
  BY <1>1
<1>3. CASE v.coarseY = ROWS - 1
  <2>1. w = [v EXCEPT !.coarseY = 0, !.tableY = 1 - v.tableY]
    BY <1>1, <1>3 DEF NextRow
  <2>2. 1 - v.tableY \in 0..1 /\ 0 \in 0..(COARSE - 1)
    BY <1>1
  <2>3. /\ w.coarseY = 0 /\ w.tableY = 1 - v.tableY /\ w.tableX = v.tableX
        /\ w.coarseX = v.coarseX
    BY <2>1 DEF Address
  <2>4. w \in Address
    BY <2>1, <2>2 DEF Address
  <2> HIDE DEF w
  <2> QED
    BY <1>1, <1>2, <1>3, <2>3, <2>4 DEF w, TileX, Address
<1>4. CASE v.coarseY # ROWS - 1
  <2>1. w = [v EXCEPT !.coarseY = v.coarseY + 1]
    BY <1>1, <1>4 DEF NextRow
  <2>2. v.coarseY + 1 \in 0..(COARSE - 1)
    BY <1>1
  <2>3. /\ w.coarseY = v.coarseY + 1 /\ w.tableY = v.tableY /\ w.tableX = v.tableX
        /\ w.coarseX = v.coarseX
    BY <2>1 DEF Address
  <2>4. w \in Address
    BY <2>1, <2>2 DEF Address
  <2> HIDE DEF w
  <2> QED
    BY <1>1, <1>2, <1>4, <2>3, <2>4 DEF w, TileX, Address
<1> QED
  BY <1>3, <1>4

(* The next line of pixels. *)
LEMMA NextLine ==
    ASSUME NEW v \in Address, v.coarseY < ROWS
    PROVE  /\ PixelY(incrementVerticalScroll(v)) = (PixelY(v) + 1) % (2 * ROWS * FINE)
           /\ incrementVerticalScroll(v).coarseY < ROWS
<1> USE Sizes
<1> DEFINE w    == incrementVerticalScroll(v)
           r    == v.tableY * ROWS + v.coarseY
           size == 2 * ROWS * FINE
<1>1. v.fineY \in 0..(FINE - 1) /\ r \in 0..(2 * ROWS - 1) /\ PixelY(v) = r * FINE + v.fineY
  BY NextShownRow DEF Address, PixelY
<1>2. PixelY(v) \in 0..(size - 1) /\ size \in Nat \ {0} /\ size = (2 * ROWS) * FINE
  <2>1. size \in Nat \ {0} /\ size = (2 * ROWS) * FINE
    BY SMT
  <2> QED
    BY <2>1, PositionType
<1> HIDE DEF size, r
<1>3. (PixelY(v) + 1) % size = IF PixelY(v) + 1 = size THEN 0 ELSE PixelY(v) + 1
  <2> DEFINE n == PixelY(v) + 1
  <2>1. n \in Nat /\ n <= size
    BY <1>2
  <2> HIDE DEF n
  <2>2. n % size = IF n = size THEN 0 ELSE n
    BY <1>2, <2>1, Wraps
  <2> QED
    BY <2>2 DEF n
<1>4. CASE v.fineY < FINE - 1
  <2>1. w = [v EXCEPT !.fineY = v.fineY + 1]
    BY <1>4 DEF incrementVerticalScroll
  <2>2. w.fineY = v.fineY + 1 /\ w.tableY = v.tableY /\ w.coarseY = v.coarseY
    BY <2>1 DEF Address
  <2> HIDE DEF w
  <2>3. r * FINE \in Nat
    BY <1>1, SMT
  <2>4. PixelY(w) = PixelY(v) + 1
    BY <1>1, <2>2, <2>3 DEF PixelY, r
  <2>5. r * FINE + (v.fineY + 1) \in 0..((2 * ROWS) * FINE - 1)
    BY <1>1, <1>4, DigitsBound
  <2>6. PixelY(v) + 1 # size
    BY <1>1, <1>2, <2>3, <2>5
  <2> QED
    BY <1>3, <2>2, <2>4, <2>6 DEF w, size
<1>5. CASE v.fineY = FINE - 1
  <2> DEFINE n == NextRow(v)
             s == n.tableY * ROWS + n.coarseY
  <2>1. w = [n EXCEPT !.fineY = 0]
    BY <1>5 DEF incrementVerticalScroll
  <2>2. n \in Address /\ n.coarseY < ROWS /\ s = IF r + 1 = 2 * ROWS THEN 0 ELSE r + 1
    BY NextShownRow DEF Address, r
  <2>3. w.fineY = 0 /\ w.tableY = n.tableY /\ w.coarseY = n.coarseY
    BY <2>1, <2>2 DEF Address
  <2> HIDE DEF w, n
  <2>4. PixelY(w) = s * FINE + 0
    BY <2>3 DEF PixelY
  <2>5. r * FINE \in Nat /\ (r + 1) * FINE = r * FINE + FINE
    BY <1>1, SMT
  <2>6. PixelY(v) + 1 = (r + 1) * FINE
    BY <1>1, <1>5, <2>5
  <2> HIDE DEF s
  <2>7. CASE r + 1 = 2 * ROWS
    <3>1. PixelY(v) + 1 = size /\ s * FINE = 0
      BY <1>2, <2>2, <2>6, <2>7
    <3> QED
      BY <1>3, <2>2, <2>3, <2>4, <3>1 DEF w, size
  <2>8. CASE r + 1 # 2 * ROWS
    <3>1. r + 1 \in 0..(2 * ROWS - 1)
      BY <1>1, <2>8
    <3>2. (r + 1) * FINE + 0 \in 0..((2 * ROWS) * FINE - 1)
      BY <3>1, DigitsBound
    <3>3. PixelY(v) + 1 # size
      BY <1>2, <2>6, <3>2
    <3>4. PixelY(w) = PixelY(v) + 1
      BY <1>2, <2>2, <2>4, <2>6, <2>8
    <3> QED
      BY <1>3, <2>2, <2>3, <3>3, <3>4 DEF w, size
  <2> QED
    BY <2>7, <2>8
<1>6. v.fineY < FINE - 1 \/ v.fineY = FINE - 1
  BY <1>1
<1> QED
  BY <1>4, <1>5, <1>6

-----------------------------------------------------------------------------
(* What was done of a line and of a frame, dot by dot.                     *)

LEMMA StepsQuotient ==
    ASSUME NEW n \in Nat, NEW d \in Nat \ {0}
    PROVE  (n + 1) \div d = (n \div d) + (IF (n + 1) % d = 0 THEN 1 ELSE 0)
<1> DEFINE q == n \div d
           r == n % d
<1>1. q \in Nat /\ r \in 0..(d - 1) /\ n = q * d + r
  BY Quotient, Remainder, Rebuild
<1> HIDE DEF q, r
<1>4. q * d \in Nat
  BY <1>1, SMT
<1>2. CASE r + 1 = d
  <2>1. ((q + 1) * d + 0) \div d = q + 1 /\ ((q + 1) * d + 0) % d = 0
    BY <1>1, Digits
  <2>2. (q + 1) * d = q * d + d
    BY <1>1, SMT
  <2>3. (q + 1) * d + 0 = n + 1
    BY <1>1, <1>2, <2>2
  <2> QED
    BY <2>1, <2>3 DEF q
<1>3. CASE r + 1 # d
  <2>1. (q * d + (r + 1)) \div d = q /\ (q * d + (r + 1)) % d = r + 1
    BY <1>1, <1>3, Digits
  <2>2. q * d + (r + 1) = n + 1
    BY <1>1, <1>4
  <2>3. r + 1 # 0 /\ q + 0 = q
    BY <1>1
  <2> QED
    BY <2>1, <2>2, <2>3 DEF q
<1> QED
  BY <1>2, <1>3

(* TilesLoaded and LinesDone at the dot c of a line. *)
Tiles(c, line) ==
    IF ~IsFetchLine(line) \/ c > PREFETCH_LAST THEN 2
    ELSE IF c <= VISIBLE       THEN 2 + c \div FINE
    ELSE IF c < PREFETCH_FIRST THEN 0
    ELSE (c + 1 - PREFETCH_FIRST) \div FINE

Lines(c, line) ==
    LET passed == IF c < VISIBLE THEN 0 ELSE 1
    IN  IF line < POST_RENDER_SCAN_LINE    THEN line + passed
        ELSE IF line # PRE_RENDER_SCAN_LINE THEN POST_RENDER_SCAN_LINE
        ELSE IF c < COPY_FIRST              THEN POST_RENDER_SCAN_LINE + passed
        ELSE 0

ScanLines == 0..PRE_RENDER_SCAN_LINE
Dots == 0..(CLOCK_CYCLE - 1)

(* From the dot c of a line to the dot d of line next, as tick goes. *)
Ticks(c, line, d, next) ==
    \/ /\ c = CLOCK_CYCLE - 1 /\ d = 0
       /\ next = IF line = PRE_RENDER_SCAN_LINE THEN 0 ELSE line + 1
    \/ c = CLOCK_CYCLE - 2 /\ line = PRE_RENDER_SCAN_LINE /\ d = 0 /\ next = 0
    \/ c < CLOCK_CYCLE - 1 /\ d = c + 1 /\ next = line

LEMMA DotsInOrder ==
    /\ FINE \in Nat \ {0} /\ VISIBLE \in Nat /\ COPY_FIRST \in Nat /\ COPY_LAST \in Nat
    /\ PREFETCH_FIRST \in Nat /\ PREFETCH_LAST \in Nat /\ CLOCK_CYCLE \in Nat
    /\ POST_RENDER_SCAN_LINE \in Nat /\ PRE_RENDER_SCAN_LINE \in Nat
    /\ VISIBLE + 1 < COPY_FIRST /\ COPY_FIRST <= COPY_LAST /\ COPY_LAST < PREFETCH_FIRST
    /\ PREFETCH_LAST = PREFETCH_FIRST - 1 + 2 * FINE /\ PREFETCH_LAST + 1 < CLOCK_CYCLE
    /\ 0 < POST_RENDER_SCAN_LINE /\ POST_RENDER_SCAN_LINE < PRE_RENDER_SCAN_LINE
BY ScrollAssumption

(* The tiles that are fetched ahead lie as those of a line do. *)
LEMMA PrefetchAligned ==
    ASSUME NEW n \in Nat
    PROVE  (PREFETCH_FIRST - 1 + n) % FINE = n % FINE
<1> USE DotsInOrder
<1> DEFINE f == PREFETCH_FIRST - 1
           k == f \div FINE
           g == n \div FINE
           r == n % FINE
<1>1. f \in Nat /\ f % FINE = 0
  BY ScrollAssumption
<1>2. k \in Nat /\ f = k * FINE + (f % FINE)
  <2> HIDE DEF f
  <2> QED
    BY <1>1, Quotient, Rebuild
<1>3. g \in Nat /\ r \in 0..(FINE - 1) /\ n = g * FINE + r
  BY Quotient, Remainder, Rebuild
<1> HIDE DEF f, k, g, r
<1>4. k * FINE \in Nat /\ g * FINE \in Nat /\ (k + g) * FINE = k * FINE + g * FINE
  BY <1>2, <1>3, SMT
<1>5. f + n = (k + g) * FINE + r
  BY <1>1, <1>2, <1>3, <1>4
<1>6. ((k + g) * FINE + r) % FINE = r
  BY <1>2, <1>3, Digits
<1> QED
  BY <1>5, <1>6 DEF f, r

LEMMA TilesStep ==
    ASSUME NEW c \in Dots, NEW line \in ScanLines, NEW d \in Dots, NEW next \in ScanLines,
           Ticks(c, line, d, next)
    PROVE  Tiles(d, next) = IF CopiesHorizontal(d, next) THEN 0
                            ELSE Tiles(c, line)
                                   + (IF IsFetchLine(next) /\ LoadsTile(d) THEN 1 ELSE 0)
<1> USE DotsInOrder
<1>1. /\ c \in Nat /\ d \in Nat /\ c < CLOCK_CYCLE /\ d < CLOCK_CYCLE
  BY DEF Dots
<1>2. CASE d = 0
  <2>1. c >= PREFETCH_LAST
    BY <1>1, <1>2 DEF Ticks
  <2>2. Tiles(c, line) = 2
    <3>1. CASE c > PREFETCH_LAST
      BY <3>1 DEF Tiles
    <3>2. CASE c = PREFETCH_LAST
      <4>1. c + 1 - PREFETCH_FIRST = 2 * FINE + 0 /\ ~(c <= VISIBLE) /\ ~(c < PREFETCH_FIRST)
        BY <3>2
      <4>2. (2 * FINE + 0) \div FINE = 2
        BY Digits
      <4> QED
        BY <4>1, <4>2 DEF Tiles
    <3> QED
      BY <1>1, <2>1, <3>1, <3>2
  <2>3. Tiles(0, next) = 2
    <3>1. 0 \div FINE = 0
      <4>1. (0 * FINE + 0) \div FINE = 0
        BY Digits
      <4> QED
        BY <4>1
    <3> QED
      BY <3>1 DEF Tiles
  <2>4. ~LoadsTile(0) /\ ~CopiesHorizontal(0, next)
    BY DEF LoadsTile, CopiesHorizontal
  <2> QED
    BY <1>2, <2>2, <2>3, <2>4
<1>3. CASE d # 0
  <2>1. d = c + 1 /\ next = line
    BY <1>3 DEF Ticks
  <2>2. CASE ~IsFetchLine(next)
    BY <2>1, <2>2 DEF Tiles, CopiesHorizontal
  <2>3. CASE IsFetchLine(next)
    <3>1. CopiesHorizontal(d, next) <=> d = VISIBLE + 1
      BY <2>3 DEF CopiesHorizontal
    <3>2. CASE d <= VISIBLE
      <4>1. Tiles(d, next) = 2 + (c + 1) \div FINE /\ Tiles(c, line) = 2 + c \div FINE
        BY <1>1, <2>1, <2>3, <3>2 DEF Tiles
      <4>2. LoadsTile(d) <=> (c + 1) % FINE = 0
        BY <1>1, <2>1, <3>2 DEF LoadsTile
      <4> DEFINE q == c \div FINE
                 p == (c + 1) \div FINE
      <4>3. q \in Nat /\ p = q + (IF (c + 1) % FINE = 0 THEN 1 ELSE 0)
        BY <1>1, Quotient, StepsQuotient
      <4> HIDE DEF q, p
      <4>4. 2 + p = 2 + q + (IF (c + 1) % FINE = 0 THEN 1 ELSE 0)
        BY <4>3
      <4> QED
        BY <1>1, <2>3, <3>1, <3>2, <4>1, <4>2, <4>4 DEF q, p
    <3>3. CASE d = VISIBLE + 1
      BY <2>3, <3>1, <3>3 DEF Tiles
    <3>4. CASE VISIBLE + 1 < d /\ d < PREFETCH_FIRST
      <4>1. Tiles(d, next) = 0 /\ Tiles(c, line) = 0 /\ ~LoadsTile(d)
        BY <1>1, <2>1, <2>3, <3>4 DEF Tiles, LoadsTile
      <4> QED
        BY <1>1, <3>1, <3>4, <4>1
    <3>5. CASE PREFETCH_FIRST <= d /\ d <= PREFETCH_LAST
      <4> DEFINE x == d - PREFETCH_FIRST
                 f == PREFETCH_FIRST - 1
                 q == x \div FINE
                 p == (x + 1) \div FINE
      <4>1. x \in Nat /\ f \in Nat /\ d = f + (x + 1) /\ d + 1 - PREFETCH_FIRST = x + 1
            /\ c = PREFETCH_FIRST + x - 1 /\ c + 1 - PREFETCH_FIRST = x
        BY <1>1, <2>1, <3>5
      <4>2. q \in Nat /\ p = q + (IF (x + 1) % FINE = 0 THEN 1 ELSE 0)
        <5> HIDE DEF x
        <5> QED
          BY <4>1, Quotient, StepsQuotient
      <4>3. Tiles(d, next) = p
        BY <2>3, <3>5, <4>1 DEF Tiles
      <4>4. Tiles(c, line) = q
        <5>1. CASE c < PREFETCH_FIRST
          <6>1. x = 0
            BY <4>1, <5>1
          <6>2. (0 * FINE + 0) \div FINE = 0
            BY Digits
          <6>3. q = 0
            BY <6>1, <6>2
          <6> QED
            BY <2>1, <2>3, <3>5, <4>1, <5>1, <6>1, <6>3 DEF Tiles
        <5>2. CASE ~(c < PREFETCH_FIRST)
          <6>1. ~(c > PREFETCH_LAST) /\ ~(c <= VISIBLE)
            BY <1>1, <2>1, <3>5, <5>2
          <6> QED
            BY <2>1, <2>3, <4>1, <5>2, <6>1 DEF Tiles
        <5> QED
          BY <5>1, <5>2
      <4>5. LoadsTile(d) <=> (x + 1) % FINE = 0
        <5>1. LoadsTile(d) <=> d % FINE = 0
          <6>1. d \in PREFETCH_FIRST..PREFETCH_LAST
            BY <1>1, <3>5
          <6> QED
            BY <6>1 DEF LoadsTile
        <5> DEFINE n == x + 1
        <5>2. n \in Nat /\ d = PREFETCH_FIRST - 1 + n
          BY <4>1
        <5> HIDE DEF x, f, n
        <5>3. d % FINE = n % FINE
          BY <5>2, PrefetchAligned
        <5> QED
          BY <5>1, <5>3 DEF n
      <4>6. d # VISIBLE + 1
        BY <3>5
      <4> HIDE DEF p, q, x, f
      <4>7. LoadsTile(d) => p = q + 1
        BY <4>2, <4>5
      <4>8. ~LoadsTile(d) => p = q + 0 /\ q + 0 = q
        BY <4>2, <4>5
      <4>9. ~CopiesHorizontal(d, next)
        BY <3>1, <4>6
      <4> QED
        BY <2>3, <4>3, <4>4, <4>7, <4>8, <4>9
    <3>6. CASE d > PREFETCH_LAST
      <4>1. Tiles(d, next) = 2 /\ ~LoadsTile(d) /\ d # VISIBLE + 1
        BY <1>1, <3>6 DEF Tiles, LoadsTile
      <4>2. Tiles(c, line) = 2
        <5>1. CASE c > PREFETCH_LAST
          BY <5>1 DEF Tiles
        <5>2. CASE c = PREFETCH_LAST
          <6>1. c + 1 - PREFETCH_FIRST = 2 * FINE + 0 /\ ~(c <= VISIBLE) /\ ~(c < PREFETCH_FIRST)
            BY <5>2
          <6>2. (2 * FINE + 0) \div FINE = 2
            BY Digits
          <6> QED
            BY <6>1, <6>2 DEF Tiles
        <5> QED
          BY <1>1, <2>1, <3>6, <5>1, <5>2
      <4> QED
        BY <3>1, <4>1, <4>2
    <3> QED
      BY <1>1, <3>2, <3>3, <3>4, <3>5, <3>6
  <2> QED
    BY <2>2, <2>3
<1> QED
  BY <1>2, <1>3

LEMMA LinesStep ==
    ASSUME NEW c \in Dots, NEW line \in ScanLines, NEW d \in Dots, NEW next \in ScanLines,
           Ticks(c, line, d, next)
    PROVE  Lines(d, next) = IF CopiesVertical(d, next) THEN 0
                            ELSE Lines(c, line)
                                   + (IF IsFetchLine(next) /\ d = VISIBLE THEN 1 ELSE 0)
<1> USE DotsInOrder
<1>1. CASE /\ c = CLOCK_CYCLE - 1 /\ d = 0
           /\ next = IF line = PRE_RENDER_SCAN_LINE THEN 0 ELSE line + 1
  BY <1>1 DEF Lines, CopiesVertical, IsFetchLine, Dots, ScanLines
<1>2. CASE c = CLOCK_CYCLE - 2 /\ line = PRE_RENDER_SCAN_LINE /\ d = 0 /\ next = 0
  BY <1>2 DEF Lines, CopiesVertical, IsFetchLine, Dots, ScanLines
<1>3. CASE c < CLOCK_CYCLE - 1 /\ d = c + 1 /\ next = line
  BY <1>3 DEF Lines, CopiesVertical, IsFetchLine, Dots, ScanLines
<1> QED
  BY <1>1, <1>2, <1>3 DEF Ticks

LEMMA DoneSoFar ==
    ASSUME NEW c \in Dots, NEW line \in ScanLines
    PROVE  Tiles(c, line) \in Nat /\ Lines(c, line) \in Nat
<1> USE DotsInOrder
<1>1. c \in Nat /\ line \in Nat
  BY DEF Dots, ScanLines
<1>2. c \div FINE \in Nat
  BY <1>1, Quotient
<1>3. ASSUME ~(c < PREFETCH_FIRST) PROVE (c + 1 - PREFETCH_FIRST) \div FINE \in Nat
  <2>1. c + 1 - PREFETCH_FIRST \in Nat
    BY <1>1, <1>3
  <2> QED
    BY <2>1, Quotient
<1> DEFINE q == c \div FINE
           p == (c + 1 - PREFETCH_FIRST) \div FINE
<1>4. \/ Tiles(c, line) \in {2, 2 + q, 0}
      \/ ~(c < PREFETCH_FIRST) /\ Tiles(c, line) = p
  BY DEF Tiles
<1>5. q \in Nat /\ (~(c < PREFETCH_FIRST) => p \in Nat)
  BY <1>2, <1>3
<1> HIDE DEF q, p
<1>6. Tiles(c, line) \in Nat
  BY <1>4, <1>5
<1> QED
  BY <1>1, <1>6 DEF Lines

(* The position n round the plane, k + 1 from where it began. *)
LEMMA OneFurther ==
    ASSUME NEW o \in Nat, NEW k \in Nat, NEW d \in Nat \ {0}
    PROVE  (((o + k) % d) + 1) % d = (o + (k + 1)) % d
<1> DEFINE n == o + k
<1>1. n \in Nat /\ n + 1 = o + (k + 1)
  OBVIOUS
<1> HIDE DEF n
<1>2. ((n % d) + 1) % d = (n + 1) % d
  BY <1>1, StepsRound
<1> QED
  BY <1>1, <1>2 DEF n

LEMMA OwnHalves ==
    ASSUME NEW v \in Address, NEW t \in Address
    PROVE  /\ TileX(incrementVerticalScroll(v)) = TileX(v)
           /\ TileX(copyHorizontalScroll(v, t)) = TileX(t)
           /\ TileX(copyVerticalScroll(v, t)) = TileX(v)
           /\ PixelY(copyHorizontalScroll(v, t)) = PixelY(v)
           /\ PixelY(copyVerticalScroll(v, t)) = PixelY(t)
           /\ copyHorizontalScroll(v, t).coarseY = v.coarseY
           /\ copyVerticalScroll(v, t).coarseY = t.coarseY
<1>1. NextRow(v).tableX = v.tableX /\ NextRow(v).coarseX = v.coarseX /\ NextRow(v) \in Address
  <2>1. CASE v.coarseY = ROWS - 1
    <3>1. NextRow(v) = [v EXCEPT !.coarseY = 0, !.tableY = 1 - v.tableY]
      <4>1. v.coarseY # COARSE - 1
        BY <2>1, Sizes
      <4> QED
        BY <2>1, <4>1 DEF NextRow
    <3>2. 1 - v.tableY \in 0..1 /\ 0 \in 0..(COARSE - 1)
      BY Sizes DEF Address
    <3> QED
      BY <3>1, <3>2 DEF Address
  <2>2. CASE v.coarseY = COARSE - 1
    <3>1. v.coarseY # ROWS - 1
      BY <2>2, Sizes
    <3>2. NextRow(v) = [v EXCEPT !.coarseY = 0]
      BY <2>2, <3>1 DEF NextRow
    <3>3. 0 \in 0..(COARSE - 1)
      BY Sizes
    <3> QED
      BY <3>2, <3>3 DEF Address
  <2>3. CASE v.coarseY \notin {ROWS - 1, COARSE - 1}
    <3>1. NextRow(v) = [v EXCEPT !.coarseY = v.coarseY + 1]
      BY <2>3 DEF NextRow
    <3>2. v.coarseY + 1 \in 0..(COARSE - 1)
      BY <2>3, Sizes DEF Address
    <3> QED
      BY <3>1, <3>2 DEF Address
  <2> QED
    BY <2>1, <2>2, <2>3
<1>2. TileX(incrementVerticalScroll(v)) = TileX(v)
  BY <1>1 DEF incrementVerticalScroll, TileX, Address
<1> QED
  BY <1>2 DEF copyHorizontalScroll, copyVerticalScroll, TileX, PixelY, Address

(* What a dot does to the two halves of the position. *)
LEMMA ScrolledHalves ==
    ASSUME NEW v \in Address, temporaryVram \in Address, NEW c, NEW line
    PROVE  LET s == Scrolled(v, c, line)
               t == temporaryVram
           IN  /\ TileX(s) = IF CopiesHorizontal(c, line) THEN TileX(t)
                             ELSE IF IsFetchLine(line) /\ LoadsTile(c)
                             THEN (TileX(v) + 1) % (2 * COARSE) ELSE TileX(v)
               /\ CopiesVertical(c, line) =>
                      PixelY(s) = PixelY(t) /\ s.coarseY = t.coarseY
               /\ ~CopiesVertical(c, line) /\ v.coarseY < ROWS =>
                      /\ PixelY(s) = IF IsFetchLine(line) /\ c = VISIBLE
                                     THEN (PixelY(v) + 1) % (2 * ROWS * FINE)
                                     ELSE PixelY(v)
                      /\ s.coarseY < ROWS
<1> DEFINE t    == temporaryVram
           s    == Scrolled(v, c, line)
           tile == IF IsFetchLine(line) /\ LoadsTile(c)
                   THEN incrementHorizontalScroll(v) ELSE v
           row  == IF IsFetchLine(line) /\ c = VISIBLE
                   THEN incrementVerticalScroll(tile) ELSE tile
           side == IF CopiesHorizontal(c, line) THEN copyHorizontalScroll(row, t) ELSE row
<1>1. s = IF CopiesVertical(c, line) THEN copyVerticalScroll(side, t) ELSE side
  BY DEF Scrolled
<1>2. /\ tile \in Address
      /\ TileX(tile) = IF IsFetchLine(line) /\ LoadsTile(c)
                       THEN (TileX(v) + 1) % (2 * COARSE) ELSE TileX(v)
      /\ PixelY(tile) = PixelY(v) /\ tile.coarseY = v.coarseY
  BY NextTile, StepsType
<1> HIDE DEF tile
<1>3. /\ row \in Address
      /\ TileX(row) = TileX(tile)
      /\ v.coarseY < ROWS =>
             /\ PixelY(row) = IF IsFetchLine(line) /\ c = VISIBLE
                              THEN (PixelY(v) + 1) % (2 * ROWS * FINE) ELSE PixelY(v)
             /\ row.coarseY < ROWS
  BY <1>2, NextLine, OwnHalves, StepsType
<1> HIDE DEF row
<1>4. /\ side \in Address
      /\ TileX(side) = IF CopiesHorizontal(c, line) THEN TileX(t) ELSE TileX(row)
      /\ PixelY(side) = PixelY(row) /\ side.coarseY = row.coarseY
  BY <1>3, OwnHalves, StepsType
<1> HIDE DEF side
<1>5. /\ TileX(s) = TileX(side)
      /\ CopiesVertical(c, line) => PixelY(s) = PixelY(t) /\ s.coarseY = t.coarseY
      /\ ~CopiesVertical(c, line) => s = side
  BY <1>1, <1>4, OwnHalves
<1> HIDE DEF s
<1> QED
  BY <1>2, <1>3, <1>4, <1>5 DEF s

-----------------------------------------------------------------------------
(* The inductive invariant: a position is known only while the screen is   *)
(* rendered, and never in the rows of a table that are not shown.          *)
OriginsOK ==
    /\ originX # Unknown \/ originY # Unknown => rendering
    /\ originY # Unknown => currentVram.coarseY < ROWS
    /\ DrawsAtScroll

LEMMA TickMoves ==
    ASSUME TypeOK, tick
    PROVE  Ticks(clock, scanLine, clock', scanLine')
<1> DEFINE n == scanLine + 1
           d == PRE_RENDER_SCAN_LINE + 1
<1>1. n \in Nat /\ d \in Nat \ {0} /\ n <= d /\ (n = d <=> scanLine = PRE_RENDER_SCAN_LINE)
  BY DotsInOrder DEF TypeOK
<1> HIDE DEF n, d
<1>2. n % d = IF n = d THEN 0 ELSE n
  BY <1>1, Wraps
<1>3. (scanLine + 1) % (PRE_RENDER_SCAN_LINE + 1)
          = IF scanLine = PRE_RENDER_SCAN_LINE THEN 0 ELSE scanLine + 1
  BY <1>1, <1>2 DEF n, d
<1> QED
  BY <1>3 DEF tick, Ticks

LEMMA DotKeepsOrigins ==
    ASSUME TypeOK, OriginsOK, Dot, TypeOK'
    PROVE  OriginsOK'
<1>1. /\ clock \in Dots /\ scanLine \in ScanLines /\ clock' \in Dots /\ scanLine' \in ScanLines
      /\ currentVram \in Address /\ temporaryVram \in Address
      /\ rendering' = rendering /\ rendering \in BOOLEAN
  BY DEF TypeOK, Dot, Dots, ScanLines
<1>2. Ticks(clock, scanLine, clock', scanLine')
  BY TickMoves DEF Dot
<1>3. CASE ~rendering
  BY <1>1, <1>3 DEF Dot, KnownOrigins, OriginsOK, DrawsAtScroll
<1>4. CASE rendering
  <2> DEFINE c    == clock'
             line == scanLine'
             s    == Scrolled(currentVram, c, line)
             xs   == 2 * COARSE
             ys   == 2 * ROWS * FINE
             k    == Tiles(clock, scanLine)
             l    == Lines(clock, scanLine)
  <2>1. /\ currentVram' = s
        /\ originX' = IF CopiesHorizontal(c, line) THEN TileX(temporaryVram) ELSE originX
        /\ originY' = IF CopiesVertical(c, line)
                      THEN IF temporaryVram.coarseY < ROWS THEN PixelY(temporaryVram) ELSE Unknown
                      ELSE originY
    BY <1>4 DEF Dot, KnownOrigins
  <2>2. /\ TilesLoaded = k /\ LinesDone = l
        /\ TilesLoaded' = Tiles(c, line) /\ LinesDone' = Lines(c, line)
    BY DEF TilesLoaded, LinesDone, Tiles, Lines
  <2>3. Tiles(c, line) = IF CopiesHorizontal(c, line) THEN 0
                         ELSE k + (IF IsFetchLine(line) /\ LoadsTile(c) THEN 1 ELSE 0)
    BY <1>1, <1>2, TilesStep
  <2>4. Lines(c, line) = IF CopiesVertical(c, line) THEN 0
                         ELSE l + (IF IsFetchLine(line) /\ c = VISIBLE THEN 1 ELSE 0)
    BY <1>1, <1>2, LinesStep
  <2>5. k \in Nat /\ l \in Nat
    BY <1>1, DoneSoFar
  <2>6. /\ TileX(s) = IF CopiesHorizontal(c, line) THEN TileX(temporaryVram)
                      ELSE IF IsFetchLine(line) /\ LoadsTile(c)
                      THEN (TileX(currentVram) + 1) % xs ELSE TileX(currentVram)
        /\ CopiesVertical(c, line) =>
               PixelY(s) = PixelY(temporaryVram) /\ s.coarseY = temporaryVram.coarseY
        /\ ~CopiesVertical(c, line) /\ currentVram.coarseY < ROWS =>
               /\ PixelY(s) = IF IsFetchLine(line) /\ c = VISIBLE
                              THEN (PixelY(currentVram) + 1) % ys ELSE PixelY(currentVram)
               /\ s.coarseY < ROWS
    BY <1>1, ScrolledHalves
  <2>7. xs \in Nat \ {0} /\ ys \in Nat \ {0}
    BY Sizes, SMT
  <2>8. TileX(temporaryVram) \in 0..(xs - 1)
    BY <1>1, PositionType
  <2>9. temporaryVram.coarseY < ROWS => PixelY(temporaryVram) \in 0..(ys - 1)
    BY <1>1, PositionType
  <2>10. /\ originX \in Nat \cup {Unknown} /\ originY \in Nat \cup {Unknown}
         /\ originX # Unknown => TileX(currentVram) = (originX + k) % xs
         /\ originY # Unknown => /\ currentVram.coarseY < ROWS
                                 /\ PixelY(currentVram) = (originY + l) % ys
    BY <2>2 DEF TypeOK, OriginsOK, DrawsAtScroll
  <2> HIDE DEF c, line, s, xs, ys, k, l
  <2>11. ASSUME originX' # Unknown PROVE TileX(s) = (originX' + Tiles(c, line)) % xs
    <3>1. CASE CopiesHorizontal(c, line)
      <4> DEFINE o == TileX(temporaryVram)
      <4>1. o \in Nat /\ o < xs
        BY <2>7, <2>8
      <4>2. o % xs = o /\ o + 0 = o
        <5> HIDE DEF o
        <5> QED
          BY <2>7, <4>1, Wraps
      <4> QED
        BY <2>1, <2>3, <2>6, <3>1, <4>2
    <3>2. CASE ~CopiesHorizontal(c, line)
      <4>1. originX' = originX /\ originX \in Nat
        BY <2>1, <2>10, <2>11, <3>2
      <4>2. CASE IsFetchLine(line) /\ LoadsTile(c)
        <5>1. Tiles(c, line) = k + 1 /\ TileX(s) = (TileX(currentVram) + 1) % xs
          BY <2>3, <2>6, <3>2, <4>2
        <5>2. (((originX + k) % xs) + 1) % xs = (originX + (k + 1)) % xs
          BY <2>5, <2>7, <4>1, OneFurther
        <5> QED
          BY <2>10, <2>11, <4>1, <5>1, <5>2
      <4>3. CASE ~(IsFetchLine(line) /\ LoadsTile(c))
        <5>1. Tiles(c, line) = k /\ TileX(s) = TileX(currentVram)
          BY <2>3, <2>5, <2>6, <3>2, <4>3
        <5> QED
          BY <2>10, <2>11, <4>1, <5>1
      <4> QED
        BY <4>2, <4>3
    <3> QED
      BY <3>1, <3>2
  <2>12. ASSUME originY' # Unknown
         PROVE  PixelY(s) = (originY' + Lines(c, line)) % ys /\ s.coarseY < ROWS
    <3>1. CASE CopiesVertical(c, line)
      <4> DEFINE o == PixelY(temporaryVram)
      <4>1. temporaryVram.coarseY < ROWS /\ originY' = o
        BY <2>1, <2>12, <3>1
      <4>2. o \in Nat /\ o < ys
        BY <2>7, <2>9, <4>1
      <4>3. o % ys = o /\ o + 0 = o
        <5> HIDE DEF o
        <5> QED
          BY <2>7, <4>2, Wraps
      <4> QED
        BY <2>4, <2>6, <3>1, <4>1, <4>3
    <3>2. CASE ~CopiesVertical(c, line)
      <4>1. originY' = originY /\ originY \in Nat /\ currentVram.coarseY < ROWS
        BY <2>1, <2>10, <2>12, <3>2
      <4>2. CASE IsFetchLine(line) /\ c = VISIBLE
        <5>1. Lines(c, line) = l + 1 /\ PixelY(s) = (PixelY(currentVram) + 1) % ys
              /\ s.coarseY < ROWS
          BY <2>4, <2>6, <3>2, <4>1, <4>2
        <5>2. (((originY + l) % ys) + 1) % ys = (originY + (l + 1)) % ys
          BY <2>5, <2>7, <4>1, OneFurther
        <5> QED
          BY <2>10, <2>12, <4>1, <5>1, <5>2
      <4>3. CASE ~(IsFetchLine(line) /\ c = VISIBLE)
        <5>1. Lines(c, line) = l /\ PixelY(s) = PixelY(currentVram) /\ s.coarseY < ROWS
          BY <2>4, <2>5, <2>6, <3>2, <4>1, <4>3
        <5> QED
          BY <2>10, <2>12, <4>1, <5>1
      <4> QED
        BY <4>2, <4>3
    <3> QED
      BY <3>1, <3>2
  <2> QED
    BY <1>1, <1>4, <2>1, <2>2, <2>11, <2>12 DEF OriginsOK, DrawsAtScroll, c, line, xs, ys
<1> QED
  BY <1>1, <1>3, <1>4

LEMMA AccessKeepsOrigins ==
    ASSUME OriginsOK, Access
    PROVE  OriginsOK'
<1>1. ASSUME rendering' = rendering, UNCHANGED <<clock, scanLine, currentVram, originX, originY>>
      PROVE  OriginsOK'
  BY <1>1 DEF OriginsOK, DrawsAtScroll, TilesLoaded, LinesDone
<1>2. ASSUME Disturbs PROVE OriginsOK'
  BY <1>2 DEF OriginsOK, DrawsAtScroll, Disturbs
<1>3. UNCHANGED <<clock, scanLine>>
  BY DEF Access
<1>4. ASSUME NEW value \in VALUES, writePPUCTRL(value) PROVE OriginsOK'
  BY <1>1, <1>3, <1>4 DEF writePPUCTRL, Undisturbed
<1>5. ASSUME NEW value \in VALUES, writePPUSCROLL(value) PROVE OriginsOK'
  BY <1>1, <1>3, <1>5 DEF writePPUSCROLL, Undisturbed
<1>6. ASSUME NEW value \in VALUES, writePPUADDR(value) PROVE OriginsOK'
  BY <1>1, <1>2, <1>3, <1>6 DEF writePPUADDR, Undisturbed
<1>7. ASSUME NEW show \in BOOLEAN, writePPUMASK(show) PROVE OriginsOK'
  <2>1. CASE show
    BY <1>3, <1>7, <2>1 DEF writePPUMASK, Undisturbed, registers, OriginsOK, DrawsAtScroll,
                            TilesLoaded, LinesDone
  <2>2. CASE ~show
    BY <1>2, <1>7, <2>2 DEF writePPUMASK
  <2> QED
    BY <2>1, <2>2
<1>8. ASSUME readPPUSTATUS PROVE OriginsOK'
  BY <1>1, <1>3, <1>8 DEF readPPUSTATUS, Undisturbed
<1>9. ASSUME accessPPUDATA PROVE OriginsOK'
  BY <1>2, <1>9 DEF accessPPUDATA
<1> QED
  BY <1>4, <1>5, <1>6, <1>7, <1>8, <1>9 DEF Access

LEMMA OriginsInvariant == Spec => []OriginsOK
<1>1. Init => OriginsOK
  BY DEF Init, OriginsOK, DrawsAtScroll
<1>2. ASSUME TypeOK, TypeOK', OriginsOK, [Next]_vars PROVE OriginsOK'
  <2>1. CASE Dot
    BY <1>2, <2>1, DotKeepsOrigins
  <2>2. CASE Access
    BY <1>2, <2>2, AccessKeepsOrigins
  <2>3. CASE UNCHANGED vars
    BY <1>2, <2>3 DEF vars, registers, OriginsOK, DrawsAtScroll, TilesLoaded, LinesDone
  <2> QED
    BY <1>2, <2>1, <2>2, <2>3 DEF Next
<1> QED
  BY <1>1, <1>2, ScrollTypeCorrect, PTL DEF Spec

(* Every line is fetched from where t was when the line before it ended,   *)
(* and every frame from where t was before its first line, tile by tile    *)
(* and row by row round the plane of tables, whatever the program writes   *)
(* to the registers meanwhile.                                             *)
THEOREM LinesDrawnAtScroll == Spec => []DrawsAtScroll
<1>1. OriginsOK => DrawsAtScroll
  BY DEF OriginsOK
<1> QED
  BY <1>1, OriginsInvariant, PTL

-----------------------------------------------------------------------------
(* A PPU that draws.                                                       *)

(* PPU::step with its fetches moves currentVram as PPUScroll says, and an  *)
(* access to a register is one of PPUScroll's.                             *)
THEOREM BackgroundScrolls == BackgroundSpec => Spec
<1>1. BackgroundInit => Init
  BY DEF BackgroundInit
<1>2. [BackgroundNext]_backgroundVars => [Next]_vars
  BY DEF BackgroundNext, BackgroundDot, BackgroundAccess, Next, backgroundVars
<1> QED
  BY <1>1, <1>2, PTL DEF BackgroundSpec, Spec

(* The fields of the registers keep their widths while tiles are fetched.  *)
THEOREM BackgroundTypeCorrect == BackgroundSpec => []TypeOK
BY BackgroundScrolls, ScrollTypeCorrect, PTL

(* Pairs of writes mean what was written while tiles are fetched.          *)
THEOREM BackgroundPairsTakeEffect == BackgroundSpec => PairTakesEffect
BY BackgroundScrolls, PairsTakeEffect, PTL

(* Lines are fetched from the scroll position on, by a PPU that draws.     *)
THEOREM BackgroundDrawsAtScroll == BackgroundSpec => []DrawsAtScroll
BY BackgroundScrolls, LinesDrawnAtScroll, PTL

-----------------------------------------------------------------------------
(* Pixels as digits: of a tile and of the column in it.                    *)

LEMMA FetchSizes ==
    /\ {NAME_DOT, ATTRIBUTE_DOT, LOW_DOT, HIGH_DOT} \subseteq 1..(FINE - 1)
    /\ NAME_DOT < LOW_DOT /\ NAME_DOT < HIGH_DOT
    /\ ~(0 \in {NAME_DOT, ATTRIBUTE_DOT, LOW_DOT, HIGH_DOT})
    /\ FINE > 1
BY FetchAssumption, Sizes

(* Residues of a number of pixels and of its tiles. *)
LEMMA ResidueOfTiles ==
    ASSUME NEW n \in Nat, NEW m \in Nat \ {0}, NEW d \in Nat \ {0}, NEW r \in 0..(d - 1)
    PROVE  (n * d + r) % (m * d) = (n % m) * d + r
<1> DEFINE q == n \div m
           s == n % m
<1>1. q \in Nat /\ s \in 0..(m - 1) /\ n = q * m + s
  BY Quotient, Remainder, Rebuild
<1> HIDE DEF q, s
<1> DEFINE low == s * d + r
           all == m * d
<1>2. low \in Nat /\ low < all /\ all \in Nat \ {0}
  <2>1. s * d + r \in 0..(m * d - 1)
    BY <1>1, DigitsBound
  <2>2. m * d \in Nat \ {0}
    BY SMT
  <2> QED
    BY <2>1, <2>2
<1>3. n * d + r = q * all + low
  <2>1. (q * m + s) * d = q * (m * d) + s * d
    BY <1>1, SMT
  <2>2. q * (m * d) \in Nat /\ s * d \in Nat
    BY <1>1, SMT
  <2> QED
    BY <1>1, <2>1, <2>2
<1> HIDE DEF low, all
<1>4. (q * all + low) % all = low
  BY <1>1, <1>2, Digits
<1> QED
  BY <1>3, <1>4 DEF low, all, s

LEMMA DigitsOf ==
    ASSUME NEW d \in Nat \ {0}, NEW q \in Nat, NEW r \in 0..(d - 1), NEW n \in Nat, n = q * d + r
    PROVE  n \div d = q /\ n % d = r
BY Digits

(* The pixels that are loaded for the tile at v. *)
TilePixel(v, column) ==
    [attribute |-> fetchAttributeTableByte(v), quadrant |-> Quadrant(v),
     low  |-> [tile |-> fetchNametableByte(v), row |-> v.fineY],
     high |-> [tile |-> fetchNametableByte(v), row |-> v.fineY],
     column |-> column]

(* They are those of the plane at the position that v is. *)
LEMMA TileIsInPlane ==
    ASSUME NEW v \in Address, v.coarseY < ROWS, NEW column \in 0..(FINE - 1),
           NEW n \in Nat, TileX(v) = n % (2 * COARSE),
           NEW y, PixelY(v) = y
    PROVE  PlanePixel((n * FINE + column) % (2 * COARSE * FINE), y) = TilePixel(v, column)
<1>0. /\ COARSE \in Nat \ {0} /\ ROWS \in Nat \ {0} /\ FINE \in Nat \ {0}
      /\ 2 * COARSE \in Nat \ {0}
  BY Sizes
<1>1. /\ v.tableX \in 0..1 /\ v.coarseX \in 0..(COARSE - 1)
      /\ v.tableY \in 0..1 /\ v.coarseY \in 0..(COARSE - 1) /\ v.fineY \in 0..(FINE - 1)
  BY <1>0 DEF Address
<1> DEFINE x   == (n * FINE + column) % (2 * COARSE * FINE)
           tx  == TileX(v)
           row == v.tableY * ROWS + v.coarseY
<1>2. tx \in Nat /\ row \in Nat
  <2>1. tx \in 0..(2 * COARSE - 1)
    BY PositionType
  <2>2. v.tableY * ROWS \in Nat
    BY <1>0, <1>1, SMT
  <2> QED
    BY <1>1, <2>1, <2>2
<1>3. x = tx * FINE + column
  <2> DEFINE m == 2 * COARSE
  <2> HIDE DEF m
  <2>1. m \in Nat \ {0}
    BY <1>0 DEF m
  <2>2. (n * FINE + column) % (m * FINE) = (n % m) * FINE + column
    BY <1>0, <2>1, ResidueOfTiles
  <2>3. n % m = tx /\ x = (n * FINE + column) % (m * FINE)
    BY DEF m
  <2> HIDE DEF x, tx
  <2> QED
    BY <2>2, <2>3
<1> HIDE DEF x
<1>4. x \div FINE = tx /\ x % FINE = column
  <2> HIDE DEF tx
  <2> QED
    BY <1>0, <1>2, <1>3, Digits
<1>5. tx \div COARSE = v.tableX /\ tx % COARSE = v.coarseX
  <2> DEFINE q == v.tableX
             r == v.coarseX
  <2>1. tx = q * COARSE + r /\ q \in Nat /\ r \in 0..(COARSE - 1)
    BY <1>1 DEF TileX
  <2>3. tx \in Nat
    BY <1>2
  <2> HIDE DEF q, r, tx
  <2>2. tx \div COARSE = q /\ tx % COARSE = r
    BY <1>0, <2>1, <2>3, DigitsOf
  <2> QED
    BY <2>2 DEF q, r
<1>6. y = row * FINE + v.fineY
  BY DEF PixelY
<1>7. y \div FINE = row /\ y % FINE = v.fineY
  <2> DEFINE r == v.fineY
  <2>1. y = row * FINE + r /\ row \in Nat /\ r \in 0..(FINE - 1)
    BY <1>1, <1>2, <1>6
  <2> HIDE DEF r, row
  <2>3. y \in Nat /\ FINE \in Nat \ {0}
    BY <1>0, <2>1, SMT
  <2>2. y \div FINE = row /\ y % FINE = r
    BY <2>1, <2>3, DigitsOf
  <2> QED
    BY <2>2 DEF r
<1>8. row \div ROWS = v.tableY /\ row % ROWS = v.coarseY
  <2> DEFINE q == v.tableY
             r == v.coarseY
  <2>1. row = q * ROWS + r /\ q \in Nat /\ r \in 0..(ROWS - 1)
    BY <1>0, <1>1
  <2> HIDE DEF q, r, row
  <2>2. row \div ROWS = q /\ row % ROWS = r
    BY <1>0, <1>2, <2>1, DigitsOf
  <2> QED
    BY <2>2 DEF q, r
<1> HIDE DEF tx, row
<1> DEFINE tile == fetchNametableByte(v)
<1>9. tile = [tableY |-> row \div ROWS, tableX |-> tx \div COARSE,
              y |-> row % ROWS, x |-> tx % COARSE]
  BY <1>5, <1>8 DEF fetchNametableByte
<1>10. tile.y = v.coarseY /\ tile.x = v.coarseX
  BY DEF fetchNametableByte
<1>11. [tableY |-> tile.tableY, tableX |-> tile.tableX,
           y |-> tile.y \div 4, x |-> tile.x \div 4] = fetchAttributeTableByte(v)
  BY DEF fetchNametableByte, fetchAttributeTableByte
<1>12. PlanePixel(x, y)
           = [attribute |-> [tableY |-> tile.tableY, tableX |-> tile.tableX,
                              y |-> tile.y \div 4, x |-> tile.x \div 4],
              quadrant  |-> [y |-> (tile.y \div 2) % 2, x |-> (tile.x \div 2) % 2],
              low  |-> [tile |-> tile, row |-> y % FINE],
              high |-> [tile |-> tile, row |-> y % FINE], column |-> x % FINE]
  BY <1>4, <1>7, <1>9 DEF PlanePixel
<1>13. [y |-> (tile.y \div 2) % 2, x |-> (tile.x \div 2) % 2] = Quadrant(v)
  BY <1>10 DEF Quadrant
<1>14. PlanePixel(x, y) = TilePixel(v, column)
  BY <1>4, <1>7, <1>11, <1>12, <1>13 DEF TilePixel
<1> QED
  BY <1>14 DEF x

-----------------------------------------------------------------------------
(* The inductive invariant, from the dot before a line's first tiles are   *)
(* fetched to its last visible one: which pixels of the plane wait, tile   *)
(* by tile, and what the latches hold at each dot of a tile.               *)

(* The dots of which the pixels that wait are known. *)
Claimed(c, line) ==
    \/ line < POST_RENDER_SCAN_LINE /\ c < VISIBLE
    \/ IsFetchLine(line) /\ c >= PREFETCH_FIRST - 1

(* The dots of the tile under way that were fetched. *)
Into(c) == IF c > PREFETCH_LAST THEN 0 ELSE c % FINE

(* Where the first pixel that waits is drawn; left of the screen if it is  *)
(* a remainder of what was fetched before.                                 *)
Drawn(c) == IF c <= VISIBLE THEN c
            ELSE IF c <= PREFETCH_LAST THEN c - PREFETCH_LAST ELSE 0

Waiting ==
    \A j \in 1..(2 * FINE) :
        IF j > 2 * FINE - Into(clock) THEN backgroundData[j] = {}
        ELSE Drawn(clock) + j - 1 >= 0 =>
                 backgroundData[j] =
                     {PlanePixel((originX * FINE + (Drawn(clock) + j - 1)) % (2 * COARSE * FINE),
                                 (originY + LinesDone) % (2 * ROWS * FINE))}

Latched ==
    LET v == currentVram
        p == Into(clock)
    IN  /\ p >= NAME_DOT => nameTableByte = fetchNametableByte(v)
        /\ p >= ATTRIBUTE_DOT => attributeTableByte = fetchAttributeTableByte(v)
        /\ p >= LOW_DOT => lowerTileByte = [tile |-> fetchNametableByte(v), row |-> v.fineY]
        /\ p >= HIGH_DOT => higherTileByte = [tile |-> fetchNametableByte(v), row |-> v.fineY]

BackgroundOK ==
    originX # Unknown /\ originY # Unknown /\ Claimed(clock, scanLine) => Waiting /\ Latched

-----------------------------------------------------------------------------
(* How the invariant's quantities move from a dot to the next.             *)

LEMMA IntoSteps ==
    ASSUME NEW c \in Nat
    PROVE  /\ c % FINE \in 0..(FINE - 1)
           /\ (c + 1) % FINE = IF c % FINE = FINE - 1 THEN 0 ELSE (c % FINE) + 1
<1> DEFINE r == c % FINE
<1>1. FINE \in Nat \ {0}
  BY Sizes
<1>2. r \in 0..(FINE - 1) /\ (r + 1) % FINE = (c + 1) % FINE
  BY <1>1, Remainder, StepsRound
<1> HIDE DEF r
<1> DEFINE n == r + 1
<1>3. n \in Nat /\ n <= FINE
  BY <1>1, <1>2
<1> HIDE DEF n
<1>5. n % FINE = IF n = FINE THEN 0 ELSE n
  BY <1>1, <1>3, Wraps
<1>4. r + 1 = FINE <=> r = FINE - 1
  BY <1>1, <1>2
<1> QED
  BY <1>2, <1>4, <1>5 DEF r, n

LEMMA EdgesOfTiles ==
    /\ 0 % FINE = 0 /\ VISIBLE % FINE = 0
    /\ (PREFETCH_FIRST - 1) % FINE = 0 /\ PREFETCH_LAST % FINE = 0
<1> USE DotsInOrder
<1>1. \A q \in Nat : (q * FINE + 0) % FINE = 0
  BY Digits
<1>2. 0 % FINE = 0
  <2>1. (0 * FINE + 0) % FINE = 0
    BY <1>1
  <2> QED
    BY <2>1
<1>3. (2 * FINE) % FINE = 0
  <2>1. (2 * FINE + 0) % FINE = 0
    BY <1>1
  <2> QED
    BY <2>1
<1>4. (PREFETCH_FIRST - 1 + 2 * FINE) % FINE = (2 * FINE) % FINE
  <2> DEFINE n == 2 * FINE
  <2>1. n \in Nat
    OBVIOUS
  <2> HIDE DEF n
  <2>2. (PREFETCH_FIRST - 1 + n) % FINE = n % FINE
    BY <2>1, PrefetchAligned
  <2> QED
    BY <2>2 DEF n
<1> QED
  BY <1>2, <1>3, <1>4, ScrollAssumption

(* How far the pixels that wait are, from a dot to the next one. *)
LEMMA DotSteps ==
    ASSUME NEW c \in Dots, NEW line \in ScanLines, NEW d \in Dots, NEW next \in ScanLines,
           Ticks(c, line, d, next), Claimed(d, next), d # PREFETCH_FIRST - 1
    PROVE  /\ Claimed(c, line) /\ d # VISIBLE
           /\ ~CopiesHorizontal(d, next) /\ ~CopiesVertical(d, next)
           /\ \/ /\ ~(IsFetchLine(next) /\ IsFetchClock(d))
                 /\ Into(c) = 0 /\ Into(d) = 0 /\ Drawn(c) = 0 /\ Drawn(d) = 0
              \/ /\ IsFetchLine(next) /\ IsFetchClock(d) /\ d = c + 1 /\ next = line
                 /\ Into(c) = c % FINE /\ Into(d) = d % FINE
                 /\ Drawn(d) = Drawn(c) + 1
<1> USE DotsInOrder
<1>1. /\ c \in Nat /\ d \in Nat /\ c < CLOCK_CYCLE /\ d < CLOCK_CYCLE
      /\ line \in Nat /\ next \in Nat
  BY DEF Dots, ScanLines
<1>2. d # VISIBLE /\ ~CopiesHorizontal(d, next) /\ ~CopiesVertical(d, next)
  BY <1>1 DEF Claimed, CopiesHorizontal, CopiesVertical
<1>3. CASE d = 0
  <2>1. next < POST_RENDER_SCAN_LINE /\ 0 < VISIBLE /\ c >= PREFETCH_LAST
    BY <1>1, <1>3 DEF Claimed, Ticks
  <2>2. IsFetchLine(line)
    BY <1>1, <1>3, <2>1 DEF Ticks, IsFetchLine
  <2>3. Claimed(c, line)
    BY <1>1, <2>1, <2>2 DEF Claimed
  <2>4. Into(c) = 0 /\ Drawn(c) = 0
    <3>1. CASE c > PREFETCH_LAST
      BY <1>1, <3>1 DEF Into, Drawn
    <3>2. CASE c = PREFETCH_LAST
      BY <3>2, EdgesOfTiles DEF Into, Drawn
    <3> QED
      BY <1>1, <2>1, <3>1, <3>2
  <2>5. Into(0) = 0 /\ Drawn(0) = 0 /\ ~IsFetchClock(0)
    BY <2>1, EdgesOfTiles DEF Into, Drawn, IsFetchClock
  <2> QED
    BY <1>2, <1>3, <2>3, <2>4, <2>5
<1>4. CASE d # 0
  <2>1. d = c + 1 /\ next = line
    BY <1>4 DEF Ticks
  <2>2. Claimed(c, line)
    BY <1>1, <2>1 DEF Claimed
  <2>3. CASE d > PREFETCH_LAST
    <3>1. ~IsFetchClock(d) /\ Into(d) = 0 /\ Drawn(d) = 0
      BY <1>1, <2>3 DEF IsFetchClock, Into, Drawn
    <3>2. Into(c) = 0 /\ Drawn(c) = 0
      <4>1. CASE c > PREFETCH_LAST
        BY <1>1, <4>1 DEF Into, Drawn
      <4>2. CASE c = PREFETCH_LAST
        BY <4>2, EdgesOfTiles DEF Into, Drawn
      <4> QED
        BY <1>1, <2>1, <2>3, <4>1, <4>2
    <3> QED
      BY <1>2, <2>2, <3>1, <3>2
  <2>4. CASE ~(d > PREFETCH_LAST)
    <3>1. d < VISIBLE \/ PREFETCH_FIRST <= d
      BY <1>1 DEF Claimed
    <3>2. IsFetchLine(next) /\ IsFetchClock(d)
      BY <1>1, <1>4, <2>4, <3>1 DEF Claimed, IsFetchLine, IsFetchClock
    <3>3. Into(c) = c % FINE /\ Into(d) = d % FINE
      BY <1>1, <2>1, <2>4 DEF Into
    <3>4. Drawn(d) = Drawn(c) + 1
      BY <1>1, <2>1, <2>4, <3>1 DEF Drawn
    <3> QED
      BY <1>2, <2>1, <2>2, <3>2, <3>3, <3>4
  <2> QED
    BY <2>3, <2>4
<1> QED
  BY <1>3, <1>4

(* The tile that is loaded at the dot d follows those that wait. *)
LEMMA LoadedTile ==
    ASSUME NEW c \in Nat, NEW line, IsFetchLine(line), c + 1 <= PREFETCH_LAST,
           c + 1 < VISIBLE \/ PREFETCH_FIRST <= c + 1, c % FINE = FINE - 1
    PROVE  Tiles(c, line) * FINE = Drawn(c) + 1 + FINE
<1> USE DotsInOrder
<1>1. CASE c + 1 < VISIBLE
  <2> DEFINE q == c \div FINE
  <2>1. Tiles(c, line) = 2 + q /\ Drawn(c) = c
    BY <1>1 DEF Tiles, Drawn
  <2>2. q \in Nat /\ c = q * FINE + (FINE - 1)
    BY Quotient, Rebuild
  <2> HIDE DEF q
  <2>3. (2 + q) * FINE = 2 * FINE + q * FINE /\ q * FINE \in Nat
    BY <2>2, SMT
  <2> QED
    BY <2>1, <2>2, <2>3
<1>2. CASE PREFETCH_FIRST <= c + 1
  <2> DEFINE n == c + 1 - PREFETCH_FIRST
             q == n \div FINE
  <2>1. n \in Nat /\ c = PREFETCH_FIRST - 1 + n
    BY <1>2
  <2>2. n % FINE = FINE - 1
    <3> HIDE DEF n
    <3>1. c % FINE = n % FINE
      BY <2>1, PrefetchAligned
    <3> QED
      BY <3>1
  <2>3. q \in Nat /\ n = q * FINE + (FINE - 1)
    <3> HIDE DEF n
    <3> QED
      BY <2>1, <2>2, Quotient, Rebuild
  <2>4. Tiles(c, line) = q
    <3>1. CASE c < PREFETCH_FIRST
      <4>1. n = 0
        BY <1>2, <3>1
      <4>2. (0 * FINE + 0) \div FINE = 0
        BY Digits
      <4>3. q = 0
        BY <4>1, <4>2
      <4> QED
        BY <1>2, <3>1, <4>3 DEF Tiles
    <3>2. CASE ~(c < PREFETCH_FIRST)
      <4>1. ~(c > PREFETCH_LAST) /\ ~(c <= VISIBLE)
        BY <3>2
      <4> QED
        BY <3>2, <4>1 DEF Tiles
    <3> QED
      BY <3>1, <3>2
  <2>5. Drawn(c) = c - PREFETCH_LAST
    BY <1>2 DEF Drawn
  <2> HIDE DEF q
  <2>6. q * FINE \in Nat
    BY <2>3, SMT
  <2> QED
    BY <2>3, <2>4, <2>5, <2>6
<1> QED
  BY <1>1, <1>2

-----------------------------------------------------------------------------
(* A dot moves the pixels on, and loads those of the tile at v.            *)

(* v and the origins stay as they are up to the last dot of a tile. *)
LEMMA StaysInTile ==
    ASSUME TypeOK, NEW c, NEW line, ~LoadsTile(c), c # VISIBLE,
           ~CopiesHorizontal(c, line), ~CopiesVertical(c, line)
    PROVE  Scrolled(currentVram, c, line) = currentVram
BY DEF Scrolled

LEMMA DotKeepsBackground ==
    ASSUME TypeOK, TypeOK', OriginsOK, BackgroundOK, BackgroundDot
    PROVE  BackgroundOK'
<1> USE DotsInOrder
<1>0. SUFFICES ASSUME originX' # Unknown, originY' # Unknown, Claimed(clock', scanLine')
               PROVE  Waiting' /\ Latched'
  BY DEF BackgroundOK
<1>1. /\ clock \in Dots /\ scanLine \in ScanLines /\ clock' \in Dots /\ scanLine' \in ScanLines
      /\ clock \in Nat /\ clock' \in Nat
      /\ currentVram \in Address /\ rendering \in BOOLEAN
      /\ Dot /\ Ticks(clock, scanLine, clock', scanLine')
  BY TickMoves DEF TypeOK, BackgroundDot, Dot, Dots, ScanLines
<1> DEFINE c == clock
           d == clock'
           line == scanLine'
           all  == 2 * FINE
<1>2. CASE d = PREFETCH_FIRST - 1
  <2>1. Into(d) = 0 /\ Drawn(d) = -all
    BY <1>1, <1>2, EdgesOfTiles DEF Into, Drawn
  <2>2. Latched'
    <3>1. Latched' <=>
              /\ Into(d) >= NAME_DOT => nameTableByte' = fetchNametableByte(currentVram')
              /\ Into(d) >= ATTRIBUTE_DOT =>
                     attributeTableByte' = fetchAttributeTableByte(currentVram')
              /\ Into(d) >= LOW_DOT => lowerTileByte' =
                     [tile |-> fetchNametableByte(currentVram'), row |-> currentVram'.fineY]
              /\ Into(d) >= HIGH_DOT => higherTileByte' =
                     [tile |-> fetchNametableByte(currentVram'), row |-> currentVram'.fineY]
      BY DEF Latched
    <3> QED
      BY <2>1, <3>1, FetchSizes
  <2>3. Waiting'
    BY <2>1 DEF Waiting
  <2> QED
    BY <2>2, <2>3
<1>3. CASE d # PREFETCH_FIRST - 1
  <2>1. /\ Claimed(c, scanLine) /\ d # VISIBLE
        /\ ~CopiesHorizontal(d, line) /\ ~CopiesVertical(d, line)
        /\ \/ /\ ~(IsFetchLine(line) /\ IsFetchClock(d))
              /\ Into(c) = 0 /\ Into(d) = 0 /\ Drawn(c) = 0 /\ Drawn(d) = 0
           \/ /\ IsFetchLine(line) /\ IsFetchClock(d) /\ d = c + 1 /\ line = scanLine
              /\ Into(c) = c % FINE /\ Into(d) = d % FINE
              /\ Drawn(d) = Drawn(c) + 1
    BY <1>1, <1>3, <1>0, DotSteps
  <2>2. originX' = originX /\ originY' = originY
    BY <1>1, <2>1 DEF Dot, KnownOrigins
  <2>3. rendering /\ Waiting /\ Latched /\ currentVram.coarseY < ROWS
    BY <1>0, <2>1, <2>2 DEF BackgroundOK, OriginsOK
  <2>4. LinesDone' = LinesDone
    <3>1. Lines(d, line) = Lines(c, scanLine) + 0
      BY <1>1, <2>1, LinesStep
    <3>2. Lines(c, scanLine) \in Nat
      BY <1>1, DoneSoFar
    <3>3. LinesDone' = Lines(d, line) /\ LinesDone = Lines(c, scanLine)
      BY DEF LinesDone, Lines
    <3> QED
      BY <3>1, <3>2, <3>3
  <2> DEFINE pixel(x) == {PlanePixel((originX * FINE + x) % (2 * COARSE * FINE),
                                     (originY + LinesDone) % (2 * ROWS * FINE))}
  <2>5. \A j \in 1..all :
            IF j > all - Into(c) THEN backgroundData[j] = {}
            ELSE Drawn(c) + j - 1 >= 0 => backgroundData[j] = pixel(Drawn(c) + j - 1)
    BY <2>3 DEF Waiting
  <2>6. Waiting' <=>
            \A j \in 1..all :
                IF j > all - Into(d) THEN backgroundData'[j] = {}
                ELSE Drawn(d) + j - 1 >= 0 => backgroundData'[j] = pixel(Drawn(d) + j - 1)
    BY <2>2, <2>4 DEF Waiting
  <2>7. CASE ~(IsFetchLine(line) /\ IsFetchClock(d))
    <3>1. Into(c) = 0 /\ Into(d) = 0 /\ Drawn(c) = 0 /\ Drawn(d) = 0
      BY <2>1, <2>7
    <3>2. backgroundData' = backgroundData
      BY <2>7 DEF BackgroundDot
    <3>3. Waiting'
      <4> HIDE DEF pixel
      <4> QED
        BY <2>5, <2>6, <3>1, <3>2
    <3> QED
      BY <3>1, <3>3, FetchSizes DEF Latched
  <2>8. CASE IsFetchLine(line) /\ IsFetchClock(d)
    <3>1. /\ d = c + 1 /\ line = scanLine /\ d <= PREFETCH_LAST
          /\ Into(c) = c % FINE /\ Into(d) = d % FINE /\ Drawn(d) = Drawn(c) + 1
      BY <2>1, <2>8 DEF IsFetchClock
    <3>2. Fetch(d)
      BY <2>3, <2>8 DEF BackgroundDot
    <3>3. /\ Into(c) \in 0..(FINE - 1)
          /\ Into(d) = IF Into(c) = FINE - 1 THEN 0 ELSE Into(c) + 1
      BY <1>1, <3>1, IntoSteps
    <3>4. \A dot : At(d, dot) <=> Into(d) = dot
      BY <3>1 DEF At
    <3>5. FINE \in Nat \ {0} /\ all = FINE + FINE
      BY Sizes
    <3>6. \A j \in 1..all : Shifted[j] = IF j < all THEN backgroundData[j + 1] ELSE {}
      BY DEF Shifted
    <3> DEFINE v == currentVram
    <3>7. CASE Into(c) = FINE - 1
      <4> DEFINE t == Tiles(c, scanLine)
      <4>1. Into(d) = 0
        BY <3>3, <3>7
      <4>2. \A j \in 1..all :
                backgroundData'[j] = IF j > FINE THEN Shifted[j] \cup {Pixel(v, j - FINE - 1)}
                                     ELSE Shifted[j]
        BY <3>2, <3>4, <4>1 DEF Fetch, loadBackgroundData
      <4>3. \A column : Pixel(v, column) = TilePixel(v, column)
        <5>1. /\ nameTableByte = fetchNametableByte(v)
              /\ attributeTableByte = fetchAttributeTableByte(v)
              /\ lowerTileByte = [tile |-> fetchNametableByte(v), row |-> v.fineY]
              /\ higherTileByte = [tile |-> fetchNametableByte(v), row |-> v.fineY]
          BY <2>3, <3>5, <3>7, FetchSizes DEF Latched
        <5> QED
          BY <5>1 DEF Pixel, TilePixel
      <4>4. t \in Nat /\ t * FINE = Drawn(c) + 1 + FINE
        <5>1. t \in Nat
          BY <1>1, DoneSoFar
        <5>2. d < VISIBLE \/ PREFETCH_FIRST <= d
          BY <1>0, <1>1, <1>3 DEF Claimed
        <5> QED
          BY <1>1, <2>8, <3>1, <3>7, <5>1, <5>2, LoadedTile
      <4>5. /\ originX \in Nat /\ TileX(v) = (originX + t) % (2 * COARSE)
            /\ PixelY(v) = (originY + LinesDone) % (2 * ROWS * FINE)
        <5>1. TilesLoaded = t
          BY DEF TilesLoaded, Tiles
        <5> QED
          BY <1>0, <2>2, <5>1 DEF TypeOK, OriginsOK, DrawsAtScroll
      <4>6. ASSUME NEW column \in 0..(FINE - 1)
            PROVE  pixel(t * FINE + column) = {TilePixel(v, column)}
        <5> DEFINE n == originX + t
                   y == (originY + LinesDone) % (2 * ROWS * FINE)
        <5>1. n \in Nat /\ n * FINE + column = originX * FINE + (t * FINE + column)
          <6>1. (originX + t) * FINE = originX * FINE + t * FINE
            BY <3>5, <4>4, <4>5, SMT
          <6>2. originX * FINE \in Nat /\ t * FINE \in Nat
            BY <3>5, <4>4, <4>5, SMT
          <6> QED
            BY <4>4, <4>5, <6>1, <6>2
        <5> HIDE DEF y
        <5>2. TileX(v) = n % (2 * COARSE) /\ PixelY(v) = y
          BY <4>5 DEF y
        <5> HIDE DEF n
        <5>3. PlanePixel((n * FINE + column) % (2 * COARSE * FINE), y) = TilePixel(v, column)
          BY <1>1, <2>3, <5>1, <5>2, TileIsInPlane
        <5> QED
          BY <5>1, <5>3 DEF y
      <4> HIDE DEF pixel, t
      <4>7. ASSUME NEW j \in 1..all, j > FINE
            PROVE  backgroundData'[j] = pixel(Drawn(d) + j - 1)
        <5> DEFINE column == j - FINE - 1
        <5>1. column \in 0..(FINE - 1)
          BY <3>5, <4>7
        <5>2. Shifted[j] = {}
          <6>1. CASE j = all
            BY <3>6, <6>1
          <6>2. CASE j # all
            <7>1. j + 1 \in 1..all /\ j + 1 > all - Into(c) /\ j < all
              BY <3>5, <3>7, <4>7, <6>2
            <7>2. backgroundData[j + 1] = {}
              BY <2>5, <7>1
            <7> QED
              BY <3>6, <4>7, <7>1, <7>2
          <6> QED
            BY <6>1, <6>2
        <5>3. backgroundData'[j] = {TilePixel(v, column)}
          <6>1. backgroundData'[j] = {} \cup {Pixel(v, column)}
            BY <4>2, <4>7, <5>2
          <6>2. Pixel(v, column) = TilePixel(v, column)
            BY <4>3
          <6> QED
            BY <6>1, <6>2, Zenon
        <5>4. Drawn(d) + j - 1 = t * FINE + column
          <6>1. Drawn(c) \in Int
            BY <1>1 DEF Drawn
          <6> QED
            BY <3>1, <3>5, <4>4, <4>7, <6>1
        <5> HIDE DEF column
        <5> QED
          BY <4>6, <5>1, <5>3, <5>4
      <4>8. ASSUME NEW j \in 1..all, ~(j > FINE), Drawn(d) + j - 1 >= 0
            PROVE  backgroundData'[j] = pixel(Drawn(d) + j - 1)
        <5>1. j + 1 \in 1..all /\ j < all /\ ~(j + 1 > all - Into(c))
          BY <3>5, <3>7, <4>8
        <5>2. Drawn(c) + (j + 1) - 1 = Drawn(d) + j - 1
          <6>1. Drawn(c) \in Int
            BY <1>1 DEF Drawn
          <6> QED
            BY <3>1, <6>1
        <5>3. backgroundData[j + 1] = pixel(Drawn(d) + j - 1)
          BY <2>5, <4>8, <5>1, <5>2
        <5> QED
          BY <3>6, <4>2, <4>8, <5>1, <5>3
      <4>9. Waiting'
        BY <2>6, <3>5, <4>1, <4>7, <4>8
      <4>10. Latched'
        BY <4>1, FetchSizes DEF Latched
      <4> QED
        BY <4>9, <4>10
    <3>8. CASE Into(c) # FINE - 1
      <4>1. Into(d) = Into(c) + 1 /\ Into(d) \in 1..(FINE - 1)
        BY <3>3, <3>5, <3>8
      <4>2. backgroundData' = Shifted
        BY <3>2, <3>4, <4>1 DEF Fetch
      <4>3. currentVram' = v
        <5>1. ~LoadsTile(d)
          BY <3>1, <4>1 DEF LoadsTile
        <5>2. Scrolled(v, d, line) = v
          BY <2>1, <5>1, StaysInTile
        <5> QED
          BY <1>1, <2>3, <5>2 DEF Dot
      <4>4. Drawn(c) \in Int /\ Drawn(d) = Drawn(c) + 1
        BY <1>1, <3>1 DEF Drawn
      <4>5. ASSUME NEW j \in 1..all, j > all - Into(d)
            PROVE  backgroundData'[j] = {}
        <5>1. CASE j = all
          BY <3>6, <4>2, <5>1
        <5>2. CASE j # all
          <6>1. j + 1 \in 1..all /\ j + 1 > all - Into(c) /\ j < all
            BY <3>3, <3>5, <4>1, <4>5, <5>2
          <6> QED
            BY <2>5, <3>6, <4>2, <6>1
        <5> QED
          BY <5>1, <5>2
      <4> HIDE DEF pixel
      <4>6. ASSUME NEW j \in 1..all, ~(j > all - Into(d)), Drawn(d) + j - 1 >= 0
            PROVE  backgroundData'[j] = pixel(Drawn(d) + j - 1)
        <5>1. j + 1 \in 1..all /\ j < all /\ ~(j + 1 > all - Into(c))
          BY <3>3, <3>5, <4>1, <4>6
        <5>2. Drawn(c) + (j + 1) - 1 = Drawn(d) + j - 1
          BY <4>4
        <5> QED
          BY <2>5, <3>6, <4>2, <4>6, <5>1, <5>2
      <4>7. Waiting'
        BY <2>6, <4>5, <4>6
      <4>8. /\ nameTableByte' = IF Into(d) = NAME_DOT THEN fetchNametableByte(v)
                                                     ELSE nameTableByte
            /\ attributeTableByte' = IF Into(d) = ATTRIBUTE_DOT THEN fetchAttributeTableByte(v)
                                                               ELSE attributeTableByte
            /\ lowerTileByte' = IF Into(d) = LOW_DOT THEN fetchTileByte(v) ELSE lowerTileByte
            /\ higherTileByte' = IF Into(d) = HIGH_DOT THEN fetchTileByte(v) ELSE higherTileByte
        <5>1. ~At(d, 0)
          BY <3>4, <4>1
        <5> QED
          BY <3>2, <3>4, <5>1 DEF Fetch
      <4>9. Latched'
        <5>1. /\ Into(c) >= NAME_DOT => nameTableByte = fetchNametableByte(v)
              /\ Into(c) >= ATTRIBUTE_DOT => attributeTableByte = fetchAttributeTableByte(v)
              /\ Into(c) >= LOW_DOT =>
                     lowerTileByte = [tile |-> fetchNametableByte(v), row |-> v.fineY]
              /\ Into(c) >= HIGH_DOT =>
                     higherTileByte = [tile |-> fetchNametableByte(v), row |-> v.fineY]
          BY <2>3 DEF Latched
        <5>2. \A dot \in 1..(FINE - 1) :
                  /\ Into(d) >= dot <=> Into(c) >= dot \/ Into(d) = dot
                  /\ ~(Into(c) >= dot /\ Into(d) = dot)
          BY <3>3, <4>1
        <5>3. Into(d) \in {LOW_DOT, HIGH_DOT} => Into(c) >= NAME_DOT
          BY <3>3, <4>1, FetchSizes
        <5>4. /\ Into(d) >= NAME_DOT => nameTableByte' = fetchNametableByte(v)
              /\ Into(d) >= ATTRIBUTE_DOT => attributeTableByte' = fetchAttributeTableByte(v)
          BY <4>8, <5>1, <5>2, FetchSizes
        <5>5. /\ Into(d) >= LOW_DOT =>
                     lowerTileByte' = [tile |-> fetchNametableByte(v), row |-> v.fineY]
              /\ Into(d) >= HIGH_DOT =>
                     higherTileByte' = [tile |-> fetchNametableByte(v), row |-> v.fineY]
          BY <4>8, <5>1, <5>2, <5>3, FetchSizes DEF fetchTileByte
        <5> QED
          BY <4>3, <5>4, <5>5 DEF Latched
      <4> QED
        BY <4>7, <4>9
    <3> QED
      BY <3>7, <3>8
  <2> QED
    BY <2>7, <2>8
<1> QED
  BY <1>2, <1>3

LEMMA AccessKeepsBackground ==
    ASSUME BackgroundOK, BackgroundAccess
    PROVE  BackgroundOK'
<1>1. Access /\ UNCHANGED <<clock, scanLine, latches, backgroundData>>
  BY DEF BackgroundAccess, Access
<1>2. ASSUME UNCHANGED <<currentVram, originX, originY>> PROVE BackgroundOK'
  BY <1>1, <1>2 DEF BackgroundOK, Waiting, Latched, LinesDone, latches
<1>3. ASSUME Disturbs PROVE BackgroundOK'
  BY <1>3 DEF BackgroundOK, Disturbs
<1>4. UNCHANGED <<currentVram, originX, originY>> \/ Disturbs
  BY <1>1 DEF Access, writePPUCTRL, writePPUSCROLL, writePPUADDR, writePPUMASK,
              readPPUSTATUS, accessPPUDATA, Undisturbed, registers
<1> QED
  BY <1>2, <1>3, <1>4

LEMMA BackgroundInvariant == BackgroundSpec => []BackgroundOK
<1>1. BackgroundInit => BackgroundOK
  BY DEF BackgroundInit, Init, BackgroundOK
<1>2. ASSUME TypeOK, TypeOK', OriginsOK, BackgroundOK, [BackgroundNext]_backgroundVars
      PROVE  BackgroundOK'
  <2>1. CASE BackgroundDot
    BY <1>2, <2>1, DotKeepsBackground
  <2>2. CASE BackgroundAccess
    BY <1>2, <2>2, AccessKeepsBackground
  <2>3. CASE UNCHANGED backgroundVars
    BY <1>2, <2>3 DEF backgroundVars, vars, registers, latches, BackgroundOK, Waiting, Latched,
                      LinesDone
  <2> QED
    BY <1>2, <2>1, <2>2, <2>3 DEF BackgroundNext
<1> QED
  BY <1>1, <1>2, BackgroundScrolls, BackgroundTypeCorrect, OriginsInvariant, PTL
     DEF BackgroundSpec

(* The screen shows the plane of name tables from the scroll position on,  *)
(* pixel by pixel, for every size of tiles, of the screen and of a line.   *)
THEOREM ScreenShowsPlane == BackgroundSpec => DrawsPlane
<1> USE DotsInOrder
<1> DEFINE Shows ==
        /\ rendering /\ clock' # clock
        /\ scanLine' < POST_RENDER_SCAN_LINE /\ clock' \in 1..VISIBLE
        /\ originX # Unknown /\ originY # Unknown
        => getBackgroundPixel =
             {PlanePixel((originX * FINE + fineScroll + clock' - 1) % (2 * COARSE * FINE),
                         (originY + scanLine') % (2 * ROWS * FINE))}
<1>1. ASSUME TypeOK, TypeOK', BackgroundOK, BackgroundNext PROVE Shows
  <2>0. SUFFICES ASSUME clock' # clock, scanLine' < POST_RENDER_SCAN_LINE, clock' \in 1..VISIBLE,
                        originX # Unknown, originY # Unknown
                 PROVE  getBackgroundPixel =
                          {PlanePixel((originX * FINE + fineScroll + clock' - 1)
                                          % (2 * COARSE * FINE),
                                      (originY + scanLine') % (2 * ROWS * FINE))}
    OBVIOUS
  <2>1. Dot
    BY <1>1, <2>0 DEF BackgroundNext, BackgroundDot, BackgroundAccess, Access
  <2>2. clock' = clock + 1 /\ scanLine' = scanLine /\ clock \in Nat /\ clock < VISIBLE
    BY <1>1, <2>0, <2>1 DEF Dot, tick, TypeOK
  <2>3. Waiting
    BY <1>1, <2>0, <2>2 DEF BackgroundOK, Claimed
  <2>4. LinesDone = scanLine
    BY <1>1, <2>0, <2>2 DEF LinesDone, TypeOK
  <2>5. Into(clock) \in 0..(FINE - 1) /\ Drawn(clock) = clock
    BY <2>2, IntoSteps DEF Into, Drawn
  <2>6. fineScroll \in 0..(FINE - 1) /\ originX \in Nat
    BY <1>1, <2>0 DEF TypeOK
  <2> DEFINE j == fineScroll + 1
  <2>7. j \in 1..(2 * FINE) /\ ~(j > 2 * FINE - Into(clock)) /\ clock + j - 1 >= 0
    BY <2>2, <2>5, <2>6
  <2>8. originX * FINE + (clock + j - 1) = originX * FINE + fineScroll + clock' - 1
    <3>1. originX * FINE \in Nat
      BY <2>6, SMT
    <3> QED
      BY <2>2, <2>6, <3>1
  <2> HIDE DEF j
  <2>9. backgroundData[j] =
            {PlanePixel((originX * FINE + (clock + j - 1)) % (2 * COARSE * FINE),
                        (originY + LinesDone) % (2 * ROWS * FINE))}
    BY <2>3, <2>5, <2>7 DEF Waiting
  <2> QED
    BY <2>2, <2>4, <2>8, <2>9 DEF getBackgroundPixel, j
<1> HIDE DEF Shows
<1>2. TypeOK /\ TypeOK' /\ BackgroundOK /\ [BackgroundNext]_backgroundVars
          => [Shows]_backgroundVars
  BY <1>1
<1>3. [][Shows]_backgroundVars => DrawsPlane
  BY DEF DrawsPlane, Shows
<1> QED
  BY <1>2, <1>3, BackgroundTypeCorrect, BackgroundInvariant, PTL DEF BackgroundSpec
=============================================================================
