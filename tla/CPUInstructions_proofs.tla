----------------------- MODULE CPUInstructions_proofs -----------------------
(***************************************************************************)
(* Proofs about CPUInstructions, for bytes of any width, any RAM and any   *)
(* program.                                                                *)
(*                                                                         *)
(* What an instruction is checked against is the machine it found, so the  *)
(* types are all the past that a step needs.  The work is in the lemmas:   *)
(* numbers that wrap once and their digits in base WORD; And, a recursive  *)
(* sum of bits, by the least number at which it would go wrong; what each  *)
(* part of an instruction sets and keeps; then the instructions, composed  *)
(* as the code composes them, and the pages addresses are on.              *)
(***************************************************************************)
EXTENDS CPUInstructions, WellFoundedInduction, TLAPS

-----------------------------------------------------------------------------
(* Numbers.                                                                *)

LEMMA WordFacts ==
    /\ WORD \in Nat \ {0} /\ HALF \in Nat /\ HALF > 1 /\ WORD = 2 * HALF
    /\ BITS \in Nat /\ BITS > 1
    /\ WORD = 2^BITS
BY WordAssumption DEF WORD

LEMMA SpaceFacts ==
    /\ SPACE \in Nat \ {0} /\ SPACE >= 2 * WORD /\ SPACE = WORD * WORD
<1> DEFINE w == WORD
<1>1. w \in Nat \ {0} /\ w > 2
  BY WordFacts
<1> HIDE DEF w
<1>2. w * w \in Nat /\ w * w >= 2 * w
  BY <1>1
<1> QED
  BY <1>1, <1>2 DEF SPACE, w

LEMMA LeastNumber ==
    ASSUME NEW T, T \subseteq Nat, T # {}
    PROVE  \E m \in T : \A k \in T : m <= k
<1> DEFINE R == {ss \in Nat \X Nat : ss[1] < ss[2]}
<1>1. IsWellFoundedOn(R, Nat)
  BY NatLessThanWellFounded, Zenon DEF OpToRel
<1>2. \E m \in T : \A k \in T : ~(<<k, m>> \in R)
  <2> HIDE DEF R
  <2> QED  BY <1>1, WFMin, Zenon
<1>3. \A a, b \in Nat : a < b => <<a, b>> \in R
  OBVIOUS
<1> HIDE DEF R
<1>4. PICK m \in T : \A k \in T : ~(<<k, m>> \in R)
  BY <1>2, Zenon
<1>5. ASSUME NEW k \in T PROVE m <= k
  <2>1. ~(<<k, m>> \in R) /\ k \in Nat /\ m \in Nat
    BY <1>4, Zenon
  <2>2. ~(k < m)
    BY <1>3, <2>1, Zenon
  <2> QED
    BY <2>1, <2>2
<1> QED
  BY <1>5

LEMMA Remainder ==
    ASSUME NEW n \in Int, NEW d \in Nat \ {0}
    PROVE  n % d \in 0..(d - 1)
OBVIOUS

(* A sum or a difference that is out of range by one word at most.         *)
LEMMA OneWrap ==
    ASSUME NEW d \in Nat \ {0}, NEW n \in (-d)..(2 * d - 1)
    PROVE  n % d = IF n < 0 THEN n + d ELSE IF n >= d THEN n - d ELSE n
OBVIOUS

(* The digits of a number in a base. *)
LEMMA Digits ==
    ASSUME NEW q \in Nat, NEW r \in Nat, NEW d \in Nat \ {0}, r < d
    PROVE  (r + d * q) \div d = q /\ (r + d * q) % d = r
BY SMTT(30)

LEMMA Rebuild ==
    ASSUME NEW n \in Nat, NEW d \in Nat \ {0}
    PROVE  /\ n \div d \in Nat /\ n % d \in 0..(d - 1)
           /\ n = (n % d) + d * (n \div d)
OBVIOUS

(* One digit more: a remainder in base 2 p.                                *)
LEMMA NextBit ==
    ASSUME NEW a \in Nat, NEW p \in Nat \ {0}
    PROVE  /\ (a \div p) % 2 \in 0..1
           /\ a % (2 * p) = (a % p) + p * ((a \div p) % 2)
<1> DEFINE q == a \div p
           s == a % p
           t == q \div 2
           r == q % 2
<1>1. q \in Nat /\ s \in 0..(p - 1) /\ a = s + p * q
  BY Rebuild
<1>2. t \in Nat /\ r \in 0..1 /\ q = r + 2 * t
  <2> HIDE DEF q
  <2> QED BY <1>1
<1> HIDE DEF q, s, t, r
<1>3. p * r \in Nat /\ p * r <= p
  BY <1>2
<1>4. a = (s + p * r) + (2 * p) * t
  <2>1. p * q = p * r + (2 * p) * t
    BY <1>2
  <2>2. p * q \in Nat /\ (2 * p) * t \in Nat
    BY <1>1, <1>2
  <2> QED
    BY <1>1, <1>3, <2>1, <2>2
<1>5. s + p * r \in Nat /\ s + p * r < 2 * p
  BY <1>1, <1>3
<1> DEFINE u == s + p * r
           d == 2 * p
<1>6. u \in Nat /\ d \in Nat \ {0} /\ u < d /\ t \in Nat
  BY <1>2, <1>5
<1> HIDE DEF u, d
<1>7. (u + d * t) % d = u
  BY <1>6, Digits
<1> QED
  BY <1>2, <1>4, <1>7 DEF q, r, s, u, d

-----------------------------------------------------------------------------
(* The bitwise operators.                                                  *)

(* Sums are functions: the recursive one of And exists.                    *)
LEMMA SumExists ==
    ASSUME NEW g, NEW k \in Nat
    PROVE  \E f : f = [n \in 0..k |-> IF n = 0 THEN 0 ELSE f[n - 1] + g[n]]
<1> DEFINE Is(f, j) == f = [n \in 0..j |-> IF n = 0 THEN 0 ELSE f[n - 1] + g[n]]
           T == {j \in Nat : ~\E f : Is(f, j)}
<1>1. ASSUME T # {} PROVE FALSE
  <2>1. PICK m \in T : \A j \in T : m <= j
    BY <1>1, LeastNumber
  <2>2. m \in Nat /\ ~\E f : Is(f, m)
    OBVIOUS
  <2>3. CASE m = 0
    <3> DEFINE f == [n \in 0..0 |-> 0]
    <3>1. Is(f, 0)
      OBVIOUS
    <3> HIDE DEF f, Is
    <3> QED
      BY <2>2, <2>3, <3>1
  <2>4. CASE m # 0
    <3>1. m - 1 \in Nat /\ m - 1 \notin T
      <4> HIDE DEF T
      <4> QED  BY <2>1, <2>2, <2>4
    <3>2. PICK f : Is(f, m - 1)
      <4> HIDE DEF Is
      <4> QED  BY <3>1
    <3> DEFINE h == [n \in 0..m |-> IF n = m THEN f[m - 1] + g[m] ELSE f[n]]
    <3>3. ASSUME NEW n \in 0..m PROVE h[n] = IF n = 0 THEN 0 ELSE h[n - 1] + g[n]
      <4>1. CASE n = m
        BY <2>2, <2>4, <4>1
      <4>2. CASE n # m
        <5>1. n \in 0..(m - 1)
          BY <2>2, <4>2
        <5>2. f[n] = IF n = 0 THEN 0 ELSE f[n - 1] + g[n]
          BY <3>2, <5>1
        <5>3. n # 0 => h[n - 1] = f[n - 1]
          BY <2>2, <5>1
        <5>4. h[n] = f[n]
          BY <4>2
        <5> QED
          BY <5>2, <5>3, <5>4
      <4> QED
        BY <4>1, <4>2
    <3>4. Is(h, m)
      BY <3>3
    <3> HIDE DEF h, Is
    <3> QED
      BY <2>2, <3>4
  <2> QED
    BY <2>3, <2>4
<1> HIDE DEF Is
<1>2. \E f : Is(f, k)
  BY <1>1
<1> QED
  BY <1>2 DEF Is

BitOf(a, n) == (a \div 2^(n - 1)) % 2

LEMMA AndIsSum ==
    ASSUME NEW a, NEW b
    PROVE  \E f : /\ And(a, b) = f[BITS]
                  /\ \A n \in 0..BITS :
                         f[n] = IF n = 0 THEN 0
                                ELSE f[n - 1] + 2^(n - 1) * BitOf(a, n) * BitOf(b, n)
<1> DEFINE Term(n) == 2^(n - 1) * BitOf(a, n) * BitOf(b, n)
           g == [n \in 0..BITS |-> Term(n)]
           Is(f) == f = [n \in 0..BITS |-> IF n = 0 THEN 0 ELSE f[n - 1] + Term(n)]
           f0 == CHOOSE f : Is(f)
<1>1. And(a, b) = f0[BITS]
  BY DEF And, BitOf
<1> HIDE DEF Term
<1>2. PICK f : f = [n \in 0..BITS |-> IF n = 0 THEN 0 ELSE f[n - 1] + g[n]]
  BY WordFacts, SumExists
<1>3. \A n \in 0..BITS : g[n] = Term(n)
  OBVIOUS
<1> HIDE DEF g
<1>4. Is(f)
  <2>1. [n \in 0..BITS |-> IF n = 0 THEN 0 ELSE f[n - 1] + g[n]] =
        [n \in 0..BITS |-> IF n = 0 THEN 0 ELSE f[n - 1] + Term(n)]
    BY <1>3
  <2> QED
    BY <1>2, <2>1
<1> HIDE DEF Is
<1>5. Is(f0)
  BY <1>4, Zenon
<1> HIDE DEF f0
<1>6. \A n \in 0..BITS : f0[n] = IF n = 0 THEN 0 ELSE f0[n - 1] + Term(n)
  <2> DEFINE G == [n \in 0..BITS |-> IF n = 0 THEN 0 ELSE f0[n - 1] + Term(n)]
  <2>1. f0 = G
    BY <1>5 DEF Is
  <2>2. \A n \in 0..BITS : G[n] = IF n = 0 THEN 0 ELSE f0[n - 1] + Term(n)
    BY Zenon
  <2> HIDE DEF G
  <2> QED
    BY <2>1, <2>2, Zenon
<1> QED
  BY <1>1, <1>6, Zenon DEF Term

LEMMA Powers ==
    /\ 2^0 = 1 /\ 2^0 \in Nat \ {0}
    /\ \A n \in 1..BITS : /\ 2^n \in Nat \ {0} /\ 2^(n - 1) \in Nat \ {0}
                          /\ 2^n = 2 * 2^(n - 1)
<1>1. 2^0 = 1 /\ \A n \in 1..BITS : 2^n \in Nat \ {0} /\ 2^n = 2 * 2^(n - 1)
  BY WordAssumption
<1>2. ASSUME NEW n \in 1..BITS PROVE 2^(n - 1) \in Nat \ {0}
  <2>1. CASE n = 1
    BY <1>1, <2>1
  <2>2. CASE n # 1
    <3>1. n - 1 \in 1..BITS
      BY <2>2, WordFacts
    <3> QED
      BY <1>1, <3>1
  <2> QED
    BY <2>1, <2>2
<1> QED
  BY <1>1, <1>2

(* One more bit of a, of b and of what they have in common.                *)
LEMMA OneMoreBit ==
    ASSUME NEW p \in Nat \ {0}, NEW a \in 0..(p - 1), NEW b \in 0..(p - 1), NEW c \in Nat,
           c <= a, c <= b, a + b - c <= p - 1, NEW i \in 0..1, NEW j \in 0..1
    PROVE  /\ c + p * i * j \in Nat
           /\ c + p * i * j <= a + p * i /\ c + p * i * j <= b + p * j
           /\ (a + p * i) + (b + p * j) - (c + p * i * j) <= 2 * p - 1
<1>1. CASE i = 0 /\ j = 0
  BY <1>1
<1>2. CASE i = 1 /\ j = 0
  BY <1>2
<1>3. CASE i = 0 /\ j = 1
  BY <1>3
<1>4. CASE i = 1 /\ j = 1
  BY <1>4
<1> QED
  BY <1>1, <1>2, <1>3, <1>4

LEMMA AndIsCommon ==
    ASSUME NEW a \in Bytes, NEW b \in Bytes
    PROVE  /\ And(a, b) \in Nat /\ And(a, b) <= a /\ And(a, b) <= b
           /\ a + b - And(a, b) <= WORD - 1
<1>1. PICK f : /\ And(a, b) = f[BITS]
               /\ \A n \in 0..BITS :
                      f[n] = IF n = 0 THEN 0
                             ELSE f[n - 1] + 2^(n - 1) * BitOf(a, n) * BitOf(b, n)
  BY AndIsSum
<1>2. a \in 0..(WORD - 1) /\ b \in 0..(WORD - 1)
  BY DEF Bytes
<1> DEFINE Upto(n) == /\ f[n] \in Nat /\ f[n] <= a % 2^n /\ f[n] <= b % 2^n
                      /\ (a % 2^n) + (b % 2^n) - f[n] <= 2^n - 1
           T == {n \in 0..BITS : ~Upto(n)}
<1>3. Upto(0)
  <2>1. f[0] = 0
    BY <1>1, WordFacts
  <2>2. a % 1 = 0 /\ b % 1 = 0
    BY <1>2, WordFacts
  <2> QED
    BY <2>1, <2>2, Powers
<1>4. ASSUME NEW m \in 1..BITS, Upto(m - 1) PROVE Upto(m)
  <2> DEFINE p == 2^(m - 1)
             i == BitOf(a, m)
             j == BitOf(b, m)
             c == f[m - 1]
             low == a % p
             high == b % p
  <2>1. p \in Nat \ {0} /\ 2^m = 2 * p
    BY Powers
  <2>2. f[m] = c + p * i * j
    BY <1>1, WordFacts
  <2>3. c \in Nat /\ c <= low /\ c <= high /\ low + high - c <= p - 1
    BY <1>4
  <2>4. a \in Nat /\ b \in Nat
    BY <1>2, WordFacts
  <2>5. i \in 0..1 /\ j \in 0..1 /\ a % (2 * p) = low + p * i /\ b % (2 * p) = high + p * j
    BY <2>1, <2>4, NextBit DEF BitOf
  <2>6. low \in 0..(p - 1) /\ high \in 0..(p - 1)
    BY <2>1, <2>4, Remainder
  <2> HIDE DEF p, i, j, c, low, high
  <2>7. /\ c + p * i * j \in Nat
        /\ c + p * i * j <= low + p * i /\ c + p * i * j <= high + p * j
        /\ (low + p * i) + (high + p * j) - (c + p * i * j) <= 2 * p - 1
    BY <2>1, <2>3, <2>5, <2>6, OneMoreBit
  <2> QED
    BY <2>1, <2>2, <2>5, <2>7
<1> HIDE DEF Upto
<1>5. ASSUME T # {} PROVE FALSE
  <2>1. T \subseteq Nat
    BY WordFacts
  <2>2. PICK m \in T : \A k \in T : m <= k
    BY <1>5, <2>1, LeastNumber
  <2>3. m \in 0..BITS /\ ~Upto(m)
    OBVIOUS
  <2>4. m # 0
    BY <1>3, <2>3
  <2>5. m \in 1..BITS /\ m - 1 \in 0..BITS
    BY <2>3, <2>4, WordFacts
  <2>6. m - 1 \notin T
    <3> HIDE DEF T
    <3> QED  BY <2>2, <2>3, WordFacts
  <2> QED
    BY <1>4, <2>3, <2>5, <2>6
<1>6. Upto(BITS)
  BY <1>5, WordFacts
<1>7. a % WORD = a /\ b % WORD = b
  BY <1>2, WordFacts
<1> QED
  BY <1>1, <1>6, <1>7, WordFacts DEF Upto

(* What the operators give is a byte.                                      *)
LEMMA BitwiseInBytes ==
    ASSUME NEW a \in Bytes, NEW b \in Bytes
    PROVE  And(a, b) \in Bytes /\ Or(a, b) \in Bytes /\ Xor(a, b) \in Bytes
<1>1. /\ And(a, b) \in Nat /\ And(a, b) <= a /\ And(a, b) <= b
      /\ a + b - And(a, b) <= WORD - 1
  BY AndIsCommon
<1> QED
  BY <1>1, WordFacts DEF Bytes, Or, Xor

-----------------------------------------------------------------------------
(* What the parts of an instruction set, and what they keep.               *)

Registers == {"A", "X", "Y", "sp"}

(* An operand: an immediate one is a byte.                                 *)
IsInfo(i) == i.address \in Addresses /\ (i.mode = "immediate" => i.address \in Bytes)

LEMMA BytesAreAddresses == Bytes \subseteq Addresses
BY WordFacts, SpaceFacts DEF Bytes, Addresses

LEMMA OperandTyped ==
    ASSUME NEW s \in Machine, NEW i, IsInfo(i)
    PROVE  operand(s, i) \in Bytes /\ source(s, i) \in Bytes
BY DEF operand, source, Machine, IsInfo

LEMMA FlagsSet ==
    ASSUME NEW s \in Machine, NEW value \in Int
    PROVE  LET t == setZNFlags(s, value)
           IN  /\ t \in Machine
               /\ t.A = s.A /\ t.X = s.X /\ t.Y = s.Y /\ t.sp = s.sp /\ t.mem = s.mem
               /\ t.C = s.C /\ t.O = s.O
               /\ t.Z = (value = 0) /\ t.N = Negative(value)
<1> DEFINE z == value = 0
           n == Negative(value)
           t == [s EXCEPT !.Z = z, !.N = n]
<1>1. z \in BOOLEAN /\ n \in BOOLEAN
  BY DEF Negative
<1> HIDE DEF z, n
<1>2. t \in Machine /\ t.Z = z /\ t.N = n
  BY <1>1 DEF Machine
<1>3. /\ t.A = s.A /\ t.X = s.X /\ t.Y = s.Y /\ t.sp = s.sp /\ t.mem = s.mem
      /\ t.C = s.C /\ t.O = s.O
  BY DEF Machine
<1>4. setZNFlags(s, value) = t
  BY DEF setZNFlags, z, n
<1> HIDE DEF t
<1> QED
  BY <1>2, <1>3, <1>4 DEF z, n

LEMMA WriteSets ==
    ASSUME NEW s \in Machine, NEW address \in Addresses, NEW value \in Bytes
    PROVE  LET t == write(s, address, value)
           IN  /\ t \in Machine
               /\ t.A = s.A /\ t.X = s.X /\ t.Y = s.Y /\ t.sp = s.sp
               /\ t.C = s.C /\ t.O = s.O
               /\ t.mem[address] = value
               /\ \A at \in Addresses : at # address => t.mem[at] = s.mem[at]
BY DEF write, Machine

LEMMA LoadSets ==
    ASSUME NEW s \in Machine, NEW register \in Registers, NEW value \in Bytes
    PROVE  LET t == load(s, register, value)
           IN  /\ t \in Machine
               /\ t.A = (IF register = "A" THEN value ELSE s.A)
               /\ t.mem = s.mem /\ t.C = s.C /\ t.O = s.O
               /\ t.Z = (value = 0) /\ t.N = Negative(value)
<1> DEFINE u == [s EXCEPT ![register] = value]
<1>1. value \in Int
  BY WordFacts DEF Bytes
<1>2. CASE register = "A"
  <2>1. u \in Machine /\ u.A = value /\ u.mem = s.mem /\ u.C = s.C /\ u.O = s.O
    BY <1>2 DEF Machine
  <2> HIDE DEF u
  <2>2. setZNFlags(u, value) \in Machine
    BY <1>1, <2>1, FlagsSet
  <2> QED
    BY <1>1, <1>2, <2>1, FlagsSet DEF load, u
<1>3. CASE register # "A"
  <2>1. u \in Machine /\ u.A = s.A /\ u.mem = s.mem /\ u.C = s.C /\ u.O = s.O
    BY <1>3 DEF Machine, Registers
  <2> HIDE DEF u
  <2> QED
    BY <1>1, <1>3, <2>1, FlagsSet DEF load, u
<1> QED
  BY <1>2, <1>3

LEMMA StoreSets ==
    ASSUME NEW s \in Machine, NEW i, IsInfo(i), NEW value \in Bytes
    PROVE  LET t == store(s, i, value)
           IN  /\ t \in Machine
               /\ t.C = s.C /\ t.O = s.O
               /\ t.Z = (value = 0) /\ t.N = Negative(value)
               /\ source(t, i) = value
               /\ i.mode # "accumulator" => t.mem[i.address] = value /\ t.A = s.A
               /\ \A at \in Addresses :
                      at # i.address \/ i.mode = "accumulator" => t.mem[at] = s.mem[at]
<1>1. value \in Int /\ i.address \in Addresses
  BY WordFacts DEF Bytes, IsInfo
<1>2. CASE i.mode = "accumulator"
  <2> DEFINE u == [s EXCEPT !.A = value]
  <2>1. u \in Machine /\ u.A = value /\ u.mem = s.mem /\ u.C = s.C /\ u.O = s.O
    BY DEF Machine
  <2>2. store(s, i, value) = setZNFlags(u, value)
    BY <1>2 DEF store
  <2> HIDE DEF u
  <2> QED
    BY <1>1, <1>2, <2>1, <2>2, FlagsSet DEF source
<1>3. CASE i.mode # "accumulator"
  <2> DEFINE u == write(s, i.address, value)
  <2>1. /\ u \in Machine /\ u.A = s.A /\ u.C = s.C /\ u.O = s.O
        /\ u.mem[i.address] = value
        /\ \A at \in Addresses : at # i.address => u.mem[at] = s.mem[at]
    BY <1>1, WriteSets
  <2>2. store(s, i, value) = setZNFlags(u, value)
    BY <1>3 DEF store
  <2> HIDE DEF u
  <2> QED
    BY <1>1, <1>3, <2>1, <2>2, FlagsSet DEF source
<1> QED
  BY <1>2, <1>3

-----------------------------------------------------------------------------
(* Arithmetic.                                                             *)

(* A sum of two bytes and a carry, in one byte and a carry; the overflow   *)
(* told from the signs is the overflow of the signed sum.                  *)
LEMMA SumOfBytes ==
    ASSUME NEW a \in Bytes, NEW v \in Bytes, NEW c \in 0..1, NEW temp \in Int, NEW result \in Int,
           temp = a + v + c, result = temp % WORD
    PROVE  /\ result \in Bytes
           /\ result = IF temp >= WORD THEN temp - WORD ELSE temp
           /\ (Negative(a) = Negative(v) /\ Negative(result) # Negative(a))
                  = Overflows(Signed(a) + Signed(v) + c)
<1>1. a \in 0..(WORD - 1) /\ v \in 0..(WORD - 1)
  BY DEF Bytes
<1>2. temp \in 0..(2 * WORD - 1)
  BY <1>1, WordFacts
<1>3. result = IF temp >= WORD THEN temp - WORD ELSE temp
  <2>1. temp \in (-WORD)..(2 * WORD - 1) /\ ~(temp < 0)
    BY <1>2, WordFacts
  <2> QED
    BY <2>1, WordFacts, OneWrap
<1>4. result \in Bytes
  BY <1>2, <1>3, WordFacts DEF Bytes
<1>5. Negative(a) = Negative(v) /\ Negative(result) # Negative(a)
          <=> Overflows(Signed(a) + Signed(v) + c)
  BY <1>1, <1>3, WordFacts DEF Negative, Overflows, Signed
<1> QED
  BY <1>3, <1>4, <1>5 DEF Overflows, Negative

LEMMA BitTyped ==
    ASSUME NEW flag \in BOOLEAN
    PROVE  /\ Bit(flag) \in 0..1 /\ (Bit(flag) = 1 <=> flag)
           /\ WORD * Bit(flag) = (IF flag THEN WORD ELSE 0)
           /\ WORD * Bit(~flag) = (IF flag THEN 0 ELSE WORD)
           /\ Bit(~flag) = 1 - Bit(flag)
           /\ HALF * Bit(flag) = (IF flag THEN HALF ELSE 0)
BY WordFacts DEF Bit

LEMMA AdcSets ==
    ASSUME NEW s \in Machine, NEW i, IsInfo(i)
    PROVE  LET t == adc(s, i)
           IN  /\ t \in Machine /\ t.mem = s.mem
               /\ t.A + WORD * Bit(t.C) = s.A + operand(s, i) + Bit(s.C)
               /\ t.O = Overflows(Signed(s.A) + Signed(operand(s, i)) + Bit(s.C))
<1> DEFINE value  == operand(s, i)
           temp   == s.A + value + Bit(s.C)
           result == temp % WORD
           overflow == /\ Negative(s.A) = Negative(value)
                       /\ Negative(result) # Negative(s.A)
           carry == temp >= WORD
           u == [s EXCEPT !.C = carry, !.O = overflow]
<1>1. s.A \in Bytes /\ s.C \in BOOLEAN /\ value \in Bytes /\ Bit(s.C) \in 0..1
  BY OperandTyped, BitTyped DEF Machine
<1>2. /\ result \in Bytes
      /\ result = IF temp >= WORD THEN temp - WORD ELSE temp
      /\ overflow = Overflows(Signed(s.A) + Signed(value) + Bit(s.C))
  <2> DEFINE v == value
             c == Bit(s.C)
             m == temp
             r == result
             sA == s.A
  <2>1. sA \in Bytes /\ v \in Bytes /\ c \in 0..1 /\ m = sA + v + c /\ r = m % WORD
    BY <1>1
  <2>0. m \in Int /\ r \in Int
    BY <1>1, WordFacts DEF Bytes
  <2> HIDE DEF v, c, m, r, sA
  <2>2. /\ r \in Bytes
        /\ r = IF m >= WORD THEN m - WORD ELSE m
        /\ (Negative(sA) = Negative(v) /\ Negative(r) # Negative(sA))
               = Overflows(Signed(sA) + Signed(v) + c)
    BY <2>0, <2>1, SumOfBytes
  <2> QED
    BY <2>2 DEF v, c, m, r, sA
<1>3. temp \in Int
  BY <1>1, WordFacts DEF Bytes
<1>4. overflow \in BOOLEAN /\ carry \in BOOLEAN
  OBVIOUS
<1>5. adc(s, i) = load(u, "A", result)
  BY DEF adc
<1>6. result + WORD * Bit(carry) = temp
  <2>1. WORD * Bit(carry) = IF carry THEN WORD ELSE 0
    BY <1>4, BitTyped
  <2> HIDE DEF result, temp
  <2> QED
    BY <1>2, <1>3, <2>1, WordFacts
<1> HIDE DEF overflow, carry, result
<1>7. u \in Machine /\ u.mem = s.mem /\ u.C = carry /\ u.O = overflow
  BY <1>4 DEF Machine
<1> HIDE DEF u
<1>8. LET t == load(u, "A", result)
      IN  t \in Machine /\ t.A = result /\ t.mem = u.mem /\ t.C = u.C /\ t.O = u.O
  <2>1. result \in Bytes /\ u \in Machine /\ "A" \in Registers
    BY <1>2, <1>7 DEF Registers
  <2> QED
    BY <2>1, LoadSets
<1> QED
  BY <1>2, <1>5, <1>6, <1>7, <1>8

(* Adding the complement subtracts. *)
LEMMA SbcSets ==
    ASSUME NEW s \in Machine, NEW i, IsInfo(i)
    PROVE  LET t == sbc(s, i)
           IN  /\ t \in Machine /\ t.mem = s.mem
               /\ t.A - WORD * Bit(~t.C) = s.A - operand(s, i) - Bit(~s.C)
               /\ t.O = Overflows(Signed(s.A) - Signed(operand(s, i)) - Bit(~s.C))
<1> DEFINE v == operand(s, i)
           complement == WORD - 1 - v
           j == [mode |-> "immediate", address |-> complement]
           t == adc(s, j)
<1>1. v \in 0..(WORD - 1) /\ s.A \in 0..(WORD - 1) /\ s.C \in BOOLEAN
  BY OperandTyped DEF Machine, Bytes
<1>2. complement \in 0..(WORD - 1)
  BY <1>1, WordFacts
<1>3. IsInfo(j) /\ operand(s, j) = complement
  <2>1. complement \in Bytes /\ complement \in Addresses
    BY <1>2, BytesAreAddresses DEF Bytes
  <2> HIDE DEF complement
  <2>2. j.mode = "immediate" /\ j.address = complement
    OBVIOUS
  <2> HIDE DEF j
  <2> QED
    BY <2>1, <2>2 DEF IsInfo, operand
<1>4. sbc(s, i) = t
  BY DEF sbc
<1> HIDE DEF v
<1>5. Signed(complement) = -1 - Signed(v)
  BY <1>1, WordFacts DEF Signed, Negative
<1> HIDE DEF complement, j
<1>6. /\ t \in Machine /\ t.mem = s.mem
      /\ t.A + WORD * Bit(t.C) = s.A + complement + Bit(s.C)
      /\ t.O = Overflows(Signed(s.A) + Signed(complement) + Bit(s.C))
  BY <1>3, AdcSets
<1> HIDE DEF t
<1>7. t.C \in BOOLEAN /\ t.A \in 0..(WORD - 1)
  BY <1>6 DEF Machine, Bytes
<1>8. /\ WORD * Bit(t.C) = (IF t.C THEN WORD ELSE 0)
      /\ WORD * Bit(~t.C) = (IF t.C THEN 0 ELSE WORD)
      /\ Bit(~s.C) = 1 - Bit(s.C) /\ Bit(s.C) \in 0..1
  BY <1>1, <1>7, BitTyped
<1>9. t.A - WORD * Bit(~t.C) = s.A - v - Bit(~s.C)
  <2>1. t.A + WORD * Bit(t.C) = s.A + (WORD - 1 - v) + Bit(s.C)
    BY <1>6 DEF complement
  <2> DEFINE P == WORD * Bit(t.C)
             Q == WORD * Bit(~t.C)
             c == Bit(s.C)
             n == Bit(~s.C)
  <2>2. P + Q = WORD /\ P \in Int /\ Q \in Int
    BY <1>7, <1>8, WordFacts
  <2>3. t.A + P = s.A + (WORD - 1 - v) + c /\ c \in Int /\ n = 1 - c
    BY <1>8, <2>1
  <2> HIDE DEF P, Q, c, n
  <2>4. t.A - Q = s.A - v - n
    BY <1>1, <1>7, <2>2, <2>3, WordFacts
  <2> QED
    BY <2>4 DEF Q, n
<1>10. Signed(s.A) \in Int /\ Signed(v) \in Int
  BY <1>1, WordFacts DEF Signed
<1>11. Signed(s.A) + Signed(complement) + Bit(s.C) = Signed(s.A) - Signed(v) - Bit(~s.C)
  BY <1>5, <1>8, <1>10
<1> QED
  BY <1>4, <1>6, <1>9, <1>11 DEF v

LEMMA CompareSets ==
    ASSUME NEW s \in Machine, NEW i, IsInfo(i), NEW register \in Registers
    PROVE  LET t == compare(s, register, i)
               v == operand(s, i)
           IN  /\ t \in Machine /\ t.mem = s.mem
               /\ t.C = (s[register] >= v) /\ t.Z = (s[register] = v)
               /\ t.N = Negative((s[register] - v) % WORD)
<1> DEFINE v == operand(s, i)
           r == s[register]
           difference == r - v
           carry == difference >= 0
           u == [s EXCEPT !.C = carry]
<1>1. r \in 0..(WORD - 1) /\ v \in 0..(WORD - 1)
  BY OperandTyped DEF Machine, Bytes, Registers
<1>2. compare(s, register, i) = setZNFlags(u, difference % WORD)
  BY DEF compare
<1> HIDE DEF r, v
<1>3. difference \in (-WORD)..(2 * WORD - 1) /\ (carry <=> r >= v)
  BY <1>1, WordFacts
<1>4. difference % WORD = 0 <=> r = v
  <2>1. difference % WORD = IF difference < 0 THEN difference + WORD
                            ELSE IF difference >= WORD THEN difference - WORD ELSE difference
    BY <1>3, WordFacts, OneWrap
  <2> QED
    BY <1>1, <2>1, WordFacts
<1>5. difference % WORD \in Int
  BY <1>3, WordFacts
<1>6. carry \in BOOLEAN /\ carry = (r >= v)
  BY <1>3
<1> HIDE DEF carry, difference
<1>7. u \in Machine /\ u.mem = s.mem /\ u.C = carry
  BY <1>6 DEF Machine
<1> HIDE DEF u
<1>8. LET t == setZNFlags(u, difference % WORD)
      IN  /\ t \in Machine /\ t.mem = u.mem /\ t.C = u.C
          /\ t.Z = (difference % WORD = 0) /\ t.N = Negative(difference % WORD)
  BY <1>5, <1>7, FlagsSet
<1> QED
  BY <1>2, <1>4, <1>6, <1>7, <1>8 DEF r, v, difference

-----------------------------------------------------------------------------
(* Shifts.                                                                 *)

LEMMA LeftShift ==
    ASSUME NEW old \in Bytes, NEW in \in BOOLEAN
    PROVE  LET double == (2 * old) % WORD
               new == double + Bit(in)
           IN  /\ double \in Bytes /\ new \in Bytes
               /\ double + WORD * Bit(Negative(old)) = 2 * old
               /\ new + WORD * Bit(Negative(old)) = 2 * old + Bit(in)
<1> DEFINE double == (2 * old) % WORD
<1>1. old \in 0..(WORD - 1)
  BY DEF Bytes
<1>2. 2 * old \in (-WORD)..(2 * WORD - 1) /\ ~(2 * old < 0)
  BY <1>1, WordFacts
<1>3. double = IF 2 * old >= WORD THEN 2 * old - WORD ELSE 2 * old
  <2> DEFINE n == 2 * old
  <2>1. n \in (-WORD)..(2 * WORD - 1) /\ ~(n < 0)
    BY <1>2
  <2> HIDE DEF n
  <2>2. n % WORD = IF n >= WORD THEN n - WORD ELSE n
    BY <2>1, WordFacts, OneWrap
  <2> QED
    BY <2>2 DEF n
<1>4. Negative(old) <=> 2 * old >= WORD
  BY <1>1, WordFacts DEF Negative
<1>5. WORD * Bit(Negative(old)) = IF 2 * old >= WORD THEN WORD ELSE 0
  BY <1>4, WordFacts DEF Bit
<1>6. Bit(in) \in 0..1
  BY BitTyped
<1> HIDE DEF double
<1>7. double \in Bytes /\ double + Bit(in) \in Bytes
  BY <1>1, <1>3, <1>6, WordFacts DEF Bytes
<1>8. double + WORD * Bit(Negative(old)) = 2 * old
  BY <1>1, <1>3, <1>5, WordFacts
<1> DEFINE out == WORD * Bit(Negative(old))
<1>9. out \in Int
  BY <1>5, WordFacts
<1>10. double + Bit(in) + out = 2 * old + Bit(in)
  <2> DEFINE c == Bit(in)
  <2>1. double \in Int /\ c \in Int /\ double + out = 2 * old
    BY <1>1, <1>3, <1>6, <1>8, WordFacts
  <2> HIDE DEF out, c
  <2>2. double + c + out = 2 * old + c
    BY <1>9, <2>1
  <2> QED
    BY <2>2 DEF c
<1> QED
  BY <1>7, <1>8, <1>10 DEF double

LEMMA RightShift ==
    ASSUME NEW old \in Bytes, NEW in \in BOOLEAN
    PROVE  LET half == old \div 2
               new == half + HALF * Bit(in)
           IN  /\ half \in Bytes /\ new \in Bytes
               /\ 2 * half + Bit(old % 2 = 1) = old
               /\ 2 * new + Bit(old % 2 = 1) = old + WORD * Bit(in)
<1> DEFINE half == old \div 2
           c == Bit(old % 2 = 1)
           p == HALF * Bit(in)
           q == WORD * Bit(in)
<1>1. old \in 0..(WORD - 1)
  BY DEF Bytes
<1>2. half \in Nat /\ half < HALF /\ 2 * half + (old % 2) = old /\ old % 2 \in 0..1
  BY <1>1, WordFacts
<1>3. c = old % 2
  BY <1>2 DEF Bit
<1>4. p \in 0..HALF /\ q = 2 * p
  BY BitTyped, WordFacts
<1> HIDE DEF half, c, p, q
<1>5. half \in Bytes /\ half + p \in Bytes
  BY <1>2, <1>4, WordFacts DEF Bytes
<1>6. 2 * half + c = old /\ 2 * (half + p) + c = old + q
  BY <1>1, <1>2, <1>3, <1>4, WordFacts
<1> QED
  BY <1>5, <1>6 DEF half, c, p, q

ShiftOf(name, s, i) ==
    CASE name = "asl" -> asl(s, i) [] name = "lsr" -> lsr(s, i)
      [] name = "rol" -> rol(s, i) [] name = "ror" -> ror(s, i)

WritesOnly(s, t, address) ==
    \A at \in Addresses : at # address => t.mem[at] = s.mem[at]

(* A shift of any kind: storing the new byte of a machine whose carry is   *)
(* the bit that left.                                                      *)
LEMMA ShiftStores ==
    ASSUME NEW s \in Machine, NEW i, IsInfo(i), NEW out \in BOOLEAN, NEW value \in Bytes
    PROVE  LET t == store([s EXCEPT !.C = out], i, value)
           IN  /\ t \in Machine /\ t.C = out /\ source(t, i) = value
               /\ t.Z = (value = 0) /\ t.N = Negative(value)
               /\ i.mode # "accumulator" => t.mem[i.address] = value /\ t.A = s.A
               /\ WritesOnly(s, t, i.address)
<1> DEFINE u == [s EXCEPT !.C = out]
<1>1. u \in Machine /\ u.A = s.A /\ u.mem = s.mem /\ u.C = out
  BY DEF Machine
<1> HIDE DEF u
<1>2. LET t == store(u, i, value)
      IN  /\ t \in Machine
          /\ t.C = u.C
          /\ t.Z = (value = 0) /\ t.N = Negative(value)
          /\ source(t, i) = value
          /\ i.mode # "accumulator" => t.mem[i.address] = value /\ t.A = u.A
          /\ \A at \in Addresses :
                 at # i.address \/ i.mode = "accumulator" => t.mem[at] = u.mem[at]
  BY <1>1, StoreSets
<1> QED
  BY <1>1, <1>2 DEF u, WritesOnly

LEMMA ShiftSets ==
    ASSUME NEW s \in Machine, NEW i, IsInfo(i), NEW name \in Shifts
    PROVE  LET t == ShiftOf(name, s, i)
           IN  /\ t \in Machine
               /\ IsShift(name, source(s, i), source(t, i), s.C, t.C)
               /\ t.Z = (source(t, i) = 0) /\ t.N = Negative(source(t, i))
               /\ name \in {"lsr", "ror"} => t.C = (source(s, i) % 2 = 1)
               /\ i.mode # "accumulator" => t.mem[i.address] = source(t, i) /\ t.A = s.A
               /\ WritesOnly(s, t, i.address)
<1> DEFINE old == source(s, i)
           left == Negative(old)
           right == old % 2 = 1
           double == (2 * old) % WORD
           half == old \div 2
           in == s.C
<1>1. old \in Bytes /\ in \in BOOLEAN /\ left \in BOOLEAN /\ right \in BOOLEAN
  BY OperandTyped DEF Machine, Negative
<1>2. /\ double \in Bytes /\ double + Bit(in) \in Bytes
      /\ double + WORD * Bit(left) = 2 * old
      /\ double + Bit(in) + WORD * Bit(left) = 2 * old + Bit(in)
  <2> HIDE DEF old, in
  <2> QED  BY <1>1, LeftShift
<1>3. /\ half \in Bytes /\ half + HALF * Bit(in) \in Bytes
      /\ 2 * half + Bit(right) = old
      /\ 2 * (half + HALF * Bit(in)) + Bit(right) = old + WORD * Bit(in)
  <2> HIDE DEF old, in
  <2> QED  BY <1>1, RightShift
<1> DEFINE rolled == double + Bit(in)
           rored == half + HALF * Bit(in)
           Result(t, out, value) ==
               /\ t \in Machine /\ t.C = out /\ source(t, i) = value
               /\ t.Z = (value = 0) /\ t.N = Negative(value)
               /\ i.mode # "accumulator" => t.mem[i.address] = value /\ t.A = s.A
               /\ WritesOnly(s, t, i.address)
<1>4. CASE name = "asl"
  <2> DEFINE t == store([s EXCEPT !.C = left], i, double)
  <2>1. ShiftOf(name, s, i) = t
    BY <1>4 DEF ShiftOf, asl
  <2> HIDE DEF old, left, double, in
  <2>2. Result(t, left, double)
    BY <1>1, <1>2, ShiftStores
  <2> HIDE DEF t
  <2>3. IsShift(name, old, double, in, left)
    BY <1>2, <1>4 DEF IsShift
  <2> QED
    BY <1>4, <2>1, <2>2, <2>3 DEF old, in
<1>5. CASE name = "rol"
  <2> DEFINE t == store([s EXCEPT !.C = left], i, rolled)
  <2>1. ShiftOf(name, s, i) = t
    BY <1>5 DEF ShiftOf, rol
  <2>4. rolled \in Bytes /\ rolled + WORD * Bit(left) = 2 * old + Bit(in)
    BY <1>2
  <2> HIDE DEF old, left, in, rolled
  <2>2. Result(t, left, rolled)
    BY <1>1, <2>4, ShiftStores
  <2> HIDE DEF t
  <2>3. IsShift(name, old, rolled, in, left)
    BY <2>4, <1>5 DEF IsShift
  <2> QED
    BY <1>5, <2>1, <2>2, <2>3 DEF old, in
<1>6. CASE name = "lsr"
  <2> DEFINE t == store([s EXCEPT !.C = right], i, half)
  <2>1. ShiftOf(name, s, i) = t
    BY <1>6 DEF ShiftOf, lsr
  <2> HIDE DEF old, right, half, in
  <2>2. Result(t, right, half)
    BY <1>1, <1>3, ShiftStores
  <2> HIDE DEF t
  <2>3. IsShift(name, old, half, in, right)
    BY <1>3, <1>6 DEF IsShift
  <2> QED
    BY <1>6, <2>1, <2>2, <2>3 DEF old, in, right
<1>7. CASE name = "ror"
  <2> DEFINE t == store([s EXCEPT !.C = right], i, rored)
  <2>1. ShiftOf(name, s, i) = t
    BY <1>7 DEF ShiftOf, ror
  <2>4. rored \in Bytes /\ 2 * rored + Bit(right) = old + WORD * Bit(in)
    BY <1>3
  <2> HIDE DEF old, right, in, rored
  <2>2. Result(t, right, rored)
    BY <1>1, <2>4, ShiftStores
  <2> HIDE DEF t
  <2>3. IsShift(name, old, rored, in, right)
    BY <2>4, <1>7 DEF IsShift
  <2> QED
    BY <1>7, <2>1, <2>2, <2>3 DEF old, in, right
<1> QED
  BY <1>4, <1>5, <1>6, <1>7 DEF Shifts

-----------------------------------------------------------------------------
(* The other instructions.                                                 *)

(* One more or one less, in a byte.                                        *)
LEMMA Wraps ==
    ASSUME NEW a \in Bytes, NEW n \in {-1, 1}
    PROVE  /\ (a + n) % WORD \in Bytes
           /\ n = -1 => (((a + n) % WORD) + 1) % WORD = a
<1> DEFINE b == (a + n) % WORD
<1>1. a \in 0..(WORD - 1)
  BY DEF Bytes
<1>2. b = IF a + n < 0 THEN a + n + WORD ELSE IF a + n >= WORD THEN a + n - WORD ELSE a + n
  <2> DEFINE m == a + n
  <2>1. m \in (-WORD)..(2 * WORD - 1)
    BY <1>1, WordFacts
  <2> HIDE DEF m
  <2>2. m % WORD = IF m < 0 THEN m + WORD ELSE IF m >= WORD THEN m - WORD ELSE m
    BY <2>1, WordFacts, OneWrap
  <2> QED
    BY <1>1, <2>2, WordFacts DEF m
<1> HIDE DEF b
<1>3. b \in 0..(WORD - 1)
  BY <1>1, <1>2, WordFacts
<1>4. ASSUME n = -1 PROVE (b + 1) % WORD = a
  <2> DEFINE m == b + 1
  <2>1. m \in (-WORD)..(2 * WORD - 1)
    BY <1>3, WordFacts
  <2> HIDE DEF m
  <2>2. m % WORD = IF m < 0 THEN m + WORD ELSE IF m >= WORD THEN m - WORD ELSE m
    BY <2>1, WordFacts, OneWrap
  <2> QED
    BY <1>1, <1>2, <1>3, <1>4, <2>2, WordFacts DEF m
<1> QED
  BY <1>3, <1>4 DEF b, Bytes

LEMMA AddSets ==
    ASSUME NEW s \in Machine, NEW i, IsInfo(i), NEW n \in {-1, 1}
    PROVE  LET t == add(s, i, n)
           IN  /\ t \in Machine /\ t.A = s.A /\ t.C = s.C
               /\ t.mem[i.address] = (s.mem[i.address] + n) % WORD
               /\ WritesOnly(s, t, i.address)
<1> DEFINE temp == (s.mem[i.address] + n) % WORD
           u == write(s, i.address, temp)
<1>1. i.address \in Addresses /\ s.mem[i.address] \in Bytes
  BY DEF IsInfo, Machine
<1>2. temp \in Bytes
  <2> DEFINE a == s.mem[i.address]
  <2>1. a \in Bytes
    BY <1>1
  <2> HIDE DEF a
  <2>2. (a + n) % WORD \in Bytes
    BY <2>1, Wraps
  <2> QED
    BY <2>2 DEF a
<1>3. add(s, i, n) = setZNFlags(u, temp)
  BY DEF add
<1> HIDE DEF temp
<1>4. temp \in Int
  BY <1>2, WordFacts DEF Bytes
<1>5. /\ u \in Machine /\ u.A = s.A /\ u.C = s.C /\ u.mem[i.address] = temp
      /\ \A at \in Addresses : at # i.address => u.mem[at] = s.mem[at]
  BY <1>1, <1>2, WriteSets
<1> HIDE DEF u
<1>6. LET t == setZNFlags(u, temp)
      IN  t \in Machine /\ t.A = u.A /\ t.C = u.C /\ t.mem = u.mem
  BY <1>4, <1>5, FlagsSet
<1> QED
  BY <1>3, <1>5, <1>6 DEF WritesOnly, temp

LEMMA BitwiseSets ==
    ASSUME NEW s \in Machine, NEW i, IsInfo(i),
           NEW t \in {_and(s, i), ora(s, i), eor(s, i)}
    PROVE  t \in Machine /\ t.mem = s.mem /\ t.C = s.C
<1>1. s.A \in Bytes /\ operand(s, i) \in Bytes /\ "A" \in Registers
  BY OperandTyped DEF Machine, Registers
<1>2. \A v \in Bytes : LET u == load(s, "A", v)
                       IN  u \in Machine /\ u.mem = s.mem /\ u.C = s.C
  BY <1>1, LoadSets
<1>3. /\ And(s.A, operand(s, i)) \in Bytes /\ Or(s.A, operand(s, i)) \in Bytes
      /\ Xor(s.A, operand(s, i)) \in Bytes
  <2> DEFINE a == s.A
             b == operand(s, i)
  <2>1. a \in Bytes /\ b \in Bytes
    BY <1>1
  <2> HIDE DEF a, b
  <2>2. And(a, b) \in Bytes /\ Or(a, b) \in Bytes /\ Xor(a, b) \in Bytes
    BY <2>1, BitwiseInBytes
  <2> QED
    BY <2>2 DEF a, b
<1> QED
  BY <1>2, <1>3 DEF _and, ora, eor

LEMMA BitwiseResult ==
    ASSUME NEW s \in Machine, NEW i, IsInfo(i)
    PROVE  /\ _and(s, i).A = And(s.A, operand(s, i))
           /\ ora(s, i).A = Or(s.A, operand(s, i))
           /\ eor(s, i).A = Xor(s.A, operand(s, i))
<1>1. \A v : load(s, "A", v).A = v
  BY DEF load, setZNFlags, Machine
<1> QED
  BY <1>1 DEF _and, ora, eor

LEMMA CountSets ==
    ASSUME NEW s \in Machine, NEW register \in {"X", "Y"}, NEW n \in {-1, 1}
    PROVE  count(s, register, n) \in Machine /\ count(s, register, n).mem = s.mem
<1> DEFINE a == s[register]
           value == (a + n) % WORD
<1>1. a \in Bytes /\ register \in Registers
  BY DEF Machine, Registers
<1> HIDE DEF a
<1>2. value \in Bytes
  BY <1>1, Wraps
<1>3. count(s, register, n) = load(s, register, value)
  BY DEF count, a
<1> HIDE DEF value
<1> QED
  BY <1>1, <1>2, <1>3, LoadSets

LEMMA BitSets ==
    ASSUME NEW s \in Machine, NEW i
    PROVE  bit(s, i) \in Machine /\ bit(s, i).mem = s.mem
<1> DEFINE tmp == s.mem[i.address]
           n == Negative(tmp)
           o == (tmp \div (HALF \div 2)) % 2 = 1
           z == And(tmp, s.A) = 0
           t == [s EXCEPT !.N = n, !.O = o, !.Z = z]
<1>1. n \in BOOLEAN /\ o \in BOOLEAN /\ z \in BOOLEAN
  BY DEF Negative
<1>2. bit(s, i) = t
  BY DEF bit
<1> HIDE DEF n, o, z
<1>3. t \in Machine /\ t.mem = s.mem
  BY <1>1 DEF Machine
<1> QED
  BY <1>2, <1>3

LEMMA ShiftedStoreSets ==
    ASSUME NEW s \in Machine, NEW i, IsInfo(i), NEW register \in {"X", "Y"}
    PROVE  LET t == shiftedStore(s, register, i)
           IN  t \in Machine /\ WritesOnly(s, t, i.address)
<1> DEFINE a == s[register]
           m == s.mem[i.address]
           b == (m \div HALF) + 1
<1>1. a \in Bytes /\ m \in Bytes /\ i.address \in Addresses
  BY DEF Machine, IsInfo
<1> HIDE DEF m
<1>2. b \in Bytes
  <2>1. m \in 0..(2 * HALF - 1) /\ HALF \in Nat /\ HALF > 1
    BY <1>1, WordFacts DEF Bytes
  <2>2. m \div HALF \in 0..1
    <3> DEFINE r == m % HALF
               q == m \div HALF
    <3>0. m \in Nat /\ HALF \in Nat \ {0}
      BY <2>1
    <3>1. q \in Nat /\ r \in 0..(HALF - 1) /\ m = r + HALF * q
      BY <3>0, Rebuild
    <3> HIDE DEF q, r
    <3>2. ASSUME q >= 2 PROVE FALSE
      <4>1. HALF * q >= HALF * 2
        BY <2>1, <3>1, <3>2
      <4> QED
        BY <2>1, <3>1, <4>1
    <3>3. q \in 0..1
      BY <3>1, <3>2
    <3> QED
      BY <3>3 DEF q
  <2> QED
    BY <2>1, <2>2, WordFacts DEF Bytes
<1> HIDE DEF a, b
<1>3. And(a, b) \in Bytes
  BY <1>1, <1>2, BitwiseInBytes
<1>4. shiftedStore(s, register, i) = write(s, i.address, And(a, b))
  BY DEF shiftedStore, a, b, m
<1> DEFINE value == And(a, b)
           address == i.address
           t == write(s, address, value)
<1>5. value \in Bytes /\ address \in Addresses
  BY <1>1, <1>3
<1> HIDE DEF value, address
<1>6. t \in Machine /\ WritesOnly(s, t, address)
  BY <1>5, WriteSets DEF WritesOnly
<1> QED
  BY <1>4, <1>6 DEF value, address

LEMMA StackAddressed ==
    ASSUME NEW s \in Machine
    PROVE  StackTop(s) \in Addresses /\ StackTop(s) \in WORD..(2 * WORD - 1)
<1>1. s.sp \in 0..(WORD - 1)
  BY DEF Machine, Bytes
<1> QED
  BY <1>1, WordFacts, SpaceFacts DEF StackTop, Addresses

LEMMA PushSets ==
    ASSUME NEW s \in Machine
    PROVE  pha(s) \in Machine /\ WritesOnly(s, pha(s), StackTop(s))
<1> DEFINE u == write(s, StackTop(s), s.A)
           sp == (u.sp - 1) % WORD
           t == [u EXCEPT !.sp = sp]
<1>1. s.A \in Bytes
  BY DEF Machine
<1>2. /\ u \in Machine /\ u.sp = s.sp
      /\ \A at \in Addresses : at # StackTop(s) => u.mem[at] = s.mem[at]
  BY <1>1, StackAddressed, WriteSets
<1>3. pha(s) = t
  BY DEF pha
<1> HIDE DEF u
<1>4. sp \in Bytes
  <2> DEFINE n == u.sp - 1
  <2>1. n \in Int
    BY <1>2, WordFacts DEF Machine, Bytes
  <2> HIDE DEF n
  <2>2. n % WORD \in Bytes
    BY <2>1, Remainder, WordFacts DEF Bytes
  <2> QED
    BY <2>2 DEF n
<1> HIDE DEF sp
<1>5. t \in Machine /\ t.mem = u.mem
  BY <1>2, <1>4 DEF Machine
<1> QED
  BY <1>2, <1>3, <1>5 DEF WritesOnly

LEMMA PullSets ==
    ASSUME NEW s \in Machine
    PROVE  pla(s) \in Machine /\ pla(s).mem = s.mem
<1> DEFINE sp == (s.sp + 1) % WORD
           u == [s EXCEPT !.sp = sp]
           v == u.mem[StackTop(u)]
<1>1. sp \in Bytes
  <2> DEFINE n == s.sp + 1
  <2>1. n \in Int
    BY WordFacts DEF Machine, Bytes
  <2> HIDE DEF n
  <2>2. n % WORD \in Bytes
    BY <2>1, Remainder, WordFacts DEF Bytes
  <2> QED
    BY <2>2 DEF n
<1>2. pla(s) = load(u, "A", v)
  BY DEF pla
<1> HIDE DEF sp
<1>3. u \in Machine /\ u.mem = s.mem
  BY <1>1 DEF Machine
<1> HIDE DEF u
<1>4. v \in Bytes /\ "A" \in Registers
  BY <1>3, StackAddressed DEF Machine, Registers
<1> HIDE DEF v
<1> QED
  BY <1>2, <1>3, <1>4, LoadSets

-----------------------------------------------------------------------------
(* What ArithmeticIsInteger says of an instruction that takes the machine  *)
(* s to t.                                                                 *)

Sum(s, t, value, carry) ==
    /\ t.A + WORD * Bit(t.C) = s.A + value + Bit(carry)
    /\ t.O = Overflows(Signed(s.A) + Signed(value) + Bit(carry))

Difference(s, t, value) ==
    /\ t.A - WORD * Bit(~t.C) = s.A - value - Bit(~s.C)
    /\ t.O = Overflows(Signed(s.A) - Signed(value) - Bit(~s.C))

Comparison(t, register, value) ==
    /\ t.C = (register >= value)
    /\ t.Z = (register = value)
    /\ t.N = Negative((register - value) % WORD)

ArithmeticOfTwo(name, s, t, value, new) ==
    /\ name = "isb" => new = (value + 1) % WORD /\ Difference(s, t, new)
    /\ name = "rra" => /\ IsShift("ror", value, new, s.C, value % 2 = 1)
                       /\ Sum(s, t, new, value % 2 = 1)
    /\ name = "dcp" => (new + 1) % WORD = value /\ Comparison(t, s.A, new)
    /\ name = "slo" => IsShift("asl", value, new, s.C, t.C) /\ t.A = Or(s.A, new)
    /\ name = "rla" => IsShift("rol", value, new, s.C, t.C) /\ t.A = And(s.A, new)
    /\ name = "sre" => IsShift("lsr", value, new, s.C, t.C) /\ t.A = Xor(s.A, new)

ArithmeticOfOne(name, s, t, value, old, result) ==
    /\ name = "adc" => Sum(s, t, value, s.C)
    /\ name = "sbc" => Difference(s, t, value)
    /\ name = "cmp" => Comparison(t, s.A, value)
    /\ name = "cpx" => Comparison(t, s.X, value)
    /\ name = "cpy" => Comparison(t, s.Y, value)
    /\ name \in Shifts => /\ IsShift(name, old, result, s.C, t.C)
                          /\ t.Z = (result = 0) /\ t.N = (Signed(result) < 0)

Arithmetic(name, s, i, t) ==
    /\ ArithmeticOfOne(name, s, t, operand(s, i), source(s, i), source(t, i))
    /\ ArithmeticOfTwo(name, s, t, operand(s, i), t.mem[i.address])

Writes(name, s, i, t) ==
    /\ name \in Implied \cup {"nop"} => WritesOnly(s, t, StackTop(s))
    /\ name \notin Implied => WritesOnly(s, t, i.address)

Result(name, s, i, t) ==
    t \in Machine /\ Arithmetic(name, s, i, t) /\ Writes(name, s, i, t)

LEMMA Domains ==
    /\ DOMAIN Compares = {"cmp", "cpx", "cpy"} /\ DOMAIN Loads = {"lda", "ldx", "ldy"}
    /\ DOMAIN RegisterStores = {"sta", "stx", "sty"} /\ DOMAIN ShiftedStores = {"shx", "shy"}
    /\ DOMAIN Clears = {"clc", "cld", "cli", "clv"} /\ DOMAIN Sets = {"sec", "sed", "sei"}
    /\ DOMAIN Increments = {"inx", "iny"} /\ DOMAIN Decrements = {"dex", "dey"}
    /\ DOMAIN Transfers = {"tax", "tay", "tsx", "txa", "tya"}
    /\ DOMAIN BranchesIfSet = {"bcs", "beq", "bmi", "bvs"}
    /\ DOMAIN BranchesIfClear = {"bcc", "bne", "bpl", "bvc"}
BY DEF Compares, Loads, RegisterStores, ShiftedStores, Clears, Sets, Increments, Decrements,
       Transfers, BranchesIfSet, BranchesIfClear

ImpliedNames == {"clc", "cld", "cli", "clv", "sec", "sed", "sei", "inx", "iny", "dex", "dey",
                 "tax", "tay", "tsx", "txa", "tya", "txs", "pha", "pla"}

LEMMA ImpliedAre == Implied = ImpliedNames
BY Domains DEF Implied, ImpliedNames

ArithmeticNames ==
    {"adc", "sbc", "cmp", "cpx", "cpy"} \cup Shifts \cup Composites

LEMMA NoArithmetic ==
    ASSUME NEW name, name \notin ArithmeticNames, NEW s, NEW i, NEW t
    PROVE  Arithmetic(name, s, i, t)
BY DEF ArithmeticNames, Composites, Arithmetic, ArithmeticOfOne, ArithmeticOfTwo

LEMMA KeepsMemory ==
    ASSUME NEW name, NEW s, NEW i, NEW t, t.mem = s.mem
    PROVE  Writes(name, s, i, t)
BY DEF Writes, WritesOnly

LEMMA SumResult ==
    ASSUME NEW s \in Machine, NEW i, IsInfo(i), NEW name \in {"adc", "sbc"}
    PROVE  Result(name, s, i, IF name = "adc" THEN adc(s, i) ELSE sbc(s, i))
<1>1. CASE name = "adc"
  <2> DEFINE t == adc(s, i)
  <2>1. t \in Machine /\ t.mem = s.mem /\ Sum(s, t, operand(s, i), s.C)
    BY AdcSets DEF Sum
  <2> HIDE DEF t
  <2>2. Arithmetic(name, s, i, t)
    BY <1>1, <2>1 DEF Arithmetic, ArithmeticOfOne, ArithmeticOfTwo, Shifts
  <2> QED
    BY <1>1, <2>1, <2>2, KeepsMemory DEF Result, t
<1>2. CASE name = "sbc"
  <2> DEFINE t == sbc(s, i)
  <2>1. t \in Machine /\ t.mem = s.mem /\ Difference(s, t, operand(s, i))
    BY SbcSets DEF Difference
  <2> HIDE DEF t
  <2>2. Arithmetic(name, s, i, t)
    BY <1>2, <2>1 DEF Arithmetic, ArithmeticOfOne, ArithmeticOfTwo, Shifts
  <2> QED
    BY <1>2, <2>1, <2>2, KeepsMemory DEF Result, t
<1> QED
  BY <1>1, <1>2

LEMMA CompareResult ==
    ASSUME NEW s \in Machine, NEW i, IsInfo(i), NEW name \in {"cmp", "cpx", "cpy"}
    PROVE  Result(name, s, i, compare(s, Compares[name], i))
<1> DEFINE register == Compares[name]
           t == compare(s, register, i)
<1>1. register = IF name = "cmp" THEN "A" ELSE IF name = "cpx" THEN "X" ELSE "Y"
  BY DEF Compares
<1>2. register \in Registers
  BY <1>1 DEF Registers
<1> HIDE DEF register
<1>3. t \in Machine /\ t.mem = s.mem /\ Comparison(t, s[register], operand(s, i))
  BY <1>2, CompareSets DEF Comparison
<1> HIDE DEF t
<1>4. /\ name = "cmp" => s[register] = s.A
      /\ name = "cpx" => s[register] = s.X
      /\ name = "cpy" => s[register] = s.Y
  BY <1>1 DEF Machine
<1>5. Arithmetic(name, s, i, t)
  BY <1>3, <1>4 DEF Arithmetic, ArithmeticOfOne, ArithmeticOfTwo, Shifts
<1> QED
  BY <1>3, <1>5, KeepsMemory DEF Result, t, register

LEMMA SignedTell ==
    ASSUME NEW v \in Bytes
    PROVE  Negative(v) = (Signed(v) < 0)
<1>1. v \in 0..(WORD - 1)
  BY DEF Bytes
<1> QED
  BY <1>1, WordFacts DEF Negative, Signed

LEMMA ShiftResult ==
    ASSUME NEW s \in Machine, NEW i, IsInfo(i), NEW name \in Shifts
    PROVE  Result(name, s, i, ShiftOf(name, s, i))
<1> DEFINE t == ShiftOf(name, s, i)
<1>1. /\ t \in Machine
      /\ IsShift(name, source(s, i), source(t, i), s.C, t.C)
      /\ t.Z = (source(t, i) = 0) /\ t.N = Negative(source(t, i))
      /\ WritesOnly(s, t, i.address)
  BY ShiftSets
<1> HIDE DEF t
<1>2. source(t, i) \in Bytes
  BY <1>1, OperandTyped
<1>3. Negative(source(t, i)) = (Signed(source(t, i)) < 0)
  BY <1>2, SignedTell
<1>4. name \in {"asl", "lsr", "rol", "ror"} /\ name \notin Implied \cup {"nop"}
  BY ImpliedAre DEF Shifts, ImpliedNames
<1>5. Arithmetic(name, s, i, t)
  BY <1>1, <1>3, <1>4 DEF Arithmetic, ArithmeticOfOne, ArithmeticOfTwo
<1>6. Writes(name, s, i, t)
  BY <1>1, <1>4 DEF Writes
<1> QED
  BY <1>1, <1>5, <1>6 DEF Result, t
(* A composite: its first half writes the byte at the address and keeps A, *)
(* its second half reads that byte.                                        *)
LEMMA ComposedResult ==
    ASSUME NEW s \in Machine, NEW i, IsInfo(i), NEW name \in Composites,
           i.mode \notin {"accumulator", "immediate"}
    PROVE  Result(name, s, i, Composed(name, s, i))
<1> DEFINE value == s.mem[i.address]
           First(m) == /\ m \in Machine /\ m.A = s.A
                       /\ WritesOnly(s, m, i.address)
           Second(m, t) == t \in Machine /\ t.mem = m.mem
<1>1. /\ operand(s, i) = value /\ source(s, i) = value /\ i.address \in Addresses
      /\ \A m : operand(m, i) = m.mem[i.address] /\ source(m, i) = m.mem[i.address]
  BY DEF operand, source, IsInfo
<1>2. name \notin Implied \cup {"nop"}
  BY ImpliedAre DEF ImpliedNames, Composites
<1>3. ASSUME NEW m, NEW t, First(m), Second(m, t),
             ArithmeticOfTwo(name, s, t, value, m.mem[i.address])
      PROVE  Result(name, s, i, t)
  <2>1. Writes(name, s, i, t)
    BY <1>2, <1>3 DEF Writes, WritesOnly
  <2>2. ArithmeticOfOne(name, s, t, operand(s, i), source(s, i), source(t, i))
    BY DEF ArithmeticOfOne, Composites, Shifts
  <2>3. Arithmetic(name, s, i, t)
    BY <1>1, <1>3, <2>2 DEF Arithmetic
  <2> QED
    BY <1>3, <2>1, <2>3 DEF Result
<1> DEFINE Shifted(shift, m) ==
               /\ First(m) /\ IsShift(shift, value, m.mem[i.address], s.C, m.C)
               /\ shift \in {"lsr", "ror"} => m.C = (value % 2 = 1)
<1>4. ASSUME NEW shift \in Shifts PROVE Shifted(shift, ShiftOf(shift, s, i))
  <2> DEFINE m == ShiftOf(shift, s, i)
  <2>1. /\ m \in Machine
        /\ IsShift(shift, source(s, i), source(m, i), s.C, m.C)
        /\ shift \in {"lsr", "ror"} => m.C = (source(s, i) % 2 = 1)
        /\ i.mode # "accumulator" => m.mem[i.address] = source(m, i) /\ m.A = s.A
        /\ WritesOnly(s, m, i.address)
    BY ShiftSets
  <2> HIDE DEF m
  <2> QED
    BY <1>1, <2>1 DEF m
<1>5. /\ ShiftOf("asl", s, i) = asl(s, i) /\ ShiftOf("lsr", s, i) = lsr(s, i)
      /\ ShiftOf("rol", s, i) = rol(s, i) /\ ShiftOf("ror", s, i) = ror(s, i)
  BY DEF ShiftOf
<1>6. ASSUME NEW m \in Machine, NEW t \in {_and(m, i), ora(m, i), eor(m, i)}
      PROVE  Second(m, t) /\ t.C = m.C
  BY BitwiseSets
<1>7. CASE name = "slo"
  <2> DEFINE m == asl(s, i)
             t == ora(m, i)
  <2>1. Shifted("asl", m)
    BY <1>4, <1>5 DEF Shifts
  <2> HIDE DEF m
  <2>2. Second(m, t) /\ t.C = m.C /\ t.A = Or(s.A, m.mem[i.address])
    BY <1>1, <1>6, <2>1, BitwiseResult
  <2> HIDE DEF t
  <2>3. ArithmeticOfTwo(name, s, t, value, m.mem[i.address])
    BY <1>7, <2>1, <2>2 DEF ArithmeticOfTwo
  <2>4. Composed(name, s, i) = t
    BY <1>7 DEF Composed, m, t
  <2> QED
    BY <1>3, <2>1, <2>2, <2>3, <2>4
<1>8. CASE name = "rla"
  <2> DEFINE m == rol(s, i)
             t == _and(m, i)
  <2>1. Shifted("rol", m)
    BY <1>4, <1>5 DEF Shifts
  <2> HIDE DEF m
  <2>2. Second(m, t) /\ t.C = m.C /\ t.A = And(s.A, m.mem[i.address])
    BY <1>1, <1>6, <2>1, BitwiseResult
  <2> HIDE DEF t
  <2>3. ArithmeticOfTwo(name, s, t, value, m.mem[i.address])
    BY <1>8, <2>1, <2>2 DEF ArithmeticOfTwo
  <2>4. Composed(name, s, i) = t
    BY <1>8 DEF Composed, m, t
  <2> QED
    BY <1>3, <2>1, <2>2, <2>3, <2>4
<1>9. CASE name = "sre"
  <2> DEFINE m == lsr(s, i)
             t == eor(m, i)
  <2>1. Shifted("lsr", m)
    BY <1>4, <1>5 DEF Shifts
  <2> HIDE DEF m
  <2>2. Second(m, t) /\ t.C = m.C /\ t.A = Xor(s.A, m.mem[i.address])
    BY <1>1, <1>6, <2>1, BitwiseResult
  <2> HIDE DEF t
  <2>3. ArithmeticOfTwo(name, s, t, value, m.mem[i.address])
    BY <1>9, <2>1, <2>2 DEF ArithmeticOfTwo
  <2>4. Composed(name, s, i) = t
    BY <1>9 DEF Composed, m, t
  <2> QED
    BY <1>3, <2>1, <2>2, <2>3, <2>4
<1>10. CASE name = "rra"
  <2> DEFINE m == ror(s, i)
             t == adc(m, i)
             new == m.mem[i.address]
             carry == value % 2 = 1
  <2>1. Shifted("ror", m)
    BY <1>4, <1>5 DEF Shifts
  <2> HIDE DEF m
  <2>2. Second(m, t) /\ Sum(m, t, new, m.C)
    BY <1>1, <2>1, AdcSets DEF Sum
  <2> HIDE DEF t, new
  <2>3. m.A = s.A /\ m.C = carry
    BY <2>1
  <2>4. Sum(s, t, new, carry)
    BY <2>2, <2>3 DEF Sum
  <2>5. IsShift("ror", value, new, s.C, carry)
    BY <2>1, <2>3 DEF new
  <2>6. ArithmeticOfTwo(name, s, t, value, new)
    BY <1>10, <2>4, <2>5 DEF ArithmeticOfTwo
  <2>7. Composed(name, s, i) = t
    BY <1>10 DEF Composed, m, t
  <2> QED
    BY <1>3, <2>1, <2>2, <2>6, <2>7 DEF new
<1>11. /\ First(inc(s, i)) /\ inc(s, i).C = s.C
       /\ inc(s, i).mem[i.address] = (value + 1) % WORD
  BY AddSets DEF inc
<1>12. /\ First(dec(s, i)) /\ dec(s, i).C = s.C
       /\ dec(s, i).mem[i.address] = (value + (-1)) % WORD
  BY AddSets DEF dec
<1>13. CASE name = "isb"
  <2> DEFINE m == inc(s, i)
             t == sbc(m, i)
             new == m.mem[i.address]
  <2>1. First(m) /\ m.C = s.C /\ new = (value + 1) % WORD
    BY <1>11
  <2> HIDE DEF m
  <2>2. Second(m, t) /\ Difference(m, t, new)
    BY <1>1, <2>1, SbcSets DEF Difference
  <2> HIDE DEF t, new
  <2>3. Difference(s, t, new)
    BY <2>1, <2>2 DEF Difference
  <2>4. ArithmeticOfTwo(name, s, t, value, new)
    BY <1>13, <2>1, <2>3 DEF ArithmeticOfTwo
  <2>5. Composed(name, s, i) = t
    BY <1>13 DEF Composed, m, t
  <2> QED
    BY <1>3, <2>1, <2>2, <2>4, <2>5 DEF new
<1>14. CASE name = "dcp"
  <2> DEFINE m == dec(s, i)
             t == compare(m, "A", i)
             new == m.mem[i.address]
  <2>1. First(m) /\ m.C = s.C /\ new = (value + (-1)) % WORD
    BY <1>12
  <2>2. (new + 1) % WORD = value
    <3> DEFINE a == value
               n == -1
    <3>1. a \in Bytes
      BY <1>1 DEF Machine
    <3>2. n \in {-1, 1} /\ n = -1
      OBVIOUS
    <3> HIDE DEF a, n
    <3>3. (((a + n) % WORD) + 1) % WORD = a
      BY <3>1, <3>2, Wraps
    <3> QED
      BY <2>1, <3>3 DEF a, n
  <2> HIDE DEF m
  <2>3. Second(m, t) /\ Comparison(t, m.A, new)
    <3>1. "A" \in Registers /\ m["A"] = m.A
      BY DEF Registers
    <3> QED
      BY <1>1, <2>1, <3>1, CompareSets DEF Comparison
  <2> HIDE DEF t, new
  <2>4. ArithmeticOfTwo(name, s, t, value, new)
    BY <1>14, <2>1, <2>2, <2>3 DEF ArithmeticOfTwo
  <2>5. Composed(name, s, i) = t
    BY <1>14 DEF Composed, m, t
  <2> QED
    BY <1>3, <2>1, <2>3, <2>4, <2>5 DEF new
<1> QED
  BY <1>7, <1>8, <1>9, <1>10, <1>13, <1>14 DEF Composites

(* Instructions that compute no number.                                    *)
LEMMA LoadResult ==
    ASSUME NEW s \in Machine, NEW i, IsInfo(i),
           NEW name \in {"lda", "ldx", "ldy", "lax"} \cup DOMAIN Transfers
    PROVE  Instruction(name, s, i) \in Machine /\ Instruction(name, s, i).mem = s.mem
<1>1. \A m \in Machine, register \in Registers, value \in Bytes :
          load(m, register, value) \in Machine /\ load(m, register, value).mem = m.mem
  BY LoadSets
<1>2. operand(s, i) \in Bytes
  BY OperandTyped
<1>3. {"A", "X", "Y"} \subseteq Registers
  BY DEF Registers
<1>4. \A register \in Registers : s[register] \in Bytes
  BY DEF Registers, Machine
<1>5. CASE name \in {"lda", "ldx", "ldy"}
  <2>1. Instruction(name, s, i) = load(s, Loads[name], operand(s, i))
    BY <1>5, Domains DEF Instruction, Composites
  <2>2. Loads[name] \in {"A", "X", "Y"}
    BY <1>5 DEF Loads
  <2> QED
    BY <1>1, <1>2, <1>3, <2>1, <2>2
<1>6. CASE name = "lax"
  <2>1. Instruction(name, s, i) = load(load(s, "A", operand(s, i)), "X", operand(s, i))
    BY <1>6, Domains DEF Instruction, Composites
  <2> QED
    BY <1>1, <1>2, <1>3, <2>1
<1>7. CASE name \in DOMAIN Transfers
  <2>1. Instruction(name, s, i) = load(s, Transfers[name][2], s[Transfers[name][1]])
    BY <1>7, Domains DEF Instruction, Composites
  <2>2. Transfers[name][1] \in Registers /\ Transfers[name][2] \in Registers
    BY <1>7, Domains DEF Transfers, Registers
  <2> QED
    BY <1>1, <1>4, <2>1, <2>2
<1> QED
  BY <1>5, <1>6, <1>7

LEMMA StoreResult ==
    ASSUME NEW s \in Machine, NEW i, IsInfo(i), NEW name \in Stores
    PROVE  LET t == Instruction(name, s, i)
           IN  t \in Machine /\ WritesOnly(s, t, i.address)
<1>1. i.address \in Addresses /\ s.A \in Bytes /\ s.X \in Bytes /\ s.Y \in Bytes
  BY DEF IsInfo, Machine
<1>2. ASSUME NEW value \in Bytes
      PROVE  LET t == write(s, i.address, value)
             IN  t \in Machine /\ WritesOnly(s, t, i.address)
  BY <1>1, WriteSets DEF WritesOnly
<1>3. CASE name \in {"sta", "stx", "sty"}
  <2>1. Instruction(name, s, i) = write(s, i.address, s[RegisterStores[name]])
    BY <1>3, Domains DEF Instruction, Composites
  <2>2. RegisterStores[name] \in {"A", "X", "Y"}
    BY <1>3 DEF RegisterStores
  <2>3. s[RegisterStores[name]] \in Bytes
    BY <2>2 DEF Machine
  <2> QED
    BY <1>2, <2>1, <2>3
<1>4. CASE name = "sax"
  <2>1. Instruction(name, s, i) = write(s, i.address, And(s.A, s.X))
    BY <1>4, Domains DEF Instruction, Composites
  <2>2. And(s.A, s.X) \in Bytes
    <3> DEFINE a == s.A
               b == s.X
    <3>1. a \in Bytes /\ b \in Bytes
      BY <1>1
    <3> HIDE DEF a, b
    <3>2. And(a, b) \in Bytes
      BY <3>1, BitwiseInBytes
    <3> QED
      BY <3>2 DEF a, b
  <2> QED
    BY <1>2, <2>1, <2>2
<1>5. CASE name \in {"shx", "shy"}
  <2>1. Instruction(name, s, i) = shiftedStore(s, ShiftedStores[name], i)
    BY <1>5, Domains DEF Instruction, Composites
  <2>2. ShiftedStores[name] \in {"X", "Y"}
    BY <1>5 DEF ShiftedStores
  <2> QED
    BY <2>1, <2>2, ShiftedStoreSets
<1> QED
  BY <1>3, <1>4, <1>5, Domains DEF Stores

LEMMA FlagResult ==
    ASSUME NEW s \in Machine, NEW flag \in {"C", "D", "I", "O"}, NEW value \in BOOLEAN,
           NEW t, t = [s EXCEPT ![flag] = value]
    PROVE  t \in Machine /\ t.mem = s.mem
BY DEF Machine

LEMMA ImpliedResult ==
    ASSUME NEW s \in Machine, NEW i, IsInfo(i), NEW name \in Implied \cup {"nop"}
    PROVE  LET t == Instruction(name, s, i)
           IN  t \in Machine /\ WritesOnly(s, t, StackTop(s)) /\ (name = "nop" => t = s)
<1>1. CASE name \in DOMAIN Transfers
  BY <1>1, LoadResult, Domains DEF WritesOnly
<1>2. CASE name \in DOMAIN Clears
  <2>1. Instruction(name, s, i) = [s EXCEPT ![Clears[name]] = FALSE]
    BY <1>2, Domains DEF Instruction, Composites
  <2>2. Clears[name] \in {"C", "D", "I", "O"} /\ name # "nop"
    BY <1>2, Domains DEF Clears
  <2>3. Instruction(name, s, i) \in Machine /\ Instruction(name, s, i).mem = s.mem
    BY <2>1, <2>2, FlagResult
  <2> QED
    BY <2>2, <2>3 DEF WritesOnly
<1>3. CASE name \in DOMAIN Sets
  <2>1. Instruction(name, s, i) = [s EXCEPT ![Sets[name]] = TRUE]
    BY <1>3, Domains DEF Instruction, Composites
  <2>2. Sets[name] \in {"C", "D", "I", "O"} /\ name # "nop"
    BY <1>3, Domains DEF Sets
  <2>3. Instruction(name, s, i) \in Machine /\ Instruction(name, s, i).mem = s.mem
    BY <2>1, <2>2, FlagResult
  <2> QED
    BY <2>2, <2>3 DEF WritesOnly
<1>4. CASE name \in DOMAIN Increments
  <2>1. Instruction(name, s, i) = count(s, Increments[name], 1)
    BY <1>4, Domains DEF Instruction, Composites
  <2>2. Increments[name] \in {"X", "Y"} /\ name # "nop"
    BY <1>4, Domains DEF Increments
  <2> QED
    BY <2>1, <2>2, CountSets DEF WritesOnly
<1>5. CASE name \in DOMAIN Decrements
  <2>1. Instruction(name, s, i) = count(s, Decrements[name], -1)
    BY <1>5, Domains DEF Instruction, Composites
  <2>2. Decrements[name] \in {"X", "Y"} /\ name # "nop"
    BY <1>5, Domains DEF Decrements
  <2> QED
    BY <2>1, <2>2, CountSets DEF WritesOnly
<1>6. CASE name = "txs"
  <2>1. Instruction(name, s, i) = [s EXCEPT !.sp = s.X]
    BY <1>6, Domains DEF Instruction, Composites
  <2>2. [s EXCEPT !.sp = s.X] \in Machine /\ [s EXCEPT !.sp = s.X].mem = s.mem
    BY DEF Machine
  <2> QED
    BY <1>6, <2>1, <2>2 DEF WritesOnly
<1>7. CASE name = "pha"
  <2>1. Instruction(name, s, i) = pha(s)
    BY <1>7, Domains DEF Instruction, Composites
  <2> QED
    BY <1>7, <2>1, PushSets
<1>8. CASE name = "pla"
  <2>1. Instruction(name, s, i) = pla(s)
    BY <1>8, Domains DEF Instruction, Composites
  <2> QED
    BY <1>8, <2>1, PullSets DEF WritesOnly
<1>9. CASE name = "nop"
  <2>1. Instruction(name, s, i) = s
    BY <1>9, Domains DEF Instruction, Composites
  <2> QED
    BY <2>1 DEF WritesOnly
<1> QED
  BY <1>1, <1>2, <1>3, <1>4, <1>5, <1>6, <1>7, <1>8, <1>9 DEF Implied

(* What any instruction does.                                              *)
LEMMA InstructionResult ==
    ASSUME NEW s \in Machine, NEW i, IsInfo(i), NEW name \in Computing,
           i.mode \in Modes(name)
    PROVE  Result(name, s, i, Instruction(name, s, i))
<1> DEFINE t == Instruction(name, s, i)
<1>1. CASE name \in {"adc", "sbc"}
  <2>1. t = IF name = "adc" THEN adc(s, i) ELSE sbc(s, i)
    BY <1>1, Domains DEF Instruction, Composites
  <2> QED
    BY <1>1, <2>1, SumResult
<1>2. CASE name \in {"cmp", "cpx", "cpy"}
  <2>1. t = compare(s, Compares[name], i)
    BY <1>2, Domains DEF Instruction, Composites
  <2> QED
    BY <1>2, <2>1, CompareResult
<1>3. CASE name \in Shifts
  <2>1. t = ShiftOf(name, s, i)
    BY <1>3, Domains DEF Instruction, Composites, Shifts, ShiftOf
  <2> QED
    BY <1>3, <2>1, ShiftResult
<1>4. CASE name \in Composites
  <2>1. t = Composed(name, s, i)
    BY <1>4, Domains DEF Instruction, Composites
  <2>2. i.mode \in Memory
    BY <1>4, Domains DEF Modes, Sums, Composites, Shifts, Branches
  <2>3. i.mode \notin {"accumulator", "immediate"}
    BY <2>2 DEF Memory
  <2> QED
    BY <1>4, <2>1, <2>3, ComposedResult
<1>5. CASE name \in {"_and", "ora", "eor"}
  <2>1. t \in {_and(s, i), ora(s, i), eor(s, i)}
    BY <1>5, Domains DEF Instruction, Composites
  <2>2. t \in Machine /\ t.mem = s.mem
    BY <2>1, BitwiseSets
  <2>3. name \notin ArithmeticNames
    BY <1>5 DEF ArithmeticNames, Shifts, Composites
  <2> QED
    BY <2>2, <2>3, NoArithmetic, KeepsMemory DEF Result
<1>6. CASE name \in {"lda", "ldx", "ldy", "lax"}
  <2>1. t \in Machine /\ t.mem = s.mem
    BY <1>6, LoadResult
  <2>2. name \notin ArithmeticNames
    BY <1>6 DEF ArithmeticNames, Shifts, Composites
  <2> QED
    BY <2>1, <2>2, NoArithmetic, KeepsMemory DEF Result
<1>7. CASE name = "bit"
  <2>1. t = bit(s, i)
    BY <1>7, Domains DEF Instruction, Composites
  <2>2. t \in Machine /\ t.mem = s.mem
    BY <2>1, BitSets
  <2>3. name \notin ArithmeticNames
    BY <1>7 DEF ArithmeticNames, Shifts, Composites
  <2> QED
    BY <2>2, <2>3, NoArithmetic, KeepsMemory DEF Result
<1>8. CASE name \in {"inc", "dec"}
  <2>1. t = add(s, i, IF name = "inc" THEN 1 ELSE -1)
    BY <1>8, Domains DEF Instruction, Composites, inc, dec
  <2>2. t \in Machine /\ WritesOnly(s, t, i.address)
    BY <2>1, AddSets
  <2>3. name \notin ArithmeticNames /\ name \notin Implied \cup {"nop"}
    BY <1>8, ImpliedAre DEF ArithmeticNames, Shifts, Composites, ImpliedNames
  <2> HIDE DEF t
  <2>4. Writes(name, s, i, t)
    BY <2>2, <2>3 DEF Writes
  <2> QED
    BY <2>2, <2>3, <2>4, NoArithmetic DEF Result, t
<1>9. CASE name \in Stores
  <2>1. t \in Machine /\ WritesOnly(s, t, i.address)
    BY <1>9, StoreResult
  <2>2. name \in {"sta", "stx", "sty", "shx", "shy", "sax"}
    BY <1>9, Domains DEF Stores
  <2>3. name \notin ArithmeticNames /\ name \notin Implied \cup {"nop"}
    BY <2>2, ImpliedAre DEF ArithmeticNames, Shifts, Composites, ImpliedNames
  <2> HIDE DEF t
  <2>4. Writes(name, s, i, t)
    BY <2>1, <2>3 DEF Writes
  <2> QED
    BY <2>1, <2>3, <2>4, NoArithmetic DEF Result, t
<1>10. CASE name \in Implied \cup {"nop"}
  <2>1. t \in Machine /\ WritesOnly(s, t, StackTop(s)) /\ (name = "nop" => t = s)
    BY <1>10, ImpliedResult
  <2>2. name \notin ArithmeticNames
    BY <1>10, ImpliedAre DEF ArithmeticNames, Shifts, Composites, ImpliedNames
  <2> HIDE DEF t
  <2>3. Writes(name, s, i, t)
    BY <1>10, <2>1 DEF Writes, WritesOnly
  <2> QED
    BY <2>1, <2>2, <2>3, NoArithmetic DEF Result, t
<1>11. \/ name \in {"adc", "sbc"} \/ name \in {"cmp", "cpx", "cpy"} \/ name \in Shifts
       \/ name \in Composites \/ name \in {"_and", "ora", "eor"}
       \/ name \in {"lda", "ldx", "ldy", "lax"} \/ name = "bit"
       \/ name \in {"inc", "dec"} \/ name \in Stores \/ name \in Implied \cup {"nop"}
  BY Domains DEF Computing, Sums, Modifies
<1> HIDE DEF t
<1> QED
  BY <1>1, <1>2, <1>3, <1>4, <1>5, <1>6, <1>7, <1>8, <1>9, <1>10, <1>11 DEF t

-----------------------------------------------------------------------------
(* Addresses and pages.                                                    *)

LEMMA PointerDigits ==
    ASSUME NEW low \in Bytes, NEW high \in Bytes
    PROVE  /\ Pointer(low, high) \in Addresses
           /\ High(Pointer(low, high)) = high /\ Low(Pointer(low, high)) = low
<1> DEFINE w == WORD
           n == low + w * high
<1>1. w \in Nat \ {0} /\ low \in 0..(w - 1) /\ high \in 0..(w - 1)
  BY WordFacts DEF Bytes
<1>2. SPACE = w * w
  BY SpaceFacts
<1>3. Pointer(low, high) = n
  BY DEF Pointer
<1> HIDE DEF w
<1>4. n \in 0..(w * w - 1)
  <2>1. w * high \in Nat /\ w * high <= w * (w - 1)
    BY <1>1
  <2>2. w * (w - 1) = w * w - w /\ w * w \in Nat
    BY <1>1
  <2> QED
    BY <1>1, <2>1, <2>2
<1>5. n \div w = high /\ n % w = low
  BY <1>1, Digits
<1> QED
  BY <1>2, <1>3, <1>4, <1>5 DEF Addresses, High, Low, w

LEMMA Split ==
    ASSUME NEW address \in Addresses
    PROVE  /\ Low(address) \in Bytes /\ High(address) \in Bytes
           /\ address = Low(address) + WORD * High(address)
<1> DEFINE w == WORD
           r == address % w
           q == address \div w
<1>1. w \in Nat \ {0} /\ address \in 0..(w * w - 1)
  BY WordFacts, SpaceFacts DEF Addresses
<1> HIDE DEF w
<1>0. address \in Nat
  BY <1>1
<1>2. q \in Nat /\ r \in 0..(w - 1) /\ address = r + w * q
  BY <1>0, <1>1, Rebuild
<1> HIDE DEF r, q
<1>3. q \in 0..(w - 1)
  <2>1. ASSUME q >= w PROVE FALSE
    <3>1. w * q >= w * w /\ w * q \in Nat
      BY <1>1, <1>2, <2>1
    <3> QED
      BY <1>1, <1>2, <3>1
  <2> QED
    BY <1>1, <1>2, <2>1
<1> QED
  BY <1>2, <1>3 DEF Low, High, Bytes, w, r, q

(* A low byte that was added to or subtracted from leaves its page exactly *)
(* when it leaves the bytes, at both ends of memory too.                   *)
LEMMA PageOf ==
    ASSUME NEW h \in Bytes, NEW m \in (-WORD)..(2 * WORD - 1), NEW a,
           a = (m + WORD * h) % SPACE
    PROVE  a \in Addresses /\ (High(a) = h <=> m \in 0..(WORD - 1))
<1> DEFINE w == WORD
           k == IF m < 0 THEN -1 ELSE IF m >= w THEN 1 ELSE 0
           r == IF m < 0 THEN m + w ELSE IF m >= w THEN m - w ELSE m
           q == IF h + k < 0 THEN w - 1 ELSE IF h + k >= w THEN 0 ELSE h + k
           n == m + w * h
<1>1. w \in Nat /\ w > 2 /\ h \in 0..(w - 1) /\ m \in (-w)..(2 * w - 1)
  BY WordFacts DEF Bytes
<1>2. r \in 0..(w - 1) /\ q \in 0..(w - 1) /\ (q = h <=> m \in 0..(w - 1))
  BY <1>1
<1>3. SPACE = w * w /\ SPACE \in Nat \ {0} /\ SPACE >= 2 * w
  BY SpaceFacts
<1>4. a = n % SPACE
  OBVIOUS
<1> HIDE DEF w
<1> DEFINE p == w * h
           s == w * w
<1>5. p \in Nat /\ p <= s - w /\ s \in Nat
  <2>1. p \in Nat /\ p <= w * (w - 1)
    BY <1>1
  <2>2. w * (w - 1) = w * w - w /\ w * w \in Nat
    BY <1>1
  <2> QED
    BY <2>1, <2>2
<1>6. n % SPACE = IF n < 0 THEN n + SPACE ELSE IF n >= SPACE THEN n - SPACE ELSE n
  <2>1. n \in (-SPACE)..(2 * SPACE - 1)
    <3>1. n = m + p /\ SPACE = s /\ s >= 2 * w
      BY <1>3
    <3> HIDE DEF n, p, s
    <3> QED
      BY <1>1, <1>5, <3>1
  <2> HIDE DEF n
  <2> QED
    BY <1>3, <2>1, OneWrap
<1>7. a = r + w * q
  <2>1. CASE m < 0 /\ h = 0
    <3>1. n = m /\ q = w - 1 /\ r = m + w
      BY <1>1, <2>1
    <3>2. w * (w - 1) = w * w - w /\ w * w \in Nat
      BY <1>1
    <3> HIDE DEF n, q, r
    <3> QED
      BY <1>1, <1>3, <1>4, <1>6, <2>1, <3>1, <3>2
  <2>2. CASE m < 0 /\ h # 0
    <3>1. q = h - 1 /\ r = m + w /\ n = m + p /\ SPACE = s
      BY <1>1, <1>3, <2>2
    <3>2. w * (h - 1) = p - w /\ p >= w
      BY <1>1, <2>2
    <3> HIDE DEF n, q, r, p, s
    <3> QED
      BY <1>1, <1>4, <1>5, <1>6, <2>2, <3>1, <3>2
  <2>3. CASE m >= w /\ h = w - 1
    <3>1. q = 0 /\ r = m - w /\ n = m + p /\ SPACE = s
      BY <1>1, <1>3, <2>3
    <3>2. p = s - w
      BY <1>1, <2>3
    <3>3. w * 0 = 0
      BY <1>1
    <3> HIDE DEF n, q, r, p, s
    <3> QED
      BY <1>1, <1>4, <1>5, <1>6, <2>3, <3>1, <3>2, <3>3
  <2>4. CASE m >= w /\ h # w - 1
    <3>1. q = h + 1 /\ r = m - w /\ n = m + p /\ SPACE = s
      BY <1>1, <1>3, <2>4
    <3>2. w * (h + 1) = p + w /\ p + 2 * w <= s
      <4>1. w * (h + 2) = p + 2 * w /\ w * (h + 1) = p + w
        BY <1>1
      <4>2. w * (h + 2) <= w * w
        BY <1>1, <2>4
      <4> QED
        BY <4>1, <4>2
    <3> HIDE DEF n, q, r, p, s
    <3> QED
      BY <1>1, <1>4, <1>5, <1>6, <2>4, <3>1, <3>2
  <2>5. CASE m \in 0..(w - 1)
    <3>1. q = h /\ r = m /\ n = m + p /\ SPACE = s
      BY <1>1, <1>3, <2>5
    <3>2. w * h = p
      OBVIOUS
    <3> HIDE DEF n, q, r, p, s
    <3> QED
      BY <1>1, <1>4, <1>5, <1>6, <2>5, <3>1, <3>2
  <2> QED
    BY <1>1, <2>1, <2>2, <2>3, <2>4, <2>5
<1> HIDE DEF r, q
<1>8. a = Pointer(r, q) /\ r \in Bytes /\ q \in Bytes
  BY <1>2, <1>7 DEF Pointer, Bytes, w
<1>9. a \in Addresses /\ High(a) = q
  BY <1>8, PointerDigits
<1> QED
  BY <1>2, <1>9 DEF w

LEMMA ZeroPageTyped ==
    ASSUME NEW s \in Machine, NEW at \in Bytes
    PROVE  /\ s.mem[at] \in Bytes /\ s.mem[(at + 1) % WORD] \in Bytes
           /\ ZeroPagePointer(s.mem, at) \in Addresses
<1>1. at \in Addresses /\ (at + 1) % WORD \in Addresses
  <2>1. (at + 1) % WORD \in Bytes
    BY Wraps
  <2> QED
    BY <2>1, BytesAreAddresses
<1>2. s.mem[at] \in Bytes /\ s.mem[(at + 1) % WORD] \in Bytes
  BY <1>1 DEF Machine
<1> QED
  BY <1>2, PointerDigits DEF ZeroPagePointer

LEMMA InSpace ==
    ASSUME NEW n \in Int PROVE n % SPACE \in Addresses
BY SpaceFacts, Remainder DEF Addresses

LEMMA InWord ==
    ASSUME NEW n \in Int PROVE n % WORD \in Bytes
BY WordFacts, Remainder DEF Bytes

LEMMA Integers ==
    Bytes \subseteq Int /\ Addresses \subseteq Int /\ WORD \in Int /\ HALF \in Int
BY WordFacts, SpaceFacts DEF Bytes, Addresses

AllModes == OneByte \cup TwoBytes \cup {"accumulator", "implied"}

LEMMA EffectiveTyped ==
    ASSUME NEW s \in Machine, NEW low \in Bytes, NEW high \in Bytes, NEW next \in Addresses,
           NEW mode \in AllModes
    PROVE  LET a == Effective(mode, low, high, s, next)
           IN  /\ a \in Addresses
               /\ mode = "immediate" => a = low
               /\ mode \in {"zeroPage", "zeroPageX", "zeroPageY"} => a \in Bytes
<1> DEFINE a == Effective(mode, low, high, s, next)
           base == Pointer(low, high)
<1>1. low \in Int /\ s.X \in Bytes /\ s.Y \in Bytes /\ s.X \in Int /\ s.Y \in Int /\ next \in Int
  BY Integers DEF Machine
<1>2. base \in Addresses /\ base \in Int
  BY PointerDigits, Integers
<1>3. CASE mode = "absolute"
  BY <1>2, <1>3 DEF Effective
<1>4. CASE mode = "absoluteX"
  <2>1. a = (base + s.X) % SPACE
    BY <1>4 DEF Effective
  <2> HIDE DEF a, base
  <2>2. base + s.X \in Int
    BY <1>1, <1>2
  <2> QED
    BY <1>4, <2>1, <2>2, InSpace DEF a
<1>5. CASE mode = "absoluteY"
  <2>1. a = (base + s.Y) % SPACE
    BY <1>5 DEF Effective
  <2> HIDE DEF a, base
  <2>2. base + s.Y \in Int
    BY <1>1, <1>2
  <2> QED
    BY <1>5, <2>1, <2>2, InSpace DEF a
<1>6. CASE mode \in {"immediate", "zeroPage"}
  <2>1. a = low
    BY <1>6 DEF Effective
  <2> QED
    BY <2>1, BytesAreAddresses
<1>7. CASE mode = "indexedIndirect"
  <2> DEFINE at == (low + s.X) % WORD
  <2>1. at \in Bytes
    BY <1>1, InWord
  <2>2. a = ZeroPagePointer(s.mem, at)
    BY <1>7 DEF Effective
  <2> HIDE DEF at, a
  <2> QED
    BY <1>7, <2>1, <2>2, ZeroPageTyped DEF a
<1>8. CASE mode = "indirect"
  <2> DEFINE l == Low(base + 1)
             second == Pointer(l, high)
  <2>1. l \in Bytes
    BY <1>2, InWord DEF Low
  <2>2. a = Pointer(s.mem[base], s.mem[second])
    BY <1>8 DEF Effective
  <2> HIDE DEF l, base, a
  <2>3. second \in Addresses
    BY <2>1, PointerDigits
  <2>4. s.mem[base] \in Bytes /\ s.mem[second] \in Bytes
    BY <1>2, <2>3 DEF Machine
  <2> QED
    BY <1>8, <2>2, <2>4, PointerDigits DEF a
<1>9. CASE mode = "indirectIndexed"
  <2> DEFINE found == ZeroPagePointer(s.mem, low)
  <2>1. a = (found + s.Y) % SPACE
    BY <1>9 DEF Effective
  <2>2. found \in Int
    BY ZeroPageTyped, Integers
  <2> HIDE DEF found, a
  <2>3. found + s.Y \in Int
    BY <1>1, <2>2
  <2> QED
    BY <1>9, <2>1, <2>3, InSpace DEF a
<1>10. CASE mode = "relative"
  <2> DEFINE n == next + low - (IF low > HALF THEN WORD ELSE 0)
  <2>1. a = n % SPACE
    BY <1>10 DEF Effective
  <2>2. n \in Int
    BY <1>1, Integers
  <2> HIDE DEF n, a
  <2> QED
    BY <1>10, <2>1, <2>2, InSpace DEF a
<1>11. CASE mode = "zeroPageX"
  <2>1. a = (low + s.X) % WORD
    BY <1>11 DEF Effective
  <2>2. low + s.X \in Int
    BY <1>1
  <2> HIDE DEF a
  <2> QED
    BY <1>11, <2>1, <2>2, InWord, BytesAreAddresses DEF a
<1>12. CASE mode = "zeroPageY"
  <2>1. a = (low + s.Y) % WORD
    BY <1>12 DEF Effective
  <2>2. low + s.Y \in Int
    BY <1>1
  <2> HIDE DEF a
  <2> QED
    BY <1>12, <2>1, <2>2, InWord, BytesAreAddresses DEF a
<1>13. CASE mode \in {"accumulator", "implied"}
  <2>1. a = SPACE - 1
    BY <1>13 DEF Effective
  <2>2. SPACE - 1 \in Addresses
    BY SpaceFacts DEF Addresses
  <2> QED
    BY <1>13, <2>1, <2>2
<1> QED
  BY <1>3, <1>4, <1>5, <1>6, <1>7, <1>8, <1>9, <1>10, <1>11, <1>12, <1>13
  DEF AllModes, OneByte, TwoBytes

(* The operand bytes of an instruction. *)
LEMMA OperandBytes ==
    ASSUME NEW mode
    PROVE  LowBytes(mode) \subseteq Bytes /\ HighBytes(mode) \subseteq Bytes
           /\ HIGH_BYTES \subseteq Bytes
<1>1. 0 \in Bytes
  BY WordFacts DEF Bytes
<1> QED
  BY <1>1, WordAssumption DEF LowBytes, HighBytes

LEMMA ModesAre ==
    ASSUME NEW name, NEW mode \in Modes(name)
    PROVE  mode \in AllModes
BY DEF Modes, Memory, AllModes, OneByte, TwoBytes

LEMMA CyclesTyped ==
    ASSUME NEW name, NEW mode \in AllModes
    PROVE  /\ instructionCycles(name, mode) \in 0..8
           /\ instructionCyclesExtra(name, mode) \in 0..1
           /\ instructionCycles(name, mode) + instructionCyclesExtra(name, mode) \in 0..8
BY DEF instructionCycles, instructionCyclesExtra, AllModes, OneByte, TwoBytes, Indexed

(* An index leaves the page exactly when it carries out of the low byte.   *)
LEMMA IndexLeaves ==
    ASSUME NEW low \in Bytes, NEW high \in Bytes, NEW x \in Bytes, NEW a,
           a = (Pointer(low, high) + x) % SPACE
    PROVE  pagesDiffer(a, (a - x) % SPACE) <=> low + x >= WORD
<1> DEFINE base == Pointer(low, high)
           m == low + x
           back == (a - x) % SPACE
<1>1. low \in 0..(WORD - 1) /\ x \in 0..(WORD - 1)
  BY DEF Bytes
<1>2. base \in Addresses /\ High(base) = high
  BY PointerDigits
<1>3. m \in (-WORD)..(2 * WORD - 1) /\ ~(m < 0)
  BY <1>1, WordFacts
<1>4. WORD * high \in Int
  BY WordFacts DEF Bytes
<1>5. a = (m + WORD * high) % SPACE
  <2>1. base + x = m + WORD * high
    <3> DEFINE p == WORD * high
    <3>1. base = low + p /\ p \in Int
      BY <1>4 DEF Pointer
    <3> HIDE DEF base, p
    <3> QED
      BY <1>1, <3>1, WordFacts DEF p
  <2> QED
    BY <2>1
<1> HIDE DEF m
<1>6. a \in Addresses /\ (High(a) = high <=> m \in 0..(WORD - 1))
  BY <1>3, <1>5, PageOf
<1>7. back = base
  <2> HIDE DEF base
  <2>1. base \in 0..(SPACE - 1) /\ x \in 0..(SPACE - 1) /\ SPACE \in Nat \ {0}
    BY <1>1, <1>2, SpaceFacts, WordFacts DEF Addresses
  <2> DEFINE n == base + x
             d == a - x
  <2>2. n \in (-SPACE)..(2 * SPACE - 1) /\ a = n % SPACE
    BY <2>1 DEF base
  <2>3. n % SPACE = IF n < 0 THEN n + SPACE ELSE IF n >= SPACE THEN n - SPACE ELSE n
    <3> HIDE DEF n
    <3> QED  BY <2>1, <2>2, OneWrap
  <2>4. d = base \/ d = base - SPACE
    BY <2>1, <2>2, <2>3
  <2>5. d \in (-SPACE)..(2 * SPACE - 1)
    BY <2>1, <2>4
  <2>6. d % SPACE = IF d < 0 THEN d + SPACE ELSE IF d >= SPACE THEN d - SPACE ELSE d
    <3> HIDE DEF d
    <3> QED  BY <2>1, <2>5, OneWrap
  <2> QED
    BY <2>1, <2>4, <2>6
<1> HIDE DEF back, base
<1>8. pagesDiffer(a, back) <=> ~(m \in 0..(WORD - 1))
  BY <1>2, <1>6, <1>7 DEF pagesDiffer
<1> QED
  BY <1>3, <1>8, WordFacts DEF m, back

LEMMA PageChangedTells ==
    ASSUME NEW s \in Machine, NEW low \in Bytes, NEW high \in Bytes, NEW next \in Addresses,
           NEW mode \in Indexed
    PROVE  PageChanged(mode, Effective(mode, low, high, s, next), s) <=>
               (IF mode = "indirectIndexed" THEN s.mem[low] ELSE low)
                   + (IF mode = "absoluteX" THEN s.X ELSE s.Y) >= WORD
<1> DEFINE a == Effective(mode, low, high, s, next)
<1>1. s.X \in Bytes /\ s.Y \in Bytes
  BY DEF Machine
<1>2. CASE mode = "absoluteX"
  <2>1. a = (Pointer(low, high) + s.X) % SPACE
    BY <1>2 DEF Effective
  <2> HIDE DEF a
  <2>2. PageChanged(mode, a, s) <=> pagesDiffer(a, (a - s.X) % SPACE)
    BY <1>2 DEF PageChanged
  <2> DEFINE x == s.X
  <2>3. x \in Bytes /\ a = (Pointer(low, high) + x) % SPACE
    BY <1>1, <2>1
  <2> HIDE DEF x
  <2>4. pagesDiffer(a, (a - x) % SPACE) <=> low + x >= WORD
    BY <2>3, IndexLeaves
  <2> QED
    BY <1>2, <2>2, <2>4 DEF x, a
<1>3. CASE mode = "absoluteY"
  <2>1. a = (Pointer(low, high) + s.Y) % SPACE
    BY <1>3 DEF Effective
  <2> HIDE DEF a
  <2>2. PageChanged(mode, a, s) <=> pagesDiffer(a, (a - s.Y) % SPACE)
    BY <1>3 DEF PageChanged
  <2> DEFINE x == s.Y
  <2>3. x \in Bytes /\ a = (Pointer(low, high) + x) % SPACE
    BY <1>1, <2>1
  <2> HIDE DEF x
  <2>4. pagesDiffer(a, (a - x) % SPACE) <=> low + x >= WORD
    BY <2>3, IndexLeaves
  <2> QED
    BY <1>3, <2>2, <2>4 DEF x, a
<1>4. CASE mode = "indirectIndexed"
  <2> DEFINE l == s.mem[low]
             h == s.mem[(low + 1) % WORD]
             x == s.Y
  <2>1. a = (Pointer(l, h) + x) % SPACE
    BY <1>4 DEF Effective, ZeroPagePointer
  <2> HIDE DEF a
  <2>2. PageChanged(mode, a, s) <=> pagesDiffer(a, (a - x) % SPACE)
    BY <1>4 DEF PageChanged
  <2>3. x \in Bytes /\ l \in Bytes /\ h \in Bytes
    BY <1>1, ZeroPageTyped
  <2> HIDE DEF x, l, h
  <2>4. pagesDiffer(a, (a - x) % SPACE) <=> l + x >= WORD
    BY <2>1, <2>3, IndexLeaves
  <2> QED
    BY <1>4, <2>2, <2>4 DEF x, l, a
<1> QED
  BY <1>2, <1>3, <1>4 DEF Indexed

(* Where a branch leads.                                                   *)
Offset(low) == IF low = HALF THEN HALF ELSE Signed(low)

LEMMA BranchLeads ==
    ASSUME NEW s \in Machine, NEW low \in Bytes, NEW next \in Addresses
    PROVE  LET a == Effective("relative", low, 0, s, next)
           IN  /\ a = (next + Offset(low)) % SPACE
               /\ a \in Addresses
               /\ pagesDiffer(next, a) <=> Low(next) + Offset(low) \notin Bytes
<1> DEFINE a == Effective("relative", low, 0, s, next)
           off == Offset(low)
           l == Low(next)
           h == High(next)
           m == l + off
<1>1. low \in 0..(WORD - 1)
  BY DEF Bytes
<1>2. off = low - (IF low > HALF THEN WORD ELSE 0) /\ off \in (-HALF)..HALF
  BY <1>1, WordFacts DEF Offset, Signed, Negative
<1>3. l \in Bytes /\ h \in Bytes /\ next = l + WORD * h /\ next \in Int /\ WORD * h \in Int
  BY Split, WordFacts, SpaceFacts DEF Addresses, Bytes
<1>4. a = (next + low - (IF low > HALF THEN WORD ELSE 0)) % SPACE
  BY DEF Effective
<1> HIDE DEF off, l, h, a
<1>5. l \in 0..(WORD - 1)
  BY <1>3 DEF Bytes
<1>6. a = (next + off) % SPACE
  <2>1. next + low - (IF low > HALF THEN WORD ELSE 0) = next + off
    BY <1>1, <1>2, <1>3, WordFacts
  <2> QED
    BY <1>4, <2>1
<1>7. m \in (-WORD)..(2 * WORD - 1)
  BY <1>2, <1>5, WordFacts
<1>8. next + off = m + WORD * h
  <2> DEFINE p == WORD * h
  <2>1. next = l + p /\ p \in Int
    BY <1>3
  <2> HIDE DEF p
  <2>2. next + off = m + p
    BY <1>2, <1>5, <2>1, WordFacts
  <2> QED
    BY <2>2 DEF p
<1> HIDE DEF m
<1>9. a \in Addresses /\ (High(a) = h <=> m \in 0..(WORD - 1))
  BY <1>3, <1>6, <1>7, <1>8, PageOf
<1> QED
  BY <1>6, <1>9 DEF pagesDiffer, Bytes, a, off, l, h, m

LEMMA NamesDiffer ==
    /\ Computing \cap Branches = {}
    /\ ArithmeticNames \cap (Branches \cup Unimplemented \cup {"jmp", "none"}) = {}
    /\ Branches \cap (Unimplemented \cup {"jmp", "none"}) = {}
    /\ "none" \notin Computing
BY Domains, ImpliedAre
DEF Computing, Branches, Sums, Modifies, Composites, Shifts, Stores, ImpliedNames,
    ArithmeticNames, Unimplemented

LEMMA BranchCycles ==
    ASSUME NEW name \in Branches
    PROVE  instructionCycles(name, "relative") = 2
BY Domains, ImpliedAre
DEF instructionCycles, Branches, Stores, Modifies, Composites, Shifts, TwoBytes, Indexed

LEMMA JumpCycles ==
    ASSUME NEW mode \in Modes("jmp")
    PROVE  mode \in {"absolute", "indirect"} /\ instructionCycles("jmp", mode) \in {3, 5}
<1>1. mode \in {"absolute", "indirect"}
  <2>1. "jmp" \notin Sums \cup Composites \cup {"sta"} \cup Shifts \cup Branches
    BY Domains DEF Sums, Composites, Shifts, Branches
  <2>2. Modes("jmp") = {"absolute", "indirect"}
    BY <2>1 DEF Modes
  <2> QED
    BY <2>2
<1>2. instructionCycles("jmp", mode) \in {3, 5}
  <2>1. "jmp" \notin Stores \cup Modifies
    BY Domains DEF Stores, Modifies, Composites, Shifts
  <2> QED
    BY <2>1 DEF instructionCycles
<1> QED
  BY <1>1, <1>2

LEMMA SizeTyped == ASSUME NEW mode PROVE Size(mode) \in 1..3
BY DEF Size

LEMMA NextTyped ==
    ASSUME NEW at \in Addresses, NEW mode
    PROVE  (at + Size(mode)) % SPACE \in Addresses
<1> DEFINE n == at + Size(mode)
<1>1. n \in Int
  BY SizeTyped, Integers
<1> HIDE DEF n
<1>2. n % SPACE \in Addresses
  BY <1>1, InSpace
<1> QED
  BY <1>2 DEF n

-----------------------------------------------------------------------------
(* The steps.                                                              *)

(* The invariant: types, and what the latest instruction did.              *)
Inv == TypeOK /\ ArithmeticIsInteger /\ CarriesTellPages

LEMMA InitInv == Init => Inv
<1> SUFFICES ASSUME Init PROVE Inv
  OBVIOUS
<1>1. PICK a \in Bytes, x \in Bytes, y \in Bytes, fill \in FILLS,
           carry \in BOOLEAN, others \in BOOLEAN :
        cpu = [A |-> a, X |-> x, Y |-> y, sp |-> 0,
               C |-> carry, Z |-> others, I |-> FALSE, D |-> FALSE,
               O |-> others, N |-> others,
               mem |-> [at \in Addresses |-> ((at * fill) + High(at) + 1) % WORD]]
  BY DEF Init
<1>2. ASSUME NEW at \in Addresses PROVE ((at * fill) + High(at) + 1) % WORD \in Bytes
  <2> DEFINE n == (at * fill) + High(at) + 1
  <2>1. fill \in Int /\ at \in Int /\ High(at) \in Int
    <3>1. fill \in Int
      BY WordAssumption
    <3>2. High(at) \in Bytes
      BY Split
    <3> QED
      BY <3>1, <3>2, Integers
  <2>2. at * fill \in Int
    BY <2>1
  <2>3. n \in Int
    BY <2>1, <2>2
  <2> HIDE DEF n
  <2>4. n % WORD \in Bytes
    BY <2>3, InWord
  <2> QED
    BY <2>4 DEF n
<1> DEFINE m == [at \in Addresses |-> ((at * fill) + High(at) + 1) % WORD]
<1>3. m \in [Addresses -> Bytes]
  BY <1>2
<1>4. 0 \in Bytes
  BY WordFacts DEF Bytes
<1> HIDE DEF m
<1>5. cpu \in Machine
  BY <1>1, <1>3, <1>4 DEF Machine, m
<1>6. TypeOK
  BY <1>5, WordAssumption DEF Init, TypeOK
<1>7. latest.name = "none" /\ latest.mode = "implied"
  BY DEF Init
<1>8. ArithmeticIsInteger
  BY <1>7 DEF ArithmeticIsInteger, Shifts
<1>9. CarriesTellPages
  BY <1>7, NamesDiffer
  DEF CarriesTellPages, ReadsPayForPage, BranchesAreSigned, WritesStayInPage, Indexed
<1> QED
  BY <1>6, <1>8, <1>9 DEF Inv

(* Steps that compute nothing have nothing to answer for in ArithmeticIsInteger. *)
LEMMA OtherNames ==
    ASSUME latest'.name \in Branches \cup Unimplemented \cup {"jmp"}
    PROVE  ArithmeticIsInteger'
<1>1. latest'.name \notin ArithmeticNames
  BY NamesDiffer
<1> QED
  BY <1>1 DEF ArithmeticIsInteger, ArithmeticNames, Composites

LEMMA ComputeKeepsInv ==
    ASSUME TypeOK, NEW name \in Computing, Compute(name)
    PROVE  Inv'
<1>1. PICK mode \in Modes(name) :
        /\ \E low \in LowBytes(mode), high \in HighBytes(mode) : Fetch(name, mode, low, high)
        /\ cpu' = Instruction(name, cpu, [mode |-> mode, address |-> Target])
        /\ cycles' = instructionCycles(name, mode)
                     + (IF PageChanged(mode, Target, cpu)
                        THEN instructionCyclesExtra(name, mode) ELSE 0)
  BY DEF Compute
<1>2. PICK low \in LowBytes(mode), high \in HighBytes(mode) : Fetch(name, mode, low, high)
  BY <1>1
<1>3. PICK s : s = cpu
  OBVIOUS
<1>4. PICK t : t = cpu'
  OBVIOUS
<1>5. PICK next : next = (pc + Size(mode)) % SPACE
  OBVIOUS
<1>6. PICK a : a = Effective(mode, low, high, s, next)
  OBVIOUS
<1>7. PICK i : i = [mode |-> mode, address |-> a]
  OBVIOUS
<1>8. /\ latest'.name = name /\ latest'.mode = mode /\ latest'.low = low
      /\ latest'.high = high /\ latest'.next = next /\ latest'.cpu = s
  BY <1>2, <1>3, <1>5 DEF Fetch
<1>9. /\ s \in Machine /\ low \in Bytes /\ high \in Bytes /\ next \in Addresses
      /\ mode \in AllModes
  BY <1>3, <1>5, NextTyped, OperandBytes, ModesAre DEF TypeOK
<1>10. Target = a
  BY <1>3, <1>6, <1>8 DEF Target
<1>11. /\ a \in Addresses /\ (mode = "immediate" => a = low)
       /\ mode \in {"zeroPage", "zeroPageX", "zeroPageY"} => a \in Bytes
  BY <1>6, <1>9, EffectiveTyped
<1>12. i.mode = mode /\ i.address = a
  BY <1>7
<1>13. IsInfo(i)
  BY <1>9, <1>11, <1>12 DEF IsInfo
<1>14. t = Instruction(name, s, i)
  BY <1>1, <1>3, <1>4, <1>7, <1>10
<1>15. t \in Machine /\ Arithmetic(name, s, i, t) /\ Writes(name, s, i, t)
  BY <1>9, <1>12, <1>13, <1>14, InstructionResult DEF Result
<1>16. cycles' = instructionCycles(name, mode)
               + (IF PageChanged(mode, a, s) THEN instructionCyclesExtra(name, mode) ELSE 0)
  BY <1>1, <1>3, <1>10
<1>17. Before' = s /\ LatestAddress' = a /\ LatestInfo' = i
  BY <1>6, <1>7, <1>8 DEF Before, LatestAddress, LatestInfo
<1>18. TypeOK'
  <2>1. cycles' \in 0..8
    BY <1>9, <1>16, CyclesTyped
  <2>2. pc' \in Addresses /\ running' \in BOOLEAN
    BY <1>8, <1>9 DEF Compute, TypeOK
  <2>3. executed' \in 0..MAX_INSTRUCTIONS
    BY <1>2, WordAssumption DEF Compute, CanExecute, Fetch, TypeOK
  <2> QED
    BY <1>4, <1>15, <2>1, <2>2, <2>3 DEF TypeOK
<1>19. ArithmeticIsInteger'
  <2>1. /\ ArithmeticOfOne(name, s, t, operand(s, i), source(s, i), source(t, i))
        /\ ArithmeticOfTwo(name, s, t, operand(s, i), t.mem[a])
    BY <1>12, <1>15 DEF Arithmetic
  <2> QED
    BY <1>4, <1>8, <1>17, <2>1
    DEF ArithmeticIsInteger, ArithmeticOfOne, ArithmeticOfTwo, IsSum, IsDifference,
        IsComparison, Sum, Difference, Comparison
<1>20. ReadsPayForPage'
  <2>1. ASSUME mode \in Indexed
        PROVE  cycles' = instructionCycles(name, mode)
                        + (IF /\ IndexedByte' + Index' >= WORD
                              /\ name \notin Stores \cup Modifies THEN 1 ELSE 0)
    <3>1. PageChanged(mode, a, s) <=> IndexedByte' + Index' >= WORD
      <4>1. /\ IndexedByte' = IF mode = "indirectIndexed" THEN s.mem[low] ELSE low
            /\ Index' = IF mode = "absoluteX" THEN s.X ELSE s.Y
        BY <1>8, <1>17 DEF IndexedByte, Index
      <4>2. PageChanged(mode, a, s) <=>
                (IF mode = "indirectIndexed" THEN s.mem[low] ELSE low)
                    + (IF mode = "absoluteX" THEN s.X ELSE s.Y) >= WORD
        BY <1>6, <1>9, <2>1, PageChangedTells
      <4> QED
        BY <4>1, <4>2
    <3>2. instructionCyclesExtra(name, mode) =
              IF name \notin Stores \cup Modifies THEN 1 ELSE 0
      BY <2>1 DEF instructionCyclesExtra
    <3> QED
      BY <1>16, <3>1, <3>2
  <2> QED
    BY <1>8, <2>1 DEF ReadsPayForPage
<1>21. BranchesAreSigned'
  BY <1>8, NamesDiffer DEF BranchesAreSigned
<1>22. WritesStayInPage'
  <2>1. ASSUME NEW at \in Addresses, t.mem[at] # s.mem[at]
        PROVE  /\ mode \in {"zeroPage", "zeroPageX", "zeroPageY"} => High(at) = 0
               /\ mode = "implied" => High(at) = 1
    <3>1. CASE mode = "implied"
      <4>1. name \in Implied \cup {"nop"}
        BY <3>1, Domains, ImpliedAre
        DEF Modes, Memory, Computing, Sums, Modifies, Composites, Shifts, Stores, Branches,
            ImpliedNames
      <4>2. at = StackTop(s)
        BY <1>15, <2>1, <4>1 DEF Writes, WritesOnly
      <4>3. High(at) = 1
        <5>1. s.sp \in Bytes /\ 1 \in Bytes
          BY <1>9, WordFacts DEF Machine, Bytes
        <5>2. at = Pointer(s.sp, 1)
          BY <4>2, <5>1, WordFacts DEF StackTop, Pointer, Bytes
        <5> QED
          BY <5>1, <5>2, PointerDigits
      <4> QED
        BY <3>1, <4>3
    <3>2. CASE mode \in {"zeroPage", "zeroPageX", "zeroPageY"}
      <4>1. name \notin Implied
        BY <3>2, Domains, ImpliedAre
        DEF Modes, Sums, Composites, Shifts, Branches, ImpliedNames
      <4>2. at = a
        BY <1>12, <1>15, <2>1, <4>1 DEF Writes, WritesOnly
      <4>3. High(at) = 0
        <5>1. at \in Bytes /\ 0 \in Bytes
          BY <1>11, <3>2, <4>2, WordFacts DEF Bytes
        <5>2. at = Pointer(at, 0)
          BY <5>1, WordFacts DEF Pointer, Bytes
        <5> QED
          BY <5>1, <5>2, PointerDigits
      <4> QED
        BY <3>2, <4>3
    <3> QED
      BY <3>1, <3>2
  <2> QED
    BY <1>4, <1>8, <1>17, <2>1 DEF WritesStayInPage
<1> QED
  BY <1>18, <1>19, <1>20, <1>21, <1>22 DEF Inv, CarriesTellPages

LEMMA BranchKeepsInv ==
    ASSUME TypeOK, NEW name \in Branches, Branch(name)
    PROVE  Inv'
<1>1. PICK low \in Bytes : Fetch(name, "relative", low, 0)
  BY DEF Branch
<1>2. PICK s : s = cpu
  OBVIOUS
<1>3. PICK next : next = (pc + Size("relative")) % SPACE
  OBVIOUS
<1>4. PICK a : a = Effective("relative", low, 0, s, next)
  OBVIOUS
<1>5. /\ latest'.name = name /\ latest'.mode = "relative" /\ latest'.low = low
      /\ latest'.high = 0 /\ latest'.next = next /\ latest'.cpu = s
  BY <1>1, <1>2, <1>3 DEF Fetch
<1>6. s \in Machine /\ next \in Addresses
  BY <1>2, <1>3, NextTyped DEF TypeOK
<1>7. Target = a
  BY <1>2, <1>4, <1>5 DEF Target
<1>8. /\ a = (next + Offset(low)) % SPACE /\ a \in Addresses
      /\ pagesDiffer(next, a) <=> Low(next) + Offset(low) \notin Bytes
  BY <1>4, <1>6, BranchLeads
<1>9. /\ cpu' = s /\ running' = running
      /\ Taken(name, s) => pc' = a /\ cycles' = 3 + Bit(pagesDiffer(next, a))
      /\ ~Taken(name, s) => pc' = next /\ cycles' = 2
  BY <1>2, <1>5, <1>7, BranchCycles DEF Branch, Bit
<1>10. Bit(pagesDiffer(next, a)) = IF Low(next) + Offset(low) \in Bytes THEN 0 ELSE 1
  BY <1>8 DEF Bit
<1>11. TypeOK'
  <2>1. cycles' \in 0..8 /\ pc' \in Addresses
    BY <1>6, <1>8, <1>9, <1>10
  <2>2. executed' \in 0..MAX_INSTRUCTIONS
    BY <1>1, WordAssumption DEF Branch, CanExecute, Fetch, TypeOK
  <2> QED
    BY <1>6, <1>9, <2>1, <2>2 DEF TypeOK
<1>12. BranchesAreSigned'
  BY <1>5, <1>8, <1>9, <1>10 DEF BranchesAreSigned, Before, Offset
<1>13. ReadsPayForPage' /\ WritesStayInPage'
  BY <1>5, <1>9 DEF ReadsPayForPage, WritesStayInPage, Indexed, Before
<1>14. ArithmeticIsInteger'
  BY <1>5, OtherNames
<1> QED
  BY <1>11, <1>12, <1>13, <1>14 DEF Inv, CarriesTellPages

LEMMA JumpKeepsInv ==
    ASSUME TypeOK, jmp
    PROVE  Inv'
<1>1. PICK mode \in Modes("jmp"), low \in Bytes, high \in HIGH_BYTES :
        Fetch("jmp", mode, low, high)
  BY DEF jmp
<1>2. PICK s : s = cpu
  OBVIOUS
<1>3. PICK next : next = (pc + Size(mode)) % SPACE
  OBVIOUS
<1>4. /\ latest'.name = "jmp" /\ latest'.mode = mode /\ latest'.low = low
      /\ latest'.high = high /\ latest'.next = next /\ latest'.cpu = s
  BY <1>1, <1>2, <1>3 DEF Fetch
<1>5. /\ s \in Machine /\ next \in Addresses /\ high \in Bytes /\ mode \in AllModes
      /\ mode \in {"absolute", "indirect"} /\ instructionCycles("jmp", mode) \in {3, 5}
  BY <1>2, <1>3, NextTyped, OperandBytes, ModesAre, JumpCycles DEF TypeOK
<1>6. Target \in Addresses
  <2>1. Target = Effective(mode, low, high, s, next)
    BY <1>2, <1>4 DEF Target
  <2> QED
    BY <1>5, <2>1, EffectiveTyped
<1>7. cpu' = s /\ running' = running /\ pc' \in Addresses /\ cycles' \in {3, 5}
  BY <1>2, <1>4, <1>5, <1>6 DEF jmp
<1>8. executed' \in 0..MAX_INSTRUCTIONS
  BY <1>1, WordAssumption DEF jmp, CanExecute, Fetch, TypeOK
<1>9. TypeOK'
  BY <1>5, <1>7, <1>8 DEF TypeOK
<1>10. CarriesTellPages'
  BY <1>4, <1>5, <1>7, NamesDiffer
  DEF CarriesTellPages, ReadsPayForPage, BranchesAreSigned, WritesStayInPage, Indexed, Before
<1>11. ArithmeticIsInteger'
  BY <1>4, OtherNames
<1> QED
  BY <1>9, <1>10, <1>11 DEF Inv

LEMMA ThrowKeepsInv ==
    ASSUME TypeOK, NEW name \in Unimplemented, Throw(name)
    PROVE  Inv'
<1>1. latest'.name = name /\ latest'.mode = "implied" /\ latest'.cpu = cpu
  BY DEF Throw, Fetch
<1>2. TypeOK'
  <2>1. /\ executed \in 0..MAX_INSTRUCTIONS /\ executed < MAX_INSTRUCTIONS
        /\ executed' = executed + 1
    BY DEF Throw, CanExecute, Fetch, TypeOK
  <2>2. executed' \in 0..MAX_INSTRUCTIONS
    BY <2>1, WordAssumption
  <2> QED
    BY <2>2 DEF Throw, TypeOK
<1>3. CarriesTellPages'
  BY <1>1, NamesDiffer
  DEF CarriesTellPages, ReadsPayForPage, BranchesAreSigned, WritesStayInPage, Indexed,
      Before, Throw
<1>4. ArithmeticIsInteger'
  BY <1>1, OtherNames
<1> QED
  BY <1>2, <1>3, <1>4 DEF Inv

LEMMA StutterKeepsInv ==
    ASSUME Inv, UNCHANGED vars
    PROVE  Inv'
BY DEF Inv, vars, TypeOK, ArithmeticIsInteger, CarriesTellPages, IsSum, IsDifference,
       IsComparison, ReadsPayForPage, BranchesAreSigned, WritesStayInPage, Before,
       LatestAddress, LatestInfo, IndexedByte, Index

(* Every state has its types and what its latest instruction did is what   *)
(* ArithmeticIsInteger and CarriesTellPages say.                           *)
THEOREM InstructionsInvariance == Spec => []Inv
<1>1. Inv /\ [Next]_vars => Inv'
  <2> SUFFICES ASSUME Inv, [Next]_vars PROVE Inv'
    OBVIOUS
  <2>1. TypeOK
    BY DEF Inv
  <2>2. CASE \E name \in Computing : Compute(name)
    BY <2>1, <2>2, ComputeKeepsInv
  <2>3. CASE \E name \in Branches : Branch(name)
    BY <2>1, <2>3, BranchKeepsInv
  <2>4. CASE jmp
    BY <2>1, <2>4, JumpKeepsInv
  <2>5. CASE \E name \in Unimplemented : Throw(name)
    BY <2>1, <2>5, ThrowKeepsInv
  <2>6. CASE UNCHANGED vars
    BY <2>6, StutterKeepsInv
  <2> QED
    BY <2>2, <2>3, <2>4, <2>5, <2>6 DEF Next
<1> QED
  BY InitInv, <1>1, PTL DEF Spec

(* The registers, the memory and the program counter keep their width,     *)
(* whatever program runs and whatever the width.                           *)
THEOREM InstructionsTypeCorrect == Spec => []TypeOK
<1>1. Inv => TypeOK
  BY DEF Inv
<1> QED
  BY <1>1, InstructionsInvariance, PTL

(* Adding a complement subtracts, an overflow is told from signs rightly,  *)
(* shifts lose no bit, and the second half of a composed instruction finds *)
(* the byte and the carry of the first: for bytes of any width.            *)
THEOREM ArithmeticIsOfIntegers == Spec => []ArithmeticIsInteger
<1>1. Inv => ArithmeticIsInteger
  BY DEF Inv
<1> QED
  BY <1>1, InstructionsInvariance, PTL

(* Extra cycles, branch targets and written pages follow from carries out  *)
(* of a byte, at both ends of memory too.                                  *)
THEOREM PagesFollowCarries == Spec => []CarriesTellPages
<1>1. Inv => CarriesTellPages
  BY DEF Inv
<1> QED
  BY <1>1, InstructionsInvariance, PTL
=============================================================================
