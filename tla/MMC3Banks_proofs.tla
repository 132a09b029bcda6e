-------------------------- MODULE MMC3Banks_proofs --------------------------
(***************************************************************************)
(* Proofs about MMC3Banks, for every cartridge and every set of bytes that *)
(* BanksAssumption allows.                                                 *)
(***************************************************************************)
EXTENDS MMC3Banks, TLAPS

(* Once a port was written, the cached windows are the ones the registers  *)
(* ask for; before that they are the constructor's.                        *)
WindowsCached ==
    /\ synced => /\ cpuOffsets = CpuPages(bankIndexes, prgROMMode)
                 /\ ppuOffsets = PpuPages(bankIndexes, chrInversion)
    /\ ~synced => /\ cpuOffsets = [w \in CpuWindows |->
                                      computeCpuOffset(IF w < 2 THEN w ELSE w - 4)]
                  /\ ppuOffsets = [w \in PpuWindows |-> w]

(* The registers the program has set hold what it wrote. *)
SetHoldsBytes == \A r \in set : bankIndexes[r] \in BYTES

RegistersOK ==
    /\ currentBank \in Registers
    /\ bankIndexes \in [Registers -> 0..255]
    /\ prgROMMode \in BOOLEAN
    /\ chrInversion \in BOOLEAN
    /\ synced \in BOOLEAN
    /\ set \subseteq Registers

Inv == RegistersOK /\ WindowsCached /\ SetHoldsBytes

-----------------------------------------------------------------------------
(* The page arithmetic.                                                    *)

LEMMA ByteArithmetic ==
    ASSUME NEW byte \in 0..255
    PROVE  /\ Low6Bits(byte) \in 0..63
           /\ EvenBank(byte) \in 0..254
           /\ EvenBank(byte) % 2 = 0
           /\ EvenBank(byte) <= byte
           /\ OddBank(byte) = EvenBank(byte) + 1
           /\ byte <= OddBank(byte)
BY DEF Low6Bits, EvenBank, OddBank

(* A pair of pages that starts inside an even number of pages fits in it.  *)
LEMMA PairInsideROM ==
    ASSUME NEW byte \in 0..255, byte < CHR_PAGES
    PROVE  EvenBank(byte) \in 0..(CHR_PAGES - 1) /\ OddBank(byte) \in 0..(CHR_PAGES - 1)
BY BanksAssumption DEF EvenBank, OddBank

LEMMA CpuOffsets ==
    /\ computeCpuOffset(-1) = PRG_PAGES - 1
    /\ computeCpuOffset(-2) = PRG_PAGES - 2
    /\ \A n \in Nat : computeCpuOffset(n) = n
BY BanksAssumption DEF computeCpuOffset

-----------------------------------------------------------------------------

LEMMA InitInv == Init => Inv
BY BanksAssumption DEF Init, Inv, RegistersOK, WindowsCached, SetHoldsBytes

LEMMA SelectKeepsInv ==
    ASSUME Inv, NEW bank \in Registers, NEW mode \in BOOLEAN,
           NEW inversion \in BOOLEAN, writeBankSelect(bank, mode, inversion)
    PROVE  Inv'
BY DEF Inv, RegistersOK, WindowsCached, SetHoldsBytes, writeBankSelect,
       UpdateWindows

LEMMA DataKeepsInv ==
    ASSUME Inv, NEW value \in BYTES, writeBankData(value)
    PROVE  Inv'
<1>1. RegistersOK'
  BY BanksAssumption DEF Inv, RegistersOK, writeBankData
<1>2. WindowsCached'
  BY DEF WindowsCached, writeBankData, UpdateWindows
<1>3. SetHoldsBytes'
  BY DEF Inv, RegistersOK, SetHoldsBytes, writeBankData
<1> QED
  BY <1>1, <1>2, <1>3 DEF Inv

(* The cache always follows the registers, and what the program set is what*)
(* it wrote.                                                               *)
THEOREM CacheFollowsRegisters == Spec => []Inv
<1>1. Inv /\ [Next]_vars => Inv'
  <2>1. ASSUME Inv, UNCHANGED vars
        PROVE  Inv'
    BY <2>1 DEF Inv, RegistersOK, WindowsCached, SetHoldsBytes, vars
  <2> QED
    BY <2>1, SelectKeepsInv, DataKeepsInv DEF Next
<1> QED
  BY <1>1, InitInv, PTL DEF Spec

-----------------------------------------------------------------------------

(* 0xe000 shows the last page and the window that the mode locks the one   *)
(* before it, whatever garbage or program the registers hold.              *)
THEOREM FixedPagesStay == Spec => []FixedPages
<1>1. Inv => FixedPages
  <2> SUFFICES ASSUME Inv
               PROVE  FixedPages
    OBVIOUS
  <2>1. CASE synced
    BY <2>1, CpuOffsets
       DEF Inv, RegistersOK, WindowsCached, CpuPages, CpuWindows, FixedPages
  <2>2. CASE ~synced
    BY <2>2, CpuOffsets DEF Inv, WindowsCached, CpuWindows, FixedPages
  <2> QED
    BY <2>1, <2>2
<1> QED
  BY <1>1, CacheFollowsRegisters, PTL

(* The 2kB banks are aligned pairs of pages, in whichever half they are.   *)
THEOREM BigBanksStayPaired == Spec => []BigBanksPaired
<1>1. Inv => BigBanksPaired
  <2> SUFFICES ASSUME Inv, NEW w \in {0, 2}
               PROVE  LET low == IF chrInversion THEN w ELSE w + 4
                      IN  /\ ppuOffsets[low] % 2 = 0
                          /\ ppuOffsets[low + 1] = ppuOffsets[low] + 1
    BY DEF BigBanksPaired
  <2> DEFINE low == IF chrInversion THEN w ELSE w + 4
  <2>0. low \in PpuWindows /\ low + 1 \in PpuWindows /\ low % 2 = 0
    BY DEF PpuWindows
  <2>1. CASE synced
    <3>1. /\ FromBigBanks(low, chrInversion) = w
          /\ FromBigBanks(low + 1, chrInversion) = w + 1
      BY DEF FromBigBanks
    <3>2. /\ PpuRegister(low, chrInversion) = w \div 2
          /\ PpuRegister(low + 1, chrInversion) = w \div 2
          /\ w \div 2 \in Registers
      BY <3>1 DEF PpuRegister, Registers
    <3>3. /\ ppuOffsets[low] = EvenBank(bankIndexes[w \div 2])
          /\ ppuOffsets[low + 1] = OddBank(bankIndexes[w \div 2])
      BY <2>0, <2>1, <3>1, <3>2 DEF Inv, WindowsCached, PpuPages
    <3>4. bankIndexes[w \div 2] \in 0..255
      BY <3>2 DEF Inv, RegistersOK
    <3> DEFINE byte == bankIndexes[w \div 2]
    <3>5. EvenBank(byte) % 2 = 0 /\ OddBank(byte) = EvenBank(byte) + 1
      BY <3>4, ByteArithmetic
    <3>6. /\ ppuOffsets[low] % 2 = 0
          /\ ppuOffsets[low + 1] = ppuOffsets[low] + 1
      BY <3>3, <3>5
    <3> QED
      BY <3>6
  <2>2. CASE ~synced
    BY <2>0, <2>2 DEF Inv, WindowsCached
  <2> QED
    BY <2>1, <2>2
<1> QED
  BY <1>1, CacheFollowsRegisters, PTL

(* A window whose register the program set shows a page of its ROM, though *)
(* the registers the program has not set may hold anything.                *)
THEOREM SetWindowsAreInsideROM == Spec => []SetWindowsInsideROM
<1>1. Inv => SetWindowsInsideROM
  <2> SUFFICES ASSUME Inv, synced
               PROVE  /\ \A w \in CpuWindows : CpuRegister(w) \subseteq set
                             => cpuOffsets[w] \in 0..(PRG_PAGES - 1)
                      /\ \A w \in PpuWindows : PpuRegister(w, chrInversion) \in set
                             => ppuOffsets[w] \in 0..(CHR_PAGES - 1)
    BY DEF SetWindowsInsideROM
  <2> USE BanksAssumption DEF Inv, RegistersOK, WindowsCached
  <2>1. ASSUME NEW w \in CpuWindows, CpuRegister(w) \subseteq set
        PROVE  cpuOffsets[w] \in 0..(PRG_PAGES - 1)
    <3>1. ASSUME NEW r \in {6, 7}, r \in set
          PROVE  computeCpuOffset(Low6Bits(bankIndexes[r])) \in 0..(PRG_PAGES - 1)
      BY <3>1 DEF SetHoldsBytes, computeCpuOffset, Low6Bits
    <3>2. cpuOffsets[w] = CpuPages(bankIndexes, prgROMMode)[w]
      OBVIOUS
    <3> QED
      BY <2>1, <3>1, <3>2, CpuOffsets DEF CpuPages, CpuRegister, CpuWindows
  <2>2. ASSUME NEW w \in PpuWindows, PpuRegister(w, chrInversion) \in set
        PROVE  ppuOffsets[w] \in 0..(CHR_PAGES - 1)
    <3> DEFINE byte == bankIndexes[PpuRegister(w, chrInversion)]
    <3>1. byte \in 0..255 /\ byte < CHR_PAGES
      BY <2>2 DEF SetHoldsBytes
    <3>2. ppuOffsets[w] \in {byte, EvenBank(byte), OddBank(byte)}
      BY <2>2 DEF PpuPages
    <3>3. /\ EvenBank(byte) \in 0..(CHR_PAGES - 1)
          /\ OddBank(byte) \in 0..(CHR_PAGES - 1)
      BY <3>1, PairInsideROM
    <3>4. byte \in 0..(CHR_PAGES - 1)
      BY <3>1
    <3> QED
      BY <3>2, <3>3, <3>4
  <2> QED
    BY <2>1, <2>2
<1> QED
  BY <1>1, CacheFollowsRegisters, PTL

-----------------------------------------------------------------------------

(* Flipping a mode bit only exchanges windows.                             *)
THEOREM ModeFlipsOnlyExchange == Spec => ModeFlipsExchange
<1> DEFINE prg(w) == IF prgROMMode' # prgROMMode /\ w \in {0, 2} THEN 2 - w ELSE w
           chr(w) == IF chrInversion' # chrInversion THEN (w + 4) % 8 ELSE w
           Exchanged == /\ \A w \in CpuWindows : cpuOffsets'[w] = cpuOffsets[prg(w)]
                        /\ \A w \in PpuWindows : ppuOffsets'[w] = ppuOffsets[chr(w)]
<1>1. ASSUME Inv, Inv', Next, synced, UNCHANGED bankIndexes
      PROVE  Exchanged
  <2>1. /\ cpuOffsets = CpuPages(bankIndexes, prgROMMode)
        /\ ppuOffsets = PpuPages(bankIndexes, chrInversion)
        /\ prgROMMode \in BOOLEAN /\ chrInversion \in BOOLEAN
    BY <1>1 DEF Inv, WindowsCached, RegistersOK
  <2>2. /\ cpuOffsets' = CpuPages(bankIndexes, prgROMMode')
        /\ ppuOffsets' = PpuPages(bankIndexes, chrInversion')
        /\ prgROMMode' \in BOOLEAN /\ chrInversion' \in BOOLEAN
    BY <1>1 DEF Inv, RegistersOK, Next, writeBankSelect, writeBankData,
                UpdateWindows
  <2>3. ASSUME NEW w \in CpuWindows
        PROVE  cpuOffsets'[w] = cpuOffsets[prg(w)]
    BY <2>1, <2>2 DEF CpuPages, CpuWindows
  <2>4. ASSUME NEW w \in PpuWindows
        PROVE  ppuOffsets'[w] = ppuOffsets[chr(w)]
    <3>1. chr(w) \in PpuWindows
      BY DEF PpuWindows
    <3>2. FromBigBanks(w, chrInversion') = FromBigBanks(chr(w), chrInversion)
      BY <2>1, <2>2 DEF FromBigBanks, PpuWindows
    <3> HIDE DEF chr
    <3> QED
      BY <2>1, <2>2, <3>1, <3>2 DEF PpuPages, PpuRegister
  <2> QED
    BY <2>3, <2>4
<1>2. ASSUME Inv, Inv', [Next]_vars
      PROVE  [synced /\ UNCHANGED bankIndexes => Exchanged]_vars
  BY <1>1, <1>2
<1> QED
  BY <1>2, CacheFollowsRegisters, PTL DEF Spec, ModeFlipsExchange

(* The cached windows hold page numbers, none of them negative, though     *)
(* pages are counted from the end of the ROM and registers start as        *)
(* garbage.                                                                *)
THEOREM BanksTypeCorrect == Spec => []TypeOK
<1>1. Inv => TypeOK
  <2> SUFFICES ASSUME Inv
               PROVE  TypeOK
    OBVIOUS
  <2> USE DEF Inv, RegistersOK, WindowsCached
  <2>1. cpuOffsets \in [CpuWindows -> Nat]
    <3>1. \A n \in {6, 7} : computeCpuOffset(Low6Bits(bankIndexes[n])) \in Nat
      <4> TAKE n \in {6, 7}
      <4>1. bankIndexes[n] \in 0..255
        BY DEF Registers
      <4>2. Low6Bits(bankIndexes[n]) \in Nat
        BY <4>1 DEF Low6Bits
      <4> QED
        BY <4>2, CpuOffsets
    <3>2. computeCpuOffset(-1) \in Nat /\ computeCpuOffset(-2) \in Nat
      BY CpuOffsets, BanksAssumption
    <3>3. CASE synced
      <4>1. \A w \in CpuWindows : CpuPages(bankIndexes, prgROMMode)[w] \in Nat
        <5> TAKE w \in CpuWindows
        <5>1. CpuPages(bankIndexes, prgROMMode)[w] \in
                  {computeCpuOffset(-1), computeCpuOffset(-2),
                   computeCpuOffset(Low6Bits(bankIndexes[6])),
                   computeCpuOffset(Low6Bits(bankIndexes[7]))}
          <6> HIDE DEF Inv, RegistersOK, WindowsCached
          <6> QED
            BY DEF CpuPages, CpuWindows
        <5> QED
          BY <3>1, <3>2, <5>1
      <4>2. CpuPages(bankIndexes, prgROMMode) = [w \in CpuWindows |-> CpuPages(bankIndexes, prgROMMode)[w]]
        BY DEF CpuPages
      <4> QED
        BY <3>3, <4>1, <4>2
    <3>4. CASE ~synced
      BY <3>2, <3>4, CpuOffsets DEF CpuWindows
    <3> QED
      BY <3>3, <3>4
  <2>2. ppuOffsets \in [PpuWindows -> 0..255]
    <3>1. \A w \in PpuWindows : PpuRegister(w, chrInversion) \in Registers
      BY DEF PpuRegister, FromBigBanks, PpuWindows, Registers
    <3>2. \A byte \in 0..255 : EvenBank(byte) \in 0..255 /\ OddBank(byte) \in 0..255
      BY DEF EvenBank, OddBank
    <3>3. CASE synced
      <4>1. \A w \in PpuWindows : PpuPages(bankIndexes, chrInversion)[w] \in 0..255
        <5> TAKE w \in PpuWindows
        <5>1. bankIndexes[PpuRegister(w, chrInversion)] \in 0..255
          BY <3>1
        <5> QED
          BY <3>2, <5>1 DEF PpuPages
      <4>2. PpuPages(bankIndexes, chrInversion) = [w \in PpuWindows |-> PpuPages(bankIndexes, chrInversion)[w]]
        BY DEF PpuPages
      <4> QED
        BY <3>3, <4>1, <4>2
    <3>4. CASE ~synced
      BY <3>4 DEF PpuWindows
    <3> QED
      BY <3>3, <3>4
  <2> QED
    BY <2>1, <2>2 DEF TypeOK
<1> QED
  BY <1>1, CacheFollowsRegisters, PTL

(* Setting one register moves no window that another register governs.     *)
THEOREM DataMovesOwnWindowsOnly == Spec => DataMovesOwnWindows
<1> DEFINE Kept ==
      /\ \A w \in CpuWindows :
             currentBank \notin CpuRegister(w) => cpuOffsets'[w] = cpuOffsets[w]
      /\ \A w \in PpuWindows :
             currentBank # PpuRegister(w, chrInversion)
                 => ppuOffsets'[w] = ppuOffsets[w]
<1>1. ASSUME Inv, Next, synced, UNCHANGED <<prgROMMode, chrInversion>>
      PROVE  Kept
  <2>1. /\ cpuOffsets = CpuPages(bankIndexes, prgROMMode)
        /\ ppuOffsets = PpuPages(bankIndexes, chrInversion)
        /\ bankIndexes \in [Registers -> 0..255]
    BY <1>1 DEF Inv, WindowsCached, RegistersOK
  <2>2. /\ cpuOffsets' = CpuPages(bankIndexes', prgROMMode)
        /\ ppuOffsets' = PpuPages(bankIndexes', chrInversion)
    BY <1>1 DEF Next, writeBankSelect, writeBankData, UpdateWindows
  <2>3. \A r \in Registers : r # currentBank => bankIndexes'[r] = bankIndexes[r]
    BY <1>1, <2>1 DEF Next, writeBankSelect, writeBankData
  <2>4. ASSUME NEW w \in CpuWindows, currentBank \notin CpuRegister(w)
        PROVE  cpuOffsets'[w] = cpuOffsets[w]
    BY <2>1, <2>2, <2>3, <2>4 DEF CpuPages, CpuRegister, CpuWindows, Registers
  <2>5. ASSUME NEW w \in PpuWindows, currentBank # PpuRegister(w, chrInversion)
        PROVE  ppuOffsets'[w] = ppuOffsets[w]
    <3>1. PpuRegister(w, chrInversion) \in Registers
      BY DEF PpuRegister, FromBigBanks, PpuWindows, Registers
    <3> QED
      BY <2>1, <2>2, <2>3, <2>5, <3>1 DEF PpuPages
  <2> QED
    BY <2>4, <2>5
<1>2. ASSUME Inv, [Next]_vars
      PROVE  [synced /\ UNCHANGED <<prgROMMode, chrInversion>> => Kept]_vars
  BY <1>1, <1>2
<1> QED
  BY <1>2, CacheFollowsRegisters, PTL DEF Spec, DataMovesOwnWindows
=============================================================================
