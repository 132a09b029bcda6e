--------------------------- MODULE Console_proofs ---------------------------
(***************************************************************************)
(* Proofs about Console and the PPUTiming within it.  The first part is    *)
(* about PPUTiming alone, and uses no constant but those of                *)
(* TimingAssumption.  The second shows that the console uses the PPU as    *)
(* PPUTiming says, so that all of the first part holds in the console too, *)
(* and goes on to the console's own waits and interrupts, for every        *)
(* screen, every latch and every length of instructions and waits.         *)
(***************************************************************************)
EXTENDS Console, TLAPS

-----------------------------------------------------------------------------
(* The PPU's timing.                                                       *)


(* The inductive invariant is the conjunction of the safety invariants: to *)
(* show that a countdown stays in its line one needs its relation to the   *)
(* dot number, to show that the next one starts from zero one needs that   *)
(* the flag and the edge detector are down when the blank begins.          *)
Inv ==
    /\ TypeOK
    /\ DelayTellsPosition
    /\ FlagOnlyInBlank
    /\ EdgeForgottenWithFlag
    /\ MapperClockOutsideBlank

-----------------------------------------------------------------------------

LEMMA InitInv == Init => Inv
<1> SUFFICES ASSUME Init
             PROVE  Inv
  OBVIOUS
<1>1. TypeOK
  <2>1. /\ clock \in 0..(CLOCK_CYCLE - 1)
        /\ scanLine \in 0..PRE_RENDER_SCAN_LINE
        /\ nmiDelay \in 0..NMI_DELAY
    BY TimingAssumption DEF Init
  <2> QED
    BY <2>1 DEF Init, TypeOK
<1>2. DelayTellsPosition /\ FlagOnlyInBlank
  BY DEF Init, DelayTellsPosition, FlagOnlyInBlank
<1>3. EdgeForgottenWithFlag /\ MapperClockOutsideBlank
  BY DEF Init, EdgeForgottenWithFlag, MapperClockOutsideBlank
<1> QED
  BY <1>1, <1>2, <1>3 DEF Inv

(* What tick does to the position, and what was true before each of the    *)
(* dots that the vertical blank hangs on.                                  *)
LEMMA TickMoves ==
    ASSUME Inv, tick
    PROVE  /\ clock' \in 0..(CLOCK_CYCLE - 1)
           /\ scanLine' \in 0..PRE_RENDER_SCAN_LINE
           /\ isEvenScreen' \in BOOLEAN
           /\ clock' # 0 => clock' = clock + 1 /\ scanLine' = scanLine
           /\ clock' = 0 => \/ /\ scanLine = PRE_RENDER_SCAN_LINE
                               /\ clock >= CLOCK_CYCLE - 2
                               /\ scanLine' = 0
                            \/ EndsLine /\ scanLine' = scanLine + 1
<1> USE TimingAssumption
<1>0. /\ clock \in 0..(CLOCK_CYCLE - 1)
      /\ scanLine \in 0..PRE_RENDER_SCAN_LINE
  BY DEF Inv, TypeOK
<1>p. isEvenScreen' \in BOOLEAN
  <2>1. isEvenScreen \in BOOLEAN
    BY DEF Inv, TypeOK
  <2> QED
    BY <2>1, Zenon DEF tick
<1>1. CASE SkipsDot
  BY <1>0, <1>1, <1>p DEF tick, NextClock, NextScanLine, EndsFrame, SkipsDot
<1>2. CASE ~SkipsDot /\ EndsLine
  BY <1>0, <1>2, <1>p DEF tick, NextClock, NextScanLine, EndsFrame, EndsLine
<1>3. CASE ~SkipsDot /\ ~EndsLine
  BY <1>0, <1>3, <1>p DEF tick, NextClock, NextScanLine, EndsFrame, EndsLine
<1> QED
  BY <1>1, <1>2, <1>3

(* A countdown is over before its line is: it reaches zero at dot          *)
(* NMI_DELAY + 1, and there is none when a blank begins or ends.           *)
LEMMA CountdownFitsInLine ==
    ASSUME Inv, tick
    PROVE  /\ DelayAfterTick \in 0..NMI_DELAY
           /\ DelayAfterTick > 0 =>
                  /\ scanLine' = POST_RENDER_SCAN_LINE + 1
                  /\ clock' + DelayAfterTick = NMI_DELAY + 1
           /\ SetsVBlank \/ ClearsVBlank =>
                  /\ nmiDelay = 0
                  /\ DelayAfterTick = 0
           /\ SetsVBlank => ~nmiOccured /\ ~nmiPrevious
           /\ RaisesNmi => scanLine' = POST_RENDER_SCAN_LINE + 1
<1>1. DelayAfterTick \in 0..NMI_DELAY
  BY TimingAssumption DEF Inv, TypeOK, DelayAfterTick
<1>2. nmiDelay > 0 => /\ scanLine' = POST_RENDER_SCAN_LINE + 1
                      /\ clock' = clock + 1
  BY TimingAssumption
     DEF Inv, TypeOK, DelayTellsPosition, tick, NextClock, NextScanLine,
         EndsFrame, EndsLine, SkipsDot
<1>3. DelayAfterTick > 0 => /\ scanLine' = POST_RENDER_SCAN_LINE + 1
                            /\ clock' + DelayAfterTick = NMI_DELAY + 1
  BY <1>2, TimingAssumption
     DEF Inv, TypeOK, DelayTellsPosition, DelayAfterTick
<1>4. SetsVBlank \/ ClearsVBlank => nmiDelay = 0 /\ DelayAfterTick = 0
  BY <1>2, TickMoves, TimingAssumption
     DEF Inv, TypeOK, DelayTellsPosition, SetsVBlank, ClearsVBlank,
         DelayAfterTick
<1>5. SetsVBlank => ~nmiOccured /\ ~nmiPrevious
  BY TickMoves, TimingAssumption
     DEF Inv, TypeOK, FlagOnlyInBlank, EdgeForgottenWithFlag, SetsVBlank
<1>6. RaisesNmi => scanLine' = POST_RENDER_SCAN_LINE + 1
  BY <1>2 DEF Inv, TypeOK, RaisesNmi
<1> QED
  BY <1>1, <1>3, <1>4, <1>5, <1>6

LEMMA DotKeepsInv ==
    ASSUME Inv, Dot
    PROVE  Inv'
<1> USE TimingAssumption
<1>1. tick /\ UpdateVBlank
  BY DEF Dot
<1>2. TypeOK'
  <2>1. nmiOccured' \in BOOLEAN /\ nmiPrevious' \in BOOLEAN
    BY <1>1 DEF Inv, TypeOK, UpdateVBlank, setVerticalBlank,
                clearVerticalBlank, nmiChange
  <2>2. nmiDelay' \in 0..NMI_DELAY
    BY <1>1, CountdownFitsInLine
       DEF UpdateVBlank, setVerticalBlank, clearVerticalBlank, nmiChange
  <2>3. /\ rendering' \in BOOLEAN
        /\ nmiFlag' \in BOOLEAN
        /\ calls' \subseteq {"triggerNmi", "render", "clockIRQCounter"}
    BY DEF Inv, TypeOK, Dot
  <2> QED
    BY <1>1, <2>1, <2>2, <2>3, TickMoves DEF TypeOK
<1>3. DelayTellsPosition'
  <2>1. CASE SetsVBlank
    BY <1>1, <2>1, CountdownFitsInLine
       DEF UpdateVBlank, setVerticalBlank, clearVerticalBlank, nmiChange,
           SetsVBlank, ClearsVBlank, DelayTellsPosition
  <2>2. CASE ClearsVBlank
    BY <1>1, <2>2, CountdownFitsInLine
       DEF UpdateVBlank, setVerticalBlank, clearVerticalBlank, nmiChange,
           SetsVBlank, ClearsVBlank, DelayTellsPosition
  <2>3. CASE ~SetsVBlank /\ ~ClearsVBlank
    BY <1>1, <2>3, CountdownFitsInLine DEF UpdateVBlank, DelayTellsPosition
  <2> QED
    BY <2>1, <2>2, <2>3
<1>4. FlagOnlyInBlank'
  <2>1. CASE SetsVBlank
    BY <2>1 DEF SetsVBlank, FlagOnlyInBlank
  <2>2. CASE ClearsVBlank
    BY <1>1, <2>2
       DEF UpdateVBlank, SetsVBlank, ClearsVBlank, clearVerticalBlank,
           FlagOnlyInBlank
  <2>3. CASE ~SetsVBlank /\ ~ClearsVBlank
    <3>1. nmiOccured' => nmiOccured
      BY <1>1, <2>3 DEF UpdateVBlank
    <3>2. /\ clock \in 0..(CLOCK_CYCLE - 1)
          /\ scanLine \in 0..PRE_RENDER_SCAN_LINE
      BY DEF Inv, TypeOK
    <3> SUFFICES ASSUME nmiOccured'
                 PROVE  FlagOnlyInBlank'
      BY DEF FlagOnlyInBlank
    <3>3. \/ scanLine = POST_RENDER_SCAN_LINE + 1 /\ clock >= 1
          \/ scanLine
               \in (POST_RENDER_SCAN_LINE + 2)..(PRE_RENDER_SCAN_LINE - 1)
          \/ scanLine = PRE_RENDER_SCAN_LINE /\ clock = 0
      BY <3>1 DEF Inv, FlagOnlyInBlank
    <3>4. \/ scanLine' = POST_RENDER_SCAN_LINE + 1 /\ clock' >= 1
          \/ scanLine'
               \in (POST_RENDER_SCAN_LINE + 2)..(PRE_RENDER_SCAN_LINE - 1)
          \/ scanLine' = PRE_RENDER_SCAN_LINE /\ clock' = 0
      <4>1. CASE clock' # 0
        BY <1>1, <2>3, <3>2, <3>3, <4>1, TickMoves DEF ClearsVBlank
      <4>2. CASE clock' = 0
        BY <1>1, <3>2, <3>3, <4>2, TickMoves DEF EndsLine
      <4> QED
        BY <4>1, <4>2
    <3> QED
      BY <3>4 DEF FlagOnlyInBlank
  <2> QED
    BY <2>1, <2>2, <2>3
<1>5. EdgeForgottenWithFlag'
  <2>1. CASE setVerticalBlank \/ clearVerticalBlank
    BY <2>1, Zenon
       DEF EdgeForgottenWithFlag, setVerticalBlank, clearVerticalBlank,
           nmiChange
  <2>2. CASE UNCHANGED <<nmiOccured, nmiPrevious>>
    BY <2>2 DEF Inv, EdgeForgottenWithFlag
  <2> QED
    BY <1>1, <2>1, <2>2 DEF UpdateVBlank
<1>6. MapperClockOutsideBlank'
  <2> SUFFICES ASSUME "clockIRQCounter" \in calls'
               PROVE  /\ ~nmiOccured'
                      /\ nmiDelay' = 0
                      /\ "triggerNmi" \notin calls'
    BY DEF MapperClockOutsideBlank
  <2>1. IsFetchLine(scanLine') /\ clock' = IRQ_CLOCK
    BY DEF Dot, ClocksMapper
  <2>2. scanLine' # POST_RENDER_SCAN_LINE + 1
    BY <2>1, <1>2 DEF IsFetchLine, TypeOK
  <2>3. ~RaisesNmi
    BY <1>1, <2>2, CountdownFitsInLine
  <2>4. "triggerNmi" \notin calls'
    BY <2>3 DEF Dot
  <2>5. nmiDelay' = 0
    <3>1. nmiDelay' \in 0..NMI_DELAY
      BY <1>2 DEF TypeOK
    <3> QED
      BY <1>3, <2>2, <3>1 DEF DelayTellsPosition
  <2>6. ~nmiOccured'
    BY <1>2, <1>4, <2>1, <2>2 DEF FlagOnlyInBlank, IsFetchLine, TypeOK
  <2> QED
    BY <2>4, <2>5, <2>6
<1> QED
  BY <1>2, <1>3, <1>4, <1>5, <1>6 DEF Inv

LEMMA AccessKeepsInv ==
    ASSUME Inv, Access
    PROVE  Inv'
<1>1. ASSUME NEW enable \in BOOLEAN, writePPUCTRL(enable)
      PROVE  Inv'
  BY <1>1
     DEF Inv, TypeOK, DelayTellsPosition, FlagOnlyInBlank, position,
         EdgeForgottenWithFlag, MapperClockOutsideBlank, writePPUCTRL
<1>2. ASSUME NEW show \in BOOLEAN, writePPUMASK(show)
      PROVE  Inv'
  BY <1>2
     DEF Inv, TypeOK, DelayTellsPosition, FlagOnlyInBlank, position,
         EdgeForgottenWithFlag, MapperClockOutsideBlank, writePPUMASK
<1>3. ASSUME readPPUSTATUS
      PROVE  Inv'
  BY <1>3
     DEF Inv, TypeOK, DelayTellsPosition, FlagOnlyInBlank, position,
         EdgeForgottenWithFlag, MapperClockOutsideBlank, readPPUSTATUS
<1> QED
  BY <1>1, <1>2, <1>3 DEF Access

LEMMA StutterKeepsInv ==
    ASSUME Inv, UNCHANGED vars
    PROVE  Inv'
BY DEF Inv, TypeOK, DelayTellsPosition, FlagOnlyInBlank, vars,
       EdgeForgottenWithFlag, MapperClockOutsideBlank

-----------------------------------------------------------------------------

(* All the safety invariants hold in every reachable state, whatever the   *)
(* screen and the delay.                                                   *)
THEOREM Invariance == Spec => []Inv
<1>1. Init => Inv
  BY InitInv
<1>2. Inv /\ [Next]_vars => Inv'
  BY DotKeepsInv, AccessKeepsInv, StutterKeepsInv DEF Next
<1> QED
  BY <1>1, <1>2, PTL DEF Spec

(* Every variable keeps its type; clock and scanLine stay on the screen.   *)
THEOREM TypeCorrect == Spec => []TypeOK
<1>1. Inv => TypeOK
  BY DEF Inv
<1> QED
  BY <1>1, Invariance, PTL

(* An NMI comes NMI_DELAY dots after the flag, and countdowns never meet.  *)
THEOREM DelayIsPunctual == Spec => []DelayTellsPosition
<1>1. Inv => DelayTellsPosition
  BY DEF Inv
<1> QED
  BY <1>1, Invariance, PTL

(* PPUSTATUS never returns the flag of a blank that is over.               *)
THEOREM FlagIsFresh == Spec => []FlagOnlyInBlank
<1>1. Inv => FlagOnlyInBlank
  BY DEF Inv
<1> QED
  BY <1>1, Invariance, PTL

(* No register access leaves the edge detector set for the next blank.     *)
THEOREM EdgeIsForgotten == Spec => []EdgeForgottenWithFlag
<1>1. Inv => EdgeForgottenWithFlag
  BY DEF Inv
<1> QED
  BY <1>1, Invariance, PTL

(* The mapper is clocked on drawn lines only.                              *)
THEOREM MapperClockIsOutsideBlank == Spec => []MapperClockOutsideBlank
<1>1. Inv => MapperClockOutsideBlank
  BY DEF Inv
<1> QED
  BY <1>1, Invariance, PTL

-----------------------------------------------------------------------------

(* The two halves of a dot, as VBlankNMI sees them.  A dot that moves the  *)
(* vertical blank raises no NMI; any other dot settles what is owed when   *)
(* the countdown ends and changes nothing else.                            *)
LEMMA DotRefines ==
    ASSUME Inv, Dot
    PROVE  [Abstract!Next]_Abstract!vars
<1> USE DEF Abstract!Next
<1>1. tick /\ UpdateVBlank /\ UNCHANGED nmiFlag
  BY DEF Dot
<1>2. ("triggerNmi" \in calls') <=> RaisesNmi
  BY DEF Dot
<1>3. CASE SetsVBlank
  <2>1. nmiDelay = 0 /\ DelayAfterTick = 0 /\ ~nmiOccured /\ ~nmiPrevious
    BY <1>1, <1>3, CountdownFitsInLine
  <2>2. ~ClearsVBlank
    BY <1>3, TimingAssumption DEF SetsVBlank, ClearsVBlank
  <2>3. setVerticalBlank
    BY <1>1, <1>3, <2>2 DEF UpdateVBlank
  <2>4. nmiDelay' = IF nmiFlag THEN NMI_DELAY ELSE 0
    BY <2>1, <2>3 DEF setVerticalBlank, nmiChange
  <2>5. (nmiDelay' > 0) <=> nmiFlag
    BY <2>4, TimingAssumption
  <2>6. ~RaisesNmi
    BY <2>1 DEF RaisesNmi
  <2>7. ("triggerNmi" \in calls)' = FALSE
    BY <1>2, <2>6
  <2>8. nmiOccured' = TRUE
    BY <2>3 DEF setVerticalBlank
  <2>9. (nmiDelay > 0 /\ nmiOccured)' = nmiFlag
    <3>1. nmiFlag \in BOOLEAN
      BY DEF Inv, TypeOK
    <3> QED
      BY <2>5, <2>8, <3>1
  <2> QED
    BY <1>1, <2>1, <2>7, <2>8, <2>9 DEF Abstract!BeginBlank
<1>4. CASE ClearsVBlank
  <2>1. nmiDelay = 0 /\ DelayAfterTick = 0
    BY <1>1, <1>4, CountdownFitsInLine
  <2>2. ~SetsVBlank
    BY <1>4, TimingAssumption DEF SetsVBlank, ClearsVBlank
  <2>3. clearVerticalBlank
    BY <1>1, <1>4, <2>2 DEF UpdateVBlank
  <2>4. nmiDelay' = 0
    BY <2>1, <2>3 DEF clearVerticalBlank, nmiChange
  <2>5. ~RaisesNmi
    BY <2>1 DEF RaisesNmi
  <2>6. ~(nmiDelay > 0) /\ ~(nmiDelay' > 0)
    BY <2>1, <2>4
  <2>7. ("triggerNmi" \in calls)' = FALSE
    BY <1>2, <2>5
  <2>8. nmiOccured' = FALSE
    BY <2>3 DEF clearVerticalBlank
  <2>9. UNCHANGED (nmiDelay > 0 /\ nmiOccured)
    BY <2>6
  <2>10. CASE nmiOccured
    BY <1>1, <2>6, <2>7, <2>8, <2>9, <2>10 DEF Abstract!EndBlank
  <2>11. CASE ~nmiOccured
    <3>1. UNCHANGED nmiOccured
      BY <2>8, <2>11 DEF Inv, TypeOK
    <3> QED
      BY <1>1, <2>7, <2>9, <3>1 DEF Abstract!Pass
  <2> QED
    BY <2>10, <2>11
<1>5. CASE ~SetsVBlank /\ ~ClearsVBlank
  <2>1. nmiDelay' = DelayAfterTick /\ UNCHANGED nmiOccured
    BY <1>1, <1>5 DEF UpdateVBlank
  <2>2. nmiDelay \in 0..NMI_DELAY /\ nmiOccured \in BOOLEAN /\ nmiFlag \in BOOLEAN
    BY DEF Inv, TypeOK
  <2>3. CASE nmiDelay = 1 /\ nmiOccured
    <3>1. nmiDelay > 0 /\ ~(nmiDelay' > 0)
      BY <2>1, <2>3 DEF DelayAfterTick
    <3>2. (nmiDelay > 0 /\ nmiOccured)' = FALSE
      BY <3>1
    <3>3. ("triggerNmi" \in calls)' = nmiFlag
      BY <1>2, <2>2, <2>3 DEF RaisesNmi
    <3> QED
      BY <1>1, <2>1, <2>3, <3>1, <3>2, <3>3 DEF Abstract!Settle
  <2>4. CASE ~(nmiDelay = 1 /\ nmiOccured)
    <3>1. ~RaisesNmi
      BY <2>4 DEF RaisesNmi
    <3>2. nmiOccured => ((nmiDelay' > 0) <=> (nmiDelay > 0))
      <4>1. nmiDelay # 1 => ((nmiDelay' > 0) <=> (nmiDelay > 0))
        BY <2>1, <2>2, TimingAssumption DEF DelayAfterTick
      <4> QED
        BY <2>4, <4>1
    <3>3. ("triggerNmi" \in calls)' = FALSE
      BY <1>2, <3>1
    <3>4. UNCHANGED (nmiDelay > 0 /\ nmiOccured)
      BY <2>1, <3>2
    <3> QED
      BY <1>1, <2>1, <3>3, <3>4 DEF Abstract!Pass
  <2> QED
    BY <2>3, <2>4
<1> QED
  BY <1>3, <1>4, <1>5

LEMMA AccessRefines ==
    ASSUME Inv, Access
    PROVE  [Abstract!Next]_Abstract!vars
<1> USE DEF Abstract!Next
<1>1. ASSUME NEW enable \in BOOLEAN, writePPUCTRL(enable)
      PROVE  Abstract!SetEnabled
  BY <1>1 DEF writePPUCTRL, Abstract!SetEnabled
<1>2. ASSUME NEW show \in BOOLEAN, writePPUMASK(show)
      PROVE  Abstract!Pass
  BY <1>2 DEF writePPUMASK, Abstract!Pass
<1>3. ASSUME readPPUSTATUS
      PROVE  Abstract!ReadFlag
  BY <1>3 DEF readPPUSTATUS, Abstract!ReadFlag
<1> QED
  BY <1>1, <1>2, <1>3 DEF Access

(* Every behaviour of the dot clock, seen through nmiFlag, nmiOccured, the *)
(* countdown and the calls, is one VBlankNMI allows: a blank raises at     *)
(* most one NMI, only if it began with NMIs enabled, and none after        *)
(* PPUSTATUS was read.  This is the safety part of ImplementsVBlankNMI.    *)
THEOREM RefinesVBlankNMI == Spec => Abstract!SafeSpec
<1>1. Init => Abstract!Init
  BY DEF Init, Abstract!Init
<1>2. Inv /\ [Next]_vars => [Abstract!Next]_Abstract!vars
  <2>1. ASSUME Inv, UNCHANGED vars
        PROVE  UNCHANGED Abstract!vars
    BY <2>1 DEF vars, Abstract!vars
  <2> QED
    BY <2>1, DotRefines, AccessRefines DEF Next
<1> QED
  BY <1>1, <1>2, Invariance, PTL DEF Spec, Abstract!SafeSpec

-----------------------------------------------------------------------------
(* The PPU within the console.                                             *)


(* PPUCTRL's bit is a Boolean whoever writes it: an idle PPU is then one   *)
(* whose program writes to PPUCTRL what is there already.                  *)
FlagIsBoolean == nmiFlag \in BOOLEAN

LEMMA IdleIsAccess ==
  ASSUME FlagIsBoolean, PPUIdle
  PROVE  Access
<1>1. writePPUCTRL(nmiFlag)
  BY DEF PPUIdle, writePPUCTRL
<1> QED
  BY <1>1 DEF FlagIsBoolean, Access

(* What a step of the CPU does to the PPU. *)
LEMMA CpuStepUsesPPU ==
  ASSUME FlagIsBoolean, CpuStep
  PROVE  Access
<1>1. PPUIdle \/ Access
  BY DEF CpuStep, Wait, Execute, Ordinary, brk, AccessPPU, writeOAMDMA, AccessMapper
<1> QED
  BY <1>1, IdleIsAccess

LEMMA ConsoleStepUsesPPU ==
  ASSUME FlagIsBoolean, [ConsoleNext]_consoleVars
  PROVE  [Next]_vars
<1>1. CASE CpuStep
  BY <1>1, CpuStepUsesPPU DEF Next
<1>2. CASE NextDot
  BY <1>2 DEF NextDot, Next
<1>3. CASE UNCHANGED consoleVars
  BY <1>3 DEF consoleVars
<1> QED
  BY <1>1, <1>2, <1>3 DEF ConsoleNext

LEMMA FlagStaysBoolean ==
  ASSUME FlagIsBoolean, [Next]_vars
  PROVE  FlagIsBoolean'
BY DEF FlagIsBoolean, Next, Dot, Access, writePPUCTRL, writePPUMASK,
       readPPUSTATUS, vars

(* Console::step only ever draws a dot or lets the program access a        *)
(* register between two dots: the console is an instance of PPUTiming.     *)
THEOREM ConsoleIsPPUTiming == ConsoleSpec => Spec
<1>1. ConsoleInit => Init /\ FlagIsBoolean
  BY DEF ConsoleInit, Init, FlagIsBoolean
<1>2. FlagIsBoolean /\ [ConsoleNext]_consoleVars => FlagIsBoolean'
  BY ConsoleStepUsesPPU, FlagStaysBoolean
<1>3. FlagIsBoolean /\ [ConsoleNext]_consoleVars => [Next]_vars
  BY ConsoleStepUsesPPU
<1> QED
  BY <1>1, <1>2, <1>3, PTL DEF ConsoleSpec, Spec

(* In the console too, whatever the CPU, its interrupts and the mapper do, *)
(* the flag a program polls is that of the current blank, and an NMI comes *)
(* at its dot.                                                             *)
THEOREM ConsoleKeepsPPUInvariant == ConsoleSpec => []Inv
BY ConsoleIsPPUTiming, Invariance, PTL

(* The console keeps the promise of VBlankNMI to its program.              *)
THEOREM ConsoleRefinesVBlankNMI == ConsoleSpec => Abstract!SafeSpec
BY ConsoleIsPPUTiming, RefinesVBlankNMI, PTL

-----------------------------------------------------------------------------
(* Interrupts, and the cycles the CPU waits.                               *)

(* A lower bound of the dots until an interrupt can next be raised.        *)
UntilInterrupt ==
    IF scanLine = POST_RENDER_SCAN_LINE
    THEN CLOCK_CYCLE - clock + NMI_DELAY + 1
    ELSE IF scanLine = POST_RENDER_SCAN_LINE + 1 /\ clock <= NMI_DELAY
    THEN NMI_DELAY + 1 - clock
    ELSE IF IsFetchLine(scanLine) /\ clock < IRQ_CLOCK
    THEN IRQ_CLOCK - clock
    ELSE CLOCK_CYCLE - 1 - clock + IRQ_CLOCK

(* What the CPU owes beyond a DMA is paid before the next interrupt.       *)
PaidInTime ==
    cyclesToWait > DMA_CYCLES + 1 =>
        dotsLeft + 3 * (cyclesToWait - DMA_CYCLES - 2) < UntilInterrupt

(* From its NMI to the start of its handler, the dots of a blank and the   *)
(* dots the CPU still owes have a constant sum.                            *)
NmiUnderWay ==
    entered = "nmi" =>
        /\ scanLine \in (POST_RENDER_SCAN_LINE + 1)..(PRE_RENDER_SCAN_LINE - 1)
        /\ DotsSinceNmi >= 0
        /\ DotsSinceNmi + dotsLeft + 3 * cyclesToWait
               \in (3 * INTERRUPT_CYCLES)..(3 * (MAX_CYCLES + LongestWait) - 1)

(* The drawn line that clocked the mapper last, if all do.                 *)
LastClocked ==
    IF ~IsFetchLine(scanLine) THEN DrawnLines - 1
    ELSE IF clock >= IRQ_CLOCK THEN DrawnLine(scanLine)
    ELSE IF scanLine = PRE_RENDER_SCAN_LINE THEN DrawnLines - 1
    ELSE DrawnLine(scanLine) - 1

(* Drawn lines from one to another, round the screen.                      *)
Between(from, to) == IF to >= from THEN to - from ELSE to - from + DrawnLines

(* The counter tells how many lines ago the last IRQ was requested.        *)
CounterTellsLines ==
    irqLine # Unknown =>
        /\ rendering /\ IRQEnabled /\ ~IRQReload
        /\ IRQLatch < DrawnLines => Between(irqLine, LastClocked) + IRQCounter = IRQLatch

ConsoleInv ==
    /\ Inv
    /\ ConsoleTypeOK
    /\ WaitIsBounded
    /\ PaidInTime
    /\ NmiUnderWay
    /\ CounterTellsLines

(* The assumptions on the sizes of the screen, but for the blank's length. *)
LEMMA Sizes ==
  /\ {CLOCK_CYCLE, POST_RENDER_SCAN_LINE, PRE_RENDER_SCAN_LINE, NMI_DELAY, IRQ_CLOCK} \subseteq Nat
  /\ POST_RENDER_SCAN_LINE + 1 < PRE_RENDER_SCAN_LINE
  /\ 0 < NMI_DELAY /\ NMI_DELAY < IRQ_CLOCK /\ IRQ_CLOCK + 1 < CLOCK_CYCLE
BY TimingAssumption, ConsoleAssumption

LEMMA CycleSizes ==
  /\ {MAX_CYCLES, INTERRUPT_CYCLES, DMA_CYCLES, CLOCK_CYCLE} \subseteq Nat
  /\ 0 < MAX_CYCLES /\ 0 < INTERRUPT_CYCLES /\ INTERRUPT_CYCLES <= DMA_CYCLES
  /\ 3 * (MAX_CYCLES + INTERRUPT_CYCLES - 1) < CLOCK_CYCLE
BY TimingAssumption, ConsoleAssumption

(* Every dot brings the next interrupt one dot closer at most, and only    *)
(* the dot where it is due can raise one; the next is a line away.         *)
LEMMA InterruptsAreApart ==
  ASSUME Inv, Dot
  PROVE  /\ UntilInterrupt \in Nat \ {0} /\ UntilInterrupt' \in Nat \ {0}
         /\ UntilInterrupt' >= UntilInterrupt - 1
         /\ {"triggerNmi", "clockIRQCounter"} \cap calls' # {} =>
                UntilInterrupt = 1 /\ UntilInterrupt' >= CLOCK_CYCLE - 1
<1>0. /\ clock \in 0..(CLOCK_CYCLE - 1) /\ clock' \in 0..(CLOCK_CYCLE - 1)
      /\ scanLine \in 0..PRE_RENDER_SCAN_LINE /\ scanLine' \in 0..PRE_RENDER_SCAN_LINE
      /\ clock' # 0 => clock' = clock + 1 /\ scanLine' = scanLine
      /\ clock' = 0 => \/ /\ scanLine = PRE_RENDER_SCAN_LINE
                          /\ clock >= CLOCK_CYCLE - 2
                          /\ scanLine' = 0
                       \/ EndsLine /\ scanLine' = scanLine + 1
  BY TickMoves DEF Inv, TypeOK, Dot
<1>1. UntilInterrupt \in Nat \ {0} /\ UntilInterrupt' \in Nat \ {0}
  BY Sizes, <1>0 DEF UntilInterrupt, IsFetchLine
<1>2. UntilInterrupt' >= UntilInterrupt - 1
  <2>1. CASE clock' # 0
    BY Sizes, <1>0, <2>1 DEF UntilInterrupt
  <2>2. CASE clock' = 0 /\ scanLine' = 0
    BY Sizes, <1>0, <2>2 DEF UntilInterrupt, EndsLine, IsFetchLine
  <2>3. CASE clock' = 0 /\ EndsLine /\ scanLine' = scanLine + 1
    BY Sizes, <1>0, <2>3 DEF UntilInterrupt, EndsLine, IsFetchLine
  <2> QED
    BY Sizes, <1>0, <2>1, <2>2, <2>3
<1>3. ASSUME "triggerNmi" \in calls'
      PROVE  UntilInterrupt = 1 /\ UntilInterrupt' >= CLOCK_CYCLE - 1
  <2>1. RaisesNmi
    BY <1>3 DEF Dot
  <2>2. /\ scanLine = POST_RENDER_SCAN_LINE + 1 /\ clock = NMI_DELAY
        /\ scanLine' = POST_RENDER_SCAN_LINE + 1
    BY Sizes, <2>1, CountdownFitsInLine DEF Inv, TypeOK, DelayTellsPosition, RaisesNmi, Dot
  <2>3. clock' = NMI_DELAY + 1
    BY Sizes, <1>0, <2>2
  <2> QED
    BY Sizes, <2>2, <2>3 DEF UntilInterrupt, IsFetchLine
<1>4. ASSUME "clockIRQCounter" \in calls'
      PROVE  UntilInterrupt = 1 /\ UntilInterrupt' >= CLOCK_CYCLE - 1
  <2>1. IsFetchLine(scanLine') /\ clock' = IRQ_CLOCK
    BY <1>4 DEF Dot, ClocksMapper
  <2> QED
    BY Sizes, <1>0, <2>1 DEF UntilInterrupt, IsFetchLine
<1> QED
  BY <1>1, <1>2, <1>3, <1>4

-----------------------------------------------------------------------------
(* What a step of the CPU, and a dot, do to the CPU's own state.           *)

LEMMA CpuStepEffects ==
  ASSUME ConsoleTypeOK, CpuStep
  PROVE  /\ dotsLeft = 0 /\ dotsLeft' \in 3..(3 * MAX_CYCLES)
         /\ UNCHANGED <<clock, scanLine>>
         /\ I' \in BOOLEAN
         /\ \/ /\ cyclesToWait > 0 /\ cyclesToWait' = cyclesToWait - 1 /\ dotsLeft' = 3
               /\ entered' \in {"none", entered}
               /\ UNCHANGED <<irqVars, irqLine, rendering>>
            \/ /\ cyclesToWait = 0 /\ entered' = "none"
               /\ cyclesToWait' \in 0..(DMA_CYCLES + 1)
               /\ \/ irqLine' = Unknown
                  \/ UNCHANGED <<irqVars, irqLine>> /\ rendering' \in {rendering, TRUE}
<1> USE ConsoleAssumption
<1>1. dotsLeft = 0 /\ \E reset \in BOOLEAN : Wait(reset) \/ Execute(reset)
  BY DEF CpuStep
<1>2. ASSUME NEW reset \in BOOLEAN
      PROVE  Resets(reset) \in BOOLEAN /\ Entered(reset) \in {"none", entered}
  BY DEF Resets, Entered, ConsoleTypeOK
<1>3. ASSUME NEW reset \in BOOLEAN, Wait(reset)
      PROVE  /\ dotsLeft' \in 3..(3 * MAX_CYCLES)
             /\ UNCHANGED <<clock, scanLine>>
             /\ I' \in BOOLEAN
             /\ cyclesToWait > 0 /\ cyclesToWait' = cyclesToWait - 1 /\ dotsLeft' = 3
             /\ entered' \in {"none", entered}
             /\ UNCHANGED <<irqVars, irqLine, rendering>>
  BY <1>2, <1>3 DEF Wait, Uses, PPUIdle, position
<1>4. ASSUME NEW reset \in BOOLEAN, Execute(reset)
      PROVE  /\ dotsLeft' \in 3..(3 * MAX_CYCLES)
             /\ UNCHANGED <<clock, scanLine>>
             /\ I' \in BOOLEAN
             /\ cyclesToWait = 0 /\ entered' = "none"
             /\ cyclesToWait' \in 0..(DMA_CYCLES + 1)
             /\ \/ irqLine' = Unknown
                \/ UNCHANGED <<irqVars, irqLine>> /\ rendering' \in {rendering, TRUE}
  <2>1. dotsLeft' \in 3..(3 * MAX_CYCLES) /\ cyclesToWait = 0 /\ entered' = "none"
    BY <1>4 DEF Execute, Uses
  <2>2. CASE Ordinary
    BY <2>1, <2>2 DEF Ordinary, PPUIdle, position
  <2>3. CASE brk
    BY <2>1, <2>3 DEF brk, PPUIdle, position
  <2>4. CASE AccessPPU(reset)
    <3>1. UNCHANGED <<clock, scanLine, irqVars, cyclesToWait>> /\ I' \in BOOLEAN
      BY <1>2, <2>4 DEF AccessPPU, Access, writePPUCTRL, writePPUMASK, readPPUSTATUS, position
    <3>2. rendering' \in BOOLEAN
      BY <2>4 DEF AccessPPU, Access, writePPUCTRL, writePPUMASK, readPPUSTATUS,
                  ConsoleTypeOK, TypeOK
    <3>3. irqLine' = Unknown \/ (irqLine' = irqLine /\ rendering' = TRUE)
      BY <2>4, <3>2 DEF AccessPPU
    <3>4. cyclesToWait' \in 0..(DMA_CYCLES + 1)
      BY <2>1, <3>1
    <3> QED
      BY <2>1, <3>1, <3>3, <3>4, Zenon
  <2>5. CASE writeOAMDMA(reset)
    <3>1. clock \in Int
      BY TimingAssumption DEF ConsoleTypeOK, TypeOK
    <3>2. cyclesToWait' \in 0..(DMA_CYCLES + 1)
      BY <2>5, <3>1 DEF writeOAMDMA
    <3> QED
      BY <1>2, <2>1, <2>5, <3>2 DEF writeOAMDMA, PPUIdle, position
  <2>6. CASE AccessMapper(reset)
    BY <1>2, <2>1, <2>6 DEF AccessMapper, PPUIdle, position
  <2> QED
    BY <1>4, <2>2, <2>3, <2>4, <2>5, <2>6 DEF Execute
<1> QED
  BY <1>1, <1>3, <1>4

LEMMA CpuStepUsesMapper ==
  ASSUME CpuStep
  PROVE  /\ UNCHANGED irqVars \/ WriteIRQPort
         /\ irqLine' \in {irqLine, Unknown}
BY DEF CpuStep, Wait, Execute, Ordinary, brk, AccessPPU, writeOAMDMA, AccessMapper

LEMMA NextDotEffects ==
  ASSUME ConsoleTypeOK, NextDot
  PROVE  /\ Dot
         /\ dotsLeft \in 1..(3 * MAX_CYCLES) /\ dotsLeft' = dotsLeft - 1
         /\ I' \in BOOLEAN
         /\ \/ /\ {"triggerNmi", "clockIRQCounter"} \cap calls' # {}
               /\ cyclesToWait' = cyclesToWait + INTERRUPT_CYCLES
               /\ entered' = "irq" \/ (entered' = "nmi" /\ "triggerNmi" \in calls')
            \/ /\ "triggerNmi" \notin calls'
               /\ UNCHANGED <<cyclesToWait, entered>>
<1>1. Dot /\ dotsLeft \in 1..(3 * MAX_CYCLES) /\ dotsLeft' = dotsLeft - 1
  BY ConsoleAssumption DEF NextDot, ConsoleTypeOK
<1>2. CASE Interrupted
  BY <1>1, <1>2 DEF NextDot, Interrupted, IrqRequested, InterruptCost
<1>3. CASE ~Interrupted
  BY <1>1, <1>3 DEF NextDot, Interrupted, ConsoleTypeOK
<1> QED
  BY <1>2, <1>3

-----------------------------------------------------------------------------
(* The invariant is kept, part by part.                                    *)

LEMMA StepKeepsPPU ==
  ASSUME Inv, [ConsoleNext]_consoleVars
  PROVE  Inv'
<1>1. [Next]_vars
  BY ConsoleStepUsesPPU DEF Inv, TypeOK, FlagIsBoolean
<1> QED
  BY <1>1, DotKeepsInv, AccessKeepsInv, StutterKeepsInv DEF Next

LEMMA DrawnLineInRange ==
  ASSUME NEW line \in 0..PRE_RENDER_SCAN_LINE, IsFetchLine(line)
  PROVE  DrawnLine(line) \in 0..(DrawnLines - 1)
BY Sizes DEF IsFetchLine, DrawnLine, DrawnLines

(* The counter never exceeds a byte that was in the latch.                 *)
LEMMA MapperKeepsType ==
  ASSUME IRQTypeOK, clockIRQCounter \/ WriteIRQPort \/ UNCHANGED irqVars
  PROVE  IRQTypeOK'
<1> DEFINE Values == LATCHES \cup IRQ_GARBAGE
           Counts == Values \cup UNION {0..n : n \in Values}
<1>1. /\ IRQCounter \in Counts /\ IRQLatch \in Values
      /\ IRQReload \in BOOLEAN /\ IRQEnabled \in BOOLEAN
  BY DEF IRQTypeOK
<1>2. CASE clockIRQCounter
  <2>1. CASE ReloadsCounter
    BY <1>1, <1>2, <2>1 DEF clockIRQCounter, IRQTypeOK
  <2>2. CASE ~ReloadsCounter
    <3>1. PICK n \in Values : IRQCounter \in 0..n
      BY <1>1, IRQAssumption
    <3>2. IRQCounter \in 1..255 /\ n \in 0..255
      BY <2>2, <3>1, IRQAssumption DEF ReloadsCounter
    <3>3. IRQCounter' \in 0..n
      BY <1>2, <2>2, <3>1, <3>2 DEF clockIRQCounter
    <3> QED
      BY <1>1, <1>2, <2>2, <3>3 DEF clockIRQCounter, IRQTypeOK
  <2> QED
    BY <2>1, <2>2
<1>3. CASE WriteIRQPort
  BY <1>1, <1>3 DEF WriteIRQPort, writeIRQLatch, writeIRQReload, writeIRQDisable,
                    writeIRQEnable, IRQTypeOK
<1>4. CASE UNCHANGED irqVars
  BY <1>1, <1>4 DEF irqVars, IRQTypeOK
<1> QED
  BY <1>2, <1>3, <1>4

LEMMA StepKeepsType ==
  ASSUME Inv, ConsoleTypeOK, [ConsoleNext]_consoleVars
  PROVE  ConsoleTypeOK'
<1>1. TypeOK' /\ TypeOK
  BY StepKeepsPPU DEF Inv
<1>2. CASE CpuStep
  <2>1. IRQTypeOK'
    BY <1>2, CpuStepUsesMapper, MapperKeepsType DEF ConsoleTypeOK
  <2>2. cyclesToWait' \in Nat /\ dotsLeft' \in 0..(3 * MAX_CYCLES)
    <3>1. cyclesToWait \in Nat
      BY DEF ConsoleTypeOK
    <3>2. dotsLeft' \in 3..(3 * MAX_CYCLES)
      BY <1>2, CpuStepEffects
    <3>3. \/ cyclesToWait > 0 /\ cyclesToWait' = cyclesToWait - 1
          \/ cyclesToWait' \in 0..(DMA_CYCLES + 1)
      BY <1>2, CpuStepEffects
    <3> QED
      BY <3>1, <3>2, <3>3, CycleSizes
  <2>3. I' \in BOOLEAN /\ entered' \in {"none", "nmi", "irq"}
    BY <1>2, CpuStepEffects DEF ConsoleTypeOK
  <2>4. irqLine' \in {Unknown} \cup 0..(DrawnLines - 1)
    BY <1>2, CpuStepUsesMapper DEF ConsoleTypeOK
  <2> QED
    BY <1>1, <2>1, <2>2, <2>3, <2>4 DEF ConsoleTypeOK
<1>3. CASE NextDot
  <2>1. IRQTypeOK'
    BY <1>3, MapperKeepsType DEF ConsoleTypeOK, NextDot
  <2>2. cyclesToWait' \in Nat /\ dotsLeft' \in 0..(3 * MAX_CYCLES)
    BY <1>3, NextDotEffects, ConsoleAssumption DEF ConsoleTypeOK
  <2>3. I' \in BOOLEAN /\ entered' \in {"none", "nmi", "irq"}
    BY <1>3, NextDotEffects DEF ConsoleTypeOK
  <2>4. irqLine' \in {Unknown} \cup 0..(DrawnLines - 1)
    <3>1. CASE IrqRequested
      <4>1. IsFetchLine(scanLine') /\ scanLine' \in 0..PRE_RENDER_SCAN_LINE
        BY <1>1, <1>3, <3>1 DEF NextDot, IrqRequested, Dot, ClocksMapper, TypeOK
      <4>2. DrawnLine(scanLine') \in 0..(DrawnLines - 1)
        BY <4>1, DrawnLineInRange
      <4> QED
        BY <1>3, <3>1, <4>2 DEF NextDot
    <3>2. CASE ~IrqRequested
      BY <1>3, <3>2 DEF NextDot, ConsoleTypeOK
    <3> QED
      BY <3>1, <3>2
  <2> QED
    BY <1>1, <2>1, <2>2, <2>3, <2>4 DEF ConsoleTypeOK
<1>4. CASE UNCHANGED consoleVars
  BY <1>1, <1>4, MapperKeepsType DEF ConsoleTypeOK, consoleVars, cpuVars
<1> QED
  BY <1>2, <1>3, <1>4 DEF ConsoleNext

LEMMA StepKeepsWait ==
  ASSUME Inv, ConsoleTypeOK, WaitIsBounded, PaidInTime, [ConsoleNext]_consoleVars
  PROVE  WaitIsBounded' /\ PaidInTime'
<1> USE DEF WaitIsBounded, PaidInTime, LongestWait
<1>0. cyclesToWait \in Nat
  BY DEF ConsoleTypeOK
<1>1. CASE CpuStep
  <2>1. UntilInterrupt' = UntilInterrupt
    BY <1>1, CpuStepEffects DEF UntilInterrupt, IsFetchLine
  <2>2. UntilInterrupt \in Int
    BY Sizes DEF UntilInterrupt, Inv, TypeOK
  <2>3. CASE cyclesToWait > 0 /\ cyclesToWait' = cyclesToWait - 1 /\ dotsLeft' = 3
    BY <1>0, <1>1, <2>1, <2>2, <2>3, CpuStepEffects, CycleSizes
  <2>4. CASE cyclesToWait' \in 0..(DMA_CYCLES + 1)
    BY <2>4, CycleSizes
  <2> QED
    BY <1>1, <2>3, <2>4, CpuStepEffects
<1>2. CASE NextDot
  <2>1. CASE {"triggerNmi", "clockIRQCounter"} \cap calls' # {}
    BY <1>0, <1>2, <2>1, NextDotEffects, InterruptsAreApart, CycleSizes, Sizes
  <2>2. CASE {"triggerNmi", "clockIRQCounter"} \cap calls' = {}
    BY <1>0, <1>2, <2>2, NextDotEffects, InterruptsAreApart, CycleSizes, Sizes
  <2> QED
    BY <2>1, <2>2
<1>3. CASE UNCHANGED consoleVars
  BY <1>3 DEF consoleVars, cpuVars, vars, UntilInterrupt, IsFetchLine
<1> QED
  BY <1>1, <1>2, <1>3 DEF ConsoleNext

(* Dots of a blank are counted one by one, across its lines.               *)
LEMMA DotsAreCounted ==
  ASSUME Inv, Dot, scanLine \in (POST_RENDER_SCAN_LINE + 1)..(PRE_RENDER_SCAN_LINE - 1)
  PROVE  /\ DotsSinceNmi \in Int
         /\ DotsSinceNmi' = DotsSinceNmi + 1
         /\ scanLine' \in {scanLine, scanLine + 1}
<1>0. clock \in 0..(CLOCK_CYCLE - 1)
  BY DEF Inv, TypeOK
<1> DEFINE line == scanLine - POST_RENDER_SCAN_LINE - 1
<1>1. line \in Nat /\ line * CLOCK_CYCLE \in Nat
  BY Sizes
<1>2. CASE clock' # 0
  <2>1. clock' = clock + 1 /\ scanLine' = scanLine
    BY <1>2, TickMoves DEF Dot
  <2> QED
    BY <1>0, <1>1, <2>1, Sizes DEF DotsSinceNmi
<1>3. CASE clock' = 0
  <2>1. clock = CLOCK_CYCLE - 1 /\ scanLine' = scanLine + 1
    BY <1>0, <1>3, TickMoves, Sizes DEF Dot, EndsLine
  <2>2. scanLine' - POST_RENDER_SCAN_LINE - 1 = line + 1
    BY <2>1, Sizes
  <2>3. (line + 1) * CLOCK_CYCLE = line * CLOCK_CYCLE + CLOCK_CYCLE
    BY <1>1, Sizes
  <2>4. DotsSinceNmi' = (line + 1) * CLOCK_CYCLE + 0 - (NMI_DELAY + 1)
    BY <1>3, <2>2 DEF DotsSinceNmi
  <2>5. DotsSinceNmi = line * CLOCK_CYCLE + clock - (NMI_DELAY + 1)
    BY DEF DotsSinceNmi
  <2> HIDE DEF line
  <2> QED
    BY <1>0, <1>1, <2>1, <2>3, <2>4, <2>5, Sizes
<1> QED
  BY <1>2, <1>3

(* A handler on its way is not on its way any more when the blank ends.    *)
LEMMA BlankIsLong ==
  ASSUME NEW dot \in Nat
  PROVE  (PRE_RENDER_SCAN_LINE - POST_RENDER_SCAN_LINE - 1) * CLOCK_CYCLE + dot - (NMI_DELAY + 1)
             >= 3 * (MAX_CYCLES + LongestWait)
<1> DEFINE lines == PRE_RENDER_SCAN_LINE - POST_RENDER_SCAN_LINE - 1
<1>1. lines * CLOCK_CYCLE \in Nat
  BY Sizes
<1>2. 3 * (MAX_CYCLES + LongestWait) + NMI_DELAY + 1 <= lines * CLOCK_CYCLE
  BY ConsoleAssumption
<1>3. LongestWait \in Nat
  BY CycleSizes DEF LongestWait
<1> HIDE DEF lines
<1>4. lines * CLOCK_CYCLE + dot - (NMI_DELAY + 1) >= 3 * (MAX_CYCLES + LongestWait)
  BY <1>1, <1>2, <1>3, Sizes, CycleSizes
<1> QED
  BY <1>4 DEF lines

LEMMA StepKeepsNmi ==
  ASSUME Inv, ConsoleTypeOK, WaitIsBounded, WaitIsBounded', NmiUnderWay,
         [ConsoleNext]_consoleVars
  PROVE  NmiUnderWay'
<1>0. cyclesToWait \in Nat /\ dotsLeft \in Nat /\ LongestWait \in Nat
  BY CycleSizes DEF ConsoleTypeOK, LongestWait
<1>1. CASE CpuStep
  <2>1. UNCHANGED <<scanLine, DotsSinceNmi>>
    BY <1>1, CpuStepEffects DEF DotsSinceNmi
  <2>2. SUFFICES ASSUME entered' = "nmi"
                 PROVE  NmiUnderWay'
    BY DEF NmiUnderWay
  <2>3. /\ entered = "nmi" /\ dotsLeft = 0
        /\ cyclesToWait > 0 /\ cyclesToWait' = cyclesToWait - 1 /\ dotsLeft' = 3
    BY <1>1, <2>2, CpuStepEffects
  <2>4. DotsSinceNmi \in Int
    BY Sizes DEF DotsSinceNmi, Inv, TypeOK
  <2> HIDE DEF DotsSinceNmi
  <2>5. dotsLeft' + 3 * cyclesToWait' = dotsLeft + 3 * cyclesToWait
    BY <1>0, <2>3
  <2>6. DotsSinceNmi' + dotsLeft' + 3 * cyclesToWait' = DotsSinceNmi + dotsLeft + 3 * cyclesToWait
    BY <1>0, <2>1, <2>3, <2>4, <2>5
  <2> QED
    BY <2>1, <2>3, <2>6 DEF NmiUnderWay
<1>2. CASE NextDot
  <2>1. SUFFICES ASSUME entered' = "nmi"
                 PROVE  NmiUnderWay'
    BY DEF NmiUnderWay
  <2>2. CASE "triggerNmi" \in calls'
    <3>1. RaisesNmi
      BY <1>2, <2>2, NextDotEffects DEF Dot
    <3>2. scanLine' = POST_RENDER_SCAN_LINE + 1 /\ clock' = NMI_DELAY + 1
      BY <1>2, <3>1, CountdownFitsInLine, TickMoves, NextDotEffects, Sizes
         DEF Inv, TypeOK, DelayTellsPosition, RaisesNmi, Dot, EndsLine
    <3>3. DotsSinceNmi' = 0
      <4>1. scanLine' - POST_RENDER_SCAN_LINE - 1 = 0
        BY <3>2, Sizes
      <4> QED
        BY <3>2, <4>1, Sizes DEF DotsSinceNmi
    <3>4. cyclesToWait' = cyclesToWait + INTERRUPT_CYCLES /\ dotsLeft' \in 0..(3 * MAX_CYCLES - 1)
      BY <1>2, <2>2, NextDotEffects, CycleSizes
    <3>5. cyclesToWait' <= LongestWait
      BY DEF WaitIsBounded, LongestWait
    <3>6. DotsSinceNmi' + dotsLeft' + 3 * cyclesToWait'
              \in (3 * INTERRUPT_CYCLES)..(3 * (MAX_CYCLES + LongestWait) - 1)
      BY <1>0, <3>3, <3>4, <3>5, CycleSizes
    <3>7. scanLine' \in (POST_RENDER_SCAN_LINE + 1)..(PRE_RENDER_SCAN_LINE - 1)
      BY <3>2, Sizes
    <3> QED
      BY <3>3, <3>6, <3>7 DEF NmiUnderWay
  <2>3. CASE "triggerNmi" \notin calls'
    <3>1. /\ entered = "nmi" /\ cyclesToWait' = cyclesToWait
          /\ dotsLeft > 0 /\ dotsLeft' = dotsLeft - 1
      BY <1>2, <2>1, <2>3, NextDotEffects
    <3>2. /\ DotsSinceNmi \in Int /\ DotsSinceNmi' = DotsSinceNmi + 1
          /\ scanLine' \in {scanLine, scanLine + 1}
      BY <1>2, <3>1, DotsAreCounted, NextDotEffects DEF NmiUnderWay
    <3>3. DotsSinceNmi' < 3 * (MAX_CYCLES + LongestWait)
      BY <1>0, <3>1, <3>2, CycleSizes DEF NmiUnderWay
    <3>4. scanLine' # PRE_RENDER_SCAN_LINE
      <4>1. clock' \in Nat
        BY StepKeepsPPU, Sizes DEF Inv, TypeOK
      <4>2. SUFFICES ASSUME scanLine' = PRE_RENDER_SCAN_LINE
                     PROVE  DotsSinceNmi' >= 3 * (MAX_CYCLES + LongestWait)
        BY <1>0, <3>2, <3>3, CycleSizes
      <4> QED
        BY <4>1, <4>2, BlankIsLong DEF DotsSinceNmi
    <3> QED
      BY <1>0, <3>1, <3>2, <3>4, Sizes DEF NmiUnderWay
  <2> QED
    BY <2>2, <2>3
<1>3. CASE UNCHANGED consoleVars
  BY <1>3 DEF consoleVars, cpuVars, vars, NmiUnderWay, DotsSinceNmi
<1> QED
  BY <1>1, <1>2, <1>3 DEF ConsoleNext

(* Every drawn line clocks the mapper once, the skipped dot none of them.  *)
LEMMA LinesFollow ==
  ASSUME Inv, Dot
  PROVE  /\ LastClocked \in 0..(DrawnLines - 1)
         /\ IF IsFetchLine(scanLine') /\ clock' = IRQ_CLOCK
            THEN /\ LastClocked' = DrawnLine(scanLine')
                 /\ DrawnLine(scanLine') \in 0..(DrawnLines - 1)
                 /\ LastClocked = IF DrawnLine(scanLine') = 0 THEN DrawnLines - 1
                                  ELSE DrawnLine(scanLine') - 1
            ELSE LastClocked' = LastClocked
<1> USE DEF LastClocked, IsFetchLine, DrawnLine, DrawnLines
<1>0. /\ clock \in 0..(CLOCK_CYCLE - 1) /\ clock' \in 0..(CLOCK_CYCLE - 1)
      /\ scanLine \in 0..PRE_RENDER_SCAN_LINE /\ scanLine' \in 0..PRE_RENDER_SCAN_LINE
      /\ clock' # 0 => clock' = clock + 1 /\ scanLine' = scanLine
      /\ clock' = 0 => \/ /\ scanLine = PRE_RENDER_SCAN_LINE
                          /\ clock >= CLOCK_CYCLE - 2
                          /\ scanLine' = 0
                       \/ EndsLine /\ scanLine' = scanLine + 1
  BY TickMoves DEF Inv, TypeOK, Dot
<1>1. LastClocked \in 0..(DrawnLines - 1)
  BY <1>0, Sizes
<1>2. CASE clock' # 0
  BY <1>0, <1>1, <1>2, Sizes
<1>3. CASE clock' = 0 /\ scanLine' = 0
  BY <1>0, <1>1, <1>3, Sizes DEF EndsLine
<1>4. CASE clock' = 0 /\ EndsLine /\ scanLine' = scanLine + 1
  BY <1>0, <1>1, <1>4, Sizes DEF EndsLine
<1> QED
  BY <1>0, <1>2, <1>3, <1>4

LEMMA BetweenLines ==
  ASSUME NEW from \in 0..(DrawnLines - 1), NEW to \in 0..(DrawnLines - 1)
  PROVE  /\ Between(from, to) \in 0..(DrawnLines - 1)
         /\ (to - from) % DrawnLines = Between(from, to)
<1> DEFINE n == DrawnLines
<1>1. n \in Nat \ {0}
  BY Sizes DEF DrawnLines
<1>2. Between(from, to) \in 0..(n - 1)
  BY <1>1 DEF Between
<1>3. \A d \in 0..(n - 1) : d % n = d /\ (d - n) % n = d
  <2> HIDE DEF n
  <2> QED
    BY <1>1
<1>4. to - from = Between(from, to) \/ to - from = Between(from, to) - n
  BY <1>1 DEF Between
<1> QED
  BY <1>2, <1>3, <1>4

LEMMA StepKeepsCounter ==
  ASSUME Inv, ConsoleTypeOK, CounterTellsLines, [ConsoleNext]_consoleVars
  PROVE  CounterTellsLines'
<1> SUFFICES ASSUME irqLine' # Unknown
             PROVE  CounterTellsLines'
  BY DEF CounterTellsLines
<1>0. IRQCounter \in 0..255 /\ IRQLatch \in 0..255
  BY IRQAssumption DEF ConsoleTypeOK, IRQTypeOK
<1>1. CASE CpuStep
  <2>1. UNCHANGED <<irqVars, irqLine, clock, scanLine>> /\ rendering' \in {rendering, TRUE}
    BY <1>1, CpuStepEffects
  <2>2. irqLine # Unknown /\ rendering
    BY <2>1 DEF CounterTellsLines
  <2>3. UNCHANGED <<Between(irqLine, LastClocked)>>
    BY <2>1 DEF LastClocked, IsFetchLine, DrawnLine, Between
  <2> QED
    BY <2>1, <2>2, <2>3, Zenon DEF CounterTellsLines, irqVars
<1>2. CASE NextDot
  <2>1. Dot /\ rendering' = rendering
    BY <1>2 DEF NextDot, Dot
  <2>2. CASE IrqRequested
    <3>1. clockIRQCounter /\ irqLine' = DrawnLine(scanLine')
      BY <1>2, <2>2 DEF NextDot, IrqRequested
    <3>2. IRQEnabled' /\ ~IRQReload' /\ IRQCounter' = IRQLatch /\ IRQLatch' = IRQLatch
      BY <2>2, <3>1 DEF IrqRequested, RequestsIrq, clockIRQCounter, ReloadsCounter
    <3>3. rendering /\ IsFetchLine(scanLine') /\ clock' = IRQ_CLOCK
      BY <2>1, <2>2 DEF IrqRequested, Dot, ClocksMapper
    <3>4. Between(irqLine', LastClocked') = 0
      BY <2>1, <3>1, <3>3, LinesFollow DEF Between
    <3> QED
      BY <1>0, <2>1, <3>2, <3>3, <3>4 DEF CounterTellsLines
  <2>3. CASE ~IrqRequested
    <3>1. irqLine' = irqLine /\ irqLine \in 0..(DrawnLines - 1)
      BY <1>2, <2>3 DEF NextDot, ConsoleTypeOK
    <3>2. /\ rendering /\ IRQEnabled /\ ~IRQReload
          /\ IRQLatch < DrawnLines => Between(irqLine, LastClocked) + IRQCounter = IRQLatch
      BY <3>1 DEF CounterTellsLines
    <3>3. CASE "clockIRQCounter" \in calls'
      <4>1. IRQCounter # 0 /\ clockIRQCounter
        BY <1>2, <2>3, <3>2, <3>3 DEF IrqRequested, RequestsIrq, NextDot
      <4>2. /\ IRQCounter' = IRQCounter - 1
            /\ UNCHANGED <<IRQLatch, IRQReload, IRQEnabled>>
        <5>1. /\ IRQCounter' = (IRQCounter - 1) % 256
              /\ UNCHANGED <<IRQLatch, IRQReload, IRQEnabled>>
          BY <3>2, <4>1 DEF clockIRQCounter, ReloadsCounter
        <5>2. IRQCounter - 1 \in 0..255
          BY <1>0, <4>1
        <5> QED
          BY <5>1, <5>2
      <4>3. IsFetchLine(scanLine') /\ clock' = IRQ_CLOCK
        BY <2>1, <3>3 DEF Dot, ClocksMapper
      <4>4. ASSUME IRQLatch < DrawnLines
            PROVE  Between(irqLine, LastClocked') = Between(irqLine, LastClocked) + 1
        <5>1. Between(irqLine, LastClocked) < DrawnLines - 1
          <6>1. Between(irqLine, LastClocked) \in Int
            BY <2>1, <3>1, LinesFollow, BetweenLines
          <6>2. DrawnLines \in Int
            BY Sizes DEF DrawnLines
          <6> QED
            BY <1>0, <3>2, <4>1, <4>4, <6>1, <6>2
        <5> QED
          BY <2>1, <3>1, <4>3, <5>1, LinesFollow, Sizes DEF Between, DrawnLines
      <4>5. Between(irqLine, LastClocked) \in Int
        BY <2>1, <3>1, LinesFollow, BetweenLines
      <4> QED
        BY <1>0, <2>1, <3>1, <3>2, <4>2, <4>4, <4>5 DEF CounterTellsLines
    <3>4. CASE "clockIRQCounter" \notin calls'
      <4>1. UNCHANGED irqVars /\ LastClocked' = LastClocked
        BY <1>2, <2>1, <3>2, <3>4, LinesFollow DEF NextDot, Dot, ClocksMapper
      <4> QED
        BY <2>1, <3>1, <3>2, <4>1 DEF CounterTellsLines, irqVars
    <3> QED
      BY <3>3, <3>4
  <2> QED
    BY <2>2, <2>3
<1>3. CASE UNCHANGED consoleVars
  BY <1>3 DEF consoleVars, vars, irqVars, CounterTellsLines, LastClocked, IsFetchLine,
              DrawnLine, Between
<1> QED
  BY <1>1, <1>2, <1>3 DEF ConsoleNext

-----------------------------------------------------------------------------
(* The theorems.                                                           *)

LEMMA ConsoleInitInv == ConsoleInit => ConsoleInv
<1> SUFFICES ASSUME ConsoleInit
             PROVE  ConsoleInv
  OBVIOUS
<1>1. Inv
  BY InitInv DEF ConsoleInit
<1>2. ConsoleTypeOK
  <2>1. IRQTypeOK
    BY DEF ConsoleInit, IRQInit, IRQTypeOK
  <2> QED
    BY <1>1, <2>1, CycleSizes DEF ConsoleInit, ConsoleTypeOK, Inv
<1>3. WaitIsBounded /\ PaidInTime
  BY CycleSizes DEF ConsoleInit, WaitIsBounded, PaidInTime, LongestWait
<1>4. NmiUnderWay /\ CounterTellsLines
  BY DEF ConsoleInit, NmiUnderWay, CounterTellsLines
<1> QED
  BY <1>1, <1>2, <1>3, <1>4 DEF ConsoleInv

(* The parts above hold together, always: the PPU's invariant, the types,  *)
(* and what relates the CPU's wait, the handler on its way and the IRQ     *)
(* counter to the position on the screen.                                  *)
THEOREM ConsoleInvariance == ConsoleSpec => []ConsoleInv
<1>1. ConsoleInv /\ [ConsoleNext]_consoleVars => ConsoleInv'
  BY StepKeepsPPU, StepKeepsType, StepKeepsWait, StepKeepsNmi, StepKeepsCounter DEF ConsoleInv
<1> QED
  BY <1>1, ConsoleInitInv, PTL DEF ConsoleSpec

(* Everything the console keeps has its type; no IRQ counter leaves the    *)
(* bytes of the latch, no step owes more dots than an instruction costs.   *)
THEOREM ConsoleTypeCorrect == ConsoleSpec => []ConsoleTypeOK
<1>1. ConsoleInv => ConsoleTypeOK
  BY DEF ConsoleInv
<1> QED
  BY <1>1, ConsoleInvariance, PTL

(* Whatever the program does, interrupts and DMAs never make the CPU wait  *)
(* for more than one of each (CPU::waitFor, cyclesToWait).                 *)
THEOREM WaitsAreBounded == ConsoleSpec => []WaitIsBounded
<1>1. ConsoleInv => WaitIsBounded
  BY DEF ConsoleInv
<1> QED
  BY <1>1, ConsoleInvariance, PTL

(* The NMI handler starts in the blank of its NMI, not before the cycles   *)
(* of the interrupt are paid and not later than a DMA and an instruction   *)
(* allow.                                                                  *)
THEOREM HandlersStartInTime == ConsoleSpec => HandlerStartsInTime
<1> DEFINE Started ==
      entered = "nmi" /\ entered' = "none" /\ cyclesToWait = 0 =>
          /\ DotsSinceNmi >= 3 * INTERRUPT_CYCLES
          /\ DotsSinceNmi < 3 * (MAX_CYCLES + LongestWait)
          /\ scanLine < PRE_RENDER_SCAN_LINE
<1>1. ASSUME ConsoleInv, [ConsoleNext]_consoleVars
      PROVE  [Started]_consoleVars
  <2>1. SUFFICES ASSUME entered = "nmi", entered' = "none", cyclesToWait = 0
                 PROVE  Started
    BY DEF Started
  <2>2. CASE CpuStep
    <3>1. dotsLeft = 0
      BY <2>2 DEF CpuStep
    <3>2. DotsSinceNmi \in Int /\ LongestWait \in Int
      BY <1>1, Sizes, CycleSizes DEF DotsSinceNmi, LongestWait, ConsoleInv, Inv, TypeOK
    <3>3. /\ DotsSinceNmi \in (3 * INTERRUPT_CYCLES)..(3 * (MAX_CYCLES + LongestWait) - 1)
          /\ scanLine \in (POST_RENDER_SCAN_LINE + 1)..(PRE_RENDER_SCAN_LINE - 1)
      BY <1>1, <2>1, <3>1, <3>2 DEF ConsoleInv, NmiUnderWay
    <3> QED
      BY <3>2, <3>3, Sizes, CycleSizes
  <2>3. CASE NextDot
    BY <1>1, <2>1, <2>3, NextDotEffects DEF ConsoleInv
  <2>4. CASE UNCHANGED consoleVars
    BY <2>1, <2>4 DEF consoleVars
  <2> QED
    BY <1>1, <2>2, <2>3, <2>4 DEF ConsoleNext
<1> QED
  BY <1>1, ConsoleInvariance, PTL DEF ConsoleSpec, HandlerStartsInTime

(* While the screen is drawn and the program leaves the ports alone, IRQs  *)
(* are requested every latch + 1 drawn lines, and on no other.             *)
THEOREM RasterLinesFollowLatch == ConsoleSpec => RasterLine
<1> DEFINE OnItsLine ==
      irqLine # Unknown /\ "clockIRQCounter" \in calls' /\ IRQLatch < DrawnLines =>
          (IrqRequested <=> (DrawnLine(scanLine') - irqLine) % DrawnLines
                                = (IRQLatch + 1) % DrawnLines)
<1>1. ASSUME ConsoleInv, [ConsoleNext]_consoleVars
      PROVE  [OnItsLine]_consoleVars
  <2>1. SUFFICES ASSUME irqLine # Unknown, "clockIRQCounter" \in calls', IRQLatch < DrawnLines,
                        NextDot
                 PROVE  OnItsLine
    <3>1. ASSUME CpuStep
          PROVE  calls' = {}
      BY <3>1 DEF CpuStep, Wait, Execute, Ordinary, brk, AccessPPU, writeOAMDMA, AccessMapper,
                  PPUIdle, Access, writePPUCTRL, writePPUMASK, readPPUSTATUS
    <3> QED
      BY <1>1, <3>1 DEF ConsoleNext
  <2> DEFINE k == Between(irqLine, LastClocked)
             line == DrawnLine(scanLine')
  <2>2. Dot /\ IsFetchLine(scanLine') /\ clock' = IRQ_CLOCK
    BY <2>1 DEF NextDot, Dot, ClocksMapper
  <2>3. irqLine \in 0..(DrawnLines - 1) /\ IRQCounter \in 0..255 /\ IRQLatch \in 0..255
    BY <1>1, <2>1, IRQAssumption DEF ConsoleInv, ConsoleTypeOK, IRQTypeOK
  <2>4. /\ LastClocked \in 0..(DrawnLines - 1) /\ line \in 0..(DrawnLines - 1)
        /\ LastClocked = IF line = 0 THEN DrawnLines - 1 ELSE line - 1
    BY <1>1, <2>2, LinesFollow DEF ConsoleInv
  <2>5. DrawnLines \in Nat \ {0}
    BY Sizes DEF DrawnLines
  <2>6. IrqRequested <=> IRQCounter = 0
    BY <1>1, <2>1 DEF IrqRequested, RequestsIrq, ConsoleInv, CounterTellsLines
  <2>7. k \in 0..(DrawnLines - 1) /\ k + IRQCounter = IRQLatch
    BY <1>1, <2>1, <2>3, <2>4, BetweenLines DEF ConsoleInv, CounterTellsLines
  <2>8. (line - irqLine) % DrawnLines = IF k + 1 = DrawnLines THEN 0 ELSE k + 1
    <3>1. (line - irqLine) % DrawnLines = Between(irqLine, line)
      BY <2>3, <2>4, BetweenLines
    <3> QED
      BY <2>3, <2>4, <2>5, <3>1 DEF Between
  <2>9. (IRQLatch + 1) % DrawnLines = IF IRQLatch + 1 = DrawnLines THEN 0 ELSE IRQLatch + 1
    <3> HIDE DEF DrawnLines
    <3> QED
      BY <2>1, <2>3, <2>5
  <2> HIDE DEF k, line
  <2>10. IRQCounter = 0 <=> (line - irqLine) % DrawnLines = (IRQLatch + 1) % DrawnLines
    BY <2>1, <2>3, <2>5, <2>7, <2>8, <2>9
  <2> QED
    BY <2>6, <2>10 DEF line
<1> QED
  BY <1>1, ConsoleInvariance, PTL DEF ConsoleSpec, RasterLine
=============================================================================
