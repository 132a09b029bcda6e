------------------------------ MODULE PPUTiming ------------------------------
(***************************************************************************)
(* The clock of the picture processing unit and the vertical-blank NMI     *)
(* (src/console/ppu.cpp: PPU::tick, PPU::step, nmiChange, PPUCTRL,         *)
(* PPUMASK and PPUSTATUS).                                                 *)
(*                                                                         *)
(* The console calls PPU::step once per dot; between two dots the program  *)
(* running on the CPU may write PPUCTRL and PPUMASK and read PPUSTATUS.    *)
(* The dot position (scanLine, clock) goes round the screen, the vertical  *)
(* blank flag nmiOccured is raised and cleared at fixed positions, and an  *)
(* enabled NMI reaches the CPU NMI_DELAY dots after the flag was raised.   *)
(*                                                                         *)
(* What a dot draws, and what it does to the scroll registers, is left out *)
(* here: neither feeds back into the clock or into the NMI.                *)
(***************************************************************************)
EXTENDS Integers

CONSTANTS
    CLOCK_CYCLE,             \* dots in a scan line (341)
    POST_RENDER_SCAN_LINE,   \* the first line that is not drawn (240)
    PRE_RENDER_SCAN_LINE,    \* the last line of a frame (261)
    NMI_DELAY,               \* dots between the flag and the NMI (15)
    IRQ_CLOCK                \* dot of a line that clocks the mapper (260)

(***************************************************************************)
(* What the proofs need of the screen: the blank lines come before the     *)
(* pre-render line, and the delay of an NMI fits in the line it starts in. *)
(***************************************************************************)
ASSUME TimingAssumption ==
    /\ CLOCK_CYCLE \in Nat
    /\ POST_RENDER_SCAN_LINE \in Nat
    /\ PRE_RENDER_SCAN_LINE \in Nat
    /\ POST_RENDER_SCAN_LINE + 1 < PRE_RENDER_SCAN_LINE
    /\ NMI_DELAY \in Nat \ {0}
    /\ NMI_DELAY + 3 < CLOCK_CYCLE
    /\ IRQ_CLOCK \in 2..(CLOCK_CYCLE - 1)

VARIABLES
    clock, scanLine,   \* position of the current dot
    isEvenScreen,      \* parity of the frame: odd frames skip a dot
    rendering,         \* PPUMASK shows the background or the sprites
    nmiFlag,           \* PPUCTRL asks for an NMI at vertical blank
    nmiOccured,        \* the vertical blank flag PPUSTATUS returns
    nmiPrevious,       \* edge detector of nmiChange
    nmiDelay,          \* dots left before the NMI is raised, 0 if none is due
    calls              \* calls the last step made on the rest of the console

vars == <<clock, scanLine, isEvenScreen, rendering,
          nmiFlag, nmiOccured, nmiPrevious, nmiDelay, calls>>

position == <<clock, scanLine, isEvenScreen>>

TypeOK ==
    /\ clock \in 0..(CLOCK_CYCLE - 1)
    /\ scanLine \in 0..PRE_RENDER_SCAN_LINE
    /\ isEvenScreen \in BOOLEAN
    /\ rendering \in BOOLEAN
    /\ nmiFlag \in BOOLEAN
    /\ nmiOccured \in BOOLEAN
    /\ nmiPrevious \in BOOLEAN
    /\ nmiDelay \in 0..NMI_DELAY
    /\ calls \subseteq {"triggerNmi", "render", "clockIRQCounter"}

(***************************************************************************)
(* A definition whose name ends in _Something is a broken variant of the   *)
(* definition that follows it, the way a slip in the code would break it.  *)
(* No action uses one: they are there to show that the properties notice.  *)
(***************************************************************************)

-----------------------------------------------------------------------------
(* PPU::PPU followed by PPU::reset, which the console's constructor runs.  *)

Init ==
    /\ clock = CLOCK_CYCLE - 1
    /\ scanLine = POST_RENDER_SCAN_LINE
    /\ isEvenScreen = TRUE
    /\ rendering = FALSE
    /\ nmiFlag = FALSE
    /\ nmiOccured = FALSE
    /\ nmiPrevious = FALSE
    /\ nmiDelay = 0
    /\ calls = {}

-----------------------------------------------------------------------------
(* PPU::tick: the next dot, and the NMI whose delay runs out.              *)

SkipsDot ==
    /\ rendering
    /\ ~isEvenScreen
    /\ scanLine = PRE_RENDER_SCAN_LINE
    /\ clock = CLOCK_CYCLE - 2

EndsLine == clock + 1 = CLOCK_CYCLE

EndsFrame == SkipsDot \/ (EndsLine /\ scanLine = PRE_RENDER_SCAN_LINE)

NextClock_NoWrap == IF SkipsDot THEN 0 ELSE clock + 1

NextClock == IF SkipsDot \/ EndsLine THEN 0 ELSE clock + 1

NextScanLine ==
    IF EndsFrame THEN 0 ELSE IF EndsLine THEN scanLine + 1 ELSE scanLine

DelayAfterTick_NoCountdown == nmiDelay

DelayAfterTick == IF nmiDelay > 0 THEN nmiDelay - 1 ELSE 0

RaisesNmi_IgnoresRead == nmiDelay = 1 /\ nmiFlag

RaisesNmi == nmiDelay = 1 /\ nmiFlag /\ nmiOccured

tick ==
    /\ clock' = NextClock
    /\ scanLine' = NextScanLine
    /\ isEvenScreen' = IF EndsFrame THEN ~isEvenScreen ELSE isEvenScreen

-----------------------------------------------------------------------------
(* PPU::step: the vertical blank flag and the mapper's clock, at the dot   *)
(* that tick moved to.                                                     *)

nmiChange(occured) ==
    LET nmi == nmiFlag /\ occured
    IN  /\ nmiPrevious' = nmi
        /\ nmiDelay' = IF nmi /\ ~nmiPrevious THEN NMI_DELAY
                                              ELSE DelayAfterTick

clearVerticalBlank_NoNmiChange ==
    /\ nmiOccured' = FALSE
    /\ nmiDelay' = DelayAfterTick
    /\ UNCHANGED nmiPrevious

clearVerticalBlank_Never ==
    /\ nmiChange(nmiOccured)
    /\ UNCHANGED nmiOccured

clearVerticalBlank ==
    /\ nmiOccured' = FALSE
    /\ nmiChange(FALSE)

setVerticalBlank ==
    /\ nmiOccured' = TRUE
    /\ nmiChange(TRUE)

SetsVBlank == scanLine' = POST_RENDER_SCAN_LINE + 1 /\ clock' = 1

ClearsVBlank == scanLine' = PRE_RENDER_SCAN_LINE /\ clock' = 1

UpdateVBlank ==
    \/ /\ SetsVBlank
       /\ setVerticalBlank
    \/ /\ ClearsVBlank
       /\ clearVerticalBlank
    \/ /\ ~SetsVBlank /\ ~ClearsVBlank
       /\ nmiDelay' = DelayAfterTick
       /\ UNCHANGED <<nmiOccured, nmiPrevious>>

IsFetchLine_All(line) == line <= PRE_RENDER_SCAN_LINE

IsFetchLine(line) ==
    line < POST_RENDER_SCAN_LINE \/ line = PRE_RENDER_SCAN_LINE

ClocksMapper_EveryDot == rendering /\ IsFetchLine(scanLine')

ClocksMapper == rendering /\ IsFetchLine(scanLine') /\ clock' = IRQ_CLOCK

Dot ==
    /\ tick
    /\ UpdateVBlank
    /\ calls' = (IF RaisesNmi THEN {"triggerNmi"} ELSE {})
                \cup (IF EndsFrame THEN {"render"} ELSE {})
                \cup (IF ClocksMapper THEN {"clockIRQCounter"} ELSE {})
    /\ UNCHANGED <<rendering, nmiFlag>>

-----------------------------------------------------------------------------
(* The registers, as the CPU's program accesses them between two dots.     *)

(* PPUCTRL::write keeps the bit and does nothing else: it neither raises   *)
(* an NMI in the middle of a blank nor withdraws the one that is due.      *)
writePPUCTRL(enable) ==
    /\ nmiFlag' = enable
    /\ calls' = {}
    /\ UNCHANGED <<position, rendering, nmiOccured, nmiPrevious, nmiDelay>>

writePPUMASK(show) ==
    /\ rendering' = show
    /\ calls' = {}
    /\ UNCHANGED <<position, nmiFlag, nmiOccured, nmiPrevious, nmiDelay>>

(* PPUSTATUS::read returns the vertical blank flag and clears it.          *)
readPPUSTATUS ==
    /\ nmiOccured' = FALSE
    /\ nmiPrevious' = FALSE
    /\ calls' = {}
    /\ UNCHANGED <<position, rendering, nmiFlag, nmiDelay>>

Access ==
    \/ \E enable \in BOOLEAN : writePPUCTRL(enable)
    \/ \E show \in BOOLEAN : writePPUMASK(show)
    \/ readPPUSTATUS

Next == Dot \/ Access

Spec == Init /\ [][Next]_vars

(***************************************************************************)
(* Console::step runs at least three dots after every CPU step, whatever   *)
(* the program does, so the PPU is never starved.                          *)
(***************************************************************************)
FairSpec == Spec /\ WF_vars(Dot)

-----------------------------------------------------------------------------
(* Properties.                                                             *)

(* A countdown towards an NMI only runs in the first line of the vertical  *)
(* blank, and the dot number tells how much of it is left: the NMI comes   *)
(* exactly NMI_DELAY dots after setVerticalBlank, whatever the program     *)
(* writes or reads in between, and two countdowns never overlap.           *)
DelayTellsPosition ==
    nmiDelay > 0 =>
        /\ scanLine = POST_RENDER_SCAN_LINE + 1
        /\ clock + nmiDelay = NMI_DELAY + 1

(* The flag PPUSTATUS returns is up only between the dot that raises it    *)
(* and the dot that clears it, so a program that waits for it never sees   *)
(* the blank of an earlier frame.                                          *)
FlagOnlyInBlank ==
    nmiOccured =>
        \/ scanLine = POST_RENDER_SCAN_LINE + 1 /\ clock >= 1
        \/ scanLine \in (POST_RENDER_SCAN_LINE + 2)..(PRE_RENDER_SCAN_LINE - 1)
        \/ scanLine = PRE_RENDER_SCAN_LINE /\ clock = 0

(* The edge detector never stays set once the flag is down: whether the    *)
(* blank ended or the program read PPUSTATUS, the next blank is an edge    *)
(* again and its NMI is not lost.                                          *)
EdgeForgottenWithFlag == nmiPrevious => nmiOccured

(* The mapper's IRQ counter is clocked on drawn lines only: CPU::triggerNmi*)
(* and clockIRQCounter never come from the same dot, nor in a blank.       *)
MapperClockOutsideBlank ==
    "clockIRQCounter" \in calls =>
        /\ ~nmiOccured
        /\ nmiDelay = 0
        /\ "triggerNmi" \notin calls

(* What the PPU promises a program, VBlankNMI, in terms of this state.     *)
Abstract == INSTANCE VBlankNMI WITH
    enabled <- nmiFlag,
    flag    <- nmiOccured,
    owed    <- nmiDelay > 0 /\ nmiOccured,
    raised  <- "triggerNmi" \in calls

(* nmiChange, nmiDelay and the tests in tick together keep that promise,   *)
(* liveness included: every blank that begins with NMIs enabled raises one *)
(* NMI, and one only, unless the program read PPUSTATUS or disabled NMIs   *)
(* during the delay.                                                       *)
ImplementsVBlankNMI == Abstract!Spec

(* A program that leaves NMIs enabled and stops reading PPUSTATUS gets an  *)
(* NMI again and again: no history of earlier toggles and reads loses it.  *)
KeepsInterrupting ==
    \/ []<>(~nmiFlag)
    \/ []<><<readPPUSTATUS>>_vars
    \/ []<>("triggerNmi" \in calls)
=============================================================================
