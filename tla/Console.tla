------------------------------- MODULE Console -------------------------------
(***************************************************************************)
(* One console: the CPU, the PPU and the MMC3's IRQ counter, driven by     *)
(* Console::step (src/console/console.cpp).                                *)
(*                                                                         *)
(* A step of the console runs the CPU first: one instruction, or one cycle *)
(* of waiting.  Then the PPU draws three dots per cycle the CPU used; the  *)
(* dots clock the mapper and, directly or through it, interrupt the CPU in *)
(* the middle of the drawing.  An interrupt takes effect at once and makes *)
(* the next steps wait.                                                    *)
(*                                                                         *)
(* PPUTiming and MMC3IRQ are the parts; of the CPU only the cycles it owes *)
(* and its I flag are kept (CPUInterrupts has the rest).  The program is   *)
(* arbitrary: any instruction, any register access, any time.              *)
(***************************************************************************)
EXTENDS PPUTiming, MMC3IRQ

CONSTANTS
    INSTRUCTION_CYCLES,   \* cycles instructions take (2 to 8)
    MAX_CYCLES,           \* the most of them (8)
    INTERRUPT_CYCLES,     \* cycles an interrupt makes the CPU wait (7)
    DMA_CYCLES            \* cycles an OAM DMA makes the CPU wait (513)

LongestWait == DMA_CYCLES + 1 + INTERRUPT_CYCLES

(***************************************************************************)
(* A line is longer than an interrupt and an instruction, a blank longer   *)
(* than all a CPU may wait for; a DMA is longer than an interrupt.  The    *)
(* mapper is clocked after the dot of the NMI, not at a dot that may be    *)
(* skipped.                                                                *)
(***************************************************************************)
ASSUME ConsoleAssumption ==
    /\ MAX_CYCLES \in Nat \ {0}
    /\ INSTRUCTION_CYCLES \subseteq 1..MAX_CYCLES
    /\ INTERRUPT_CYCLES \in Nat \ {0}
    /\ DMA_CYCLES \in Nat
    /\ INTERRUPT_CYCLES <= DMA_CYCLES
    /\ 3 * (MAX_CYCLES + INTERRUPT_CYCLES - 1) < CLOCK_CYCLE
    /\ 3 * (MAX_CYCLES + LongestWait) + NMI_DELAY + 1
           <= (PRE_RENDER_SCAN_LINE - POST_RENDER_SCAN_LINE - 1) * CLOCK_CYCLE
    /\ NMI_DELAY < IRQ_CLOCK /\ IRQ_CLOCK + 1 < CLOCK_CYCLE

VARIABLES
    I,              \* the CPU's flag of that name
    cyclesToWait,   \* cycles the CPU waits before its next instruction
    dotsLeft,       \* dots PPU::step still has to draw in this step
    entered,        \* history: the handler entered last, until it starts
    irqLine         \* history: the drawn line of the last IRQ request

cpuVars == <<I, cyclesToWait, dotsLeft>>

consoleVars == <<vars, irqVars, cpuVars, entered, irqLine>>

(* The lines that clock the mapper, in order: pre-render, then the drawn.  *)
DrawnLine(line) == IF line = PRE_RENDER_SCAN_LINE THEN 0 ELSE line + 1

DrawnLines == POST_RENDER_SCAN_LINE + 1

Unknown == -1

ConsoleTypeOK ==
    /\ TypeOK
    /\ IRQTypeOK
    /\ I \in BOOLEAN
    /\ cyclesToWait \in Nat
    /\ dotsLeft \in 0..(3 * MAX_CYCLES)
    /\ entered \in {"none", "nmi", "irq"}
    /\ irqLine \in {Unknown} \cup 0..(DrawnLines - 1)

ConsoleInit ==
    /\ Init
    /\ IRQInit
    /\ I = TRUE
    /\ cyclesToWait = 0
    /\ dotsLeft = 0
    /\ entered = "none"
    /\ irqLine = Unknown

-----------------------------------------------------------------------------
(* The CPU's part of a step.                                               *)

(* The dots that pay for the cycles the CPU just used. *)
Uses_BeforeCounting(cycles) == dotsLeft' = 0

Uses(cycles) == dotsLeft' = 3 * cycles

(* Console::step resets the CPU first when the interface asks for it.      *)
(* The cycles owed, the PPU and its pending NMI are none of reset's.       *)
Resets(reset) == IF reset THEN TRUE ELSE I

Entered(reset) == IF reset THEN "none" ELSE entered

(* The PPU is not touched. *)
PPUIdle ==
    /\ calls' = {}
    /\ UNCHANGED <<position, rendering, nmiFlag, nmiOccured, nmiPrevious, nmiDelay>>

Wait_Forever(reset) ==
    /\ cyclesToWait > 0
    /\ Uses(1)
    /\ I' = Resets(reset)
    /\ entered' = Entered(reset)
    /\ PPUIdle
    /\ UNCHANGED <<irqVars, irqLine, cyclesToWait>>

Wait(reset) ==
    /\ cyclesToWait > 0
    /\ cyclesToWait' = cyclesToWait - 1
    /\ Uses(1)
    /\ I' = Resets(reset)
    /\ entered' = Entered(reset)
    /\ PPUIdle
    /\ UNCHANGED <<irqVars, irqLine>>

(* An instruction that keeps to the CPU and its memory; it may set or      *)
(* clear I, as SEI, CLI, PLP and RTI do.                                   *)
Ordinary ==
    /\ I' \in BOOLEAN
    /\ PPUIdle
    /\ UNCHANGED <<irqVars, irqLine, cyclesToWait>>

brk ==
    /\ I' = TRUE
    /\ cyclesToWait' = INTERRUPT_CYCLES
    /\ PPUIdle
    /\ UNCHANGED <<irqVars, irqLine>>

(* A read or write of PPUCTRL, PPUMASK or PPUSTATUS. *)
AccessPPU(reset) ==
    /\ Access
    /\ irqLine' = IF rendering' THEN irqLine ELSE Unknown
    /\ I' = Resets(reset)
    /\ UNCHANGED <<irqVars, cyclesToWait>>

(* OAMDMA::write: the length of the wait depends on the dot. *)
writeOAMDMA(reset) ==
    /\ cyclesToWait' = DMA_CYCLES + (clock % 2)
    /\ I' = Resets(reset)
    /\ PPUIdle
    /\ UNCHANGED <<irqVars, irqLine>>

AccessMapper(reset) ==
    /\ WriteIRQPort
    /\ irqLine' = Unknown
    /\ I' = Resets(reset)
    /\ PPUIdle
    /\ UNCHANGED cyclesToWait

Execute(reset) ==
    /\ cyclesToWait = 0
    /\ \E cycles \in INSTRUCTION_CYCLES : Uses(cycles)
    /\ entered' = "none"
    /\ \/ Ordinary
       \/ brk
       \/ AccessPPU(reset)
       \/ writeOAMDMA(reset)
       \/ AccessMapper(reset)

CpuStep ==
    /\ dotsLeft = 0
    /\ \E reset \in BOOLEAN : Wait(reset) \/ Execute(reset)

-----------------------------------------------------------------------------
(* The PPU's part: one dot, with the calls it makes on CPU and mapper.     *)

(* The mapper's clock requests an IRQ; the CPU takes it if (I).            *)
IrqRequested == "clockIRQCounter" \in calls' /\ RequestsIrq

Interrupted == "triggerNmi" \in calls' \/ (IrqRequested /\ I)

InterruptCost_Nothing == 0

InterruptCost == INTERRUPT_CYCLES

NextDot ==
    /\ dotsLeft > 0
    /\ dotsLeft' = dotsLeft - 1
    /\ Dot
    /\ IF "clockIRQCounter" \in calls' THEN clockIRQCounter ELSE UNCHANGED irqVars
    /\ \/ /\ Interrupted
          /\ I' = TRUE
          /\ cyclesToWait' = cyclesToWait + InterruptCost
          /\ entered' = IF IrqRequested THEN "irq" ELSE "nmi"
       \/ /\ ~Interrupted
          /\ UNCHANGED <<I, cyclesToWait, entered>>
    /\ irqLine' = IF IrqRequested THEN DrawnLine(scanLine') ELSE irqLine

ConsoleNext == CpuStep \/ NextDot

(***************************************************************************)
(* main calls Console::step in a loop for as long as the window is open.   *)
(***************************************************************************)
ConsoleSpec ==
    ConsoleInit /\ [][ConsoleNext]_consoleVars /\ WF_consoleVars(ConsoleNext)

-----------------------------------------------------------------------------
(* Properties.                                                             *)

(* The console drives the PPU as PPUTiming assumes: it is accessed between *)
(* dots only, and never starved.                                           *)
DrivesPPU == FairSpec

(* Interrupts that arrive while the CPU waits for a DMA or for an earlier  *)
(* interrupt add up, but not beyond one DMA and one interrupt: a line pays *)
(* for the interrupt it brings, whatever the program does.                 *)
WaitIsBounded == cyclesToWait <= LongestWait

(* Dots since the NMI of this blank is raised, a screen being drawn.       *)
DotsSinceNmi ==
    (scanLine - POST_RENDER_SCAN_LINE - 1) * CLOCK_CYCLE + clock - (NMI_DELAY + 1)

(* The NMI handler starts in the blank of its NMI, after the 7 cycles of   *)
(* the interrupt and no later than a DMA and an instruction that were      *)
(* under way allow, whatever else interrupted the CPU before.              *)
HandlerStartsInTime ==
    [][entered = "nmi" /\ entered' = "none" /\ cyclesToWait = 0 =>
           /\ DotsSinceNmi >= 3 * INTERRUPT_CYCLES
           /\ DotsSinceNmi < 3 * (MAX_CYCLES + LongestWait)
           /\ scanLine < PRE_RENDER_SCAN_LINE]_consoleVars

(* While the screen is drawn and the program leaves the IRQ ports alone,   *)
(* IRQs are requested every latch + 1 drawn lines, across frames, and on   *)
(* no other line.                                                          *)
RasterLine ==
    [][irqLine # Unknown /\ "clockIRQCounter" \in calls' /\ IRQLatch < DrawnLines =>
           (IrqRequested <=> (DrawnLine(scanLine') - irqLine) % DrawnLines
                                 = (IRQLatch + 1) % DrawnLines)]_consoleVars

(* The CPU executes instructions for ever: however interrupts and DMAs     *)
(* follow each other, waiting ends.                                        *)
KeepsExecuting == []<><<\E reset \in BOOLEAN : Execute(reset)>>_consoleVars
=============================================================================
