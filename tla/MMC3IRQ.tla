------------------------------- MODULE MMC3IRQ -------------------------------
(***************************************************************************)
(* The IRQ counter of the MMC3 mapper (src/console/mapper.cpp,             *)
(* MMC3Mapper::clockIRQCounter and the four writeIRQ ports).               *)
(*                                                                         *)
(* The PPU clocks the counter once per drawn line; the program reaches it  *)
(* through four ports only.  The counter runs down, is loaded again from   *)
(* the latch by the clock that finds it at 0, and that clock also requests *)
(* the interrupt.                                                          *)
(***************************************************************************)
EXTENDS Integers

CONSTANTS
    LATCHES,      \* bytes a program writes to the latch
    IRQ_GARBAGE   \* what the uninitialised counter and latch may hold

ASSUME IRQAssumption ==
    /\ LATCHES \subseteq 0..255
    /\ IRQ_GARBAGE \subseteq 0..255

VARIABLES IRQCounter, IRQLatch, IRQReload, IRQEnabled

irqVars == <<IRQCounter, IRQLatch, IRQReload, IRQEnabled>>

IRQTypeOK ==
    /\ IRQCounter \in LATCHES \cup IRQ_GARBAGE
                      \cup UNION {0..n : n \in LATCHES \cup IRQ_GARBAGE}
    /\ IRQLatch \in LATCHES \cup IRQ_GARBAGE
    /\ IRQReload \in BOOLEAN
    /\ IRQEnabled \in BOOLEAN

(* The constructor leaves all four as memory was. *)
IRQInit ==
    /\ IRQCounter \in IRQ_GARBAGE
    /\ IRQLatch \in IRQ_GARBAGE
    /\ IRQReload \in BOOLEAN
    /\ IRQEnabled \in BOOLEAN

(* Whether the clock calls CPU::triggerIrq. *)
RequestsIrq_IgnoresCounter == IRQEnabled

RequestsIrq == IRQCounter = 0 /\ IRQEnabled

ReloadsCounter_OnRequestOnly == IRQReload

ReloadsCounter == IRQCounter = 0 \/ IRQReload

clockIRQCounter ==
    \/ /\ ReloadsCounter
       /\ IRQReload' = FALSE
       /\ IRQCounter' = IRQLatch
       /\ UNCHANGED <<IRQLatch, IRQEnabled>>
    \/ /\ ~ReloadsCounter
       /\ IRQCounter' = (IRQCounter - 1) % 256
       /\ UNCHANGED <<IRQLatch, IRQReload, IRQEnabled>>

writeIRQLatch(value) ==
    /\ IRQLatch' = value
    /\ UNCHANGED <<IRQCounter, IRQReload, IRQEnabled>>

writeIRQReload ==
    /\ IRQReload' = TRUE
    /\ UNCHANGED <<IRQCounter, IRQLatch, IRQEnabled>>

writeIRQDisable ==
    /\ IRQEnabled' = FALSE
    /\ UNCHANGED <<IRQCounter, IRQLatch, IRQReload>>

writeIRQEnable ==
    /\ IRQEnabled' = TRUE
    /\ UNCHANGED <<IRQCounter, IRQLatch, IRQReload>>

(* writePrg to 0xc000 - 0xffff *)
WriteIRQPort ==
    \/ \E value \in LATCHES : writeIRQLatch(value)
    \/ writeIRQReload
    \/ writeIRQDisable
    \/ writeIRQEnable
=============================================================================
