------------------------------ MODULE VBlankNMI ------------------------------
(***************************************************************************)
(* What the PPU promises a program about the vertical blank, with no dots  *)
(* and no countdown.  A blank begins and ends; the program can see it in   *)
(* the flag of PPUSTATUS, and the first read takes the flag away.  A blank *)
(* that begins with NMIs enabled owes the program one NMI; it is paid      *)
(* before the blank ends, unless the program reads the flag first or has   *)
(* disabled NMIs by then.  Enabling NMIs in the middle of a blank owes     *)
(* nothing.                                                                *)
(***************************************************************************)

VARIABLES
    enabled,   \* the program asks for NMIs
    flag,      \* the vertical blank flag
    owed,      \* this blank owes an NMI
    raised     \* the last step raised an NMI

vars == <<enabled, flag, owed, raised>>

TypeOK ==
    /\ enabled \in BOOLEAN
    /\ flag \in BOOLEAN
    /\ owed \in BOOLEAN
    /\ raised \in BOOLEAN

Init ==
    /\ enabled = FALSE
    /\ flag = FALSE
    /\ owed = FALSE
    /\ raised = FALSE

BeginBlank ==
    /\ ~flag
    /\ flag' = TRUE
    /\ owed' = enabled
    /\ raised' = FALSE
    /\ UNCHANGED enabled

Settle ==
    /\ owed
    /\ owed' = FALSE
    /\ raised' = enabled
    /\ UNCHANGED <<enabled, flag>>

EndBlank ==
    /\ flag /\ ~owed
    /\ flag' = FALSE
    /\ raised' = FALSE
    /\ UNCHANGED <<enabled, owed>>

(* Time passes. *)
Pass ==
    /\ raised' = FALSE
    /\ UNCHANGED <<enabled, flag, owed>>

SetEnabled ==
    /\ enabled' \in BOOLEAN
    /\ raised' = FALSE
    /\ UNCHANGED <<flag, owed>>

ReadFlag ==
    /\ flag' = FALSE
    /\ owed' = FALSE
    /\ raised' = FALSE
    /\ UNCHANGED enabled

Next == BeginBlank \/ Settle \/ EndBlank \/ Pass \/ SetEnabled \/ ReadFlag

SafeSpec == Init /\ [][Next]_vars

(* Blanks keep coming and an NMI that is owed is settled. *)
Spec == SafeSpec /\ WF_vars(BeginBlank) /\ WF_vars(Settle) /\ WF_vars(EndBlank)
=============================================================================
