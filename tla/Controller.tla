----------------------------- MODULE Controller -----------------------------
(***************************************************************************)
(* The two game controllers (src/console/controller.cpp).  At each step    *)
(* the console sets the buttons that are pressed; the program reads them   *)
(* one by one, with a strobe that holds the first one.                     *)
(*                                                                         *)
(* A controller is left or right; buttons are numbered in the order the    *)
(* program reads them, from 0 to LAST_BUTTON (RIGHT, 7).                   *)
(***************************************************************************)
EXTENDS Integers

CONSTANT LAST_BUTTON

ASSUME ButtonAssumption == LAST_BUTTON \in Nat

Sides == {"left", "right"}
Buttons == 0..LAST_BUTTON
ButtonSet == [Buttons -> BOOLEAN]

VARIABLES
    buttons,    \* the buttons pressed, by side
    index,      \* the button read next
    strobe      \* the first button is read again and again

controllerVars == <<buttons, index, strobe>>

ControllerTypeOK ==
    /\ buttons \in [Sides -> ButtonSet]
    /\ index \in [Sides -> Buttons]
    /\ strobe \in [Sides -> BOOLEAN]

ControllerInit ==
    /\ buttons = [side \in Sides |-> [b \in Buttons |-> FALSE]]
    /\ index = [side \in Sides |-> 0]
    /\ strobe = [side \in Sides |-> FALSE]

(* The button a read of the controller's port tells of.                    *)
Reported(side) == IF strobe[side] THEN 0 ELSE index[side]

AfterRead_KeepsIndex(side) ==
    IF strobe[side] \/ index[side] = LAST_BUTTON THEN index[side] ELSE index[side] + 1

AfterRead(side) ==
    IF strobe[side] \/ index[side] = LAST_BUTTON THEN 0 ELSE index[side] + 1

readController(side) ==
    /\ index' = [index EXCEPT ![side] = AfterRead(side)]
    /\ UNCHANGED <<buttons, strobe>>

(* Only the lowest bit counts.  The strobe does not touch the index: it is *)
(* the next read with the strobe set that starts again at the first button.*)
writeController(side, value) ==
    /\ strobe' = [strobe EXCEPT ![side] = value % 2 = 1]
    /\ UNCHANGED <<buttons, index>>

(* Controller::set, for both, before each step of the CPU.                 *)
setControllers(left, right) ==
    /\ buttons' = [side \in Sides |-> IF side = "left" THEN left ELSE right]
    /\ UNCHANGED <<index, strobe>>
=============================================================================
